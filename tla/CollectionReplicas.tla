------------------------- MODULE CollectionReplicas -------------------------
(***************************************************************************)
(* Peers that share one Array and the keys of a Map.                       *)
(***************************************************************************)
EXTENDS Replicas

CONSTANT Array    \* the root Array that is edited

ASSUME ArrayAssumption == Array \in List \ Key

\* A value counts for one on both sides of the wire, whatever it is.
ASSUME ValueAssumption == WideChar = {}

Values(n) == [k \in 1 .. n |-> typed + k]

\* The last n items of a heap: the new ones.
Newest(d, n) == [k \in 1 .. n |-> Len(d.heap) - n + k]

ArrayPush(r, n) ==
    LET d == Push(doc[r], r, Array, Values(n))
    IN  Inserts(r, d, Newest(d, n), n)

ArrayInsertAt(r, i, n) ==
    LET d == ArrayInsert(doc[r], r, Array, i, Values(n))
    IN  Inserts(r, d, Newest(d, n), n)

ArrayDeleteAt(r, i, n) == Deletes(r, ArrayDelete(doc[r], Array, i, n))

MapSet(r, key) ==
    LET d == Set(doc[r], r, key, typed + 1)
    IN  Inserts(r, d, Newest(d, 1), 1)

MapDeleteKey(r, key) == Deletes(r, MapDelete(doc[r], key))

Indexes(r) == 0 .. textLen(doc[r], Array) + 1

Next ==
    \/ \E r \in Client, n \in InsertLen : ArrayPush(r, n)
    \/ \E r \in Client, n \in InsertLen : \E i \in Indexes(r) : ArrayInsertAt(r, i, n)
    \/ \E r \in Client, n \in DeleteLen : \E i \in Indexes(r) : ArrayDeleteAt(r, i, n)
    \/ \E r \in Client, key \in Key : MapSet(r, key)
    \/ \E r \in Client, key \in Key : MapDeleteKey(r, key)
    \/ Exchange

Spec == Init /\ [][Next]_vars

-----------------------------------------------------------------------------
(***************************************************************************)
(* The Array.                                                              *)
(***************************************************************************)
Order(d) == chain(d, d.start[Array])

\* Array.Push, Insert and Delete splice and cut the visible values at the index
\* they are given, however many tombstones the list holds around it.
Buffer(r) == INSTANCE StringBuffer
             WITH text <- visible(doc[r], Array), MaxLen <- Max(InsertLen \cup DeleteLen)

EditsHitTheirIndex ==
    [][\A r \in Client :
          /\ \A n \in InsertLen :
                /\ ArrayPush(r, n) => Buffer(r)!InsertAt(textLen(doc[r], Array), Values(n))
                /\ \A i \in Indexes(r) :
                      ArrayInsertAt(r, i, n) => Buffer(r)!InsertAt(i, Values(n))
          /\ \A n \in DeleteLen, i \in Indexes(r) :
                ArrayDeleteAt(r, i, n) => Buffer(r)!CutAt(i, n)]_vars

\* Where updates come in causal order the Array holds every item once, the
\* deleted ones too, and each to the right of the item it was put after, also
\* when several peers insert at one place and delete what others insert after
\* (integrateItem, Array.Insert and Array.Push relink the same list).
NoItemLost ==
    causal /\ syncs = 0 =>
        \A r \in Client :
            LET d    == doc[r]
                refs == Order(d)
                At(id) == CHOOSE k \in DOMAIN refs : d.heap[refs[k]].id = id
            IN  /\ IsInjective(refs)
                /\ Range(refs) = { k \in DOMAIN d.heap : d.heap[k].list \notin Key }
                /\ \A k \in DOMAIN refs :
                      LET origin == d.heap[refs[k]].oleft
                      IN  origin = NoID \/ At(origin) < k

\* No edit, update or state takes an item out of the Array or changes the order
\* of two items in it.
OrderIsStable ==
    [][\A r \in Client :
          \/ doc[r] = doc'[r]
          \/ Order(doc[r]) = Among(Order(doc'[r]), Range(Order(doc[r])))]_vars

(***************************************************************************)
(* The Map.                                                                *)
(***************************************************************************)
\* The IDs under which the updates applied at r set key.
SetIds(r, key) ==
    { it.id : it \in { x \in UNION { Range(u.items) : u \in Applied(r) } : x.list = key } }

\* A peer that never sets a key itself shows the value with the highest ID among
\* those it received, unless that one was deleted, in whatever order the sets of
\* the others came: such peers agree (integrateItem, setFirstItem, Map.Get).
ReadersSeeTheHighest ==
    \A r \in Client, key \in Key :
        (\A it \in Range(doc[r].heap) : it.list = key => it.id.client # r) /\ syncs = 0 =>
            LET ids == SetIds(r, key)
                top == CHOOSE id \in ids : \A other \in ids : ~compareIDs(other, id)
            IN  Get(doc[r], key) = IF ids = {} THEN <<>>
                                   ELSE IF top \in Removed(r) THEN <<>>
                                   ELSE doc[r].heap[getItem(doc[r], top)].str

\* What comes from other peers takes a value from a key only to put one with a
\* higher ID in its place or to delete it; it never brings a deleted value back
\* (integrateItem, applyDeleteRange).
RemoteSetsAreHigher ==
    [][\A r \in Client, key \in Key :
          \/ Get(doc'[r], key) = Get(doc[r], key)
          \/ tx[r] # tx'[r]
          \/ LET old == doc[r].heap[doc[r].start[key]]
                 new == doc'[r].heap[doc'[r].start[key]]
             IN  \/ new.deleted
                 \/ doc[r].start[key] = Nil
                 \/ compareIDs(new.id, old.id)]_vars
=============================================================================
