------------------------------- MODULE Document -------------------------------
(***************************************************************************)
(* One yjs.Doc as a value, and the functions that transform it.            *)
(*                                                                         *)
(* A document is a heap of items, the StructStore that lists a client's    *)
(* items, the accumulated delete set and the first item of every list.  An *)
(* *Item is an index into the heap, so that two items may carry the same   *)
(* ID, which the code does not exclude.  A string is a sequence of         *)
(* characters; a character is a number, and the numbers in WideChar are    *)
(* the ones outside the Basic Multilingual Plane, that count for two       *)
(* UTF-16 code units.                                                      *)
(*                                                                         *)
(* A definition whose comment begins with "Mutant" is a plausible mistake   *)
(* in the definition after it; nothing but the mutation runs uses it.      *)
(*                                                                         *)
(* Left out: Item.Left, which only the branch offset = 0 of splitItemAt    *)
(* reads, and no caller passes it 0; Item.OriginRight, which every item    *)
(* this code creates leaves nil.                                           *)
(***************************************************************************)
EXTENDS Integers, Sequences, SequencesExt, FiniteSets, SortSearch, Loops

CONSTANTS Client,    \* the client IDs; compareIDs orders them
          List,      \* the linked lists: a root Text or Array, or one Map key
          Key,       \* the lists that are the items of a Map key
          NoList,    \* the Parent of an item whose type is not resolved
          WideChar   \* the characters that take two UTF-16 code units

ASSUME ClientAssumption == Client \subseteq Nat \ {0} /\ IsFiniteSet(Client)
ASSUME ListAssumption   == Key \subseteq List /\ NoList \notin List

Nil  == 0                                 \* the nil *Item
NoID == [client |-> 0, clock |-> 0]       \* the nil *ID: 0 is no client's ID

(***************************************************************************)
(* StructStore and deleteSet (store.go).                                   *)
(***************************************************************************)
EmptyDoc == [heap  |-> <<>>,
             store |-> [c \in Client |-> <<>>],
             ds    |-> <<>>,
             start |-> [l \in List |-> Nil],
             panic |-> FALSE]

\* compareIDs(a, b) > 0
compareIDs(a, b) ==
    \/ a.client > b.client
    \/ a.client = b.client /\ a.clock > b.clock

\* Mutant: the last clock in use, not the next one.
getStateLastClock(d, c) ==
    LET s == d.store[c] IN IF s = <<>> THEN 0 ELSE d.heap[Last(s)].id.clock

\* The next clock of a client: the end of the last entry of its slice.
getState(d, c) ==
    LET s == d.store[c]
    IN  IF s = <<>> THEN 0 ELSE d.heap[Last(s)].id.clock + d.heap[Last(s)].len

stateVector(d) == [c \in Client |-> getState(d, c)]

\* The item that contains id, or Nil.
getItem(d, id) ==
    LET s   == d.store[id.client]
        idx == Search(Len(s), { i \in 0 .. Len(s) - 1 : d.heap[s[i + 1]].id.clock > id.clock })
    IN  IF /\ idx > 0
           /\ d.heap[s[idx]].id.clock + d.heap[s[idx]].len > id.clock
        THEN s[idx] ELSE Nil

Fresh(d) == Len(d.heap) + 1               \* where the next item is allocated

\* Mutant: the item is filed under the client it was typed after.
addItemByOrigin(d, item) ==
    LET c == IF item.oleft = NoID THEN item.id.client ELSE item.oleft.client
    IN  [d EXCEPT !.heap = Append(@, item), !.store[c] = Append(@, Fresh(d))]

addItem(d, item) ==
    [d EXCEPT !.heap = Append(@, item),
              !.store[item.id.client] = Append(@, Fresh(d))]

isDeleted(d, id) ==
    \E k \in DOMAIN d.ds :
        /\ d.ds[k].client = id.client
        /\ id.clock \in d.ds[k].clock .. d.ds[k].clock + d.ds[k].len - 1

(***************************************************************************)
(* The linked list: item.Right from an item to the end of its chain.       *)
(***************************************************************************)
chain(d, first) ==
    LET follow[r \in 0 .. Len(d.heap)] ==
            IF r = Nil THEN <<>> ELSE <<r>> \o follow[d.heap[r].right]
    IN  follow[first]

live(d, list) ==
    Among(chain(d, d.start[list]), { r \in DOMAIN d.heap : ~d.heap[r].deleted })

\* Mutant: an item without a left neighbour does not become the first.
linkKeepsStart(d, ref, left, right, list) ==
    LET linked == [d EXCEPT !.heap[ref].right = right]
    IN  IF left = Nil THEN [linked EXCEPT !.start[list] = IF @ = Nil THEN ref ELSE @]
        ELSE [linked EXCEPT !.heap[left].right = ref]

link(d, ref, left, right, list) ==
    LET linked == [d EXCEPT !.heap[ref].right = right]
    IN  IF left = Nil THEN [linked EXCEPT !.start[list] = ref]
        ELSE [linked EXCEPT !.heap[left].right = ref]

\* Text.String
visible(d, list) == Loop(LAMBDA s, r : s \o d.heap[r].str, <<>>, live(d, list))

\* Text.Len
textLen(d, list) == Loop(LAMBDA n, r : n + d.heap[r].len, 0, live(d, list))

(***************************************************************************)
(* Integration of a remote item (integrate.go).                            *)
(***************************************************************************)
originClock(item) == IF item.oleft = NoID THEN 0 ELSE item.oleft.clock + 1

\* Mutant: items at one origin are ordered the other way round.
lssIsBeforeReversed(item, other) ==
    IF originClock(item) # originClock(other)
    THEN originClock(item) > originClock(other)
    ELSE compareIDs(other.id, item.id)

\* Mutant: a tie goes to the item that comes last.
lssIsBeforeNoTie(item, other) == originClock(item) >= originClock(other)

lssIsBefore(item, other) ==
    IF originClock(item) # originClock(other)
    THEN originClock(item) > originClock(other)
    ELSE compareIDs(item.id, other.id)

\* The item goes to the left of the first candidate it is before.  It is in
\* the store even when its parent cannot be resolved and it is not linked.
integrateItem(d, item) ==
    LET ref   == Fresh(d)
        added == addItem(d, [item EXCEPT !.deleted = isDeleted(d, item.id)])
        left  == IF item.oleft = NoID THEN Nil ELSE getItem(added, item.oleft)
        list  == IF item.list # NoList \/ left = Nil
                 THEN item.list ELSE added.heap[left].list
        cands == chain(added, IF left = Nil THEN added.start[list]
                              ELSE added.heap[left].right)
        at    == SelectInSeq(cands, LAMBDA o : lssIsBefore(item, added.heap[o]))
        right == IF at = 0 THEN Nil ELSE cands[at]
        prev  == IF at = 0 THEN Len(cands) ELSE at - 1
    IN  IF getItem(d, item.id) # Nil THEN d
        ELSE IF list = NoList THEN added
        ELSE link([added EXCEPT !.heap[ref].list = list], ref,
                  IF prev = 0 THEN left ELSE cands[prev], right, list)

(***************************************************************************)
(* Splitting an item.  The right part is a new item, never marked deleted. *)
(***************************************************************************)
\* Mutant: the left part keeps the length of the whole item.
cutKeepsLength(d, r, offset) ==
    LET it    == d.heap[r]
        right == [it EXCEPT !.id.clock = @ + offset,
                            !.str      = SubSeq(@, offset + 1, Len(@)),
                            !.len      = Len(it.str) - offset,
                            !.deleted  = FALSE]
    IN  [d EXCEPT !.heap = Append([@ EXCEPT ![r].str   = SubSeq(@, 1, offset),
                                            ![r].right = Fresh(d)], right)]

\* Mutant: the right part is the end of the chain.
cutEndsChain(d, r, offset) ==
    LET it    == d.heap[r]
        right == [it EXCEPT !.id.clock = @ + offset,
                            !.str      = SubSeq(@, offset + 1, Len(@)),
                            !.len      = Len(it.str) - offset,
                            !.right    = Nil,
                            !.deleted  = FALSE]
    IN  [d EXCEPT !.heap = Append([@ EXCEPT ![r].str   = SubSeq(@, 1, offset),
                                            ![r].len   = offset,
                                            ![r].right = Fresh(d)], right)]

cut(d, r, offset) ==
    LET it    == d.heap[r]
        right == [it EXCEPT
                     !.id.clock = @ + offset,
                     !.oleft    = [it.id EXCEPT !.clock = @ + offset - 1],
                     !.str      = SubSeq(@, offset + 1, Len(@)),
                     !.len      = Len(it.str) - offset,
                     !.deleted  = FALSE]
    IN  [d EXCEPT !.heap = Append([@ EXCEPT ![r].str   = SubSeq(@, 1, offset),
                                            ![r].len   = offset,
                                            ![r].right = Fresh(d)], right)]

insertIntoStore(d, ref) ==
    LET it  == d.heap[ref]
        at  == SelectInSeq(d.store[it.id.client],
                           LAMBDA r : d.heap[r].id.clock >= it.id.clock)
    IN  [d EXCEPT !.store[it.id.client] =
                     InsertAt(@, IF at = 0 THEN Len(@) + 1 ELSE at, ref)]

\* delete.go: the split of a remote range keeps the slice in clock order.
splitAtClock(d, client, clock) ==
    LET r      == getItem(d, [client |-> client, clock |-> clock])
        offset == clock - d.heap[r].id.clock
    IN  IF r = Nil THEN d
        ELSE IF offset = 0 \/ offset >= Len(d.heap[r].str) THEN d
        ELSE insertIntoStore(cut(d, r, offset), Fresh(d))

\* text.go: the split of a local edit appends to the slice.  The offset counts
\* Length units and the slice expression runes: it panics beyond the last rune.
splitItemAt(d, r, offset) ==
    LET split == cut(d, r, offset)
    IN  IF offset > Len(d.heap[r].str) THEN [d EXCEPT !.panic = TRUE]
        ELSE [split EXCEPT !.store[d.heap[r].id.client] = Append(@, Fresh(d))]

markDeleted(d, refs) ==
    [d EXCEPT !.heap = [r \in DOMAIN d.heap |-> [d.heap[r] EXCEPT !.deleted = @ \/ r \in refs]]]

applyDeleteRange(d, range) ==
    LET end   == range.clock + range.len
        split == splitAtClock(splitAtClock(d, range.client, range.clock),
                              range.client, end)
        s     == split.store[range.client]
        stop  == SelectInSeq(s, LAMBDA r : split.heap[r].id.clock >= end)
        upto  == IF stop = 0 THEN Len(s) ELSE stop - 1
    IN  markDeleted(split, { r \in { s[k] : k \in 1 .. upto } :
                                 split.heap[r].id.clock >= range.clock })

(***************************************************************************)
(* Local edits of a Text (text.go).                                        *)
(***************************************************************************)
\* The items of refs on the two sides of an index, after the split it may need.
position(d, refs, index) ==
    LET end[k \in 0 .. Len(refs)] ==
            IF k = 0 THEN 0 ELSE end[k - 1] + d.heap[refs[k]].len
        hits  == { k \in 0 .. Len(refs) : end[k] >= index }
        k     == IF hits = {} THEN Len(refs) ELSE Min(hits)
        At(i) == IF i \in DOMAIN refs THEN refs[i] ELSE Nil
    IN  IF end[k] > index
        THEN [doc  |-> splitItemAt(d, refs[k], index - end[k - 1]),
              left |-> refs[k], right |-> Fresh(d)]
        ELSE [doc |-> d, left |-> At(k), right |-> At(k + 1)]

\* Mutant: deleted characters count for the index.
findPositionAtDeleted(d, list, index) == position(d, chain(d, d.start[list]), index)

findPositionAt(d, list, index) == position(d, live(d, list), index)

\* A new item of a local edit, linked between left and right.
place(d, client, clock, list, left, right, str) ==
    LET prev == d.heap[left]
        item == [id      |-> [client |-> client, clock |-> clock],
                 len     |-> Len(str),
                 str     |-> str,
                 oleft   |-> IF left = Nil THEN NoID
                             ELSE [prev.id EXCEPT !.clock = @ + prev.len - 1],
                 right   |-> Nil,
                 deleted |-> FALSE,
                 list    |-> list]
    IN  link(addItem(d, item), Fresh(d), left, right, list)

\* The clock is read before the position is looked up, and so before a split.
Insert(d, client, list, index, str) ==
    LET pos == findPositionAt(d, list, index)
    IN  IF pos.doc.panic THEN pos.doc
        ELSE place(pos.doc, client, getState(d, client), list, pos.left, pos.right, str)

\* Text.Delete: the walk over the live items, and the refs it deleted.
Delete(d, list, index, length) ==
    LET Visit(acc, r) ==
            LET skip  == IF acc.pos < index THEN index - acc.pos ELSE 0
                end   == acc.pos + acc.doc.heap[r].len
                d1    == IF skip > 0 THEN splitItemAt(acc.doc, r, skip) ELSE acc.doc
                ref   == IF skip > 0 THEN Fresh(acc.doc) ELSE r
                len   == d1.heap[ref].len
                d2    == IF len > acc.rem THEN splitItemAt(d1, ref, acc.rem) ELSE d1
            IN  IF acc.rem = 0 \/ acc.doc.panic THEN acc
                ELSE IF end <= index THEN [acc EXCEPT !.pos = end]
                ELSE IF d1.panic \/ d2.panic
                     THEN [acc EXCEPT !.doc = [d2 EXCEPT !.panic = TRUE]]
                ELSE [doc  |-> markDeleted(d2, {ref}),
                      dels |-> Append(acc.dels, ref),
                      pos  |-> end,
                      rem  |-> acc.rem - d2.heap[ref].len]
    IN  Loop(Visit, [doc |-> d, dels |-> <<>>, pos |-> 0, rem |-> length],
                 live(d, list))

(***************************************************************************)
(* Local edits of an Array (array.go): one item per value, and the list     *)
(* keeps its tombstones.  A value is a string of one character.             *)
(***************************************************************************)
\* Mutant: the last visible item, not the last item.
PushAfterVisible(d, client, list, values) ==
    Loop(LAMBDA acc, v :
                 place(acc, client, getState(acc, client), list,
                       IF live(acc, list) = <<>> THEN Nil ELSE Last(live(acc, list)), Nil, <<v>>),
             d, values)

Push(d, client, list, values) ==
    LET Append1(acc, v) ==
            LET refs == chain(acc, acc.start[list])
            IN  place(acc, client, getState(acc, client), list,
                      IF refs = <<>> THEN Nil ELSE Last(refs), Nil, <<v>>)
    IN  Loop(Append1, d, values)

\* Mutant: the item before the index is counted from the tombstones too.
findItemAtIndexDeleted(d, list, index) ==
    LET refs == chain(d, d.start[list])
    IN  IF index = 0 \/ refs = <<>> THEN Nil ELSE refs[Min({index, Len(refs)})]

\* The visible item before the index, the last one if the index is beyond.
findItemAtIndex(d, list, index) ==
    LET refs == live(d, list)
    IN  IF index = 0 \/ refs = <<>> THEN Nil ELSE refs[Min({index, Len(refs)})]

\* Mutant: the item goes between two visible ones, as Text.Insert has it.
ArrayInsertVisible(d, client, list, index, values) ==
    Loop(LAMBDA acc, k :
                 LET refs == live(acc, list)
                     i    == Min({index + k - 1, Len(refs)})
                 IN  place(acc, client, getState(acc, client), list,
                           IF i = 0 THEN Nil ELSE refs[i],
                           IF i = Len(refs) THEN Nil ELSE refs[i + 1], <<values[k]>>),
             d, [k \in DOMAIN values |-> k])

\* A later value follows the item of the clock before its own.
ArrayInsert(d, client, list, index, values) ==
    LET left  == findItemAtIndex(d, list, index)
        right == IF left = Nil THEN d.start[list] ELSE d.heap[left].right
        Add(acc, v) ==
            LET clock == getState(acc, client)
                prev  == IF acc = d THEN left
                         ELSE getItem(acc, [client |-> client, clock |-> clock - 1])
            IN  place(acc, client, clock, list, prev, right, <<v>>)
    IN  Loop(Add, d, values)

\* The items are deleted in the order of the list.
ArrayDelete(d, list, index, length) ==
    LET refs == live(d, list)
        dels == SubSeq(refs, index + 1, Min({index + length, Len(refs)}))
    IN  [doc |-> markDeleted(d, Range(dels)), dels |-> dels]

(***************************************************************************)
(* Local edits of one key of a Map (map.go).                               *)
(***************************************************************************)
\* The value, as a string of one character, or the empty one.
Get(d, key) ==
    LET item == d.heap[d.start[key]]
    IN  IF d.start[key] = Nil THEN <<>> ELSE IF item.deleted THEN <<>> ELSE item.str

\* The item that was first is marked deleted, is not announced as deleted, and
\* leaves the list.
Set(d, client, key, value) ==
    place(markDeleted(d, {d.start[key]}), client, getState(d, client), key, Nil, Nil, <<value>>)

\* Mutant: the deletion is not announced.
MapDeleteSilent(d, key) == [doc |-> markDeleted(d, {d.start[key]}), dels |-> <<>>]

MapDelete(d, key) ==
    IF Get(d, key) = <<>> THEN [doc |-> d, dels |-> <<>>]
    ELSE [doc |-> markDeleted(d, {d.start[key]}), dels |-> <<d.start[key]>>]

\* What a document shows.
shown(d) == [l \in List |-> IF l \in Key THEN Get(d, l) ELSE visible(d, l)]

(***************************************************************************)
(* Updates (encoding.go, protocol/update.go, doc.go).                      *)
(***************************************************************************)
utf16Len(str) == Len(str) + Cardinality({ k \in DOMAIN str : str[k] \in WideChar })

\* What is left of an item that was on the wire (itemToEncoded, encodedToItem):
\* neither its mark of deletion nor, if it has an origin, its parent.
encodedToItem(it, clock) ==
    [it EXCEPT !.id.clock = clock,
               !.len      = utf16Len(it.str),
               !.right    = Nil,
               !.deleted  = FALSE,
               !.list     = IF it.oleft = NoID THEN @ ELSE NoList]

\* Mutant: every item is read with the first clock.
decodedFirstClock(d, refs) ==
    [k \in DOMAIN refs |-> encodedToItem(d.heap[refs[k]], d.heap[refs[1]].id.clock)]

\* What the decoder makes of the items of one client: only the first clock is
\* on the wire, every later one is the end of the item before it.
decoded(d, refs) ==
    LET clock[k \in 1 .. Len(refs)] ==
            IF k = 1 THEN d.heap[refs[1]].id.clock
            ELSE clock[k - 1] + utf16Len(d.heap[refs[k - 1]].str)
    IN  [k \in DOMAIN refs |-> encodedToItem(d.heap[refs[k]], clock[k])]

\* The items are written in groups per client, the largest client ID first.
writeUpdateV1(d, groups) ==
    LET upto[n \in 0 .. Max(Client)] ==
            IF n = 0 THEN <<>>
            ELSE (IF n \in Client THEN decoded(d, groups[n]) ELSE <<>>) \o upto[n - 1]
    IN  upto[Max(Client)]

ofClient(d, refs) ==
    [c \in Client |-> Among(refs, { r \in DOMAIN d.heap : d.heap[r].id.client = c })]

\* Mutant: the deletions are not announced.
encodeUpdateV1NoDeletes(d, items, dels) ==
    [items |-> writeUpdateV1(d, ofClient(d, items)), dels |-> <<>>]

encodeUpdateV1(d, items, dels) ==
    [items |-> writeUpdateV1(d, ofClient(d, items)),
     dels  |-> [k \in DOMAIN dels |->
                   [client |-> d.heap[dels[k]].id.client,
                    clock  |-> d.heap[dels[k]].id.clock,
                    len    |-> d.heap[dels[k]].len]]]

\* Mutant: the first item the remote peer lacks is taken for one it has.
itemsFromNext(d, c, state) ==
    LET s == d.store[c]
        n == Search(Len(s), { i \in 0 .. Len(s) - 1 : d.heap[s[i + 1]].id.clock > state })
    IN  SubSeq(s, n + 1, Len(s))

\* The items of a client from the one that reaches beyond the remote state.
itemsFrom(d, c, state) ==
    LET s == d.store[c]
        n == Search(Len(s), { i \in 0 .. Len(s) - 1 :
                                d.heap[s[i + 1]].id.clock + d.heap[s[i + 1]].len > state })
    IN  SubSeq(s, n + 1, Len(s))

\* The items the state vector sv lacks.  The delete set is not written.
EncodeStateAsUpdate(d, sv) ==
    [items |-> writeUpdateV1(d, [c \in Client |-> itemsFrom(d, c, sv[c])]),
     dels  |-> <<>>]

\* Mutant: only the ranges of this update are applied, and none is remembered.
ApplyUpdateForgetful(d, update) ==
    Loop(applyDeleteRange, Loop(integrateItem, d, update.items), update.dels)

\* The update's ranges join the delete set, its items are integrated, and then
\* the whole delete set is applied.
ApplyUpdate(d, update) ==
    LET merged     == [d EXCEPT !.ds = @ \o update.dels]
        integrated == Loop(integrateItem, merged, update.items)
    IN  Loop(applyDeleteRange, integrated, integrated.ds)

Snapshot(d)      == EncodeStateAsUpdate(d, [c \in Client |-> 0])
RestoreDoc(snap) == ApplyUpdate(EmptyDoc, snap)
===============================================================================
