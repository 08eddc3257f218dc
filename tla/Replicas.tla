------------------------------ MODULE Replicas ------------------------------
(***************************************************************************)
(* Peers that edit a shared document, each through a Doc of its own, and   *)
(* exchange updates.  TextReplicas and CollectionReplicas add the edits.   *)
(*                                                                         *)
(* A peer is known by its clientID.  An edit opens the transaction of the  *)
(* peer if none is open, Commit ends it and announces its update.  The     *)
(* network keeps every announced update, hands those of a peer to another  *)
(* in the order they were announced, as a connection does, and may hand an *)
(* update over again; Sync is the exchange of sync step 1 and step 2.  One *)
(* goroutine drives a Doc here: DocTransactions models what several of     *)
(* them do to each other.                                                  *)
(***************************************************************************)
EXTENDS Document, FiniteSets

CONSTANTS Writer,       \* the peers whose user edits
          InsertLen,    \* how many characters or values an edit inserts
          DeleteLen,    \* how many it deletes
          MaxChars,     \* bound: characters and values typed, over all peers
          MaxDeletes,   \* bound: deletions, over all peers
          MaxOps,       \* bound: edits in one transaction
          MaxCopies,    \* bound: deliveries of an update that came before
          MaxSyncs      \* bound: exchanges of sync step 1 and step 2

ASSUME ReplicaAssumption ==
    /\ Writer \subseteq Client
    /\ InsertLen \subseteq Nat \ {0}
    /\ DeleteLen \subseteq Nat \ {0}

ASSUME BoundAssumption ==
    MaxChars \in Nat /\ MaxDeletes \in Nat /\ MaxOps \in Nat /\ MaxCopies \in Nat /\ MaxSyncs \in Nat

VARIABLES doc,       \* doc[r]: the Doc of peer r
          tx,        \* tx[r]: the transaction r has open
          announced, \* announced[r]: the updates of r, oldest first
          got,       \* got[r][s]: which of the updates of s were applied at r
          causal,    \* history: every update came after those its sender had
          typed, deletes, copies, syncs   \* what the bounds count

vars == <<doc, tx, announced, got, causal, typed, deletes, copies, syncs>>

-----------------------------------------------------------------------------
NoTx == [open |-> FALSE, items |-> <<>>, dels |-> <<>>, ops |-> 0]

Init ==
    /\ doc       = [r \in Client |-> EmptyDoc]
    /\ tx        = [r \in Client |-> NoTx]
    /\ announced = [r \in Client |-> <<>>]
    /\ got       = [r \in Client |-> [s \in Client |-> {}]]
    /\ causal = TRUE
    /\ typed = 0 /\ deletes = 0 /\ copies = 0 /\ syncs = 0

\* The body of the transaction function goes on; a panic ends the program.
Editing(r) ==
    /\ r \in Writer
    /\ tx[r].ops < MaxOps
    /\ ~doc[r].panic

\* What Insert, Push or Set do to the peer: refs are the new items, n their length.
Inserts(r, d, refs, n) ==
    /\ Editing(r)
    /\ typed + n <= MaxChars
    /\ doc' = [doc EXCEPT ![r] = d]
    /\ tx'  = [tx EXCEPT ![r].open  = TRUE,
                         ![r].ops   = @ + 1,
                         ![r].items = @ \o refs]
    /\ typed' = typed + n
    /\ UNCHANGED <<announced, got, causal, deletes, copies, syncs>>

\* What a deletion does, which gives the document and the refs it deleted.
Deletes(r, result) ==
    /\ Editing(r)
    /\ deletes < MaxDeletes
    /\ doc' = [doc EXCEPT ![r] = result.doc]
    /\ tx'  = [tx EXCEPT ![r].open = TRUE,
                         ![r].ops  = @ + 1,
                         ![r].dels = @ \o result.dels]
    /\ deletes' = deletes + 1
    /\ UNCHANGED <<announced, got, causal, typed, copies, syncs>>

EndOfTx(r) ==
    /\ tx[r].open
    /\ ~doc[r].panic
    /\ tx' = [tx EXCEPT ![r] = NoTx]

\* The end of Transact: nothing is announced of a transaction without changes.
\* "shown" and "seen" are history: what r showed and had applied at that moment.
Commit(r) ==
    /\ EndOfTx(r)
    /\ IF tx[r].items = <<>> /\ tx[r].dels = <<>>
       THEN UNCHANGED <<announced, got>>
       ELSE /\ announced' = [announced EXCEPT ![r] =
                  Append(@, [update |-> encodeUpdateV1(doc[r], tx[r].items, tx[r].dels),
                             shown  |-> shown(doc[r]),
                             seen   |-> got[r]])]
            /\ got' = [got EXCEPT ![r][r] = @ \cup {Len(announced[r]) + 1}]
    /\ UNCHANGED <<doc, causal, typed, deletes, copies, syncs>>

HandOver(r, s, k) ==
    /\ r # s
    /\ ~tx[r].open
    /\ ~doc[r].panic
    /\ 1 .. k - 1 \subseteq got[r][s]
    /\ got' = [got EXCEPT ![r][s] = @ \cup {k}]

Deliver(r, s, k) ==
    /\ k \in got[r][s] => copies < MaxCopies
    /\ HandOver(r, s, k)
    /\ copies' = IF k \in got[r][s] THEN copies + 1 ELSE copies
    /\ doc' = [doc EXCEPT ![r] = ApplyUpdate(@, announced[s][k].update)]
    /\ causal' = (causal /\ \A q \in Client : announced[s][k].seen[q] \subseteq got[r][q])
    /\ UNCHANGED <<tx, announced, typed, deletes, syncs>>

\* r sends its state vector (step 1), s answers with what r lacks (step 2).
Sync(r, s) ==
    /\ r # s
    /\ syncs < MaxSyncs
    /\ ~tx[r].open
    /\ ~doc[r].panic
    /\ ~doc[s].panic
    /\ syncs' = syncs + 1
    /\ doc' = [doc EXCEPT ![r] =
                  ApplyUpdate(@, EncodeStateAsUpdate(doc[s], stateVector(doc[r])))]
    /\ UNCHANGED <<tx, announced, got, causal, typed, deletes, copies>>

\* The steps that are the same whatever is shared.
Exchange ==
    \/ \E r \in Client : Commit(r)
    \/ \E r, s \in Client : \E k \in DOMAIN announced[s] : Deliver(r, s, k)
    \/ \E r, s \in Client : Sync(r, s)

\* A transaction function returns, and the transport hands an announced update
\* to every other peer.  Users owe nothing.  EndOfTx and HandOver stand for
\* Commit and Deliver: they are enabled together, and no other step changes tx
\* or got in these ways.
Fairness ==
    /\ \A r \in Client : WF_tx(EndOfTx(r))
    /\ \A r, s \in Client :
          WF_got(\E k \in DOMAIN announced[s] \ got[r][s] : HandOver(r, s, k))

-----------------------------------------------------------------------------
(***************************************************************************)
(* What a document holds, character by character.                          *)
(***************************************************************************)
Items(d)   == Range(d.heap)
Chars(it)  == { [it.id EXCEPT !.clock = @ + k] : k \in 0 .. it.len - 1 }
Overlap(a, b) == /\ a.id.client = b.id.client
                 /\ a.id.clock < b.id.clock + b.len
                 /\ b.id.clock < a.id.clock + a.len
Stored(d)  == UNION { Chars(it) : it \in Items(d) }
Elements(d)  == UNION { Chars(it) : it \in { x \in Items(d) : x.list \notin Key } }
Undeleted(d) == UNION { Chars(it) : it \in { x \in Items(d) : x.list \notin Key /\ ~x.deleted } }

Covered(range) ==
    { [client |-> range.client, clock |-> range.clock + k] : k \in 0 .. range.len - 1 }

\* The updates applied at r, its own among them, and what they and the open
\* transaction of r insert and delete.
Applied(r) == UNION { { announced[s][k].update : k \in got[r][s] } : s \in Client }

Inserted(r) == (UNION { Chars(it) : it \in UNION { Range(u.items) : u \in Applied(r) } })
                   \cup UNION { Chars(doc[r].heap[k]) : k \in Range(tx[r].items) }
Removed(r)  == (UNION { Covered(x) : x \in UNION { Range(u.dels) : u \in Applied(r) } })
                   \cup UNION { Chars(doc[r].heap[k]) : k \in Range(tx[r].dels) }

IdType   == [client : Client, clock : Nat]
ItemType == [id : IdType, len : Nat, str : Seq(1 .. MaxChars),
             oleft : IdType \cup {NoID}, right : Nat, deleted : BOOLEAN,
             list : List \cup {NoList}]

DocType(d) ==
    /\ d.heap \in Seq(ItemType)
    /\ DOMAIN d.store = Client
    /\ \A c \in Client : /\ d.store[c] \in Seq(DOMAIN d.heap)
                         /\ \A k \in DOMAIN d.store[c] : d.heap[d.store[c][k]].id.client = c
    /\ d.ds \in Seq([client : Client, clock : Nat, len : Nat])
    /\ d.start \in [List -> {Nil} \cup DOMAIN d.heap]
    /\ \A k \in DOMAIN d.heap : d.heap[k].right \in {Nil} \cup DOMAIN d.heap
    /\ d.panic \in BOOLEAN

\* The types of the variables, with every pointer of a document in its heap and
\* every item in the slice of its own client (Doc, StructStore and Item).
TypeOK ==
    /\ DOMAIN doc = Client /\ \A r \in Client : DocType(doc[r])
    /\ \A r \in Client : /\ Range(tx[r].items) \subseteq DOMAIN doc[r].heap
                         /\ Range(tx[r].dels) \subseteq DOMAIN doc[r].heap
                         /\ tx[r].ops \in 0 .. MaxOps
    /\ \A r, s \in Client : got[r][s] \subseteq DOMAIN announced[s]
    /\ causal \in BOOLEAN

(***************************************************************************)
(* Several writers.                                                        *)
(***************************************************************************)
\* The store of a peer is a function of the set of updates it applied, in
\* whatever order they came and however often: it holds the characters and values
\* they insert (and more only after a state exchange), and one that is not the
\* value of a Map key is live exactly when no applied update deletes it, also when
\* the deletion came first (ApplyUpdate, integrateItem and the delete set of Doc).
StoreIsTheUpdateSet ==
    \A r \in Client :
        /\ Inserted(r) \subseteq Stored(doc[r])
        /\ syncs = 0 => Stored(doc[r]) = Inserted(r)
        /\ Undeleted(doc[r]) = Elements(doc[r]) \ Removed(r)

\* An ID names one character with one origin in all documents of all peers: a
\* clock is never used twice, by local edits between which remote updates and
\* states come in (ID, getState).
IdNamesOneChar ==
    \A r, s \in Client : \A j \in DOMAIN doc[r].heap, k \in DOMAIN doc[s].heap :
        LET a == doc[r].heap[j]
            b == doc[s].heap[k]
        IN  Overlap(a, b) =>
                /\ r = s => j = k
                /\ a.str = b.str /\ a.oleft = b.oleft

\* After a peer has applied the answer to its state vector it stores all that
\* the answering peer stores (stateVector, EncodeStateAsUpdate).
SyncCatchesUp ==
    [][syncs' > syncs =>
          \A r, s \in Client : Stored(doc[s]) \subseteq Stored(doc'[r]) \/ ~Sync(r, s)]_vars

(***************************************************************************)
(* One writer and its viewers.                                             *)
(***************************************************************************)
\* As long as one peer announces updates, every other peer shows what that peer
\* showed at the end of the last transaction received, in every Text, Array and
\* Map key: never a mixture of versions and never an older version when an
\* update comes again (encodeUpdateV1, ApplyUpdate).
ViewersShowAVersion ==
    syncs = 0 =>
        \A w \in Writer : (\A r \in Client \ {w} : announced[r] = <<>> /\ tx[r].ops = 0) =>
            \A v \in Client \ {w} :
                LET n == Cardinality(got[v][w])
                IN  shown(doc[v]) = IF n = 0 THEN [l \in List |-> <<>>]
                                    ELSE announced[w][n].shown
=============================================================================
