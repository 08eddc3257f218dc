-------------------------- MODULE DocTransactions --------------------------
(***************************************************************************)
(* The transactions of one Doc under several goroutines (doc.go, and the   *)
(* way Text, Map and Array edits find the open transaction).               *)
(*                                                                         *)
(* A call is one execution of Doc.Transact, with the function it is given, *)
(* or of ApplyUpdate; a goroutine makes its calls one after the other.     *)
(* Doc.mu is held within a step here and free between two steps.  The      *)
(* transaction object that a call creates is known by the call.  An edit   *)
(* is known by the clock it takes; a deletion, which takes none in the     *)
(* code, has one here as its name.  What a document holds is the matter of *)
(* Document: here it is only which edits are announced, when and to whom.  *)
(*                                                                         *)
(* A Transact that a transaction function calls itself runs its function   *)
(* as part of the outer one: it is more edits of that call.  No handler    *)
(* calls back into the Doc here; the one of the WebSocket client does not. *)
(***************************************************************************)
EXTENDS Naturals, FiniteSets, Sequences

CONSTANTS Goroutine,
          Local,      \* the calls of Transact
          Remote,     \* the calls of ApplyUpdate
          Handler,    \* the registrations of OnUpdate; their IDs are never reused
          NoCall,     \* the nil *transaction
          MayPanic,   \* whether a transaction function may panic
          MaxEdits    \* bound: edits in a call

Call == Local \cup Remote

ASSUME CallAssumption == Local \cap Remote = {} /\ NoCall \notin Call \cup Goroutine
ASSUME PanicAssumption == MayPanic \in BOOLEAN
ASSUME EditAssumption == MaxEdits \in Nat

VARIABLES
    currentTx,  \* Doc.currentTx
    clock,      \* the next clock of the document's own client
    handlers,   \* Doc.updateHandlers
    retired,    \* the handlers that were unsubscribed
    pc,         \* pc[c]: where call c is
    outer,      \* the calls of Transact that opened a transaction
    held,       \* held[c]: the transaction an edit of c has read, before it locks again
    pending,    \* pending[c]: transaction.pendingItems and pendingDeletes
    update,     \* update[c]: the edits in the update c announces
    rest,       \* rest[c]: the handlers c has yet to call
    got,        \* got[h]: the calls whose updates h was called with, oldest first
    by,         \* history: by[c] is the goroutine that made c
    wrote,      \* history: wrote[c] is the edits that c made
    since,      \* history: since[c] is the handlers registered when c began
    overlap     \* history: a call began within the transaction of another

vars == <<currentTx, clock, handlers, retired, pc, outer, held, pending, update,
          rest, got, by, wrote, since, overlap>>

-----------------------------------------------------------------------------
\* Within the function of a Transact ("fn", and "edit" between the two locks of
\* an edit) or within ApplyUpdate; after that; at the end.  A call is "panicked"
\* when its function panicked, "refused" when an edit in it did.
InTx      == {"fn", "edit", "apply"}
Announces == {"encode", "fire"}
Ended     == {"done", "panicked", "refused"}
Active    == InTx \cup Announces

Init ==
    /\ currentTx = NoCall
    /\ clock = 0
    /\ handlers = {} /\ retired = {}
    /\ pc      = [c \in Call |-> "idle"]
    /\ outer   = {}
    /\ held    = [c \in Call |-> NoCall]
    /\ pending = [c \in Call |-> {}]
    /\ update  = [c \in Call |-> {}]
    /\ rest    = [c \in Call |-> {}]
    /\ got     = [h \in Handler |-> <<>>]
    /\ by      = [c \in Call |-> NoCall]
    /\ wrote   = [c \in Call |-> {}]
    /\ since   = [c \in Call |-> {}]
    /\ overlap = FALSE

\* Mutant: Transact leaves the calls of the handlers to another goroutine.
BeginWithoutWaiting(g, c) ==
    /\ pc[c] = "idle"
    /\ \A d \in Call : by[d] = g => pc[d] \in Ended \cup Announces
    /\ by'    = [by EXCEPT ![c] = g]
    /\ since' = [since EXCEPT ![c] = handlers]
    /\ overlap' = (overlap \/ \E d \in Call : pc[d] \in InTx)

\* A goroutine has come to the end of its last call when it makes another.
Begin(g, c) ==
    /\ pc[c] = "idle"
    /\ \A d \in Call : by[d] = g => pc[d] \in Ended
    /\ by'    = [by EXCEPT ![c] = g]
    /\ since' = [since EXCEPT ![c] = handlers]
    /\ overlap' = (overlap \/ \E d \in Call : pc[d] \in InTx)

\* Mutant: the new transaction is not made the current one.
EnterWithoutTx(g, c) ==
    /\ Begin(g, c)
    /\ pc' = [pc EXCEPT ![c] = "fn"]
    /\ outer' = IF currentTx = NoCall THEN outer \cup {c} ELSE outer
    /\ UNCHANGED <<currentTx, clock, handlers, retired, held, pending, update, rest,
                   got, wrote>>

\* Transact opens a transaction, or runs its function within the one that is
\* open, whichever goroutine opened it.
Enter(g, c) ==
    /\ Begin(g, c)
    /\ pc' = [pc EXCEPT ![c] = "fn"]
    /\ IF currentTx = NoCall
       THEN currentTx' = c /\ outer' = outer \cup {c}
       ELSE UNCHANGED <<currentTx, outer>>
    /\ UNCHANGED <<clock, handlers, retired, held, pending, update, rest, got, wrote>>

\* Mutant: the edit does not look whether there is a transaction.
EditReadUnchecked(c) ==
    /\ pc[c] = "fn"
    /\ Cardinality(wrote[c]) < MaxEdits
    /\ pc' = [pc EXCEPT ![c] = "edit"]
    /\ held' = [held EXCEPT ![c] = currentTx]
    /\ UNCHANGED <<currentTx, clock, handlers, retired, outer, pending, update, rest,
                   got, by, wrote, since, overlap>>

\* The first lock of an edit: without an open transaction it panics.
EditRead(c) ==
    /\ pc[c] = "fn"
    /\ Cardinality(wrote[c]) < MaxEdits
    /\ IF currentTx = NoCall
       THEN pc' = [pc EXCEPT ![c] = "refused"] /\ UNCHANGED held
       ELSE pc' = [pc EXCEPT ![c] = "edit"] /\ held' = [held EXCEPT ![c] = currentTx]
    /\ UNCHANGED <<currentTx, clock, handlers, retired, outer, pending, update, rest,
                   got, by, wrote, since, overlap>>

\* The second lock: the edit goes to the transaction that was read.
EditWrite(c) ==
    /\ pc[c] = "edit"
    /\ pc' = [pc EXCEPT ![c] = "fn"]
    /\ pending' = [pending EXCEPT ![held[c]] = @ \cup {clock}]
    /\ wrote'   = [wrote EXCEPT ![c] = @ \cup {clock}]
    /\ clock' = clock + 1
    /\ UNCHANGED <<currentTx, handlers, retired, outer, held, update, rest, got, by,
                   since, overlap>>

\* The function panics: Transact has no deferred call that closes the transaction.
FnPanics(c) ==
    /\ MayPanic
    /\ pc[c] = "fn"
    /\ pc' = [pc EXCEPT ![c] = "panicked"]
    /\ UNCHANGED <<currentTx, clock, handlers, retired, outer, held, pending, update,
                   rest, got, by, wrote, since, overlap>>

\* The function returned: the call that opened the transaction closes whichever
\* is open now.  Without changes there is nothing to announce.
Commit(c) ==
    /\ pc[c] = "fn"
    /\ c \in outer
    /\ currentTx' = NoCall
    /\ update' = [update EXCEPT ![c] = pending[c]]
    /\ pc' = [pc EXCEPT ![c] = IF pending[c] = {} THEN "done" ELSE "encode"]
    /\ UNCHANGED <<clock, handlers, retired, outer, held, pending, rest, got, by,
                   wrote, since, overlap>>

\* Mutant: a nested Transact announces what the transaction has so far.
NestedReturnAnnounces(c) ==
    /\ pc[c] = "fn"
    /\ c \notin outer
    /\ currentTx # NoCall
    /\ update' = [update EXCEPT ![c] = pending[currentTx]]
    /\ pc' = [pc EXCEPT ![c] = "encode"]
    /\ UNCHANGED <<currentTx, clock, handlers, retired, outer, held, pending, rest,
                   got, by, wrote, since, overlap>>

NestedReturn(c) ==
    /\ pc[c] = "fn"
    /\ c \notin outer
    /\ pc' = [pc EXCEPT ![c] = "done"]
    /\ UNCHANGED <<currentTx, clock, handlers, retired, outer, held, pending, update,
                   rest, got, by, wrote, since, overlap>>

\* Mutant: the copy of the handlers is never filled.
CopyNoHandlers(c) ==
    /\ pc[c] = "encode"
    /\ pc' = [pc EXCEPT ![c] = "fire"]
    /\ UNCHANGED <<currentTx, clock, handlers, retired, outer, held, pending, update,
                   rest, got, by, wrote, since, overlap>>

\* The update is encoded; under the lock the handlers are copied.
CopyHandlers(c) ==
    /\ pc[c] = "encode"
    /\ pc' = [pc EXCEPT ![c] = "fire"]
    /\ rest' = [rest EXCEPT ![c] = handlers]
    /\ UNCHANGED <<currentTx, clock, handlers, retired, outer, held, pending, update,
                   got, by, wrote, since, overlap>>

\* A handler is called without the lock.  The code keeps to the order in which
\* they were registered; nothing here depends on it.
Fire(c, h) ==
    /\ pc[c] = "fire"
    /\ h \in rest[c]
    /\ rest' = [rest EXCEPT ![c] = @ \ {h}]
    /\ got'  = [got EXCEPT ![h] = Append(@, c)]
    /\ UNCHANGED <<currentTx, clock, handlers, retired, pc, outer, held, pending,
                   update, by, wrote, since, overlap>>

Return(c) ==
    /\ pc[c] = "fire"
    /\ rest[c] = {}
    /\ pc' = [pc EXCEPT ![c] = "done"]
    /\ UNCHANGED <<currentTx, clock, handlers, retired, outer, held, pending, update,
                   rest, got, by, wrote, since, overlap>>

\* ApplyUpdate makes its own transaction the current one, whatever was there.
ApplyBegin(g, c) ==
    /\ Begin(g, c)
    /\ pc' = [pc EXCEPT ![c] = "apply"]
    /\ currentTx' = c
    /\ UNCHANGED <<clock, handlers, retired, outer, held, pending, update, rest, got,
                   wrote>>

\* Mutant: the transaction of ApplyUpdate stays the current one.
ApplyEndKeepsTx(c) ==
    /\ pc[c] = "apply"
    /\ pc' = [pc EXCEPT ![c] = "done"]
    /\ UNCHANGED <<currentTx, clock, handlers, retired, outer, held, pending, update,
                   rest, got, by, wrote, since, overlap>>

\* Items are integrated and ranges deleted under locks of their own, which does
\* not concern the transaction; then no transaction is open.
ApplyEnd(c) ==
    /\ pc[c] = "apply"
    /\ pc' = [pc EXCEPT ![c] = "done"]
    /\ currentTx' = NoCall
    /\ UNCHANGED <<clock, handlers, retired, outer, held, pending, update, rest, got,
                   by, wrote, since, overlap>>

OnUpdate(h) ==
    /\ h \notin handlers \cup retired
    /\ handlers' = handlers \cup {h}
    /\ UNCHANGED <<currentTx, clock, retired, pc, outer, held, pending, update, rest,
                   got, by, wrote, since, overlap>>

Unsubscribe(h) ==
    /\ h \in handlers
    /\ handlers' = handlers \ {h}
    /\ retired'  = retired \cup {h}
    /\ UNCHANGED <<currentTx, clock, pc, outer, held, pending, update, rest, got, by,
                   wrote, since, overlap>>

\* What the goroutine of a call does next.  A user function that has not made
\* all its edits may return all the same.
Ends(c)  == Commit(c) \/ NestedReturn(c)
Works(c) == \/ EditWrite(c) \/ Ends(c) \/ CopyHandlers(c) \/ Return(c) \/ ApplyEnd(c)
            \/ \E h \in Handler : Fire(c, h)

Next ==
    \/ \E g \in Goroutine, c \in Local  : Enter(g, c)
    \/ \E g \in Goroutine, c \in Remote : ApplyBegin(g, c)
    \/ \E c \in Call : EditRead(c) \/ FnPanics(c) \/ Works(c)
    \/ \E h \in Handler : OnUpdate(h) \/ Unsubscribe(h)

Spec == Init /\ [][Next]_vars

\* A goroutine is scheduled, functions and handlers return.
FairSpec == Spec /\ \A c \in Call : WF_vars(Works(c))

-----------------------------------------------------------------------------
TypeOK ==
    /\ currentTx \in Call \cup {NoCall}
    /\ clock \in Nat
    /\ handlers \subseteq Handler /\ retired \subseteq Handler
    /\ pc \in [Call -> {"idle"} \cup Active \cup Ended]
    /\ outer \subseteq Local
    /\ held \in [Call -> Call \cup {NoCall}]
    /\ \A c \in Call : pc[c] = "edit" => held[c] # NoCall
    /\ pending \in [Call -> SUBSET Nat]
    /\ update  \in [Call -> SUBSET Nat]
    /\ rest    \in [Call -> SUBSET Handler]
    /\ got     \in [Handler -> Seq(Call)]
    /\ by      \in [Call -> Goroutine \cup {NoCall}]
    /\ wrote   \in [Call -> SUBSET Nat]
    /\ since   \in [Call -> SUBSET Handler]
    /\ overlap \in BOOLEAN

\* No handler is given the same edit twice, neither in one update nor in two,
\* whichever goroutines edit, apply updates, panic or (un)subscribe meanwhile.
AnnouncedAtMostOnce ==
    \A h \in Handler : \A i, j \in DOMAIN got[h] :
        i # j => update[got[h][i]] \cap update[got[h][j]] = {}

\* A handler gets the edits of the calls of one goroutine in the order in which
\* they took their clocks: a peer that stores them keeps its slice sorted.
AnnouncedInOrder ==
    \A h \in Handler : \A i, j \in DOMAIN got[h] :
        i < j /\ by[got[h][i]] = by[got[h][j]] =>
            \A k \in update[got[h][i]], l \in update[got[h][j]] : k < l

\* As long as no call began within the transaction of another, and no function
\* panicked, the end of Transact has announced all edits of its function, those
\* and no others, to every handler that was registered all the time.
NoEditLost ==
    ~overlap /\ (\A c \in Call : pc[c] # "panicked") =>
        \A c \in Local : pc[c] = "done" =>
            /\ update[c] = wrote[c]
            /\ wrote[c] # {} =>
                  \A h \in since[c] \cap handlers : \E i \in DOMAIN got[h] : got[h][i] = c

\* As long as no call began within the transaction of another, no edit in a
\* transaction function panics for want of a transaction, not even after a
\* function panicked and left its transaction open.
NoEditRefused == ~overlap => \A c \in Call : pc[c] # "refused"

\* An edit reaches every handler that was registered before its transaction and
\* stays registered, unless calls overlap or a function panics.
EditsReachHandlers ==
    \A c \in Local, h \in Handler :
        (wrote[c] # {} /\ h \in since[c]) ~>
            \/ overlap \/ h \in retired \/ \E d \in Call : pc[d] = "panicked"
            \/ \E i \in DOMAIN got[h] : got[h][i] = c

\* README: "Local mutations are broadcast automatically": when all calls have
\* ended, every edit is in an update that was announced.
EditsAnnounced ==
    (\A c \in Call : pc[c] \notin Active) =>
        \A c \in Call : wrote[c] \subseteq UNION { update[d] : d \in Call }
=============================================================================
