----------------------------- MODULE Awareness ------------------------------
(***************************************************************************)
(* Peers that tell each other an ephemeral state through the awareness     *)
(* protocol, each with one Awareness, which several goroutines call.       *)
(*                                                                         *)
(* A state is a map from fields to values; a value is the number of the    *)
(* call that set it, and 0 stands for no value.  json.Marshal fails on a   *)
(* state that has a value in one of the fields of Unencodable.  The        *)
(* network keeps every update that was encoded and hands it to any peer,   *)
(* at any time, any number of times, or never.                             *)
(***************************************************************************)
EXTENDS Naturals, FiniteSets

CONSTANTS Peer,          \* the clientIDs
          Thread,        \* the goroutines that call an Awareness
          Field,
          Unencodable,   \* the fields whose values json.Marshal refuses
          Absent,        \* no entry in Awareness.states
          Null,          \* the state "null" on the wire
          Idle,          \* a goroutine that is in no call
          MaxCalls,      \* bound: calls that set or remove a local state
          MaxUpdates     \* bound: updates of several clients are encoded below it

StateType == [Field -> 0 .. MaxCalls]
EntryType == [state : StateType, clock : Nat]
WireType  == [state : StateType \cup {Null}, clock : Nat]
CallType ==
    [kind : {"field"}, state : StateType]
        \cup [kind : {"handlers"}, added : SUBSET Peer, updated : SUBSET Peer,
              removed : SUBSET Peer]

ASSUME AwarenessAssumption ==
    /\ MaxCalls \in Nat
    /\ Unencodable \subseteq Field
    /\ Absent \notin EntryType \cup StateType
    /\ Null \notin StateType
    /\ Idle \notin CallType

VARIABLES states,     \* states[p]: Awareness.states of p
          network,    \* the updates that were encoded
          call,       \* call[p][t]: what goroutine t is in at p
          view,       \* view[p]: the clients the handlers of p were told of
          calls,      \* what the bound counts
          wrote,      \* history: wrote[p]: the entries p set for itself
          removed,    \* history: removed[p]: p removed its state at some time
          meant,      \* history: meant[p]: what the calls at p make of its state
                      \* when each is one step
          alone,      \* history: alone[p]: no call set the state of p between the
                      \* two halves of a SetLocalStateField at p, and no update
                      \* when p had removed its state
          ordered     \* history: ordered[p]: no change of a client at p was made
                      \* while handlers were yet to hear of another one, and no
                      \* change was made without them

history == <<wrote, removed, meant, alone, ordered>>
vars == <<states, network, call, view, calls, history>>

-----------------------------------------------------------------------------
Blank == [f \in Field |-> 0]

Init ==
    /\ states  = [p \in Peer |-> [c \in Peer |->
                     IF c = p THEN [state |-> Blank, clock |-> 0] ELSE Absent]]
    /\ network = {}
    /\ call    = [p \in Peer |-> [t \in Thread |-> Idle]]
    /\ view    = [p \in Peer |-> {p}]
    /\ calls = 0
    /\ wrote   = [p \in Peer |-> {[state |-> Blank, clock |-> 0]}]
    /\ removed = [p \in Peer |-> FALSE]
    /\ meant   = [p \in Peer |-> Blank]
    /\ alone   = [p \in Peer |-> TRUE]
    /\ ordered = [p \in Peer |-> TRUE]

Fields(entry) == IF entry = Absent THEN Blank ELSE entry.state

Clock(entry) == IF entry = Absent THEN 0 ELSE entry.clock

Halfway(p) == { t \in Thread : call[p][t] # Idle /\ call[p][t].kind = "field" }
Telling(p) == { t \in Thread : call[p][t] # Idle /\ call[p][t].kind = "handlers" }

\* The clients that handlers of p are yet to hear of from other goroutines.
Untold(p, t) ==
    UNION { call[p][u].added \cup call[p][u].updated \cup call[p][u].removed :
               u \in Telling(p) \ {t} }

\* The goroutine goes on, without the lock, to call the handlers.
Tell(p, t, add, upd, rem) ==
    /\ call' = [call EXCEPT ![p][t] =
                  [kind |-> "handlers", added |-> add, updated |-> upd, removed |-> rem]]
    /\ ordered' = [ordered EXCEPT ![p] = @ /\ (add \cup upd \cup rem) \cap Untold(p, t) = {}]

(***************************************************************************)
(* The local state.                                                        *)
(***************************************************************************)
\* Mutant: the clock does not count on.
StoreForgetsClock(p, t, state) ==
    LET cur   == states[p][p]
        entry == [state |-> state, clock |-> 1]
    IN  /\ states' = [states EXCEPT ![p][p] = entry]
        /\ wrote'  = [wrote EXCEPT ![p] = @ \cup {entry}]
        /\ alone'  = [alone EXCEPT ![p] = @ /\ Halfway(p) \subseteq {t}]
        /\ Tell(p, t, IF cur = Absent THEN {p} ELSE {}, IF cur = Absent THEN {} ELSE {p}, {})
        /\ UNCHANGED <<network, view, removed>>

\* SetLocalState with a state: the clock is one more than that of the entry.
Store(p, t, state) ==
    LET cur   == states[p][p]
        entry == [state |-> state, clock |-> IF cur = Absent THEN 0 ELSE cur.clock + 1]
    IN  /\ states' = [states EXCEPT ![p][p] = entry]
        /\ wrote'  = [wrote EXCEPT ![p] = @ \cup {entry}]
        /\ alone'  = [alone EXCEPT ![p] = @ /\ Halfway(p) \subseteq {t}]
        /\ Tell(p, t, IF cur = Absent THEN {p} ELSE {}, IF cur = Absent THEN {} ELSE {p}, {})
        /\ UNCHANGED <<network, view, removed>>

SetLocalState(p, t, f) ==
    /\ call[p][t] = Idle
    /\ calls < MaxCalls
    /\ calls' = calls + 1
    /\ meant' = [meant EXCEPT ![p] = [Blank EXCEPT ![f] = calls + 1]]
    /\ Store(p, t, [Blank EXCEPT ![f] = calls + 1])

\* SetLocalStateField, to the end of its own lock.
CopyState(p, t, f) ==
    /\ call[p][t] = Idle
    /\ calls < MaxCalls
    /\ calls' = calls + 1
    /\ call' = [call EXCEPT ![p][t] =
                  [kind |-> "field", state |-> [Fields(states[p][p]) EXCEPT ![f] = calls + 1]]]
    /\ meant' = [meant EXCEPT ![p] = [Fields(IF @ = Absent THEN @ ELSE [state |-> @, clock |-> 0])
                                        EXCEPT ![f] = calls + 1]]
    /\ alone' = [alone EXCEPT ![p] = @ /\ Halfway(p) = {}]
    /\ UNCHANGED <<states, network, view, wrote, removed, ordered>>

\* SetLocalStateField, from its call of SetLocalState.
StoreField(p, t) ==
    /\ t \in Halfway(p)
    /\ Store(p, t, call[p][t].state)
    /\ UNCHANGED <<calls, meant>>

\* SetLocalState(nil), Destroy
Remove(p, t) ==
    /\ call[p][t] = Idle
    /\ calls < MaxCalls
    /\ calls' = calls + 1
    /\ states' = [states EXCEPT ![p][p] = Absent]
    /\ removed' = [removed EXCEPT ![p] = TRUE]
    /\ meant' = [meant EXCEPT ![p] = Absent]
    /\ alone' = [alone EXCEPT ![p] = @ /\ Halfway(p) = {}]
    /\ Tell(p, t, {}, {}, {p})
    /\ UNCHANGED <<network, view, wrote>>

(***************************************************************************)
(* Updates.                                                                *)
(***************************************************************************)
wire(entry) ==
    IF \E f \in Unencodable : entry.state[f] # 0 THEN [entry EXCEPT !.state = Null] ELSE entry

\* EncodeUpdate; EncodeAwarenessUpdate gives it all clients.
EncodeUpdate(p, ids) ==
    /\ network' = network \cup
          { [c \in { x \in ids : states[p][x] # Absent } |-> wire(states[p][c])] }
    /\ UNCHANGED <<states, call, view, calls, history>>

\* Mutant: whatever is different is taken.
NewerAny(cur, entry) == entry.clock # Clock(cur)

\* Mutant: an update one clock ahead is not taken.
NewerByTwo(cur, entry) == entry.clock > Clock(cur) + 1

\* ApplyUpdate takes an entry whose clock is newer, or equal when it removes.
Newer(cur, entry) ==
    \/ entry.clock > Clock(cur)
    \/ cur # Absent /\ entry.clock = cur.clock /\ entry.state = Null

\* Mutant: the guard of the local state is missing.
TakenOwn(p, update, ids) == { c \in ids : Newer(states[p][c], update[c]) }

\* The clients of ids whose entry in the update p takes over.
Taken(p, update, ids) ==
    { c \in ids : Newer(states[p][c], update[c]) /\ (c = p => states[p][p] = Absent) }

\* Mutant: the clock is counted on instead of taken from the update.
MergeCounts(p, update, ids) ==
    states' = [states EXCEPT ![p] = [c \in Peer |->
                  IF c \notin Taken(p, update, ids) THEN @[c]
                  ELSE IF update[c].state = Null THEN Absent
                  ELSE [state |-> update[c].state, clock |-> Clock(@[c]) + 1]]]

\* Mutant: a null state is stored.
MergeNull(p, update, ids) ==
    states' = [states EXCEPT ![p] = [c \in Peer |->
                  IF c \notin Taken(p, update, ids) THEN @[c] ELSE update[c]]]

Merge(p, update, ids) ==
    states' = [states EXCEPT ![p] = [c \in Peer |->
                  IF c \notin Taken(p, update, ids) THEN @[c]
                  ELSE IF update[c].state = Null THEN Absent ELSE update[c]]]

Receiving(p, t) ==
    /\ call[p][t] = Idle
    /\ UNCHANGED <<network, view, calls, wrote, removed, meant>>

\* Mutant: a client that is removed is not reported.
ApplyUpdateSilent(p, t, update) ==
    LET taken == Taken(p, update, DOMAIN update)
        known == { c \in taken : states[p][c] # Absent }
        nulls == { c \in taken : update[c].state = Null }
    IN  /\ Receiving(p, t)
        /\ Merge(p, update, DOMAIN update)
        /\ alone' = [alone EXCEPT ![p] = @ /\ (p \in taken => states[p][p] # Absent)]
        /\ IF taken \subseteq nulls
           THEN UNCHANGED <<call, ordered>>
           ELSE Tell(p, t, taken \ (known \cup nulls), known \ nulls, {})

ApplyUpdate(p, t, update) ==
    LET taken == Taken(p, update, DOMAIN update)
        known == { c \in taken : states[p][c] # Absent }
        nulls == { c \in taken : update[c].state = Null }
    IN  /\ Receiving(p, t)
        /\ Merge(p, update, DOMAIN update)
        /\ alone' = [alone EXCEPT ![p] = @ /\ (p \in taken => states[p][p] # Absent)]
        /\ IF taken \subseteq nulls \ known
           THEN UNCHANGED <<call, ordered>>
           ELSE Tell(p, t, taken \ (known \cup nulls), known \ nulls, known \cap nulls)

\* The data ends within an entry: an error, after the entries before it were
\* taken over.
ApplyTruncated(p, t, update, ids) ==
    /\ Receiving(p, t)
    /\ Merge(p, update, ids)
    /\ alone'   = [alone EXCEPT ![p] = @ /\ (p \in Taken(p, update, ids) => states[p][p] # Absent)]
    /\ ordered' = [ordered EXCEPT ![p] = @ /\ states'[p] = states[p]]
    /\ UNCHANGED call

\* The handlers are called.
CallHandlers(p, t) ==
    /\ t \in Telling(p)
    /\ view' = [view EXCEPT ![p] = (@ \cup call[p][t].added) \ call[p][t].removed]
    /\ call' = [call EXCEPT ![p][t] = Idle]
    /\ UNCHANGED <<states, network, calls, history>>

Next ==
    \E p \in Peer :
        \/ \E t \in Thread :
              \/ \E f \in Field : SetLocalState(p, t, f) \/ CopyState(p, t, f)
              \/ StoreField(p, t)
              \/ Remove(p, t)
              \/ \E update \in network :
                    \/ ApplyUpdate(p, t, update)
                    \/ \E ids \in (SUBSET DOMAIN update) \ {DOMAIN update} :
                          ApplyTruncated(p, t, update, ids)
              \/ CallHandlers(p, t)
        \/ EncodeUpdate(p, {p})
        \/ Cardinality(network) < MaxUpdates /\ EncodeUpdate(p, Peer)

Spec == Init /\ [][Next]_vars

\* Goroutines go on, every peer encodes its own state after each change of it,
\* and for every other peer the newest update that was encoded of it arrives.
Fairness ==
    /\ \A p \in Peer, t \in Thread : WF_vars(StoreField(p, t) \/ CallHandlers(p, t))
    /\ \A p \in Peer : WF_vars(EncodeUpdate(p, {p}))
    /\ \A p, c \in Peer :
          SF_vars(\E t \in Thread : \E update \in network :
                     c \in Taken(p, update, DOMAIN update) /\ ApplyUpdate(p, t, update))

FairSpec == Spec /\ Fairness

-----------------------------------------------------------------------------
(***************************************************************************)
(* Properties.                                                             *)
(***************************************************************************)
\* The types of the variables (Awareness, awarenessState).
TypeOK ==
    /\ states  \in [Peer -> [Peer -> EntryType \cup {Absent}]]
    /\ \A update \in network : \E S \in SUBSET Peer : update \in [S -> WireType]
    /\ call    \in [Peer -> [Thread -> CallType \cup {Idle}]]
    /\ view    \in [Peer -> SUBSET Peer]
    /\ calls   \in 0 .. MaxCalls
    /\ wrote   \in [Peer -> SUBSET EntryType]
    /\ meant   \in [Peer -> StateType \cup {Absent}]
    /\ {removed, alone, ordered} \subseteq [Peer -> BOOLEAN]

\* A state that a peer holds for a client, at a clock, is one that the client
\* itself set at this clock: no merge of updates, fields or clocks puts together
\* a state nobody set, however updates are repeated, reordered, passed on by
\* others, cut short, or come back to their sender.
Authentic ==
    \A p, c \in Peer : states[p][c] # Absent => states[p][c] \in wrote[c]

\* Two peers that hold the state of a client at the same clock hold the same
\* state, unless the client removed its state and so began to count again
\* (SetLocalState).
ClockNamesState ==
    \A p, q, c \in Peer :
        ~removed[c] /\ states[p][c] # Absent /\ states[q][c] # Absent =>
            (states[p][c].clock = states[q][c].clock => states[p][c] = states[q][c])

\* A peer that holds a state of another client never goes back to an older one,
\* whatever updates come late (ApplyUpdate).
NeverBack ==
    [][\A p \in Peer : \A c \in Peer \ {p} :
          states[p][c] # Absent /\ states'[p][c] # Absent /\ states[p][c] # states'[p][c]
             => states'[p][c].clock > states[p][c].clock]_vars

\* The state of a peer is what its own calls make of it, whatever comes from the
\* network, unless SetLocalStateField is interrupted between its two locks or an
\* echo of an old state comes after the peer removed its state.
LocalStateIsMine ==
    \A p \in Peer :
        alone[p] /\ Halfway(p) = {} =>
            IF meant[p] = Absent THEN states[p][p] = Absent
            ELSE states[p][p] # Absent /\ states[p][p].state = meant[p]

\* When no goroutine has handlers left to call, what the handlers were told was
\* added and not removed is what GetStates returns, unless two goroutines changed
\* the same client at once or an update with an error was taken over in part.
HandlersKnow ==
    \A p \in Peer :
        ordered[p] /\ Telling(p) = {} => view[p] = { c \in Peer : states[p][c] # Absent }

\* Once a client changes its state no more, every other peer comes to hold it, if
\* the client never removed its state and its state can be encoded.
NewestArrives ==
    \A p, c \in Peer :
        <>[](removed[c] \/ wire(states[c][c]).state = Null \/ states[c][c].clock = 0
                \/ states[p][c] = states[c][c])
=============================================================================
