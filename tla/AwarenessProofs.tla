-------------------------- MODULE AwarenessProofs ---------------------------
(***************************************************************************)
(* Theorems about Awareness, for all sets of peers, goroutines and fields  *)
(* and for any number of calls.                                            *)
(***************************************************************************)
EXTENDS Awareness, TLAPS

USE AwarenessAssumption

-----------------------------------------------------------------------------
(***************************************************************************)
(* What the operators return.                                              *)
(***************************************************************************)
\* A state with one field set is a state.
LEMMA FieldSet ==
  ASSUME NEW s \in StateType, NEW f \in Field, NEW n \in 0 .. MaxCalls
  PROVE  [s EXCEPT ![f] = n] \in StateType
  BY DEF StateType

\* The state of an Awareness at the start is of its type.
LEMMA BlankState == Blank \in StateType
  BY DEF Blank, StateType

\* What is on the wire of an entry is the entry, or a null with its clock.
LEMMA WireEntry ==
  ASSUME NEW entry \in EntryType
  PROVE  /\ wire(entry) \in WireType
         /\ wire(entry).state # Null => wire(entry) = entry
  BY DEF wire, WireType, EntryType

\* An entry of an update that is not null is the entry of a client.
LEMMA WireIsEntry ==
  ASSUME NEW entry \in WireType, entry.state # Null
  PROVE  entry \in EntryType
  BY DEF WireType, EntryType

\* What a peer with an entry, or none, holds after taking one.
LEMMA FieldsState ==
  ASSUME NEW entry \in EntryType \cup {Absent}
  PROVE  Fields(entry) \in StateType
  BY BlankState DEF Fields, EntryType

\* SetLocalState changes the entry of its own peer: to one that counts on.
LEMMA StoreEffect ==
  ASSUME TypeOK, NEW p \in Peer, NEW t \in Thread, NEW state \in StateType,
         Store(p, t, state)
  PROVE  \E entry \in EntryType :
            /\ entry.state = state
            /\ states[p][p] # Absent => entry.clock = states[p][p].clock + 1
            /\ states[p][p] = Absent => entry.clock = 0
            /\ states' = [states EXCEPT ![p][p] = entry]
            /\ wrote' = [wrote EXCEPT ![p] = @ \cup {entry}]
<1> DEFINE entry == [state |-> state,
                     clock |-> IF states[p][p] = Absent THEN 0 ELSE states[p][p].clock + 1]
<1>1. states[p][p] \in EntryType \cup {Absent}
  BY DEF TypeOK
<1>2. entry \in EntryType
  BY <1>1 DEF EntryType
<1>3. /\ states' = [states EXCEPT ![p][p] = entry]
      /\ wrote' = [wrote EXCEPT ![p] = @ \cup {entry}]
  BY DEF Store
<1>4. QED
  BY <1>2, <1>3

\* A goroutine that goes on to call handlers knows of sets of peers.
LEMMA TellTypes ==
  ASSUME TypeOK, NEW p \in Peer, NEW t \in Thread,
         NEW add \in SUBSET Peer, NEW upd \in SUBSET Peer, NEW rem \in SUBSET Peer,
         Tell(p, t, add, upd, rem)
  PROVE  /\ call' \in [Peer -> [Thread -> CallType \cup {Idle}]]
         /\ ordered' \in [Peer -> BOOLEAN]
<1> DEFINE telling == [kind |-> "handlers", added |-> add, updated |-> upd, removed |-> rem]
<1>1. telling \in CallType
  BY DEF CallType
<1>2. call' = [call EXCEPT ![p][t] = telling]
  BY DEF Tell
<1>3. call' \in [Peer -> [Thread -> CallType \cup {Idle}]]
  BY <1>1, <1>2 DEF TypeOK
<1>4. ordered' \in [Peer -> BOOLEAN]
  BY DEF Tell, TypeOK
<1>5. QED
  BY <1>3, <1>4

\* SetLocalState keeps the types.
LEMMA StoreTypes ==
  ASSUME TypeOK, NEW p \in Peer, NEW t \in Thread, NEW state \in StateType,
         Store(p, t, state), calls' \in 0 .. MaxCalls,
         meant' \in [Peer -> StateType \cup {Absent}]
  PROVE  TypeOK'
<1>1. PICK entry \in EntryType :
        /\ states' = [states EXCEPT ![p][p] = entry]
        /\ wrote' = [wrote EXCEPT ![p] = @ \cup {entry}]
  BY StoreEffect
<1>2. /\ states' \in [Peer -> [Peer -> EntryType \cup {Absent}]]
      /\ wrote' \in [Peer -> SUBSET EntryType]
  BY <1>1 DEF TypeOK
<1>3. PICK add \in SUBSET Peer, upd \in SUBSET Peer, rem \in SUBSET Peer :
         Tell(p, t, add, upd, rem)
  <2>1. Tell(p, t, IF states[p][p] = Absent THEN {p} ELSE {},
                   IF states[p][p] = Absent THEN {} ELSE {p}, {})
    BY DEF Store
  <2>2. QED
    BY <2>1
<1>4. /\ call' \in [Peer -> [Thread -> CallType \cup {Idle}]]
      /\ ordered' \in [Peer -> BOOLEAN]
  BY <1>3, TellTypes
<1>5. alone' \in [Peer -> BOOLEAN]
  BY DEF Store, TypeOK
<1>6. QED
  BY <1>2, <1>4, <1>5 DEF Store, TypeOK

\* ApplyUpdate leaves every entry of its peer, or takes over the entry of the
\* update, which is newer; and it never touches the state of its own client.
LEMMA MergeEffect ==
  ASSUME TypeOK, NEW p \in Peer, NEW update \in network, NEW ids \in SUBSET DOMAIN update,
         Merge(p, update, ids)
  PROVE  /\ DOMAIN update \subseteq Peer
         /\ states' \in [Peer -> [Peer -> EntryType \cup {Absent}]]
         /\ \A q \in Peer \ {p} : states'[q] = states[q]
         /\ \A c \in Peer :
               \/ states'[p][c] = states[p][c]
               \/ /\ c \in DOMAIN update
                  /\ update[c] \in WireType
                  /\ Newer(states[p][c], update[c])
                  /\ c = p => states[p][p] = Absent
                  /\ \/ update[c].state = Null /\ states'[p][c] = Absent
                     \/ update[c].state # Null /\ states'[p][c] = update[c]
<1>1. PICK S \in SUBSET Peer : update \in [S -> WireType]
  BY DEF TypeOK
<1>2. /\ states \in [Peer -> [Peer -> EntryType \cup {Absent}]]
      /\ Taken(p, update, ids) \subseteq DOMAIN update
  BY DEF TypeOK, Taken
<1> DEFINE new(c) == IF c \notin Taken(p, update, ids) THEN states[p][c]
                     ELSE IF update[c].state = Null THEN Absent ELSE update[c]
<1>3. states' = [states EXCEPT ![p] = [c \in Peer |-> new(c)]]
  BY DEF Merge
<1>4. \A c \in Peer : new(c) \in EntryType \cup {Absent}
  BY <1>1, <1>2, WireIsEntry
<1>5. states'[p] = [c \in Peer |-> new(c)] /\ \A q \in Peer \ {p} : states'[q] = states[q]
  BY <1>2, <1>3
<1>6. states' \in [Peer -> [Peer -> EntryType \cup {Absent}]]
  BY <1>2, <1>3, <1>4
<1>7. ASSUME NEW c \in Taken(p, update, ids)
      PROVE  /\ c \in DOMAIN update /\ update[c] \in WireType
             /\ Newer(states[p][c], update[c])
             /\ c = p => states[p][p] = Absent
  BY <1>1, <1>2 DEF Taken
<1>8. QED
  BY <1>1, <1>5, <1>6, <1>7

-----------------------------------------------------------------------------
\* The types of the variables are an invariant; in particular every state and every
\* update is a whole one, of known clients.
THEOREM TypeCorrect == Spec => []TypeOK
<1>1. Init => TypeOK
  <2> SUFFICES ASSUME Init PROVE TypeOK
    OBVIOUS
  <2>1. [state |-> Blank, clock |-> 0] \in EntryType
    BY BlankState DEF EntryType
  <2>2. QED
    BY <2>1, BlankState DEF Init, TypeOK
<1>2. TypeOK /\ [Next]_vars => TypeOK'
  <2> SUFFICES ASSUME TypeOK, [Next]_vars PROVE TypeOK'
    OBVIOUS
  <2>0. /\ \A q \in Peer : states[q][q] \in EntryType \cup {Absent}
        /\ \A q \in Peer : Fields(states[q][q]) \in StateType
    BY FieldsState DEF TypeOK
  <2>1. ASSUME NEW p \in Peer, NEW t \in Thread, NEW f \in Field, SetLocalState(p, t, f)
        PROVE  TypeOK'
    <3>1. calls + 1 \in 0 .. MaxCalls
      BY <2>1 DEF SetLocalState, TypeOK
    <3>2. [Blank EXCEPT ![f] = calls + 1] \in StateType
      BY <3>1, BlankState, FieldSet
    <3>3. Store(p, t, [Blank EXCEPT ![f] = calls + 1])
      BY <2>1 DEF SetLocalState
    <3>4. /\ calls' \in 0 .. MaxCalls
          /\ meant' \in [Peer -> StateType \cup {Absent}]
      BY <2>1, <3>1, <3>2 DEF SetLocalState, TypeOK
    <3>5. QED
      BY <3>2, <3>3, <3>4, StoreTypes
  <2>2. ASSUME NEW p \in Peer, NEW t \in Thread, NEW f \in Field, CopyState(p, t, f)
        PROVE  TypeOK'
    <3>1. calls + 1 \in 0 .. MaxCalls
      BY <2>2 DEF CopyState, TypeOK
    <3>2. [Fields(states[p][p]) EXCEPT ![f] = calls + 1] \in StateType
      BY <2>0, <3>1, FieldSet
    <3> DEFINE copied == [kind |-> "field", state |-> [Fields(states[p][p]) EXCEPT ![f] = calls + 1]]
               mine   == IF meant[p] = Absent THEN Absent ELSE [state |-> meant[p], clock |-> 0]
    <3>3. copied \in CallType
      BY <3>2 DEF CallType
    <3>4. Fields(mine) \in StateType
      <4>1. meant[p] \in StateType \cup {Absent}
        BY DEF TypeOK
      <4>2. mine \in EntryType \cup {Absent}
        BY <4>1 DEF EntryType
      <4>3. QED
        BY <4>2, FieldsState
    <3>5. [Fields(mine) EXCEPT ![f] = calls + 1] \in StateType
      BY <3>1, <3>4, FieldSet
    <3>6. /\ call' = [call EXCEPT ![p][t] = copied]
          /\ meant' = [meant EXCEPT ![p] = [Fields(mine) EXCEPT ![f] = calls + 1]]
      BY <2>2 DEF CopyState
    <3>7. /\ call' \in [Peer -> [Thread -> CallType \cup {Idle}]]
          /\ meant' \in [Peer -> StateType \cup {Absent}]
      BY <3>3, <3>5, <3>6 DEF TypeOK
    <3>8. alone' \in [Peer -> BOOLEAN] /\ calls' \in 0 .. MaxCalls
      BY <2>2, <3>1 DEF CopyState, TypeOK
    <3>9. QED
      BY <2>2, <3>7, <3>8 DEF CopyState, TypeOK
  <2>3. ASSUME NEW p \in Peer, NEW t \in Thread, StoreField(p, t)
        PROVE  TypeOK'
    <3>1. call[p][t] \in CallType /\ call[p][t].kind = "field"
      BY <2>3 DEF StoreField, Halfway, TypeOK
    <3>2. call[p][t].state \in StateType
      BY <3>1 DEF CallType
    <3>3. Store(p, t, call[p][t].state) /\ UNCHANGED <<calls, meant>>
      BY <2>3 DEF StoreField
    <3>4. calls' \in 0 .. MaxCalls /\ meant' \in [Peer -> StateType \cup {Absent}]
      BY <3>3 DEF TypeOK
    <3>5. QED
      BY <3>2, <3>3, <3>4, StoreTypes
  <2>4. ASSUME NEW p \in Peer, NEW t \in Thread, Remove(p, t)
        PROVE  TypeOK'
    <3>1. Tell(p, t, {}, {}, {p})
      BY <2>4 DEF Remove
    <3>2. /\ call' \in [Peer -> [Thread -> CallType \cup {Idle}]]
          /\ ordered' \in [Peer -> BOOLEAN]
      BY <3>1, TellTypes
    <3>3. /\ states' \in [Peer -> [Peer -> EntryType \cup {Absent}]]
          /\ removed' \in [Peer -> BOOLEAN]
          /\ alone' \in [Peer -> BOOLEAN]
          /\ meant' \in [Peer -> StateType \cup {Absent}]
          /\ calls' \in 0 .. MaxCalls
      BY <2>4 DEF Remove, TypeOK
    <3>4. QED
      BY <2>4, <3>2, <3>3 DEF Remove, TypeOK
  <2>5. ASSUME NEW p \in Peer, NEW t \in Thread, NEW update \in network,
               ApplyUpdate(p, t, update)
        PROVE  TypeOK'
    <3> DEFINE taken == Taken(p, update, DOMAIN update)
               known == { c \in taken : states[p][c] # Absent }
               nulls == { c \in taken : update[c].state = Null }
    <3>1. Merge(p, update, DOMAIN update) /\ Receiving(p, t)
      BY <2>5 DEF ApplyUpdate
    <3>2. /\ DOMAIN update \subseteq Peer
          /\ states' \in [Peer -> [Peer -> EntryType \cup {Absent}]]
      BY <3>1, MergeEffect
    <3>3. taken \subseteq Peer
      BY <3>2 DEF Taken
    <3>4. \/ UNCHANGED <<call, ordered>>
          \/ Tell(p, t, taken \ (known \cup nulls), known \ nulls, known \cap nulls)
      BY <2>5 DEF ApplyUpdate
    <3>5. /\ call' \in [Peer -> [Thread -> CallType \cup {Idle}]]
          /\ ordered' \in [Peer -> BOOLEAN]
      <4>1. CASE UNCHANGED <<call, ordered>>
        BY <4>1 DEF TypeOK
      <4>2. CASE Tell(p, t, taken \ (known \cup nulls), known \ nulls, known \cap nulls)
        <5>1. PICK add \in SUBSET Peer, upd \in SUBSET Peer, rem \in SUBSET Peer :
                 Tell(p, t, add, upd, rem)
          BY <3>3, <4>2
        <5>2. QED
          BY <5>1, TellTypes
      <4>3. QED
        BY <3>4, <4>1, <4>2
    <3>6. alone' \in [Peer -> BOOLEAN]
      BY <2>5 DEF ApplyUpdate, TypeOK
    <3>7. QED
      BY <3>1, <3>2, <3>5, <3>6 DEF Receiving, TypeOK
  <2>6. ASSUME NEW p \in Peer, NEW t \in Thread, NEW update \in network,
               NEW ids \in SUBSET DOMAIN update, ApplyTruncated(p, t, update, ids)
        PROVE  TypeOK'
    <3>1. Merge(p, update, ids) /\ Receiving(p, t)
      BY <2>6 DEF ApplyTruncated
    <3>2. states' \in [Peer -> [Peer -> EntryType \cup {Absent}]]
      BY <3>1, MergeEffect
    <3>3. alone' \in [Peer -> BOOLEAN] /\ ordered' \in [Peer -> BOOLEAN]
      BY <2>6 DEF ApplyTruncated, TypeOK
    <3>4. QED
      BY <2>6, <3>1, <3>2, <3>3 DEF ApplyTruncated, Receiving, TypeOK
  <2>7. ASSUME NEW p \in Peer, NEW t \in Thread, CallHandlers(p, t)
        PROVE  TypeOK'
    <3>1. call[p][t] \in CallType /\ call[p][t].kind = "handlers"
      BY <2>7 DEF CallHandlers, Telling, TypeOK
    <3>2. call[p][t].added \in SUBSET Peer
      BY <3>1 DEF CallType
    <3>3. view' \in [Peer -> SUBSET Peer]
      BY <2>7, <3>2 DEF CallHandlers, TypeOK
    <3>4. call' \in [Peer -> [Thread -> CallType \cup {Idle}]]
      BY <2>7 DEF CallHandlers, TypeOK
    <3>5. QED
      BY <2>7, <3>3, <3>4 DEF CallHandlers, history, TypeOK
  <2>8. ASSUME NEW p \in Peer, NEW ids \in SUBSET Peer, EncodeUpdate(p, ids)
        PROVE  TypeOK'
    <3> DEFINE known == { x \in ids : states[p][x] # Absent }
               new   == [c \in known |-> wire(states[p][c])]
    <3>1. \A c \in known : states[p][c] \in EntryType
      BY DEF TypeOK
    <3>2. new \in [known -> WireType]
      BY <3>1, WireEntry
    <3>3. network' = network \cup {new}
      BY <2>8 DEF EncodeUpdate
    <3>4. \A update \in network' : \E S \in SUBSET Peer : update \in [S -> WireType]
      BY <3>2, <3>3 DEF TypeOK
    <3>5. QED
      BY <2>8, <3>4 DEF EncodeUpdate, history, TypeOK
  <2>9. CASE UNCHANGED vars
    BY <2>9 DEF vars, history, TypeOK
  <2>10. QED
    BY <2>1, <2>2, <2>3, <2>4, <2>5, <2>6, <2>7, <2>8, <2>9 DEF Next
<1>3. QED
  BY <1>1, <1>2, PTL DEF Spec

-----------------------------------------------------------------------------
(***************************************************************************)
(* Every state is one that its client set.  So are those on the network.   *)
(***************************************************************************)
NetworkAuthentic ==
    \A update \in network : \A c \in DOMAIN update :
        update[c].state # Null => update[c] \in wrote[c]

AuthInv == Authentic /\ NetworkAuthentic

\* A merge of entries that are authentic keeps the entries authentic.
LEMMA MergeAuthentic ==
  ASSUME TypeOK, AuthInv, NEW p \in Peer, NEW update \in network,
         NEW ids \in SUBSET DOMAIN update, Merge(p, update, ids),
         UNCHANGED <<network, wrote>>
  PROVE  AuthInv'
<1>1. ASSUME NEW q \in Peer, NEW c \in Peer, states'[q][c] # Absent
      PROVE  states'[q][c] \in wrote[c]
  <2>1. CASE states'[q][c] = states[q][c]
    BY <1>1, <2>1 DEF AuthInv, Authentic
  <2>2. CASE states'[q][c] # states[q][c]
    <3>1. q = p /\ c \in DOMAIN update /\ update[c].state # Null /\ states'[p][c] = update[c]
      BY <1>1, <2>2, MergeEffect
    <3>2. QED
      BY <3>1 DEF AuthInv, NetworkAuthentic
  <2>3. QED
    BY <2>1, <2>2
<1>2. QED
  BY <1>1 DEF AuthInv, Authentic, NetworkAuthentic

\* A new entry of a client is one that it set.
LEMMA StoreAuthentic ==
  ASSUME TypeOK, AuthInv, NEW p \in Peer, NEW t \in Thread, NEW state \in StateType,
         Store(p, t, state)
  PROVE  AuthInv'
<1>1. PICK entry \in EntryType :
        /\ states' = [states EXCEPT ![p][p] = entry]
        /\ wrote' = [wrote EXCEPT ![p] = @ \cup {entry}]
  BY StoreEffect
<1>2. /\ states'[p][p] = entry /\ entry \in wrote'[p]
      /\ \A q, c \in Peer : q # p \/ c # p => states'[q][c] = states[q][c]
      /\ \A c \in Peer : wrote[c] \subseteq wrote'[c]
  BY <1>1 DEF TypeOK
<1>3. network' = network /\ \A update \in network : DOMAIN update \subseteq Peer
  BY DEF Store, TypeOK
<1>4. Authentic'
  BY <1>2 DEF AuthInv, Authentic
<1>5. NetworkAuthentic'
  BY <1>2, <1>3 DEF AuthInv, NetworkAuthentic
<1>6. QED
  BY <1>4, <1>5 DEF AuthInv

\* Every operation of an Awareness keeps AuthInv.
LEMMA AuthStep == TypeOK /\ AuthInv /\ [Next]_vars => AuthInv'
<1> SUFFICES ASSUME TypeOK, AuthInv, [Next]_vars PROVE AuthInv'
  OBVIOUS
<1>1. ASSUME NEW p \in Peer, NEW t \in Thread, NEW f \in Field, SetLocalState(p, t, f)
      PROVE  AuthInv'
  <2>1. [Blank EXCEPT ![f] = calls + 1] \in StateType
    <3>1. calls + 1 \in 0 .. MaxCalls
      BY <1>1 DEF SetLocalState, TypeOK
    <3>2. QED
      BY <3>1, BlankState, FieldSet
  <2>2. QED
    BY <1>1, <2>1, StoreAuthentic DEF SetLocalState
<1>2. ASSUME NEW p \in Peer, NEW t \in Thread, StoreField(p, t)
      PROVE  AuthInv'
  <2>1. call[p][t].state \in StateType
    BY <1>2 DEF StoreField, Halfway, TypeOK, CallType
  <2>2. QED
    BY <1>2, <2>1, StoreAuthentic DEF StoreField
<1>3. ASSUME NEW p \in Peer, NEW t \in Thread, Remove(p, t)
      PROVE  AuthInv'
  <2>1. states' = [states EXCEPT ![p][p] = Absent] /\ UNCHANGED <<network, wrote>>
    BY <1>3 DEF Remove
  <2>2. \A q, c \in Peer : states'[q][c] # Absent => states'[q][c] = states[q][c]
    BY <2>1 DEF TypeOK
  <2>3. QED
    BY <2>1, <2>2 DEF AuthInv, Authentic, NetworkAuthentic
<1>4. ASSUME NEW p \in Peer, NEW t \in Thread, NEW update \in network,
             ApplyUpdate(p, t, update)
      PROVE  AuthInv'
  BY <1>4, MergeAuthentic DEF ApplyUpdate, Receiving
<1>5. ASSUME NEW p \in Peer, NEW t \in Thread, NEW update \in network,
             NEW ids \in SUBSET DOMAIN update, ApplyTruncated(p, t, update, ids)
      PROVE  AuthInv'
  BY <1>5, MergeAuthentic DEF ApplyTruncated, Receiving
<1>6. ASSUME NEW p \in Peer, NEW ids \in SUBSET Peer, EncodeUpdate(p, ids)
      PROVE  AuthInv'
  <2> DEFINE known == { x \in ids : states[p][x] # Absent }
             new   == [c \in known |-> wire(states[p][c])]
  <2>1. network' = network \cup {new} /\ UNCHANGED <<states, wrote>>
    BY <1>6 DEF EncodeUpdate, history
  <2>2. ASSUME NEW c \in known, wire(states[p][c]).state # Null
        PROVE  wire(states[p][c]) \in wrote[c]
    <3>1. states[p][c] \in EntryType /\ states[p][c] \in wrote[c]
      BY DEF AuthInv, Authentic, TypeOK
    <3>2. QED
      BY <2>2, <3>1, WireEntry
  <2>3. DOMAIN new = known /\ \A c \in known : new[c] = wire(states[p][c])
    OBVIOUS
  <2>4. \A c \in DOMAIN new : new[c].state # Null => new[c] \in wrote[c]
    BY <2>2, <2>3
  <2>5. NetworkAuthentic'
    BY <2>1, <2>4 DEF AuthInv, NetworkAuthentic
  <2>6. QED
    BY <2>1, <2>5 DEF AuthInv, Authentic
<1>7. ASSUME UNCHANGED <<states, network, wrote>>
      PROVE  AuthInv'
  BY <1>7 DEF AuthInv, Authentic, NetworkAuthentic
<1>8. QED
  BY <1>1, <1>2, <1>3, <1>4, <1>5, <1>6, <1>7 DEF Next, vars, history, CopyState, CallHandlers

\* A state that a peer holds for a client is one that the client itself set, at that
\* clock: however updates are repeated, reordered, passed on or cut short.
THEOREM AuthenticStates == Spec => []Authentic
<1>1. Init => AuthInv
  <2> SUFFICES ASSUME Init PROVE AuthInv
    OBVIOUS
  <2>1. network = {}
    BY DEF Init
  <2>2. ASSUME NEW p \in Peer, NEW c \in Peer, states[p][c] # Absent
        PROVE  states[p][c] \in wrote[c]
    BY <2>2 DEF Init
  <2>3. QED
    BY <2>1, <2>2 DEF AuthInv, Authentic, NetworkAuthentic
<1>2. AuthInv => Authentic
  BY DEF AuthInv
<1>3. QED
  BY <1>1, <1>2, AuthStep, TypeCorrect, PTL DEF Spec

-----------------------------------------------------------------------------
\* The entries of other clients change only where an update is applied.
LEMMA OthersChange ==
  ASSUME TypeOK, [Next]_vars, NEW p \in Peer, NEW c \in Peer \ {p},
         states'[p][c] # states[p][c]
  PROVE  \E entry \in WireType :
            /\ Newer(states[p][c], entry)
            /\ \/ entry.state = Null /\ states'[p][c] = Absent
               \/ entry.state # Null /\ states'[p][c] = entry
<1>1. ASSUME NEW q \in Peer, NEW update \in network, NEW ids \in SUBSET DOMAIN update,
             Merge(q, update, ids)
      PROVE  \E entry \in WireType :
                /\ Newer(states[p][c], entry)
                /\ \/ entry.state = Null /\ states'[p][c] = Absent
                   \/ entry.state # Null /\ states'[p][c] = entry
  <2>1. p = q
    BY <1>1, MergeEffect
  <2>2. /\ c \in DOMAIN update /\ update[c] \in WireType
        /\ Newer(states[p][c], update[c])
        /\ \/ update[c].state = Null /\ states'[p][c] = Absent
           \/ update[c].state # Null /\ states'[p][c] = update[c]
    BY <1>1, <2>1, MergeEffect
  <2>3. QED
    BY <2>2
<1>2. ASSUME NEW q \in Peer, NEW t \in Thread, NEW f \in Field, SetLocalState(q, t, f)
      PROVE  FALSE
  BY <1>2 DEF SetLocalState, Store, TypeOK
<1>3. ASSUME NEW q \in Peer, NEW t \in Thread, StoreField(q, t)
      PROVE  FALSE
  BY <1>3 DEF StoreField, Store, TypeOK
<1>4. ASSUME NEW q \in Peer, NEW t \in Thread, Remove(q, t)
      PROVE  FALSE
  BY <1>4 DEF Remove, TypeOK
<1>5. ASSUME NEW q \in Peer, NEW t \in Thread, NEW update \in network,
             ApplyUpdate(q, t, update)
      PROVE  Merge(q, update, DOMAIN update)
  BY <1>5 DEF ApplyUpdate
<1>6. ASSUME NEW q \in Peer, NEW t \in Thread, NEW update \in network,
             NEW ids \in SUBSET DOMAIN update, ApplyTruncated(q, t, update, ids)
      PROVE  Merge(q, update, ids)
  BY <1>6 DEF ApplyTruncated
<1>7. states' # states
  OBVIOUS
<1>8. CASE \E q \in Peer, t \in Thread, update \in network : ApplyUpdate(q, t, update)
  <2>1. PICK q \in Peer, t \in Thread, update \in network : ApplyUpdate(q, t, update)
    BY <1>8
  <2>2. Merge(q, update, DOMAIN update)
    BY <1>5, <2>1
  <2>3. QED
    BY <1>1, <2>2
<1>9. CASE \E q \in Peer, t \in Thread, update \in network :
              \E ids \in SUBSET DOMAIN update : ApplyTruncated(q, t, update, ids)
  <2>1. PICK q \in Peer, t \in Thread, update \in network :
               \E ids \in SUBSET DOMAIN update : ApplyTruncated(q, t, update, ids)
    BY <1>9
  <2>2. PICK ids \in SUBSET DOMAIN update : ApplyTruncated(q, t, update, ids)
    BY <2>1
  <2>3. Merge(q, update, ids)
    BY <1>6, <2>2
  <2>4. QED
    BY <1>1, <2>3
<1>10. QED
  BY <1>2, <1>3, <1>4, <1>7, <1>8, <1>9
  DEF Next, vars, EncodeUpdate, CopyState, CallHandlers

\* A peer never goes back to an older state of another client.
THEOREM NeverGoesBack == Spec => NeverBack
<1>1. ASSUME TypeOK, [Next]_vars, NEW p \in Peer, NEW c \in Peer \ {p},
             states[p][c] # Absent, states'[p][c] # Absent, states[p][c] # states'[p][c]
      PROVE  states'[p][c].clock > states[p][c].clock
  <2>1. PICK entry \in WireType : /\ Newer(states[p][c], entry)
                                  /\ entry.state # Null /\ states'[p][c] = entry
    BY <1>1, OthersChange
  <2>2. QED
    BY <1>1, <2>1 DEF Newer, Clock
<1>2. TypeOK /\ [Next]_vars =>
        [\A p \in Peer : \A c \in Peer \ {p} :
           states[p][c] # Absent /\ states'[p][c] # Absent /\ states[p][c] # states'[p][c]
             => states'[p][c].clock > states[p][c].clock]_vars
  BY <1>1
<1>3. QED
  BY <1>2, TypeCorrect, PTL DEF Spec, NeverBack

-----------------------------------------------------------------------------
(***************************************************************************)
(* A clock names a state.  As long as a client has not removed its state,  *)
(* its own entry has the highest clock of those it set, and it never set   *)
(* two with one clock: no update can touch its entry meanwhile.            *)
(***************************************************************************)
CountedOn(c) ==
    ~removed[c] =>
        /\ states[c][c] # Absent
        /\ \A e \in wrote[c] : e.clock <= states[c][c].clock
        /\ \A e, f \in wrote[c] : e.clock = f.clock => e = f

ClockInv == \A c \in Peer : CountedOn(c)

\* A new entry has a clock of its own.
LEMMA StoreKeepsCount ==
  ASSUME TypeOK, ClockInv, NEW p \in Peer, NEW t \in Thread, NEW state \in StateType,
         Store(p, t, state)
  PROVE  ClockInv'
<1>1. PICK entry \in EntryType :
        /\ states[p][p] # Absent => entry.clock = states[p][p].clock + 1
        /\ states' = [states EXCEPT ![p][p] = entry]
        /\ wrote' = [wrote EXCEPT ![p] = @ \cup {entry}]
  BY StoreEffect
<1>2. removed' = removed
  BY DEF Store
<1>3. /\ states'[p][p] = entry /\ wrote'[p] = wrote[p] \cup {entry}
      /\ \A c \in Peer \ {p} : states'[c][c] = states[c][c] /\ wrote'[c] = wrote[c]
  BY <1>1 DEF TypeOK
<1>4. entry # Absent /\ entry.clock \in Nat
  BY DEF EntryType
<1>5. ASSUME NEW c \in Peer \ {p} PROVE CountedOn(c)'
  BY <1>2, <1>3 DEF ClockInv, CountedOn
<1>6. ASSUME ~removed[p]
      PROVE  /\ states[p][p].clock \in Nat
             /\ \A e \in wrote[p] : e.clock \in Nat /\ e.clock < entry.clock
             /\ \A e, f \in wrote[p] : e.clock = f.clock => e = f
  <2>1. /\ states[p][p] # Absent
        /\ \A e \in wrote[p] : e.clock <= states[p][p].clock
        /\ \A e, f \in wrote[p] : e.clock = f.clock => e = f
    BY <1>6 DEF ClockInv, CountedOn
  <2>2. states[p][p] \in EntryType /\ \A e \in wrote[p] : e \in EntryType
    BY <2>1 DEF TypeOK
  <2>3. states[p][p].clock \in Nat /\ \A e \in wrote[p] : e.clock \in Nat
    BY <2>2 DEF EntryType
  <2>4. QED
    BY <1>1, <2>1, <2>3
<1>7. CountedOn(p)'
  <2> SUFFICES ASSUME ~removed[p]
               PROVE  /\ states'[p][p] # Absent
                      /\ \A e \in wrote'[p] : e.clock <= states'[p][p].clock
                      /\ \A e, f \in wrote'[p] : e.clock = f.clock => e = f
    BY <1>2 DEF CountedOn
  <2>1. \A e \in wrote'[p] : e.clock <= entry.clock
    BY <1>3, <1>4, <1>6
  <2>2. \A e, f \in wrote'[p] : e.clock = f.clock => e = f
    BY <1>3, <1>4, <1>6
  <2>3. QED
    BY <1>3, <1>4, <2>1, <2>2
<1>8. QED
  BY <1>5, <1>7 DEF ClockInv

\* No update touches the entry of a client at its own peer, unless it was removed.
LEMMA MergeKeepsCount ==
  ASSUME TypeOK, ClockInv, NEW p \in Peer, NEW update \in network,
         NEW ids \in SUBSET DOMAIN update, Merge(p, update, ids),
         UNCHANGED <<wrote, removed>>
  PROVE  ClockInv'
<1>1. ASSUME NEW c \in Peer, ~removed[c] PROVE states'[c][c] = states[c][c]
  <2>1. states[c][c] # Absent
    BY <1>1 DEF ClockInv, CountedOn
  <2>2. QED
    BY <2>1, MergeEffect
<1>2. QED
  BY <1>1 DEF ClockInv, CountedOn

\* Every operation of an Awareness keeps ClockInv.
LEMMA ClockStep == TypeOK /\ ClockInv /\ [Next]_vars => ClockInv'
<1> SUFFICES ASSUME TypeOK, ClockInv, [Next]_vars PROVE ClockInv'
  OBVIOUS
<1>1. ASSUME NEW p \in Peer, NEW t \in Thread, NEW f \in Field, SetLocalState(p, t, f)
      PROVE  ClockInv'
  <2>1. [Blank EXCEPT ![f] = calls + 1] \in StateType
    <3>1. calls + 1 \in 0 .. MaxCalls
      BY <1>1 DEF SetLocalState, TypeOK
    <3>2. QED
      BY <3>1, BlankState, FieldSet
  <2>2. QED
    BY <1>1, <2>1, StoreKeepsCount DEF SetLocalState
<1>2. ASSUME NEW p \in Peer, NEW t \in Thread, StoreField(p, t)
      PROVE  ClockInv'
  <2>1. call[p][t].state \in StateType
    BY <1>2 DEF StoreField, Halfway, TypeOK, CallType
  <2>2. QED
    BY <1>2, <2>1, StoreKeepsCount DEF StoreField
<1>3. ASSUME NEW p \in Peer, NEW t \in Thread, Remove(p, t)
      PROVE  ClockInv'
  <2>1. /\ removed'[p] /\ wrote' = wrote
        /\ \A c \in Peer \ {p} : states'[c][c] = states[c][c] /\ removed'[c] = removed[c]
    BY <1>3 DEF Remove, TypeOK
  <2>2. QED
    BY <2>1 DEF ClockInv, CountedOn
<1>4. ASSUME NEW p \in Peer, NEW t \in Thread, NEW update \in network,
             ApplyUpdate(p, t, update)
      PROVE  ClockInv'
  <2>1. Merge(p, update, DOMAIN update) /\ UNCHANGED <<wrote, removed>>
    BY <1>4 DEF ApplyUpdate, Receiving
  <2>2. QED
    BY <2>1, MergeKeepsCount
<1>5. ASSUME NEW p \in Peer, NEW t \in Thread, NEW update \in network,
             NEW ids \in SUBSET DOMAIN update, ApplyTruncated(p, t, update, ids)
      PROVE  ClockInv'
  <2>1. Merge(p, update, ids) /\ UNCHANGED <<wrote, removed>>
    BY <1>5 DEF ApplyTruncated, Receiving
  <2>2. QED
    BY <2>1, MergeKeepsCount
<1>6. ASSUME UNCHANGED <<states, wrote, removed>>
      PROVE  ClockInv'
  BY <1>6 DEF ClockInv, CountedOn
<1>7. QED
  BY <1>1, <1>2, <1>3, <1>4, <1>5, <1>6
  DEF Next, vars, history, CopyState, CallHandlers, EncodeUpdate

\* Two peers that hold the state of a client at one clock hold the same state, unless
\* the client removed its state and so began to count again.
THEOREM ClockNames == Spec => []ClockNamesState
<1>1. Init => AuthInv /\ ClockInv
  <2> SUFFICES ASSUME Init PROVE AuthInv /\ ClockInv
    OBVIOUS
  <2>1. AuthInv
    BY DEF Init, AuthInv, Authentic, NetworkAuthentic
  <2>2. \A c \in Peer : /\ states[c][c] = [state |-> Blank, clock |-> 0]
                        /\ wrote[c] = {[state |-> Blank, clock |-> 0]}
    BY DEF Init
  <2>3. [state |-> Blank, clock |-> 0] \in EntryType
    BY BlankState DEF EntryType
  <2>4. ClockInv
    BY <2>2, <2>3 DEF ClockInv, CountedOn
  <2>5. QED
    BY <2>1, <2>4
<1>2. AuthInv /\ ClockInv => ClockNamesState
  BY DEF AuthInv, Authentic, ClockInv, CountedOn, ClockNamesState
<1>3. QED
  BY <1>1, <1>2, AuthStep, ClockStep, TypeCorrect, PTL DEF Spec

-----------------------------------------------------------------------------
(***************************************************************************)
(* The local state.  What the property says of a peer that is in no        *)
(* SetLocalStateField is kept through one by this: the peer is in only one, *)
(* and that one holds the state that its calls make.                       *)
(***************************************************************************)
Mine(p) ==
    IF meant[p] = Absent THEN states[p][p] = Absent
    ELSE states[p][p] # Absent /\ states[p][p].state = meant[p]

MineAt(p) ==
    alone[p] =>
        /\ Halfway(p) = {} => Mine(p)
        /\ \A t \in Halfway(p) : Halfway(p) = {t} /\ meant[p] = call[p][t].state

MineInv == \A p \in Peer : MineAt(p)

\* A step that leaves the peer's state and what its calls make of it alone.
LEMMA MineFrame ==
  ASSUME NEW p \in Peer, MineAt(p), alone'[p] => alone[p],
         meant'[p] = meant[p], states'[p][p] = states[p][p],
         Halfway(p)' = Halfway(p), \A t \in Halfway(p) : call'[p][t] = call[p][t]
  PROVE  MineAt(p)'
<1>1. Mine(p)' <=> Mine(p)
  BY DEF Mine
<1>2. QED
  BY <1>1 DEF MineAt

\* A goroutine that goes to call handlers is in no SetLocalStateField; the others
\* are where they were.
LEMMA TellHalfway ==
  ASSUME TypeOK, NEW p \in Peer, NEW t \in Thread, NEW add, NEW upd, NEW rem,
         Tell(p, t, add, upd, rem)
  PROVE  /\ Halfway(p)' = Halfway(p) \ {t}
         /\ \A u \in Thread \ {t} : call'[p][u] = call[p][u]
         /\ \A q \in Peer \ {p} : call'[q] = call[q] /\ Halfway(q)' = Halfway(q)
<1> DEFINE telling == [kind |-> "handlers", added |-> add, updated |-> upd, removed |-> rem]
<1>1. call' = [call EXCEPT ![p][t] = telling]
  BY DEF Tell
<1>2. /\ call'[p][t] = telling
      /\ \A u \in Thread \ {t} : call'[p][u] = call[p][u]
      /\ \A q \in Peer \ {p} : call'[q] = call[q]
  BY <1>1 DEF TypeOK
<1>3. telling.kind # "field"
  OBVIOUS
<1>4. QED
  BY <1>2, <1>3 DEF Halfway

\* SetLocalState makes the state of the peer the one it was given.
LEMMA StoreMine ==
  ASSUME TypeOK, MineInv, NEW p \in Peer, NEW t \in Thread, NEW state \in StateType,
         Store(p, t, state), meant'[p] = state,
         \A q \in Peer \ {p} : meant'[q] = meant[q]
  PROVE  MineInv'
<1>1. PICK entry \in EntryType :
        entry.state = state /\ states' = [states EXCEPT ![p][p] = entry]
  BY StoreEffect
<1>2. /\ states'[p][p] = entry
      /\ \A q \in Peer \ {p} : states'[q][q] = states[q][q]
  BY <1>1 DEF TypeOK
<1>3. PICK add, upd : Tell(p, t, add, upd, {})
  BY DEF Store
<1>4. /\ Halfway(p)' = Halfway(p) \ {t}
      /\ \A q \in Peer \ {p} : call'[q] = call[q] /\ Halfway(q)' = Halfway(q)
  BY <1>3, TellHalfway
<1>5. /\ alone'[p] => Halfway(p) \subseteq {t}
      /\ \A q \in Peer \ {p} : alone'[q] = alone[q]
  BY DEF Store, TypeOK
<1>6. MineAt(p)'
  <2>1. state # Absent
    OBVIOUS
  <2>2. Mine(p)'
    BY <1>1, <1>2, <2>1 DEF Mine
  <2>3. alone'[p] => Halfway(p)' = {}
    BY <1>4, <1>5
  <2>4. QED
    BY <2>2, <2>3 DEF MineAt
<1>7. ASSUME NEW q \in Peer \ {p} PROVE MineAt(q)'
  BY <1>2, <1>4, <1>5, MineFrame DEF MineInv
<1>8. QED
  BY <1>6, <1>7 DEF MineInv

\* An update does not touch the state of the peer that receives it, unless the peer
\* had removed it; and it is received by a goroutine that is in no other call.
LEMMA MergeMine ==
  ASSUME TypeOK, MineInv, NEW p \in Peer, NEW t \in Thread, NEW update \in network,
         NEW ids \in SUBSET DOMAIN update, Merge(p, update, ids), Receiving(p, t),
         alone' = [alone EXCEPT ![p] = @ /\ (p \in Taken(p, update, ids) => states[p][p] # Absent)],
         \/ UNCHANGED call
         \/ \E add, upd, rem : Tell(p, t, add, upd, rem)
  PROVE  MineInv'
<1>1. /\ alone'[p] => alone[p] /\ (p \in Taken(p, update, ids) => states[p][p] # Absent)
      /\ \A q \in Peer \ {p} : alone'[q] = alone[q]
  BY DEF TypeOK
<1>2. t \notin Halfway(p) /\ meant' = meant
  BY DEF Receiving, Halfway
<1>3. \A q \in Peer : Halfway(q)' = Halfway(q) /\ \A u \in Halfway(q) : call'[q][u] = call[q][u]
  <2>1. CASE UNCHANGED call
    BY <2>1 DEF Halfway
  <2>2. CASE \E add, upd, rem : Tell(p, t, add, upd, rem)
    <3>1. PICK add, upd, rem : Tell(p, t, add, upd, rem)
      BY <2>2
    <3>2. /\ Halfway(p)' = Halfway(p) \ {t}
          /\ \A u \in Thread \ {t} : call'[p][u] = call[p][u]
          /\ \A q \in Peer \ {p} : call'[q] = call[q] /\ Halfway(q)' = Halfway(q)
      BY <3>1, TellHalfway
    <3>3. Halfway(p) \subseteq Thread
      BY DEF Halfway
    <3>4. QED
      BY <1>2, <3>2, <3>3
  <2>3. QED
    BY <2>1, <2>2
<1>4. \A q \in Peer \ {p} : states'[q] = states[q]
  BY MergeEffect
<1>5. p \notin Taken(p, update, ids) \/ states[p][p] = Absent
  BY DEF Taken
<1>6. alone'[p] => states'[p][p] = states[p][p]
  <2>1. p \notin Taken(p, update, ids) => states'[p][p] = states[p][p]
    BY DEF Merge, TypeOK
  <2>2. QED
    BY <1>1, <1>5, <2>1
<1>7. MineAt(p)'
  <2>1. CASE alone'[p]
    BY <1>1, <1>2, <1>3, <1>6, <2>1, MineFrame DEF MineInv
  <2>2. CASE ~alone'[p]
    BY <2>2 DEF MineAt
  <2>3. QED
    BY <2>1, <2>2
<1>8. ASSUME NEW q \in Peer \ {p} PROVE MineAt(q)'
  BY <1>1, <1>2, <1>3, <1>4, MineFrame DEF MineInv
<1>9. QED
  BY <1>7, <1>8 DEF MineInv

\* Every operation of an Awareness keeps MineInv.
LEMMA MineStep == TypeOK /\ MineInv /\ [Next]_vars => MineInv'
<1> SUFFICES ASSUME TypeOK, MineInv, [Next]_vars PROVE MineInv'
  OBVIOUS
<1>1. ASSUME NEW p \in Peer, NEW t \in Thread, NEW f \in Field, SetLocalState(p, t, f)
      PROVE  MineInv'
  <2> DEFINE state == [Blank EXCEPT ![f] = calls + 1]
  <2>1. calls + 1 \in 0 .. MaxCalls
    BY <1>1 DEF SetLocalState, TypeOK
  <2>2. state \in StateType
    BY <2>1, BlankState, FieldSet
  <2>3. Store(p, t, state) /\ meant' = [meant EXCEPT ![p] = state]
    BY <1>1 DEF SetLocalState
  <2>4. meant'[p] = state /\ \A q \in Peer \ {p} : meant'[q] = meant[q]
    BY <2>3 DEF TypeOK
  <2> HIDE DEF state
  <2>5. QED
    BY <2>2, <2>3, <2>4, StoreMine
<1>2. ASSUME NEW p \in Peer, NEW t \in Thread, NEW f \in Field, CopyState(p, t, f)
      PROVE  MineInv'
  <2> DEFINE state  == [Fields(states[p][p]) EXCEPT ![f] = calls + 1]
             mine   == IF meant[p] = Absent THEN Absent ELSE [state |-> meant[p], clock |-> 0]
             copied == [kind |-> "field", state |-> state]
  <2>1. /\ call' = [call EXCEPT ![p][t] = copied]
        /\ meant' = [meant EXCEPT ![p] = [Fields(mine) EXCEPT ![f] = calls + 1]]
        /\ alone' = [alone EXCEPT ![p] = @ /\ Halfway(p) = {}]
        /\ states' = states /\ call[p][t] = Idle
    BY <1>2 DEF CopyState
  <2>2. /\ call'[p][t] = copied /\ \A u \in Thread \ {t} : call'[p][u] = call[p][u]
        /\ meant'[p] = [Fields(mine) EXCEPT ![f] = calls + 1]
        /\ alone'[p] => alone[p] /\ Halfway(p) = {}
        /\ \A q \in Peer \ {p} : call'[q] = call[q] /\ meant'[q] = meant[q] /\ alone'[q] = alone[q]
    BY <2>1 DEF TypeOK
  <2>3. ASSUME alone'[p] PROVE Fields(mine) = Fields(states[p][p])
    <3>1. Mine(p)
      BY <2>2, <2>3 DEF MineInv, MineAt
    <3>2. CASE meant[p] = Absent
      BY <3>1, <3>2 DEF Mine
    <3>3. CASE meant[p] # Absent
      <4>1. meant[p] \in StateType
        BY <3>3 DEF TypeOK
      <4>2. mine \in EntryType /\ mine.state = meant[p]
        BY <3>3, <4>1 DEF EntryType
      <4>3. Fields(mine) = meant[p]
        BY <4>2 DEF Fields
      <4>4. Fields(states[p][p]) = meant[p]
        BY <3>1, <3>3 DEF Mine, Fields
      <4>5. QED
        BY <4>3, <4>4
    <3>4. QED
      BY <3>2, <3>3
  <2>4. copied # Idle
    <3>1. calls + 1 \in 0 .. MaxCalls /\ Fields(states[p][p]) \in StateType
      BY <1>2, FieldsState DEF CopyState, TypeOK
    <3>2. state \in StateType
      BY <3>1, FieldSet
    <3>3. copied \in CallType
      BY <3>2 DEF CallType
    <3>4. QED
      BY <3>3
  <2>5. MineAt(p)'
    <3> SUFFICES ASSUME alone'[p] PROVE Halfway(p)' = {t} /\ meant'[p] = call'[p][t].state
      BY DEF MineAt
    <3>1. Halfway(p)' = {t}
      BY <2>2, <2>4 DEF Halfway
    <3>2. QED
      BY <2>2, <2>3, <3>1
  <2>6. ASSUME NEW q \in Peer \ {p} PROVE MineAt(q)'
    <3>1. Halfway(q)' = Halfway(q)
      BY <2>2 DEF Halfway
    <3>2. QED
      BY <2>1, <2>2, <3>1, MineFrame DEF MineInv
  <2>7. QED
    BY <2>5, <2>6 DEF MineInv
<1>3. ASSUME NEW p \in Peer, NEW t \in Thread, StoreField(p, t)
      PROVE  MineInv'
  <2>1. /\ t \in Halfway(p) /\ call[p][t] \in CallType /\ call[p][t].kind = "field"
        /\ Store(p, t, call[p][t].state) /\ meant' = meant
    BY <1>3 DEF StoreField, Halfway, TypeOK
  <2>2. call[p][t].state \in StateType
    BY <2>1 DEF CallType
  <2>3. CASE alone[p]
    <3>1. meant[p] = call[p][t].state
      BY <2>1, <2>3 DEF MineInv, MineAt
    <3>2. QED
      BY <2>1, <2>2, <3>1, StoreMine
  <2>4. CASE ~alone[p]
    <3>1. ~alone'[p] /\ \A q \in Peer \ {p} : alone'[q] = alone[q]
      BY <2>1, <2>4 DEF Store, TypeOK
    <3>2. PICK add, upd : Tell(p, t, add, upd, {})
      BY <2>1 DEF Store
    <3>3. \A q \in Peer \ {p} : call'[q] = call[q] /\ Halfway(q)' = Halfway(q)
      BY <3>2, TellHalfway
    <3>4. \A q \in Peer \ {p} : states'[q][q] = states[q][q]
      BY <2>1 DEF Store, TypeOK
    <3>5. ASSUME NEW q \in Peer \ {p} PROVE MineAt(q)'
      BY <2>1, <3>1, <3>3, <3>4, MineFrame DEF MineInv
    <3>6. QED
      BY <3>1, <3>5 DEF MineInv, MineAt
  <2>5. QED
    BY <2>3, <2>4
<1>4. ASSUME NEW p \in Peer, NEW t \in Thread, Remove(p, t)
      PROVE  MineInv'
  <2>1. Tell(p, t, {}, {}, {p}) /\ call[p][t] = Idle
    BY <1>4 DEF Remove
  <2>2. /\ Halfway(p)' = Halfway(p) \ {t}
        /\ \A q \in Peer \ {p} : call'[q] = call[q] /\ Halfway(q)' = Halfway(q)
    BY <2>1, TellHalfway
  <2>3. /\ states'[p][p] = Absent /\ meant'[p] = Absent
        /\ alone'[p] => Halfway(p) = {}
        /\ \A q \in Peer \ {p} : /\ states'[q] = states[q] /\ meant'[q] = meant[q]
                                 /\ alone'[q] = alone[q]
    BY <1>4 DEF Remove, TypeOK
  <2>4. MineAt(p)'
    BY <2>2, <2>3 DEF MineAt, Mine
  <2>5. ASSUME NEW q \in Peer \ {p} PROVE MineAt(q)'
    BY <2>2, <2>3, MineFrame DEF MineInv
  <2>6. QED
    BY <2>4, <2>5 DEF MineInv
<1>5. ASSUME NEW p \in Peer, NEW t \in Thread, NEW update \in network,
             ApplyUpdate(p, t, update)
      PROVE  MineInv'
  <2>1. /\ Merge(p, update, DOMAIN update) /\ Receiving(p, t)
        /\ alone' = [alone EXCEPT ![p] = @ /\ (p \in Taken(p, update, DOMAIN update)
                                                  => states[p][p] # Absent)]
    BY <1>5 DEF ApplyUpdate
  <2>2. UNCHANGED call \/ \E add, upd, rem : Tell(p, t, add, upd, rem)
    BY <1>5 DEF ApplyUpdate
  <2>3. QED
    BY <2>1, <2>2, MergeMine
<1>6. ASSUME NEW p \in Peer, NEW t \in Thread, NEW update \in network,
             NEW ids \in SUBSET DOMAIN update, ApplyTruncated(p, t, update, ids)
      PROVE  MineInv'
  <2>1. /\ Merge(p, update, ids) /\ Receiving(p, t) /\ UNCHANGED call
        /\ alone' = [alone EXCEPT ![p] = @ /\ (p \in Taken(p, update, ids)
                                                  => states[p][p] # Absent)]
    BY <1>6 DEF ApplyTruncated
  <2>2. QED
    BY <2>1, MergeMine
<1>7. ASSUME NEW p \in Peer, NEW t \in Thread, CallHandlers(p, t)
      PROVE  MineInv'
  <2>1. /\ t \notin Halfway(p) /\ call' = [call EXCEPT ![p][t] = Idle]
        /\ UNCHANGED <<states, meant, alone>>
    BY <1>7 DEF CallHandlers, Telling, Halfway, history
  <2>2. \A q \in Peer : Halfway(q)' = Halfway(q) /\ \A u \in Halfway(q) : call'[q][u] = call[q][u]
    BY <2>1 DEF Halfway, TypeOK
  <2>3. QED
    BY <2>1, <2>2, MineFrame DEF MineInv
<1>8. ASSUME UNCHANGED <<states, call, meant, alone>>
      PROVE  MineInv'
  BY <1>8 DEF MineInv, MineAt, Mine, Halfway
<1>9. QED
  BY <1>1, <1>2, <1>3, <1>4, <1>5, <1>6, <1>7, <1>8 DEF Next, vars, history, EncodeUpdate

\* The state of a peer is what its own calls make of it, whatever the network brings,
\* unless a SetLocalStateField is interrupted or an echo follows a removal.
THEOREM LocalStateKept == Spec => []LocalStateIsMine
<1>1. Init => MineInv
  <2> SUFFICES ASSUME Init, NEW p \in Peer PROVE MineAt(p)
    BY DEF MineInv
  <2>1. states[p][p] = [state |-> Blank, clock |-> 0] /\ meant[p] = Blank
    BY DEF Init
  <2>2. [state |-> Blank, clock |-> 0] \in EntryType /\ Blank \in StateType
    BY BlankState DEF EntryType
  <2>3. Mine(p)
    BY <2>1, <2>2 DEF Mine
  <2>4. Halfway(p) = {}
    BY DEF Init, Halfway
  <2>5. QED
    BY <2>3, <2>4 DEF MineAt
<1>2. MineInv => LocalStateIsMine
  BY DEF MineInv, MineAt, Mine, LocalStateIsMine
<1>3. QED
  BY <1>1, <1>2, MineStep, TypeCorrect, PTL DEF Spec

-----------------------------------------------------------------------------
(***************************************************************************)
(* What handlers know.  Of a client that no goroutine has yet to tell of,  *)
(* they know whether it has a state; and what one has yet to tell of a     *)
(* client is how it stands, for no other goroutine tells of it.            *)
(***************************************************************************)
Changes(p, t) == call[p][t].added \cup call[p][t].updated \cup call[p][t].removed

\* What goroutine t has to tell is so.
TellsTruth(p, t) ==
    /\ \A c \in call[p][t].added   : states[p][c] # Absent
    /\ \A c \in call[p][t].updated : states[p][c] # Absent /\ c \in view[p]
    /\ \A c \in call[p][t].removed : states[p][c] = Absent

KnowAt(p) ==
    ordered[p] =>
        /\ \A t, u \in Telling(p) : t # u => Changes(p, t) \cap Changes(p, u) = {}
        /\ \A t \in Telling(p) : TellsTruth(p, t)
        /\ \A c \in Peer :
              (\A t \in Telling(p) : c \notin Changes(p, t)) =>
                  (c \in view[p] <=> states[p][c] # Absent)

KnowInv == \A p \in Peer : KnowAt(p)

\* A step that changes nothing of a peer that its handlers hear of.
LEMMA KnowFrame ==
  ASSUME NEW p \in Peer, KnowAt(p), ordered'[p] => ordered[p],
         view'[p] = view[p], Telling(p)' = Telling(p),
         \A t \in Telling(p) : call'[p][t] = call[p][t],
         \A c \in Peer : states'[p][c] # Absent <=> states[p][c] # Absent,
         \A t \in Telling(p) : Changes(p, t) \subseteq Peer
  PROVE  KnowAt(p)'
<1>1. ASSUME NEW t \in Telling(p) PROVE Changes(p, t)' = Changes(p, t)
  BY DEF Changes
<1>2. ASSUME NEW t \in Telling(p), TellsTruth(p, t) PROVE TellsTruth(p, t)'
  BY <1>2 DEF TellsTruth, Changes
<1>3. QED
  BY <1>1, <1>2 DEF KnowAt

\* What a goroutine has to tell is about peers.
LEMMA ChangesOfPeers ==
  ASSUME TypeOK, NEW p \in Peer, NEW t \in Telling(p)
  PROVE  /\ t \in Thread
         /\ call[p][t].added \subseteq Peer /\ call[p][t].updated \subseteq Peer
         /\ call[p][t].removed \subseteq Peer /\ Changes(p, t) \subseteq Peer
<1>1. t \in Thread /\ call[p][t] \in CallType /\ call[p][t].kind = "handlers"
  BY DEF Telling, TypeOK
<1>2. QED
  BY <1>1 DEF CallType, Changes

\* A change of clients together with the call of the handlers it leads to.
LEMMA TellKnows ==
  ASSUME TypeOK, KnowInv, NEW p \in Peer, NEW t \in Thread \ Telling(p),
         NEW add \in SUBSET Peer, NEW upd \in SUBSET Peer, NEW rem \in SUBSET Peer,
         Tell(p, t, add, upd, rem), view' = view,
         \A q \in Peer \ {p} : states'[q] = states[q],
         \A c \in Peer \ (add \cup upd \cup rem) :
             states'[p][c] # Absent <=> states[p][c] # Absent,
         \A c \in add : states'[p][c] # Absent,
         \A c \in upd : states[p][c] # Absent /\ states'[p][c] # Absent,
         \A c \in rem : states'[p][c] = Absent
  PROVE  KnowInv'
<1> DEFINE telling == [kind |-> "handlers", added |-> add, updated |-> upd, removed |-> rem]
           told    == add \cup upd \cup rem
<1>1. /\ call'[p][t] = telling
      /\ \A u \in Thread \ {t} : call'[p][u] = call[p][u]
      /\ \A q \in Peer \ {p} : call'[q] = call[q]
  BY DEF Tell, TypeOK
<1>2. /\ ordered'[p] => ordered[p] /\ told \cap Untold(p, t) = {}
      /\ \A q \in Peer \ {p} : ordered'[q] = ordered[q]
  BY DEF Tell, TypeOK
<1>3. telling \in CallType /\ telling # Idle
  <2>1. telling \in CallType
    BY DEF CallType
  <2>2. QED
    BY <2>1
<1>4. Telling(p)' = Telling(p) \cup {t}
  BY <1>1, <1>3 DEF Telling
<1>5. Changes(p, t)' = told
  BY <1>1 DEF Changes
<1>6. ASSUME NEW u \in Telling(p)
      PROVE  /\ u # t /\ u \in Thread /\ call'[p][u] = call[p][u]
             /\ Changes(p, u)' = Changes(p, u)
             /\ Changes(p, u) \subseteq Untold(p, t)
  <2>1. u # t /\ u \in Thread
    BY DEF Telling
  <2>2. call'[p][u] = call[p][u]
    BY <1>1, <2>1
  <2>3. Changes(p, u) \subseteq Untold(p, t)
    BY <2>1 DEF Changes, Untold
  <2>4. QED
    BY <2>1, <2>2, <2>3 DEF Changes
<1>7. KnowAt(p)'
  <2> SUFFICES ASSUME ordered'[p]
               PROVE  /\ \A u, v \in Telling(p)' : u # v => Changes(p, u)' \cap Changes(p, v)' = {}
                      /\ \A u \in Telling(p)' : TellsTruth(p, u)'
                      /\ \A c \in Peer : (\A u \in Telling(p)' : c \notin Changes(p, u)') =>
                                            (c \in view'[p] <=> states'[p][c] # Absent)
    BY DEF KnowAt
  <2>1. /\ told \cap Untold(p, t) = {}
        /\ \A u, v \in Telling(p) : u # v => Changes(p, u) \cap Changes(p, v) = {}
        /\ \A u \in Telling(p) : TellsTruth(p, u)
        /\ \A c \in Peer : (\A u \in Telling(p) : c \notin Changes(p, u)) =>
                              (c \in view[p] <=> states[p][c] # Absent)
    BY <1>2 DEF KnowInv, KnowAt
  <2>2. \A u \in Telling(p) : told \cap Changes(p, u) = {}
    BY <1>6, <2>1
  <2>3. \A u, v \in Telling(p)' : u # v => Changes(p, u)' \cap Changes(p, v)' = {}
    BY <1>4, <1>5, <1>6, <2>1, <2>2
  <2>4. ASSUME NEW u \in Telling(p) PROVE TellsTruth(p, u)'
    <3>1. \A c \in Changes(p, u) : c \in Peer /\ c \notin told
      BY <2>2, ChangesOfPeers
    <3>2. \A c \in Changes(p, u) : states'[p][c] # Absent <=> states[p][c] # Absent
      BY <3>1
    <3>3. TellsTruth(p, u) /\ call'[p][u] = call[p][u]
      BY <1>6, <2>1
    <3>4. QED
      BY <3>2, <3>3 DEF TellsTruth, Changes
  <2>5. TellsTruth(p, t)'
    <3>1. \A c \in upd : c \in view[p]
      <4> SUFFICES ASSUME NEW c \in upd PROVE c \in view[p]
        OBVIOUS
      <4>1. c \in Peer /\ \A u \in Telling(p) : c \notin Changes(p, u)
        BY <2>2
      <4>2. QED
        BY <2>1, <4>1
    <3>2. QED
      BY <1>1, <3>1 DEF TellsTruth
  <2>6. ASSUME NEW c \in Peer, \A u \in Telling(p)' : c \notin Changes(p, u)'
        PROVE  c \in view'[p] <=> states'[p][c] # Absent
    <3>1. c \notin told
      BY <1>4, <1>5, <2>6
    <3>2. \A u \in Telling(p) : c \notin Changes(p, u)
      BY <1>4, <1>6, <2>6
    <3>3. QED
      BY <2>1, <3>1, <3>2
  <2>7. QED
    BY <1>4, <2>3, <2>4, <2>5, <2>6
<1>8. ASSUME NEW q \in Peer \ {p} PROVE KnowAt(q)'
  <2>1. Telling(q)' = Telling(q) /\ \A u \in Telling(q) : Changes(q, u) \subseteq Peer
    BY <1>1, ChangesOfPeers DEF Telling
  <2>2. QED
    BY <1>1, <1>2, <2>1, KnowFrame DEF KnowInv
<1>9. QED
  BY <1>7, <1>8 DEF KnowInv

\* SetLocalState tells of its own client, as one added or one updated.
LEMMA StoreKnows ==
  ASSUME TypeOK, KnowInv, NEW p \in Peer, NEW t \in Thread \ Telling(p),
         NEW state \in StateType, Store(p, t, state)
  PROVE  KnowInv'
<1> DEFINE add == IF states[p][p] = Absent THEN {p} ELSE {}
           upd == IF states[p][p] = Absent THEN {} ELSE {p}
<1>1. PICK entry \in EntryType : states' = [states EXCEPT ![p][p] = entry]
  BY StoreEffect
<1>2. /\ states'[p][p] # Absent
      /\ \A c \in Peer \ {p} : states'[p][c] = states[p][c]
      /\ \A q \in Peer \ {p} : states'[q] = states[q]
  BY <1>1 DEF TypeOK
<1>3. Tell(p, t, add, upd, {}) /\ view' = view
  BY DEF Store
<1>4. /\ add \in SUBSET Peer /\ upd \in SUBSET Peer
      /\ \A c \in Peer \ (add \cup upd \cup {}) : states'[p][c] # Absent <=> states[p][c] # Absent
      /\ \A c \in add : states'[p][c] # Absent
      /\ \A c \in upd : states[p][c] # Absent /\ states'[p][c] # Absent
  BY <1>2
<1> HIDE DEF add, upd
<1>5. PICK gone \in SUBSET Peer : gone = {}
  OBVIOUS
<1>6. QED
  BY <1>2, <1>3, <1>4, <1>5, TellKnows

\* Every operation of an Awareness keeps KnowInv.
LEMMA KnowStep == TypeOK /\ KnowInv /\ [Next]_vars => KnowInv'
<1> SUFFICES ASSUME TypeOK, KnowInv, [Next]_vars PROVE KnowInv'
  OBVIOUS
<1>0. \A q \in Peer : \A u \in Telling(q) : Changes(q, u) \subseteq Peer
  BY ChangesOfPeers
<1>1. ASSUME NEW p \in Peer, NEW t \in Thread, NEW f \in Field, SetLocalState(p, t, f)
      PROVE  KnowInv'
  <2> DEFINE state == [Blank EXCEPT ![f] = calls + 1]
  <2>1. calls + 1 \in 0 .. MaxCalls
    BY <1>1 DEF SetLocalState, TypeOK
  <2>2. state \in StateType
    BY <2>1, BlankState, FieldSet
  <2>3. Store(p, t, state) /\ t \notin Telling(p)
    BY <1>1 DEF SetLocalState, Telling
  <2> HIDE DEF state
  <2>4. QED
    BY <2>2, <2>3, StoreKnows
<1>2. ASSUME NEW p \in Peer, NEW t \in Thread, NEW f \in Field, CopyState(p, t, f)
      PROVE  KnowInv'
  <2> DEFINE copied == [kind |-> "field", state |-> [Fields(states[p][p]) EXCEPT ![f] = calls + 1]]
  <2>1. /\ call' = [call EXCEPT ![p][t] = copied] /\ call[p][t] = Idle
        /\ UNCHANGED <<states, view, ordered>>
    BY <1>2 DEF CopyState
  <2>2. copied.kind # "handlers"
    OBVIOUS
  <2>3. /\ call'[p][t] = copied /\ \A u \in Thread \ {t} : call'[p][u] = call[p][u]
        /\ \A q \in Peer \ {p} : call'[q] = call[q]
    BY <2>1 DEF TypeOK
  <2>4. \A q \in Peer : Telling(q)' = Telling(q) /\ \A u \in Telling(q) : call'[q][u] = call[q][u]
    <3>1. Telling(p)' = Telling(p) /\ t \notin Telling(p)
      BY <2>1, <2>2, <2>3 DEF Telling
    <3>2. \A u \in Telling(p) : u \in Thread \ {t}
      BY <3>1 DEF Telling
    <3>3. \A q \in Peer \ {p} : Telling(q)' = Telling(q)
      BY <2>3 DEF Telling
    <3>4. QED
      BY <2>3, <3>1, <3>2, <3>3
  <2>5. QED
    BY <1>0, <2>1, <2>4, KnowFrame DEF KnowInv
<1>3. ASSUME NEW p \in Peer, NEW t \in Thread, StoreField(p, t)
      PROVE  KnowInv'
  <2>1. /\ call[p][t] \in CallType /\ call[p][t].kind = "field"
        /\ Store(p, t, call[p][t].state)
    BY <1>3 DEF StoreField, Halfway, TypeOK
  <2>2. call[p][t].state \in StateType
    BY <2>1 DEF CallType
  <2>3. t \notin Telling(p)
    BY <2>1 DEF Telling
  <2>4. QED
    BY <2>1, <2>2, <2>3, StoreKnows
<1>4. ASSUME NEW p \in Peer, NEW t \in Thread, Remove(p, t)
      PROVE  KnowInv'
  <2>1. Tell(p, t, {}, {}, {p}) /\ t \notin Telling(p) /\ view' = view
    BY <1>4 DEF Remove, Telling
  <2>2. /\ states'[p][p] = Absent
        /\ \A c \in Peer \ {p} : states'[p][c] = states[p][c]
        /\ \A q \in Peer \ {p} : states'[q] = states[q]
    BY <1>4 DEF Remove, TypeOK
  <2>3. PICK none \in SUBSET Peer, gone \in SUBSET Peer : none = {} /\ gone = {p}
    OBVIOUS
  <2>4. QED
    BY <2>1, <2>2, <2>3, TellKnows
<1>5. ASSUME NEW p \in Peer, NEW t \in Thread, NEW update \in network,
             ApplyUpdate(p, t, update)
      PROVE  KnowInv'
  <2> DEFINE taken == Taken(p, update, DOMAIN update)
             known == { c \in taken : states[p][c] # Absent }
             nulls == { c \in taken : update[c].state = Null }
  <2>1. /\ Merge(p, update, DOMAIN update) /\ view' = view /\ t \notin Telling(p)
        /\ IF taken \subseteq nulls \ known
           THEN UNCHANGED <<call, ordered>>
           ELSE Tell(p, t, taken \ (known \cup nulls), known \ nulls, known \cap nulls)
    BY <1>5 DEF ApplyUpdate, Receiving, Telling
  <2>2. /\ taken \subseteq Peer
        /\ \A q \in Peer \ {p} : states'[q] = states[q]
    BY <2>1, MergeEffect DEF Taken
  <2>3. \A c \in taken : update[c].state # Null => update[c] # Absent
    <3>1. PICK S \in SUBSET Peer : update \in [S -> WireType]
      BY DEF TypeOK
    <3>2. \A c \in taken : update[c] \in WireType
      BY <3>1 DEF Taken
    <3>3. QED
      BY <3>2, WireIsEntry
  <2>4. \A c \in Peer :
          /\ c \notin taken => states'[p][c] = states[p][c]
          /\ c \in nulls => states'[p][c] = Absent
          /\ c \in taken \ nulls => states'[p][c] # Absent
    BY <2>1, <2>3 DEF Merge, TypeOK
  <2>5. PICK add \in SUBSET Peer, upd \in SUBSET Peer, rem \in SUBSET Peer :
          /\ add = taken \ (known \cup nulls)
          /\ upd = known \ nulls /\ rem = known \cap nulls
    BY <2>2
  <2>6. /\ \A c \in Peer \ (add \cup upd \cup rem) :
             states'[p][c] # Absent <=> states[p][c] # Absent
        /\ \A c \in add : states'[p][c] # Absent
        /\ \A c \in upd : states[p][c] # Absent /\ states'[p][c] # Absent
        /\ \A c \in rem : states'[p][c] = Absent
    BY <2>4, <2>5
  <2>7. CASE taken \subseteq nulls \ known
    <3>1. UNCHANGED <<call, ordered>>
      BY <2>1, <2>7
    <3>2. \A c \in Peer : states'[p][c] # Absent <=> states[p][c] # Absent
      BY <2>4, <2>7
    <3>3. \A q \in Peer : Telling(q)' = Telling(q)
      BY <3>1 DEF Telling
    <3>4. QED
      BY <1>0, <2>1, <2>2, <3>1, <3>2, <3>3, KnowFrame DEF KnowInv
  <2>8. CASE ~(taken \subseteq nulls \ known)
    <3>1. Tell(p, t, add, upd, rem)
      BY <2>1, <2>5, <2>8
    <3>2. QED
      BY <2>1, <2>2, <2>6, <3>1, TellKnows
  <2>9. QED
    BY <2>7, <2>8
<1>6. ASSUME NEW p \in Peer, NEW t \in Thread, NEW update \in network,
             NEW ids \in SUBSET DOMAIN update, ApplyTruncated(p, t, update, ids)
      PROVE  KnowInv'
  <2>1. /\ Merge(p, update, ids) /\ UNCHANGED <<call, view>>
        /\ ordered' = [ordered EXCEPT ![p] = @ /\ states'[p] = states[p]]
    BY <1>6 DEF ApplyTruncated, Receiving
  <2>2. \A q \in Peer \ {p} : states'[q] = states[q] /\ ordered'[q] = ordered[q]
    BY <2>1, MergeEffect DEF TypeOK
  <2>3. ordered'[p] => ordered[p] /\ states'[p] = states[p]
    BY <2>1 DEF TypeOK
  <2>4. \A q \in Peer : Telling(q)' = Telling(q)
    BY <2>1 DEF Telling
  <2>5. KnowAt(p)'
    <3>1. CASE ordered'[p]
      BY <1>0, <2>1, <2>3, <2>4, <3>1, KnowFrame DEF KnowInv
    <3>2. CASE ~ordered'[p]
      BY <3>2 DEF KnowAt
    <3>3. QED
      BY <3>1, <3>2
  <2>6. ASSUME NEW q \in Peer \ {p} PROVE KnowAt(q)'
    BY <1>0, <2>1, <2>2, <2>4, KnowFrame DEF KnowInv
  <2>7. QED
    BY <2>5, <2>6 DEF KnowInv
<1>7. ASSUME NEW p \in Peer, NEW t \in Thread, CallHandlers(p, t)
      PROVE  KnowInv'
  <2>1. /\ t \in Telling(p) /\ call' = [call EXCEPT ![p][t] = Idle]
        /\ view' = [view EXCEPT ![p] = (@ \cup call[p][t].added) \ call[p][t].removed]
        /\ UNCHANGED <<states, ordered>>
    BY <1>7 DEF CallHandlers, history
  <2>2. /\ call'[p][t] = Idle /\ \A u \in Thread \ {t} : call'[p][u] = call[p][u]
        /\ \A q \in Peer \ {p} : call'[q] = call[q] /\ view'[q] = view[q]
        /\ view'[p] = (view[p] \cup call[p][t].added) \ call[p][t].removed
    BY <2>1 DEF TypeOK
  <2>3. Telling(p)' = Telling(p) \ {t}
    BY <2>2 DEF Telling
  <2>4. \A u \in Telling(p) \ {t} : call'[p][u] = call[p][u] /\ Changes(p, u)' = Changes(p, u)
    <3>1. \A u \in Telling(p) \ {t} : u \in Thread \ {t}
      BY DEF Telling
    <3>2. QED
      BY <2>2, <3>1 DEF Changes
  <2>5. KnowAt(p)'
    <3> SUFFICES ASSUME ordered[p]
                 PROVE  /\ \A u, v \in Telling(p)' : u # v => Changes(p, u)' \cap Changes(p, v)' = {}
                        /\ \A u \in Telling(p)' : TellsTruth(p, u)'
                        /\ \A c \in Peer : (\A u \in Telling(p)' : c \notin Changes(p, u)') =>
                                              (c \in view'[p] <=> states'[p][c] # Absent)
      BY <2>1 DEF KnowAt
    <3>1. /\ \A u, v \in Telling(p) : u # v => Changes(p, u) \cap Changes(p, v) = {}
          /\ \A u \in Telling(p) : TellsTruth(p, u)
          /\ \A c \in Peer : (\A u \in Telling(p) : c \notin Changes(p, u)) =>
                                (c \in view[p] <=> states[p][c] # Absent)
      BY DEF KnowInv, KnowAt
    <3>2. \A u, v \in Telling(p)' : u # v => Changes(p, u)' \cap Changes(p, v)' = {}
      BY <2>3, <2>4, <3>1
    <3>3. ASSUME NEW u \in Telling(p) \ {t} PROVE TellsTruth(p, u)'
      <4>1. TellsTruth(p, u) /\ Changes(p, t) \cap Changes(p, u) = {}
        BY <2>1, <3>1
      <4>2. \A c \in Changes(p, u) : c \in view[p] => c \in view'[p]
        BY <2>2, <4>1 DEF Changes
      <4>3. QED
        BY <2>1, <2>4, <4>1, <4>2 DEF TellsTruth, Changes
    <3>4. ASSUME NEW c \in Peer, \A u \in Telling(p)' : c \notin Changes(p, u)'
          PROVE  c \in view'[p] <=> states'[p][c] # Absent
      <4>1. \A u \in Telling(p) \ {t} : c \notin Changes(p, u)
        BY <2>3, <2>4, <3>4
      <4>2. CASE c \in Changes(p, t)
        <5>1. TellsTruth(p, t)
          BY <2>1, <3>1
        <5>2. QED
          BY <2>1, <2>2, <4>2, <5>1 DEF TellsTruth, Changes
      <4>3. CASE c \notin Changes(p, t)
        <5>1. c \in view[p] <=> states[p][c] # Absent
          BY <3>1, <4>1, <4>3
        <5>2. QED
          BY <2>1, <2>2, <4>3, <5>1 DEF Changes
      <4>4. QED
        BY <4>2, <4>3
    <3>5. QED
      BY <2>3, <3>2, <3>3, <3>4
  <2>6. ASSUME NEW q \in Peer \ {p} PROVE KnowAt(q)'
    <3>1. Telling(q)' = Telling(q)
      BY <2>2 DEF Telling
    <3>2. QED
      BY <1>0, <2>1, <2>2, <3>1, KnowFrame DEF KnowInv
  <2>7. QED
    BY <2>5, <2>6 DEF KnowInv
<1>8. ASSUME UNCHANGED <<states, call, view, ordered>>
      PROVE  KnowInv'
  BY <1>8 DEF KnowInv, KnowAt, TellsTruth, Changes, Telling
<1>9. QED
  BY <1>1, <1>2, <1>3, <1>4, <1>5, <1>6, <1>7, <1>8 DEF Next, vars, history, EncodeUpdate

\* When no goroutine has handlers left to call, the handlers know exactly the clients
\* that have a state, unless goroutines changed one client at once.
THEOREM HandlersInformed == Spec => []HandlersKnow
<1>1. Init => KnowInv
  <2> SUFFICES ASSUME Init, NEW p \in Peer PROVE KnowAt(p)
    BY DEF KnowInv
  <2>1. [state |-> Blank, clock |-> 0] \in EntryType
    BY BlankState DEF EntryType
  <2>2. \A c \in Peer : states[p][c] # Absent <=> c = p
    BY <2>1 DEF Init
  <2>3. view[p] = {p} /\ Telling(p) = {}
    BY DEF Init, Telling
  <2>4. QED
    BY <2>2, <2>3 DEF KnowAt
<1>2. TypeOK /\ KnowInv => HandlersKnow
  <2> SUFFICES ASSUME TypeOK, KnowInv, NEW p \in Peer, ordered[p], Telling(p) = {}
               PROVE  view[p] = { c \in Peer : states[p][c] # Absent }
    BY DEF HandlersKnow
  <2>1. view[p] \subseteq Peer
    BY DEF TypeOK
  <2>2. \A c \in Peer : c \in view[p] <=> states[p][c] # Absent
    BY DEF KnowInv, KnowAt
  <2>3. QED
    BY <2>1, <2>2
<1>3. QED
  BY <1>1, <1>2, KnowStep, TypeCorrect, PTL DEF Spec
=============================================================================
