----------------------- MODULE DocTransactionsProofs -----------------------
(***************************************************************************)
(* Theorems about DocTransactions, for all sets of goroutines, calls and   *)
(* handlers.                                                               *)
(***************************************************************************)
EXTENDS DocTransactions, TLAPS

USE CallAssumption DEF Call

\* The types of the variables are an invariant; in particular an edit that has
\* passed its nil check never goes to a nil transaction.
THEOREM TypeCorrect == Spec => []TypeOK
<1>1. Init => TypeOK
  <2> SUFFICES ASSUME Init PROVE TypeOK
    OBVIOUS
  <2> USE DEF Init, TypeOK, InTx, Announces, Ended, Active
  <2>1. got \in [Handler -> Seq(Call)]
    OBVIOUS
  <2>2. /\ currentTx \in Call \cup {NoCall}
        /\ pc \in [Call -> {"idle"} \cup Active \cup Ended]
        /\ held \in [Call -> Call \cup {NoCall}]
        /\ \A c \in Call : pc[c] = "edit" => held[c] # NoCall
        /\ by \in [Call -> Goroutine \cup {NoCall}]
    OBVIOUS
  <2>3. QED
    BY <2>1, <2>2
<1>2. TypeOK /\ [Next]_vars => TypeOK'
  <2> SUFFICES ASSUME TypeOK, [Next]_vars PROVE TypeOK'
    OBVIOUS
  <2> USE DEF TypeOK, InTx, Announces, Ended, Active
  <2>1. ASSUME NEW g \in Goroutine, NEW c \in Local, Enter(g, c) PROVE TypeOK'
    <3>1. CASE currentTx = NoCall
      BY <2>1, <3>1 DEF Enter, Begin
    <3>2. CASE currentTx # NoCall
      BY <2>1, <3>2 DEF Enter, Begin
    <3>3. QED
      BY <3>1, <3>2
  <2>2. ASSUME NEW g \in Goroutine, NEW c \in Remote, ApplyBegin(g, c) PROVE TypeOK'
    BY <2>2 DEF ApplyBegin, Begin
  <2>3. ASSUME NEW c \in Call, EditRead(c) PROVE TypeOK'
    <3>1. CASE currentTx = NoCall
      BY <2>3, <3>1 DEF EditRead
    <3>2. CASE currentTx # NoCall
      <4>1. /\ pc' = [pc EXCEPT ![c] = "edit"] /\ held' = [held EXCEPT ![c] = currentTx]
            /\ currentTx \in Call
            /\ UNCHANGED <<currentTx, clock, handlers, retired, outer, pending, update,
                           rest, got, by, wrote, since, overlap>>
        BY <2>3, <3>2 DEF EditRead
      <4>2. pc' \in [Call -> {"idle"} \cup Active \cup Ended] /\ held' \in [Call -> Call \cup {NoCall}]
        BY <4>1
      <4>3. \A d \in Call : pc'[d] = "edit" => held'[d] # NoCall
        BY <3>2, <4>1
      <4>4. QED
        BY <4>1, <4>2, <4>3
    <3>3. QED
      BY <3>1, <3>2
  <2>4. ASSUME NEW c \in Call, FnPanics(c) PROVE TypeOK'
    BY <2>4 DEF FnPanics
  <2>5. ASSUME NEW c \in Call, EditWrite(c) PROVE TypeOK'
    BY <2>5 DEF EditWrite
  <2>6. ASSUME NEW c \in Call, Commit(c) PROVE TypeOK'
    BY <2>6 DEF Commit
  <2>7. ASSUME NEW c \in Call, NestedReturn(c) PROVE TypeOK'
    BY <2>7 DEF NestedReturn
  <2>8. ASSUME NEW c \in Call, CopyHandlers(c) PROVE TypeOK'
    BY <2>8 DEF CopyHandlers
  <2>9. ASSUME NEW c \in Call, NEW h \in Handler, Fire(c, h) PROVE TypeOK'
    BY <2>9 DEF Fire
  <2>10. ASSUME NEW c \in Call, Return(c) PROVE TypeOK'
    BY <2>10 DEF Return
  <2>11. ASSUME NEW c \in Call, ApplyEnd(c) PROVE TypeOK'
    BY <2>11 DEF ApplyEnd
  <2>12. ASSUME NEW h \in Handler, OnUpdate(h) \/ Unsubscribe(h) PROVE TypeOK'
    BY <2>12 DEF OnUpdate, Unsubscribe
  <2>13. CASE UNCHANGED vars
    BY <2>13 DEF vars
  <2>14. QED
    BY <2>1, <2>2, <2>3, <2>4, <2>5, <2>6, <2>7, <2>8, <2>9, <2>10, <2>11, <2>12, <2>13
    DEF Next, Works, Ends
<1>3. QED
  BY <1>1, <1>2, PTL DEF Spec

-----------------------------------------------------------------------------
(***************************************************************************)
(* No edit is announced twice.  The transactions' lists of edits are apart *)
(* and lie below the clock, an update is a part of one list, and a handler *)
(* is called with an update at most once.                                  *)
(***************************************************************************)
PendingApart ==
    /\ \A c \in Call : \A k \in pending[c] : k < clock
    /\ \A c, d \in Call : c # d => pending[c] \cap pending[d] = {}

UpdateIsPending == \A c \in Call : update[c] \subseteq pending[c]

CalledOnce ==
    \A h \in Handler :
        /\ \A i \in DOMAIN got[h] :
              pc[got[h][i]] \in {"fire", "done"} /\ h \notin rest[got[h][i]]
        /\ \A i, j \in DOMAIN got[h] : i # j => got[h][i] # got[h][j]

OnceInv == PendingApart /\ UpdateIsPending /\ CalledOnce

\* Appending to a log keeps its entries and adds one.
LEMMA AppendEntry ==
  ASSUME NEW S, NEW s \in Seq(S), NEW e \in S
  PROVE  /\ DOMAIN Append(s, e) = DOMAIN s \cup {Len(s) + 1}
         /\ Len(s) + 1 \notin DOMAIN s
         /\ \A i \in DOMAIN s : Append(s, e)[i] = s[i]
         /\ Append(s, e)[Len(s) + 1] = e
         /\ DOMAIN s \subseteq Nat /\ \A i \in DOMAIN s : i < Len(s) + 1
  OBVIOUS

\* What is known of the logs after a handler was called.
LEMMA FireLogs ==
  ASSUME TypeOK, NEW c \in Call, NEW h \in Handler, Fire(c, h)
  PROVE  /\ \A g \in Handler : \A i \in DOMAIN got[g] : got[g][i] \in Call
         /\ \A g \in Handler \ {h} : got'[g] = got[g]
         /\ DOMAIN got'[h] = DOMAIN got[h] \cup {Len(got[h]) + 1}
         /\ Len(got[h]) + 1 \notin DOMAIN got[h]
         /\ \A i \in DOMAIN got[h] : got'[h][i] = got[h][i]
         /\ got'[h][Len(got[h]) + 1] = c
         /\ \A i \in DOMAIN got[h] : i < Len(got[h]) + 1
         /\ DOMAIN got[h] \subseteq Nat
<1>1. got \in [Handler -> Seq(Call)] /\ got' = [got EXCEPT ![h] = Append(@, c)]
  BY DEF TypeOK, Fire
<1>2. got[h] \in Seq(Call) /\ got'[h] = Append(got[h], c)
  BY <1>1
<1>3. \A g \in Handler : \A i \in DOMAIN got[g] : got[g][i] \in Call
  BY <1>1
<1>4. QED
  BY <1>1, <1>2, <1>3, AppendEntry

\* Entries of the logs are calls.
LEMMA LogEntries ==
  TypeOK => \A h \in Handler : \A i \in DOMAIN got[h] : got[h][i] \in Call
  BY DEF TypeOK

\* The invariant of AtMostOnce is kept by every step.
LEMMA OnceStep == TypeOK /\ OnceInv /\ [Next]_vars => OnceInv'
<1> SUFFICES ASSUME TypeOK, OnceInv, [Next]_vars PROVE OnceInv'
  OBVIOUS
<1> USE DEF OnceInv, InTx, Announces, Ended, Active
<1>0. \A h \in Handler : \A i \in DOMAIN got[h] : got[h][i] \in Call
  BY LogEntries
<1>1. ASSUME NEW g \in Goroutine, NEW c \in Call, Enter(g, c) \/ ApplyBegin(g, c)
      PROVE  OnceInv'
  <2>1. UNCHANGED <<clock, pending, update, got, rest>>
    BY <1>1 DEF Enter, ApplyBegin
  <2>2. \A d \in Call : pc[d] \in {"fire", "done"} => pc'[d] = pc[d]
    BY <1>1 DEF Enter, ApplyBegin, Begin, TypeOK
  <2>3. QED
    BY <1>0, <2>1, <2>2 DEF PendingApart, UpdateIsPending, CalledOnce
<1>2. ASSUME NEW c \in Call, EditRead(c) \/ FnPanics(c) \/ NestedReturn(c) \/ ApplyEnd(c)
      PROVE  OnceInv'
  <2>1. UNCHANGED <<clock, pending, update, got, rest>>
    BY <1>2 DEF EditRead, FnPanics, NestedReturn, ApplyEnd
  <2>2. \A d \in Call : pc[d] \in {"fire", "done"} => pc'[d] = pc[d]
    BY <1>2 DEF EditRead, FnPanics, NestedReturn, ApplyEnd, TypeOK
  <2>3. QED
    BY <1>0, <2>1, <2>2 DEF PendingApart, UpdateIsPending, CalledOnce
<1>3. ASSUME NEW c \in Call, EditWrite(c) PROVE OnceInv'
  <2>1. UNCHANGED <<update, got, rest>> /\ clock' = clock + 1 /\ clock \in Nat
    BY <1>3 DEF EditWrite, TypeOK
  <2>2. \A d \in Call : pc[d] \in {"fire", "done"} => pc'[d] = pc[d]
    BY <1>3 DEF EditWrite, TypeOK
  <2>3. \A d \in Call : pending'[d] = IF d = held[c] THEN pending[d] \cup {clock}
                                      ELSE pending[d]
    BY <1>3 DEF EditWrite, TypeOK
  <2>4. PendingApart'
    <3>1. \A d \in Call : pending[d] \subseteq Nat /\ \A k \in pending[d] : k < clock
      BY DEF PendingApart, TypeOK
    <3>2. ASSUME NEW d \in Call, NEW k \in pending'[d] PROVE k < clock'
      <4>1. k \in pending[d] \/ k = clock
        BY <2>3, <3>2
      <4>2. QED
        BY <2>1, <3>1, <4>1
    <3>3. \A d \in Call : clock \notin pending[d]
      BY <2>1, <3>1
    <3>4. ASSUME NEW d \in Call, NEW e \in Call, d # e
          PROVE  pending'[d] \cap pending'[e] = {}
      <4>1. pending[d] \cap pending[e] = {}
        BY <3>4 DEF PendingApart
      <4>2. QED
        BY <2>3, <3>3, <3>4, <4>1
    <3>5. QED
      BY <3>2, <3>4 DEF PendingApart
  <2>5. UpdateIsPending'
    BY <2>1, <2>3 DEF UpdateIsPending
  <2>6. QED
    BY <1>0, <2>1, <2>2, <2>4, <2>5 DEF CalledOnce
<1>4. ASSUME NEW c \in Call, Commit(c) PROVE OnceInv'
  <2>1. UNCHANGED <<clock, pending, got, rest>>
    BY <1>4 DEF Commit
  <2>2. \A d \in Call : pc[d] \in {"fire", "done"} => pc'[d] = pc[d]
    BY <1>4 DEF Commit, TypeOK
  <2>3. UpdateIsPending'
    BY <1>4, <2>1 DEF Commit, UpdateIsPending, TypeOK
  <2>4. QED
    BY <1>0, <2>1, <2>2, <2>3 DEF PendingApart, CalledOnce
<1>5. ASSUME NEW c \in Call, CopyHandlers(c) PROVE OnceInv'
  <2>1. UNCHANGED <<clock, pending, update, got>>
    BY <1>5 DEF CopyHandlers
  <2>2. \A d \in Call : pc[d] \in {"fire", "done"} => pc'[d] = pc[d] /\ rest'[d] = rest[d]
    BY <1>5 DEF CopyHandlers, TypeOK
  <2>3. QED
    BY <1>0, <2>1, <2>2 DEF PendingApart, UpdateIsPending, CalledOnce
<1>6. ASSUME NEW c \in Call, NEW h \in Handler, Fire(c, h) PROVE OnceInv'
  <2>0. /\ DOMAIN got'[h] = DOMAIN got[h] \cup {Len(got[h]) + 1}
        /\ Len(got[h]) + 1 \notin DOMAIN got[h]
        /\ \A i \in DOMAIN got[h] : got'[h][i] = got[h][i] /\ got[h][i] \in Call
        /\ got'[h][Len(got[h]) + 1] = c
    BY <1>0, <1>6, FireLogs
  <2>1. UNCHANGED <<clock, pending, update, pc>>
    BY <1>6 DEF Fire
  <2>2. (\A d \in Call : rest'[d] \subseteq rest[d]) /\ h \notin rest'[c]
    BY <1>6 DEF Fire, TypeOK
  <2>3. pc[c] = "fire" /\ h \in rest[c]
    BY <1>6 DEF Fire
  <2>4. \A i \in DOMAIN got[h] : got[h][i] # c
    BY <2>3 DEF CalledOnce
  <2>5. CalledOnce'
    <3>1. ASSUME NEW g \in Handler, g # h
          PROVE  /\ \A i \in DOMAIN got'[g] :
                       pc'[got'[g][i]] \in {"fire", "done"} /\ g \notin rest'[got'[g][i]]
                 /\ \A i, j \in DOMAIN got'[g] : i # j => got'[g][i] # got'[g][j]
      <4>1. got'[g] = got[g]
        BY <1>6, <3>1, FireLogs
      <4>2. QED
        BY <1>0, <2>1, <2>2, <3>1, <4>1 DEF CalledOnce
    <3>2. ASSUME NEW i \in DOMAIN got'[h]
          PROVE  pc'[got'[h][i]] \in {"fire", "done"} /\ h \notin rest'[got'[h][i]]
      <4>1. CASE i \in DOMAIN got[h]
        BY <2>0, <2>1, <2>2, <4>1 DEF CalledOnce
      <4>2. CASE i = Len(got[h]) + 1
        BY <2>0, <2>1, <2>2, <2>3, <4>2
      <4>3. QED
        BY <2>0, <4>1, <4>2
    <3>3. ASSUME NEW i \in DOMAIN got'[h], NEW j \in DOMAIN got'[h], i # j
          PROVE  got'[h][i] # got'[h][j]
      <4>1. i \in DOMAIN got[h] \/ j \in DOMAIN got[h]
        BY <2>0, <3>3
      <4>2. QED
        BY <2>0, <2>4, <3>3, <4>1 DEF CalledOnce
    <3>4. QED
      BY <3>1, <3>2, <3>3 DEF CalledOnce
  <2>6. QED
    BY <2>1, <2>5 DEF PendingApart, UpdateIsPending
<1>7. ASSUME NEW c \in Call, Return(c) PROVE OnceInv'
  <2>1. UNCHANGED <<clock, pending, update, got, rest>>
    BY <1>7 DEF Return
  <2>2. \A d \in Call : pc[d] \in {"fire", "done"} => pc'[d] \in {"fire", "done"}
    BY <1>7 DEF Return, TypeOK
  <2>3. QED
    BY <1>0, <2>1, <2>2 DEF PendingApart, UpdateIsPending, CalledOnce
<1>8. CASE UNCHANGED <<clock, pending, update, got, rest, pc>>
  BY <1>8 DEF PendingApart, UpdateIsPending, CalledOnce
<1>9. ASSUME NEW h \in Handler, OnUpdate(h) \/ Unsubscribe(h) PROVE OnceInv'
  BY <1>8, <1>9 DEF OnUpdate, Unsubscribe
<1>10. CASE UNCHANGED vars
  BY <1>8, <1>10 DEF vars
<1>11. QED
  BY <1>1, <1>2, <1>3, <1>4, <1>5, <1>6, <1>7, <1>9, <1>10 DEF Next, Works, Ends

\* No handler is ever given an edit twice.
THEOREM AtMostOnce == Spec => []AnnouncedAtMostOnce
<1>1. Init => OnceInv
  BY DEF Init, OnceInv, PendingApart, UpdateIsPending, CalledOnce
<1>2. TypeOK /\ OnceInv => AnnouncedAtMostOnce
  BY LogEntries DEF OnceInv, PendingApart, UpdateIsPending, CalledOnce, AnnouncedAtMostOnce
<1>3. QED
  BY <1>1, <1>2, TypeCorrect, OnceStep, PTL DEF Spec

(***************************************************************************)
(* Handlers get the edits of a goroutine in order.  A goroutine has one    *)
(* call under way; all edits of the transaction of that call are younger   *)
(* than those it announced before.                                         *)
(***************************************************************************)
TxOfBegun ==
    /\ \A c \in Call : pc[c] = "idle" => by[c] = NoCall /\ pending[c] = {}
    /\ \A c \in Call : pc[c] # "idle" => by[c] # NoCall
    /\ currentTx # NoCall => pc[currentTx] # "idle"
    /\ \A c \in Call : held[c] # NoCall => pc[held[c]] # "idle"

OneCallAtATime ==
    \A c, d \in Call : c # d /\ by[c] = by[d] /\ by[c] # NoCall =>
        pc[c] \in Ended \/ pc[d] \in Ended

YoungerThanAnnounced ==
    \A c, d \in Call :
        c # d /\ by[c] = by[d] /\ by[c] # NoCall /\ pc[d] \in Ended /\ pc[c] \in Active =>
            \A k \in update[d], l \in pending[c] : k < l

OrderInv == TxOfBegun /\ OneCallAtATime /\ YoungerThanAnnounced /\ AnnouncedInOrder

\* A call goes on or ends, and neither the lists of edits nor the logs change.
LEMMA OrderWithinCall ==
  ASSUME TypeOK, OnceInv, OrderInv, NEW c \in Call, NEW x \in Active \cup Ended,
         pc[c] \in Active, pc' = [pc EXCEPT ![c] = x],
         UNCHANGED <<by, pending, update, got>>,
         currentTx' = currentTx \/ currentTx' = NoCall,
         \A d \in Call : held'[d] = held[d] \/ held'[d] = currentTx
  PROVE  OrderInv'
<1> USE DEF InTx, Announces, Ended, Active
<1>1. /\ x # "idle" /\ pc[c] # "idle" /\ pc'[c] = x
      /\ \A d \in Call : d # c => pc'[d] = pc[d]
  BY DEF TypeOK
<1>2. currentTx \in Call \cup {NoCall} /\ \A d \in Call : held[d] \in Call \cup {NoCall}
  BY DEF TypeOK
<1>3. TxOfBegun'
  BY <1>1, <1>2 DEF OrderInv, TxOfBegun
<1>4. \A d \in Call : pc[d] \in Ended => pc'[d] \in Ended
  BY <1>1
<1>5. OneCallAtATime'
  BY <1>4 DEF OrderInv, OneCallAtATime
<1>6. YoungerThanAnnounced'
  <2> SUFFICES ASSUME NEW a \in Call, NEW d \in Call, a # d, by[a] = by[d], by[a] # NoCall,
                      pc'[d] \in Ended, pc'[a] \in Active
               PROVE  \A k \in update[d], l \in pending[a] : k < l
    BY DEF YoungerThanAnnounced
  <2>1. pc[a] \in Active
    BY <1>1
  <2>2. pc[d] \in Ended
    BY <2>1 DEF OrderInv, OneCallAtATime
  <2>3. QED
    BY <2>1, <2>2 DEF OrderInv, YoungerThanAnnounced
<1>7. AnnouncedInOrder'
  BY DEF OrderInv, AnnouncedInOrder
<1>8. QED
  BY <1>3, <1>5, <1>6, <1>7 DEF OrderInv

\* The invariant of InOrder is kept by every step.
LEMMA OrderStep == TypeOK /\ OnceInv /\ OrderInv /\ [Next]_vars => OrderInv'
<1> SUFFICES ASSUME TypeOK, OnceInv, OrderInv, [Next]_vars PROVE OrderInv'
  OBVIOUS
<1> USE DEF InTx, Announces, Ended, Active
<1>0. \A h \in Handler : \A i \in DOMAIN got[h] :
         got[h][i] \in Call /\ pc[got[h][i]] \in {"fire", "done"}
  BY LogEntries DEF OnceInv, CalledOnce
<1>1. ASSUME NEW g \in Goroutine, NEW c \in Call, Enter(g, c) \/ ApplyBegin(g, c)
      PROVE  OrderInv'
  <2>1. /\ UNCHANGED <<pending, update, got, held>>
        /\ currentTx' = c \/ currentTx' = currentTx
        /\ pc[c] = "idle" /\ pc'[c] \in {"fn", "apply"} /\ by'[c] = g /\ g # NoCall
        /\ \A d \in Call : by[d] = g => pc[d] \in Ended
        /\ \A d \in Call : d # c => pc'[d] = pc[d] /\ by'[d] = by[d]
    BY <1>1 DEF Enter, ApplyBegin, Begin, TypeOK
  <2>2. pending[c] = {} /\ by[c] = NoCall
    BY <2>1 DEF OrderInv, TxOfBegun
  <2>3. TxOfBegun'
    BY <2>1 DEF OrderInv, TxOfBegun, TypeOK
  <2>4. OneCallAtATime'
    BY <2>1 DEF OrderInv, OneCallAtATime
  <2>5. YoungerThanAnnounced'
    BY <2>1, <2>2 DEF OrderInv, YoungerThanAnnounced
  <2>6. AnnouncedInOrder'
    <3>1. \A h \in Handler : \A i \in DOMAIN got[h] : by'[got[h][i]] = by[got[h][i]]
      BY <1>0, <2>1
    <3>2. QED
      BY <2>1, <3>1 DEF OrderInv, AnnouncedInOrder
  <2>7. QED
    BY <2>3, <2>4, <2>5, <2>6 DEF OrderInv
<1>2. ASSUME NEW c \in Call, EditRead(c) PROVE OrderInv'
  <2>1. CASE currentTx = NoCall
    BY <1>2, <2>1, OrderWithinCall DEF EditRead, TypeOK
  <2>2. CASE currentTx # NoCall
    BY <1>2, <2>2, OrderWithinCall DEF EditRead, TypeOK
  <2>3. QED
    BY <2>1, <2>2
<1>3. ASSUME NEW c \in Call, FnPanics(c) \/ NestedReturn(c) \/ ApplyEnd(c) PROVE OrderInv'
  BY <1>3, OrderWithinCall DEF FnPanics, NestedReturn, ApplyEnd
<1>4. ASSUME NEW c \in Call, CopyHandlers(c) \/ Return(c) PROVE OrderInv'
  BY <1>4, OrderWithinCall DEF CopyHandlers, Return
<1>5. ASSUME NEW c \in Call, EditWrite(c) PROVE OrderInv'
  <2>1. /\ UNCHANGED <<update, got, held, by, currentTx>>
        /\ pc[c] = "edit" /\ pc'[c] = "fn"
        /\ \A d \in Call : d # c => pc'[d] = pc[d]
        /\ held[c] \in Call
    BY <1>5 DEF EditWrite, TypeOK
  <2>2. \A d \in Call : /\ pending'[d] = pending[d] \cup {clock} \/ pending'[d] = pending[d]
                        /\ d # held[c] => pending'[d] = pending[d]
    BY <1>5 DEF EditWrite, TypeOK
  <2>3. TxOfBegun'
    <3>1. \A d \in Call : pc'[d] = "idle" <=> pc[d] = "idle"
      BY <2>1
    <3>2. pc[held[c]] # "idle"
      BY <2>1 DEF OrderInv, TxOfBegun
    <3>3. \A d \in Call : pc[d] = "idle" => pending'[d] = pending[d]
      BY <2>2, <3>2
    <3>4. currentTx \in Call \cup {NoCall} /\ \A d \in Call : held[d] \in Call \cup {NoCall}
      BY DEF TypeOK
    <3>5. QED
      BY <2>1, <3>1, <3>3, <3>4 DEF OrderInv, TxOfBegun
  <2>4. OneCallAtATime'
    BY <2>1 DEF OrderInv, OneCallAtATime
  <2>5. YoungerThanAnnounced'
    <3> SUFFICES ASSUME NEW a \in Call, NEW d \in Call, a # d, by[a] = by[d], by[a] # NoCall,
                        pc'[d] \in Ended, pc'[a] \in Active,
                        NEW k \in update[d], NEW l \in pending'[a]
                 PROVE  k < l
      BY <2>1 DEF YoungerThanAnnounced
    <3>1. pc[d] \in Ended /\ pc[a] \in Active
      BY <2>1
    <3>2. CASE l \in pending[a]
      BY <3>1, <3>2 DEF OrderInv, YoungerThanAnnounced
    <3>3. CASE l = clock
      BY <3>3 DEF OnceInv, UpdateIsPending, PendingApart
    <3>4. QED
      BY <2>2, <3>2, <3>3
  <2>6. AnnouncedInOrder'
    BY <2>1 DEF OrderInv, AnnouncedInOrder
  <2>7. QED
    BY <2>3, <2>4, <2>5, <2>6 DEF OrderInv
<1>6. ASSUME NEW c \in Call, Commit(c) PROVE OrderInv'
  <2>1. /\ UNCHANGED <<pending, got, held, by>> /\ currentTx' = NoCall
        /\ pc[c] = "fn" /\ pc'[c] \in {"done", "encode"}
        /\ pc'[c] = "done" => update'[c] = {}
        /\ \A d \in Call : d # c => pc'[d] = pc[d] /\ update'[d] = update[d]
    BY <1>6 DEF Commit, TypeOK
  <2>2. TxOfBegun'
    <3>1. \A d \in Call : pc'[d] = "idle" <=> pc[d] = "idle"
      BY <2>1
    <3>2. \A d \in Call : held[d] \in Call \cup {NoCall}
      BY DEF TypeOK
    <3>3. QED
      BY <2>1, <3>1, <3>2 DEF OrderInv, TxOfBegun
  <2>3. OneCallAtATime'
    BY <2>1 DEF OrderInv, OneCallAtATime
  <2>4. YoungerThanAnnounced'
    BY <2>1 DEF OrderInv, YoungerThanAnnounced
  <2>5. AnnouncedInOrder'
    <3>1. \A h \in Handler : \A i \in DOMAIN got[h] : update'[got[h][i]] = update[got[h][i]]
      BY <1>0, <2>1
    <3>2. QED
      BY <2>1, <3>1 DEF OrderInv, AnnouncedInOrder
  <2>6. QED
    BY <2>2, <2>3, <2>4, <2>5 DEF OrderInv
<1>7. ASSUME NEW c \in Call, NEW h \in Handler, Fire(c, h) PROVE OrderInv'
  <2>1. UNCHANGED <<pending, update, held, by, currentTx, pc>> /\ pc[c] = "fire" /\ h \in rest[c]
    BY <1>7 DEF Fire
  <2>2. /\ DOMAIN got'[h] = DOMAIN got[h] \cup {Len(got[h]) + 1}
        /\ \A i \in DOMAIN got[h] : got'[h][i] = got[h][i] /\ i < Len(got[h]) + 1
        /\ got'[h][Len(got[h]) + 1] = c
        /\ \A g \in Handler \ {h} : got'[g] = got[g]
        /\ DOMAIN got[h] \subseteq Nat /\ Len(got[h]) \in Nat
    BY <1>7, FireLogs DEF TypeOK
  <2>3. TxOfBegun' /\ OneCallAtATime' /\ YoungerThanAnnounced'
    BY <2>1 DEF OrderInv, TxOfBegun, OneCallAtATime, YoungerThanAnnounced
  <2>4. \A i \in DOMAIN got[h] : by[got[h][i]] = by[c] =>
           \A k \in update[got[h][i]], l \in update[c] : k < l
    <3> SUFFICES ASSUME NEW i \in DOMAIN got[h], by[got[h][i]] = by[c]
                 PROVE  \A k \in update[got[h][i]], l \in update[c] : k < l
      OBVIOUS
    <3>1. got[h][i] \in Call /\ got[h][i] # c
      BY <1>0, <2>1 DEF OnceInv, CalledOnce
    <3>2. by[c] # NoCall
      BY <2>1 DEF OrderInv, TxOfBegun
    <3>3. pc[got[h][i]] \in Ended
      BY <2>1, <3>1, <3>2 DEF OrderInv, OneCallAtATime
    <3>4. \A k \in update[got[h][i]], l \in pending[c] : k < l
      BY <2>1, <3>1, <3>2, <3>3 DEF OrderInv, YoungerThanAnnounced
    <3>5. QED
      BY <3>4 DEF OnceInv, UpdateIsPending
  <2>5. AnnouncedInOrder'
    <3> SUFFICES ASSUME NEW g \in Handler, NEW i \in DOMAIN got'[g], NEW j \in DOMAIN got'[g],
                        i < j, by[got'[g][i]] = by[got'[g][j]]
                 PROVE  \A k \in update[got'[g][i]], l \in update[got'[g][j]] : k < l
      BY <2>1 DEF AnnouncedInOrder
    <3>1. CASE g # h
      BY <2>2, <3>1 DEF OrderInv, AnnouncedInOrder
    <3>2. CASE g = h /\ j \in DOMAIN got[h]
      <4>1. i \in DOMAIN got[h]
        BY <2>2, <3>2
      <4>2. QED
        BY <2>2, <3>2, <4>1 DEF OrderInv, AnnouncedInOrder
    <3>3. CASE g = h /\ j = Len(got[h]) + 1
      <4>1. i \in DOMAIN got[h]
        BY <2>2, <3>3
      <4>2. QED
        BY <2>2, <2>4, <3>3, <4>1
    <3>4. QED
      BY <2>2, <3>1, <3>2, <3>3
  <2>6. QED
    BY <2>3, <2>5 DEF OrderInv
<1>8. CASE UNCHANGED <<pending, update, got, held, by, currentTx, pc>>
  BY <1>8 DEF OrderInv, TxOfBegun, OneCallAtATime, YoungerThanAnnounced, AnnouncedInOrder
<1>9. ASSUME NEW h \in Handler, OnUpdate(h) \/ Unsubscribe(h) PROVE OrderInv'
  BY <1>8, <1>9 DEF OnUpdate, Unsubscribe
<1>10. CASE UNCHANGED vars
  BY <1>8, <1>10 DEF vars
<1>11. QED
  BY <1>1, <1>2, <1>3, <1>4, <1>5, <1>6, <1>7, <1>9, <1>10 DEF Next, Works, Ends

\* A handler gets the edits of one goroutine in the order of their clocks.
THEOREM InOrder == Spec => []AnnouncedInOrder
<1>1. Init => OnceInv
  BY DEF Init, OnceInv, PendingApart, UpdateIsPending, CalledOnce
<1>2. Init => OrderInv
  BY DEF Init, OrderInv, TxOfBegun, OneCallAtATime, YoungerThanAnnounced,
         AnnouncedInOrder, InTx, Announces, Ended, Active
<1>3. OrderInv => AnnouncedInOrder
  BY DEF OrderInv
<1>4. QED
  BY <1>1, <1>2, <1>3, TypeCorrect, OnceStep, OrderStep, PTL DEF Spec

(***************************************************************************)
(* Nothing is lost as long as no call begins within the transaction of     *)
(* another: then there is at most one transaction, it is open exactly      *)
(* while its call is in it, and it holds what the call wrote.              *)
(***************************************************************************)
Calls(h, c) == \E i \in DOMAIN got[h] : got[h][i] = c

OneTx ==
    /\ \A c, d \in Call : pc[c] \in InTx /\ pc[d] \in InTx => c = d
    /\ \A c \in Call : pc[c] \in InTx => currentTx # NoCall
    /\ \A c \in Call : pc[c] # "refused"

CallKinds ==
    /\ \A c \in Local : pc[c] # "apply"
    /\ \A c \in Remote : pc[c] \in {"idle", "apply", "done"}
    /\ \A c \in Call : since[c] \subseteq handlers \cup retired
    /\ handlers \cap retired = {}

OpenTxOfItsCall ==
    /\ currentTx # NoCall => pc[currentTx] \in InTx
    /\ \A c \in Local : pc[c] \in InTx => c \in outer /\ currentTx = c
    /\ \A c \in Local : pc[c] = "edit" => held[c] = c

KeepsEdits ==
    /\ \A c \in Call : pending[c] = wrote[c]
    /\ \A c \in Local : pc[c] \in Announces \cup {"done"} => update[c] = wrote[c]
    /\ \A c \in Local : pc[c] = "fire" =>
          \A h \in since[c] \cap handlers : h \in rest[c] \/ Calls(h, c)
    /\ \A c \in Local : pc[c] = "done" /\ wrote[c] # {} =>
          \A h \in since[c] \cap handlers : Calls(h, c)

Undisturbed == ~overlap /\ \A c \in Call : pc[c] # "panicked"

LossInv ==
    /\ CallKinds
    /\ ~overlap => OneTx
    /\ Undisturbed => OpenTxOfItsCall /\ KeepsEdits

\* Every step of a transaction keeps the kinds of the calls.
LEMMA KindsStep == TypeOK /\ CallKinds /\ [Next]_vars => CallKinds'
<1> SUFFICES ASSUME TypeOK, CallKinds, [Next]_vars PROVE CallKinds'
  OBVIOUS
<1> USE DEF CallKinds, InTx, Announces, Ended, Active
<1>1. ASSUME NEW g \in Goroutine, NEW c \in Local, Enter(g, c) PROVE CallKinds'
  BY <1>1 DEF Enter, Begin, TypeOK
<1>2. ASSUME NEW g \in Goroutine, NEW c \in Remote, ApplyBegin(g, c) PROVE CallKinds'
  BY <1>2 DEF ApplyBegin, Begin, TypeOK
<1>3. ASSUME NEW c \in Call, EditRead(c) PROVE CallKinds'
  <2>1. UNCHANGED <<since, handlers, retired>> /\ pc[c] = "fn" /\ pc'[c] # "apply"
        /\ \A d \in Call : d # c => pc'[d] = pc[d]
    BY <1>3 DEF EditRead, TypeOK
  <2>2. QED
    BY <2>1
<1>4. ASSUME NEW c \in Call, EditWrite(c) \/ FnPanics(c) \/ Commit(c) \/ NestedReturn(c)
      PROVE  CallKinds'
  <2>1. UNCHANGED <<since, handlers, retired>> /\ pc[c] \in {"fn", "edit"} /\ pc'[c] # "apply"
        /\ \A d \in Call : d # c => pc'[d] = pc[d]
    BY <1>4 DEF EditWrite, FnPanics, Commit, NestedReturn, TypeOK
  <2>2. QED
    BY <2>1
<1>5. ASSUME NEW c \in Call, CopyHandlers(c) \/ Return(c) \/ ApplyEnd(c) PROVE CallKinds'
  BY <1>5 DEF CopyHandlers, Return, ApplyEnd, TypeOK
<1>6. ASSUME NEW c \in Call, NEW h \in Handler, Fire(c, h) PROVE CallKinds'
  BY <1>6 DEF Fire
<1>7. ASSUME NEW h \in Handler, OnUpdate(h) \/ Unsubscribe(h) PROVE CallKinds'
  BY <1>7 DEF OnUpdate, Unsubscribe
<1>8. CASE UNCHANGED vars
  BY <1>8 DEF vars
<1>9. QED
  BY <1>1, <1>2, <1>3, <1>4, <1>5, <1>6, <1>7, <1>8 DEF Next, Works, Ends

\* Calls that do not overlap keep at most one transaction open.
LEMMA OneTxStep ==
  ASSUME TypeOK, CallKinds, ~overlap => OneTx, [Next]_vars, ~overlap'
  PROVE  OneTx' /\ ~overlap
<1> USE DEF OneTx, InTx, Announces, Ended, Active
<1>1. ASSUME NEW g \in Goroutine, NEW c \in Call, Enter(g, c) \/ ApplyBegin(g, c)
      PROVE  OneTx' /\ ~overlap
  <2>1. /\ ~overlap /\ \A d \in Call : pc[d] \notin InTx
        /\ \A d \in Call : d # c => pc'[d] = pc[d]
        /\ pc'[c] \in InTx
    BY <1>1 DEF Enter, ApplyBegin, Begin, TypeOK
  <2>2. currentTx' # NoCall
    BY <1>1 DEF Enter, ApplyBegin
  <2>3. QED
    BY <2>1, <2>2
<1>2. ASSUME NEW c \in Call, EditRead(c) PROVE OneTx' /\ ~overlap
  <2>1. ~overlap /\ pc[c] = "fn" /\ currentTx' = currentTx
    BY <1>2 DEF EditRead
  <2>2. currentTx # NoCall
    BY <2>1
  <2>3. pc' = [pc EXCEPT ![c] = "edit"]
    BY <1>2, <2>2 DEF EditRead
  <2>4. QED
    BY <2>1, <2>2, <2>3 DEF TypeOK
<1>3. ASSUME NEW c \in Call, EditWrite(c) PROVE OneTx' /\ ~overlap
  BY <1>3 DEF EditWrite, TypeOK
<1>4. ASSUME NEW c \in Call,
             FnPanics(c) \/ Commit(c) \/ NestedReturn(c) \/ ApplyEnd(c)
      PROVE  OneTx' /\ ~overlap
  <2>1. /\ ~overlap /\ pc[c] \in InTx /\ pc'[c] \notin InTx \cup {"refused"}
        /\ \A d \in Call : d # c => pc'[d] = pc[d]
    BY <1>4 DEF FnPanics, Commit, NestedReturn, ApplyEnd, TypeOK
  <2>2. QED
    BY <2>1
<1>5. ASSUME NEW c \in Call, CopyHandlers(c) \/ Return(c) PROVE OneTx' /\ ~overlap
  BY <1>5 DEF CopyHandlers, Return, TypeOK
<1>6. ASSUME NEW c \in Call, NEW h \in Handler, Fire(c, h) PROVE OneTx' /\ ~overlap
  BY <1>6 DEF Fire
<1>7. ASSUME NEW h \in Handler, OnUpdate(h) \/ Unsubscribe(h) PROVE OneTx' /\ ~overlap
  BY <1>7 DEF OnUpdate, Unsubscribe
<1>8. CASE UNCHANGED vars
  BY <1>8 DEF vars
<1>9. QED
  BY <1>1, <1>2, <1>3, <1>4, <1>5, <1>6, <1>7, <1>8 DEF Next, Works, Ends

\* A log only grows, so that what was called stays called.
LEMMA CallsStay ==
  ASSUME TypeOK, NEW c \in Call, NEW h \in Handler, Fire(c, h)
  PROVE  /\ \A g \in Handler, d \in Call : Calls(g, d) => Calls(g, d)'
         /\ Calls(h, c)'
<1>1. /\ DOMAIN got'[h] = DOMAIN got[h] \cup {Len(got[h]) + 1}
      /\ \A i \in DOMAIN got[h] : got'[h][i] = got[h][i]
      /\ got'[h][Len(got[h]) + 1] = c
      /\ \A g \in Handler \ {h} : got'[g] = got[g]
  BY FireLogs
<1>2. ASSUME NEW g \in Handler, NEW d \in Call, Calls(g, d) PROVE Calls(g, d)'
  <2>1. PICK i \in DOMAIN got[g] : got[g][i] = d
    BY <1>2 DEF Calls
  <2>2. i \in DOMAIN got'[g] /\ got'[g][i] = d
    BY <1>1, <2>1
  <2>3. QED
    BY <2>2 DEF Calls
<1>3. QED
  BY <1>1, <1>2 DEF Calls

\* Every step that disturbs no transaction keeps its edits with its call.
LEMMA EditsStep ==
  ASSUME TypeOK, CallKinds, OneTx, OpenTxOfItsCall, KeepsEdits, [Next]_vars, Undisturbed'
  PROVE  OpenTxOfItsCall' /\ KeepsEdits'
<1> DEFINE Goal == OpenTxOfItsCall' /\ KeepsEdits'
<1> SUFFICES Goal
  OBVIOUS
<1> USE DEF InTx, Announces, Ended, Active
<1>1. ASSUME NEW g \in Goroutine, NEW c \in Call,
             (c \in Local /\ Enter(g, c)) \/ (c \in Remote /\ ApplyBegin(g, c))
      PROVE  Goal
  <2>1. /\ UNCHANGED <<pending, wrote, update, rest, got, handlers, held>>
        /\ \A d \in Call : pc[d] \notin InTx
        /\ pc[c] = "idle" /\ pc'[c] \in {"fn", "apply"}
        /\ \A d \in Call : d # c => pc'[d] = pc[d] /\ since'[d] = since[d]
    BY <1>1 DEF Enter, ApplyBegin, Begin, TypeOK, Undisturbed
  <2>2. currentTx = NoCall
    BY <2>1 DEF OpenTxOfItsCall, TypeOK
  <2>3. currentTx' = c /\ (c \in Local => pc'[c] = "fn" /\ c \in outer')
    <3>1. CASE c \in Local
      BY <1>1, <2>2, <3>1 DEF Enter, TypeOK
    <3>2. CASE c \in Remote
      BY <1>1, <3>2 DEF ApplyBegin
    <3>3. QED
      BY <3>1, <3>2
  <2>4. OpenTxOfItsCall'
    BY <2>1, <2>3 DEF OpenTxOfItsCall
  <2>5. KeepsEdits'
    BY <2>1 DEF KeepsEdits, Calls
  <2>6. QED
    BY <2>4, <2>5
<1>2. ASSUME NEW c \in Call, EditRead(c) PROVE Goal
  <2>1. /\ UNCHANGED <<pending, wrote, update, rest, got, handlers, since, outer, currentTx>>
        /\ pc[c] = "fn" /\ c \in Local
    BY <1>2 DEF EditRead, CallKinds
  <2>2. currentTx = c /\ c # NoCall
    BY <2>1 DEF OpenTxOfItsCall
  <2>3. pc' = [pc EXCEPT ![c] = "edit"] /\ held' = [held EXCEPT ![c] = c]
    BY <1>2, <2>2 DEF EditRead
  <2>4. OpenTxOfItsCall'
    BY <2>1, <2>2, <2>3 DEF OpenTxOfItsCall, TypeOK
  <2>5. \A d \in Call : pc'[d] \in Announces \cup {"done"} => pc'[d] = pc[d]
    BY <2>3 DEF TypeOK
  <2>6. KeepsEdits'
    BY <2>1, <2>5 DEF KeepsEdits, Calls
  <2>7. QED
    BY <2>4, <2>6
<1>3. ASSUME NEW c \in Call, EditWrite(c) PROVE Goal
  <2>1. /\ UNCHANGED <<update, rest, got, handlers, since, outer, currentTx, held>>
        /\ pc[c] = "edit" /\ pc'[c] = "fn" /\ c \in Local
        /\ \A d \in Call : d # c => pc'[d] = pc[d]
    BY <1>3 DEF EditWrite, CallKinds, TypeOK
  <2>2. held[c] = c
    BY <2>1 DEF OpenTxOfItsCall
  <2>3. /\ pending'[c] = pending[c] \cup {clock} /\ wrote'[c] = wrote[c] \cup {clock}
        /\ \A d \in Call : d # c => pending'[d] = pending[d] /\ wrote'[d] = wrote[d]
    BY <1>3, <2>2 DEF EditWrite, TypeOK
  <2>4. OpenTxOfItsCall'
    BY <2>1 DEF OpenTxOfItsCall, TypeOK
  <2>5. \A d \in Call : pc'[d] \in Announces \cup {"done"} =>
                            pc'[d] = pc[d] /\ wrote'[d] = wrote[d]
    BY <2>1, <2>3
  <2>6. \A d \in Call : pending'[d] = wrote'[d]
    BY <2>3 DEF KeepsEdits
  <2>7. KeepsEdits'
    BY <2>1, <2>5, <2>6 DEF KeepsEdits, Calls
  <2>8. QED
    BY <2>4, <2>7
<1>4. ASSUME NEW c \in Call, FnPanics(c) PROVE Goal
  BY <1>4 DEF FnPanics, Undisturbed, TypeOK
<1>5. ASSUME NEW c \in Call, Commit(c) PROVE Goal
  <2>1. /\ UNCHANGED <<pending, wrote, rest, got, handlers, since, outer, held>>
        /\ currentTx' = NoCall /\ pc[c] = "fn"
        /\ pc'[c] = "encode" \/ (pc'[c] = "done" /\ pending[c] = {})
        /\ update'[c] = pending[c]
        /\ \A d \in Call : d # c => pc'[d] = pc[d] /\ update'[d] = update[d]
    BY <1>5 DEF Commit, TypeOK
  <2>2. OpenTxOfItsCall'
    BY <2>1 DEF OpenTxOfItsCall, OneTx
  <2>3. KeepsEdits'
    BY <2>1 DEF KeepsEdits, Calls
  <2>4. QED
    BY <2>2, <2>3
<1>6. ASSUME NEW c \in Call, NestedReturn(c) PROVE Goal
  BY <1>6 DEF NestedReturn, OpenTxOfItsCall, CallKinds
<1>7. ASSUME NEW c \in Call, CopyHandlers(c) PROVE Goal
  <2>1. /\ UNCHANGED <<pending, wrote, update, got, handlers, since, outer, held, currentTx>>
        /\ pc[c] = "encode" /\ pc'[c] = "fire" /\ rest'[c] = handlers
        /\ \A d \in Call : d # c => pc'[d] = pc[d] /\ rest'[d] = rest[d]
    BY <1>7 DEF CopyHandlers, TypeOK
  <2>2. OpenTxOfItsCall'
    BY <2>1 DEF OpenTxOfItsCall, TypeOK
  <2>3. KeepsEdits'
    BY <2>1 DEF KeepsEdits, Calls
  <2>4. QED
    BY <2>2, <2>3
<1>8. ASSUME NEW c \in Call, NEW h \in Handler, Fire(c, h) PROVE Goal
  <2>1. /\ UNCHANGED <<pending, wrote, update, pc, handlers, since, outer, held, currentTx>>
        /\ \A d \in Call : rest[d] \subseteq rest'[d] \/ (d = c /\ rest[d] \subseteq rest'[d] \cup {h})
    BY <1>8 DEF Fire, TypeOK
  <2>2. OpenTxOfItsCall'
    BY <2>1 DEF OpenTxOfItsCall
  <2>3. /\ \A g \in Handler, d \in Call : Calls(g, d) => Calls(g, d)'
        /\ Calls(h, c)'
    BY <1>8, CallsStay
  <2>4. \A d \in Call : since[d] \subseteq Handler
    BY DEF TypeOK
  <2>5. KeepsEdits'
    BY <2>1, <2>3, <2>4 DEF KeepsEdits
  <2>6. QED
    BY <2>2, <2>5
<1>9. ASSUME NEW c \in Call, Return(c) PROVE Goal
  <2>1. /\ UNCHANGED <<pending, wrote, update, rest, got, handlers, since, outer, held, currentTx>>
        /\ pc[c] = "fire" /\ pc'[c] = "done" /\ rest[c] = {}
        /\ \A d \in Call : d # c => pc'[d] = pc[d]
    BY <1>9 DEF Return, TypeOK
  <2>2. OpenTxOfItsCall'
    BY <2>1 DEF OpenTxOfItsCall, TypeOK
  <2>3. KeepsEdits'
    BY <2>1 DEF KeepsEdits, Calls
  <2>4. QED
    BY <2>2, <2>3
<1>10. ASSUME NEW c \in Call, ApplyEnd(c) PROVE Goal
  <2>1. /\ UNCHANGED <<pending, wrote, update, rest, got, handlers, since, outer, held>>
        /\ currentTx' = NoCall /\ pc[c] = "apply" /\ pc'[c] = "done" /\ c \notin Local
        /\ \A d \in Call : d # c => pc'[d] = pc[d]
    BY <1>10 DEF ApplyEnd, CallKinds, TypeOK
  <2>2. OpenTxOfItsCall'
    BY <2>1 DEF OpenTxOfItsCall, OneTx
  <2>3. KeepsEdits'
    BY <2>1 DEF KeepsEdits, Calls
  <2>4. QED
    BY <2>2, <2>3
<1>11. ASSUME NEW h \in Handler, OnUpdate(h) \/ Unsubscribe(h) PROVE Goal
  <2>1. /\ UNCHANGED <<pending, wrote, update, rest, got, since, outer, held, currentTx, pc>>
        /\ handlers' \subseteq handlers \cup {h}
        /\ h \in handlers' => h \notin retired
        /\ h \in handlers' => h \notin handlers
    BY <1>11 DEF OnUpdate, Unsubscribe
  <2>2. OpenTxOfItsCall'
    BY <2>1 DEF OpenTxOfItsCall
  <2>3. \A d \in Call : since[d] \cap handlers' \subseteq since[d] \cap handlers
    BY <2>1 DEF CallKinds
  <2>4. KeepsEdits'
    BY <2>1, <2>3 DEF KeepsEdits, Calls
  <2>5. QED
    BY <2>2, <2>4
<1>12. CASE UNCHANGED vars
  BY <1>12 DEF vars, OpenTxOfItsCall, KeepsEdits, Calls
<1>13. QED
  BY <1>1, <1>2, <1>3, <1>4, <1>5, <1>6, <1>7, <1>8, <1>9, <1>10, <1>11, <1>12
  DEF Next, Works, Ends

\* What was disturbed stays disturbed.
LEMMA PanicsStay == TypeOK /\ [Next]_vars /\ Undisturbed' => Undisturbed
<1> SUFFICES ASSUME TypeOK, [Next]_vars, Undisturbed' PROVE Undisturbed
  OBVIOUS
<1>1. overlap \in BOOLEAN
  BY DEF TypeOK
<1>2. overlap' = overlap \/ \E g \in Goroutine, c \in Call : Begin(g, c)
  BY DEF Next, Works, Ends, Enter, ApplyBegin, EditRead, EditWrite, FnPanics, Commit,
         NestedReturn, CopyHandlers, Fire, Return, ApplyEnd, OnUpdate, Unsubscribe, vars
<1>3. overlap => overlap'
  BY <1>1, <1>2 DEF Begin
<1>4. \A d \in Call : pc[d] = "panicked" => pc'[d] = "panicked"
  <2> SUFFICES ASSUME NEW d \in Call, pc[d] = "panicked" PROVE pc'[d] = "panicked"
    OBVIOUS
  <2> USE DEF TypeOK
  <2>1. ASSUME NEW g \in Goroutine, NEW c \in Call, Enter(g, c) \/ ApplyBegin(g, c)
        PROVE  pc'[d] = "panicked"
    BY <2>1 DEF Enter, ApplyBegin, Begin
  <2>2. ASSUME NEW c \in Call, EditRead(c) PROVE pc'[d] = "panicked"
    BY <2>2 DEF EditRead
  <2>3. ASSUME NEW c \in Call,
               EditWrite(c) \/ FnPanics(c) \/ Commit(c) \/ NestedReturn(c) \/ CopyHandlers(c)
                 \/ Return(c) \/ ApplyEnd(c)
        PROVE  pc'[d] = "panicked"
    BY <2>3 DEF EditWrite, FnPanics, Commit, NestedReturn, CopyHandlers, Return, ApplyEnd
  <2>4. CASE UNCHANGED pc
    BY <2>4
  <2>5. ASSUME NEW h \in Handler,
               OnUpdate(h) \/ Unsubscribe(h) \/ \E c \in Call : Fire(c, h)
        PROVE  pc'[d] = "panicked"
    BY <2>4, <2>5 DEF OnUpdate, Unsubscribe, Fire
  <2>6. QED
    BY <2>1, <2>2, <2>3, <2>4, <2>5 DEF Next, Works, Ends, vars
<1>5. QED
  BY <1>3, <1>4 DEF Undisturbed

\* The invariant of the theorems about lost edits.
LEMMA LossInvariant == Spec => [](TypeOK /\ LossInv)
<1>1. Init => LossInv
  BY DEF Init, LossInv, CallKinds, OneTx, OpenTxOfItsCall, KeepsEdits, InTx, Announces
<1>2. TypeOK /\ LossInv /\ [Next]_vars => LossInv'
  <2> SUFFICES ASSUME TypeOK, LossInv, [Next]_vars PROVE LossInv'
    OBVIOUS
  <2>1. CallKinds'
    BY KindsStep DEF LossInv
  <2>2. ~overlap' => OneTx'
    BY OneTxStep DEF LossInv
  <2>3. Undisturbed' => OpenTxOfItsCall' /\ KeepsEdits'
    <3> SUFFICES ASSUME Undisturbed' PROVE OpenTxOfItsCall' /\ KeepsEdits'
      OBVIOUS
    <3>1. Undisturbed
      BY PanicsStay
    <3>2. CallKinds /\ OneTx /\ OpenTxOfItsCall /\ KeepsEdits
      BY <3>1 DEF LossInv, Undisturbed
    <3>3. QED
      BY <3>2, EditsStep
  <2>4. QED
    BY <2>1, <2>2, <2>3 DEF LossInv
<1>3. QED
  BY <1>1, <1>2, TypeCorrect, PTL DEF Spec

\* Unless calls overlap or a function panics, Transact announces all edits of its
\* function, and no others, to all handlers that were registered all the time.
THEOREM NothingLost == Spec => []NoEditLost
<1>1. LossInv => NoEditLost
  BY DEF LossInv, Undisturbed, KeepsEdits, Calls, NoEditLost, Announces
<1>2. QED
  BY <1>1, LossInvariant, PTL

\* Unless calls overlap, no edit of a transaction function panics for want of a
\* transaction.
THEOREM NothingRefused == Spec => []NoEditRefused
<1>1. LossInv => NoEditRefused
  BY DEF LossInv, OneTx, NoEditRefused
<1>2. QED
  BY <1>1, LossInvariant, PTL
=============================================================================
