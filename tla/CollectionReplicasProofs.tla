---------------------- MODULE CollectionReplicasProofs ----------------------
(***************************************************************************)
(* The invariant of the peers that share an Array and a Map.               *)
(***************************************************************************)
EXTENDS CollectionReplicas, OrderProofs

\* One value is pushed: it goes to the end of the row.
LEMMA PushLays1 ==
  ASSUME NEW d, Sound(d), NEW c \in Client, NEW l \in List \ Key, NEW v \in 1 .. MaxChars
  PROVE  Lays(d, place(d, c, getState(d, c), l,
                       IF chain(d, d.start[l]) = <<>> THEN Nil ELSE Last(chain(d, d.start[l])),
                       Nil, <<v>>), c, l, Len(Row(d, l)), <<v>>, 1)
<1> DEFINE refs == Row(d, l)
           left == IF refs = <<>> THEN Nil ELSE Last(refs)
           at == Len(refs)
<1>1. refs \in Seq(Refs(d)) /\ at \in Nat
  BY RowFollows
<1>2. IsSlot(refs, at, left, Nil)
  <2> DEFINE X == Refs(d)
  <2>1. refs \in Seq(X)
    BY <1>1
  <2> HIDE DEF refs, X
  <2>2. at \in 0 .. Len(refs) /\ (at = 0 <=> refs = <<>>)
    BY <2>1
  <2>3. left = IF at = 0 THEN Nil ELSE refs[at]
    BY <2>2 DEF Last
  <2>4. QED
    BY <2>2, <2>3 DEF IsSlot
<1> HIDE DEF at, left
<1>3. Lays(d, place(d, c, getState(d, c), l, left, Nil, <<v>>), c, l, at, <<v>>, 1)
  BY <1>2, placeLays
<1>4. QED
  BY <1>3 DEF at, left, Row

\* One more value.
LEMMA PushLaysNext ==
  ASSUME NEW d, Sound(d), NEW c \in Client, NEW l \in List \ Key, NEW values \in Seq(1 .. MaxChars),
         NEW m \in Nat, m + 1 <= Len(values), NEW e, Lays(d, e, c, l, Len(Row(d, l)), values, m)
  PROVE  Lays(d, place(e, c, getState(e, c), l,
                       IF chain(e, e.start[l]) = <<>> THEN Nil ELSE Last(chain(e, e.start[l])),
                       Nil, <<values[m + 1]>>), c, l, Len(Row(d, l)), values, m + 1)
<1> DEFINE v == values[m + 1]
           f == place(e, c, getState(e, c), l,
                      IF chain(e, e.start[l]) = <<>> THEN Nil ELSE Last(chain(e, e.start[l])),
                      Nil, <<v>>)
           at == Len(Row(d, l))
<1>1. v \in 1 .. MaxChars
  <2>1. m + 1 \in 1 .. Len(values)
    OBVIOUS
  <2> DEFINE V == 1 .. MaxChars
  <2>2. values \in Seq(V)
    OBVIOUS
  <2> HIDE DEF V
  <2>3. values[m + 1] \in V
    BY <2>1, <2>2
  <2>4. QED
    BY <2>3 DEF V
<1>2. Sound(e) /\ Len(Row(e, l)) = at + m
  BY DEF Lays, Typed, Spliced
<1> HIDE DEF v
<1>3. Lays(e, f, c, l, at + m, <<v>>, 1)
  <2>1. Lays(e, f, c, l, Len(Row(e, l)), <<v>>, 1)
    BY <1>1, <1>2, PushLays1
  <2>2. QED
    BY <1>2, <2>1
<1> HIDE DEF f, at
<1>4. Lays(d, f, c, l, at, values, m + 1)
  BY <1>3, LaysAfter DEF at, v
<1>5. QED
  BY <1>4 DEF f, v, at

\* The loop over the values.
LEMMA PushLays ==
  ASSUME NEW d, Sound(d), NEW c \in Client, NEW l \in List \ Key, NEW values \in Seq(1 .. MaxChars)
  PROVE  Lays(d, Push(d, c, l, values), c, l, Len(Row(d, l)), values, Len(values))
<1> DEFINE N == Len(values)
           at == Len(Row(d, l))
           Turn(a, n) == place(a, c, getState(a, c), l,
                               IF chain(a, a.start[l]) = <<>> THEN Nil ELSE Last(chain(a, a.start[l])),
                               Nil, <<values[n]>>)
           next == [p \in Docs \X Nat |-> IF p[2] < N /\ Turn(p[1], p[2] + 1) \in Docs
                                          THEN Turn(p[1], p[2] + 1) ELSE p[1]]
           Solves(g) == g = [n \in 0 .. N |-> IF n = 0 THEN d ELSE Turn(g[n - 1], n)]
           f == CHOOSE x : Solves(x)
<1>1. Push(d, c, l, values) = f[N]
  BY DEF Loop, Push
<1>2. N \in Nat /\ d \in Docs
  BY DEF Sound, Whole
<1>3. \A m \in Nat : m + 1 <= N => \A e : Lays(d, e, c, l, at, values, m) => Lays(d, Turn(e, m + 1), c, l, at, values, m + 1)
  BY PushLaysNext DEF at
<1>4. \A m \in Nat : \A e : Lays(d, e, c, l, at, values, m) => e \in Docs
  BY DEF Lays, Typed, Sound, Whole
<1>5. Lays(d, d, c, l, at, values, 0)
  <2>1. at \in 0 .. Len(Row(d, l))
    BY RowFollows
  <2>2. QED
    BY <2>1, LaysNothing
<1> HIDE DEF f, N, Turn, at
<1>6. next \in [Docs \X Nat -> Docs]
  OBVIOUS
<1>7. PICK h \in [Nat -> Docs] : Iterates(h, d, next)
  <2> HIDE DEF next
  <2> QED BY <1>2, <1>6, IterationExists
<1>8. ASSUME NEW n \in Nat, n < N, Turn(h[n], n + 1) \in Docs
      PROVE  h[n + 1] = Turn(h[n], n + 1)
  <2>1. h[n + 1] = next[<<h[n], n>>]
    <3> HIDE DEF next
    <3> QED BY <1>7 DEF Iterates
  <2>2. <<h[n], n>> \in Docs \X Nat
    OBVIOUS
  <2>3. QED
    BY <1>8, <2>1, <2>2
<1>9. h[0] = d
  BY <1>7 DEF Iterates
<1> HIDE DEF next
<1> DEFINE Good == { n \in Nat : n <= N => Lays(d, h[n], c, l, at, values, n) }
<1>10. \A n \in Nat : n \in Good
  <2>1. 0 \in Good
    BY <1>5, <1>9
  <2>2. ASSUME NEW n \in Nat, n \in Good PROVE n + 1 \in Good
    <3>1. SUFFICES ASSUME n + 1 <= N PROVE Lays(d, h[n + 1], c, l, at, values, n + 1)
      OBVIOUS
    <3>2. Lays(d, h[n], c, l, at, values, n) /\ n < N
      BY <1>2, <2>2, <3>1
    <3>3. Lays(d, Turn(h[n], n + 1), c, l, at, values, n + 1)
      BY <1>3, <3>1, <3>2
    <3>4. h[n + 1] = Turn(h[n], n + 1)
      BY <1>4, <1>8, <3>2, <3>3
    <3>5. QED
      BY <3>3, <3>4
  <2> HIDE DEF Good
  <2>3. QED
    BY <2>1, <2>2, Induction
<1>11. \A n \in Nat : n <= N => Lays(d, h[n], c, l, at, values, n)
  BY <1>10
<1>12. \A n \in 1 .. N : h[n] = Turn(h[n - 1], n)
  <2>1. ASSUME NEW n \in 1 .. N PROVE h[n] = Turn(h[n - 1], n)
    <3>1. n - 1 \in Nat /\ n - 1 < N /\ (n - 1) + 1 = n /\ n - 1 <= N /\ n \in Nat
      BY <1>2
    <3>2. Lays(d, Turn(h[n - 1], n), c, l, at, values, n)
      <4>1. Lays(d, h[n - 1], c, l, at, values, n - 1) /\ (n - 1) + 1 <= N
        BY <1>2, <1>11, <3>1
      <4>2. Lays(d, Turn(h[n - 1], (n - 1) + 1), c, l, at, values, (n - 1) + 1)
        BY <1>3, <3>1, <4>1
      <4>3. QED
        BY <3>1, <4>2
    <3>3. Turn(h[n - 1], n) \in Docs
      BY <1>4, <3>1, <3>2
    <3>4. h[(n - 1) + 1] = Turn(h[n - 1], (n - 1) + 1)
      BY <1>8, <3>1, <3>3
    <3>5. QED
      BY <3>1, <3>4
  <2>2. QED
    BY <2>1
<1>13. Solves([n \in 0 .. N |-> h[n]])
  <2> DEFINE g == [n \in 0 .. N |-> h[n]]
  <2>1. \A n \in 1 .. N : g[n - 1] = h[n - 1]
    BY <1>2
  <2>2. \A n \in 0 .. N : g[n] = IF n = 0 THEN d ELSE Turn(g[n - 1], n)
    BY <1>2, <1>9, <1>12, <2>1
  <2>3. QED
    BY <2>2
<1>14. Solves(f)
  <2> HIDE DEF Solves
  <2> QED BY <1>13 DEF f
<1>15. f[0] = d /\ \A n \in 1 .. N : f[n] = Turn(f[n - 1], n)
  <2>1. \A n \in 0 .. N : f[n] = IF n = 0 THEN d ELSE Turn(f[n - 1], n)
    BY <1>14
  <2>2. 0 \in 0 .. N /\ \A n \in 1 .. N : n \in 0 .. N /\ n # 0
    BY <1>2
  <2>3. QED
    BY <2>1, <2>2
<1> DEFINE Same == { n \in Nat : n <= N => f[n] = h[n] }
<1>16. \A n \in Nat : n \in Same
  <2>1. 0 \in Same
    BY <1>9, <1>15
  <2>2. ASSUME NEW n \in Nat, n \in Same PROVE n + 1 \in Same
    <3>1. SUFFICES ASSUME n + 1 <= N PROVE f[n + 1] = h[n + 1]
      OBVIOUS
    <3>2. n + 1 \in 1 .. N /\ (n + 1) - 1 = n /\ n <= N
      BY <1>2, <3>1
    <3>3. f[n] = h[n]
      BY <2>2, <3>2
    <3>4. QED
      BY <1>12, <1>15, <3>2, <3>3
  <2> HIDE DEF Same
  <2>3. QED
    BY <2>1, <2>2, Induction
<1>17. N \in Same /\ N <= N
  BY <1>2, <1>16
<1>18. Lays(d, f[N], c, l, at, values, N)
  BY <1>2, <1>11, <1>17
<1>19. QED
  BY <1>1, <1>18 DEF N, at

\* The end of the row is behind all that is shown.
LEMMA EndDivides ==
  ASSUME NEW d, Sound(d), NEW l \in List
  PROVE  Divides(d, l, Len(Row(d, l)), Len(live(d, l)))
<1> DEFINE r == Row(d, l)
           s == live(d, l)
           S == Alive(d)
<1>1. Len(r) \in Nat
  BY RowFollows
<1>2. s \in Seq(Nat)
  BY liveIs
<1>3. PICK q : Picks(r, s, q, S)
  BY liveIs
<1> HIDE DEF r, s, S
<1>4. Len(s) \in Nat
  BY <1>2
<1>5. \A i \in 1 .. Len(s) : q[i] \in 1 .. Len(r)
  BY <1>3 DEF Picks
<1>6. Len(s) \in 0 .. Len(s) /\ \A i \in 1 .. Len(s) : IF i <= Len(s) THEN q[i] <= Len(r) ELSE Len(r) < q[i]
  BY <1>1, <1>4, <1>5
<1>7. QED
  BY <1>3, <1>6 DEF Divides, r, s, S

\* The visible item before an index, the last one if the index is beyond, divides there.
LEMMA findItemAtIndexDivides ==
  ASSUME NEW d, Sound(d), NEW l \in List, NEW index \in Nat,
         NEW left, left = findItemAtIndex(d, l, index),
         NEW right, right = IF left = Nil THEN d.start[l] ELSE d.heap[left].right
  PROVE  \E at \in Nat : /\ IsSlot(Row(d, l), at, left, right)
                         /\ Divides(d, l, at, Capped(index, Len(live(d, l))))
<1> DEFINE r == Row(d, l)
           s == live(d, l)
           S == Alive(d)
           X == OfList(d, l)
           k == Capped(index, Len(s))
<1>1. Follows(d, d.start[l], r, X) /\ Len(r) \in Nat /\ Nil \notin X
  BY RowFollows, NilIsNoRef DEF OfList
<1>2. s \in Seq(Refs(d)) /\ Len(s) \in Nat /\ \A i \in 1 .. Len(s) : s[i] # Nil
  <2> HIDE DEF s
  <2>1. s \in Seq(Refs(d))
    BY liveIs DEF s
  <2>2. Len(s) \in Nat /\ \A i \in 1 .. Len(s) : s[i] \in Refs(d)
    BY <2>1, SeqElements
  <2>3. QED
    BY <2>1, <2>2, NilIsNoRef
<1>3. PICK q : Picks(r, s, q, S)
  BY liveIs
<1>4. left = IF index = 0 \/ s = <<>> THEN Nil ELSE s[Min({index, Len(s)})]
  BY DEF findItemAtIndex
<1> HIDE DEF r, s, S, X
<1>5. /\ \A i \in 1 .. Len(s) : q[i] \in 1 .. Len(r) /\ s[i] = r[q[i]]
      /\ \A i, j \in 1 .. Len(s) : i < j => q[i] < q[j]
  BY <1>3 DEF Picks
<1>6. k \in 0 .. Len(s)
  BY <1>2 DEF Capped
<1>7. Min({index, Len(s)}) = k
  <2> DEFINE two == {index, Len(s)}
  <2>1. two \subseteq Nat /\ two # {} /\ index \in two /\ Len(s) \in two
    BY <1>2
  <2>2. Min(two) \in two /\ \A x \in two : Min(two) <= x
    <3> HIDE DEF two
    <3> QED BY <2>1, LeastOf
  <2>3. Min(two) = index \/ Min(two) = Len(s)
    BY <2>2
  <2>4. Min(two) <= index /\ Min(two) <= Len(s)
    BY <2>1, <2>2
  <2> HIDE DEF two
  <2>5. Min(two) = k
    BY <1>2, <2>3, <2>4 DEF Capped
  <2>6. QED
    BY <2>5 DEF two
<1>8. CASE index = 0 \/ Len(s) = 0
  <2>1. left = Nil /\ k = 0
    BY <1>2, <1>4, <1>8 DEF Capped
  <2>2. right = IF 0 = Len(r) THEN Nil ELSE r[0 + 1]
    <3>1. CASE d.start[l] = Nil
      <4>1. Len(r) = 0
        BY <1>1, <3>1 DEF Follows
      <4>2. QED
        BY <2>1, <3>1, <4>1
    <3>2. CASE d.start[l] # Nil
      BY <1>1, <2>1, <3>2 DEF Follows
    <3>3. QED
      BY <3>1, <3>2
  <2>3. IsSlot(r, 0, left, right)
    BY <1>1, <2>1, <2>2 DEF IsSlot
  <2>4. \A i \in 1 .. Len(s) : IF i <= k THEN q[i] <= 0 ELSE 0 < q[i]
    BY <1>1, <1>2, <1>5, <2>1
  <2>5. Divides(d, l, 0, k)
    BY <1>3, <1>6, <2>4 DEF Divides, r, s, S
  <2>6. QED
    BY <2>3, <2>5 DEF r, s
<1>9. CASE index # 0 /\ Len(s) # 0
  <2>1. k \in 1 .. Len(s) /\ left = s[k] /\ left # Nil
    <3>1. k \in 1 .. Len(s)
      BY <1>2, <1>6, <1>9 DEF Capped
    <3>2. s # <<>>
      BY <1>9
    <3> HIDE DEF k
    <3>3. left = s[k]
      BY <1>4, <1>7, <1>9, <3>2
    <3>4. QED
      BY <1>2, <3>1, <3>3
  <2> HIDE DEF k
  <2> DEFINE at == q[k]
  <2>2. at \in 1 .. Len(r) /\ left = r[at]
    BY <1>5, <2>1
  <2>3. \A i \in 1 .. Len(s) : IF i <= k THEN q[i] <= at ELSE at < q[i]
    <3>1. ASSUME NEW i \in 1 .. Len(s) PROVE IF i <= k THEN q[i] <= at ELSE at < q[i]
      <4>1. q[i] \in Nat /\ at \in Nat
        BY <1>1, <1>5, <2>2
      <4>2. CASE i < k
        BY <1>2, <1>5, <2>1, <4>1, <4>2
      <4>3. CASE i = k
        BY <4>1, <4>3
      <4>4. CASE k < i
        BY <1>2, <1>5, <2>1, <4>1, <4>4
      <4>5. QED
        BY <1>2, <2>1, <4>2, <4>3, <4>4
    <3>2. QED
      BY <3>1
  <2> HIDE DEF at
  <2>4. right = IF at = Len(r) THEN Nil ELSE r[at + 1]
    BY <1>1, <2>1, <2>2 DEF Follows
  <2>5. at \in Nat /\ IsSlot(r, at, left, right)
    BY <1>1, <2>2, <2>4 DEF IsSlot
  <2>6. Divides(d, l, at, k)
    BY <1>3, <1>6, <2>3 DEF Divides, r, s, S
  <2>7. QED
    BY <2>5, <2>6 DEF r, s, k
<1>10. QED
  BY <1>2, <1>8, <1>9

\* What a turn of the loop of ArrayInsert makes of a.
AddAfter(d, c, l, left, right, a, v) ==
    place(a, c, getState(a, c), l,
          IF a = d THEN left ELSE getItem(a, [client |-> c, clock |-> getState(a, c) - 1]), right, <<v>>)

\* The items of the first m turns, after the first at of the row.
Adds(d, e, c, l, at, values, m) == Lays(d, e, c, l, at, values, m) /\ (m = 0 => e = d)

\* The item after which the next one is put: the first time left, then the one before.
LEMMA AddAfterSlot ==
  ASSUME NEW d, Sound(d), NEW c \in Client, NEW l \in List, NEW left, NEW right,
         NEW at \in Nat, IsSlot(Row(d, l), at, left, right), NEW values,
         NEW m \in Nat, NEW e, Adds(d, e, c, l, at, values, m)
  PROVE  IsSlot(Row(e, l), at + m,
                IF e = d THEN left ELSE getItem(e, [client |-> c, clock |-> getState(e, c) - 1]), right)
<1> DEFINE prev == IF e = d THEN left ELSE getItem(e, [client |-> c, clock |-> getState(e, c) - 1])
           a == Len(d.heap)
           b == Len(d.store[c])
<1>1. Sound(e) /\ Whole(e) /\ e \in Docs /\ d \in Docs
  BY DEF Adds, Lays, Typed, Sound, Whole
<1>2. a \in Nat /\ b \in Nat
  BY <1>1, DocFields
<1>3. prev = IF m = 0 THEN left ELSE a + m
  <2>1. CASE m = 0
    BY <2>1 DEF Adds
  <2>2. CASE m # 0
    <3> DEFINE n == a + m
               id == [client |-> c, clock |-> getState(e, c) - 1]
    <3>1. Len(e.heap) = a + m /\ Len(e.store[c]) = b + m /\ getState(e, c) = Len(e.store[c])
      BY <1>1, getStateCounts DEF Adds, Lays, Typed
    <3>2. e.heap[n].id = [client |-> c, clock |-> b + (m - 1)]
      <4>1. m \in 1 .. m
        BY <2>2
      <4>2. QED
        BY <4>1 DEF Adds, Lays, Typed
    <3> HIDE DEF b
    <3>3. n \in Refs(e) /\ Len(e.heap) # a
      <4> HIDE DEF a
      <4>1. n \in 1 .. Len(e.heap) /\ Len(e.heap) # a
        BY <1>2, <2>2, <3>1
      <4>2. QED
        BY <4>1 DEF Refs
    <3>4. e # d
      BY <3>3
    <3> HIDE DEF n, a
    <3>5. id = e.heap[n].id /\ id \in IdType /\ id.client = c
      <4>1. getState(e, c) - 1 = b + (m - 1) /\ b + (m - 1) \in Nat
        BY <1>2, <2>2, <3>1
      <4>2. QED
        BY <3>2, <4>1 DEF IdType
    <3> HIDE DEF id
    <3>6. Held(e, id) /\ RefOf(e, id) = n
      BY <1>1, <3>3, <3>5 DEF Whole, Held, RefOf
    <3>7. getItem(e, id) = n
      BY <1>1, <3>5, <3>6, getItemFinds
    <3>8. QED
      BY <2>2, <3>4, <3>7 DEF id, n
  <2>3. QED
    BY <2>1, <2>2
<1> HIDE DEF prev
<1>4. Spliced(Row(d, l), Row(e, l), at, a, m)
  BY DEF Adds, Lays
<1>5. Len(Row(d, l)) \in Nat
  BY RowFollows
<1> HIDE DEF a
<1>6. IsSlot(Row(e, l), at + m, IF m = 0 THEN left ELSE a + m, right)
  BY <1>2, <1>4, <1>5, NextSlot
<1>7. QED
  BY <1>3, <1>6 DEF prev

\* One more value.
LEMMA AddAfterLays ==
  ASSUME NEW d, Sound(d), NEW c \in Client, NEW l \in List \ Key,
         NEW left, NEW right, NEW at \in Nat, IsSlot(Row(d, l), at, left, right),
         NEW values \in Seq(1 .. MaxChars),
         NEW m \in Nat, m + 1 <= Len(values), NEW e, Adds(d, e, c, l, at, values, m)
  PROVE  Adds(d, AddAfter(d, c, l, left, right, e, values[m + 1]), c, l, at, values, m + 1)
<1> DEFINE prev == IF e = d THEN left ELSE getItem(e, [client |-> c, clock |-> getState(e, c) - 1])
           v == values[m + 1]
           f == AddAfter(d, c, l, left, right, e, v)
<1>1. v \in 1 .. MaxChars
  <2>1. m + 1 \in 1 .. Len(values)
    OBVIOUS
  <2> DEFINE V == 1 .. MaxChars
  <2>2. values \in Seq(V)
    OBVIOUS
  <2> HIDE DEF V
  <2>3. values[m + 1] \in V
    BY <2>1, <2>2
  <2>4. QED
    BY <2>3 DEF V
<1> HIDE DEF v
<1>2. IsSlot(Row(e, l), at + m, prev, right)
  BY AddAfterSlot
<1>3. f = place(e, c, getState(e, c), l, prev, right, <<v>>)
  BY DEF AddAfter
<1> HIDE DEF prev, f
<1>4. Sound(e) /\ Lays(d, e, c, l, at, values, m)
  BY DEF Adds, Lays, Typed
<1>5. Lays(e, f, c, l, at + m, <<v>>, 1)
  BY <1>1, <1>2, <1>3, <1>4, placeLays
<1>6. Lays(d, f, c, l, at, values, m + 1)
  BY <1>4, <1>5, LaysAfter DEF v
<1>7. m + 1 # 0
  OBVIOUS
<1>8. QED
  BY <1>6, <1>7 DEF Adds, f, v


\* The loop over the values.
LEMMA ArrayInsertLays ==
  ASSUME NEW d, Sound(d), NEW c \in Client, NEW l \in List \ Key, NEW index \in Nat,
         NEW values \in Seq(1 .. MaxChars)
  PROVE  \E at \in Nat : /\ Divides(d, l, at, Capped(index, Len(live(d, l))))
                         /\ Lays(d, ArrayInsert(d, c, l, index, values), c, l, at, values, Len(values))
<1> DEFINE left == findItemAtIndex(d, l, index)
           right == IF findItemAtIndex(d, l, index) = Nil THEN d.start[l] ELSE d.heap[findItemAtIndex(d, l, index)].right
           N == Len(values)
           Turn(a, n) == AddAfter(d, c, l, left, right, a, values[n])
           next == [p \in Docs \X Nat |-> IF p[2] < N /\ Turn(p[1], p[2] + 1) \in Docs
                                          THEN Turn(p[1], p[2] + 1) ELSE p[1]]
           Solves(g) == g = [n \in 0 .. N |-> IF n = 0 THEN d ELSE Turn(g[n - 1], n)]
           f == CHOOSE x : Solves(x)
<1>1. ArrayInsert(d, c, l, index, values) = f[N]
  BY DEF Loop, ArrayInsert, AddAfter
<1>2. N \in Nat /\ d \in Docs
  BY DEF Sound, Whole
<1>0. PICK at \in Nat : /\ IsSlot(Row(d, l), at, left, right)
                       /\ Divides(d, l, at, Capped(index, Len(live(d, l))))
  BY findItemAtIndexDivides
<1> HIDE DEF left, right
<1>3. \A m \in Nat : m + 1 <= N => \A e : Adds(d, e, c, l, at, values, m) => Adds(d, Turn(e, m + 1), c, l, at, values, m + 1)
  BY <1>0, AddAfterLays
<1>4. \A m \in Nat : \A e : Adds(d, e, c, l, at, values, m) => e \in Docs
  BY DEF Adds, Lays, Typed, Sound, Whole
<1>5. Adds(d, d, c, l, at, values, 0)
  <2>1. at \in 0 .. Len(Row(d, l))
    BY <1>0 DEF IsSlot
  <2>2. QED
    BY <2>1, LaysNothing DEF Adds
<1> HIDE DEF f, N, Turn
<1>6. next \in [Docs \X Nat -> Docs]
  OBVIOUS
<1>7. PICK h \in [Nat -> Docs] : Iterates(h, d, next)
  <2> HIDE DEF next
  <2> QED BY <1>2, <1>6, IterationExists
<1>8. ASSUME NEW n \in Nat, n < N, Turn(h[n], n + 1) \in Docs
      PROVE  h[n + 1] = Turn(h[n], n + 1)
  <2>1. h[n + 1] = next[<<h[n], n>>]
    <3> HIDE DEF next
    <3> QED BY <1>7 DEF Iterates
  <2>2. <<h[n], n>> \in Docs \X Nat
    OBVIOUS
  <2>3. QED
    BY <1>8, <2>1, <2>2
<1>9. h[0] = d
  BY <1>7 DEF Iterates
<1> HIDE DEF next
<1> DEFINE Good == { n \in Nat : n <= N => Adds(d, h[n], c, l, at, values, n) }
<1>10. \A n \in Nat : n \in Good
  <2>1. 0 \in Good
    BY <1>5, <1>9
  <2>2. ASSUME NEW n \in Nat, n \in Good PROVE n + 1 \in Good
    <3>1. SUFFICES ASSUME n + 1 <= N PROVE Adds(d, h[n + 1], c, l, at, values, n + 1)
      OBVIOUS
    <3>2. Adds(d, h[n], c, l, at, values, n) /\ n < N
      BY <1>2, <2>2, <3>1
    <3>3. Adds(d, Turn(h[n], n + 1), c, l, at, values, n + 1)
      BY <1>3, <3>1, <3>2
    <3>4. h[n + 1] = Turn(h[n], n + 1)
      BY <1>4, <1>8, <3>2, <3>3
    <3>5. QED
      BY <3>3, <3>4
  <2> HIDE DEF Good
  <2>3. QED
    BY <2>1, <2>2, Induction
<1>11. \A n \in Nat : n <= N => Adds(d, h[n], c, l, at, values, n)
  BY <1>10
<1>12. \A n \in 1 .. N : h[n] = Turn(h[n - 1], n)
  <2>1. ASSUME NEW n \in 1 .. N PROVE h[n] = Turn(h[n - 1], n)
    <3>1. n - 1 \in Nat /\ n - 1 < N /\ (n - 1) + 1 = n /\ n - 1 <= N /\ n \in Nat
      BY <1>2
    <3>2. Adds(d, Turn(h[n - 1], n), c, l, at, values, n)
      <4>1. Adds(d, h[n - 1], c, l, at, values, n - 1) /\ (n - 1) + 1 <= N
        BY <1>2, <1>11, <3>1
      <4>2. Adds(d, Turn(h[n - 1], (n - 1) + 1), c, l, at, values, (n - 1) + 1)
        BY <1>3, <3>1, <4>1
      <4>3. QED
        BY <3>1, <4>2
    <3>3. Turn(h[n - 1], n) \in Docs
      BY <1>4, <3>1, <3>2
    <3>4. h[(n - 1) + 1] = Turn(h[n - 1], (n - 1) + 1)
      BY <1>8, <3>1, <3>3
    <3>5. QED
      BY <3>1, <3>4
  <2>2. QED
    BY <2>1
<1>13. Solves([n \in 0 .. N |-> h[n]])
  <2> DEFINE g == [n \in 0 .. N |-> h[n]]
  <2>1. \A n \in 1 .. N : g[n - 1] = h[n - 1]
    BY <1>2
  <2>2. \A n \in 0 .. N : g[n] = IF n = 0 THEN d ELSE Turn(g[n - 1], n)
    BY <1>2, <1>9, <1>12, <2>1
  <2>3. QED
    BY <2>2
<1>14. Solves(f)
  <2> HIDE DEF Solves
  <2> QED BY <1>13 DEF f
<1>15. f[0] = d /\ \A n \in 1 .. N : f[n] = Turn(f[n - 1], n)
  <2>1. \A n \in 0 .. N : f[n] = IF n = 0 THEN d ELSE Turn(f[n - 1], n)
    BY <1>14
  <2>2. 0 \in 0 .. N /\ \A n \in 1 .. N : n \in 0 .. N /\ n # 0
    BY <1>2
  <2>3. QED
    BY <2>1, <2>2
<1> DEFINE Same == { n \in Nat : n <= N => f[n] = h[n] }
<1>16. \A n \in Nat : n \in Same
  <2>1. 0 \in Same
    BY <1>9, <1>15
  <2>2. ASSUME NEW n \in Nat, n \in Same PROVE n + 1 \in Same
    <3>1. SUFFICES ASSUME n + 1 <= N PROVE f[n + 1] = h[n + 1]
      OBVIOUS
    <3>2. n + 1 \in 1 .. N /\ (n + 1) - 1 = n /\ n <= N
      BY <1>2, <3>1
    <3>3. f[n] = h[n]
      BY <2>2, <3>2
    <3>4. QED
      BY <1>12, <1>15, <3>2, <3>3
  <2> HIDE DEF Same
  <2>3. QED
    BY <2>1, <2>2, Induction
<1>17. N \in Same /\ N <= N
  BY <1>2, <1>16
<1>18. Adds(d, f[N], c, l, at, values, N)
  BY <1>2, <1>11, <1>17
<1>19. Lays(d, ArrayInsert(d, c, l, index, values), c, l, at, values, Len(values))
  BY <1>1, <1>18 DEF N, Adds
<1>20. QED
  BY <1>0, <1>19

\* e is d with a new value of the key, which c has set in place of the one before.
Sets(d, e, c, key) ==
    /\ Edits(d, e, c, {key}, 1)
    /\ \A k \in Refs(d) : e.heap[k].deleted <=> d.heap[k].deleted \/ k = d.start[key]
    /\ \A o \in List \ {key} : e.start[o] = d.start[o]

\* Set puts one item, and deletes none but the value of the key.
LEMMA SetSets ==
  ASSUME NEW d, Sound(d), NEW c \in Client, NEW key \in Key, NEW v \in 1 .. MaxChars
  PROVE  Sets(d, Set(d, c, key, v), c, key)
<1> DEFINE S == {d.start[key]}
           m == markDeleted(d, S)
           e == Set(d, c, key, v)
           left == Nil
           right == Nil
<1>1. key \in List
  BY ListAssumption
<1>2. Marks(d, m, S) /\ Sound(m)
  BY markDeletedSound
<1>3. getState(d, c) = getState(m, c) /\ Len(d.heap) \in Nat /\ Len(m.heap) = Len(d.heap) /\ m.store = d.store
  <2>1. Whole(d) /\ Whole(m) /\ d \in Docs
    BY <1>2 DEF Sound, Whole
  <2>2. m.store = d.store /\ Len(m.heap) = Len(d.heap)
    BY <1>2 DEF Marks
  <2>3. Len(d.heap) \in Nat
    BY <2>1, DocFields
  <2> HIDE DEF m
  <2>4. QED
    BY <2>1, <2>2, <2>3, getStateCounts
<1>4. e = place(m, c, getState(m, c), key, left, right, <<v>>)
  BY <1>3 DEF Set
<1>5. \A k \in Refs(d) : k \in S => d.heap[k].list \in Key
  <2>1. ASSUME NEW k \in Refs(d), k \in S PROVE d.heap[k].list = key
    <3>1. k = d.start[key] /\ k # Nil
      BY <2>1 DEF Refs, Nil
    <3>2. QED
      BY <1>1, <3>1 DEF Sound, Listed
  <2>2. QED
    BY <2>1
<1> HIDE DEF S, m, e
<1>6. PICK rank : Ranked(m, rank)
  BY <1>2 DEF Sound
<1>7. left \in {Nil} \cup Refs(m) /\ right \in {Nil} \cup Refs(m) /\ left = Nil /\ right = Nil
  OBVIOUS
<1> HIDE DEF left, right
<1>8. /\ Typed(m, place(m, c, getState(m, c), key, left, right, <<v>>), c, 1)
      /\ Laid(m, place(m, c, getState(m, c), key, left, right, <<v>>), c, key, left, right, v)
  BY <1>1, <1>2, <1>6, <1>7, placeTypes
<1>9. Typed(m, e, c, 1) /\ Laid(m, e, c, key, left, right, v)
  BY <1>4, <1>8
<1>10. Refs(m) = Refs(d)
  BY <1>3 DEF Refs
<1>11. ASSUME NEW k \in Refs(d)
       PROVE  /\ SameItem(e.heap[k], d.heap[k])
              /\ d.heap[k].deleted => e.heap[k].deleted
              /\ e.heap[k].deleted => d.heap[k].deleted \/ d.heap[k].list \in Key
  <2>1. SameItem(e.heap[k], m.heap[k]) /\ SameItem(m.heap[k], d.heap[k])
    BY <1>2, <1>9, <1>10 DEF Marks, Typed, Extends
  <2>2. SameItem(e.heap[k], d.heap[k]) /\ m.heap[k].list = d.heap[k].list
    BY <2>1 DEF SameItem
  <2>3. m.heap[k].deleted <=> d.heap[k].deleted \/ k \in S
    BY <1>2 DEF Marks
  <2>4. (m.heap[k].deleted => e.heap[k].deleted) /\ (e.heap[k].deleted => m.heap[k].deleted \/ m.heap[k].list \in Key)
    BY <1>9, <1>10 DEF Typed
  <2>5. QED
    BY <1>5, <2>2, <2>3, <2>4
<1>12. /\ Sound(e) /\ e.ds = d.ds
       /\ Len(e.heap) = Len(d.heap) + 1 /\ Len(e.store[c]) = Len(d.store[c]) + 1
  BY <1>2, <1>3, <1>9 DEF Typed, Marks
<1>13. \A i \in 1 .. 1 : /\ e.heap[Len(d.heap) + i].id = [client |-> c, clock |-> Len(d.store[c]) + (i - 1)]
                         /\ e.heap[Len(d.heap) + i].deleted => e.heap[Len(d.heap) + i].list \in Key
  BY <1>3, <1>9 DEF Typed
<1>14. Extends(d, e)
  <2>1. Len(d.heap) <= Len(e.heap)
    BY <1>3, <1>12
  <2>2. QED
    BY <1>11, <2>1 DEF Extends
<1>15. Typed(d, e, c, 1)
  BY <1>11, <1>12, <1>13, <1>14 DEF Typed
<1>16. PICK x : Fits(m, x) /\ x.list = key /\ x.oleft = NoID /\ Linked(m, e, x, Nil, Nil)
  BY <1>7, <1>9 DEF Laid
<1>17. /\ Sound(m) /\ Sound(e) /\ Grows(m, e, x) /\ SameItem(e.heap[Len(m.heap) + 1], x)
       /\ x.list \in List /\ x.list \notin List \ Key /\ x.list # NoList
  BY <1>1, <1>2, <1>12, <1>16, ListAssumption DEF Linked, Grows
<1>18. ASSUME NEW o \in List \ {key} PROVE e.start[o] = d.start[o] /\ Row(e, o) = Row(m, o)
  <2>1. m.start[o] = d.start[o] /\ e.start[o] = m.start[o]
    BY <1>2, <1>16 DEF Marks, Linked
  <2>2. Row(e, o) = Row(m, o)
    BY <1>16, <1>17, OtherRows
  <2>3. QED
    BY <2>1, <2>2
<1>19. ASSUME Ordered(d) PROVE Ordered(e) /\ Broadens(d, e)
  <2>1. Len(m.heap) = Len(d.heap) /\ m.start = d.start
        /\ \A k \in Refs(d) : SameItem(m.heap[k], d.heap[k]) /\ m.heap[k].right = d.heap[k].right
    BY <1>2 DEF Marks
  <2>2. Ordered(m) /\ \A l \in List : Row(m, l) = Row(d, l)
    BY <1>17, <1>19, <2>1, MarkedOrdered
  <2>3. \A l \in List \ Key : Row(e, l) = Row(m, l)
    BY <1>18
  <2>4. Ordered(e)
    BY <1>16, <1>17, <2>2, <2>3, UnlinkedOrdered
  <2>5. Broadens(d, e)
    BY <2>2, <2>3, SameBroadens
  <2>6. QED
    BY <2>4, <2>5
<1>20. ASSUME NEW i \in 1 .. 1
       PROVE  /\ e.heap[Len(d.heap) + i].list \in {key}
              /\ e.heap[Len(d.heap) + i].oleft.client = c
                    => e.heap[Len(d.heap) + i].oleft.clock < e.heap[Len(d.heap) + i].id.clock
  <2>1. i = 1 /\ Len(d.heap) = Len(m.heap)
    BY <1>3
  <2>2. e.heap[Len(m.heap) + 1].list = key /\ e.heap[Len(m.heap) + 1].oleft = NoID
    BY <1>16, <1>17 DEF SameItem
  <2>3. NoID.client # c
    BY ClientAssumption DEF NoID
  <2>4. QED
    BY <2>1, <2>2, <2>3
<1>21. Edits(d, e, c, {key}, 1)
  BY <1>15, <1>19, <1>20 DEF Edits
<1>22. ASSUME NEW k \in Refs(d) PROVE e.heap[k].deleted <=> d.heap[k].deleted \/ k = d.start[key]
  <2>1. m.heap[k].deleted <=> d.heap[k].deleted \/ k \in S
    BY <1>2 DEF Marks
  <2>2. e.heap[k].deleted = m.heap[k].deleted
    BY <1>10, <1>17 DEF Grows
  <2>3. QED
    BY <2>1, <2>2 DEF S
<1>23. QED
  BY <1>18, <1>21, <1>22 DEF Sets, e

\* Array.Delete cuts visible items.
LEMMA ArrayDeleteCuts ==
  ASSUME NEW d, Sound(d), NEW l \in List, NEW index \in Nat, NEW length \in Nat
  PROVE  Cuts(d, ArrayDelete(d, l, index, length))
<1> DEFINE refs == live(d, l)
           upto == Min({index + length, Len(refs)})
           dels == SubSeq(refs, index + 1, upto)
<1>1. refs \in Seq(Refs(d))
  <2>1. OfList(d, l) \subseteq Refs(d)
    BY DEF OfList
  <2>2. QED
    BY <2>1, chainOfList
<1>2. upto \in Nat /\ upto <= Len(refs)
  <2> DEFINE S == {index + length, Len(refs)}
  <2>1. S \subseteq Nat /\ S # {} /\ Len(refs) \in S
    BY <1>1
  <2> HIDE DEF S
  <2>2. Min(S) \in S /\ \A x \in S : Min(S) <= x
    BY <2>1, LeastOf
  <2>3. QED
    BY <2>1, <2>2 DEF S
<1> HIDE DEF refs, upto
<1>3. dels \in Seq(Refs(d))
  <2> DEFINE R == Refs(d)
  <2>1. index + 1 \in Int /\ upto \in Int /\ refs \in Seq(R)
    BY <1>1, <1>2
  <2> HIDE DEF R
  <2>2. \A i \in index + 1 .. upto : i \in 1 .. Len(refs)
    BY <1>2, <2>1
  <2>3. \A i \in index + 1 .. upto : refs[i] \in R
    BY <2>1, <2>2
  <2>4. SubSeq(refs, index + 1, upto) \in Seq(R)
    BY <2>1, <2>3, SubSeqProperties
  <2>5. QED
    BY <2>4 DEF R
<1>4. ArrayDelete(d, l, index, length) = [doc |-> markDeleted(d, Range(dels)), dels |-> dels]
  BY DEF ArrayDelete, refs, upto
<1> HIDE DEF dels
<1>5. QED
  BY <1>3, <1>4, markDeletedCuts

\* Array.Delete cuts the visible values at the index.
LEMMA ArrayDeleteShows ==
  ASSUME NEW d, Sound(d), NEW l \in List, NEW index \in Nat, NEW length \in Nat,
         NEW v, v = visible(d, l)
  PROVE  visible(ArrayDelete(d, l, index, length).doc, l) = CutOut(v, Capped(index, Len(v)), index + length)
<1> DEFINE s == live(d, l)
           upto == Min({index + length, Len(s)})
           dels == SubSeq(s, index + 1, upto)
           result == ArrayDelete(d, l, index, length)
           at == Capped(index, Len(s))
           c == upto - at
<1>1. Cuts(d, result)
  BY ArrayDeleteCuts
<1>2. result.dels = dels
  BY DEF ArrayDelete
<1>3. s \in Seq(Nat) /\ Len(s) \in Nat
  <2>1. s \in Seq(Nat)
    BY liveIs
  <2> HIDE DEF s
  <2>2. QED
    BY <2>1
<1>4. v \in Seq(1 .. MaxChars) /\ Len(v) = Len(s)
  BY visibleCounts
<1> HIDE DEF s, result
<1>5. upto \in Nat /\ (upto = index + length \/ upto = Len(s)) /\ upto <= index + length /\ upto <= Len(s)
  <2> DEFINE two == {index + length, Len(s)}
  <2>1. two \subseteq Nat /\ two # {} /\ index + length \in two /\ Len(s) \in two
    BY <1>3
  <2>2. Min(two) \in two /\ \A x \in two : Min(two) <= x
    <3> HIDE DEF two
    <3> QED BY <2>1, LeastOf
  <2>3. QED
    BY <2>1, <2>2
<1> HIDE DEF upto
<1>6. /\ at \in Nat /\ c \in Nat /\ at + c = upto /\ at + c <= Len(s)
      /\ at = index \/ (at = Len(s) /\ upto = Len(s) /\ Len(s) < index + 1)
  BY <1>3, <1>5 DEF Capped
<1>7. ASSUME NEW k PROVE (\E i \in 1 .. Len(dels) : dels[i] = k) <=> (\E i \in at + 1 .. at + c : s[i] = k)
  <2>1. \A i \in index + 1 .. upto : s[i] \in Nat
    <3>1. \A i \in index + 1 .. upto : i \in 1 .. Len(s)
      BY <1>3, <1>5
    <3>2. QED
      BY <1>3, <3>1, SeqElements
  <2>2. /\ Len(dels) = IF index + 1 <= upto THEN upto - (index + 1) + 1 ELSE 0
        /\ \A i \in 1 .. upto - (index + 1) + 1 : dels[i] = s[index + 1 + i - 1]
    BY <1>3, <1>5, <2>1, SubSeqProperties
  <2> HIDE DEF dels, at, c
  <2>3. CASE at = index
    <3>1. /\ at + c = upto
          /\ \A i \in 1 .. Len(dels) : index + i \in at + 1 .. upto /\ dels[i] = s[index + i]
          /\ \A i \in at + 1 .. upto : i - index \in 1 .. Len(dels) /\ index + (i - index) = i
      <4>1. at + c = upto
        BY <1>6
      <4>2. \A i \in 1 .. Len(dels) : index + i \in at + 1 .. upto /\ dels[i] = s[index + i]
        <5>1. ASSUME NEW i \in 1 .. Len(dels) PROVE index + i \in at + 1 .. upto /\ dels[i] = s[index + i]
          <6>1. index + 1 <= upto /\ i \in 1 .. upto - (index + 1) + 1 /\ index + 1 + i - 1 = index + i
            BY <1>5, <2>2
          <6>2. QED
            BY <1>5, <2>2, <2>3, <6>1
        <5>2. QED
          BY <5>1
      <4>3. \A i \in at + 1 .. upto : i - index \in 1 .. Len(dels) /\ index + (i - index) = i
        <5>1. ASSUME NEW i \in at + 1 .. upto PROVE i - index \in 1 .. Len(dels) /\ index + (i - index) = i
          <6>1. i \in Nat /\ index + 1 <= i /\ i <= upto
            BY <1>5, <2>3
          <6>2. Len(dels) = upto - (index + 1) + 1
            BY <1>5, <2>2, <6>1
          <6>3. QED
            BY <1>5, <6>1, <6>2
        <5>2. QED
          BY <5>1
      <4>4. QED
        BY <4>1, <4>2, <4>3
    <3>2. ASSUME NEW i \in 1 .. Len(dels), dels[i] = k PROVE \E j \in at + 1 .. at + c : s[j] = k
      BY <3>1, <3>2
    <3>3. ASSUME NEW i \in at + 1 .. at + c, s[i] = k PROVE \E j \in 1 .. Len(dels) : dels[j] = k
      <4>1. i - index \in 1 .. Len(dels) /\ index + (i - index) = i
        BY <3>1
      <4>2. dels[i - index] = s[index + (i - index)]
        BY <3>1, <4>1
      <4>3. QED
        BY <3>3, <4>1, <4>2
    <3>4. QED
      BY <3>2, <3>3
  <2>4. CASE at = Len(s) /\ upto = Len(s) /\ Len(s) < index + 1
    <3>1. Len(dels) = 0 /\ c = 0
      BY <1>3, <1>6, <2>2, <2>4
    <3>2. QED
      BY <1>6, <3>1
  <2>5. QED
    BY <1>6, <2>3, <2>4
<1> HIDE DEF dels, at, c
<1>8. Takes(result.dels, live(d, l), at, c)
  BY <1>2, <1>7 DEF Takes, s
<1>9. at = Capped(index, Len(v)) /\ at + c = Capped(index + length, Len(v))
  <2>1. upto = Capped(index + length, Len(s))
    BY <1>3, <1>5 DEF Capped
  <2>2. QED
    BY <1>4, <1>6, <2>1 DEF at
<1>10. visible(result.doc, l) = CutOut(v, at, index + length)
  <2>1. c \in Nat
    BY <1>6
  <2>2. QED
    BY <1>1, <1>8, <1>9, <2>1, CutsShowUpTo
<1>11. QED
  BY <1>9, <1>10 DEF result

\* Map.Delete cuts the value of the key, if it shows one.
LEMMA MapDeleteCuts ==
  ASSUME NEW d, Sound(d), NEW key \in Key
  PROVE  Cuts(d, MapDelete(d, key))
<1>1. CASE Get(d, key) = <<>>
  BY <1>1, NothingCut DEF MapDelete
<1>2. CASE Get(d, key) # <<>>
  <2> DEFINE dels == <<d.start[key]>>
  <2>1. d.start[key] # Nil
    BY <1>2 DEF Get
  <2>2. d.start[key] \in Refs(d)
    BY <2>1, ListAssumption DEF Sound, Listed
  <2>3. dels \in Seq(Refs(d)) /\ Range(dels) = {d.start[key]}
    <3>1. DOMAIN dels = 1 .. 1
      OBVIOUS
    <3>2. QED
      BY <2>2, <3>1 DEF Range
  <2>4. MapDelete(d, key) = [doc |-> markDeleted(d, Range(dels)), dels |-> dels]
    BY <1>2, <2>3 DEF MapDelete
  <2> HIDE DEF dels
  <2>5. QED
    BY <2>3, <2>4, markDeletedCuts
<1>3. QED
  BY <1>1, <1>2

\* The values of an edit are within the bound, and its items the last ones.
LEMMA EditedValues ==
  ASSUME Inv, NEW r \in Client, NEW n \in Nat, typed + n <= MaxChars
  PROVE  /\ Values(n) \in Seq(1 .. MaxChars) /\ Len(Values(n)) = n
         /\ \A d : Typed(doc[r], d, r, n) => Newest(d, n) = LastRefs(doc[r], n)
<1>1. typed \in Nat /\ MaxChars \in Nat
  BY BoundAssumption DEF Inv, Shape
<1>2. Values(n) \in [1 .. n -> 1 .. MaxChars]
  BY <1>1 DEF Values
<1>3. Values(n) \in Seq(1 .. MaxChars) /\ Len(Values(n)) = n
  <2> DEFINE v == Values(n)
             S == 1 .. MaxChars
  <2>1. v \in [1 .. n -> S]
    BY <1>2
  <2> HIDE DEF v, S
  <2>2. v \in Seq(S) /\ Len(v) = n
    BY <2>1
  <2>3. QED
    BY <2>2 DEF v, S
<1>4. ASSUME NEW d, Typed(doc[r], d, r, n) PROVE Newest(d, n) = LastRefs(doc[r], n)
  <2> DEFINE a == Len(doc[r].heap)
             b == Len(d.heap)
  <2>1. a \in Nat /\ b = a + n
    BY <1>4, SettledSound DEF Inv, Typed
  <2>2. Newest(d, n) = [k \in 1 .. n |-> b - n + k] /\ LastRefs(doc[r], n) = [i \in 1 .. n |-> a + i]
    BY DEF Newest, LastRefs
  <2> HIDE DEF a, b
  <2>3. \A k \in 1 .. n : b - n + k = a + k
    BY <2>1
  <2>4. QED
    BY <2>2, <2>3
<1>5. QED
  BY <1>3, <1>4

\* What the edits of the Array make of what it shows.
LEMMA EditsShow ==
  ASSUME Inv, NEW r \in Client, NEW v, v = visible(doc[r], Array), NEW w, w = visible(doc'[r], Array)
  PROVE  /\ \A n \in InsertLen : ArrayPush(r, n) =>
               w = PutAt(v, Len(v), Values(n))
         /\ \A n \in InsertLen : \A i \in Indexes(r) : ArrayInsertAt(r, i, n) =>
               w = PutAt(v, Capped(i, Len(v)), Values(n))
         /\ \A n \in DeleteLen : \A i \in Indexes(r) : ArrayDeleteAt(r, i, n) =>
               w = CutOut(v, Capped(i, Len(v)), i + n)
<1> DEFINE d == doc[r]
<1>1. Sound(d) /\ Array \in List \ Key /\ Array \in List
  BY SettledSound, ArrayAssumption DEF Inv
<1>2. InsertLen \subseteq Nat /\ DeleteLen \subseteq Nat
  BY ReplicaAssumption
<1>3. Len(v) = Len(live(d, Array)) /\ Len(v) \in Nat
  BY <1>1, visibleCounts
<1>4. \A i \in Indexes(r) : i \in Nat
  <2> DEFINE n == textLen(d, Array)
  <2>1. n \in Nat
    BY <1>1, textLenNat
  <2>2. Indexes(r) = 0 .. n + 1
    BY DEF Indexes
  <2> HIDE DEF n
  <2>3. QED
    BY <2>1, <2>2
<1>5. DOMAIN doc = Client
  BY DEF Inv, Shape
<1>6. \A e, refs, n : Inserts(r, e, refs, n) => typed + n <= MaxChars /\ doc'[r] = e
  BY <1>5 DEF Inserts
<1>7. \A result : Deletes(r, result) => doc'[r] = result.doc
  BY <1>5 DEF Deletes
<1>8. v = visible(d, Array)
  OBVIOUS
<1>9. \A n \in InsertLen : n \in Nat /\ (typed + n <= MaxChars => Values(n) \in Seq(1 .. MaxChars) /\ Len(Values(n)) = n)
  BY <1>2, EditedValues
<1>10. ASSUME NEW n \in InsertLen, NEW e, NEW p, NEW at, Values(n) \in Seq(1 .. MaxChars),
              Lays(d, e, r, Array, p, Values(n), Len(Values(n))), Divides(d, Array, p, at)
       PROVE  visible(e, Array) = PutAt(v, at, Values(n))
  <2> HIDE DEF d
  <2>1. visible(e, Array) = PutAt(visible(d, Array), at, Values(n))
    BY <1>1, <1>10, LaysShows
  <2>2. QED
    BY <1>8, <2>1
<1> HIDE DEF d
<1>11. ASSUME NEW n \in InsertLen, ArrayPush(r, n)
       PROVE  w = PutAt(v, Len(v), Values(n))
  <2> DEFINE e == Push(d, r, Array, Values(n))
  <2>1. Inserts(r, e, Newest(e, n), n)
    BY <1>11 DEF ArrayPush, d
  <2>2. Values(n) \in Seq(1 .. MaxChars) /\ doc'[r] = e
    BY <1>6, <1>9, <2>1
  <2>3. Lays(d, e, r, Array, Len(Row(d, Array)), Values(n), Len(Values(n)))
    BY <1>1, <2>2, PushLays
  <2>4. Divides(d, Array, Len(Row(d, Array)), Len(v))
    BY <1>1, <1>3, EndDivides
  <2> HIDE DEF e
  <2>5. visible(e, Array) = PutAt(v, Len(v), Values(n))
    BY <1>10, <2>2, <2>3, <2>4
  <2>6. QED
    BY <2>2, <2>5
<1>12. ASSUME NEW n \in InsertLen, NEW i \in Indexes(r), ArrayInsertAt(r, i, n)
       PROVE  w = PutAt(v, Capped(i, Len(v)), Values(n))
  <2> DEFINE e == ArrayInsert(d, r, Array, i, Values(n))
             at == Capped(i, Len(v))
  <2>1. Inserts(r, e, Newest(e, n), n)
    BY <1>12 DEF ArrayInsertAt, d
  <2>2. Values(n) \in Seq(1 .. MaxChars) /\ doc'[r] = e
    BY <1>6, <1>9, <2>1
  <2>3. PICK p \in Nat : /\ Divides(d, Array, p, Capped(i, Len(live(d, Array))))
                        /\ Lays(d, e, r, Array, p, Values(n), Len(Values(n)))
    BY <1>1, <1>4, <2>2, ArrayInsertLays
  <2>4. Divides(d, Array, p, at)
    BY <1>3, <2>3
  <2> HIDE DEF e, at
  <2>5. visible(e, Array) = PutAt(v, at, Values(n))
    BY <1>10, <2>2, <2>3, <2>4
  <2>6. QED
    BY <2>2, <2>5 DEF at
<1>13. ASSUME NEW n \in DeleteLen, NEW i \in Indexes(r), ArrayDeleteAt(r, i, n)
       PROVE  w = CutOut(v, Capped(i, Len(v)), i + n)
  <2> DEFINE result == ArrayDelete(d, Array, i, n)
  <2>1. Deletes(r, result)
    BY <1>13 DEF ArrayDeleteAt, d
  <2>2. doc'[r] = result.doc
    BY <1>7, <2>1
  <2>3. visible(result.doc, Array) = CutOut(v, Capped(i, Len(v)), i + n)
    <3>1. i \in Nat /\ n \in Nat
      BY <1>2, <1>4
    <3> DEFINE x == visible(d, Array)
    <3>2. visible(ArrayDelete(d, Array, i, n).doc, Array) = CutOut(x, Capped(i, Len(x)), i + n)
      BY <1>1, <3>1, ArrayDeleteShows
    <3> HIDE DEF result
    <3>3. v = x
      BY <1>8
    <3> HIDE DEF x
    <3>4. visible(ArrayDelete(d, Array, i, n).doc, Array) = CutOut(v, Capped(i, Len(v)), i + n)
      BY <3>2, <3>3
    <3>5. QED
      BY <3>4 DEF result
  <2> HIDE DEF result
  <2>4. QED
    BY <2>2, <2>3
<1>14. QED
  BY <1>11, <1>12, <1>13

\* The lists that are edited.
Edited == Key \cup {Array}

\* What the edits do: values are put somewhere in the Array, a key is set, items are cut.
Lengthens(r, n) ==
    \E d, at : /\ n \in Nat /\ Lays(doc[r], d, r, Array, at, Values(n), n)
              /\ Inserts(r, d, LastRefs(doc[r], n), n)

Assigns(r, key) ==
    \E d : /\ Sets(doc[r], d, r, key)
          /\ Inserts(r, d, LastRefs(doc[r], 1), 1)

Shortens(r) == \E result : Cuts(doc[r], result) /\ Deletes(r, result)

\* The edits of the Array and the Map.
LEMMA EditsMean ==
  ASSUME Inv, NEW r \in Client
  PROVE  /\ \A n \in InsertLen : ArrayPush(r, n) => Lengthens(r, n)
         /\ \A n \in InsertLen : \A i \in Indexes(r) : ArrayInsertAt(r, i, n) => Lengthens(r, n)
         /\ \A n \in DeleteLen : \A i \in Indexes(r) : ArrayDeleteAt(r, i, n) => Shortens(r)
         /\ \A key \in Key : MapSet(r, key) => Assigns(r, key)
         /\ \A key \in Key : MapDeleteKey(r, key) => Shortens(r)
<1> DEFINE d == doc[r]
<1>1. Sound(d) /\ Array \in List \ Key /\ Key \subseteq List
  BY SettledSound, ArrayAssumption, ListAssumption DEF Inv
<1>2. InsertLen \subseteq Nat /\ DeleteLen \subseteq Nat
  BY ReplicaAssumption
<1>3. \A i \in Indexes(r) : i \in Nat
  <2> HIDE DEF d
  <2>1. textLen(d, Array) \in Nat
    BY <1>1, textLenNat
  <2> DEFINE n == textLen(d, Array)
  <2>2. Indexes(r) = 0 .. n + 1 /\ n \in Nat
    BY <2>1 DEF Indexes, d
  <2> HIDE DEF n
  <2>3. QED
    BY <2>2
<1>4. ASSUME NEW n \in InsertLen, ArrayPush(r, n) PROVE Lengthens(r, n)
  <2> DEFINE e == Push(d, r, Array, Values(n))
  <2>1. Inserts(r, e, Newest(e, n), n) /\ n \in Nat
    BY <1>2, <1>4 DEF ArrayPush
  <2>2. typed + n <= MaxChars
    BY <2>1 DEF Inserts
  <2>3. Values(n) \in Seq(1 .. MaxChars) /\ Len(Values(n)) = n
    BY <2>1, <2>2, EditedValues
  <2>4. \E at : Lays(d, e, r, Array, at, Values(n), n)
    <3> HIDE DEF d
    <3>1. Lays(d, Push(d, r, Array, Values(n)), r, Array, Len(Row(d, Array)), Values(n), Len(Values(n)))
      BY <1>1, <2>3, PushLays
    <3>2. QED
      BY <2>3, <3>1
  <2> HIDE DEF e
  <2>5. Newest(e, n) = LastRefs(doc[r], n)
    BY <2>1, <2>2, <2>4, EditedValues DEF Lays
  <2>6. QED
    BY <2>1, <2>4, <2>5 DEF Lengthens
<1>5. ASSUME NEW n \in InsertLen, NEW i \in Indexes(r), ArrayInsertAt(r, i, n) PROVE Lengthens(r, n)
  <2> DEFINE e == ArrayInsert(d, r, Array, i, Values(n))
  <2>1. Inserts(r, e, Newest(e, n), n) /\ n \in Nat
    BY <1>2, <1>5 DEF ArrayInsertAt
  <2>2. typed + n <= MaxChars
    BY <2>1 DEF Inserts
  <2>3. Values(n) \in Seq(1 .. MaxChars) /\ Len(Values(n)) = n
    BY <2>1, <2>2, EditedValues
  <2>4. \E at : Lays(d, e, r, Array, at, Values(n), n)
    <3> HIDE DEF d
    <3>1. \E at \in Nat : /\ Divides(d, Array, at, Capped(i, Len(live(d, Array))))
                          /\ Lays(d, ArrayInsert(d, r, Array, i, Values(n)), r, Array, at, Values(n), Len(Values(n)))
      BY <1>1, <1>3, <2>3, ArrayInsertLays
    <3>2. QED
      BY <2>3, <3>1
  <2> HIDE DEF e
  <2>5. Newest(e, n) = LastRefs(doc[r], n)
    BY <2>1, <2>2, <2>4, EditedValues DEF Lays
  <2>6. QED
    BY <2>1, <2>4, <2>5 DEF Lengthens
<1>6. ASSUME NEW n \in DeleteLen, NEW i \in Indexes(r), ArrayDeleteAt(r, i, n) PROVE Shortens(r)
  <2>1. Cuts(d, ArrayDelete(d, Array, i, n))
    <3> HIDE DEF d
    <3> QED BY <1>1, <1>2, <1>3, ArrayDeleteCuts
  <2>2. Deletes(r, ArrayDelete(d, Array, i, n))
    BY <1>6 DEF ArrayDeleteAt
  <2>3. QED
    BY <2>1, <2>2 DEF Shortens
<1>7. ASSUME NEW key \in Key, MapSet(r, key) PROVE Assigns(r, key)
  <2> DEFINE e == Set(d, r, key, typed + 1)
  <2>1. Inserts(r, e, Newest(e, 1), 1)
    BY <1>7 DEF MapSet
  <2>2. typed + 1 <= MaxChars
    BY <2>1 DEF Inserts
  <2>3. typed + 1 \in 1 .. MaxChars
    BY <2>2, BoundAssumption DEF Inv, Shape
  <2>4. Sets(d, e, r, key)
    <3> DEFINE v == typed + 1
    <3> HIDE DEF d, v
    <3>1. Sets(d, Set(d, r, key, v), r, key)
      BY <1>1, <2>3, SetSets DEF v
    <3>2. QED
      BY <3>1 DEF v
  <2> HIDE DEF e
  <2>5. Newest(e, 1) = LastRefs(doc[r], 1)
    BY <2>2, <2>4, EditedValues DEF Sets, Edits
  <2>6. QED
    BY <2>1, <2>4, <2>5 DEF Assigns
<1>8. ASSUME NEW key \in Key, MapDeleteKey(r, key) PROVE Shortens(r)
  <2>1. Cuts(d, MapDelete(d, key))
    <3> HIDE DEF d
    <3> QED BY <1>1, MapDeleteCuts
  <2>2. Deletes(r, MapDelete(d, key))
    BY <1>8 DEF MapDeleteKey
  <2>3. QED
    BY <2>1, <2>2 DEF Shortens
<1>9. QED
  BY <1>4, <1>5, <1>6, <1>7, <1>8

\* The steps.
LEMMA StepMeans ==
  ASSUME Inv, [Next]_vars
  PROVE  \/ \E r \in Client : (\E n : Lengthens(r, n)) \/ (\E key \in Key : Assigns(r, key)) \/ Shortens(r)
         \/ Exchange
         \/ UNCHANGED vars
<1>1. ASSUME NEW r \in Client, NEW n \in InsertLen, ArrayPush(r, n) PROVE Lengthens(r, n)
  BY <1>1, EditsMean
<1>2. ASSUME NEW r \in Client, NEW n \in InsertLen, NEW i \in Indexes(r), ArrayInsertAt(r, i, n)
      PROVE  Lengthens(r, n)
  BY <1>2, EditsMean
<1>3. ASSUME NEW r \in Client, NEW n \in DeleteLen, NEW i \in Indexes(r), ArrayDeleteAt(r, i, n)
      PROVE  Shortens(r)
  BY <1>3, EditsMean
<1>4. ASSUME NEW r \in Client, NEW key \in Key, MapSet(r, key) PROVE Assigns(r, key)
  BY <1>4, EditsMean
<1>5. ASSUME NEW r \in Client, NEW key \in Key, MapDeleteKey(r, key) PROVE Shortens(r)
  BY <1>5, EditsMean
<1>6. QED
  BY <1>1, <1>2, <1>3, <1>4, <1>5 DEF Next

\* The edits are edits of the lists that are edited.
LEMMA EditsEdit ==
  ASSUME NEW d, NEW e, NEW c \in Client
  PROVE  /\ \A at, values, n : Lays(d, e, c, Array, at, values, n) => Edits(d, e, c, Edited, n)
         /\ \A key \in Key : Sets(d, e, c, key) => Edits(d, e, c, Edited, 1)
BY DEF Lays, Sets, Edits, Edited

\* Every step keeps the peers consistent.
LEMMA StepInv == Inv /\ [Next]_vars => Inv'
<1> SUFFICES ASSUME Inv, [Next]_vars PROVE Inv'
  OBVIOUS
<1>1. ASSUME NEW r \in Client, NEW n, Lengthens(r, n) PROVE Inv'
  BY <1>1, InsertsKeep DEF Lengthens, Lays
<1>2. ASSUME NEW r \in Client, NEW key \in Key, Assigns(r, key) PROVE Inv'
  BY <1>2, InsertsKeep DEF Assigns, Sets, Edits
<1>3. ASSUME NEW r \in Client, Shortens(r) PROVE Inv'
  BY <1>3, DeletesKeep DEF Shortens
<1>4. ASSUME NEW r \in Client, Commit(r) PROVE Inv'
  BY <1>4, ValueAssumption, CommitKeeps
<1>5. ASSUME NEW r \in Client, NEW s \in Client, NEW k \in DOMAIN announced[s], Deliver(r, s, k) PROVE Inv'
  BY <1>5, DeliverKeeps
<1>6. ASSUME NEW r \in Client, NEW s \in Client, Sync(r, s) PROVE Inv'
  BY <1>6, ValueAssumption, SyncKeeps
<1>7. CASE UNCHANGED vars
  BY <1>7 DEF vars, Inv, Shape
<1>8. QED
  BY <1>1, <1>2, <1>3, <1>4, <1>5, <1>6, <1>7, StepMeans DEF Exchange

\* The peers are consistent: the documents of all peers are sound and agree, every
\* update says what its peer holds, and what a peer holds and deletes is what it
\* received and edited (Transact, ApplyUpdate, the edits of Array and Map).
THEOREM Consistency == Spec => []Inv
<1>1. Init => Inv
  BY InitInv
<1>2. Inv /\ [Next]_vars => Inv'
  BY StepInv
<1>3. QED
  BY <1>1, <1>2, PTL DEF Spec

-----------------------------------------------------------------------------
(***************************************************************************)
(* What the invariant says of the peers.                                   *)
(***************************************************************************)
\* Pointers stay in the heap, and every item is in the slice of its client.
THEOREM CollectionTypes == Spec => []TypeOK
  BY InvTypes, Consistency, PTL

\* An ID names one character in all documents: two items with a common character are
\* one item or, at two peers, say the same.
THEOREM CollectionIds == Spec => []IdNamesOneChar
  BY InvIds, Consistency, PTL

\* A peer's store is the updates it applied, whatever their order and number: what they
\* insert, and alive, unless it is the value of a key, what none of them deletes.
THEOREM CollectionStore == Spec => []StoreIsTheUpdateSet
  BY InvStore, Consistency, PTL

\* After an exchange of states a peer stores all that the one that answered stores.
THEOREM CollectionCatchesUp == Spec => SyncCatchesUp
<1>1. Inv /\ [Next]_vars => [syncs' > syncs =>
          \A r, s \in Client : Stored(doc[s]) \subseteq Stored(doc'[r]) \/ ~Sync(r, s)]_vars
  BY ValueAssumption, InvCatchesUp
<1>2. QED
  BY <1>1, Consistency, PTL DEF Spec, SyncCatchesUp

\* Each edit of the Array splices into or cuts from the visible values at the index it is
\* given, in the document as it is at that moment: tombstones and what other peers put
\* around it do not shift it (Array.Push, Array.Insert, Array.Delete, findItemAtIndex).
THEOREM CollectionEdits == Spec => EditsHitTheirIndex
<1>1. ASSUME Inv, NEW r \in Client
      PROVE  /\ \A n \in InsertLen :
                   /\ ArrayPush(r, n) => Buffer(r)!InsertAt(textLen(doc[r], Array), Values(n))
                   /\ \A i \in Indexes(r) :
                         ArrayInsertAt(r, i, n) => Buffer(r)!InsertAt(i, Values(n))
             /\ \A n \in DeleteLen, i \in Indexes(r) :
                   ArrayDeleteAt(r, i, n) => Buffer(r)!CutAt(i, n)
  <2> DEFINE v == visible(doc[r], Array)
             w == visible(doc'[r], Array)
  <2>1. textLen(doc[r], Array) = Len(v) /\ Len(v) \in Nat
    BY <1>1, SettledSound, ArrayAssumption, textLenCounts, visibleCounts DEF Inv
  <2>2. Capped(Len(v), Len(v)) = Len(v)
    BY DEF Capped
  <2>3. ASSUME NEW i, NEW m, w = PutAt(v, Capped(i, Len(v)), m) PROVE Buffer(r)!InsertAt(i, m)
    BY <2>3 DEF Buffer!InsertAt, Buffer!Least, PutAt, Capped
  <2>4. ASSUME NEW i, NEW n, w = CutOut(v, Capped(i, Len(v)), i + n) PROVE Buffer(r)!CutAt(i, n)
    BY <2>4 DEF Buffer!CutAt, Buffer!Least, CutOut, Capped
  <2>5. ASSUME NEW n \in InsertLen, ArrayPush(r, n)
        PROVE  Buffer(r)!InsertAt(textLen(doc[r], Array), Values(n))
    <3>1. w = PutAt(v, Len(v), Values(n))
      BY <1>1, <2>5, EditsShow
    <3>2. w = PutAt(v, Capped(Len(v), Len(v)), Values(n))
      BY <2>2, <3>1
    <3>3. Buffer(r)!InsertAt(Len(v), Values(n))
      BY <2>3, <3>2
    <3>4. QED
      BY <2>1, <3>3
  <2>6. ASSUME NEW n \in InsertLen, NEW i \in Indexes(r), ArrayInsertAt(r, i, n)
        PROVE  Buffer(r)!InsertAt(i, Values(n))
    <3>1. w = PutAt(v, Capped(i, Len(v)), Values(n))
      BY <1>1, <2>6, EditsShow
    <3>2. QED
      BY <2>3, <3>1
  <2>7. ASSUME NEW n \in DeleteLen, NEW i \in Indexes(r), ArrayDeleteAt(r, i, n)
        PROVE  Buffer(r)!CutAt(i, n)
    <3>1. w = CutOut(v, Capped(i, Len(v)), i + n)
      BY <1>1, <2>7, EditsShow
    <3>2. QED
      BY <2>4, <3>1
  <2>8. QED
    BY <2>5, <2>6, <2>7
<1>2. Inv =>
         [\A r \in Client :
             /\ \A n \in InsertLen :
                   /\ ArrayPush(r, n) => Buffer(r)!InsertAt(textLen(doc[r], Array), Values(n))
                   /\ \A i \in Indexes(r) :
                         ArrayInsertAt(r, i, n) => Buffer(r)!InsertAt(i, Values(n))
             /\ \A n \in DeleteLen, i \in Indexes(r) :
                   ArrayDeleteAt(r, i, n) => Buffer(r)!CutAt(i, n)]_vars
  BY <1>1
<1>3. QED
  BY <1>2, Consistency, PTL DEF EditsHitTheirIndex

-----------------------------------------------------------------------------
(***************************************************************************)
(* The order of the Array, and the value of a key.                         *)
(***************************************************************************)
\* The peers are consistent, and items are where they belong.
Placed ==
    /\ Inv
    /\ Arranged(doc, announced, Edited)
    /\ Causes(doc, announced, syncs, causal)

\* What a step may do to the document of q.
Moves(q) ==
    \/ doc'[q] = doc[q]
    \/ tx'[q] # tx[q] /\ Broadens(doc[q], doc'[q])
    \/ /\ Orders(doc[q], doc'[q], ListAt(doc))
       /\ \A k \in Refs(doc[q]) : doc[q].heap[k].deleted => doc'[q].heap[k].deleted

\* An edit counts.
LEMMA EditsCount ==
  ASSUME Inv, NEW r \in Client
  PROVE  /\ \A d, refs, n : Inserts(r, d, refs, n) => tx'[r] # tx[r]
         /\ \A result : Deletes(r, result) => tx'[r] # tx[r]
<1>1. tx[r] \in TxType /\ tx[r].ops \in 0 .. MaxOps /\ MaxOps \in Nat
  BY BoundAssumption, TxFields DEF Inv
<1>2. tx[r].ops + 1 # tx[r].ops
  BY <1>1
<1>3. ASSUME NEW d, NEW refs, NEW n, Inserts(r, d, refs, n) PROVE tx'[r] # tx[r]
  <2>1. tx'[r].ops = tx[r].ops + 1
    <3> DEFINE old == tx[r]
               items == old.items \o refs
    <3>1. tx'[r] = [old EXCEPT !.open = TRUE, !.ops = @ + 1, !.items = items]
      BY <1>3 DEF Inserts, Inv, Shape
    <3> HIDE DEF old, items
    <3>2. old \in TxType
      BY <1>1 DEF old
    <3>3. QED
      BY <3>1, <3>2 DEF TxType, old
  <2>2. QED
    BY <1>2, <2>1
<1>4. ASSUME NEW result, Deletes(r, result) PROVE tx'[r] # tx[r]
  <2>1. tx'[r].ops = tx[r].ops + 1
    <3> DEFINE old == tx[r]
               dels == old.dels \o result.dels
    <3>1. tx'[r] = [old EXCEPT !.open = TRUE, !.ops = @ + 1, !.dels = dels]
      BY <1>4 DEF Deletes, Inv, Shape
    <3> HIDE DEF old, dels
    <3>2. old \in TxType
      BY <1>1 DEF old
    <3>3. QED
      BY <3>1, <3>2 DEF TxType, old
  <2>2. QED
    BY <1>2, <2>1
<1>5. QED
  BY <1>3, <1>4

\* At first there are no items.
LEMMA InitPlaced == Init => Placed
  BY InitInv, InitArranged, InitCauses DEF Placed

\* Every step leaves items where they belong.
LEMMA StepPlaced ==
  ASSUME Placed, [Next]_vars
  PROVE  Placed' /\ \A q \in Client : Moves(q)
<1>1. Inv /\ Inv' /\ Arranged(doc, announced, Edited) /\ Causes(doc, announced, syncs, causal)
  BY StepInv DEF Placed
<1>2. Edited \subseteq List /\ WideChar = {}
  BY ArrayAssumption, ListAssumption, ValueAssumption DEF Edited
<1>3. ASSUME NEW r \in Client, NEW n, Lengthens(r, n) PROVE Placed' /\ \A q \in Client : Moves(q)
  <2>1. PICK d, at : /\ n \in Nat /\ Lays(doc[r], d, r, Array, at, Values(n), n)
                     /\ Inserts(r, d, LastRefs(doc[r], n), n)
    BY <1>3 DEF Lengthens
  <2>2. Edits(doc[r], d, r, Edited, n)
    BY <2>1, EditsEdit
  <2>3. /\ Arranged(doc', announced', Edited) /\ doc'[r] = d /\ Broadens(doc[r], d)
        /\ \A q \in Client \ {r} : doc'[q] = doc[q]
    BY <1>1, <2>1, <2>2, InsertsArrange
  <2>4. Causes(doc', announced', syncs', causal')
    BY <1>1, <1>2, <2>1, <2>2, InsertsCause
  <2>5. QED
    BY <1>1, <2>1, <2>3, <2>4, EditsCount DEF Placed, Moves
<1>4. ASSUME NEW r \in Client, NEW key \in Key, Assigns(r, key) PROVE Placed' /\ \A q \in Client : Moves(q)
  <2>1. PICK d : /\ Sets(doc[r], d, r, key)
                 /\ Inserts(r, d, LastRefs(doc[r], 1), 1)
    BY <1>4 DEF Assigns
  <2>2. Edits(doc[r], d, r, Edited, 1)
    BY <2>1, EditsEdit
  <2>3. /\ Arranged(doc', announced', Edited) /\ doc'[r] = d /\ Broadens(doc[r], d)
        /\ \A q \in Client \ {r} : doc'[q] = doc[q]
    BY <1>1, <2>1, <2>2, InsertsArrange
  <2>4. Causes(doc', announced', syncs', causal')
    BY <1>1, <1>2, <2>1, <2>2, InsertsCause
  <2>5. QED
    BY <1>1, <2>1, <2>3, <2>4, EditsCount DEF Placed, Moves
<1>5. ASSUME NEW r \in Client, Shortens(r) PROVE Placed' /\ \A q \in Client : Moves(q)
  <2>1. PICK result : Cuts(doc[r], result) /\ Deletes(r, result)
    BY <1>5 DEF Shortens
  <2>2. /\ Arranged(doc', announced', Edited) /\ Orders(doc[r], doc'[r], ListAt(doc))
        /\ \A q \in Client \ {r} : doc'[q] = doc[q]
    BY <1>1, <2>1, DeletesArrange
  <2>3. Causes(doc', announced', syncs', causal')
    BY <1>1, <2>1, DeletesCause
  <2>4. \A k \in Refs(doc[r]) : doc[r].heap[k].deleted => doc'[r].heap[k].deleted
    BY <1>1, <2>1, DeletesArrange DEF Cuts
  <2>5. QED
    BY <1>1, <2>2, <2>3, <2>4 DEF Placed, Moves
<1>6. ASSUME NEW r \in Client, Commit(r) PROVE Placed' /\ \A q \in Client : Moves(q)
  BY <1>1, <1>2, <1>6, CommitArranges, CommitCauses DEF Placed, Moves
<1>7. ASSUME NEW r \in Client, NEW s \in Client, NEW k \in DOMAIN announced[s], Deliver(r, s, k)
      PROVE  Placed' /\ \A q \in Client : Moves(q)
  <2>1. /\ Arranged(doc', announced', Edited) /\ Orders(doc[r], doc'[r], ListAt(doc))
        /\ \A q \in Client \ {r} : doc'[q] = doc[q]
    BY <1>1, <1>2, <1>7, DeliverArranges
  <2>2. Causes(doc', announced', syncs', causal')
    BY <1>1, <1>2, <1>7, DeliverCauses
  <2>3. \A i \in Refs(doc[r]) : doc[r].heap[i].deleted => doc'[r].heap[i].deleted
    <3>1. Updated(doc[r], doc'[r], announced[s][k].update)
      BY <1>1, <1>7, DeliverUpdates
    <3>2. \A i \in Refs(doc[r]) : i \in Refs(doc'[r])
      BY <1>1, <2>1, SettledSound DEF Orders, Extends, Refs, Inv
    <3>3. QED
      BY <3>1, <3>2 DEF Updated
  <2>4. QED
    BY <1>1, <2>1, <2>2, <2>3 DEF Placed, Moves
<1>8. ASSUME NEW r \in Client, NEW s \in Client, Sync(r, s) PROVE Placed' /\ \A q \in Client : Moves(q)
  <2>1. /\ Arranged(doc', announced', Edited) /\ Orders(doc[r], doc'[r], ListAt(doc))
        /\ \A q \in Client \ {r} : doc'[q] = doc[q]
    BY <1>1, <1>2, <1>8, SyncArranges
  <2>2. Causes(doc', announced', syncs', causal')
    BY <1>1, <1>2, <1>8, SyncCauses
  <2>3. \A i \in Refs(doc[r]) : doc[r].heap[i].deleted => doc'[r].heap[i].deleted
    <3>1. PICK u : Updated(doc[r], doc'[r], u)
      BY <1>1, <1>2, <1>8, SyncBrings
    <3>2. \A i \in Refs(doc[r]) : i \in Refs(doc'[r])
      BY <1>1, <2>1, SettledSound DEF Orders, Extends, Refs, Inv
    <3>3. QED
      BY <3>1, <3>2 DEF Updated
  <2>4. QED
    BY <1>1, <2>1, <2>2, <2>3 DEF Placed, Moves
<1>9. CASE UNCHANGED vars
  <2>1. UNCHANGED <<doc, announced, syncs, causal>>
    BY <1>9 DEF vars
  <2>2. QED
    BY <1>1, <2>1 DEF Placed, Moves
<1>10. QED
  BY <1>1, <1>3, <1>4, <1>5, <1>6, <1>7, <1>8, <1>9, StepMeans DEF Exchange

\* Items are where they belong: in the Array to the right of what they were put after,
\* and in the list they were put in by whoever put them there.
THEOREM Placement == Spec => []Placed
<1>1. Init => Placed
  BY InitPlaced
<1>2. Placed /\ [Next]_vars => Placed'
  BY StepPlaced
<1>3. QED
  BY <1>1, <1>2, PTL DEF Spec

\* No step takes an item out of the Array of any peer, or changes the order of two of
\* its items.
THEOREM CollectionOrder == Spec => OrderIsStable
<1>1. ASSUME Placed, [Next]_vars, NEW r \in Client
      PROVE  \/ doc[r] = doc'[r]
             \/ Order(doc[r]) = Among(Order(doc'[r]), Range(Order(doc[r])))
  <2>1. Placed' /\ Moves(r)
    BY <1>1, StepPlaced
  <2>2. Sound(doc[r]) /\ Sound(doc'[r])
    BY <1>1, <2>1, SettledSound DEF Placed, Inv
  <2>3. doc[r] = doc'[r] \/ Broadens(doc[r], doc'[r])
    BY <2>1 DEF Moves, Orders
  <2>4. ASSUME Broadens(doc[r], doc'[r])
        PROVE  Row(doc[r], Array) = Among(Row(doc'[r], Array), Range(Row(doc[r], Array)))
    BY <2>2, <2>4, ArrayAssumption, BroadensSelects
  <2>5. QED
    BY <2>3, <2>4 DEF Row, Order
<1>2. Placed /\ [Next]_vars =>
         [\A r \in Client :
             \/ doc[r] = doc'[r]
             \/ Order(doc[r]) = Among(Order(doc'[r]), Range(Order(doc[r])))]_vars
  BY <1>1
<1>3. QED
  BY <1>2, Placement, PTL DEF Spec, OrderIsStable

\* Where updates come in causal order the Array has every item, each once and to the
\* right of the item it was put after.
THEOREM CollectionHasAll == Spec => []NoItemLost
<1>1. ASSUME Placed, causal /\ syncs = 0, NEW r \in Client
      PROVE  LET d    == doc[r]
                 refs == Order(d)
                 At(id) == CHOOSE k \in DOMAIN refs : d.heap[refs[k]].id = id
             IN  /\ IsInjective(refs)
                 /\ Range(refs) = { k \in DOMAIN d.heap : d.heap[k].list \notin Key }
                 /\ \A k \in DOMAIN refs :
                       LET origin == d.heap[refs[k]].oleft
                       IN  origin = NoID \/ At(origin) < k
  <2>1. Sound(doc[r]) /\ Ordered(doc[r])
    BY <1>1, SettledSound DEF Placed, Inv, Arranged
  <2>2. AllIn(doc[r])
    BY <1>1 DEF Placed, Causes
  <2>3. \A k \in Refs(doc[r]) : doc[r].heap[k].list \in Edited
    BY <1>1, <2>2, ListsEdited DEF Placed, Inv, AllIn
  <2>4. \A k \in Refs(doc[r]) : doc[r].heap[k].list \notin Key => doc[r].heap[k].list = Array
    BY <2>3 DEF Edited
  <2> DEFINE d == doc[r]
  <2> HIDE DEF d
  <2>5. LET refs == Row(d, Array)
            At(id) == CHOOSE k \in DOMAIN refs : d.heap[refs[k]].id = id
        IN  /\ IsInjective(refs)
            /\ Range(refs) = { k \in DOMAIN d.heap : d.heap[k].list \notin Key }
            /\ \A k \in DOMAIN refs :
                  LET origin == d.heap[refs[k]].oleft
                  IN  origin = NoID \/ At(origin) < k
    BY <2>1, <2>4, ArrayAssumption, WholeRow DEF d
  <2>6. QED
    BY <2>5 DEF Row, Order, d
<1>2. Placed => NoItemLost
  BY <1>1 DEF NoItemLost
<1>3. QED
  BY <1>2, Placement, PTL

\* What comes from others changes the value of a key only for one with a higher ID, or
\* because it is deleted; a deleted value does not come back.
THEOREM CollectionSetsRise == Spec => RemoteSetsAreHigher
<1>1. ASSUME Placed, [Next]_vars, NEW r \in Client, NEW key \in Key
      PROVE  \/ Get(doc'[r], key) = Get(doc[r], key)
             \/ tx[r] # tx'[r]
             \/ LET old == doc[r].heap[doc[r].start[key]]
                    new == doc'[r].heap[doc'[r].start[key]]
                IN  \/ new.deleted
                    \/ doc[r].start[key] = Nil
                    \/ compareIDs(new.id, old.id)
  <2> DEFINE d == doc[r]
             e == doc'[r]
  <2>1. Sound(d) /\ Moves(r)
    BY <1>1, StepPlaced, SettledSound DEF Placed, Inv
  <2>2. CASE d = e
    BY <2>2
  <2>3. CASE tx[r] # tx'[r]
    BY <2>3
  <2>4. CASE /\ Orders(d, e, ListAt(doc))
             /\ \A k \in Refs(d) : d.heap[k].deleted => e.heap[k].deleted
    <3> HIDE DEF d, e
    <3>1. Rises(d, e, key) /\ Extends(d, e)
      BY <2>4 DEF Orders
    <3>2. CASE d.start[key] = Nil
      BY <3>2 DEF d
    <3>3. CASE d.start[key] # Nil /\ e.start[key] = d.start[key]
      <4> DEFINE k == d.start[key]
      <4>1. k \in Refs(d)
        BY <2>1, <3>3, ListAssumption, IdsOf
      <4>2. e.heap[k].str = d.heap[k].str /\ (d.heap[k].deleted => e.heap[k].deleted)
        BY <2>4, <3>1, <4>1 DEF Extends, SameItem
      <4>3. e.heap[e.start[key]].deleted \/ Get(e, key) = Get(d, key)
        BY <3>3, <4>2 DEF Get
      <4>4. QED
        BY <4>3 DEF d, e
    <3>4. CASE d.start[key] # Nil /\ e.start[key] # d.start[key]
      <4>1. compareIDs(e.heap[e.start[key]].id, d.heap[d.start[key]].id)
        BY <3>1, <3>4 DEF Rises
      <4>2. QED
        BY <4>1 DEF d, e
    <3>5. QED
      BY <3>2, <3>3, <3>4
  <2>5. QED
    BY <2>1, <2>2, <2>3, <2>4 DEF Moves
<1>2. Placed /\ [Next]_vars =>
         [\A r \in Client, key \in Key :
             \/ Get(doc'[r], key) = Get(doc[r], key)
             \/ tx[r] # tx'[r]
             \/ LET old == doc[r].heap[doc[r].start[key]]
                    new == doc'[r].heap[doc'[r].start[key]]
                IN  \/ new.deleted
                    \/ doc[r].start[key] = Nil
                    \/ compareIDs(new.id, old.id)]_vars
  BY <1>1
<1>3. QED
  BY <1>2, Placement, PTL DEF Spec, RemoteSetsAreHigher

-----------------------------------------------------------------------------
(***************************************************************************)
(* Peers that do not set a key themselves.                                 *)
(***************************************************************************)
\* All that is held of the key is from others.
ByOthers(d, r, key) == \A k \in OfList(d, key) : d.heap[k].id.client # r

\* A peer that does not set the key has the highest of its items first, and only items
\* of it deleted that someone dropped.
ReadsKey(D, T, A, G, r, key) ==
    ByOthers(D[r], r, key) =>
        /\ Topped(D[r], key)
        /\ \A k \in OfList(D[r], key) :
              D[r].heap[k].deleted => D[r].heap[k].id \in Dropped(D, T, A, G, r)

\* What a step must do to keep that.
LEMMA ReadsStay ==
  ASSUME NEW D, NEW T, NEW A, NEW G, NEW r \in Client, NEW key \in Key, ReadsKey(D, T, A, G, r, key),
         NEW E, Sound(D[r]), Sound(E[r]), Extends(D[r], E[r]), NEW U, NEW B, NEW H,
         Dropped(D, T, A, G, r) \subseteq Dropped(E, U, B, H, r),
         ByOthers(E[r], r, key) =>
             /\ Topped(D[r], key) => Topped(E[r], key)
             /\ \A k \in OfList(E[r], key) : E[r].heap[k].deleted =>
                   \/ k \in Refs(D[r]) /\ D[r].heap[k].deleted
                   \/ E[r].heap[k].id \in Dropped(E, U, B, H, r)
  PROVE  ReadsKey(E, U, B, H, r, key)
<1> DEFINE d == D[r]
           e == E[r]
<1> SUFFICES ASSUME ByOthers(e, r, key)
             PROVE  /\ Topped(e, key)
                    /\ \A k \in OfList(e, key) :
                          e.heap[k].deleted => e.heap[k].id \in Dropped(E, U, B, H, r)
  BY DEF ReadsKey
<1> HIDE DEF d, e
<1>1. \A k \in Refs(d) : k \in Refs(e) /\ SameItem(e.heap[k], d.heap[k])
  <2>1. Len(d.heap) \in Nat /\ Len(e.heap) \in Nat
    BY DocFields DEF Sound, Whole, d, e
  <2>2. QED
    BY <2>1 DEF Extends, Refs, d, e
<1>2. ByOthers(d, r, key)
  BY <1>1 DEF ByOthers, OfList, SameItem
<1>3. /\ Topped(d, key)
      /\ \A k \in OfList(d, key) : d.heap[k].deleted => d.heap[k].id \in Dropped(D, T, A, G, r)
  BY <1>2 DEF ReadsKey, d
<1>4. ASSUME NEW k \in OfList(e, key), e.heap[k].deleted
      PROVE  e.heap[k].id \in Dropped(E, U, B, H, r)
  <2>1. CASE k \in Refs(d) /\ d.heap[k].deleted
    <3>1. k \in OfList(d, key) /\ d.heap[k].id = e.heap[k].id
      BY <1>1, <2>1 DEF OfList, SameItem
    <3>2. QED
      BY <1>3, <2>1, <3>1
  <2>2. QED
    BY <1>4, <2>1 DEF d, e
<1>5. QED
  BY <1>3, <1>4 DEF d, e

\* All peers, all keys.
Reads == \A r \in Client : \A key \in Key : ReadsKey(doc, tx, announced, got, r, key)

\* Nobody has set a key at first.
LEMMA InitReads == Init => Reads
<1> SUFFICES ASSUME Init, NEW r \in Client, NEW key \in Key PROVE ReadsKey(doc, tx, announced, got, r, key)
  BY DEF Reads
<1>1. doc[r] = EmptyDoc
  BY DEF Init
<1>2. OfList(doc[r], key) = {}
  BY <1>1, EmptySound DEF OfList
<1>3. QED
  BY <1>2 DEF ReadsKey, Topped

\* A peer that the step is not about.
LEMMA OthersRead ==
  ASSUME Inv, Reads, NEW q \in Client, NEW key \in Key, doc'[q] = doc[q], tx'[q] = tx[q],
         \A s \in Client : \A h \in got[q][s] : h \in got'[q][s] /\ announced'[s][h].update = announced[s][h].update
  PROVE  ReadsKey(doc', tx', announced', got', q, key)
<1>1. Sound(doc[q]) /\ tx[q].dels \in Seq(Refs(doc[q]))
  BY SettledSound DEF Inv, Consistent, Settled, Opened
<1>2. Extends(doc[q], doc'[q])
  BY <1>1, DocFields DEF Extends, SameItem, Sound, Whole
<1>3. Dropped(doc, tx, announced, got, q) \subseteq Dropped(doc', tx', announced', got', q)
  BY <1>1, <1>2, DroppedStays
<1>4. ReadsKey(doc, tx, announced, got, q, key)
  BY DEF Reads
<1>5. QED
  BY <1>1, <1>2, <1>3, <1>4, ReadsStay DEF OfList

\* An edit that inserts elsewhere is no matter to a key; one that sets it makes it the
\* peer's own.
LEMMA InsertsRead ==
  ASSUME Inv, Inv', Reads, NEW r \in Client, NEW n \in Nat, NEW d, Typed(doc[r], d, r, n),
         NEW refs, Inserts(r, d, refs, n), NEW key \in Key,
         ByOthers(d, r, key) =>
             /\ d.start[key] = doc[r].start[key]
             /\ OfList(d, key) \subseteq OfList(doc[r], key)
             /\ \A k \in OfList(d, key) : d.heap[k].deleted => doc[r].heap[k].deleted,
         NEW q \in Client
  PROVE  ReadsKey(doc', tx', announced', got', q, key)
<1>1. /\ doc'[r] = d /\ tx'[r].dels = tx[r].dels
      /\ \A p \in Client \ {r} : doc'[p] = doc[p] /\ tx'[p] = tx[p]
      /\ announced' = announced /\ got' = got
  BY InsertsLeaves
<1>2. CASE q # r
  BY <1>1, <1>2, OthersRead
<1>3. CASE q = r
  <2>1. Sound(doc[r]) /\ Sound(doc'[r]) /\ tx[r].dels \in Seq(Refs(doc[r])) /\ Extends(doc[r], doc'[r])
    BY <1>1, SettledSound DEF Inv, Consistent, Settled, Opened, Typed
  <2>2. Dropped(doc, tx, announced, got, r) \subseteq Dropped(doc', tx', announced', got', r)
    BY <1>1, <2>1, DroppedStays
  <2>3. ReadsKey(doc, tx, announced, got, r, key)
    BY DEF Reads
  <2>4. ASSUME ByOthers(doc'[r], r, key)
        PROVE  /\ Topped(doc[r], key) => Topped(doc'[r], key)
               /\ \A k \in OfList(doc'[r], key) : doc'[r].heap[k].deleted =>
                     k \in Refs(doc[r]) /\ doc[r].heap[k].deleted
    <3>1. /\ doc'[r].start[key] = doc[r].start[key]
          /\ OfList(doc'[r], key) \subseteq OfList(doc[r], key)
          /\ \A k \in OfList(doc'[r], key) : doc'[r].heap[k].deleted => doc[r].heap[k].deleted
      BY <1>1, <2>4
    <3>2. Topped(doc[r], key) => Topped(doc'[r], key)
      BY <2>1, <3>1, ToppedStays
    <3>3. \A k \in OfList(doc'[r], key) : k \in Refs(doc[r])
      BY <3>1 DEF OfList
    <3>4. QED
      BY <3>1, <3>2, <3>3
  <2>5. QED
    BY <1>3, <2>1, <2>2, <2>3, <2>4, ReadsStay
<1>4. QED
  BY <1>2, <1>3

\* Values that are put into the Array are in no key.
LEMMA LengthenReads ==
  ASSUME Inv, Inv', Reads, NEW r \in Client, NEW n, Lengthens(r, n), NEW q \in Client, NEW key \in Key
  PROVE  ReadsKey(doc', tx', announced', got', q, key)
<1>1. PICK d, at : /\ n \in Nat /\ Lays(doc[r], d, r, Array, at, Values(n), n)
                   /\ Inserts(r, d, LastRefs(doc[r], n), n)
  BY DEF Lengthens
<1>2. key \in List \ {Array} /\ key # Array
  BY ArrayAssumption, ListAssumption
<1>3. Sound(doc[r]) /\ Typed(doc[r], d, r, n) /\ Spares(doc[r], d, n)
  BY <1>1, SettledSound DEF Lays, Inv
<1>4. d.start[key] = doc[r].start[key]
  BY <1>1, <1>2 DEF Lays
<1>5. ASSUME NEW k \in OfList(d, key) PROVE k \in OfList(doc[r], key)
  <2>1. k \in Refs(d) /\ d.heap[k].list = key
    BY <1>5 DEF OfList
  <2>2. CASE k \in Refs(doc[r])
    BY <1>3, <2>1, <2>2 DEF OfList, Typed, Extends, SameItem
  <2>3. CASE \E i \in 1 .. n : k = Len(doc[r].heap) + i
    BY <1>1, <1>2, <2>1, <2>3 DEF Lays
  <2>4. OldAndNew(doc[r], d, n)
    BY <1>1, <1>3, OldOrNew
  <2>5. QED
    BY <2>1, <2>2, <2>3, <2>4 DEF OldAndNew
<1>6. \A k \in OfList(d, key) : d.heap[k].deleted => doc[r].heap[k].deleted
  BY <1>3, <1>5 DEF Spares, OfList
<1>7. QED
  BY <1>1, <1>3, <1>4, <1>5, <1>6, InsertsRead

\* A value that is set is the peer's own.
LEMMA AssignReads ==
  ASSUME Inv, Inv', Reads, NEW r \in Client, NEW own \in Key, Assigns(r, own), NEW q \in Client, NEW key \in Key
  PROVE  ReadsKey(doc', tx', announced', got', q, key)
<1>1. PICK d : Sets(doc[r], d, r, own) /\ Inserts(r, d, LastRefs(doc[r], 1), 1)
  BY DEF Assigns
<1>2. Sound(doc[r]) /\ Typed(doc[r], d, r, 1) /\ key \in List /\ own \in List
  BY <1>1, SettledSound, ListAssumption DEF Sets, Edits, Inv
<1>3. OldAndNew(doc[r], d, 1)
  BY <1>2, OldOrNew
<1> DEFINE k0 == Len(doc[r].heap) + 1
<1>4. k0 \in Refs(d) /\ d.heap[k0].list = own /\ d.heap[k0].id.client = r
  BY <1>1, <1>2, <1>3 DEF Sets, Edits, OldAndNew, Typed
<1>5. \A k \in Refs(d) : k \in Refs(doc[r]) \/ k = k0
  BY <1>3 DEF OldAndNew
<1> HIDE DEF k0
<1>6. CASE key = own
  <2>1. ~ByOthers(d, r, key)
    BY <1>4, <1>6 DEF ByOthers, OfList
  <2>2. QED
    BY <1>1, <1>2, <2>1, InsertsRead
<1>7. CASE key # own
  <2>1. d.start[key] = doc[r].start[key]
    BY <1>1, <1>2, <1>7 DEF Sets
  <2>2. \A k \in OfList(d, key) : k \in OfList(doc[r], key)
    BY <1>2, <1>4, <1>5, <1>7 DEF OfList, Typed, Extends, SameItem
  <2>3. ASSUME NEW k \in OfList(d, key), d.heap[k].deleted PROVE doc[r].heap[k].deleted
    <3>1. k \in OfList(doc[r], key)
      BY <2>2, <2>3
    <3>2. k # doc[r].start[own]
      <4>1. SUFFICES ASSUME k = doc[r].start[own] PROVE FALSE
        OBVIOUS
      <4>2. k \in Refs(doc[r]) /\ doc[r].heap[k].list = key
        BY <3>1 DEF OfList
      <4>3. doc[r].start[own] # Nil
        BY <4>1, <4>2, NilIsNoRef
      <4>4. QED
        BY <1>2, <1>7, <4>1, <4>2, <4>3, IdsOf DEF OfList
    <3>3. QED
      BY <1>1, <2>3, <3>1, <3>2 DEF Sets, OfList
  <2>4. QED
    BY <1>1, <1>2, <2>1, <2>2, <2>3, InsertsRead
<1>8. QED
  BY <1>6, <1>7

\* An item that is cut is in the transaction.
LEMMA ShortenReads ==
  ASSUME Inv, Inv', Reads, NEW r \in Client, Shortens(r), NEW q \in Client, NEW key \in Key
  PROVE  ReadsKey(doc', tx', announced', got', q, key)
<1>1. PICK result : Cuts(doc[r], result) /\ Deletes(r, result)
  BY DEF Shortens
<1>2. /\ doc'[r] = result.doc /\ tx'[r].dels = tx[r].dels \o result.dels
      /\ \A p \in Client \ {r} : doc'[p] = doc[p] /\ tx'[p] = tx[p]
      /\ announced' = announced /\ got' = got
  BY <1>1, DeletesAdds
<1>3. CASE q # r
  BY <1>2, <1>3, OthersRead
<1>4. CASE q = r
  <2> DEFINE d == doc[r]
             e == doc'[r]
             old == tx[r].dels
             dels == result.dels
             all == tx'[r].dels
  <2>1. Sound(d) /\ Sound(e) /\ old \in Seq(Refs(d)) /\ dels \in Seq(Refs(d))
    BY <1>1, <1>2, SettledSound DEF Inv, Consistent, Settled, Opened, Cuts
  <2>2. /\ Refs(e) = Refs(d) /\ e.start = d.start
        /\ \A k \in Refs(d) : /\ SameItem(e.heap[k], d.heap[k])
                              /\ e.heap[k].deleted <=> \/ d.heap[k].deleted
                                                       \/ \E i \in 1 .. Len(dels) : dels[i] = k
    BY <1>1, <1>2 DEF Cuts, Refs
  <2>3. Extends(d, e)
    <3>1. Len(d.heap) \in Nat /\ Len(e.heap) = Len(d.heap)
      BY <1>1, <1>2, SettledSound DEF Inv, Cuts
    <3>2. QED
      BY <2>2, <3>1 DEF Extends
  <2>4. all = old \o dels
    BY <1>2
  <2>5. /\ \A i \in 1 .. Len(old) : \E j \in 1 .. Len(all) : all[j] = old[i]
        /\ \A i \in 1 .. Len(dels) : \E j \in 1 .. Len(all) : all[j] = dels[i]
    <3> DEFINE R == Refs(d)
    <3>1. old \in Seq(R) /\ dels \in Seq(R) /\ all = old \o dels
      BY <2>1, <2>4
    <3> HIDE DEF R, old, dels, all
    <3>2. Len(old) \in Nat /\ Len(dels) \in Nat /\ Len(all) = Len(old) + Len(dels)
      BY <3>1
    <3>3. \A i \in 1 .. Len(old) : i \in 1 .. Len(all) /\ all[i] = old[i]
      BY <3>1, <3>2
    <3>4. \A i \in 1 .. Len(dels) : Len(old) + i \in 1 .. Len(all) /\ all[Len(old) + i] = dels[i]
      BY <3>1, <3>2
    <3>5. QED
      BY <3>3, <3>4
  <2>6. Dropped(doc, tx, announced, got, r) \subseteq Dropped(doc', tx', announced', got', r)
    BY <1>2, <2>1, <2>3, <2>5, DroppedStays
  <2>7. ReadsKey(doc, tx, announced, got, r, key)
    BY DEF Reads
  <2>8. Topped(d, key) => Topped(e, key)
    BY <2>1, <2>2, <2>3, ToppedStays DEF OfList, SameItem
  <2>9. ASSUME NEW k \in OfList(e, key), e.heap[k].deleted
        PROVE  \/ k \in Refs(d) /\ d.heap[k].deleted
               \/ e.heap[k].id \in Dropped(doc', tx', announced', got', r)
    <3>1. k \in Refs(d) /\ k \in Refs(e)
      BY <2>2, <2>9 DEF OfList
    <3>2. CASE d.heap[k].deleted
      BY <3>1, <3>2
    <3>3. CASE \E i \in 1 .. Len(dels) : dels[i] = k
      <4>1. PICK j \in 1 .. Len(all) : all[j] = k
        BY <2>5, <3>3
      <4>2. e.heap[k].id \in IdType
        BY <2>1, <3>1, IdsOf
      <4>3. QED
        BY <4>1, <4>2 DEF Dropped
    <3>4. QED
      BY <2>2, <2>9, <3>1, <3>2, <3>3
  <2>10. QED
    BY <1>4, <2>1, <2>3, <2>6, <2>7, <2>8, <2>9, ReadsStay
<1>5. QED
  BY <1>3, <1>4

\* What a transaction dropped is in its update.
LEMMA CommitReads ==
  ASSUME Inv, Inv', Reads, NEW r \in Client, Commit(r), NEW q \in Client, NEW key \in Key
  PROVE  ReadsKey(doc', tx', announced', got', q, key)
<1>1. Ending(tx, tx', r) /\ doc' = doc
  BY DEF Commit, EndOfTx, Inv, Shape, Ending, NoTx
<1>2. CASE tx[r].items = <<>> /\ tx[r].dels = <<>>
  <2>1. UNCHANGED <<announced, got>>
    BY <1>2 DEF Commit
  <2>2. CASE q # r
    BY <1>1, <2>1, <2>2, OthersRead DEF Ending
  <2>3. CASE q = r
    <3>1. tx'[q].dels = tx[q].dels
      BY <1>1, <1>2, <2>3 DEF Ending
    <3>2. Dropped(doc', tx', announced', got', q) = Dropped(doc, tx, announced, got, q)
      BY <1>1, <2>1, <3>1 DEF Dropped
    <3>3. ReadsKey(doc, tx, announced, got, q, key)
      BY DEF Reads
    <3>4. QED
      BY <1>1, <3>2, <3>3 DEF ReadsKey
  <2>4. QED
    BY <2>2, <2>3
<1>3. CASE ~(tx[r].items = <<>> /\ tx[r].dels = <<>>)
  <2>1. PICK u : Commits(r, u)
    BY <1>3, ValueAssumption, CommitAnnounces
  <2>2. \A s \in Client : got[q][s] \subseteq 1 .. Len(announced[s])
    BY DEF Inv, Consistent, Settled, Received
  <2>3. ASSUME NEW s \in Client, NEW h \in got[q][s]
        PROVE  h \in got'[q][s] /\ announced'[s][h] = announced[s][h]
    <3>1. Announcing(announced, announced', got, got', r, u) /\ h \in 1 .. Len(announced[s])
      BY <2>1, <2>2, <2>3 DEF Commits
    <3>2. CASE s = r
      BY <3>1, <3>2 DEF Announcing
    <3>3. CASE s # r
      BY <3>1, <3>3 DEF Announcing
    <3>4. QED
      BY <3>2, <3>3
  <2>4. CASE q # r
    BY <1>1, <2>3, <2>4, OthersRead DEF Ending
  <2>5. CASE q = r
    <3>1. ASSUME NEW id \in Dropped(doc, tx, announced, got, r)
          PROVE  id \in Dropped(doc', tx', announced', got', r)
      <4>0. id \in IdType
        BY <3>1 DEF Dropped
      <4>1. CASE \E s \in Client : \E h \in got[r][s] : id \in DelIds(announced[s][h].update)
        <5>1. PICK s \in Client : \E h \in got[r][s] : id \in DelIds(announced[s][h].update)
          BY <4>1
        <5>2. PICK h \in got[r][s] : id \in DelIds(announced[s][h].update)
          BY <5>1
        <5>3. QED
          BY <2>3, <2>5, <4>0, <5>2 DEF Dropped
      <4>2. CASE \E i \in 1 .. Len(tx[r].dels) : id = doc[r].heap[tx[r].dels[i]].id
        <5> DEFINE h == Len(announced[r]) + 1
        <5>1. id \in DelIds(u)
          BY <2>1, <4>0, <4>2 DEF Commits, Announces
        <5>2. h \in got'[r][r] /\ announced'[r][h].update = u
          BY <2>1 DEF Commits, Announcing
        <5> HIDE DEF h
        <5>3. QED
          BY <4>0, <5>1, <5>2 DEF Dropped
      <4>3. QED
        BY <3>1, <4>1, <4>2 DEF Dropped
    <3>2. ReadsKey(doc, tx, announced, got, r, key)
      BY DEF Reads
    <3>3. QED
      BY <1>1, <2>5, <3>1, <3>2 DEF ReadsKey
  <2>6. QED
    BY <2>4, <2>5
<1>4. QED
  BY <1>2, <1>3

\* An update or a state: what is deleted now was deleted or is in the delete set.
LEMMA JoinReads ==
  ASSUME Inv, Inv', Reads, NEW r \in Client, NEW u, Updated(doc[r], doc'[r], u),
         NEW F, Orders(doc[r], doc'[r], F),
         \A p \in Client \ {r} : doc'[p] = doc[p] /\ got'[p] = got[p],
         \A s \in Client : got[r][s] \subseteq got'[r][s],
         tx' = tx, announced' = announced, NEW q \in Client, NEW key \in Key
  PROVE  ReadsKey(doc', tx', announced', got', q, key)
<1>1. CASE q # r
  BY <1>1, OthersRead
<1>2. CASE q = r
  <2> DEFINE d == doc[r]
             e == doc'[r]
  <2>1. Sound(d) /\ Sound(e) /\ tx[r].dels \in Seq(Refs(d)) /\ Extends(d, e)
    BY SettledSound DEF Inv, Consistent, Settled, Opened, Orders
  <2>2. Dropped(doc, tx, announced, got, r) \subseteq Dropped(doc', tx', announced', got', r)
    BY <2>1, DroppedStays
  <2>3. ReadsKey(doc, tx, announced, got, r, key)
    BY DEF Reads
  <2>4. Topped(d, key) => Topped(e, key)
    BY DEF Orders
  <2>5. Remembers(doc', announced', got', r)
    BY DEF Inv, Consistent, Settled
  <2>6. ASSUME NEW k \in OfList(e, key), e.heap[k].deleted
        PROVE  \/ k \in Refs(d) /\ d.heap[k].deleted
               \/ e.heap[k].id \in Dropped(doc', tx', announced', got', r)
    <3>1. k \in Refs(e)
      BY <2>6 DEF OfList
    <3>2. e.heap[k].id \in IdType
      BY <2>1, <3>1, IdsOf
    <3>3. CASE isDeleted(e, e.heap[k].id)
      <4>1. e.heap[k].id \in Foreign(announced', got', r)
        BY <2>5, <3>2, <3>3 DEF Remembers
      <4>2. QED
        BY <3>2, <4>1 DEF Foreign, Dropped
    <3>4. QED
      BY <2>6, <3>1, <3>3 DEF Updated
  <2>7. QED
    BY <1>2, <2>1, <2>2, <2>3, <2>4, <2>6, ReadsStay
<1>3. QED
  BY <1>1, <1>2

\* What readers of a key have stays in order.
LEMMA StepReads == Placed /\ Reads /\ [Next]_vars => Reads'
<1> SUFFICES ASSUME Placed, Reads, [Next]_vars PROVE Reads'
  OBVIOUS
<1> SUFFICES ASSUME NEW q \in Client, NEW key \in Key
             PROVE  ReadsKey(doc', tx', announced', got', q, key)
  BY DEF Reads
<1>1. /\ Inv /\ Inv' /\ Arranged(doc, announced, Edited)
      /\ Edited \subseteq List /\ WideChar = {}
  BY StepInv, ArrayAssumption, ListAssumption, ValueAssumption DEF Placed, Edited
<1>2. ASSUME NEW r \in Client, NEW s \in Client, NEW k \in DOMAIN announced[s], Deliver(r, s, k)
      PROVE  ReadsKey(doc', tx', announced', got', q, key)
  <2>1. /\ Updated(doc[r], doc'[r], announced[s][k].update)
        /\ \A p \in Client : got[r][p] \subseteq got'[r][p]
        /\ \A p \in Client \ {r} : got'[p] = got[p]
    BY <1>1, <1>2, DeliverUpdates
  <2>2. /\ Orders(doc[r], doc'[r], ListAt(doc))
        /\ \A p \in Client \ {r} : doc'[p] = doc[p]
    BY <1>1, <1>2, DeliverArranges
  <2>3. tx' = tx /\ announced' = announced
    BY <1>2 DEF Deliver
  <2>4. QED
    BY <1>1, <2>1, <2>2, <2>3, JoinReads
<1>3. ASSUME NEW r \in Client, NEW s \in Client, Sync(r, s)
      PROVE  ReadsKey(doc', tx', announced', got', q, key)
  <2>1. PICK u : Updated(doc[r], doc'[r], u)
    BY <1>1, <1>3, SyncBrings
  <2>2. /\ Orders(doc[r], doc'[r], ListAt(doc))
        /\ \A p \in Client \ {r} : doc'[p] = doc[p]
    BY <1>1, <1>3, SyncArranges
  <2>3. tx' = tx /\ announced' = announced /\ got' = got
    BY <1>3 DEF Sync
  <2>4. QED
    BY <1>1, <2>1, <2>2, <2>3, JoinReads
<1>4. CASE UNCHANGED vars
  <2>1. UNCHANGED <<doc, tx, announced, got>>
    BY <1>4 DEF vars
  <2>2. ReadsKey(doc, tx, announced, got, q, key)
    BY DEF Reads
  <2>3. QED
    BY <2>1, <2>2
<1>5. QED
  BY <1>1, <1>2, <1>3, <1>4, StepMeans, LengthenReads, AssignReads, ShortenReads, CommitReads DEF Exchange

\* The invariant about the readers of keys.
LEMMA PlacedReads == Spec => [](Placed /\ Reads)
<1>1. Init => Placed /\ Reads
  BY InitPlaced, InitReads
<1>2. Placed /\ Reads /\ [Next]_vars => Placed' /\ Reads'
  BY StepPlaced, StepReads
<1>3. QED
  BY <1>1, <1>2, PTL DEF Spec

\* An item of a key that an update brings is in the document as an item of that key, and
\* without an exchange of states every item of a key that is not the peer's own came so.
LEMMA KeyItemsCome ==
  ASSUME Placed, syncs = 0, NEW r \in Client, NEW key \in Key, ByOthers(doc[r], r, key)
  PROVE  \A id : id \in SetIds(r, key) <=> \E k \in OfList(doc[r], key) : doc[r].heap[k].id = id
<1> DEFINE d == doc[r]
           L == ListAt(doc)
<1>1. /\ Sound(d) /\ Whole(d) /\ Agrees(doc, r) /\ Received(doc, announced, got, r)
      /\ Complete(doc, tx, announced, got, r) /\ Opened(doc, tx, announced, r)
  BY SettledSound DEF Placed, Inv, Consistent, Settled
<1>2. Ordered(d) /\ Labelled(d, L)
  BY DEF Placed, Arranged
<1>3. key \in List /\ key # NoList
  BY ListAssumption
<1>4. ASSUME NEW s \in Client, NEW h \in got[r][s], NEW j \in 1 .. Len(announced[s][h].update.items),
             NEW x, x = announced[s][h].update.items[j], NEW k \in Refs(d), d.heap[k].id = x.id
      PROVE  /\ Wire(x) /\ d.heap[k].oleft = x.oleft
             /\ x.oleft = NoID => x.list = L[x.id]
  <2>1. h \in 1 .. Len(announced[s])
    BY <1>1 DEF Received
  <2>2. Sent(doc, announced[s], h) /\ Filed(doc, announced[s][h].update)
    BY <2>1 DEF Placed, Inv, Consistent, Settled, Arranged
  <2>3. Wire(x) /\ Authored(doc, x)
    BY <1>4, <2>2 DEF Sent
  <2>4. Authored(doc, d.heap[k])
    BY <1>1 DEF Agrees
  <2>5. d.heap[k].oleft = x.oleft
    BY <1>4, <2>3, <2>4 DEF Authored, Says
  <2>6. x.oleft = NoID => x.list = L[x.id]
    BY <1>4, <2>2 DEF Filed
  <2>7. QED
    BY <2>3, <2>5, <2>6
<1>5. ASSUME NEW id
      PROVE  id \in SetIds(r, key) <=> \E s \in Client : \E h \in got[r][s] :
                \E j \in 1 .. Len(announced[s][h].update.items) :
                   /\ announced[s][h].update.items[j].list = key
                   /\ announced[s][h].update.items[j].id = id
  <2>1. id \in SetIds(r, key) <=> \E u \in Applied(r) : \E it \in Range(u.items) : it.list = key /\ it.id = id
    BY DEF SetIds
  <2>2. \A u : u \in Applied(r) <=> \E s \in Client : \E h \in got[r][s] : u = announced[s][h].update
    BY DEF Applied
  <2>3. ASSUME NEW s \in Client, NEW h \in got[r][s], NEW u, u = announced[s][h].update
        PROVE  \A it : it \in Range(u.items) <=> \E j \in 1 .. Len(u.items) : it = u.items[j]
    <3>1. Sent(doc, announced[s], h)
      BY <1>1 DEF Received, Placed, Inv, Consistent, Settled
    <3>2. u.items \in Seq(ItemType)
      BY <2>3, <3>1 DEF Sent
    <3>3. QED
      BY <3>2 DEF Range
  <2>4. id \in SetIds(r, key) <=> \E s \in Client : \E h \in got[r][s] :
           \E it \in Range(announced[s][h].update.items) : it.list = key /\ it.id = id
    BY <2>1, <2>2
  <2>5. ASSUME NEW s \in Client, NEW h \in got[r][s]
        PROVE  (\E it \in Range(announced[s][h].update.items) : it.list = key /\ it.id = id) <=>
                  \E j \in 1 .. Len(announced[s][h].update.items) :
                       /\ announced[s][h].update.items[j].list = key
                       /\ announced[s][h].update.items[j].id = id
    <3> DEFINE u == announced[s][h].update
    <3>1. \A it : it \in Range(u.items) <=> \E j \in 1 .. Len(u.items) : it = u.items[j]
      BY <2>3
    <3> HIDE DEF u
    <3>2. (\E it \in Range(u.items) : it.list = key /\ it.id = id) <=>
             \E j \in 1 .. Len(u.items) : u.items[j].list = key /\ u.items[j].id = id
      BY <3>1
    <3>3. QED
      BY <3>2 DEF u
  <2>6. QED
    BY <2>4, <2>5
<1>6. ASSUME NEW id, id \in SetIds(r, key) PROVE \E k \in OfList(d, key) : d.heap[k].id = id
  <2>1. PICK s \in Client : \E h \in got[r][s] :
                \E j \in 1 .. Len(announced[s][h].update.items) :
                   /\ announced[s][h].update.items[j].list = key
                   /\ announced[s][h].update.items[j].id = id
    BY <1>5, <1>6
  <2>2. PICK h \in got[r][s] : \E j \in 1 .. Len(announced[s][h].update.items) :
                   /\ announced[s][h].update.items[j].list = key
                   /\ announced[s][h].update.items[j].id = id
    BY <2>1
  <2>3. PICK j \in 1 .. Len(announced[s][h].update.items) :
                   /\ announced[s][h].update.items[j].list = key
                   /\ announced[s][h].update.items[j].id = id
    BY <2>2
  <2> DEFINE x == announced[s][h].update.items[j]
  <2>4. id \in ItemIds(announced[s][h].update)
    BY <2>3 DEF ItemIds
  <2>5. Held(d, id) /\ id \in IdType
    <3>1. Sent(doc, announced[s], h)
      BY <1>1 DEF Received, Placed, Inv, Consistent, Settled
    <3>2. QED
      BY <1>1, <2>4, <3>1, SentIds DEF Received
  <2> DEFINE k == RefOf(d, id)
  <2>6. k \in Refs(d) /\ d.heap[k].id = id
    BY <1>1, <2>5, getItemFinds
  <2>7. Wire(x) /\ d.heap[k].oleft = x.oleft /\ (x.oleft = NoID => x.list = L[x.id])
    BY <1>4, <2>3, <2>6
  <2>8. x.oleft = NoID /\ L[id] = key
    BY <1>3, <2>3, <2>7 DEF Wire
  <2>9. d.heap[k].list # NoList
    BY <1>2, <2>6, <2>7, <2>8 DEF Ordered, OrderedAt
  <2>10. d.heap[k].list = key
    BY <1>2, <2>6, <2>8, <2>9 DEF Labelled
  <2>11. QED
    BY <2>6, <2>10 DEF OfList
<1>7. ASSUME NEW k \in OfList(d, key) PROVE d.heap[k].id \in SetIds(r, key)
  <2>1. k \in Refs(d) /\ d.heap[k].list = key /\ d.heap[k].id.client # r
    BY <1>7 DEF OfList, ByOthers
  <2>2. d.heap[k].oleft = NoID
    BY <1>2, <1>3, <2>1 DEF Ordered, OrderedAt
  <2>3. \E s \in Client : \E h \in got[r][s] : d.heap[k].id \in ItemIds(announced[s][h].update)
    <3>1. ASSUME NEW i \in 1 .. Len(tx[r].items), tx[r].items[i] = k PROVE FALSE
      <4> DEFINE c == Len(doc[r].store[r]) - Len(tx[r].items) + (i - 1)
      <4>1. d.heap[tx[r].items[i]].id = [client |-> r, clock |-> c]
        BY <1>1 DEF Opened
      <4>2. QED
        BY <2>1, <3>1, <4>1
    <3>2. QED
      BY <1>1, <2>1, <3>1 DEF Complete
  <2>4. PICK s \in Client : \E h \in got[r][s] : d.heap[k].id \in ItemIds(announced[s][h].update)
    BY <2>3
  <2>5. PICK h \in got[r][s] : d.heap[k].id \in ItemIds(announced[s][h].update)
    BY <2>4
  <2>6. PICK j \in 1 .. Len(announced[s][h].update.items) : announced[s][h].update.items[j].id = d.heap[k].id
    BY <2>5 DEF ItemIds
  <2> DEFINE x == announced[s][h].update.items[j]
  <2>7. d.heap[k].oleft = x.oleft /\ (x.oleft = NoID => x.list = L[x.id])
    BY <1>4, <2>1, <2>6
  <2>8. L[x.id] = key
    BY <1>2, <1>3, <2>1, <2>6 DEF Labelled
  <2>9. x.list = key
    BY <2>2, <2>7, <2>8
  <2>10. QED
    BY <1>5, <2>6, <2>9
<1>8. QED
  BY <1>6, <1>7

\* A peer that never sets a key shows the value with the highest ID of those it received,
\* unless that one was deleted: such peers agree, whatever the order.
THEOREM CollectionReaders == Spec => []ReadersSeeTheHighest
<1>1. ASSUME Placed, Reads, NEW r \in Client, NEW key \in Key,
             (\A it \in Range(doc[r].heap) : it.list = key => it.id.client # r) /\ syncs = 0
      PROVE  LET ids == SetIds(r, key)
                 top == CHOOSE id \in ids : \A other \in ids : ~compareIDs(other, id)
             IN  Get(doc[r], key) = IF ids = {} THEN <<>>
                                    ELSE IF top \in Removed(r) THEN <<>>
                                    ELSE doc[r].heap[getItem(doc[r], top)].str
  <2> DEFINE d == doc[r]
             ids == SetIds(r, key)
             top == CHOOSE id \in ids : \A other \in ids : ~compareIDs(other, id)
             first == d.start[key]
             t == d.heap[first].id
  <2>1. /\ Sound(d) /\ Whole(d) /\ key \in List
        /\ Remembers(doc, announced, got, r) /\ Erased(doc, tx, announced, got, r)
        /\ Received(doc, announced, got, r) /\ Opened(doc, tx, announced, r)
    BY <1>1, SettledSound, ListAssumption DEF Placed, Inv, Consistent, Settled
  <2>2. ByOthers(d, r, key)
    <3>1. DOMAIN d.heap = Refs(d)
      BY <2>1, DocFields DEF Whole
    <3>2. \A k \in Refs(d) : d.heap[k] \in Range(d.heap)
      BY <3>1 DEF Range
    <3>3. QED
      BY <1>1, <3>2 DEF ByOthers, OfList
  <2>3. \A id : id \in ids <=> \E k \in OfList(d, key) : d.heap[k].id = id
    BY <1>1, <2>2, KeyItemsCome
  <2>4. /\ Topped(d, key)
        /\ \A k \in OfList(d, key) : d.heap[k].deleted => d.heap[k].id \in Removed(r)
    BY <1>1, <2>2, RemovedIsDropped DEF Reads, ReadsKey, Placed
  <2>5. CASE ids = {}
    <3>1. OfList(d, key) = {}
      BY <2>3, <2>5
    <3>2. first = Nil
      BY <2>1, <3>1, IdsOf
    <3>3. QED
      BY <2>5, <3>2 DEF Get
  <2>6. CASE ids # {}
    <3>1. first # Nil /\ first \in OfList(d, key) /\ first \in Refs(d) /\ t \in IdType /\ t \in ids
      <4>1. PICK k : k \in OfList(d, key)
        BY <2>3, <2>6
      <4>2. first # Nil
        BY <2>4, <4>1 DEF Topped
      <4>3. first \in OfList(d, key) /\ first \in Refs(d)
        BY <2>1, <4>2, IdsOf
      <4>4. QED
        BY <2>1, <2>3, <4>2, <4>3, IdsOf
    <3>2. \A id \in ids : id \in IdType /\ (id = t \/ compareIDs(t, id))
      <4>1. ASSUME NEW id \in ids PROVE id \in IdType /\ (id = t \/ compareIDs(t, id))
        <5>1. PICK k \in OfList(d, key) : d.heap[k].id = id
          BY <2>3, <4>1
        <5>2. k \in Refs(d)
          BY DEF OfList
        <5>3. k = first \/ compareIDs(t, d.heap[k].id)
          BY <2>4 DEF Topped
        <5>4. QED
          BY <2>1, <5>1, <5>2, <5>3, IdsOf
      <4>2. QED
        BY <4>1
    <3> HIDE DEF ids, first, t
    <3>3. top = t
      <4>1. t \in ids /\ \A other \in ids : ~compareIDs(other, t)
        BY <3>1, <3>2, IdsOrdered
      <4>2. \A id \in ids : (\A other \in ids : ~compareIDs(other, id)) => id = t
        BY <3>1, <3>2
      <4>3. QED
        BY <4>1, <4>2
    <3> HIDE DEF top
    <3>4. getItem(d, t) = first
      <4>1. Held(d, t) /\ RefOf(d, t) = first
        BY <2>1, <3>1 DEF Whole, Held, RefOf, t
      <4>2. QED
        BY <2>1, <3>1, <4>1, getItemFinds
    <3>5. t \in Removed(r) <=> d.heap[first].deleted
      <4>1. ASSUME d.heap[first].deleted PROVE t \in Removed(r)
        BY <2>4, <3>1, <4>1 DEF t
      <4>2. ASSUME t \in Removed(r) PROVE d.heap[first].deleted
        <5>1. t \in Dropped(doc, tx, announced, got, r)
          BY <1>1, <4>2, RemovedIsDropped DEF Placed
        <5>2. CASE \E s \in Client : \E h \in got[r][s] : t \in DelIds(announced[s][h].update)
          <6>1. PICK s \in Client : \E h \in got[r][s] : t \in DelIds(announced[s][h].update)
            BY <5>2
          <6>2. PICK h \in got[r][s] : t \in DelIds(announced[s][h].update)
            BY <6>1
          <6>3. CASE s = r
            <7>1. d.heap[RefOf(d, t)].deleted
              BY <2>1, <6>2, <6>3 DEF Erased
            <7>2. RefOf(d, t) = first
              BY <2>1, <3>1 DEF Whole, RefOf, t
            <7>3. QED
              BY <7>1, <7>2
          <6>4. CASE s # r
            <7>1. t \in Foreign(announced, got, r)
              BY <3>1, <6>2, <6>4 DEF Foreign
            <7>2. isDeleted(d, t)
              BY <2>1, <3>1, <7>1 DEF Remembers
            <7>3. QED
              BY <2>1, <3>1, <7>2 DEF Remembers, t
          <6>5. QED
            BY <6>3, <6>4
        <5>3. CASE \E i \in 1 .. Len(tx[r].dels) : t = d.heap[tx[r].dels[i]].id
          <6>1. PICK i \in 1 .. Len(tx[r].dels) : t = d.heap[tx[r].dels[i]].id
            BY <5>3
          <6>2. tx[r].dels[i] \in Refs(d) /\ d.heap[tx[r].dels[i]].deleted
            BY <2>1, SeqElements DEF Opened, Erased
          <6>3. tx[r].dels[i] = first
            BY <2>1, <3>1, <6>1, <6>2, IdsOf DEF t
          <6>4. QED
            BY <6>2, <6>3
        <5>4. QED
          BY <5>1, <5>2, <5>3 DEF Dropped
      <4>3. QED
        BY <4>1, <4>2
    <3>6. Get(d, key) = IF d.heap[first].deleted THEN <<>> ELSE d.heap[first].str
      BY <3>1 DEF Get, first
    <3>7. Get(d, key) = IF ids = {} THEN <<>>
                        ELSE IF top \in Removed(r) THEN <<>>
                        ELSE d.heap[getItem(d, top)].str
      BY <2>6, <3>3, <3>4, <3>5, <3>6
    <3>8. QED
      BY <3>7 DEF top, ids
  <2>7. QED
    BY <2>5, <2>6
<1>2. Placed /\ Reads => ReadersSeeTheHighest
  BY <1>1 DEF ReadersSeeTheHighest
<1>3. QED
  BY <1>2, PlacedReads, PTL

=============================================================================
