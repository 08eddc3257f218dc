----------------------------- MODULE LoopProofs -----------------------------
(***************************************************************************)
(* Induction over the naturals and primitive recursion, stated for sets    *)
(* and functions, so that first-order provers can use them: a property is  *)
(* the set of numbers that have it, a recursion the function that makes a  *)
(* step.  Both rest on the fact that < is well-founded on Nat.  And what   *)
(* follows of the loops of SortSearch and Loops, for every length.         *)
(***************************************************************************)
EXTENDS SortSearch, Loops, WellFoundedInduction, TLAPS

\* A set that has 0, and with each number the next one, has all of them.
THEOREM Induction ==
  ASSUME NEW Good, 0 \in Good, \A n \in Nat : n \in Good => n + 1 \in Good
  PROVE  \A n \in Nat : n \in Good
<1> DEFINE Bad == Nat \ Good
           R == OpToRel(<, Nat)
<1>1. SUFFICES ASSUME Bad # {} PROVE FALSE
  OBVIOUS
<1>2. IsWellFoundedOn(R, Nat)
  BY NatLessThanWellFounded
<1>3. PICK m \in Bad : \A k \in Bad : <<k, m>> \notin R
  <2>1. Bad \subseteq Nat
    OBVIOUS
  <2> HIDE DEF Bad, R
  <2>2. QED
    BY <1>1, <1>2, <2>1, WFMin
<1>4. m \in Nat \ {0} /\ m - 1 \in Nat /\ m - 1 < m
  OBVIOUS
<1>5. m - 1 \in Good
  BY <1>3, <1>4 DEF OpToRel
<1>6. QED
  BY <1>4, <1>5

\* f starts with a, and makes the step from n to n + 1 by next.
Iterates(f, a, next) == f[0] = a /\ \A n \in Nat : f[n + 1] = next[<<f[n], n>>]

\* Primitive recursion defines a function: there are functions on 0 .. n that iterate
\* next, which agree where they meet.
THEOREM IterationExists ==
  ASSUME NEW S, NEW a \in S, NEW next \in [S \X Nat -> S]
  PROVE  \E f \in [Nat -> S] : Iterates(f, a, next)
<1> DEFINE Upto(n, g) == /\ g \in [0 .. n -> S]
                         /\ g[0] = a
                         /\ \A i \in 0 .. n - 1 : g[i + 1] = next[<<g[i], i>>]
           Good == { n \in Nat : \E g \in [0 .. n -> S] : Upto(n, g) }
<1>1. 0 \in Good
  <2>1. Upto(0, [i \in 0 .. 0 |-> a])
    OBVIOUS
  <2>2. QED
    BY <2>1
<1>2. ASSUME NEW n \in Nat, n \in Good
      PROVE  n + 1 \in Good
  <2>1. PICK g \in [0 .. n -> S] : Upto(n, g)
    BY <1>2
  <2> DEFINE h == [i \in 0 .. n + 1 |-> IF i \in 0 .. n THEN g[i] ELSE next[<<g[n], n>>]]
  <2>2. Upto(n + 1, h)
    <3>1. next[<<g[n], n>>] \in S
      BY <2>1
    <3>2. h \in [0 .. n + 1 -> S]
      BY <2>1, <3>1
    <3>3. h[0] = a
      BY <2>1
    <3>4. ASSUME NEW i \in 0 .. n
          PROVE  h[i + 1] = next[<<h[i], i>>]
      <4>1. CASE i = n
        BY <4>1
      <4>2. CASE i # n
        BY <4>2, <2>1
      <4>3. QED BY <4>1, <4>2
    <3> HIDE DEF h
    <3>5. \A i \in 0 .. (n + 1) - 1 : h[i + 1] = next[<<h[i], i>>]
      BY <3>4
    <3>6. QED
      BY <3>2, <3>3, <3>5
  <2>3. h \in [0 .. n + 1 -> S]
    BY <2>2
  <2> HIDE DEF h, Upto
  <2>4. QED
    BY <2>2, <2>3
<1>3. \A n \in Nat : n \in Good
  <2> HIDE DEF Good
  <2> QED BY <1>1, <1>2, Induction
<1> DEFINE G(n) == CHOOSE g \in [0 .. n -> S] : Upto(n, g)
<1>4. ASSUME NEW n \in Nat PROVE Upto(n, G(n))
  <2>1. PICK g \in [0 .. n -> S] : Upto(n, g)
    BY <1>3
  <2> HIDE DEF Upto
  <2> QED BY <2>1
<1> DEFINE f == [n \in Nat |-> G(n)[n]]
<1>5. ASSUME NEW n \in Nat PROVE G(n + 1)[n] = G(n)[n]
  <2> DEFINE Same == { i \in Nat : i <= n => G(n + 1)[i] = G(n)[i] }
  <2>0. Upto(n, G(n)) /\ Upto(n + 1, G(n + 1))
    <3> HIDE DEF G, Upto
    <3> QED BY <1>4
  <2> HIDE DEF G
  <2>1. 0 \in Same
    BY <2>0
  <2>2. ASSUME NEW i \in Nat, i \in Same PROVE i + 1 \in Same
    <3>1. SUFFICES ASSUME i + 1 <= n PROVE G(n + 1)[i + 1] = G(n)[i + 1]
      OBVIOUS
    <3>2. i \in 0 .. n - 1 /\ i \in 0 .. (n + 1) - 1
      BY <3>1
    <3>3. G(n)[i + 1] = next[<<G(n)[i], i>>] /\ G(n + 1)[i + 1] = next[<<G(n + 1)[i], i>>]
      BY <2>0, <3>2
    <3>4. G(n + 1)[i] = G(n)[i]
      BY <2>2, <3>1
    <3>5. QED
      BY <3>3, <3>4
  <2>3. \A i \in Nat : i \in Same
    <3> HIDE DEF Same
    <3> QED BY <2>1, <2>2, Induction
  <2>4. QED
    BY <2>3
<1>6. f \in [Nat -> S]
  <2>1. ASSUME NEW n \in Nat PROVE G(n)[n] \in S
    <3> HIDE DEF G
    <3>1. Upto(n, G(n))
      BY <1>4
    <3> QED BY <3>1
  <2> HIDE DEF G
  <2> QED BY <2>1
<1>7. f[0] = a
  <2>1. Upto(0, G(0))
    <3> HIDE DEF G, Upto
    <3> QED BY <1>4
  <2> HIDE DEF G
  <2> QED BY <2>1
<1>8. ASSUME NEW n \in Nat PROVE f[n + 1] = next[<<f[n], n>>]
  <2>1. Upto(n + 1, G(n + 1))
    <3> HIDE DEF G, Upto
    <3> QED BY <1>4
  <2>2. f[n] = G(n + 1)[n] /\ f[n + 1] = G(n + 1)[n + 1]
    <3> HIDE DEF G
    <3> QED BY <1>5
  <2> HIDE DEF G, f
  <2> QED BY <2>1, <2>2
<1>9. QED
  <2> HIDE DEF f
  <2> QED BY <1>6, <1>7, <1>8 DEF Iterates

-----------------------------------------------------------------------------
(***************************************************************************)
(* The bisection of sort.Search, for every length and every predicate.     *)
(***************************************************************************)
\* The intervals that the loop goes through.
Interval(n) == { b \in [i : 0 .. n, j : 0 .. n] : b.i <= b.j }

\* One turn keeps an interval, and makes it shorter unless it is empty.
LEMMA HalveShrinks ==
  ASSUME NEW n \in Nat, NEW found, NEW b \in Interval(n)
  PROVE  /\ Halve(b, found) \in Interval(n)
         /\ b.i < b.j => Halve(b, found).j - Halve(b, found).i < b.j - b.i
         /\ b.i = b.j => Halve(b, found) = b
  BY DEF Halve, Interval

\* The recursion of Search has a solution, and Search returns its value after n turns.
LEMMA TurnsExist ==
  ASSUME NEW n \in Nat, NEW found
  PROVE  \E f \in [Nat -> Interval(n)] :
            /\ f[0] = [i |-> 0, j |-> n]
            /\ \A t \in Nat : f[t + 1] = Halve(f[t], found)
            /\ Search(n, found) = f[n].i
<1> DEFINE next == [p \in Interval(n) \X Nat |-> Halve(p[1], found)]
           start == [i |-> 0, j |-> n]
           Turns(g) == g = [t \in Nat |-> IF t = 0 THEN start ELSE Halve(g[t - 1], found)]
<1>1. start \in Interval(n)
  BY DEF Interval
<1>2. next \in [Interval(n) \X Nat -> Interval(n)]
  BY HalveShrinks
<1>3. PICK f \in [Nat -> Interval(n)] : f[0] = start /\ \A t \in Nat : f[t + 1] = next[<<f[t], t>>]
  <2> DEFINE S == Interval(n)
  <2>1. start \in S /\ next \in [S \X Nat -> S]
    BY <1>1, <1>2
  <2>2. \E f \in [Nat -> S] : Iterates(f, start, next)
    <3> HIDE DEF start, next, S, Turns
    <3> QED BY <2>1, IterationExists
  <2>3. QED
    BY <2>2 DEF Iterates
<1>4. \A t \in Nat : f[t + 1] = Halve(f[t], found)
  BY <1>3
<1>5. Turns(f)
  <2>1. ASSUME NEW t \in Nat PROVE f[t] = IF t = 0 THEN start ELSE Halve(f[t - 1], found)
    <3>1. CASE t = 0
      BY <1>3, <3>1
    <3>2. CASE t # 0
      <4>1. t - 1 \in Nat /\ (t - 1) + 1 = t
        BY <3>2
      <4> HIDE DEF start, next
      <4>2. QED
        BY <1>4, <3>2, <4>1
    <3>3. QED
      BY <3>1, <3>2
  <2> HIDE DEF start, next
  <2> QED BY <2>1
<1> DEFINE ff == CHOOSE g : Turns(g)
<1>6. Turns(ff)
  <2> HIDE DEF Turns
  <2> QED BY <1>5
<1>7. Search(n, found) = ff[n].i
  BY DEF Search
<1>8. ff \in [Nat -> Interval(n)]
  <2> DEFINE Good == { t \in Nat : ff[t] \in Interval(n) }
  <2> HIDE DEF ff
  <2>1. 0 \in Good
    BY <1>1, <1>6
  <2>2. ASSUME NEW t \in Nat, t \in Good PROVE t + 1 \in Good
    BY <1>6, <2>2, HalveShrinks
  <2>3. \A t \in Nat : t \in Good
    <3> HIDE DEF Good
    <3> QED BY <2>1, <2>2, Induction
  <2> QED BY <1>6, <2>3
<1>9. QED
  <2> HIDE DEF ff
  <2>1. ff[0] = start
    BY <1>6
  <2>2. ASSUME NEW t \in Nat
        PROVE  ff[t + 1] = Halve(ff[t], found)
    <3>1. t + 1 \in Nat /\ t + 1 # 0 /\ (t + 1) - 1 = t
      OBVIOUS
    <3>2. ff[t + 1] = IF t + 1 = 0 THEN start ELSE Halve(ff[(t + 1) - 1], found)
      <4> HIDE DEF start
      <4>1. QED
        BY <1>6, <3>1
    <3>3. QED
      BY <3>1, <3>2
  <2>3. QED
    BY <1>7, <1>8, <2>1, <2>2

\* Search returns an index of the slice, or its length, whatever the predicate.
THEOREM SearchInRange ==
  ASSUME NEW n \in Nat, NEW found
  PROVE  Search(n, found) \in 0 .. n
<1>1. PICK f \in [Nat -> Interval(n)] :
         /\ f[0] = [i |-> 0, j |-> n]
         /\ \A t \in Nat : f[t + 1] = Halve(f[t], found)
         /\ Search(n, found) = f[n].i
  BY TurnsExist
<1>2. QED
  BY <1>1 DEF Interval

\* If the predicate holds from some index on, Search returns the first index for
\* which it holds: below the interval it never holds, above it always does, and
\* after n turns the interval is empty.
THEOREM SearchFindsFirst ==
  ASSUME NEW n \in Nat, NEW found,
         \A x \in 0 .. n - 1, y \in 0 .. n - 1 : x \in found /\ x <= y => y \in found
  PROVE  \A x \in 0 .. n - 1 : x \in found <=> Search(n, found) <= x
<1>1. PICK f \in [Nat -> Interval(n)] :
         /\ f[0] = [i |-> 0, j |-> n]
         /\ \A t \in Nat : f[t + 1] = Halve(f[t], found)
         /\ Search(n, found) = f[n].i
  BY TurnsExist
<1> DEFINE Around(b) == \A x \in 0 .. n - 1 : (x < b.i => x \notin found) /\ (b.j <= x => x \in found)
           Good == { t \in Nat : Around(f[t]) /\ (f[t].i = f[t].j \/ f[t].j - f[t].i <= n - t) }
<1>2. 0 \in Good
  BY <1>1
<1>3. ASSUME NEW t \in Nat, t \in Good
      PROVE  t + 1 \in Good
  <2> DEFINE b == f[t]
             h == (b.i + b.j) \div 2
  <2>1. b \in Interval(n) /\ f[t + 1] = Halve(b, found)
    BY <1>1
  <2>2. CASE b.i = b.j
    BY <1>3, <2>1, <2>2, HalveShrinks
  <2>3. CASE b.i < b.j
    <3>1. h \in 0 .. n - 1 /\ b.i <= h /\ h < b.j
      BY <2>1, <2>3 DEF Interval
    <3>2. Around(b)
      BY <1>3
    <3>3. Around(Halve(b, found))
      <4>1. CASE h \in found
        <5>1. Halve(b, found) = [b EXCEPT !.j = h]
          BY <2>3, <4>1, <2>1 DEF Halve, Interval
        <5>2. QED
          BY <2>1, <3>1, <3>2, <4>1, <5>1 DEF Interval
      <4>2. CASE h \notin found
        <5>1. Halve(b, found) = [b EXCEPT !.i = h + 1]
          BY <2>3, <4>2, <2>1 DEF Halve, Interval
        <5>2. QED
          BY <2>1, <3>1, <3>2, <4>2, <5>1 DEF Interval
      <4>3. QED
        BY <4>1, <4>2
    <3>4. Halve(b, found).j - Halve(b, found).i < b.j - b.i /\ Halve(b, found) \in Interval(n)
      BY <2>1, <2>3, HalveShrinks
    <3>5. b.j - b.i <= n - t
      BY <1>3, <2>3, <2>1 DEF Interval
    <3>6. f[t + 1].j - f[t + 1].i <= n - (t + 1)
      BY <2>1, <3>4, <3>5 DEF Interval
    <3>7. QED
      BY <2>1, <3>3, <3>6
  <2>4. b.i \in 0 .. n /\ b.j \in 0 .. n /\ b.i <= b.j
    BY <2>1 DEF Interval
  <2> HIDE DEF b, Good
  <2>5. QED
    BY <2>2, <2>3, <2>4
<1>4. \A t \in Nat : t \in Good
  <2> HIDE DEF Good
  <2>1. QED
    BY <1>2, <1>3, Induction
<1>5. /\ f[n].i \in 0 .. n /\ f[n].j \in 0 .. n /\ f[n].i <= f[n].j
      /\ Around(f[n])
      /\ f[n].i = f[n].j \/ f[n].j - f[n].i <= n - n
  BY <1>4 DEF Interval
<1>6. f[n].i = f[n].j
  BY <1>5
<1>7. QED
  BY <1>1, <1>5, <1>6

=============================================================================
