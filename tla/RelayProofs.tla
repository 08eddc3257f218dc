---------------------------- MODULE RelayProofs -----------------------------
(***************************************************************************)
(* Theorems about Relay, for all sets of clients, for any capacity of the  *)
(* links and any number of edits, connections, breaks and restarts.        *)
(***************************************************************************)
EXTENDS Relay, LoopProofs, SequenceTheorems

-----------------------------------------------------------------------------
(***************************************************************************)
(* Slices of a StructStore.                                                *)
(***************************************************************************)
Clocks(s) == { s[i].clock : i \in DOMAIN s }

\* What getItem finds is in the slice, sorted or not.
LEMMA HoldsClock ==
  ASSUME NEW s \in Seq(Item), NEW clock \in Nat, Holds(s, clock)
  PROVE  clock \in Clocks(s)
<1> DEFINE above == { i \in 0 .. Len(s) - 1 : s[i + 1].clock > clock }
<1>1. Search(Len(s), above) \in 0 .. Len(s)
  <2>1. Len(s) \in Nat
    OBVIOUS
  <2> HIDE DEF above
  <2>2. QED
    BY <2>1, SearchInRange
<1>2. Search(Len(s), above) > 0 /\ s[Search(Len(s), above)].clock = clock
  BY DEF Holds
<1>3. Search(Len(s), above) \in DOMAIN s
  BY <1>1, <1>2
<1>4. QED
  BY <1>2, <1>3 DEF Clocks

\* An item that is integrated leaves its clock in the slice, and no clock is lost.
LEMMA integrateItemType ==
  ASSUME NEW s \in Seq(Item), NEW item \in Item
  PROVE  /\ integrateItem(s, item) \in Seq(Item)
         /\ Clocks(s) \cup {item.clock} \subseteq Clocks(integrateItem(s, item))
<1>1. CASE Holds(s, item.clock)
  <2>1. item.clock \in Clocks(s)
    BY <1>1, HoldsClock DEF Item
  <2>2. QED
    BY <1>1, <2>1 DEF integrateItem
<1>2. CASE ~Holds(s, item.clock)
  <2>1. integrateItem(s, item) = Append(s, item)
    BY <1>2 DEF integrateItem
  <2>2. QED
    BY <2>1 DEF Clocks
<1>3. QED
  BY <1>1, <1>2

\* The items of an update are integrated one after the other.
LEMMA IntegratedSteps ==
  ASSUME NEW s \in Seq(Item), NEW items \in Seq(Item)
  PROVE  \E f \in [0 .. Len(items) -> Seq(Item)] :
            /\ f[0] = s
            /\ \A n \in 1 .. Len(items) : f[n] = integrateItem(f[n - 1], items[n])
            /\ Integrated(s, items) = f[Len(items)]
<1> DEFINE S == Seq(Item)
           N == Len(items)
           next == [p \in S \X Nat |-> IF p[2] < N THEN integrateItem(p[1], items[p[2] + 1])
                                                   ELSE p[1]]
           Solves(g) == g = [n \in 0 .. N |-> IF n = 0 THEN s
                                              ELSE integrateItem(g[n - 1], items[n])]
<1>1. next \in [S \X Nat -> S]
  <2>1. ASSUME NEW p \in S \X Nat, p[2] < N
        PROVE  integrateItem(p[1], items[p[2] + 1]) \in S
    <3>1. items[p[2] + 1] \in Item
      BY <2>1
    <3>2. QED
      BY <3>1, integrateItemType
  <2>2. QED
    BY <2>1
<1>2. PICK h \in [Nat -> S] : Iterates(h, s, next)
  <2> HIDE DEF next, S
  <2>1. s \in S
    BY DEF S
  <2>2. QED
    BY <1>1, <2>1, IterationExists
<1> DEFINE g == [n \in 0 .. N |-> h[n]]
<1>3. Solves(g)
  <2>1. ASSUME NEW n \in 0 .. N, n # 0
        PROVE  h[n] = integrateItem(h[n - 1], items[n])
    <3>1. n - 1 \in Nat /\ n - 1 < N /\ (n - 1) + 1 = n
      BY <2>1
    <3>2. h[(n - 1) + 1] = next[<<h[n - 1], n - 1>>]
      BY <1>2, <3>1 DEF Iterates
    <3>3. next[<<h[n - 1], n - 1>>] = integrateItem(h[n - 1], items[(n - 1) + 1])
      BY <3>1
    <3>4. QED
      BY <3>1, <3>2, <3>3
  <2>2. h[0] = s
    BY <1>2 DEF Iterates
  <2>3. ASSUME NEW n \in 0 .. N, n # 0
        PROVE  g[n - 1] = h[n - 1]
    BY <2>3
  <2>4. QED
    BY <2>1, <2>2, <2>3
<1> DEFINE f == CHOOSE x : Solves(x)
<1>4. Solves(f)
  <2> HIDE DEF Solves
  <2>1. QED
    BY <1>3
<1>5. Integrated(s, items) = f[N]
  BY DEF Integrated
<1> HIDE DEF f
<1>6. f[0] = s /\ \A n \in 1 .. N : f[n] = integrateItem(f[n - 1], items[n])
  <2>1. N \in Nat
    OBVIOUS
  <2> HIDE DEF N
  <2>2. \A n \in 0 .. N : f[n] = IF n = 0 THEN s ELSE integrateItem(f[n - 1], items[n])
    BY <1>4, <2>1
  <2>3. 0 \in 0 .. N /\ \A n \in 1 .. N : n \in 0 .. N /\ n # 0
    BY <2>1
  <2>4. QED
    BY <2>2, <2>3
<1>7. f \in [0 .. N -> S]
  <2> DEFINE Good == { n \in Nat : n <= N => f[n] \in S }
  <2>1. 0 \in Good
    BY <1>6
  <2>2. ASSUME NEW n \in Nat, n \in Good
        PROVE  n + 1 \in Good
    <3>1. SUFFICES ASSUME n + 1 <= N PROVE f[n + 1] \in S
      OBVIOUS
    <3>2. f[n + 1] = integrateItem(f[(n + 1) - 1], items[n + 1]) /\ (n + 1) - 1 = n
      BY <1>6, <3>1
    <3>3. f[n] \in S /\ items[n + 1] \in Item
      BY <2>2, <3>1
    <3>4. QED
      BY <3>2, <3>3, integrateItemType
  <2>3. \A n \in Nat : n \in Good
    <3> HIDE DEF Good
    <3>1. QED
      BY <2>1, <2>2, Induction
  <2>4. \A n \in 0 .. N : f[n] \in S
    BY <2>3
  <2>5. QED
    BY <1>4, <2>4
<1> HIDE DEF S, Solves
<1>8. \E x \in [0 .. N -> S] :
         /\ x[0] = s
         /\ \A n \in 1 .. N : x[n] = integrateItem(x[n - 1], items[n])
         /\ Integrated(s, items) = x[N]
  BY <1>5, <1>6, <1>7
<1>9. QED
  BY <1>8 DEF S

\* No ID of the slice or of the update is missing afterwards.
LEMMA IntegratedIds ==
  ASSUME NEW s \in Seq(Item), NEW items \in Seq(Item)
  PROVE  /\ Integrated(s, items) \in Seq(Item)
         /\ Clocks(s) \cup Clocks(items) \subseteq Clocks(Integrated(s, items))
<1>1. PICK f \in [0 .. Len(items) -> Seq(Item)] :
         /\ f[0] = s
         /\ \A n \in 1 .. Len(items) : f[n] = integrateItem(f[n - 1], items[n])
         /\ Integrated(s, items) = f[Len(items)]
  BY IntegratedSteps
<1> DEFINE Good == { n \in Nat : n <= Len(items) =>
                        Clocks(s) \cup { items[i].clock : i \in 1 .. n } \subseteq Clocks(f[n]) }
<1>2. 0 \in Good
  BY <1>1
<1>3. ASSUME NEW n \in Nat, n \in Good
      PROVE  n + 1 \in Good
  <2>1. SUFFICES ASSUME n + 1 <= Len(items)
                 PROVE  Clocks(s) \cup { items[i].clock : i \in 1 .. n + 1 } \subseteq Clocks(f[n + 1])
    OBVIOUS
  <2>2. f[n + 1] = integrateItem(f[(n + 1) - 1], items[n + 1]) /\ (n + 1) - 1 = n
    BY <1>1, <2>1
  <2>3. f[n] \in Seq(Item) /\ items[n + 1] \in Item
    BY <1>1, <2>1
  <2>4. Clocks(f[n]) \cup {items[n + 1].clock} \subseteq Clocks(f[n + 1])
    BY <2>2, <2>3, integrateItemType
  <2>5. Clocks(s) \cup { items[i].clock : i \in 1 .. n } \subseteq Clocks(f[n])
    BY <1>3, <2>1
  <2>6. QED
    BY <2>4, <2>5
<1>4. \A n \in Nat : n \in Good
  <2> HIDE DEF Good
  <2>1. QED
    BY <1>2, <1>3, Induction
<1>5. Clocks(s) \cup { items[i].clock : i \in 1 .. Len(items) } \subseteq Clocks(f[Len(items)])
  <2>1. Len(items) \in Good
    <3>1. Len(items) \in Nat
      OBVIOUS
    <3> HIDE DEF Good
    <3>2. QED
      BY <1>4, <3>1
  <2>2. QED
    BY <2>1
<1>6. Clocks(items) = { items[i].clock : i \in 1 .. Len(items) }
  <2>1. DOMAIN items = 1 .. Len(items)
    OBVIOUS
  <2>2. QED
    BY <2>1 DEF Clocks
<1>7. f[Len(items)] \in Seq(Item)
  OBVIOUS
<1>8. QED
  BY <1>1, <1>5, <1>6, <1>7
(***************************************************************************)
(* The slices that the exchange makes when nothing in it goes astray: a    *)
(* Doc holds the first n edits of a client, an update a run of them.       *)
(***************************************************************************)
Edit1(e) == [clock |-> e, edit |-> e]

Prefix(n) == [i \in 1 .. n |-> Edit1(i - 1)]

IsRun(r) == \A i \in DOMAIN r : r[i] = Edit1(r[1].edit + i - 1)

\* The first n edits.
LEMMA PrefixType ==
  ASSUME NEW n \in Nat
  PROVE  /\ Prefix(n) \in Seq(Item) /\ Len(Prefix(n)) = n /\ DOMAIN Prefix(n) = 1 .. n
         /\ \A i \in 1 .. n : Prefix(n)[i].clock = i - 1 /\ Prefix(n)[i].edit = i - 1
         /\ Edits(Prefix(n)) = 0 .. n - 1
         /\ State(Prefix(n)) = n
<1>1. \A i \in 1 .. n : Edit1(i - 1) \in Item
  BY DEF Edit1, Item
<1>2. Prefix(n) \in [1 .. n -> Item]
  BY <1>1 DEF Prefix
<1>3. Prefix(n) \in Seq(Item) /\ Len(Prefix(n)) = n /\ DOMAIN Prefix(n) = 1 .. n
  BY <1>2
<1>4. \A i \in 1 .. n : Prefix(n)[i].clock = i - 1 /\ Prefix(n)[i].edit = i - 1
  BY DEF Prefix, Edit1
<1>5. Edits(Prefix(n)) = 0 .. n - 1
  <2>1. ASSUME NEW e \in 0 .. n - 1
        PROVE  e + 1 \in DOMAIN Prefix(n) /\ Prefix(n)[e + 1].edit = e
    BY <1>3, <1>4
  <2>2. \A e \in 0 .. n - 1 : e \in Edits(Prefix(n))
    BY <2>1 DEF Edits
  <2>3. \A e \in Edits(Prefix(n)) : e \in 0 .. n - 1
    BY <1>3, <1>4 DEF Edits
  <2>4. QED
    BY <2>2, <2>3
<1>6. State(Prefix(n)) = n
  <2>1. CASE n = 0
    BY <1>3, <2>1 DEF State
  <2>2. CASE n # 0
    <3>1. Prefix(n) # <<>> /\ Prefix(n)[n].clock = n - 1
      BY <1>3, <1>4, <2>2
    <3>2. QED
      BY <1>3, <3>1 DEF State, Last
  <2>3. QED
    BY <2>1, <2>2
<1>7. QED
  BY <1>3, <1>4, <1>5, <1>6

\* One edit more.
LEMMA PrefixNext ==
  ASSUME NEW n \in Nat
  PROVE  Edits(Prefix(n + 1)) = 0 .. n
<1>1. n + 1 \in Nat /\ (n + 1) - 1 = n
  OBVIOUS
<1> DEFINE m == n + 1
<1>2. m \in Nat /\ m - 1 = n
  BY <1>1
<1> HIDE DEF m
<1>3. Edits(Prefix(m)) = 0 .. m - 1
  BY <1>2, PrefixType
<1>4. QED
  BY <1>2, <1>3 DEF m

\* getItem finds exactly the first n clocks.
LEMMA PrefixHolds ==
  ASSUME NEW n \in Nat, NEW clock \in Nat
  PROVE  Holds(Prefix(n), clock) <=> clock < n
<1> DEFINE s == Prefix(n)
           above == { i \in 0 .. Len(s) - 1 : s[i + 1].clock > clock }
           r == Search(Len(s), above)
<1>0. \A i \in 1 .. n : Prefix(n)[i].clock = i - 1
  BY PrefixType
<1>1. Len(s) = n
  BY PrefixType
<1>2. \A x \in 0 .. n - 1 : x \in above <=> x > clock
  <2>1. ASSUME NEW x \in 0 .. n - 1
        PROVE  s[x + 1].clock = x
    <3>1. x + 1 \in 1 .. n /\ (x + 1) - 1 = x
      OBVIOUS
    <3>2. s[x + 1].clock = (x + 1) - 1
      BY <1>0, <3>1
    <3>3. QED
      BY <3>1, <3>2
  <2>2. QED
    BY <1>1, <2>1
<1>3. Holds(s, clock) <=> r > 0 /\ s[r].clock = clock
  BY DEF Holds
<1>4. r \in 0 .. n /\ \A x \in 0 .. n - 1 : x \in above <=> r <= x
  <2> HIDE DEF s, above
  <2>1. \A x \in 0 .. n - 1, y \in 0 .. n - 1 : x \in above /\ x <= y => y \in above
    BY <1>2
  <2>2. QED
    BY <1>1, <2>1, SearchInRange, SearchFindsFirst
<1> HIDE DEF above, r
<1>5. CASE clock < n
  <2>1. r = clock + 1
    <3>1. clock \notin above
      BY <1>2, <1>5
    <3>2. r > clock
      BY <1>4, <1>5, <3>1
    <3>3. clock + 1 < n => clock + 1 \in above
      BY <1>2
    <3>4. r <= clock + 1
      BY <1>4, <3>3, <1>5
    <3>5. QED
      BY <1>4, <3>2, <3>4
  <2>2. s[r].clock = clock
    <3>1. clock + 1 \in 1 .. n /\ (clock + 1) - 1 = clock
      BY <1>5
    <3>2. QED
      BY <1>0, <2>1, <3>1
  <2>3. QED
    BY <1>3, <1>5, <2>1, <2>2
<1>6. CASE clock >= n
  <2>1. r > 0 => s[r].clock = r - 1
    BY <1>0, <1>4
  <2>2. QED
    BY <1>3, <1>4, <1>6, <2>1
<1>7. QED
  BY <1>5, <1>6

\* An edit that follows the slice extends it, one that it holds changes nothing.
LEMMA PrefixIntegrate ==
  ASSUME NEW n \in Nat, NEW e \in 0 .. n
  PROVE  integrateItem(Prefix(n), Edit1(e)) = Prefix(IF e = n THEN n + 1 ELSE n)
<1>1. Holds(Prefix(n), Edit1(e).clock) <=> e < n
  BY PrefixHolds DEF Edit1
<1>2. CASE e < n
  BY <1>1, <1>2 DEF integrateItem
<1>3. CASE e = n
  <2>1. integrateItem(Prefix(n), Edit1(e)) = Append(Prefix(n), Edit1(n))
    BY <1>1, <1>3 DEF integrateItem
  <2>2. Append(Prefix(n), Edit1(n)) = Prefix(n + 1)
    <3>1. Edit1(n) \in Item
      BY DEF Edit1, Item
    <3>2. Append(Prefix(n), Edit1(n)) \in Seq(Item) /\ Len(Append(Prefix(n), Edit1(n))) = n + 1
      BY <3>1, PrefixType
    <3>3. Prefix(n + 1) \in Seq(Item) /\ Len(Prefix(n + 1)) = n + 1
      BY PrefixType
    <3>4. ASSUME NEW i \in 1 .. n + 1
          PROVE  Append(Prefix(n), Edit1(n))[i] = Prefix(n + 1)[i]
      <4>1. CASE i \in 1 .. n
        BY <4>1, PrefixType DEF Prefix
      <4>2. CASE i = n + 1
        BY <4>2, PrefixType DEF Prefix
      <4>3. i \in 1 .. n \/ i = n + 1
        OBVIOUS
      <4>4. QED
        BY <4>1, <4>2, <4>3
    <3>5. QED
      BY <3>2, <3>3, <3>4, SeqEqual
  <2>3. QED
    BY <1>3, <2>1, <2>2
<1>4. QED
  BY <1>2, <1>3

\* A run that begins no later than where the slice ends extends it to its own end.
LEMMA PrefixIntegrated ==
  ASSUME NEW n \in Nat, NEW r \in Seq(Item), IsRun(r), r # <<>> => r[1].edit <= n
  PROVE  \E m \in Nat : /\ Integrated(Prefix(n), r) = Prefix(m)
                        /\ m >= n
                        /\ 0 .. m - 1 = (0 .. n - 1) \cup Edits(r)
<1>1. PICK f \in [0 .. Len(r) -> Seq(Item)] :
         /\ f[0] = Prefix(n)
         /\ \A i \in 1 .. Len(r) : f[i] = integrateItem(f[i - 1], r[i])
         /\ Integrated(Prefix(n), r) = f[Len(r)]
  <2>1. Prefix(n) \in Seq(Item)
    BY PrefixType
  <2>2. QED
    BY <2>1, IntegratedSteps
<1>2. CASE r = <<>>
  <2>1. Integrated(Prefix(n), r) = Prefix(n) /\ Edits(r) = {}
    BY <1>1, <1>2 DEF Edits
  <2>2. QED
    BY <2>1
<1>3. CASE r # <<>>
  <2> DEFINE a == r[1].edit
             end(i) == IF a + i > n THEN a + i ELSE n
             Good == { i \in Nat : i <= Len(r) => f[i] = Prefix(end(i)) }
  <2>1. a \in Nat /\ a <= n /\ Len(r) \in Nat \ {0}
    <3>1. r[1] \in Item /\ Len(r) \in Nat \ {0}
      BY <1>3
    <3>2. QED
      BY <1>3, <3>1 DEF Item
  <2>2. 0 \in Good
    BY <1>1, <2>1
  <2>3. ASSUME NEW i \in Nat, i \in Good
        PROVE  i + 1 \in Good
    <3>1. SUFFICES ASSUME i + 1 <= Len(r) PROVE f[i + 1] = Prefix(end(i + 1))
      OBVIOUS
    <3>2. f[i + 1] = integrateItem(f[(i + 1) - 1], r[i + 1]) /\ (i + 1) - 1 = i
      BY <1>1, <3>1
    <3>3. f[i] = Prefix(end(i))
      BY <2>3, <3>1
    <3>4. r[i + 1] = Edit1(a + i)
      <4>1. i + 1 \in DOMAIN r /\ a + (i + 1) - 1 = a + i
        BY <2>1, <3>1
      <4>2. QED
        BY <4>1 DEF IsRun
    <3>5. end(i) \in Nat /\ a + i \in 0 .. end(i)
      BY <2>1
    <3>6. f[i + 1] = Prefix(IF a + i = end(i) THEN end(i) + 1 ELSE end(i))
      <4> HIDE DEF end, a
      <4>1. QED
        BY <3>2, <3>3, <3>4, <3>5, PrefixIntegrate
    <3>7. (IF a + i = end(i) THEN end(i) + 1 ELSE end(i)) = end(i + 1)
      <4>1. a \in Nat /\ a <= n
        BY <2>1
      <4> HIDE DEF a
      <4>2. QED
        BY <4>1
    <3>8. QED
      BY <3>6, <3>7
  <2>4. \A i \in Nat : i \in Good
    <3> HIDE DEF Good
    <3>1. QED
      BY <2>2, <2>3, Induction
  <2>5. f[Len(r)] = Prefix(end(Len(r)))
    <3>1. Len(r) \in Good
      <4> HIDE DEF Good
      <4>1. QED
        BY <2>1, <2>4
    <3>2. QED
      BY <3>1
  <2>6. Edits(r) = a .. a + Len(r) - 1
    <3>1. \A i \in 1 .. Len(r) : r[i].edit = a + i - 1
      BY DEF IsRun, Edit1
    <3>2. \A e \in Edits(r) : e \in a .. a + Len(r) - 1
      BY <2>1, <3>1 DEF Edits
    <3>3. ASSUME NEW e \in a .. a + Len(r) - 1
          PROVE  e \in Edits(r)
      <4>1. e - a + 1 \in 1 .. Len(r) /\ a + (e - a + 1) - 1 = e
        BY <2>1
      <4>2. r[e - a + 1].edit = e
        BY <3>1, <4>1
      <4>3. QED
        BY <4>1, <4>2 DEF Edits
    <3>4. QED
      BY <3>2, <3>3
  <2>7. end(Len(r)) \in Nat /\ end(Len(r)) >= n
    BY <2>1
  <2>8. 0 .. end(Len(r)) - 1 = (0 .. n - 1) \cup Edits(r)
    BY <2>1, <2>6
  <2>9. QED
    BY <1>1, <2>5, <2>7, <2>8
<1>4. QED
  BY <1>2, <1>3
\* What lies beyond a state.
LEMMA BeyondType ==
  ASSUME NEW s \in Seq(Item), NEW state \in Nat
  PROVE  Beyond(s, state) \in Seq(Item)
<1> DEFINE above == { i \in 0 .. Len(s) - 1 : s[i + 1].clock >= state }
           n     == Search(Len(s), above)
           rest  == SubSeq(s, n + 1, Len(s))
           item(i) == [rest[i] EXCEPT !.clock = rest[1].clock + i - 1]
<1>1. n \in 0 .. Len(s)
  <2>1. Len(s) \in Nat
    OBVIOUS
  <2> HIDE DEF above
  <2>2. QED
    BY <2>1, SearchInRange
<1> HIDE DEF n
<1>2. rest \in Seq(Item)
  BY <1>1
<1> HIDE DEF rest
<1>3. ASSUME NEW i \in DOMAIN rest
      PROVE  item(i) \in Item
  <2>1. rest[i] \in Item /\ rest[1] \in Item /\ i \in Nat /\ i >= 1
    BY <1>2
  <2>2. rest[1].clock + i - 1 \in Nat
    BY <2>1 DEF Item
  <2>3. QED
    BY <2>1, <2>2 DEF Item
<1>4. Beyond(s, state) = [i \in DOMAIN rest |-> item(i)]
  BY DEF Beyond, rest, n
<1> HIDE DEF item
<1>5. QED
  BY <1>2, <1>3, <1>4

\* Of the first n edits, those from a state on are a run.
LEMMA BeyondPrefix ==
  ASSUME NEW n \in Nat, NEW state \in Nat
  PROVE  /\ IsRun(Beyond(Prefix(n), state))
         /\ Edits(Beyond(Prefix(n), state)) = state .. n - 1
         /\ Beyond(Prefix(n), state) # <<>> => Beyond(Prefix(n), state)[1].edit = state
<1> DEFINE s     == Prefix(n)
           above == { i \in 0 .. Len(s) - 1 : s[i + 1].clock >= state }
           r     == Search(Len(s), above)
           rest  == SubSeq(s, r + 1, Len(s))
           B     == [i \in DOMAIN rest |-> [rest[i] EXCEPT !.clock = rest[1].clock + i - 1]]
<1>0. B = Beyond(Prefix(n), state)
  BY DEF Beyond
<1>1. Len(s) = n /\ s \in Seq(Item) /\ \A i \in 1 .. n : s[i] = Edit1(i - 1)
  <2>1. Len(s) = n /\ s \in Seq(Item)
    BY PrefixType
  <2>2. QED
    BY <2>1 DEF Prefix
<1>2. \A x \in 0 .. n - 1 : x \in above <=> x >= state
  <2>1. ASSUME NEW x \in 0 .. n - 1
        PROVE  s[x + 1].clock = x
    <3>1. x + 1 \in 1 .. n /\ (x + 1) - 1 = x
      OBVIOUS
    <3>2. s[x + 1] = Edit1((x + 1) - 1)
      BY <1>1, <3>1
    <3>3. QED
      BY <3>1, <3>2 DEF Edit1
  <2>2. QED
    BY <1>1, <2>1
<1>3. r \in 0 .. n /\ \A x \in 0 .. n - 1 : x \in above <=> r <= x
  <2> HIDE DEF s, above
  <2>1. \A x \in 0 .. n - 1, y \in 0 .. n - 1 : x \in above /\ x <= y => y \in above
    BY <1>2
  <2>2. QED
    BY <1>1, <2>1, SearchInRange, SearchFindsFirst
<1> HIDE DEF above, r
<1>4. \A x \in 0 .. n - 1 : state <= x <=> r <= x
  BY <1>2, <1>3
<1>5. state <= n => r = state
  <2>1. CASE state < n
    <3>1. state \in 0 .. n - 1
      BY <2>1
    <3>2. r <= state
      BY <1>4, <3>1
    <3>3. r \in 0 .. n - 1
      BY <1>3, <2>1, <3>2
    <3>4. state <= r
      BY <1>4, <3>3
    <3>5. QED
      BY <1>3, <3>2, <3>4
  <2>2. CASE state = n
    <3>1. r < n => r \in 0 .. n - 1
      BY <1>3
    <3>2. ~(r < n)
      BY <1>4, <2>2, <3>1
    <3>3. QED
      BY <1>3, <2>2, <3>2
  <2>3. QED
    BY <2>1, <2>2
<1>6. state > n => r = n
  <2>1. SUFFICES ASSUME state > n, r < n PROVE FALSE
    BY <1>3
  <2>2. r \in 0 .. n - 1
    BY <1>3, <2>1
  <2>3. QED
    BY <1>4, <2>1, <2>2
<1>7. rest \in Seq(Item) /\ Len(rest) = n - r /\ \A i \in 1 .. n - r : rest[i] = Edit1(r + i - 1)
  <2>1. rest \in Seq(Item) /\ Len(rest) = n - r /\ \A i \in 1 .. n - r : rest[i] = s[r + i]
    <3> HIDE DEF s
    <3>1. QED
      BY <1>1, <1>3
  <2>2. ASSUME NEW i \in 1 .. n - r
        PROVE  rest[i] = Edit1(r + i - 1)
    <3>1. r + i \in 1 .. n /\ (r + i) - 1 = r + i - 1
      BY <1>3
    <3>2. s[r + i] = Edit1((r + i) - 1)
      BY <1>1, <3>1
    <3>3. QED
      BY <2>1, <3>1, <3>2
  <2>3. QED
    BY <2>1, <2>2
<1> HIDE DEF rest
<1>8. DOMAIN B = 1 .. n - r /\ \A i \in 1 .. n - r : B[i] = Edit1(r + i - 1)
  <2>1. DOMAIN B = 1 .. n - r
    BY <1>3, <1>7
  <2>2. ASSUME NEW i \in 1 .. n - r
        PROVE  B[i] = Edit1(r + i - 1)
    <3>1. rest[1] = Edit1(r + 1 - 1) /\ rest[i] = Edit1(r + i - 1) /\ i \in DOMAIN rest
      BY <1>3, <1>7
    <3>2. rest[1].clock + i - 1 = r + i - 1
      BY <1>3, <3>1 DEF Edit1
    <3>3. B[i] = [rest[i] EXCEPT !.clock = r + i - 1]
      BY <3>1, <3>2
    <3>4. QED
      BY <3>1, <3>3 DEF Edit1
  <2>3. QED
    BY <2>1, <2>2
<1> HIDE DEF B
<1>9. \A i \in 1 .. n - r : B[i].edit = r + i - 1
  BY <1>8 DEF Edit1
<1>10. Edits(B) = r .. n - 1
  <2>1. \A e \in Edits(B) : e \in r .. n - 1
    BY <1>3, <1>8, <1>9 DEF Edits
  <2>2. ASSUME NEW e \in r .. n - 1
        PROVE  e \in Edits(B)
    <3>1. e - r + 1 \in 1 .. n - r /\ r + (e - r + 1) - 1 = e
      BY <1>3
    <3>2. B[e - r + 1].edit = e
      BY <1>9, <3>1
    <3>3. QED
      BY <1>8, <3>1, <3>2 DEF Edits
  <2>3. QED
    BY <2>1, <2>2
<1>11. IsRun(B)
  <2>1. ASSUME NEW i \in DOMAIN B
        PROVE  B[i] = Edit1(B[1].edit + i - 1)
    <3>1. i \in 1 .. n - r /\ 1 \in 1 .. n - r
      BY <1>3, <1>8
    <3>2. B[1].edit = r
      BY <1>3, <1>9, <3>1
    <3>3. QED
      BY <1>3, <1>8, <3>1, <3>2
  <2>2. QED
    BY <2>1 DEF IsRun
<1>12. r .. n - 1 = state .. n - 1
  BY <1>3, <1>5, <1>6
<1>13. B # <<>> => B[1].edit = state
  <2>1. CASE r = n
    <3>1. DOMAIN B = {}
      BY <1>8, <2>1
    <3>2. B = <<>>
      <4>1. B = [i \in 1 .. n - r |-> B[i]]
        BY <1>8 DEF B
      <4>2. QED
        BY <2>1, <4>1
    <3>3. QED
      BY <3>2
  <2>2. CASE r # n
    <3>1. 1 \in 1 .. n - r /\ r = state
      BY <1>3, <1>5, <1>6, <2>2
    <3>2. QED
      BY <1>9, <3>1
  <2>3. QED
    BY <2>1, <2>2
<1>14. QED
  BY <1>0, <1>10, <1>11, <1>12, <1>13
-----------------------------------------------------------------------------
(***************************************************************************)
(* Docs, messages and the list of a room.                                  *)
(***************************************************************************)
\* A connection belongs to a client.
LEMMA ClientOfConn ==
  ASSUME NEW k \in Conn
  PROVE  k[1] \in Client
  BY DEF Conn

\* A new Doc has no items.
LEMMA EmptySlices == Empty \in Slices /\ \A c \in Client : Empty[c] = <<>>
  BY DEF Empty, Slices

\* The state vector of a Doc names a clock of every client.
LEMMA stateVectorType ==
  ASSUME NEW d \in Slices
  PROVE  stateVector(d) \in [Client -> Nat]
<1>1. ASSUME NEW c \in Client
      PROVE  State(d[c]) \in Nat
  <2>1. d[c] \in Seq(Item)
    BY DEF Slices
  <2>2. CASE d[c] = <<>>
    BY <2>2 DEF State
  <2>3. CASE d[c] # <<>>
    <3>1. d[c][Len(d[c])] \in Item
      BY <2>1, <2>3
    <3>2. QED
      BY <2>3, <3>1 DEF State, Last, Item
  <2>4. QED
    BY <2>2, <2>3
<1>2. QED
  BY <1>1 DEF stateVector

\* An update is made of slices.
LEMMA EncodeStateAsUpdateType ==
  ASSUME NEW d \in Slices, NEW sv \in [Client -> Nat]
  PROVE  EncodeStateAsUpdate(d, sv) \in Slices
  BY BeyondType DEF EncodeStateAsUpdate, Slices

\* A Doc keeps its IDs and takes those of the update.
LEMMA ApplyUpdateIds ==
  ASSUME NEW d \in Slices, NEW items \in Slices
  PROVE  /\ ApplyUpdate(d, items) \in Slices
         /\ Ids(d) \cup Ids(items) \subseteq Ids(ApplyUpdate(d, items))
<1> DEFINE a == ApplyUpdate(d, items)
<1>1. ASSUME NEW c \in Client
      PROVE  /\ a[c] \in Seq(Item)
             /\ Clocks(d[c]) \cup Clocks(items[c]) \subseteq Clocks(a[c])
  <2>1. d[c] \in Seq(Item) /\ items[c] \in Seq(Item)
    BY DEF Slices
  <2>2. a[c] = Integrated(d[c], items[c])
    BY DEF ApplyUpdate
  <2>3. QED
    BY <2>1, <2>2, IntegratedIds
<1>2. a \in Slices
  BY <1>1 DEF ApplyUpdate, Slices
<1> HIDE DEF a
<1>3. \A e : Ids(e) = UNION { { <<c, q>> : q \in Clocks(e[c]) } : c \in Client }
  BY DEF Ids, Clocks
<1>4. ASSUME NEW id \in Ids(d) \cup Ids(items)
      PROVE  id \in Ids(a)
  <2>1. PICK c \in Client : \E q \in Clocks(d[c]) \cup Clocks(items[c]) : id = <<c, q>>
    BY <1>3
  <2>2. \E q \in Clocks(a[c]) : id = <<c, q>>
    BY <1>1, <2>1
  <2>3. QED
    BY <1>3, <2>2
<1>5. QED
  BY <1>2, <1>4 DEF a

\* What the IDs are.
LEMMA IdsType ==
  ASSUME NEW items \in Slices
  PROVE  Ids(items) \subseteq Client \X Nat
<1>1. ASSUME NEW c \in Client, NEW i \in DOMAIN items[c]
      PROVE  items[c][i].clock \in Nat
  <2>1. items[c] \in Seq(Item)
    BY DEF Slices
  <2>2. items[c][i] \in Item
    BY <2>1
  <2>3. QED
    BY <2>2 DEF Item
<1>2. QED
  BY <1>1 DEF Ids

\* A list without a connection names the others, still each once.
LEMMA WithoutConn ==
  ASSUME NEW conns \in Seq(Conn), NEW k \in Conn,
         \A i, j \in DOMAIN conns : conns[i] = conns[j] => i = j
  PROVE  LET rest == Without(conns, k)
         IN  /\ rest \in Seq(Conn)
             /\ \A i, j \in DOMAIN rest : rest[i] = rest[j] => i = j
             /\ Range(rest) = Range(conns) \ {k}
<1> DEFINE rest == Without(conns, k)
<1>1. CASE k \notin Range(conns)
  <2>1. rest = conns
    BY <1>1 DEF Without
  <2>2. QED
    BY <1>1, <2>1
<1>2. CASE k \in Range(conns)
  <2> DEFINE n == CHOOSE i \in DOMAIN conns : conns[i] = k
  <2>1. n \in 1 .. Len(conns) /\ conns[n] = k
    BY <1>2 DEF Range
  <2> DEFINE left  == SubSeq(conns, 1, n - 1)
             right == SubSeq(conns, n + 1, Len(conns))
  <2>2. rest = left \o right
    BY <1>2 DEF Without, RemoveAt
  <2> HIDE DEF n, rest
  <2>3. left \in Seq(Conn) /\ Len(left) = n - 1 /\ \A i \in 1 .. n - 1 : left[i] = conns[i]
    BY <2>1
  <2>4. /\ right \in Seq(Conn) /\ Len(right) = Len(conns) - n
        /\ \A i \in 1 .. Len(conns) - n : right[i] = conns[n + i]
    BY <2>1
  <2> HIDE DEF left, right
  <2>5. rest \in Seq(Conn) /\ Len(rest) = Len(conns) - 1
    <3>1. Len(left \o right) = Len(left) + Len(right) /\ left \o right \in Seq(Conn)
      BY <2>3, <2>4, ConcatProperties
    <3>2. QED
      BY <2>1, <2>2, <2>3, <2>4, <3>1
  <2>6. ASSUME NEW i \in 1 .. Len(conns) - 1
        PROVE  rest[i] = IF i < n THEN conns[i] ELSE conns[i + 1]
    <3>1. CASE i < n
      <4>1. i \in 1 .. n - 1 /\ i <= Len(left)
        BY <2>1, <2>3, <3>1
      <4>2. rest[i] = left[i]
        BY <2>2, <2>3, <2>4, <4>1, ConcatProperties
      <4>3. QED
        BY <2>3, <3>1, <4>1, <4>2
    <3>2. CASE i >= n
      <4>1. i > Len(left) /\ i - Len(left) = i - n + 1 /\ i - n + 1 \in 1 .. Len(conns) - n
        BY <2>1, <2>3, <3>2
      <4>2. rest[i] = right[i - n + 1]
        BY <2>1, <2>2, <2>3, <2>4, <4>1, ConcatProperties
      <4>3. n + (i - n + 1) = i + 1
        BY <2>1
      <4>4. right[i - n + 1] = conns[n + (i - n + 1)]
        BY <2>4, <4>1
      <4>5. rest[i] = conns[i + 1]
        BY <4>2, <4>3, <4>4
      <4>6. QED
        BY <2>1, <3>2, <4>5
    <3>3. QED
      BY <2>1, <3>1, <3>2
  <2> HIDE DEF rest
  <2>7. ASSUME NEW i \in DOMAIN rest, NEW j \in DOMAIN rest, rest[i] = rest[j]
        PROVE  i = j
    <3>1. i \in 1 .. Len(conns) - 1 /\ j \in 1 .. Len(conns) - 1
      BY <2>5
    <3> DEFINE at(x) == IF x < n THEN x ELSE x + 1
    <3>2. /\ at(i) \in DOMAIN conns /\ at(j) \in DOMAIN conns
          /\ rest[i] = conns[at(i)] /\ rest[j] = conns[at(j)]
      BY <2>1, <2>6, <3>1
    <3>3. at(i) = at(j)
      BY <2>7, <3>2
    <3>4. QED
      BY <2>1, <3>1, <3>3
  <2>8. ASSUME NEW x \in Range(conns) \ {k}
        PROVE  x \in Range(rest)
    <3>1. PICK i \in 1 .. Len(conns) : conns[i] = x /\ i # n
      BY <2>1, <2>8 DEF Range
    <3>2. CASE i < n
      <4>1. i \in 1 .. Len(conns) - 1 /\ rest[i] = x
        BY <2>1, <2>6, <3>1, <3>2
      <4>2. QED
        BY <2>5, <4>1 DEF Range
    <3>3. CASE i > n
      <4>1. i - 1 \in 1 .. Len(conns) - 1 /\ rest[i - 1] = x
        BY <2>1, <2>6, <3>1, <3>3
      <4>2. QED
        BY <2>5, <4>1 DEF Range
    <3>4. QED
      BY <2>1, <3>1, <3>2, <3>3
  <2>9. ASSUME NEW x \in Range(rest)
        PROVE  x \in Range(conns) \ {k}
    <3>1. PICK i \in 1 .. Len(conns) - 1 : rest[i] = x
      BY <2>5, <2>9 DEF Range
    <3>2. PICK j \in 1 .. Len(conns) : conns[j] = x /\ j # n
      BY <2>1, <2>6, <3>1
    <3>3. QED
      BY <2>1, <3>2 DEF Range
  <2>10. QED
    BY <2>5, <2>7, <2>8, <2>9 DEF rest
<1>3. QED
  BY <1>1, <1>2

USE RelayAssumption DEF clientVars, relayVars, netVars, bounds

-----------------------------------------------------------------------------
(***************************************************************************)
(* Types.                                                                  *)
(***************************************************************************)
\* Messages that go out are messages.
LEMMA MessageTypes ==
  /\ \A sv \in [Client -> Nat] : [type |-> "step1", sv |-> sv] \in Message
  /\ \A items \in Slices : /\ [type |-> "step2", items |-> items] \in Message
                           /\ [type |-> "update", items |-> items] \in Message
  /\ \A msg \in Message : /\ msg.type \in {"step1", "step2", "update"}
                          /\ msg.type = "step1" => msg.sv \in [Client -> Nat]
                          /\ msg.type # "step1" => msg.items \in Slices
  BY DEF Message

\* What is read from a link is a message, and what remains are messages.
LEMMA HeadTail ==
  ASSUME NEW S, NEW s \in Seq(S), s # <<>>
  PROVE  /\ Head(s) \in S /\ Head(s) = s[1] /\ Tail(s) \in Seq(S) /\ Len(s) \in Nat \ {0}
         /\ Len(Tail(s)) = Len(s) - 1
         /\ \A i \in 1 .. Len(s) - 1 : Tail(s)[i] = s[i + 1]
  OBVIOUS

\* What a transaction of client c makes.
EditItem(c) == [clock |-> State(doc[c][c]), edit |-> Len(doc[c][c])]

\* What a transaction makes is an item, a slice with it, and an update of it.
LEMMA EditItemType ==
  ASSUME TypeOK, NEW c \in Client
  PROVE  /\ EditItem(c) \in Item
         /\ Append(doc[c][c], EditItem(c)) \in Seq(Item)
         /\ [Empty EXCEPT ![c] = <<EditItem(c)>>] \in Slices
<1>1. doc[c] \in Slices /\ doc[c][c] \in Seq(Item)
  BY DEF TypeOK, Slices
<1>2. State(doc[c][c]) \in Nat
  BY <1>1, stateVectorType DEF stateVector
<1>3. EditItem(c) \in Item
  BY <1>1, <1>2 DEF EditItem, Item
<1>4. QED
  BY <1>1, <1>3, EmptySlices DEF Slices
\* The steps of the system, each with the actor that takes it.
LEMMA NextSteps ==
  ASSUME [Next]_vars
  PROVE  \/ \E k \in Conn : \/ Dial(k) \/ AnswerStep1(k) \/ ReceiveStep2(k) \/ HandshakeFails(k)
                            \/ Register(k) \/ Receive(k) \/ LoopEnds(k) \/ Close(k)
         \/ \E c \in Client : Edit(c)
         \/ \E k \in Conn : \/ Greet(k) \/ Join(k) \/ Send(k) \/ ReadStep1(k) \/ ReadStep2(k)
                            \/ ReadUpdate(k) \/ Leave(k) \/ Break(k)
         \/ Restart
         \/ UNCHANGED vars
  BY DEF Next, ClientStep, RelayStep

\* The parts of TypeOK.
DocTypes == doc \in [Client -> Slices] /\ room \in Slices

StageTypes ==
    /\ phase \in [Conn -> {"new", "step1", "step2", "synced", "live", "over"}]
    /\ srv \in [Conn -> {"new", "accepted", "greeted", "reading", "gone"}]
    /\ link \in [Conn -> BOOLEAN]
    /\ \A k \in Conn : phase[k] = "new" => srv[k] = "new"

LinkType(u) == u \in [Conn -> Seq(Message)] /\ \A k \in Conn : Len(u[k]) <= Cap

PostTypes == outbox \in [Conn -> Seq([to : Conn, msg : Message])]

Registry ==
    /\ members \in Seq(Conn)
    /\ \A k \in Conn : k \in Range(members) <=> srv[k] = "reading"
    /\ \A i, j \in DOMAIN members : members[i] = members[j] => i = j

HistoryTypes == clean \in BOOLEAN /\ cast \in [Conn -> SUBSET (Client \X Nat)]

\* TypeOK is not inductive without this: a connection that nobody has dialled is not
\* read, so that Dial does not take one out of the loop behind the list of the room.
Fresh == \A k \in Conn : phase[k] = "new" => srv[k] = "new"

Types == TypeOK /\ Fresh

\* TypeOK, part by part.
LEMMA TypeParts ==
  Types <=> /\ DocTypes /\ StageTypes /\ LinkType(up) /\ LinkType(down)
            /\ PostTypes /\ Registry /\ HistoryTypes
  BY DEF Types, TypeOK, Fresh, DocTypes, StageTypes, LinkType, PostTypes, Registry, HistoryTypes

\* A link that holds other messages, no more than it can, is still a link.
LEMMA LinkExcept ==
  ASSUME NEW u, LinkType(u), NEW k \in Conn, NEW msgs \in Seq(Message), Len(msgs) <= Cap
  PROVE  LinkType([u EXCEPT ![k] = msgs])
  BY DEF LinkType

\* So is one that a message is sent on,
LEMMA LinkAppend ==
  ASSUME NEW u, LinkType(u), NEW k \in Conn, Len(u[k]) < Cap, NEW msg \in Message
  PROVE  LinkType([u EXCEPT ![k] = Append(@, msg)])
<1>1. Append(u[k], msg) \in Seq(Message) /\ Len(Append(u[k], msg)) <= Cap
  BY DEF LinkType
<1>2. QED
  BY <1>1, LinkExcept

\* one of which the first message is read,
LEMMA LinkTail ==
  ASSUME NEW u, LinkType(u), NEW k \in Conn, u[k] # <<>>
  PROVE  /\ LinkType([u EXCEPT ![k] = Tail(@)])
         /\ Head(u[k]) \in Message /\ Head(u[k]) = u[k][1]
<1>1. u[k] \in Seq(Message) /\ Len(u[k]) <= Cap
  BY DEF LinkType
<1>2. Tail(u[k]) \in Seq(Message) /\ Len(Tail(u[k])) <= Cap
  BY <1>1, HeadTail
<1>3. QED
  BY <1>1, <1>2, LinkExcept, HeadTail

\* one that lost all its messages,
LEMMA LinkCut ==
  ASSUME NEW u, LinkType(u), NEW k \in Conn
  PROVE  LinkType([u EXCEPT ![k] = <<>>])
<1>1. <<>> \in Seq(Message) /\ Len(<<>>) <= Cap
  OBVIOUS
<1>2. QED
  BY <1>1, LinkExcept

\* and one with a first message.
LEMMA LinkOne ==
  ASSUME NEW u, LinkType(u), NEW k \in Conn, NEW msg \in Message
  PROVE  LinkType([u EXCEPT ![k] = <<msg>>])
<1>1. <<msg>> \in Seq(Message)
  OBVIOUS
<1>2. Len(<<msg>>) = 1
  OBVIOUS
<1>3. Len(<<msg>>) <= Cap
  BY <1>2
<1>4. QED
  BY <1>1, <1>3, LinkExcept

\* A Doc or the room after an update.
LEMMA DocApply ==
  ASSUME DocTypes, NEW c \in Client, NEW items \in Slices
  PROVE  /\ [doc EXCEPT ![c] = ApplyUpdate(@, items)] \in [Client -> Slices]
         /\ ApplyUpdate(room, items) \in Slices
  BY ApplyUpdateIds DEF DocTypes

\* A goroutine has other things to send.
LEMMA PostExcept ==
  ASSUME PostTypes, NEW k \in Conn, NEW posts \in Seq([to : Conn, msg : Message]),
         outbox' = [outbox EXCEPT ![k] = posts]
  PROVE  PostTypes'
  BY DEF PostTypes

\* Steps that leave alone what a part of the types is about.
LEMMA SamePosts == ASSUME PostTypes, UNCHANGED outbox PROVE PostTypes'
  BY DEF PostTypes

\* The list of the room does not change.
LEMMA SameRegistry == ASSUME Registry, UNCHANGED <<members, srv>> PROVE Registry'
  BY DEF Registry

\* No Doc changes.
LEMMA SameDocs == ASSUME DocTypes, UNCHANGED <<doc, room>> PROVE DocTypes'
  BY DEF DocTypes

\* The history variables do not change.
LEMMA SameHistory == ASSUME HistoryTypes, UNCHANGED <<clean, cast>> PROVE HistoryTypes'
  BY DEF HistoryTypes

\* The types hold at first, and every step keeps them.
LEMMA TypesInit == Init => Types
<1> SUFFICES ASSUME Init PROVE Types
  OBVIOUS
<1>1. Len(<<>>) = 0 /\ <<>> \in Seq(Message) /\ DOMAIN <<>> = {}
  OBVIOUS
<1>2. LinkType(up) /\ LinkType(down)
  BY <1>1 DEF Init, LinkType
<1>3. DocTypes
  BY EmptySlices DEF Init, DocTypes
<1>4. Registry
  BY <1>1 DEF Init, Registry, Range
<1>5. StageTypes /\ PostTypes /\ HistoryTypes
  BY DEF Init, StageTypes, PostTypes, HistoryTypes
<1>6. QED
  BY <1>2, <1>3, <1>4, <1>5, TypeParts

\* Every step keeps the types, Dial and Leave the list of the room (relay.go, ServeHTTP).
LEMMA TypesStep == Types /\ [Next]_vars => Types'
<1> SUFFICES ASSUME Types, [Next]_vars
             PROVE  /\ DocTypes' /\ StageTypes' /\ LinkType(up') /\ LinkType(down')
                    /\ PostTypes' /\ Registry' /\ HistoryTypes'
  <2>1. LinkType(up') <=> LinkType(up)'
    BY DEF LinkType
  <2>2. LinkType(down') <=> LinkType(down)'
    BY DEF LinkType
  <2>3. QED
    BY <2>1, <2>2, TypeParts DEF Types, TypeOK, Fresh, DocTypes, StageTypes, LinkType, PostTypes,
       Registry, HistoryTypes
<1>0. /\ DocTypes /\ StageTypes /\ LinkType(up) /\ LinkType(down)
      /\ PostTypes /\ Registry /\ HistoryTypes
  BY TypeParts
<1>00. TypeOK
  BY DEF Types
<1> USE <1>0
<1> HIDE DEF clientVars, relayVars, netVars, bounds
<1> DEFINE Goal == /\ DocTypes' /\ StageTypes' /\ LinkType(up') /\ LinkType(down')
                   /\ PostTypes' /\ Registry' /\ HistoryTypes'
<1>1. ASSUME NEW k \in Conn, Dial(k) PROVE Goal
  <2>1. [type |-> "step1", sv |-> stateVector(doc[k[1]])] \in Message
    BY ClientOfConn, stateVectorType, MessageTypes DEF DocTypes
  <2>2. LinkType(up')
    BY <1>1, <2>1, LinkOne DEF Dial
  <2>3. StageTypes'
    BY <1>1 DEF Dial, StageTypes
  <2>4. Registry'
    BY <1>1 DEF Dial, Registry, StageTypes
  <2>5. QED
    BY <1>1, <2>2, <2>3, <2>4, SameDocs, SamePosts, SameHistory DEF Dial
<1>2. ASSUME NEW k \in Conn, AnswerStep1(k) PROVE Goal
  <2>1. down[k] # <<>> /\ Head(down[k]).type = "step1"
    BY <1>2 DEF AnswerStep1, Reads
  <2>2. LinkType(down') /\ Head(down[k]) \in Message
    BY <1>2, <2>1, LinkTail DEF AnswerStep1, Reads
  <2>3. EncodeStateAsUpdate(doc[k[1]], Head(down[k]).sv) \in Slices
    BY <2>1, <2>2, ClientOfConn, MessageTypes, EncodeStateAsUpdateType DEF DocTypes
  <2>4. LinkType(up')
    BY <1>2, <2>3, MessageTypes, LinkAppend DEF AnswerStep1
  <2>5. StageTypes'
    BY <1>2 DEF AnswerStep1, StageTypes, relayVars
  <2>6. QED
    BY <1>2, <2>2, <2>4, <2>5, SameDocs, SamePosts, SameHistory, SameRegistry
    DEF AnswerStep1, relayVars
<1>3. ASSUME NEW k \in Conn, ReceiveStep2(k) PROVE Goal
  <2>1. down[k] # <<>> /\ Head(down[k]).type = "step2"
    BY <1>3 DEF ReceiveStep2, Reads
  <2>2. LinkType(down') /\ Head(down[k]) \in Message
    BY <1>3, <2>1, LinkTail DEF ReceiveStep2, Reads
  <2>3. DocTypes'
    BY <1>3, <2>1, <2>2, ClientOfConn, MessageTypes, DocApply DEF ReceiveStep2, DocTypes, relayVars
  <2>4. StageTypes'
    BY <1>3 DEF ReceiveStep2, StageTypes, relayVars
  <2>5. QED
    BY <1>3, <2>2, <2>3, <2>4, SamePosts, SameHistory, SameRegistry DEF ReceiveStep2, relayVars
<1>4. ASSUME NEW k \in Conn, HandshakeFails(k) PROVE Goal
  <2>1. LinkType(down')
    BY <1>4, LinkCut DEF HandshakeFails, Cut
  <2>2. StageTypes'
    BY <1>4 DEF HandshakeFails, Cut, StageTypes, relayVars
  <2>3. QED
    BY <1>4, <2>1, <2>2, SameDocs, SamePosts, SameHistory, SameRegistry
    DEF HandshakeFails, relayVars
<1>5. ASSUME NEW k \in Conn, Register(k) PROVE Goal
  <2>1. StageTypes'
    BY <1>5 DEF Register, StageTypes, relayVars, netVars
  <2>2. QED
    BY <1>5, <2>1, SameDocs, SamePosts, SameHistory, SameRegistry
    DEF Register, relayVars, netVars
<1>6. ASSUME NEW k \in Conn, Receive(k) PROVE Goal
  <2>1. down[k] # <<>> /\ Head(down[k]).type = "update"
    BY <1>6 DEF Receive, Reads
  <2>2. LinkType(down') /\ Head(down[k]) \in Message
    BY <1>6, <2>1, LinkTail DEF Receive, Reads
  <2>3. DocTypes'
    BY <1>6, <2>1, <2>2, ClientOfConn, MessageTypes, DocApply DEF Receive, DocTypes, relayVars
  <2>4. StageTypes'
    BY <1>6 DEF Receive, StageTypes, relayVars
  <2>5. QED
    BY <1>6, <2>2, <2>3, <2>4, SamePosts, SameHistory, SameRegistry DEF Receive, relayVars
<1>7. ASSUME NEW k \in Conn, LoopEnds(k) PROVE Goal
  <2>1. StageTypes'
    BY <1>7 DEF LoopEnds, StageTypes, relayVars, netVars
  <2>2. QED
    BY <1>7, <2>1, SameDocs, SamePosts, SameHistory, SameRegistry
    DEF LoopEnds, relayVars, netVars
<1>8. ASSUME NEW k \in Conn, Close(k) PROVE Goal
  <2>1. LinkType(down')
    BY <1>8, LinkCut DEF Close, Cut
  <2>2. StageTypes'
    BY <1>8 DEF Close, Cut, StageTypes, relayVars
  <2>3. QED
    BY <1>8, <2>1, <2>2, SameDocs, SamePosts, SameHistory, SameRegistry
    DEF Close, relayVars
<1>9. ASSUME NEW k \in Conn, Greet(k) PROVE Goal
  <2>1. LinkType(down')
    <3>1. [type |-> "step1", sv |-> stateVector(room)] \in Message
      BY stateVectorType, MessageTypes DEF DocTypes
    <3>2. QED
      BY <1>9, <3>1, LinkOne DEF Greet
  <2>2. StageTypes'
    BY <1>9 DEF Greet, StageTypes, clientVars
  <2>3. Registry'
    BY <1>9 DEF Greet, Registry, StageTypes
  <2>4. QED
    BY <1>9, <2>1, <2>2, <2>3, SameDocs, SamePosts, SameHistory DEF Greet, clientVars
<1>10. ASSUME NEW k \in Conn, Join(k) PROVE Goal
  <2>1. StageTypes'
    BY <1>10 DEF Join, StageTypes, clientVars, netVars
  <2>2. Registry'
    <3>1. k \notin Range(members)
      BY <1>10 DEF Join, Registry
    <3>2. /\ members' \in Seq(Conn) /\ Len(members') = Len(members) + 1
          /\ members'[Len(members) + 1] = k
          /\ \A i \in 1 .. Len(members) : members'[i] = members[i]
      BY <1>10 DEF Join, Registry
    <3>3. Range(members') = Range(members) \cup {k}
      <4>1. \A x \in Range(members) : x \in Range(members')
        BY <3>2 DEF Range, Registry
      <4>2. k \in Range(members')
        BY <3>2 DEF Range, Registry
      <4>3. \A x \in Range(members') : x \in Range(members) \cup {k}
        BY <3>2 DEF Range, Registry
      <4>4. QED
        BY <4>1, <4>2, <4>3
    <3>4. \A j \in Conn : j \in Range(members') <=> srv'[j] = "reading"
      BY <1>10, <3>3 DEF Join, Registry, StageTypes
    <3>5. ASSUME NEW i \in DOMAIN members', NEW j \in DOMAIN members', members'[i] = members'[j]
          PROVE  i = j
      BY <3>1, <3>2, <3>5 DEF Range, Registry
    <3>6. QED
      BY <3>2, <3>4, <3>5 DEF Registry
  <2>3. QED
    BY <1>10, <2>1, <2>2, SameDocs, SamePosts, SameHistory DEF Join, clientVars, netVars
<1>11. ASSUME NEW k \in Conn, Send(k) PROVE Goal
  <2>1. outbox[k] \in Seq([to : Conn, msg : Message]) /\ outbox[k] # <<>>
    BY <1>11 DEF Send, PostTypes
  <2>2. /\ Head(outbox[k]).to \in Conn /\ Head(outbox[k]).msg \in Message
        /\ Tail(outbox[k]) \in Seq([to : Conn, msg : Message])
    <3> DEFINE S == [to : Conn, msg : Message]
    <3>1. Head(outbox[k]) \in S /\ Tail(outbox[k]) \in Seq(S)
      <4> HIDE DEF S
      <4>1. QED
        BY <2>1, HeadTail DEF S
    <3>2. QED
      BY <3>1
  <2>3. LinkType(down')
    BY <1>11, <2>2, LinkAppend DEF Send
  <2>4. PostTypes'
    BY <1>11, <2>2, PostExcept DEF Send
  <2>5. StageTypes'
    BY <1>11 DEF Send, StageTypes, clientVars
  <2>6. QED
    BY <1>11, <2>3, <2>4, <2>5, SameDocs, SameRegistry, SameHistory DEF Send, clientVars
<1>12. ASSUME NEW k \in Conn, ReadStep1(k) PROVE Goal
  <2>1. up[k] # <<>> /\ Head(up[k]).type = "step1"
    BY <1>12 DEF ReadStep1, RelayReads
  <2>2. LinkType(up') /\ Head(up[k]) \in Message
    BY <1>12, <2>1, LinkTail DEF ReadStep1, RelayReads
  <2>3. EncodeStateAsUpdate(room, Head(up[k]).sv) \in Slices
    BY <2>1, <2>2, MessageTypes, EncodeStateAsUpdateType DEF DocTypes
  <2>4. PostTypes'
    <3> DEFINE msg == [type |-> "step2", items |-> EncodeStateAsUpdate(room, Head(up[k]).sv)]
    <3>1. msg \in Message
      BY <2>3, MessageTypes
    <3>2. outbox' = [outbox EXCEPT ![k] = <<[to |-> k, msg |-> msg]>>]
      BY <1>12 DEF ReadStep1
    <3> HIDE DEF msg
    <3>3. [to |-> k, msg |-> msg] \in [to : Conn, msg : Message]
      BY <3>1
    <3>4. <<[to |-> k, msg |-> msg]>> \in Seq([to : Conn, msg : Message])
      BY <3>3
    <3>5. QED
      BY <3>2, <3>4, PostExcept
  <2>5. StageTypes'
    BY <1>12 DEF ReadStep1, StageTypes, clientVars
  <2>6. QED
    BY <1>12, <2>2, <2>4, <2>5, SameDocs, SameRegistry, SameHistory DEF ReadStep1, clientVars
<1>13. ASSUME NEW k \in Conn, ReadStep2(k) PROVE Goal
  <2>1. up[k] # <<>> /\ Head(up[k]).type = "step2"
    BY <1>13 DEF ReadStep2, RelayReads
  <2>2. LinkType(up') /\ Head(up[k]) \in Message
    BY <1>13, <2>1, LinkTail DEF ReadStep2, RelayReads
  <2>3. DocTypes'
    BY <1>13, <2>1, <2>2, ClientOfConn, MessageTypes, DocApply DEF ReadStep2, DocTypes, clientVars
  <2>4. StageTypes'
    BY <1>13 DEF ReadStep2, StageTypes, clientVars
  <2>5. HistoryTypes'
    BY <1>13 DEF ReadStep2, HistoryTypes
  <2>6. QED
    BY <1>13, <2>2, <2>3, <2>4, <2>5, SamePosts, SameRegistry DEF ReadStep2
<1>14. ASSUME NEW k \in Conn, ReadUpdate(k) PROVE Goal
  <2> DEFINE msg    == Head(up[k])
             others == Without(members, k)
  <2>1. up[k] # <<>> /\ msg.type = "update"
    BY <1>14 DEF ReadUpdate, RelayReads
  <2>2. LinkType(up') /\ msg \in Message
    BY <1>14, <2>1, LinkTail DEF ReadUpdate, RelayReads
  <2>3. msg.items \in Slices
    BY <2>1, <2>2, MessageTypes
  <2>4. DocTypes'
    BY <1>14, <2>3, ClientOfConn, DocApply DEF ReadUpdate, DocTypes, clientVars
  <2>5. PostTypes'
    <3>1. others \in Seq(Conn)
      BY WithoutConn DEF Registry
    <3>2. [i \in DOMAIN others |-> [to |-> others[i], msg |-> msg]]
             \in Seq([to : Conn, msg : Message])
      <4> HIDE DEF others, msg
      <4>1. DOMAIN others = 1 .. Len(others) /\ Len(others) \in Nat
        BY <3>1
      <4>2. \A i \in 1 .. Len(others) : [to |-> others[i], msg |-> msg] \in [to : Conn, msg : Message]
        BY <2>2, <3>1
      <4>3. QED
        BY <4>1, <4>2
    <3>3. outbox' = [outbox EXCEPT ![k] = [i \in DOMAIN others |-> [to |-> others[i], msg |-> msg]]]
      BY <1>14 DEF ReadUpdate
    <3>4. QED
      BY <3>2, <3>3, PostExcept
  <2>6. StageTypes'
    BY <1>14 DEF ReadUpdate, StageTypes, clientVars
  <2>7. HistoryTypes'
    <3>1. Ids(msg.items) \subseteq Client \X Nat
      BY <2>3, IdsType
    <3>2. cast' = [j \in Conn |-> IF j \in Range(members) THEN cast[j] \cup Ids(msg.items) ELSE cast[j]]
      BY <1>14 DEF ReadUpdate
    <3>3. clean' \in BOOLEAN
      BY <1>14 DEF ReadUpdate, HistoryTypes
    <3>4. QED
      BY <3>1, <3>2, <3>3 DEF HistoryTypes
  <2>8. QED
    BY <1>14, <2>2, <2>4, <2>5, <2>6, <2>7, SameRegistry DEF ReadUpdate
<1>15. ASSUME NEW k \in Conn, Leave(k) PROVE Goal
  <2>1. LinkType(up')
    BY <1>15, LinkCut DEF Leave
  <2>2. StageTypes'
    BY <1>15 DEF Leave, StageTypes, clientVars
  <2>3. Registry'
    <3>1. /\ members' \in Seq(Conn) /\ Range(members') = Range(members) \ {k}
          /\ \A i, j \in DOMAIN members' : members'[i] = members'[j] => i = j
      BY <1>15, WithoutConn DEF Leave, Registry
    <3>2. QED
      BY <1>15, <3>1 DEF Leave, Registry, StageTypes
  <2>4. QED
    BY <1>15, <2>1, <2>2, <2>3, SameDocs, SamePosts, SameHistory DEF Leave, clientVars
<1>16. ASSUME NEW k \in Conn, Break(k) PROVE Goal
  <2>1. LinkType(down')
    BY <1>16, LinkCut DEF Break, Cut
  <2>2. StageTypes'
    BY <1>16 DEF Break, Cut, StageTypes, relayVars, clientVars
  <2>3. QED
    BY <1>16, <2>1, <2>2, SameDocs, SamePosts, SameHistory, SameRegistry
    DEF Break, relayVars, clientVars
<1>17. ASSUME NEW c \in Client, Edit(c) PROVE Goal
  <2>1. doc' = [doc EXCEPT ![c][c] = Append(@, EditItem(c))]
    BY <1>17 DEF Edit, EditItem
  <2>2. DocTypes'
    <3>1. [doc[c] EXCEPT ![c] = Append(@, EditItem(c))] \in Slices
      BY <1>00, EditItemType DEF DocTypes, Slices
    <3>2. doc' \in [Client -> Slices]
      BY <2>1, <3>1 DEF DocTypes
    <3>3. QED
      BY <1>17, <3>2 DEF Edit, DocTypes, relayVars
  <2> DEFINE msg == [type |-> "update", items |-> [Empty EXCEPT ![c] = <<EditItem(c)>>]]
  <2>3. msg \in Message
    BY <1>00, EditItemType, MessageTypes
  <2>4. up' = [k \in Conn |-> IF k \in Registered(c) THEN Append(up[k], msg) ELSE up[k]]
    BY <1>17 DEF Edit, EditItem
  <2> HIDE DEF msg
  <2>5. LinkType(up')
    <3>1. ASSUME NEW k \in Conn
          PROVE  up'[k] \in Seq(Message) /\ Len(up'[k]) <= Cap
      <4>1. CASE k \in Registered(c)
        <5>1. Len(up[k]) < Cap
          BY <1>17, <4>1 DEF Edit
        <5>2. QED
          BY <2>3, <2>4, <4>1, <5>1 DEF LinkType
      <4>2. CASE k \notin Registered(c)
        BY <2>4, <4>2 DEF LinkType
      <4>3. QED
        BY <4>1, <4>2
    <3>2. QED
      BY <2>4, <3>1 DEF LinkType
  <2>6. StageTypes'
    BY <1>17 DEF Edit, StageTypes, relayVars
  <2>7. HistoryTypes'
    BY <1>17 DEF Edit, HistoryTypes
  <2>8. QED
    BY <1>17, <2>2, <2>5, <2>6, <2>7, SamePosts, SameRegistry DEF Edit, relayVars
<1>18. CASE Restart
  <2>1. DocTypes'
    BY <1>18, EmptySlices DEF Restart, DocTypes, clientVars
  <2>2. StageTypes'
    BY <1>18 DEF Restart, StageTypes, clientVars
  <2>3. LinkType(up') /\ LinkType(down')
    BY <1>18 DEF Restart, LinkType
  <2>4. PostTypes'
    BY <1>18 DEF Restart, PostTypes
  <2>5. Registry'
    BY <1>18 DEF Restart, Registry, Range
  <2>6. HistoryTypes'
    BY <1>18 DEF Restart, HistoryTypes
  <2>7. QED
    BY <2>1, <2>2, <2>3, <2>4, <2>5, <2>6
<1>19. CASE UNCHANGED vars
  <2>1. StageTypes'
    BY <1>19 DEF vars, StageTypes, clientVars, relayVars, netVars
  <2>2. QED
    BY <1>19, <2>1, SameDocs, SamePosts, SameRegistry, SameHistory
    DEF vars, clientVars, relayVars, netVars
<1> HIDE DEF Goal
<1>20. QED
  BY <1>1, <1>2, <1>3, <1>4, <1>5, <1>6, <1>7, <1>8, <1>9, <1>10, <1>11, <1>12, <1>13,
     <1>14, <1>15, <1>16, <1>17, <1>18, <1>19, NextSteps DEF Goal

\* The types of the variables are an invariant, and the room lists exactly the
\* connections that are read.
THEOREM TypeCorrect == Spec => []TypeOK
<1>1. Types => TypeOK
  BY DEF Types
<1>2. QED
  BY <1>1, TypesInit, TypesStep, PTL DEF Spec

-----------------------------------------------------------------------------
(***************************************************************************)
(* The handshake as the two sides see it.  Phase, srv and link hang        *)
(* together, and what a connection that is not up carries is nothing.      *)
(***************************************************************************)
Stages ==
    \A k \in Conn :
        /\ phase[k] = "new" <=> srv[k] = "new"
        /\ phase[k] \in {"new", "over"} => ~link[k]
        /\ srv[k] = "gone" => ~link[k]
        /\ srv[k] = "accepted" => phase[k] \in {"step1", "over"}

Quiet ==
    \A k \in Conn :
        /\ ~link[k] => down[k] = <<>>
        /\ srv[k] \in {"new", "gone"} => up[k] = <<>>
        /\ srv[k] # "reading" => outbox[k] = <<>>
        /\ srv[k] = "accepted" => down[k] = <<>>

\* What a goroutine has to send goes to connections that joined the room, and a
\* step 2 to its own.
Addressed ==
    \A j \in Conn : \A i \in DOMAIN outbox[j] :
        /\ srv[outbox[j][i].to] \in {"reading", "gone"}
        /\ outbox[j][i].msg.type # "step1"
        /\ outbox[j][i].msg.type = "step2" => outbox[j][i].to = j /\ Len(outbox[j]) = 1

Protocol == Stages /\ Quiet /\ Addressed

\* What a goroutine has to send: a message, and to whom.
LEMMA PostAt ==
  ASSUME PostTypes, NEW j \in Conn
  PROVE  /\ Len(outbox[j]) \in Nat /\ DOMAIN outbox[j] = 1 .. Len(outbox[j])
         /\ \A i \in DOMAIN outbox[j] : outbox[j][i].to \in Conn /\ outbox[j][i].msg \in Message
         /\ outbox[j] # <<>> => /\ Head(outbox[j]) = outbox[j][1] /\ 1 \in DOMAIN outbox[j]
                               /\ Len(Tail(outbox[j])) = Len(outbox[j]) - 1
                               /\ DOMAIN Tail(outbox[j]) = 1 .. Len(outbox[j]) - 1
                               /\ \A i \in DOMAIN Tail(outbox[j]) : Tail(outbox[j])[i] = outbox[j][i + 1]
                               /\ Len(outbox[j]) = 1 => Tail(outbox[j]) = <<>>
<1> DEFINE S == [to : Conn, msg : Message]
<1>1. outbox[j] \in Seq(S)
  BY DEF PostTypes
<1>2. \A p \in S : p.to \in Conn /\ p.msg \in Message
  OBVIOUS
<1> HIDE DEF S
<1>3. \A i \in DOMAIN outbox[j] : outbox[j][i] \in S
  BY <1>1
<1>4. Len(outbox[j]) \in Nat /\ DOMAIN outbox[j] = 1 .. Len(outbox[j])
  BY <1>1
<1>5. ASSUME outbox[j] # <<>>
      PROVE  /\ Head(outbox[j]) = outbox[j][1] /\ 1 \in DOMAIN outbox[j]
             /\ Len(Tail(outbox[j])) = Len(outbox[j]) - 1
             /\ DOMAIN Tail(outbox[j]) = 1 .. Len(outbox[j]) - 1
             /\ \A i \in DOMAIN Tail(outbox[j]) : Tail(outbox[j])[i] = outbox[j][i + 1]
             /\ Len(outbox[j]) = 1 => Tail(outbox[j]) = <<>>
  <2>1. /\ Head(outbox[j]) = outbox[j][1] /\ Tail(outbox[j]) \in Seq(S)
        /\ Len(Tail(outbox[j])) = Len(outbox[j]) - 1 /\ Len(outbox[j]) # 0
        /\ \A i \in 1 .. Len(outbox[j]) - 1 : Tail(outbox[j])[i] = outbox[j][i + 1]
    BY <1>1, <1>5, HeadTail
  <2>2. Len(Tail(outbox[j])) = 0 => Tail(outbox[j]) = <<>>
    BY <2>1, EmptySeq
  <2>3. QED
    BY <1>4, <2>1, <2>2
<1>6. QED
  BY <1>2, <1>3, <1>4, <1>5

\* The outbox of one goroutine changes.
LEMMA PostsOf ==
  ASSUME PostTypes, NEW k \in Conn, NEW posts, outbox' = [outbox EXCEPT ![k] = posts]
  PROVE  outbox'[k] = posts /\ \A j \in Conn \ {k} : outbox'[j] = outbox[j]
  BY DEF PostTypes

\* Nobody has dialled at first.
LEMMA ProtocolInit == Init => Protocol
<1>1. DOMAIN <<>> = {}
  OBVIOUS
<1>2. QED
  BY <1>1 DEF Init, Protocol, Stages, Quiet, Addressed

\* Every step of a client keeps pace with the goroutine of its connection.
LEMMA StagesStep == Types /\ Protocol /\ [Next]_vars => Stages'
<1> SUFFICES ASSUME Types, Protocol, [Next]_vars
             PROVE  Stages'
  OBVIOUS
<1>0. StageTypes /\ Stages /\ \A k \in Conn : srv[k] = "accepted" => down[k] = <<>>
  BY TypeParts DEF Protocol, Quiet
<1> USE <1>0
<1>1. ASSUME NEW k \in Conn,
             \/ Dial(k) \/ AnswerStep1(k) \/ ReceiveStep2(k) \/ HandshakeFails(k)
             \/ Register(k) \/ Receive(k) \/ LoopEnds(k) \/ Close(k)
      PROVE  Stages'
  BY <1>1 DEF Dial, AnswerStep1, ReceiveStep2, HandshakeFails, Register, Receive, LoopEnds, Close,
              Reads, Cut, StageTypes, Stages
<1>2. ASSUME NEW k \in Conn,
             \/ Greet(k) \/ Join(k) \/ Send(k) \/ ReadStep1(k) \/ ReadStep2(k)
             \/ ReadUpdate(k) \/ Leave(k) \/ Break(k)
      PROVE  Stages'
  BY <1>2 DEF Greet, Join, Send, ReadStep1, ReadStep2, ReadUpdate, Leave, Break,
              RelayReads, Cut, StageTypes, Stages
<1>3. CASE (\E c \in Client : Edit(c)) \/ Restart \/ UNCHANGED vars
  BY <1>3 DEF Edit, Restart, vars, StageTypes, Stages
<1>4. QED
  BY <1>1, <1>2, <1>3, NextSteps

\* Every step that ends a connection empties its links and its outbox.
LEMMA QuietStep == Types /\ Protocol /\ [Next]_vars => Quiet'
<1> SUFFICES ASSUME Types, Protocol, [Next]_vars
             PROVE  Quiet'
  OBVIOUS
<1>0. /\ StageTypes /\ LinkType(up) /\ LinkType(down) /\ PostTypes
      /\ Stages /\ Quiet /\ Addressed
  BY TypeParts DEF Protocol
<1> USE <1>0
<1>1. ASSUME NEW k \in Conn,
             \/ Dial(k) \/ AnswerStep1(k) \/ ReceiveStep2(k) \/ HandshakeFails(k)
             \/ Register(k) \/ Receive(k) \/ LoopEnds(k) \/ Close(k)
      PROVE  Quiet'
  BY <1>1 DEF Dial, AnswerStep1, ReceiveStep2, HandshakeFails, Register, Receive, LoopEnds, Close,
              Reads, Cut, StageTypes, LinkType, PostTypes, Stages, Quiet
<1>2. ASSUME NEW k \in Conn,
             \/ Greet(k) \/ Join(k) \/ ReadStep1(k) \/ ReadStep2(k)
             \/ ReadUpdate(k) \/ Leave(k) \/ Break(k)
      PROVE  Quiet'
  BY <1>2 DEF Greet, Join, ReadStep1, ReadStep2, ReadUpdate, Leave, Break,
              RelayReads, Cut, StageTypes, LinkType, PostTypes, Stages, Quiet
<1>3. ASSUME NEW k \in Conn, Send(k)
      PROVE  Quiet'
  <2>1. Head(outbox[k]).to \in Conn /\ srv[Head(outbox[k]).to] \in {"reading", "gone"}
    BY <1>3, PostAt DEF Send, Addressed
  <2>2. srv[k] = "reading"
    BY <1>3 DEF Send, Quiet
  <2>3. QED
    BY <1>3, <2>1, <2>2 DEF Send, StageTypes, LinkType, PostTypes, Stages, Quiet
<1>4. ASSUME NEW c \in Client, Edit(c)
      PROVE  Quiet'
  BY <1>4 DEF Edit, Registered, StageTypes, Stages, Quiet
<1>5. CASE Restart \/ UNCHANGED vars
  BY <1>5 DEF Restart, vars, StageTypes, Stages, Quiet
<1>6. QED
  BY <1>1, <1>2, <1>3, <1>4, <1>5, NextSteps

\* What ServeHTTP passes on or answers is addressed to connections it reads.
LEMMA AddressedStep == Types /\ Protocol /\ [Next]_vars => Addressed'
<1> SUFFICES ASSUME Types, Protocol, [Next]_vars
             PROVE  Addressed'
  OBVIOUS
<1>0. /\ StageTypes /\ LinkType(up) /\ PostTypes /\ Registry
      /\ Stages /\ Quiet /\ Addressed
  BY TypeParts DEF Protocol
<1> USE <1>0
\* Who is in the read loop or past it stays there.
<1>1. \A k \in Conn : srv[k] \in {"reading", "gone"} => srv'[k] \in {"reading", "gone"}
  <2>1. ASSUME NEW k \in Conn, Dial(k) \/ Greet(k) \/ Join(k) \/ Leave(k)
        PROVE  \A j \in Conn : srv[j] \in {"reading", "gone"} => srv'[j] \in {"reading", "gone"}
    BY <2>1 DEF Dial, Greet, Join, Leave, StageTypes, Stages
  <2>2. CASE Restart
    BY <2>2 DEF Restart, StageTypes
  <2>3. CASE UNCHANGED srv
    BY <2>3
  <2>4. QED
    BY <2>1, <2>2, <2>3, NextSteps
    DEF AnswerStep1, ReceiveStep2, HandshakeFails, Register, Receive, LoopEnds, Close,
        Send, ReadStep1, ReadStep2, ReadUpdate, Break, Edit, vars
<1>2. ASSUME UNCHANGED outbox
      PROVE  Addressed'
  BY <1>1, <1>2, PostAt DEF Addressed
<1>3. ASSUME NEW k \in Conn, Send(k)
      PROVE  Addressed'
  <2>1. outbox' = [outbox EXCEPT ![k] = Tail(outbox[k])] /\ outbox[k] # <<>>
    BY <1>3 DEF Send
  <2>2. ASSUME NEW i \in DOMAIN Tail(outbox[k])
        PROVE  /\ srv'[Tail(outbox[k])[i].to] \in {"reading", "gone"}
               /\ Tail(outbox[k])[i].msg.type \notin {"step1", "step2"}
    <3>1. /\ i + 1 \in DOMAIN outbox[k] /\ Len(outbox[k]) # 1
          /\ Tail(outbox[k])[i] = outbox[k][i + 1]
      BY <2>1, PostAt
    <3>2. QED
      BY <1>1, <3>1, PostAt DEF Addressed
  <2>3. QED
    BY <1>1, <2>1, <2>2, PostAt, PostsOf DEF Addressed
<1>4. ASSUME NEW k \in Conn, ReadStep1(k)
      PROVE  Addressed'
  <2> DEFINE msg  == [type |-> "step2", items |-> EncodeStateAsUpdate(room, Head(up[k]).sv)]
             post == [to |-> k, msg |-> msg]
  <2>1. outbox' = [outbox EXCEPT ![k] = <<post>>] /\ srv'[k] = "reading"
    BY <1>4 DEF ReadStep1, RelayReads
  <2>2. post.to = k /\ post.msg.type = "step2"
    OBVIOUS
  <2> HIDE DEF post
  <2>3. Len(<<post>>) = 1 /\ \A i \in DOMAIN <<post>> : <<post>>[i] = post
    OBVIOUS
  <2>4. QED
    BY <1>1, <2>1, <2>2, <2>3, PostAt, PostsOf DEF Addressed
<1>5. ASSUME NEW k \in Conn, ReadUpdate(k)
      PROVE  Addressed'
  <2> DEFINE msg    == Head(up[k])
             others == Without(members, k)
             posts  == [i \in DOMAIN others |-> [to |-> others[i], msg |-> msg]]
  <2>1. outbox' = [outbox EXCEPT ![k] = posts] /\ msg.type = "update" /\ UNCHANGED srv
    BY <1>5 DEF ReadUpdate, RelayReads
  <2>2. \A i \in DOMAIN others : srv[others[i]] = "reading"
    <3>1. others \in Seq(Conn) /\ Range(others) = Range(members) \ {k}
      BY WithoutConn DEF Registry
    <3>2. ASSUME NEW i \in DOMAIN others
          PROVE  others[i] \in Range(members) /\ others[i] \in Conn
      <4>1. others[i] \in Range(others)
        BY DEF Range
      <4>2. others[i] \in Conn
        BY <3>1
      <4>3. QED
        BY <3>1, <4>1, <4>2
    <3>3. QED
      BY <3>2 DEF Registry
  <2> HIDE DEF msg, others
  <2>3. \A i \in DOMAIN posts : srv'[posts[i].to] = "reading" /\ posts[i].msg.type = "update"
    BY <2>1, <2>2
  <2> HIDE DEF posts
  <2>4. QED
    BY <1>1, <2>1, <2>3, PostAt, PostsOf DEF Addressed
<1>6. CASE Restart
  BY <1>6 DEF Restart, Addressed
<1>7. QED
  BY <1>2, <1>3, <1>4, <1>5, <1>6, NextSteps
  DEF Dial, AnswerStep1, ReceiveStep2, HandshakeFails, Register, Receive, LoopEnds, Close,
      Greet, Join, ReadStep2, Leave, Break, Edit, vars

\* Every step keeps the stages of a connection.
LEMMA ProtocolStep == Types /\ Protocol /\ [Next]_vars => Protocol'
  BY StagesStep, QuietStep, AddressedStep DEF Protocol

-----------------------------------------------------------------------------
(***************************************************************************)
(* Messages on their way.                                                  *)
(***************************************************************************)
\* What a link carries after a message is sent, and after the first one is read.
LEMMA ContentsAppend ==
  ASSUME NEW s \in Seq(Message), NEW msg \in Message
  PROVE  Contents(Append(s, msg)) = Contents(s) \cup IF msg.type = "step1" THEN {} ELSE {msg}
<1>1. /\ DOMAIN Append(s, msg) = DOMAIN s \cup {Len(s) + 1}
      /\ Append(s, msg)[Len(s) + 1] = msg
      /\ \A i \in DOMAIN s : Append(s, msg)[i] = s[i]
  OBVIOUS
<1> DEFINE t == Append(s, msg)
<1> HIDE DEF t
<1>2. Contents(t) = Contents(s) \cup IF msg.type = "step1" THEN {} ELSE {msg}
  BY <1>1 DEF Contents, t
<1>3. QED
  BY <1>2 DEF t

\* What a link carried before its first message was read.
LEMMA ContentsTail ==
  ASSUME NEW s \in Seq(Message), s # <<>>
  PROVE  Contents(s) = Contents(Tail(s)) \cup IF Head(s).type = "step1" THEN {} ELSE {Head(s)}
<1> DEFINE t == Tail(s)
           h == Head(s)
<1>1. /\ 1 \in DOMAIN s /\ h = s[1]
      /\ \A i \in DOMAIN t : i + 1 \in DOMAIN s /\ t[i] = s[i + 1]
      /\ \A i \in DOMAIN s : i # 1 => i - 1 \in DOMAIN t /\ t[i - 1] = s[i]
  OBVIOUS
<1> HIDE DEF t, h
<1>2. ASSUME NEW m \in Contents(s)
      PROVE  m \in Contents(t) \cup IF h.type = "step1" THEN {} ELSE {h}
  <2>1. PICK i \in DOMAIN s : s[i] = m /\ m.type # "step1"
    BY DEF Contents
  <2>2. CASE i = 1
    BY <1>1, <2>1, <2>2
  <2>3. CASE i # 1
    BY <1>1, <2>1, <2>3 DEF Contents
  <2>4. QED
    BY <2>2, <2>3
<1>3. ASSUME NEW m \in Contents(t) \cup IF h.type = "step1" THEN {} ELSE {h}
      PROVE  m \in Contents(s)
  <2>1. CASE m \in Contents(t)
    BY <1>1, <2>1 DEF Contents
  <2>2. CASE m = h /\ h.type # "step1"
    BY <1>1, <2>2 DEF Contents
  <2>3. QED
    BY <1>3, <2>1, <2>2
<1>4. QED
  BY <1>2, <1>3 DEF t, h

\* An empty link carries nothing.
LEMMA ContentsEmpty == Contents(<<>>) = {}
  BY DEF Contents

\* Contents are messages, and none is a step 1.
LEMMA ContentsType ==
  ASSUME NEW s \in Seq(Message), NEW msg \in Contents(s)
  PROVE  msg \in Message /\ msg.type \in {"step2", "update"} /\ msg.items \in Slices
<1>1. PICK i \in DOMAIN s : msg = s[i] /\ s[i].type # "step1"
  BY DEF Contents
<1>2. s[i] \in Message
  OBVIOUS
<1>3. QED
  BY <1>1, <1>2, MessageTypes

\* A post of a goroutine to k.
PostedTo(k, j, msg) == \E i \in DOMAIN outbox[j] : outbox[j][i].to = k /\ outbox[j][i].msg = msg

\* What is under way is on the link or in the hands of a goroutine.
LEMMA UnderWay ==
  ASSUME NEW k \in Conn, NEW msg
  PROVE  msg \in MessagesTo(k) <=>
            msg \in Contents(down[k]) \/ \E j \in Conn : PostedTo(k, j, msg)
  BY DEF MessagesTo, PostedTo

\* The same after a step.
LEMMA UnderWayNext ==
  ASSUME NEW k \in Conn, NEW msg
  PROVE  msg \in MessagesTo(k)' <=>
            msg \in Contents(down'[k]) \/ \E j \in Conn : PostedTo(k, j, msg)'
  BY DEF MessagesTo, PostedTo, Contents

\* What is under way is a message that is not a step 1.
LEMMA UnderWayType ==
  ASSUME Types, Protocol, NEW k \in Conn, NEW msg \in MessagesTo(k)
  PROVE  msg \in Message /\ msg.type \in {"step2", "update"} /\ msg.items \in Slices
<1>1. CASE msg \in Contents(down[k])
  BY <1>1, TypeParts, ContentsType DEF LinkType
<1>2. ASSUME NEW j \in Conn, PostedTo(k, j, msg)
      PROVE  msg \in Message /\ msg.type # "step1"
  BY <1>2, PostAt, TypeParts DEF PostedTo, Addressed, Protocol
<1>3. QED
  BY <1>1, <1>2, UnderWay, MessageTypes

\* While a client stays connected, what is under way to it stays under way, until
\* the client applies it.
LEMMA StaysUnderWay ==
  ASSUME Types, Protocol, [Next]_vars, NEW k \in Conn, link[k], link'[k], NEW msg \in MessagesTo(k)
  PROVE  \/ msg \in MessagesTo(k)'
         \/ doc' = [doc EXCEPT ![k[1]] = ApplyUpdate(@, msg.items)]
<1>0. /\ StageTypes /\ LinkType(up) /\ LinkType(down) /\ PostTypes /\ Registry
      /\ Stages /\ Quiet /\ Addressed
  BY TypeParts DEF Protocol
<1> USE <1>0
<1>1. ASSUME UNCHANGED outbox, msg \in Contents(down[k]) => msg \in Contents(down'[k])
      PROVE  msg \in MessagesTo(k)'
  <2>1. \A j \in Conn : PostedTo(k, j, msg) => PostedTo(k, j, msg)'
    BY <1>1 DEF PostedTo
  <2>2. QED
    BY <1>1, <2>1, UnderWay, UnderWayNext
<1>2. ASSUME UNCHANGED down, NEW j \in Conn, NEW posts,
             outbox[j] = <<>>, outbox' = [outbox EXCEPT ![j] = posts]
      PROVE  msg \in MessagesTo(k)'
  <2>1. ~PostedTo(k, j, msg)
    BY <1>2 DEF PostedTo
  <2>2. \A i \in Conn : PostedTo(k, i, msg) => PostedTo(k, i, msg)'
    BY <1>2, <2>1, PostsOf DEF PostedTo
  <2>3. QED
    BY <1>2, <2>2, UnderWay, UnderWayNext
<1>3. ASSUME NEW j \in Conn, NEW type, Reads(j, type), UNCHANGED outbox, type # "step1" => doc' = [doc EXCEPT ![j[1]] = ApplyUpdate(@, Head(down[j]).items)]
      PROVE  \/ msg \in MessagesTo(k)'
             \/ doc' = [doc EXCEPT ![k[1]] = ApplyUpdate(@, msg.items)]
  <2>1. /\ down[j] # <<>> /\ Head(down[j]).type = type
        /\ down' = [down EXCEPT ![j] = Tail(down[j])]
    BY <1>3 DEF Reads
  <2>2. down[k] \in Seq(Message) /\ down'[k] = IF k = j THEN Tail(down[k]) ELSE down[k]
    BY <2>1 DEF LinkType
  <2>3. CASE msg = Head(down[j]) /\ k = j /\ type # "step1"
    BY <1>3, <2>3
  <2>4. CASE ~(msg = Head(down[j]) /\ k = j /\ type # "step1")
    <3>1. msg \in Contents(down[k]) => msg \in Contents(down'[k])
      BY <2>1, <2>2, <2>4, ContentsTail
    <3>2. QED
      BY <1>1, <1>3, <3>1
  <2>5. QED
    BY <2>3, <2>4
<1>4. ASSUME NEW j \in Conn, AnswerStep1(j) \/ ReceiveStep2(j) \/ Receive(j)
      PROVE  \/ msg \in MessagesTo(k)'
             \/ doc' = [doc EXCEPT ![k[1]] = ApplyUpdate(@, msg.items)]
  <2>1. CASE AnswerStep1(j)
    BY <1>3, <2>1 DEF AnswerStep1
  <2>2. CASE ReceiveStep2(j)
    BY <1>3, <2>2 DEF ReceiveStep2
  <2>3. CASE Receive(j)
    BY <1>3, <2>3 DEF Receive
  <2>4. QED
    BY <1>4, <2>1, <2>2, <2>3
<1>5. ASSUME NEW j \in Conn, HandshakeFails(j) \/ Close(j) \/ Break(j)
      PROVE  msg \in MessagesTo(k)'
  <2>1. Cut(j) /\ UNCHANGED outbox
    BY <1>5 DEF HandshakeFails, Close, Break
  <2>2. down'[k] = down[k]
    BY <2>1 DEF Cut, StageTypes, LinkType
  <2>3. QED
    BY <1>1, <2>1, <2>2
<1>6. ASSUME NEW j \in Conn, Greet(j)
      PROVE  msg \in MessagesTo(k)'
  <2>1. k # j => down'[k] = down[k]
    BY <1>6 DEF Greet, LinkType
  <2>2. k = j => down[k] = <<>>
    BY <1>6 DEF Greet, Quiet
  <2>3. QED
    BY <1>1, <1>6, <2>1, <2>2, ContentsEmpty DEF Greet
<1>7. ASSUME NEW j \in Conn, Send(j)
      PROVE  msg \in MessagesTo(k)'
  <2> DEFINE post == Head(outbox[j])
  <2>1. /\ outbox[j] # <<>> /\ outbox' = [outbox EXCEPT ![j] = Tail(outbox[j])]
        /\ down' = IF link[post.to] THEN [down EXCEPT ![post.to] = Append(@, post.msg)] ELSE down
    BY <1>7 DEF Send
  <2>2. post = outbox[j][1] /\ post.to \in Conn /\ post.msg \in Message /\ post.msg.type # "step1"
    BY <2>1, PostAt DEF Addressed
  <2> HIDE DEF post
  <2>3. down'[k] = IF k = post.to THEN Append(down[k], post.msg) ELSE down[k]
    BY <2>1, <2>2 DEF LinkType
  <2>4. down[k] \in Seq(Message)
    BY DEF LinkType
  <2>5. CASE msg \in Contents(down[k])
    <3>1. msg \in Contents(down'[k])
      BY <2>2, <2>3, <2>4, <2>5, ContentsAppend
    <3>2. QED
      BY <3>1, UnderWayNext
  <2>6. CASE k = post.to /\ msg = post.msg
    <3>1. msg \in Contents(down'[k])
      BY <2>2, <2>3, <2>4, <2>6, ContentsAppend
    <3>2. QED
      BY <3>1, UnderWayNext
  <2>7. ASSUME NEW i \in Conn, PostedTo(k, i, msg), ~(k = post.to /\ msg = post.msg)
        PROVE  PostedTo(k, i, msg)'
    <3>1. CASE i # j
      BY <2>1, <2>7, <3>1, PostsOf DEF PostedTo
    <3>2. CASE i = j
      <4>1. PICK n \in DOMAIN outbox[j] : outbox[j][n].to = k /\ outbox[j][n].msg = msg
        BY <2>7, <3>2 DEF PostedTo
      <4>2. n # 1
        BY <2>2, <2>7, <4>1
      <4>3. n - 1 \in DOMAIN Tail(outbox[j]) /\ (n - 1) + 1 = n
        BY <2>1, <4>2, PostAt
      <4>4. Tail(outbox[j])[n - 1] = outbox[j][n]
        BY <2>1, <4>3, PostAt
      <4>5. outbox'[j] = Tail(outbox[j])
        BY <2>1, PostsOf
      <4>6. QED
        BY <3>2, <4>1, <4>3, <4>4, <4>5 DEF PostedTo
    <3>3. QED
      BY <3>1, <3>2
  <2>8. QED
    BY <2>5, <2>6, <2>7, UnderWay, UnderWayNext
<1>8. ASSUME NEW j \in Conn, ReadStep1(j) \/ ReadUpdate(j)
      PROVE  msg \in MessagesTo(k)'
  BY <1>2, <1>8 DEF ReadStep1, ReadUpdate, RelayReads
<1>9. CASE Restart
  BY <1>9 DEF Restart
<1>10. QED
  BY <1>1, <1>4, <1>5, <1>6, <1>7, <1>8, <1>9, NextSteps
  DEF Dial, Register, LoopEnds, Join, ReadStep2, Leave, Edit, vars

-----------------------------------------------------------------------------
(***************************************************************************)
(* UpdatesReachMembers.                                                    *)
(***************************************************************************)
\* No Doc of a client loses an item.
LEMMA IdsStay ==
  ASSUME Types, [Next]_vars, NEW c \in Client
  PROVE  Ids(doc[c]) \subseteq Ids(doc'[c])
<1>0. DocTypes /\ LinkType(down) /\ TypeOK
  BY TypeParts DEF Types
<1>1. ASSUME NEW k \in Conn, ReceiveStep2(k) \/ Receive(k)
      PROVE  Ids(doc[c]) \subseteq Ids(doc'[c])
  <2>1. /\ down[k] # <<>> /\ Head(down[k]).type # "step1"
        /\ doc' = [doc EXCEPT ![k[1]] = ApplyUpdate(@, Head(down[k]).items)]
    BY <1>1 DEF ReceiveStep2, Receive, Reads
  <2>2. Head(down[k]).items \in Slices /\ doc[c] \in Slices
    BY <1>0, <2>1, LinkTail, MessageTypes DEF DocTypes
  <2>3. doc'[c] = IF c = k[1] THEN ApplyUpdate(doc[c], Head(down[k]).items) ELSE doc[c]
    BY <1>0, <2>1, ClientOfConn DEF DocTypes
  <2>4. QED
    BY <2>2, <2>3, ApplyUpdateIds
<1>2. ASSUME NEW x \in Client, Edit(x)
      PROVE  Ids(doc[c]) \subseteq Ids(doc'[c])
  <2>1. doc' = [doc EXCEPT ![x][x] = Append(@, EditItem(x))]
    BY <1>2 DEF Edit, EditItem
  <2>2. doc[x][x] \in Seq(Item) /\ EditItem(x) \in Item
    BY <1>0, EditItemType DEF DocTypes, Slices
  <2>3. \A y \in Client : doc'[c][y] = IF c = x /\ y = x THEN Append(doc[x][x], EditItem(x)) ELSE doc[c][y]
    BY <1>0, <2>1 DEF DocTypes, Slices
  <2>4. \A i \in DOMAIN doc[x][x] : /\ i \in DOMAIN Append(doc[x][x], EditItem(x))
                                    /\ Append(doc[x][x], EditItem(x))[i] = doc[x][x][i]
    BY <2>2
  <2>5. ASSUME NEW y \in Client, NEW i \in DOMAIN doc[c][y]
        PROVE  i \in DOMAIN doc'[c][y] /\ doc'[c][y][i] = doc[c][y][i]
    <3>1. CASE c = x /\ y = x
      BY <2>3, <2>4, <3>1
    <3>2. CASE ~(c = x /\ y = x)
      BY <2>3, <3>2
    <3>3. QED
      BY <3>1, <3>2
  <2>6. ASSUME NEW id \in Ids(doc[c])
        PROVE  id \in Ids(doc'[c])
    <3>1. PICK y \in Client : \E i \in DOMAIN doc[c][y] : id = <<y, doc[c][y][i].clock>>
      BY DEF Ids
    <3>2. \E i \in DOMAIN doc'[c][y] : id = <<y, doc'[c][y][i].clock>>
      BY <2>5, <3>1
    <3>3. QED
      BY <3>2 DEF Ids
  <2>7. QED
    BY <2>6
<1>3. CASE UNCHANGED doc
  BY <1>3
<1>4. QED
  BY <1>1, <1>2, <1>3, NextSteps
  DEF Dial, AnswerStep1, HandshakeFails, Register, LoopEnds, Close, Greet, Join, Send,
      ReadStep1, ReadStep2, ReadUpdate, Leave, Break, Restart, vars

\* A link that comes up is a new connection.
LEMMA LinkUp ==
  ASSUME Types, [Next]_vars, NEW k \in Conn, ~link[k], link'[k]
  PROVE  srv[k] = "new" /\ UNCHANGED cast
<1>0. StageTypes /\ \A j \in Conn : phase[j] = "new" => srv[j] = "new"
  BY TypeParts DEF StageTypes
<1>1. ASSUME NEW j \in Conn, Dial(j)
      PROVE  srv[k] = "new" /\ UNCHANGED cast
  BY <1>0, <1>1 DEF Dial, StageTypes
<1>2. ASSUME NEW j \in Conn, Cut(j)
      PROVE  FALSE
  BY <1>0, <1>2 DEF Cut, StageTypes
<1>3. ~Restart /\ ~UNCHANGED link
  BY DEF Restart
<1>4. QED
  BY <1>1, <1>2, <1>3, NextSteps
  DEF AnswerStep1, ReceiveStep2, HandshakeFails, Register, Receive, LoopEnds, Close, Reads,
      Greet, Join, Send, ReadStep1, ReadStep2, ReadUpdate, Leave, Break, Edit, vars

\* What goes up is what the client holds; updates that were read while a client was
\* connected are in its Doc or under way, as long as its link is up, in whichever
\* phase it is.  A connection that nobody reads yet was not cast to.
OwnUpdates ==
    \A k \in Conn : \A msg \in Contents(up[k]) :
        msg.type = "update" => Ids(msg.items) \subseteq Ids(doc[k[1]])

CastTo ==
    \A k \in Conn : cast[k] # {} => srv[k] \in {"reading", "gone"}

CastReaches ==
    \A k \in Conn : link[k] => \A id \in cast[k] :
        id \in Ids(doc[k[1]]) \/ \E msg \in MessagesTo(k) : id \in Ids(msg.items)

Casts == OwnUpdates /\ CastTo /\ CastReaches

\* No update was read at first.
LEMMA CastsInit == Init => Casts
<1> SUFFICES ASSUME Init PROVE Casts
  OBVIOUS
<1>1. OwnUpdates
  BY ContentsEmpty DEF Init, OwnUpdates
<1>2. CastTo /\ CastReaches
  BY DEF Init, CastTo, CastReaches
<1>3. QED
  BY <1>1, <1>2 DEF Casts

\* What a client sends: the answer to a step 1, and the update of a transaction.
Answer(k) == [type |-> "step2", items |-> EncodeStateAsUpdate(doc[k[1]], Head(down[k]).sv)]

EditMessage(c) == [type |-> "update", items |-> [Empty EXCEPT ![c] = <<EditItem(c)>>]]

\* What goes up after a step went up before, or this step sent it.
LEMMA UpNext ==
  ASSUME Types, [Next]_vars, NEW k \in Conn, NEW msg \in Contents(up'[k])
  PROVE  \/ msg \in Contents(up[k])
         \/ AnswerStep1(k) /\ msg = Answer(k)
         \/ Edit(k[1]) /\ k \in Registered(k[1]) /\ msg = EditMessage(k[1])
<1>0. DocTypes /\ StageTypes /\ LinkType(up) /\ LinkType(down) /\ TypeOK
  BY TypeParts DEF Types
<1> USE <1>0
<1>00. up[k] \in Seq(Message)
  BY DEF LinkType
<1>1. ASSUME NEW j \in Conn, Dial(j)
      PROVE  msg \in Contents(up[k])
  <2> DEFINE first == [type |-> "step1", sv |-> stateVector(doc[j[1]])]
  <2>1. up' = [up EXCEPT ![j] = <<first>>] /\ first.type = "step1"
    BY <1>1 DEF Dial
  <2> HIDE DEF first
  <2>2. Contents(<<first>>) = {}
    BY <2>1 DEF Contents
  <2>3. up'[k] = IF k = j THEN <<first>> ELSE up[k]
    BY <2>1 DEF LinkType
  <2>4. QED
    BY <2>2, <2>3
<1>2. ASSUME NEW j \in Conn, AnswerStep1(j)
      PROVE  msg \in Contents(up[k]) \/ (k = j /\ msg = Answer(k))
  <2>1. up' = [up EXCEPT ![j] = Append(@, Answer(j))] /\ down[j] # <<>> /\ Head(down[j]).type = "step1"
    BY <1>2 DEF AnswerStep1, Reads, Answer
  <2>2. Answer(j) \in Message
    <3>1. EncodeStateAsUpdate(doc[j[1]], Head(down[j]).sv) \in Slices
      BY <2>1, LinkTail, ClientOfConn, MessageTypes, EncodeStateAsUpdateType DEF DocTypes
    <3>2. QED
      BY <3>1, MessageTypes DEF Answer
  <2>3. up'[k] = IF k = j THEN Append(up[k], Answer(k)) ELSE up[k]
    BY <2>1 DEF LinkType
  <2>4. CASE k = j
    <3>1. Contents(up'[k]) \subseteq Contents(up[k]) \cup {Answer(k)}
      <4> HIDE DEF Answer
      <4>1. QED
        BY <1>00, <2>2, <2>3, <2>4, ContentsAppend
    <3>2. QED
      BY <2>4, <3>1
  <2>5. CASE k # j
    BY <2>3, <2>5
  <2>6. QED
    BY <2>4, <2>5
<1>3. ASSUME NEW c \in Client, Edit(c)
      PROVE  \/ msg \in Contents(up[k])
             \/ c = k[1] /\ k \in Registered(c) /\ msg = EditMessage(c)
  <2>1. up' = [j \in Conn |-> IF j \in Registered(c) THEN Append(up[j], EditMessage(c)) ELSE up[j]]
    BY <1>3 DEF Edit, EditMessage, EditItem
  <2>2. EditMessage(c) \in Message
    BY EditItemType, MessageTypes DEF EditMessage
  <2>3. k \in Registered(c) => c = k[1]
    BY DEF Registered
  <2>4. up'[k] = IF k \in Registered(c) THEN Append(up[k], EditMessage(c)) ELSE up[k]
    BY <2>1
  <2>5. QED
    BY <1>00, <2>2, <2>3, <2>4, ContentsAppend
<1>4. ASSUME NEW j \in Conn, ReadStep1(j) \/ ReadStep2(j) \/ ReadUpdate(j)
      PROVE  msg \in Contents(up[k])
  <2>1. up[j] # <<>> /\ up' = [up EXCEPT ![j] = Tail(up[j])]
    BY <1>4 DEF ReadStep1, ReadStep2, ReadUpdate, RelayReads
  <2>2. up'[k] = IF k = j THEN Tail(up[k]) ELSE up[k]
    BY <2>1 DEF LinkType
  <2>3. QED
    BY <1>00, <2>1, <2>2, ContentsTail
<1>5. ASSUME NEW j \in Conn, Leave(j)
      PROVE  msg \in Contents(up[k])
  <2>1. up'[k] = <<>> \/ up'[k] = up[k]
    BY <1>5 DEF Leave, LinkType
  <2>2. QED
    BY <2>1, ContentsEmpty
<1>6. CASE Restart
  BY <1>6, ContentsEmpty DEF Restart
<1>7. QED
  BY <1>1, <1>2, <1>3, <1>4, <1>5, <1>6, NextSteps
  DEF ReceiveStep2, HandshakeFails, Register, Receive, LoopEnds, Close, Greet, Join, Send, Break, vars

\* Clients send updates of items that they hold, and keep them (ws.go, the update handler).
LEMMA OwnUpdatesStep == Types /\ OwnUpdates /\ [Next]_vars => OwnUpdates'
<1> SUFFICES ASSUME Types, OwnUpdates, [Next]_vars,
                    NEW k \in Conn, NEW msg \in Contents(up'[k]), msg.type = "update"
             PROVE  Ids(msg.items) \subseteq Ids(doc'[k[1]])
  <2>1. \A j : Contents(up[j])' = Contents(up'[j])
    BY DEF Contents
  <2>2. \A j : Ids(doc[j[1]])' = Ids(doc'[j[1]])
    BY DEF Ids
  <2>3. QED
    BY <2>1, <2>2 DEF OwnUpdates
<1> DEFINE c == k[1]
<1>0. c \in Client
  BY ClientOfConn
<1>1. CASE msg \in Contents(up[k])
  BY <1>0, <1>1, IdsStay DEF OwnUpdates
<1>2. CASE Edit(c) /\ msg = EditMessage(c)
  <2>1. doc' = [doc EXCEPT ![c][c] = Append(@, EditItem(c))]
    BY <1>2 DEF Edit, EditItem
  <2>2. TypeOK /\ doc[c][c] \in Seq(Item) /\ EditItem(c) \in Item
    <3>1. TypeOK
      BY DEF Types
    <3>2. doc[c][c] \in Seq(Item)
      BY <1>0, <3>1 DEF TypeOK, Slices
    <3> HIDE DEF c
    <3>3. EditItem(c) \in Item
      BY <1>0, <3>1, EditItemType
    <3>4. QED
      BY <3>1, <3>2, <3>3
  <2>3. doc'[c][c] = Append(doc[c][c], EditItem(c))
    BY <1>0, <2>1, <2>2 DEF TypeOK, Slices
  <2> DEFINE n == Len(doc[c][c]) + 1
  <2>4. n \in DOMAIN doc'[c][c] /\ doc'[c][c][n] = EditItem(c)
    BY <2>2, <2>3
  <2>5. <<c, EditItem(c).clock>> \in Ids(doc'[c])
    <3> HIDE DEF c, n
    <3>1. QED
      BY <1>0, <2>4 DEF Ids
  <2>6. Ids(msg.items) \subseteq {<<c, EditItem(c).clock>>}
    <3> HIDE DEF c
    <3> DEFINE items == [Empty EXCEPT ![c] = <<EditItem(c)>>]
    <3>1. msg.items = items
      BY <1>2 DEF EditMessage
    <3>2. \A y \in Client : items[y] = IF y = c THEN <<EditItem(c)>> ELSE <<>>
      BY EmptySlices DEF Empty
    <3> HIDE DEF items
    <3>3. \A y \in Client : \A i \in DOMAIN items[y] : y = c /\ items[y][i] = EditItem(c)
      BY <3>2
    <3>4. QED
      BY <3>1, <3>3 DEF Ids
  <2>7. QED
    BY <2>5, <2>6
<1>3. QED
  BY <1>1, <1>2, UpNext DEF Answer

\* Only members of the room are cast to.
LEMMA CastToStep == Types /\ CastTo /\ [Next]_vars => CastTo'
<1> SUFFICES ASSUME Types, CastTo, [Next]_vars
             PROVE  CastTo'
  OBVIOUS
<1>0. StageTypes /\ Registry /\ HistoryTypes
  BY TypeParts
<1>1. ASSUME NEW k \in Conn, Dial(k) \/ Greet(k) \/ Join(k) \/ Leave(k)
      PROVE  CastTo'
  BY <1>0, <1>1 DEF Dial, Greet, Join, Leave, StageTypes, CastTo
<1>2. ASSUME NEW k \in Conn, ReadUpdate(k)
      PROVE  CastTo'
  BY <1>0, <1>2 DEF ReadUpdate, Registry, HistoryTypes, CastTo
<1>3. CASE Restart
  BY <1>3 DEF Restart, CastTo
<1>4. CASE UNCHANGED <<srv, cast>>
  BY <1>4 DEF CastTo
<1>5. QED
  BY <1>1, <1>2, <1>3, <1>4, NextSteps
  DEF AnswerStep1, ReceiveStep2, HandshakeFails, Register, Receive, LoopEnds, Close,
      Send, ReadStep1, ReadStep2, Break, Edit, vars

\* Every step keeps updates under way until the client holds them, and ReadUpdate posts
\* the new one to every other member.
LEMMA CastReachesStep == Types /\ Protocol /\ Casts /\ [Next]_vars => CastReaches'
<1> SUFFICES ASSUME Types, Protocol, Casts, [Next]_vars,
                    NEW k \in Conn, link'[k], NEW id \in cast'[k]
             PROVE  id \in Ids(doc'[k[1]]) \/ \E msg \in MessagesTo(k)' : id \in Ids(msg.items)
  <2>1. \A j : Ids(doc[j[1]])' = Ids(doc'[j[1]])
    BY DEF Ids
  <2>2. QED
    BY <2>1 DEF CastReaches
<1>0. /\ DocTypes /\ StageTypes /\ LinkType(up) /\ PostTypes /\ Registry /\ HistoryTypes
      /\ OwnUpdates /\ CastTo /\ CastReaches
  BY TypeParts DEF Casts
<1>1. CASE ~link[k]
  <2>1. srv[k] = "new" /\ id \in cast[k]
    BY <1>1, LinkUp
  <2>2. QED
    BY <1>0, <2>1 DEF CastTo
<1>2. CASE link[k] /\ id \in cast[k]
  <2>1. CASE id \in Ids(doc[k[1]])
    BY <2>1, IdsStay, ClientOfConn
  <2>2. ASSUME NEW msg \in MessagesTo(k), id \in Ids(msg.items)
        PROVE  id \in Ids(doc'[k[1]]) \/ \E m \in MessagesTo(k)' : id \in Ids(m.items)
    <3>1. CASE msg \in MessagesTo(k)'
      BY <2>2, <3>1
    <3>2. CASE doc' = [doc EXCEPT ![k[1]] = ApplyUpdate(@, msg.items)]
      <4>1. doc'[k[1]] = ApplyUpdate(doc[k[1]], msg.items) /\ doc[k[1]] \in Slices
        BY <1>0, <3>2, ClientOfConn DEF DocTypes
      <4>2. msg.items \in Slices
        BY UnderWayType
      <4>3. QED
        BY <2>2, <4>1, <4>2, ApplyUpdateIds
    <3>3. QED
      BY <1>2, <3>1, <3>2, StaysUnderWay
  <2>3. QED
    BY <1>0, <1>2, <2>1, <2>2 DEF CastReaches
<1>3. CASE link[k] /\ id \notin cast[k]
  <2>1. PICK j \in Conn : ReadUpdate(j)
    <3>1. ~Restart /\ cast' # cast
      BY <1>3 DEF Restart
    <3>2. QED
      BY <3>1, NextSteps
      DEF Dial, AnswerStep1, ReceiveStep2, HandshakeFails, Register, Receive, LoopEnds, Close,
          Greet, Join, Send, ReadStep1, ReadStep2, Leave, Break, Edit, vars
  <2>0. PICK msg : msg = Head(up[j])
    OBVIOUS
  <2> DEFINE others == Without(members, j)
             posts  == [i \in DOMAIN others |-> [to |-> others[i], msg |-> msg]]
  <2>2. /\ up[j] # <<>> /\ msg.type = "update" /\ UNCHANGED doc
        /\ outbox' = [outbox EXCEPT ![j] = posts]
        /\ cast' = [x \in Conn |-> IF x \in Range(members) THEN cast[x] \cup Ids(msg.items) ELSE cast[x]]
    BY <2>0, <2>1 DEF ReadUpdate, RelayReads
  <2>3. k \in Range(members) /\ id \in Ids(msg.items)
    BY <1>3, <2>2
  <2>4. CASE k = j
    <3>1. msg \in Contents(up[k])
      BY <1>0, <2>0, <2>2, <2>4, ContentsTail DEF LinkType
    <3>2. QED
      BY <1>0, <2>2, <2>3, <3>1 DEF OwnUpdates
  <2>5. CASE k # j
    <3>1. k \in Range(others)
      BY <1>0, <2>3, <2>5, WithoutConn DEF Registry
    <3>2. PICK i \in DOMAIN others : others[i] = k
      BY <3>1 DEF Range
    <3>3. i \in DOMAIN posts /\ posts[i].to = k /\ posts[i].msg = msg
      BY <3>2
    <3> HIDE DEF posts
    <3>4. outbox'[j] = posts
      BY <1>0, <2>2, PostsOf
    <3>5. PostedTo(k, j, msg)'
      BY <3>3, <3>4 DEF PostedTo
    <3>6. msg \in MessagesTo(k)'
      BY <3>5, UnderWayNext
    <3>7. QED
      BY <2>3, <3>6
  <2>6. QED
    BY <2>4, <2>5
<1>4. QED
  BY <1>1, <1>2, <1>3

\* An update that the relay reads is stored by every client that is connected then,
\* or under way to it, as long as it stays connected (the broadcast of ServeHTTP).
THEOREM UpdatesReach == Spec => []UpdatesReachMembers
<1>1. Types /\ Protocol /\ Casts /\ [Next]_vars => (Types /\ Protocol /\ Casts)'
  BY TypesStep, ProtocolStep, OwnUpdatesStep, CastToStep, CastReachesStep DEF Casts
<1>2. Casts => UpdatesReachMembers
  BY DEF Casts, CastReaches, UpdatesReachMembers, Live
<1>3. QED
  BY <1>1, <1>2, TypesInit, ProtocolInit, CastsInit, PTL DEF Spec

-----------------------------------------------------------------------------
(***************************************************************************)
(* Each step 1 is answered once, and nothing overtakes it: what NoGaps,    *)
(* NothingMissed and OwnEditsForwarded need of the handshake.              *)
(***************************************************************************)
FirstOnly(s) == \A i \in DOMAIN s : s[i].type = "step1" => i = 1

Step2s(s) == { i \in DOMAIN s : s[i].type = "step2" }

\* What goes up begins with the step 1 of the client; the relay has yet to send its
\* answer.
Asks(u) == u # <<>> /\ u[1].type = "step1"

HasStep2(posts) == \E i \in DOMAIN posts : posts[i].msg.type = "step2"

AskedOnce ==
    \A k \in Conn :
        /\ FirstOnly(up[k])
        /\ srv[k] \in {"accepted", "greeted"} => Asks(up[k])

\* The answer to the step 1 of a client is asked for, posted, under way or read, one
\* after the other; and the step 1 of the relay is the first that the client reads.
Answered(u, d, posts, p) ==
    /\ Asks(u) => Step2s(d) = {} /\ ~HasStep2(posts)
    /\ HasStep2(posts) => Step2s(d) = {}
    /\ \A i, j \in Step2s(d) : i = j
    /\ p \in {"synced", "live"} => ~Asks(u) /\ Step2s(d) = {} /\ ~HasStep2(posts)
    /\ FirstOnly(d)
    /\ \A i \in DOMAIN d : d[i].type = "step1" => p = "step1"

AnsweredOnce == \A k \in Conn : Answered(up[k], down[k], outbox[k], phase[k])

\* Sending and reading, message by message.
LEMMA AppendAt ==
  ASSUME NEW s \in Seq(Message), NEW msg \in Message
  PROVE  /\ DOMAIN Append(s, msg) = DOMAIN s \cup {Len(s) + 1} /\ Len(s) + 1 \notin DOMAIN s
         /\ Append(s, msg)[Len(s) + 1] = msg
         /\ \A i \in DOMAIN s : Append(s, msg)[i] = s[i] /\ i < Len(s) + 1
         /\ Append(s, msg) # <<>> /\ DOMAIN s = 1 .. Len(s) /\ Len(s) \in Nat
         /\ s # <<>> => 1 \in DOMAIN s
         /\ s = <<>> => Append(s, msg)[1] = msg
<1>1. Len(s) \in Nat /\ DOMAIN s = 1 .. Len(s) /\ (s = <<>> => Len(s) = 0) /\ (s # <<>> => Len(s) # 0)
  OBVIOUS
<1>2. /\ Append(s, msg) \in Seq(Message) /\ Len(Append(s, msg)) = Len(s) + 1
      /\ Append(s, msg)[Len(s) + 1] = msg
      /\ \A i \in 1 .. Len(s) : Append(s, msg)[i] = s[i]
  OBVIOUS
<1> DEFINE t == Append(s, msg)
<1> HIDE DEF t
<1>3. DOMAIN t = 1 .. Len(s) + 1 /\ t # <<>>
  BY <1>1, <1>2 DEF t
<1>4. /\ DOMAIN t = DOMAIN s \cup {Len(s) + 1} /\ Len(s) + 1 \notin DOMAIN s
      /\ \A i \in DOMAIN s : i < Len(s) + 1
      /\ s # <<>> => 1 \in DOMAIN s
  BY <1>1, <1>3
<1>5. s = <<>> => t[1] = msg
  BY <1>1, <1>2 DEF t
<1>6. QED
  BY <1>1, <1>2, <1>3, <1>4, <1>5 DEF t

\* The first message and the others, index by index.
LEMMA TailAt ==
  ASSUME NEW s \in Seq(Message), s # <<>>
  PROVE  /\ 1 \in DOMAIN s /\ Head(s) = s[1] /\ Head(s) \in Message /\ Tail(s) \in Seq(Message)
         /\ Tail(s) # <<>> => 1 \in DOMAIN Tail(s)
         /\ \A i \in DOMAIN Tail(s) : i + 1 \in DOMAIN s /\ i + 1 # 1 /\ Tail(s)[i] = s[i + 1] /\ i \in Nat
         /\ \A i \in DOMAIN s : i # 1 => i - 1 \in DOMAIN Tail(s) /\ Tail(s)[i - 1] = s[i]
  OBVIOUS

\* Only the first message of a link may be a step 1, and it goes when that is read.
LEMMA FirstAppend ==
  ASSUME NEW s \in Seq(Message), FirstOnly(s), NEW msg \in Message, msg.type # "step1"
  PROVE  /\ FirstOnly(Append(s, msg))
         /\ s # <<>> => Append(s, msg)[1] = s[1]
         /\ s = <<>> => Append(s, msg)[1] = msg
         /\ Step2s(Append(s, msg)) = Step2s(s) \cup IF msg.type = "step2" THEN {Len(s) + 1} ELSE {}
<1> DEFINE t == Append(s, msg)
<1>1. /\ DOMAIN t = DOMAIN s \cup {Len(s) + 1} /\ t[Len(s) + 1] = msg
      /\ \A i \in DOMAIN s : t[i] = s[i]
      /\ s # <<>> => 1 \in DOMAIN s
      /\ s = <<>> => t[1] = msg
  BY AppendAt
<1> HIDE DEF t
<1>2. FirstOnly(t)
  BY <1>1 DEF FirstOnly
<1>3. Step2s(t) = Step2s(s) \cup IF msg.type = "step2" THEN {Len(s) + 1} ELSE {}
  BY <1>1 DEF Step2s
<1>4. QED
  BY <1>1, <1>2, <1>3 DEF t

\* Behind the first message no other asks.
LEMMA FirstTail ==
  ASSUME NEW s \in Seq(Message), FirstOnly(s), s # <<>>
  PROVE  /\ \A i \in DOMAIN Tail(s) : Tail(s)[i].type # "step1"
         /\ \A i \in Step2s(Tail(s)) : i + 1 \in Step2s(s) /\ i + 1 # 1 /\ i \in Nat
         /\ Tail(s) # <<>> => Tail(s)[1].type # "step1"
<1> DEFINE t == Tail(s)
<1>1. /\ \A i \in DOMAIN t : i + 1 \in DOMAIN s /\ i + 1 # 1 /\ t[i] = s[i + 1] /\ i \in Nat
      /\ t # <<>> => 1 \in DOMAIN t
  BY TailAt
<1> HIDE DEF t
<1>2. \A i \in DOMAIN t : t[i].type # "step1"
  BY <1>1 DEF FirstOnly
<1>3. \A i \in Step2s(t) : i + 1 \in Step2s(s) /\ i + 1 # 1 /\ i \in Nat
  BY <1>1 DEF Step2s
<1>4. QED
  BY <1>1, <1>2, <1>3 DEF t

\* Links with no message and with one.
LEMMA FirstNone ==
  /\ FirstOnly(<<>>) /\ Step2s(<<>>) = {} /\ DOMAIN <<>> = {}
  /\ \A msg : FirstOnly(<<msg>>) /\ <<msg>> # <<>> /\ <<msg>>[1] = msg /\ DOMAIN <<msg>> = {1}
<1>1. DOMAIN <<>> = {} /\ \A msg : <<msg>> # <<>> /\ <<msg>>[1] = msg /\ DOMAIN <<msg>> = {1}
  OBVIOUS
<1>2. QED
  BY <1>1 DEF FirstOnly, Step2s

\* Every step keeps the step 1 of a client the first that goes up (syncHandshake).
LEMMA AskedOnceStep == Types /\ Protocol /\ AskedOnce /\ [Next]_vars => AskedOnce'
<1> SUFFICES ASSUME Types, Protocol, AskedOnce, [Next]_vars, NEW j \in Conn
             PROVE  /\ FirstOnly(up'[j])
                    /\ srv'[j] \in {"accepted", "greeted"} => Asks(up'[j])
  <2>1. \A k : FirstOnly(up[k])' <=> FirstOnly(up'[k])
    BY DEF FirstOnly
  <2>2. QED
    BY <2>1 DEF AskedOnce, Asks
<1>0. /\ DocTypes /\ StageTypes /\ LinkType(up) /\ LinkType(down) /\ TypeOK
      /\ FirstOnly(up[j]) /\ up[j] \in Seq(Message)
      /\ srv[j] \in {"accepted", "greeted"} => Asks(up[j])
  BY TypeParts DEF Types, AskedOnce, LinkType
<1> USE <1>0
<1> DEFINE Goal == /\ FirstOnly(up'[j])
                   /\ srv'[j] \in {"accepted", "greeted"} => Asks(up'[j])
<1>1. ASSUME NEW k \in Conn, Dial(k) PROVE Goal
  <2> DEFINE first == [type |-> "step1", sv |-> stateVector(doc[k[1]])]
  <2>1. up' = [up EXCEPT ![k] = <<first>>] /\ srv' = [srv EXCEPT ![k] = "accepted"]
    BY <1>1 DEF Dial
  <2>2. first.type = "step1"
    OBVIOUS
  <2> HIDE DEF first
  <2>3. up'[j] = IF j = k THEN <<first>> ELSE up[j]
    BY <2>1 DEF LinkType
  <2>4. srv'[j] = IF j = k THEN "accepted" ELSE srv[j]
    BY <2>1 DEF StageTypes
  <2>5. QED
    BY <2>2, <2>3, <2>4, FirstNone DEF Asks
<1>2. ASSUME NEW msg \in Message, msg.type # "step1", up'[j] = Append(up[j], msg), UNCHANGED srv
      PROVE  Goal
  BY <1>2, FirstAppend, AppendAt DEF Asks
<1>3. ASSUME NEW k \in Conn, AnswerStep1(k) PROVE Goal
  <2>1. up' = [up EXCEPT ![k] = Append(@, Answer(k))] /\ UNCHANGED srv
        /\ down[k] # <<>> /\ Head(down[k]).type = "step1"
    BY <1>3 DEF AnswerStep1, Reads, Answer
  <2>2. Answer(k) \in Message /\ Answer(k).type # "step1"
    <3>1. EncodeStateAsUpdate(doc[k[1]], Head(down[k]).sv) \in Slices
      BY <2>1, LinkTail, ClientOfConn, MessageTypes, EncodeStateAsUpdateType DEF DocTypes
    <3>2. QED
      BY <3>1, MessageTypes DEF Answer
  <2>3. up'[j] = IF j = k THEN Append(up[j], Answer(k)) ELSE up[j]
    BY <2>1 DEF LinkType
  <2> HIDE DEF Goal
  <2>4. CASE j = k
    BY <1>2, <2>1, <2>2, <2>3, <2>4
  <2>5. CASE j # k
    BY <2>1, <2>3, <2>5 DEF Goal
  <2>6. QED
    BY <2>4, <2>5
<1>4. ASSUME NEW c \in Client, Edit(c) PROVE Goal
  <2>1. /\ up' = [k \in Conn |-> IF k \in Registered(c) THEN Append(up[k], EditMessage(c)) ELSE up[k]]
        /\ UNCHANGED srv
    BY <1>4 DEF Edit, EditMessage, EditItem
  <2>2. EditMessage(c) \in Message /\ EditMessage(c).type # "step1"
    BY EditItemType, MessageTypes DEF EditMessage
  <2>3. up'[j] = IF j \in Registered(c) THEN Append(up[j], EditMessage(c)) ELSE up[j]
    BY <2>1
  <2> HIDE DEF Goal
  <2>4. CASE j \in Registered(c)
    BY <1>2, <2>1, <2>2, <2>3, <2>4
  <2>5. CASE j \notin Registered(c)
    BY <2>1, <2>3, <2>5 DEF Goal
  <2>6. QED
    BY <2>4, <2>5
<1>5. ASSUME NEW k \in Conn, ReadStep1(k) \/ ReadStep2(k) \/ ReadUpdate(k) PROVE Goal
  <2>1. up[k] # <<>> /\ up' = [up EXCEPT ![k] = Tail(up[k])] /\ srv[k] = "reading" /\ UNCHANGED srv
    BY <1>5 DEF ReadStep1, ReadStep2, ReadUpdate, RelayReads
  <2>2. up'[j] = IF j = k THEN Tail(up[j]) ELSE up[j]
    BY <2>1 DEF LinkType
  <2>3. j = k => FirstOnly(Tail(up[j]))
    BY <2>1, FirstTail DEF FirstOnly
  <2>4. QED
    BY <2>1, <2>2, <2>3
<1>6. ASSUME NEW k \in Conn, Leave(k) PROVE Goal
  <2>1. up'[j] = IF j = k THEN <<>> ELSE up[j]
    BY <1>6 DEF Leave, LinkType
  <2>2. srv'[j] = IF j = k THEN "gone" ELSE srv[j]
    BY <1>6 DEF Leave, StageTypes
  <2>3. QED
    BY <2>1, <2>2, FirstNone
<1>7. ASSUME NEW k \in Conn, Greet(k) \/ Join(k) PROVE Goal
  BY <1>7 DEF Greet, Join, StageTypes
<1>8. ASSUME Restart PROVE Goal
  BY <1>8, FirstNone DEF Restart, StageTypes
<1>9. ASSUME UNCHANGED <<up, srv>> PROVE Goal
  BY <1>9
<1> HIDE DEF Goal
<1>10. Goal
  BY <1>1, <1>3, <1>4, <1>5, <1>6, <1>7, <1>8, <1>9, NextSteps
  DEF ReceiveStep2, HandshakeFails, Register, Receive, LoopEnds, Close, Send, Break, vars
<1>11. QED
  BY <1>10 DEF Goal

\* Every step keeps the order of a handshake: only ReadStep1 posts a step 2, only Greet a
\* step 1.
LEMMA AnsweredStep == Types /\ Protocol /\ AskedOnce /\ AnsweredOnce /\ [Next]_vars => AnsweredOnce'
<1> SUFFICES ASSUME Types, Protocol, AskedOnce, AnsweredOnce, [Next]_vars, NEW j \in Conn
             PROVE  Answered(up'[j], down'[j], outbox'[j], phase'[j])
  BY DEF AnsweredOnce, Answered, Asks, Step2s, HasStep2, FirstOnly
<1>0. /\ DocTypes /\ StageTypes /\ LinkType(up) /\ LinkType(down) /\ PostTypes /\ TypeOK
      /\ Stages /\ Quiet /\ Addressed
      /\ FirstOnly(up[j]) /\ up[j] \in Seq(Message) /\ down[j] \in Seq(Message)
      /\ Answered(up[j], down[j], outbox[j], phase[j])
  BY TypeParts DEF Types, AskedOnce, AnsweredOnce, LinkType, Protocol
<1> USE <1>0
<1> DEFINE Goal == Answered(up'[j], down'[j], outbox'[j], phase'[j])
<1>00. ~HasStep2(<<>>)
  BY DEF HasStep2
\* Nothing happens to j, or its link is cut, or its handler is registered.
<1>1. ASSUME Asks(up'[j]) => Asks(up[j]),
             HasStep2(outbox'[j]) => HasStep2(outbox[j]),
             down'[j] \in {down[j], <<>>},
             \/ phase'[j] = phase[j]
             \/ phase'[j] = "over" /\ down'[j] = <<>>
             \/ phase[j] \in {"synced", "live"}
      PROVE  Goal
  BY <1>1, FirstNone DEF Answered
<1>2. ASSUME NEW k \in Conn, Dial(k) PROVE Goal
  <2>1. CASE j = k
    <3>1. down'[j] = <<>> /\ outbox'[j] = <<>> /\ phase'[j] = "step1"
      BY <1>2, <2>1 DEF Dial, Stages, Quiet, StageTypes
    <3>2. QED
      BY <1>00, <3>1, FirstNone DEF Answered
  <2>2. CASE j # k
    BY <1>1, <1>2, <2>2 DEF Dial, LinkType, StageTypes
  <2>3. QED
    BY <2>1, <2>2
<1>3. ASSUME NEW k \in Conn, AnswerStep1(k) \/ ReceiveStep2(k) \/ Receive(k) PROVE Goal
  <2>1. /\ down' = [down EXCEPT ![k] = Tail(down[k])] /\ down[k] # <<>> /\ UNCHANGED outbox
        /\ phase[k] \in {"step1", "step2", "live"}
    BY <1>3 DEF AnswerStep1, ReceiveStep2, Receive, Reads
  <2>2. CASE j = k
    <3> DEFINE t == Tail(down[j])
    <3>1. down'[j] = t /\ outbox'[j] = outbox[j]
      BY <2>1, <2>2 DEF LinkType
    <3>2. /\ \A i \in DOMAIN t : t[i].type # "step1"
          /\ \A i \in Step2s(t) : i + 1 \in Step2s(down[j]) /\ i + 1 # 1 /\ i \in Nat
      BY <2>1, <2>2, FirstTail DEF Answered
    <3> HIDE DEF t
    <3>3. FirstOnly(t) /\ (Step2s(down[j]) = {} => Step2s(t) = {})
      BY <3>2 DEF FirstOnly
    <3>4. \A a, b \in Step2s(t) : a = b
      <4>1. ASSUME NEW a \in Step2s(t), NEW b \in Step2s(t)
            PROVE  a = b
        <5>1. a + 1 = b + 1
          BY <3>2 DEF Answered
        <5>2. QED
          BY <3>2, <5>1
      <4>2. QED
        BY <4>1
    <3>5. CASE AnswerStep1(k)
      <4>1. /\ up' = [up EXCEPT ![k] = Append(@, Answer(k))] /\ phase' = [phase EXCEPT ![k] = "step2"]
            /\ Head(down[k]).type = "step1"
        BY <3>5 DEF AnswerStep1, Reads, Answer
      <4>2. Answer(k) \in Message /\ Answer(k).type # "step1"
        <5>1. EncodeStateAsUpdate(doc[k[1]], Head(down[k]).sv) \in Slices
          BY <2>1, <4>1, LinkTail, ClientOfConn, MessageTypes, EncodeStateAsUpdateType DEF DocTypes
        <5>2. QED
          BY <5>1, MessageTypes DEF Answer
      <4>3. up'[j] = Append(up[j], Answer(k)) /\ phase'[j] = "step2"
        BY <2>2, <4>1 DEF LinkType, StageTypes
      <4>4. Asks(up'[j]) => Asks(up[j])
        BY <4>2, <4>3, FirstAppend DEF Asks
      <4>5. QED
        BY <3>1, <3>2, <3>3, <3>4, <4>3, <4>4 DEF Answered
    <3>6. CASE ReceiveStep2(k)
      <4>1. /\ UNCHANGED up /\ phase' = [phase EXCEPT ![k] = "synced"]
            /\ Head(down[k]).type = "step2"
        BY <3>6 DEF ReceiveStep2, Reads
      <4>2. 1 \in Step2s(down[j])
        BY <2>1, <2>2, <4>1, TailAt DEF Step2s
      <4>3. Step2s(t) = {}
        BY <3>2, <4>2 DEF Answered
      <4>4. phase'[j] = "synced"
        BY <2>2, <4>1 DEF StageTypes
      <4>5. QED
        BY <3>1, <3>2, <3>3, <4>1, <4>2, <4>3, <4>4 DEF Answered
    <3>7. CASE Receive(k)
      <4>1. UNCHANGED <<up, phase>>
        BY <3>7 DEF Receive
      <4>2. QED
        BY <3>1, <3>2, <3>3, <3>4, <4>1 DEF Answered
    <3> HIDE DEF Goal
    <3>8. QED
      BY <1>3, <3>5, <3>6, <3>7
  <2>3. CASE j # k
    <3>1. down'[j] = down[j]
      BY <2>1, <2>3 DEF LinkType
    <3>2. up'[j] = up[j] /\ phase'[j] = phase[j]
      BY <1>3, <2>3 DEF AnswerStep1, ReceiveStep2, Receive, LinkType, StageTypes
    <3>3. QED
      BY <1>1, <2>1, <3>1, <3>2
  <2>4. QED
    BY <2>2, <2>3
<1>4. ASSUME NEW k \in Conn, HandshakeFails(k) \/ Close(k) \/ Break(k) PROVE Goal
  <2>1. /\ UNCHANGED <<up, outbox>> /\ down' = [down EXCEPT ![k] = <<>>]
        /\ UNCHANGED phase \/ phase' = [phase EXCEPT ![k] = "over"]
    BY <1>4 DEF HandshakeFails, Close, Break, Cut
  <2>2. /\ down'[j] = IF j = k THEN <<>> ELSE down[j]
        /\ phase'[j] = phase[j] \/ (j = k /\ phase'[j] = "over")
    BY <2>1 DEF LinkType, StageTypes
  <2> HIDE DEF Goal
  <2>3. QED
    BY <1>1, <2>1, <2>2
<1>5. ASSUME NEW k \in Conn, Register(k) \/ LoopEnds(k) PROVE Goal
  <2>1. /\ UNCHANGED <<up, down, outbox>>
        /\ phase'[j] = phase[j] \/ phase[j] \in {"synced", "live"}
    BY <1>5 DEF Register, LoopEnds, StageTypes
  <2> HIDE DEF Goal
  <2>2. QED
    BY <1>1, <2>1
<1>6. ASSUME NEW k \in Conn, Greet(k) PROVE Goal
  <2> DEFINE first == [type |-> "step1", sv |-> stateVector(room)]
  <2>1. /\ UNCHANGED <<up, outbox, phase>> /\ srv[k] = "accepted"
        /\ down' = IF link[k] THEN [down EXCEPT ![k] = <<first>>] ELSE down
    BY <1>6 DEF Greet
  <2>2. first.type = "step1"
    OBVIOUS
  <2> HIDE DEF first
  <2>3. CASE j = k /\ link[k]
    <3>1. down'[j] = <<first>> /\ phase[j] = "step1"
      BY <2>1, <2>3 DEF LinkType, Stages
    <3>2. Step2s(<<first>>) = {} /\ FirstOnly(<<first>>)
      BY <2>2, FirstNone DEF Step2s
    <3>3. QED
      BY <2>1, <2>2, <3>1, <3>2 DEF Answered
  <2>4. CASE ~(j = k /\ link[k])
    <3>1. down'[j] = down[j]
      BY <2>1, <2>4 DEF LinkType
    <3> HIDE DEF Goal
    <3>2. QED
      BY <1>1, <2>1, <3>1
  <2>5. QED
    BY <2>3, <2>4
<1>7. ASSUME NEW k \in Conn, Send(k) PROVE Goal
  <2> DEFINE post == Head(outbox[k])
  <2>1. /\ outbox[k] # <<>> /\ outbox' = [outbox EXCEPT ![k] = Tail(outbox[k])]
        /\ down' = IF link[post.to] THEN [down EXCEPT ![post.to] = Append(@, post.msg)] ELSE down
        /\ UNCHANGED <<up, phase>>
    BY <1>7 DEF Send
  <2>2. /\ post = outbox[k][1] /\ post.to \in Conn /\ post.msg \in Message /\ post.msg.type # "step1"
        /\ post.msg.type = "step2" => post.to = k /\ Tail(outbox[k]) = <<>>
    <3>1. post = outbox[k][1] /\ 1 \in DOMAIN outbox[k] /\ post.to \in Conn /\ post.msg \in Message
      BY <2>1, PostAt
    <3>2. post.msg.type # "step1" /\ (post.msg.type = "step2" => post.to = k /\ Len(outbox[k]) = 1)
      <4> HIDE DEF post
      <4>1. QED
        BY <3>1 DEF Addressed
    <3>3. Len(outbox[k]) = 1 => Tail(outbox[k]) = <<>>
      BY <2>1, PostAt
    <3>4. QED
      BY <3>1, <3>2, <3>3
  <2>3. outbox'[j] = outbox[j] \/ (j = k /\ outbox'[j] = Tail(outbox[k]))
    BY <2>1, PostsOf
  <2>4. HasStep2(outbox'[j]) => HasStep2(outbox[j])
    <3>1. HasStep2(Tail(outbox[k])) => HasStep2(outbox[k])
      BY <2>1, PostAt DEF HasStep2
    <3>2. QED
      BY <2>3, <3>1
  <2>5. CASE post.to = j /\ link[j]
    <3>1. down'[j] = Append(down[j], post.msg)
      BY <2>1, <2>5 DEF LinkType
    <3>2. FirstOnly(down[j])
      BY DEF Answered
    <3>3. /\ FirstOnly(Append(down[j], post.msg))
          /\ Step2s(Append(down[j], post.msg))
                = Step2s(down[j]) \cup IF post.msg.type = "step2" THEN {Len(down[j]) + 1} ELSE {}
      <4> DEFINE msg == post.msg
                 s == down[j]
      <4>1. msg \in Message /\ msg.type # "step1"
        BY <2>2
      <4>2. s \in Seq(Message)
        BY DEF LinkType
      <4>3. FirstOnly(s)
        BY <3>2
      <4> HIDE DEF msg, s
      <4>4. /\ FirstOnly(Append(s, msg))
            /\ Step2s(Append(s, msg)) = Step2s(s) \cup IF msg.type = "step2" THEN {Len(s) + 1} ELSE {}
        BY <4>1, <4>2, <4>3, FirstAppend
      <4>5. QED
        BY <4>4 DEF msg, s
    <3>4. ASSUME NEW i \in DOMAIN Append(down[j], post.msg), Append(down[j], post.msg)[i].type = "step1"
          PROVE  phase[j] = "step1"
      <4> HIDE DEF post
      <4>1. i \in DOMAIN down[j] /\ Append(down[j], post.msg)[i] = down[j][i]
        BY <2>2, <3>4, AppendAt
      <4>2. QED
        BY <3>4, <4>1 DEF Answered
    <3>5. CASE post.msg.type = "step2"
      <4>1. j = k /\ outbox'[j] = <<>>
        BY <2>1, <2>2, <2>5, <3>5, PostsOf
      <4>2. HasStep2(outbox[j])
        BY <2>1, <2>2, <3>5, <4>1, PostAt DEF HasStep2
      <4>3. Step2s(down[j]) = {} /\ ~Asks(up[j]) /\ phase[j] \notin {"synced", "live"}
        BY <4>2 DEF Answered
      <4> HIDE DEF post
      <4> DEFINE t == Append(down[j], post.msg)
      <4>4. \A a, b \in Step2s(t) : a = b
        BY <3>3, <3>5, <4>3
      <4>5. FirstOnly(t) /\ \A i \in DOMAIN t : t[i].type = "step1" => phase[j] = "step1"
        BY <3>3, <3>4
      <4>6. /\ down'[j] = t /\ outbox'[j] = <<>> /\ up'[j] = up[j] /\ phase'[j] = phase[j]
            /\ ~HasStep2(<<>>)
        BY <1>00, <2>1, <3>1, <4>1
      <4> HIDE DEF t
      <4>7. QED
        BY <4>3, <4>4, <4>5, <4>6 DEF Answered
    <3>6. CASE post.msg.type # "step2"
      <4> HIDE DEF post
      <4>1. QED
        BY <2>1, <2>4, <3>1, <3>3, <3>4, <3>6 DEF Answered
    <3>7. QED
      BY <3>5, <3>6
  <2>6. CASE ~(post.to = j /\ link[j])
    <3>1. down'[j] = down[j]
      <4> HIDE DEF post
      <4>1. QED
        BY <2>1, <2>2, <2>6 DEF LinkType
    <3> HIDE DEF Goal
    <3>2. QED
      BY <1>1, <2>1, <2>4, <3>1
  <2> HIDE DEF Goal
  <2>7. QED
    BY <2>5, <2>6
<1>8. ASSUME NEW k \in Conn, ReadStep1(k) \/ ReadStep2(k) \/ ReadUpdate(k) PROVE Goal
  <2>1. /\ up[k] # <<>> /\ up' = [up EXCEPT ![k] = Tail(up[k])] /\ outbox[k] = <<>>
        /\ UNCHANGED <<down, phase>>
    BY <1>8 DEF ReadStep1, ReadStep2, ReadUpdate, RelayReads
  <2>2. up'[j] = IF j = k THEN Tail(up[j]) ELSE up[j]
    BY <2>1 DEF LinkType
  <2>3. j = k => ~Asks(up'[j])
    BY <2>1, <2>2, FirstTail DEF Asks
  <2>4. CASE j # k \/ ReadStep2(k)
    <3>1. outbox'[j] = outbox[j]
      BY <1>8, <2>4, PostsOf DEF ReadStep1, ReadStep2, ReadUpdate
    <3> HIDE DEF Goal
    <3>2. QED
      BY <1>1, <2>1, <2>2, <2>3, <3>1
  <2>5. CASE j = k /\ ReadStep1(k)
    <3>1. Asks(up[j])
      BY <2>1, <2>5, TailAt DEF ReadStep1, RelayReads, Asks
    <3>2. QED
      BY <2>1, <2>3, <2>5, <3>1 DEF Answered
  <2>6. CASE j = k /\ ReadUpdate(k)
    <3>1. ~HasStep2(outbox'[j])
      <4> DEFINE msg    == Head(up[k])
                 others == Without(members, k)
                 posts  == [i \in DOMAIN others |-> [to |-> others[i], msg |-> msg]]
      <4>1. outbox' = [outbox EXCEPT ![k] = posts] /\ msg.type = "update"
        BY <2>6 DEF ReadUpdate, RelayReads
      <4>2. \A i \in DOMAIN posts : posts[i].msg = msg
        OBVIOUS
      <4> HIDE DEF posts
      <4>3. outbox'[j] = posts
        BY <2>6, <4>1, PostsOf
      <4>4. QED
        BY <4>1, <4>2, <4>3 DEF HasStep2
    <3> HIDE DEF Goal
    <3>2. QED
      BY <1>1, <2>1, <2>3, <2>6, <3>1
  <2> HIDE DEF Goal
  <2>7. QED
    BY <1>8, <2>4, <2>5, <2>6
<1>9. ASSUME NEW c \in Client, Edit(c) PROVE Goal
  <2>1. /\ up' = [k \in Conn |-> IF k \in Registered(c) THEN Append(up[k], EditMessage(c)) ELSE up[k]]
        /\ UNCHANGED <<down, phase, outbox>>
    BY <1>9 DEF Edit, EditMessage, EditItem
  <2>2. EditMessage(c) \in Message /\ EditMessage(c).type # "step1"
    BY EditItemType, MessageTypes DEF EditMessage
  <2>3. up'[j] = up[j] \/ up'[j] = Append(up[j], EditMessage(c))
    BY <2>1
  <2>4. Asks(up'[j]) => Asks(up[j])
    BY <2>2, <2>3, FirstAppend DEF Asks
  <2> HIDE DEF Goal
  <2>5. QED
    BY <1>1, <2>1, <2>4
<1>10. ASSUME NEW k \in Conn, Leave(k) PROVE Goal
  <2>1. /\ UNCHANGED <<down, phase, outbox>>
        /\ up'[j] = up[j] \/ up'[j] = <<>>
    BY <1>10 DEF Leave, LinkType
  <2>2. Asks(up'[j]) => Asks(up[j])
    BY <2>1 DEF Asks
  <2> HIDE DEF Goal
  <2>3. QED
    BY <1>1, <2>1, <2>2
<1>11. ASSUME Restart PROVE Goal
  <2>1. up'[j] = <<>> /\ down'[j] = <<>> /\ outbox'[j] = <<>> /\ UNCHANGED phase
    BY <1>11 DEF Restart
  <2>2. ~Asks(up'[j]) /\ ~HasStep2(outbox'[j])
    BY <1>00, <2>1 DEF Asks
  <2> HIDE DEF Goal
  <2>3. QED
    BY <1>1, <2>1, <2>2
<1>12. ASSUME UNCHANGED <<up, down, outbox, phase>> PROVE Goal
  BY <1>12
<1> HIDE DEF Goal
<1>13. Goal
  BY <1>2, <1>3, <1>4, <1>5, <1>6, <1>7, <1>8, <1>9, <1>10, <1>11, <1>12, NextSteps
  DEF Join, vars
<1>14. QED
  BY <1>13 DEF Goal

\* The handshake: what holds of it in every state.
Handshake == Protocol /\ AskedOnce /\ AnsweredOnce

\* Nothing is asked at first.
LEMMA HandshakeInit == Init => Handshake
<1> SUFFICES ASSUME Init PROVE Handshake
  OBVIOUS
<1>1. AskedOnce
  BY FirstNone DEF Init, AskedOnce
<1>2. ~Asks(<<>>) /\ ~HasStep2(<<>>)
  BY DEF Asks, HasStep2
<1>3. AnsweredOnce
  BY <1>2, FirstNone DEF Init, AnsweredOnce, Answered
<1>4. QED
  BY <1>1, <1>3, ProtocolInit DEF Handshake

\* Every step keeps the order of the handshakes.
LEMMA HandshakeStep == Types /\ Handshake /\ [Next]_vars => Handshake'
  BY ProtocolStep, AskedOnceStep, AnsweredStep DEF Handshake

-----------------------------------------------------------------------------
(***************************************************************************)
(* A relay that runs cleanly.                                              *)
(*                                                                         *)
(* As long as it does, every Doc holds a prefix of the edits of each       *)
(* client, clients that are connected miss none, and what they edit        *)
(* reaches the room.  The argument.  A message carries runs of edits, and  *)
(* each run is read by someone who holds the edit before it, or has read   *)
(* it just before.  So what is applied extends a prefix to a longer        *)
(* prefix, state vectors say what a Doc holds, and answers to them leave   *)
(* nothing out.                                                            *)
(***************************************************************************)
-----------------------------------------------------------------------------
(***************************************************************************)
(* Docs without gaps.                                                      *)
(***************************************************************************)
Whole(d) == \A c \in Client : d[c] = Prefix(Len(d[c]))

Runs(items) == \A c \in Client : IsRun(items[c])

\* All that is in items is in a Doc; only x has edited what is in items.
Within(items, d) == \A c \in Client : Edits(items[c]) \subseteq Edits(d[c])

Own(items, x) == \A c \in Client \ {x} : items[c] = <<>>

\* Somebody who holds the edits S can take the run r.
Joins(r, S) == r # <<>> => r[1].edit = 0 \/ r[1].edit - 1 \in S

\* A Doc holds what a state vector says.
Known(sv, d) == \A c \in Client : 0 .. sv[c] - 1 \subseteq Edits(d[c])

\* Of a Doc without gaps the number of edits says which.
LEMMA EditsWhole ==
  ASSUME NEW d \in Slices, Whole(d), NEW c \in Client
  PROVE  /\ Len(d[c]) \in Nat /\ d[c] = Prefix(Len(d[c]))
         /\ Edits(d[c]) = 0 .. Len(d[c]) - 1 /\ State(d[c]) = Len(d[c])
<1>1. d[c] \in Seq(Item) /\ d[c] = Prefix(Len(d[c]))
  BY DEF Slices, Whole
<1>2. Len(d[c]) \in Nat
  BY <1>1
<1> DEFINE n == Len(d[c])
<1> HIDE DEF n
<1>3. Edits(Prefix(n)) = 0 .. n - 1 /\ State(Prefix(n)) = n
  BY <1>2, PrefixType DEF n
<1>4. d[c] = Prefix(n) /\ n \in Nat
  BY <1>1, <1>2 DEF n
<1>5. Edits(d[c]) = 0 .. n - 1 /\ State(d[c]) = n
  BY <1>3, <1>4
<1>6. QED
  BY <1>1, <1>2, <1>5 DEF n

\* Its state vector is true.
LEMMA StateVectorKnown ==
  ASSUME NEW d \in Slices, Whole(d)
  PROVE  Known(stateVector(d), d)
  BY EditsWhole DEF Known, stateVector

\* A Doc that can take every run of an update has no gaps afterwards, and holds the
\* edits of both.
LEMMA ApplyWhole ==
  ASSUME NEW d \in Slices, Whole(d), NEW items \in Slices, Runs(items),
         \A c \in Client : Joins(items[c], Edits(d[c]))
  PROVE  /\ ApplyUpdate(d, items) \in Slices /\ Whole(ApplyUpdate(d, items))
         /\ \A c \in Client : Edits(ApplyUpdate(d, items)[c]) = Edits(d[c]) \cup Edits(items[c])
<1> DEFINE a == ApplyUpdate(d, items)
<1>1. ASSUME NEW c \in Client
      PROVE  a[c] = Prefix(Len(a[c])) /\ Edits(a[c]) = Edits(d[c]) \cup Edits(items[c])
  <2> DEFINE n == Len(d[c])
             r == items[c]
  <2>1. n \in Nat /\ d[c] = Prefix(n) /\ Edits(d[c]) = 0 .. n - 1
    BY EditsWhole
  <2>2. r \in Seq(Item) /\ IsRun(r)
    BY DEF Slices, Runs
  <2>3. ASSUME r # <<>>
        PROVE  r[1].edit <= n
    <3>1. r[1] \in Item
      BY <2>2, <2>3
    <3>2. r[1].edit \in Nat
      BY <3>1 DEF Item
    <3>3. r[1].edit = 0 \/ r[1].edit - 1 \in 0 .. n - 1
      BY <2>1, <2>3 DEF Joins
    <3>4. QED
      BY <2>1, <3>2, <3>3
  <2>4. a[c] = Integrated(d[c], r)
    BY DEF ApplyUpdate
  <2> HIDE DEF n, r, a
  <2>5. PICK m \in Nat : Integrated(Prefix(n), r) = Prefix(m) /\ 0 .. m - 1 = (0 .. n - 1) \cup Edits(r)
    BY <2>1, <2>2, <2>3, PrefixIntegrated
  <2>6. a[c] = Prefix(m)
    BY <2>1, <2>4, <2>5
  <2>7. Len(Prefix(m)) = m /\ Edits(Prefix(m)) = 0 .. m - 1
    BY PrefixType
  <2>8. QED
    BY <2>1, <2>5, <2>6, <2>7 DEF r
<1>2. a \in Slices
  BY ApplyUpdateIds
<1>3. QED
  BY <1>1, <1>2 DEF Whole

\* An answer to a state vector that x holds joins x, and leaves nothing out.
LEMMA EncodeWhole ==
  ASSUME NEW d \in Slices, Whole(d), NEW sv \in [Client -> Nat], NEW x, Known(sv, x)
  PROVE  LET items == EncodeStateAsUpdate(d, sv)
         IN  /\ items \in Slices /\ Runs(items) /\ Within(items, d)
             /\ \A c \in Client : /\ Joins(items[c], Edits(x[c]))
                                  /\ Edits(d[c]) \subseteq Edits(x[c]) \cup Edits(items[c])
<1> DEFINE items == EncodeStateAsUpdate(d, sv)
<1>1. ASSUME NEW c \in Client
      PROVE  /\ IsRun(items[c]) /\ Edits(items[c]) \subseteq Edits(d[c])
             /\ Joins(items[c], Edits(x[c]))
             /\ Edits(d[c]) \subseteq Edits(x[c]) \cup Edits(items[c])
  <2> DEFINE n == Len(d[c])
             s == sv[c]
             B == Beyond(Prefix(n), s)
  <2>1. n \in Nat /\ d[c] = Prefix(n) /\ Edits(d[c]) = 0 .. n - 1
    BY EditsWhole
  <2>2. s \in Nat /\ 0 .. s - 1 \subseteq Edits(x[c])
    BY DEF Known
  <2>3. items[c] = B
    BY <2>1 DEF EncodeStateAsUpdate
  <2> HIDE DEF n, s, items
  <2>4. IsRun(B) /\ Edits(B) = s .. n - 1 /\ (B # <<>> => B[1].edit = s)
    BY <2>1, <2>2, BeyondPrefix
  <2> HIDE DEF B
  <2>5. Joins(B, Edits(x[c]))
    <3>1. s = 0 \/ s - 1 \in 0 .. s - 1
      BY <2>2
    <3>2. QED
      BY <2>2, <2>4, <3>1 DEF Joins
  <2>6. s .. n - 1 \subseteq 0 .. n - 1 /\ 0 .. n - 1 \subseteq (0 .. s - 1) \cup (s .. n - 1)
    BY <2>1, <2>2
  <2>7. QED
    BY <2>1, <2>2, <2>3, <2>4, <2>5, <2>6
<1>2. items \in Slices
  BY EncodeStateAsUpdateType
<1> HIDE DEF items
<1>3. Runs(items) /\ Within(items, d)
  BY <1>1 DEF Runs, Within
<1>4. QED
  BY <1>1, <1>2, <1>3 DEF items

\* The next edit of a client.
LEMMA EditWhole ==
  ASSUME NEW n \in Nat
  PROVE  Append(Prefix(n), Edit1(n)) = Prefix(n + 1)
<1>1. Edit1(n).clock = n
  BY DEF Edit1
<1>2. ~Holds(Prefix(n), Edit1(n).clock)
  BY <1>1, PrefixHolds
<1>3. integrateItem(Prefix(n), Edit1(n)) = Append(Prefix(n), Edit1(n))
  BY <1>2 DEF integrateItem
<1>4. QED
  BY <1>3, PrefixIntegrate

-----------------------------------------------------------------------------
(***************************************************************************)
(* Messages that follow each other.                                        *)
(***************************************************************************)
Earlier(s, i) == { s[h] : h \in { n \in DOMAIN s : n < i /\ s[n].type # "step1" } }

\* Whoever holds the edits base can take what the messages of some types carry, one
\* message after the other.
Ordered(s, types, base, c) ==
    \A i \in DOMAIN s :
        s[i].type \in types => Joins(s[i].items[c], base \cup Carried(Earlier(s, i), c))

\* Who holds more can take what joins less.
LEMMA JoinsMore ==
  ASSUME NEW r, NEW S, NEW T, Joins(r, S), S \subseteq T
  PROVE  Joins(r, T)
  BY DEF Joins

\* More messages carry more.
LEMMA CarriedMore ==
  ASSUME NEW S, NEW T, S \subseteq T, NEW c
  PROVE  Carried(S, c) \subseteq Carried(T, c)
  BY DEF Carried

\* What a message of a set carries the set carries.
LEMMA CarriedBy ==
  ASSUME NEW S, NEW msg \in S, NEW c
  PROVE  Edits(msg.items[c]) \subseteq Carried(S, c)
  BY DEF Carried

\* And what a set carries one of its messages carries.
LEMMA InCarried ==
  ASSUME NEW S, NEW c, NEW e \in Carried(S, c)
  PROVE  \E msg \in S : e \in Edits(msg.items[c])
  BY DEF Carried

\* Who holds more can take messages in the order for who holds less.
LEMMA OrderedMore ==
  ASSUME NEW s, NEW types, NEW base, NEW c, Ordered(s, types, base, c), NEW more, base \subseteq more
  PROVE  Ordered(s, types, more, c)
<1>1. ASSUME NEW i \in DOMAIN s, s[i].type \in types
      PROVE  Joins(s[i].items[c], more \cup Carried(Earlier(s, i), c))
  <2>1. Joins(s[i].items[c], base \cup Carried(Earlier(s, i), c))
    BY <1>1 DEF Ordered
  <2>2. base \cup Carried(Earlier(s, i), c) \subseteq more \cup Carried(Earlier(s, i), c)
    OBVIOUS
  <2>3. QED
    BY <2>1, <2>2, JoinsMore
<1>2. QED
  BY <1>1 DEF Ordered

\* A message is sent that joins what is there already.
LEMMA OrderedAppend ==
  ASSUME NEW s \in Seq(Message), NEW msg \in Message, NEW types, NEW base, NEW c,
         Ordered(s, types, base, c),
         msg.type \in types => Joins(msg.items[c], base \cup Carried(Contents(s), c))
  PROVE  Ordered(Append(s, msg), types, base, c)
<1> DEFINE t == Append(s, msg)
           n == Len(s) + 1
<1>1. /\ DOMAIN t = DOMAIN s \cup {n} /\ t[n] = msg
      /\ \A i \in DOMAIN s : t[i] = s[i] /\ i < n /\ i \in Nat
      /\ n \in Nat
  BY AppendAt
<1> HIDE DEF t, n
<1>2. ASSUME NEW i \in DOMAIN s
      PROVE  Earlier(t, i) = Earlier(s, i)
  <2>1. \A h \in DOMAIN t : h < i => h \in DOMAIN s
    BY <1>1
  <2>2. QED
    BY <1>1, <2>1 DEF Earlier
<1>3. Earlier(t, n) = Contents(s)
  <2>1. \A h \in DOMAIN t : h < n <=> h \in DOMAIN s
    BY <1>1
  <2>2. QED
    BY <1>1, <2>1 DEF Earlier, Contents
<1>4. ASSUME NEW i \in DOMAIN t, t[i].type \in types
      PROVE  Joins(t[i].items[c], base \cup Carried(Earlier(t, i), c))
  <2>1. CASE i \in DOMAIN s
    BY <1>1, <1>2, <1>4, <2>1 DEF Ordered
  <2>2. CASE i = n
    BY <1>1, <1>3, <1>4, <2>2
  <2>3. QED
    BY <1>1, <2>1, <2>2
<1>5. QED
  BY <1>4 DEF Ordered, t

\* The first message is read; whoever reads it holds what it carries.
LEMMA OrderedTail ==
  ASSUME NEW s \in Seq(Message), s # <<>>, NEW types, NEW base, NEW c, Ordered(s, types, base, c),
         NEW more, base \subseteq more,
         Head(s).type # "step1" => Edits(Head(s).items[c]) \subseteq more
  PROVE  Ordered(Tail(s), types, more, c)
<1> DEFINE t == Tail(s)
           h == Head(s)
<1>1. /\ 1 \in DOMAIN s /\ h = s[1]
      /\ \A i \in DOMAIN t : i + 1 \in DOMAIN s /\ t[i] = s[i + 1] /\ i \in Nat
      /\ \A i \in DOMAIN s : i \in Nat /\ (i # 1 => i - 1 \in DOMAIN t /\ t[i - 1] = s[i])
  BY TailAt
<1> HIDE DEF t, h
<1>2. ASSUME NEW i \in DOMAIN t, NEW msg \in Earlier(s, i + 1)
      PROVE  msg \in Earlier(t, i) \/ (msg = h /\ h.type # "step1")
  <2>1. PICK n \in DOMAIN s : n < i + 1 /\ s[n].type # "step1" /\ msg = s[n]
    BY DEF Earlier
  <2>2. CASE n = 1
    BY <1>1, <2>1, <2>2
  <2>3. CASE n # 1
    <3>1. n - 1 \in DOMAIN t /\ t[n - 1] = msg /\ n - 1 < i
      BY <1>1, <2>1, <2>3
    <3>2. QED
      BY <2>1, <3>1 DEF Earlier
  <2>4. QED
    BY <2>2, <2>3
<1>3. ASSUME NEW i \in DOMAIN t, t[i].type \in types
      PROVE  Joins(t[i].items[c], more \cup Carried(Earlier(t, i), c))
  <2>1. Joins(t[i].items[c], base \cup Carried(Earlier(s, i + 1), c))
    BY <1>1, <1>3 DEF Ordered
  <2>2. ASSUME NEW e \in Carried(Earlier(s, i + 1), c)
        PROVE  e \in more \cup Carried(Earlier(t, i), c)
    <3>1. PICK msg \in Earlier(s, i + 1) : e \in Edits(msg.items[c])
      BY <2>2, InCarried
    <3>2. CASE msg \in Earlier(t, i)
      BY <3>1, <3>2, CarriedBy
    <3>3. CASE msg = h /\ h.type # "step1"
      BY <3>1, <3>3 DEF h
    <3>4. QED
      BY <1>2, <3>2, <3>3
  <2>3. QED
    BY <2>1, <2>2, JoinsMore
<1>4. QED
  BY <1>3 DEF Ordered, t

\* No message needs anything.
LEMMA OrderedNone ==
  ASSUME NEW types, NEW base, NEW c
  PROVE  Ordered(<<>>, types, base, c)
  BY DEF Ordered

\* The first of them needs nothing but base.
LEMMA OrderedHead ==
  ASSUME NEW s \in Seq(Message), s # <<>>, NEW types, NEW base, NEW c, Ordered(s, types, base, c),
         Head(s).type \in types
  PROVE  Joins(Head(s).items[c], base)
<1>1. 1 \in DOMAIN s /\ Head(s) = s[1] /\ \A i \in DOMAIN s : ~(i < 1)
  OBVIOUS
<1>2. Earlier(s, 1) = {}
  BY <1>1 DEF Earlier
<1>3. Carried(Earlier(s, 1), c) = {}
  BY <1>2 DEF Carried
<1>4. QED
  BY <1>1, <1>3 DEF Ordered

-----------------------------------------------------------------------------
(***************************************************************************)
(* The inductive invariant.                                                *)
(***************************************************************************)
WholeDocs == Whole(room) /\ \A c \in Client : Whole(doc[c])

\* A client sends what it holds, the relay what the room holds; an update carries
\* edits of the client from whose connection it comes.
Loads ==
    \A k \in Conn :
        /\ \A msg \in Contents(up[k]) :
              /\ Runs(msg.items) /\ Within(msg.items, doc[k[1]])
              /\ msg.type = "update" => Own(msg.items, k[1])
        /\ \A msg \in Contents(down[k]) : Runs(msg.items) /\ Within(msg.items, room)
        /\ \A i \in DOMAIN outbox[k] :
              /\ Runs(outbox[k][i].msg.items) /\ Within(outbox[k][i].msg.items, room)
              /\ outbox[k][i].msg.type = "update" => Own(outbox[k][i].msg.items, k[1])

\* The state vectors under way.
Offers ==
    \A k \in Conn :
        /\ Asks(up[k]) => Known(up[k][1].sv, doc[k[1]])
        /\ \A i \in DOMAIN down[k] : down[k][i].type = "step1" => Known(down[k][i].sv, room)

\* The relay can take what comes up, in order.
UpJoins == \A k \in Conn, c \in Client : Ordered(up[k], {"step2", "update"}, Edits(room[c]), c)

\* A client that waits for an answer and has an update before it: the handshake will
\* fail.
Doomed(p, d) ==
    /\ p \in {"step1", "step2"}
    /\ \E i \in DOMAIN d : d[i].type = "update" /\ \A h \in Step2s(d) : ~(h < i)

\* A client can take what comes down, in order.
DownJoins ==
    \A k \in Conn, c \in Client :
        /\ \A i \in Step2s(down[k]) : Joins(down[k][i].items[c], Edits(doc[k[1]][c]))
        /\ link[k] /\ ~Doomed(phase[k], down[k]) =>
              Ordered(down[k], {"update"}, Edits(doc[k[1]][c]), c)

\* The answers that a goroutine has yet to send.
Replies(posts) == { posts[i].msg : i \in { n \in DOMAIN posts : posts[n].msg.type = "step2" } }

\* What a client holds or will hold without another goroutine of the relay.
Coming(k, c) ==
    Edits(doc[k[1]][c]) \cup Carried(Contents(down[k]), c) \cup Carried(Replies(outbox[k]), c)

\* And what it has yet to be sent, in whichever order the goroutines get to send.
PostsJoin ==
    \A k \in Conn, c \in Client :
        /\ \A msg \in Replies(outbox[k]) : Joins(msg.items[c], Edits(doc[k[1]][c]))
        /\ link[k] /\ ~Doomed(phase[k], down[k]) /\ ~Asks(up[k]) =>
              \A j \in Conn, msg \in Message :
                  PostedTo(k, j, msg) /\ msg.type = "update" =>
                      Joins(msg.items[c], Coming(k, c))

\* What a client has edited is in the room or on the way up, once it has answered.
Forwarded ==
    \A k \in Conn : link[k] /\ phase[k] \in {"step2", "synced", "live"} =>
        Edits(doc[k[1]][k[1]]) \subseteq Edits(room[k[1]]) \cup Carried(Contents(up[k]), k[1])

\* What the room holds a client holds, or it is on the way down, once it was answered.
Fetched ==
    \A k \in Conn, c \in Client : link[k] /\ srv[k] = "reading" /\ ~Asks(up[k]) =>
        Edits(room[c]) \subseteq Edits(doc[k[1]][c]) \cup Carried(MessagesTo(k), c)

Sound ==
    /\ WholeDocs /\ Loads /\ Offers /\ UpJoins /\ DownJoins /\ PostsJoin
    /\ Forwarded /\ Fetched

\* The clean runs, and how each step keeps them so.
LEMMA StaysClean ==
  ASSUME Types, [Next]_vars, clean'
  PROVE  /\ clean
         /\ \A c \in Client : Edit(c) =>
               \A k \in Conn : k[1] = c => phase[k] \notin {"step2", "synced"}
         /\ \A k \in Conn : ReadStep2(k) =>
               room' = room \/ \A m \in Conn : srv[m] = "reading" => m[1] = k[1]
         /\ \A k \in Conn : ReadUpdate(k) =>
               \A j \in Conn \ {k} : j[1] = k[1] => outbox[j] = <<>>
<1>0. clean \in BOOLEAN /\ Registry
  BY TypeParts DEF HistoryTypes
<1>1. ASSUME NEW c \in Client, Edit(c)
      PROVE  clean /\ \A k \in Conn : k[1] = c => phase[k] \notin {"step2", "synced"}
  BY <1>1 DEF Edit
<1>2. ASSUME NEW k \in Conn, ReadStep2(k)
      PROVE  clean /\ (room' = room \/ \A m \in Conn : srv[m] = "reading" => m[1] = k[1])
  <2>1. clean /\ (room' # room => { m[1] : m \in Range(members) } = {k[1]})
    BY <1>2 DEF ReadStep2
  <2>2. ASSUME NEW m \in Conn, srv[m] = "reading", room' # room
        PROVE  m[1] = k[1]
    <3>1. m \in Range(members)
      BY <1>0, <2>2 DEF Registry
    <3>2. m[1] \in { x[1] : x \in Range(members) }
      BY <3>1
    <3>3. QED
      BY <2>1, <2>2, <3>2
  <2>3. QED
    BY <2>1, <2>2
<1>3. ASSUME NEW k \in Conn, ReadUpdate(k)
      PROVE  clean /\ \A j \in Conn \ {k} : j[1] = k[1] => outbox[j] = <<>>
  BY <1>3 DEF ReadUpdate
<1>4. CASE UNCHANGED clean
  BY <1>1, <1>2, <1>3, <1>4
<1>5. clean
  BY <1>1, <1>2, <1>3, <1>4, NextSteps
  DEF Dial, AnswerStep1, ReceiveStep2, HandshakeFails, Register, Receive, LoopEnds, Close,
      Greet, Join, Send, ReadStep1, Leave, Break, Restart, vars
<1>6. QED
  BY <1>1, <1>2, <1>3, <1>5

-----------------------------------------------------------------------------
(***************************************************************************)
(* What is read.                                                           *)
(***************************************************************************)
\* What a client applies it can take, and the room holds it.
LEMMA ReadDown ==
  ASSUME Types, Handshake, Sound, NEW k \in Conn, ReceiveStep2(k) \/ Receive(k)
  PROVE  LET items == Head(down[k]).items
         IN  /\ items \in Slices /\ Runs(items) /\ Within(items, room)
             /\ \A c \in Client : Joins(items[c], Edits(doc[k[1]][c]))
             /\ doc' = [doc EXCEPT ![k[1]] = ApplyUpdate(doc[k[1]], items)]
             /\ Head(down[k]) \in Contents(down[k])
             /\ down[k] # <<>> /\ down' = [down EXCEPT ![k] = Tail(down[k])]
<1> DEFINE msg == Head(down[k])
<1>0. DocTypes /\ LinkType(down) /\ Loads /\ DownJoins /\ AnsweredOnce
  BY TypeParts DEF Sound, Handshake
<1>1. /\ down[k] # <<>> /\ link[k] /\ msg.type \in {"step2", "update"}
      /\ msg.type = "update" => phase[k] = "live"
      /\ doc' = [doc EXCEPT ![k[1]] = ApplyUpdate(doc[k[1]], msg.items)]
      /\ down' = [down EXCEPT ![k] = Tail(down[k])]
  BY DEF ReceiveStep2, Receive, Reads
<1>2. /\ down[k] \in Seq(Message) /\ msg \in Message /\ msg = down[k][1] /\ 1 \in DOMAIN down[k]
      /\ msg \in Contents(down[k])
  <2>1. down[k] \in Seq(Message)
    BY <1>0 DEF LinkType
  <2>2. msg = down[k][1] /\ 1 \in DOMAIN down[k] /\ msg \in Message
    BY <1>1, <2>1, TailAt
  <2>3. msg \in Contents(down[k])
    BY <1>1, <2>1, ContentsTail
  <2>4. QED
    BY <2>1, <2>2, <2>3
<1>3. msg.items \in Slices /\ Runs(msg.items) /\ Within(msg.items, room)
  BY <1>0, <1>1, <1>2, MessageTypes DEF Loads
<1> HIDE DEF msg
<1>4. ASSUME NEW c \in Client
      PROVE  Joins(msg.items[c], Edits(doc[k[1]][c]))
  <2>1. CASE msg.type = "step2"
    BY <1>0, <1>2, <2>1 DEF DownJoins, Step2s
  <2>2. CASE msg.type = "update"
    <3>1. ~Doomed(phase[k], down[k])
      BY <1>1, <2>2 DEF Doomed
    <3>2. Ordered(down[k], {"update"}, Edits(doc[k[1]][c]), c)
      BY <1>0, <1>1, <3>1 DEF DownJoins
    <3>3. QED
      BY <1>1, <1>2, <2>2, <3>2, OrderedHead DEF msg
  <2>3. QED
    BY <1>1, <2>1, <2>2
<1>5. QED
  BY <1>1, <1>2, <1>3, <1>4 DEF msg

\* What the relay applies the room can take, and the client holds it.
LEMMA ReadUp ==
  ASSUME Types, Sound, NEW k \in Conn, ReadStep2(k) \/ ReadUpdate(k)
  PROVE  LET msg == Head(up[k])
         IN  /\ msg \in Contents(up[k])
             /\ msg.items \in Slices /\ Runs(msg.items) /\ Within(msg.items, doc[k[1]])
             /\ \A c \in Client : Joins(msg.items[c], Edits(room[c]))
             /\ room' = ApplyUpdate(room, msg.items)
             /\ up[k] # <<>> /\ up' = [up EXCEPT ![k] = Tail(up[k])]
<1> DEFINE msg == Head(up[k])
<1>0. LinkType(up) /\ Loads /\ UpJoins
  BY TypeParts DEF Sound
<1>1. /\ up[k] # <<>> /\ msg.type \in {"step2", "update"} /\ room' = ApplyUpdate(room, msg.items)
      /\ up' = [up EXCEPT ![k] = Tail(up[k])]
  BY DEF ReadStep2, ReadUpdate, RelayReads
<1>2. up[k] \in Seq(Message)
  BY <1>0 DEF LinkType
<1>3. msg \in Message /\ msg \in Contents(up[k])
  BY <1>1, <1>2, TailAt, ContentsTail
<1>4. msg.items \in Slices /\ Runs(msg.items) /\ Within(msg.items, doc[k[1]])
  BY <1>0, <1>1, <1>3, MessageTypes DEF Loads
<1>5. ASSUME NEW c \in Client
      PROVE  Joins(msg.items[c], Edits(room[c]))
  BY <1>0, <1>1, <1>2, OrderedHead DEF UpJoins
<1>6. QED
  BY <1>1, <1>3, <1>4, <1>5

\* What a user edits.
LEMMA EditDoc ==
  ASSUME Types, Sound, NEW x \in Client, Edit(x)
  PROVE  LET n == Len(doc[x][x])
         IN  /\ n \in Nat /\ EditItem(x) = Edit1(n)
             /\ doc[x][x] = Prefix(n) /\ doc'[x][x] = Prefix(n + 1)
             /\ \A y \in Client, c \in Client : y # x \/ c # x => doc'[y][c] = doc[y][c]
             /\ UNCHANGED room
<1>0. DocTypes /\ WholeDocs
  BY TypeParts DEF Sound
<1>1. doc[x] \in Slices /\ Whole(doc[x])
  BY <1>0 DEF DocTypes, WholeDocs
<1> DEFINE n == Len(doc[x][x])
<1>2. n \in Nat /\ doc[x][x] = Prefix(n) /\ State(doc[x][x]) = n
  BY <1>1, EditsWhole
<1>3. EditItem(x) = Edit1(n)
  BY <1>2 DEF EditItem, Edit1
<1>4. doc' = [doc EXCEPT ![x][x] = Append(@, EditItem(x))] /\ UNCHANGED room
  BY DEF Edit, EditItem
<1>5. \A y \in Client, c \in Client :
         doc'[y][c] = IF y = x /\ c = x THEN Append(doc[x][x], EditItem(x)) ELSE doc[y][c]
  BY <1>0, <1>4 DEF DocTypes, Slices
<1> HIDE DEF n
<1>6. doc'[x][x] = Prefix(n + 1)
  BY <1>2, <1>3, <1>5, EditWhole
<1>7. QED
  BY <1>2, <1>3, <1>4, <1>5, <1>6 DEF n

\* Docs only grow, without gaps: by what is under way to the client, and by its own
\* edits.
LEMMA DocGrows ==
  ASSUME Types, Handshake, Sound, [Next]_vars, NEW x \in Client
  PROVE  /\ doc'[x] \in Slices /\ Whole(doc'[x])
         /\ \A c \in Client : Edits(doc[x][c]) \subseteq Edits(doc'[x][c])
         /\ \A c \in Client : ~(c = x /\ Edit(x)) =>
               Edits(doc'[x][c]) \subseteq Edits(doc[x][c]) \cup Edits(room[c])
<1> DEFINE Goal == /\ doc'[x] \in Slices /\ Whole(doc'[x])
                   /\ \A c \in Client : Edits(doc[x][c]) \subseteq Edits(doc'[x][c])
                   /\ \A c \in Client : ~(c = x /\ Edit(x)) =>
                         Edits(doc'[x][c]) \subseteq Edits(doc[x][c]) \cup Edits(room[c])
<1>0. DocTypes /\ WholeDocs /\ doc[x] \in Slices /\ Whole(doc[x]) /\ DocTypes'
  <2>1. DocTypes /\ WholeDocs
    BY TypeParts DEF Sound
  <2>2. DocTypes'
    BY TypesStep DEF Types, TypeOK, DocTypes
  <2>3. QED
    BY <2>1, <2>2 DEF DocTypes, WholeDocs
<1>00. doc'[x] \in Slices
  BY <1>0 DEF DocTypes
<1>1. ASSUME UNCHANGED doc PROVE Goal
  BY <1>0, <1>1
<1>2. ASSUME NEW k \in Conn, ReceiveStep2(k) \/ Receive(k) PROVE Goal
  <2> DEFINE items == Head(down[k]).items
  <2>1. /\ items \in Slices /\ Runs(items) /\ Within(items, room)
        /\ \A c \in Client : Joins(items[c], Edits(doc[k[1]][c]))
        /\ doc' = [doc EXCEPT ![k[1]] = ApplyUpdate(doc[k[1]], items)]
    BY <1>2, ReadDown
  <2> HIDE DEF items
  <2>2. CASE x = k[1]
    <3>1. doc'[x] = ApplyUpdate(doc[x], items)
      BY <1>0, <2>1, <2>2 DEF DocTypes
    <3>2. /\ Whole(doc'[x])
          /\ \A c \in Client : Edits(doc'[x][c]) = Edits(doc[x][c]) \cup Edits(items[c])
      BY <1>0, <2>1, <2>2, <3>1, ApplyWhole
    <3>3. \A c \in Client : Edits(items[c]) \subseteq Edits(room[c])
      BY <2>1 DEF Within
    <3>4. QED
      BY <1>00, <3>2, <3>3
  <2>3. CASE x # k[1]
    <3>1. doc'[x] = doc[x]
      BY <1>0, <2>1, <2>3, ClientOfConn DEF DocTypes
    <3>2. QED
      BY <1>0, <3>1
  <2>4. QED
    BY <2>2, <2>3
<1>3. ASSUME NEW y \in Client, Edit(y) PROVE Goal
  <2> DEFINE n == Len(doc[y][y])
  <2>1. /\ n \in Nat /\ doc[y][y] = Prefix(n) /\ doc'[y][y] = Prefix(n + 1)
        /\ \A z \in Client, c \in Client : z # y \/ c # y => doc'[z][c] = doc[z][c]
    BY <1>3, EditDoc
  <2> HIDE DEF n
  <2>2. /\ Len(Prefix(n + 1)) = n + 1 /\ Edits(Prefix(n + 1)) = 0 .. (n + 1) - 1
        /\ Edits(Prefix(n)) = 0 .. n - 1
    BY <2>1, PrefixType
  <2>3. 0 .. n - 1 \subseteq 0 .. (n + 1) - 1
    BY <2>1
  <2>4. ASSUME NEW c \in Client
        PROVE  doc'[x][c] = Prefix(Len(doc'[x][c])) /\ Edits(doc[x][c]) \subseteq Edits(doc'[x][c])
    <3>1. CASE x = y /\ c = y
      BY <2>1, <2>2, <2>3, <3>1
    <3>2. CASE ~(x = y /\ c = y)
      BY <1>0, <2>1, <3>2 DEF Whole
    <3>3. QED
      BY <3>1, <3>2
  <2>5. ASSUME NEW c \in Client, ~(c = x /\ Edit(x))
        PROVE  doc'[x][c] = doc[x][c]
    BY <1>3, <2>1, <2>5
  <2>6. Whole(doc'[x])
    BY <2>4 DEF Whole
  <2>7. QED
    BY <1>00, <2>4, <2>5, <2>6
<1> HIDE DEF Goal
<1>4. Goal
  BY <1>1, <1>2, <1>3, NextSteps
  DEF Dial, AnswerStep1, HandshakeFails, Register, LoopEnds, Close, Greet, Join, Send,
      ReadStep1, ReadStep2, ReadUpdate, Leave, Break, Restart, vars
<1>5. QED
  BY <1>4 DEF Goal

\* So does the room, by what comes up, as long as the relay runs.
LEMMA RoomGrows ==
  ASSUME Types, Sound, [Next]_vars, ~Restart
  PROVE  /\ room' \in Slices /\ Whole(room')
         /\ \A c \in Client : Edits(room[c]) \subseteq Edits(room'[c])
         /\ \A k \in Conn : ReadStep2(k) \/ ReadUpdate(k) =>
               \A c \in Client : Edits(room'[c]) = Edits(room[c]) \cup Edits(Head(up[k]).items[c])
         /\ (\A k \in Conn : ~ReadStep2(k) /\ ~ReadUpdate(k)) => room' = room
<1>0. room \in Slices /\ Whole(room)
  BY TypeParts DEF Sound, DocTypes, WholeDocs
<1>1. ASSUME NEW k \in Conn, ReadStep2(k) \/ ReadUpdate(k)
      PROVE  /\ room' \in Slices /\ Whole(room')
             /\ \A c \in Client : Edits(room'[c]) = Edits(room[c]) \cup Edits(Head(up[k]).items[c])
  <2> DEFINE items == Head(up[k]).items
  <2>1. /\ items \in Slices /\ Runs(items) /\ \A c \in Client : Joins(items[c], Edits(room[c]))
        /\ room' = ApplyUpdate(room, items)
    BY <1>1, ReadUp
  <2> HIDE DEF items
  <2>2. /\ room' \in Slices /\ Whole(room')
        /\ \A c \in Client : Edits(room'[c]) = Edits(room[c]) \cup Edits(items[c])
    BY <1>0, <2>1, ApplyWhole
  <2>3. QED
    BY <2>2 DEF items
<1>2. ASSUME \A k \in Conn : ~ReadStep2(k) /\ ~ReadUpdate(k)
      PROVE  room' = room
  BY <1>2, NextSteps
  DEF Dial, AnswerStep1, ReceiveStep2, HandshakeFails, Register, Receive, LoopEnds, Close, Greet,
      Join, Send, ReadStep1, Leave, Break, Edit, vars
<1>3. QED
  BY <1>0, <1>1, <1>2

\* A message that comes down was posted, or it is the step 1 of the relay.
LEMMA DownNext ==
  ASSUME Types, Protocol, [Next]_vars, NEW k \in Conn, NEW i \in DOMAIN down'[k]
  PROVE  \/ \E h \in DOMAIN down[k] : down[k][h] = down'[k][i]
         \/ Greet(k) /\ down'[k][i] = [type |-> "step1", sv |-> stateVector(room)]
         \/ \E j \in Conn : PostedTo(k, j, down'[k][i])
<1> DEFINE msg == down'[k][i]
           Goal == \/ \E h \in DOMAIN down[k] : down[k][h] = msg
                   \/ Greet(k) /\ msg = [type |-> "step1", sv |-> stateVector(room)]
                   \/ \E j \in Conn : PostedTo(k, j, msg)
<1>0. LinkType(down) /\ StageTypes /\ PostTypes /\ down[k] \in Seq(Message)
  BY TypeParts DEF LinkType
<1>1. ASSUME down'[k] = down[k] PROVE Goal
  BY <1>1
<1>2. ASSUME down'[k] = <<>> PROVE Goal
  BY <1>2
<1>3. ASSUME NEW j \in Conn, AnswerStep1(j) \/ ReceiveStep2(j) \/ Receive(j) PROVE Goal
  <2>1. down[j] # <<>> /\ down' = [down EXCEPT ![j] = Tail(down[j])]
    BY <1>3 DEF AnswerStep1, ReceiveStep2, Receive, Reads
  <2>2. CASE j = k
    <3>1. down'[k] = Tail(down[k])
      BY <1>0, <2>1, <2>2 DEF LinkType
    <3>2. i \in DOMAIN Tail(down[k]) /\ down[k] # <<>>
      BY <2>1, <2>2, <3>1
    <3>3. i + 1 \in DOMAIN down[k] /\ Tail(down[k])[i] = down[k][i + 1]
      BY <1>0, <3>2, TailAt
    <3>4. QED
      BY <3>1, <3>3
  <2>3. CASE j # k
    BY <1>0, <1>1, <2>1, <2>3 DEF LinkType
  <2>4. QED
    BY <2>2, <2>3
<1>4. ASSUME NEW j \in Conn, Cut(j) PROVE Goal
  <2>1. down'[k] = down[k] \/ down'[k] = <<>>
    BY <1>0, <1>4 DEF Cut, LinkType
  <2> HIDE DEF Goal
  <2>2. QED
    BY <1>1, <1>2, <2>1
<1>5. ASSUME NEW j \in Conn, Greet(j) PROVE Goal
  <2> DEFINE first == [type |-> "step1", sv |-> stateVector(room)]
  <2>1. down' = IF link[j] THEN [down EXCEPT ![j] = <<first>>] ELSE down
    BY <1>5 DEF Greet
  <2> HIDE DEF first
  <2>2. CASE j = k /\ link[j]
    <3>1. down'[k] = <<first>>
      BY <1>0, <2>1, <2>2 DEF LinkType
    <3>2. down'[k][i] = first
      BY <3>1
    <3>3. QED
      BY <1>5, <2>2, <3>2 DEF first
  <2>3. CASE ~(j = k /\ link[j])
    <3>1. down'[k] = down[k]
      BY <1>0, <2>1, <2>3 DEF LinkType
    <3> HIDE DEF Goal
    <3>2. QED
      BY <1>1, <3>1
  <2> HIDE DEF Goal
  <2>4. QED
    BY <2>2, <2>3
<1>6. ASSUME NEW j \in Conn, Send(j) PROVE Goal
  <2> DEFINE post == Head(outbox[j])
  <2>1. /\ outbox[j] # <<>>
        /\ down' = IF link[post.to] THEN [down EXCEPT ![post.to] = Append(@, post.msg)] ELSE down
    BY <1>6 DEF Send
  <2>2. post = outbox[j][1] /\ 1 \in DOMAIN outbox[j] /\ post.to \in Conn /\ post.msg \in Message
    BY <1>0, <2>1, PostAt
  <2> HIDE DEF post
  <2>3. CASE post.to = k /\ link[post.to]
    <3>1. down'[k] = Append(down[k], post.msg)
      BY <1>0, <2>1, <2>2, <2>3 DEF LinkType
    <3>2. CASE i \in DOMAIN down[k]
      <4>1. down[k][i] = down'[k][i]
        BY <1>0, <2>2, <3>1, <3>2, AppendAt
      <4>2. QED
        BY <3>2, <4>1
    <3>3. CASE i \notin DOMAIN down[k]
      <4>1. down'[k][i] = post.msg
        BY <1>0, <2>2, <3>1, <3>3, AppendAt
      <4>2. PostedTo(k, j, down'[k][i])
        BY <2>2, <2>3, <4>1 DEF PostedTo
      <4>3. QED
        BY <4>2
    <3>4. QED
      BY <3>2, <3>3
  <2>4. CASE ~(post.to = k /\ link[post.to])
    <3>1. down'[k] = down[k]
      BY <1>0, <2>1, <2>2, <2>4 DEF LinkType
    <3> HIDE DEF Goal
    <3>2. QED
      BY <1>1, <3>1
  <2> HIDE DEF Goal
  <2>5. QED
    BY <2>3, <2>4
<1>7. ASSUME Restart PROVE Goal
  <2>1. down'[k] = <<>>
    BY <1>7 DEF Restart
  <2> HIDE DEF Goal
  <2>2. QED
    BY <1>2, <2>1
<1> HIDE DEF Goal
<1>8. ASSUME UNCHANGED down PROVE Goal
  BY <1>1, <1>8
<1>9. Goal
  BY <1>3, <1>4, <1>5, <1>6, <1>7, <1>8, NextSteps
  DEF Dial, HandshakeFails, Register, LoopEnds, Close, Join, ReadStep1, ReadStep2, ReadUpdate,
      Leave, Break, Edit, vars
<1>10. QED
  BY <1>9 DEF Goal

\* What the relay answers to a step 1.
Reply(k) == [type |-> "step2", items |-> EncodeStateAsUpdate(room, Head(up[k]).sv)]

\* A post was there before, or it answers a step 1, or it passes on an update.
LEMMA PostsNext ==
  ASSUME Types, [Next]_vars, NEW j \in Conn, NEW i \in DOMAIN outbox'[j]
  PROVE  \/ \E h \in DOMAIN outbox[j] : outbox[j][h] = outbox'[j][i]
         \/ ReadStep1(j) /\ outbox'[j][i] = [to |-> j, msg |-> Reply(j)]
         \/ /\ ReadUpdate(j) /\ outbox'[j][i].msg = Head(up[j])
            /\ outbox'[j][i].to \in Conn /\ srv[outbox'[j][i].to] = "reading"
<1> DEFINE post == outbox'[j][i]
           Goal == \/ \E h \in DOMAIN outbox[j] : outbox[j][h] = post
                   \/ ReadStep1(j) /\ post = [to |-> j, msg |-> Reply(j)]
                   \/ /\ ReadUpdate(j) /\ post.msg = Head(up[j])
                      /\ post.to \in Conn /\ srv[post.to] = "reading"
<1>0. PostTypes /\ Registry
  BY TypeParts
<1>1. ASSUME outbox'[j] = outbox[j] PROVE Goal
  BY <1>1
<1>2. ASSUME NEW k \in Conn, Send(k) PROVE Goal
  <2>1. outbox[k] # <<>> /\ outbox' = [outbox EXCEPT ![k] = Tail(outbox[k])]
    BY <1>2 DEF Send
  <2>2. CASE k = j
    <3>1. outbox'[j] = Tail(outbox[j])
      BY <1>0, <2>1, <2>2, PostsOf
    <3>2. i \in DOMAIN Tail(outbox[j]) /\ outbox[j] # <<>>
      BY <2>1, <2>2, <3>1
    <3>3. /\ DOMAIN outbox[j] = 1 .. Len(outbox[j]) /\ Len(outbox[j]) \in Nat
          /\ DOMAIN Tail(outbox[j]) = 1 .. Len(outbox[j]) - 1
          /\ Tail(outbox[j])[i] = outbox[j][i + 1]
      BY <1>0, <3>2, PostAt
    <3>4. i + 1 \in DOMAIN outbox[j]
      BY <3>2, <3>3
    <3>5. QED
      BY <3>1, <3>3, <3>4
  <2>3. CASE k # j
    <3>1. outbox'[j] = outbox[j]
      BY <1>0, <2>1, <2>3, PostsOf
    <3> HIDE DEF Goal
    <3>2. QED
      BY <1>1, <3>1
  <2> HIDE DEF Goal
  <2>4. QED
    BY <2>2, <2>3
<1>3. ASSUME NEW k \in Conn, ReadStep1(k) PROVE Goal
  <2>1. outbox' = [outbox EXCEPT ![k] = <<[to |-> k, msg |-> Reply(k)]>>]
    BY <1>3 DEF ReadStep1, Reply
  <2>2. CASE k = j
    <3>1. outbox'[j] = <<[to |-> j, msg |-> Reply(j)]>>
      BY <1>0, <2>1, <2>2, PostsOf
    <3>2. outbox'[j][i] = [to |-> j, msg |-> Reply(j)]
      BY <3>1
    <3>3. QED
      BY <1>3, <2>2, <3>2
  <2>3. CASE k # j
    <3>1. outbox'[j] = outbox[j]
      BY <1>0, <2>1, <2>3, PostsOf
    <3> HIDE DEF Goal
    <3>2. QED
      BY <1>1, <3>1
  <2> HIDE DEF Goal
  <2>4. QED
    BY <2>2, <2>3
<1>4. ASSUME NEW k \in Conn, ReadUpdate(k) PROVE Goal
  <2> DEFINE msg    == Head(up[k])
             others == Without(members, k)
             posts  == [n \in DOMAIN others |-> [to |-> others[n], msg |-> msg]]
  <2>1. outbox' = [outbox EXCEPT ![k] = posts]
    BY <1>4 DEF ReadUpdate
  <2>2. CASE k = j
    <3>1. outbox'[j] = posts
      BY <1>0, <2>1, <2>2, PostsOf
    <3>2. i \in DOMAIN others /\ post.to = others[i] /\ post.msg = msg
      BY <3>1
    <3>3. others \in Seq(Conn) /\ Range(others) = Range(members) \ {k}
      BY <1>0, WithoutConn DEF Registry
    <3>4. others[i] \in Range(members) /\ others[i] \in Conn
      <4>1. others[i] \in Range(others) /\ others[i] \in Conn
        BY <3>2, <3>3 DEF Range
      <4>2. QED
        BY <3>3, <4>1
    <3>5. srv[others[i]] = "reading"
      BY <1>0, <3>4 DEF Registry
    <3> HIDE DEF post, others
    <3>6. QED
      BY <1>4, <2>2, <3>2, <3>4, <3>5
  <2>3. CASE k # j
    <3>1. outbox'[j] = outbox[j]
      BY <1>0, <2>1, <2>3, PostsOf
    <3> HIDE DEF Goal
    <3>2. QED
      BY <1>1, <3>1
  <2> HIDE DEF Goal
  <2>4. QED
    BY <2>2, <2>3
<1>5. ASSUME Restart PROVE Goal
  BY <1>5 DEF Restart
<1> HIDE DEF Goal
<1>6. ASSUME UNCHANGED outbox PROVE Goal
  BY <1>1, <1>6
<1>7. Goal
  BY <1>2, <1>3, <1>4, <1>5, <1>6, NextSteps
  DEF Dial, AnswerStep1, ReceiveStep2, HandshakeFails, Register, Receive, LoopEnds, Close, Greet,
      Join, ReadStep2, Leave, Break, Edit, vars
<1>8. QED
  BY <1>7 DEF Goal

-----------------------------------------------------------------------------
(***************************************************************************)
(* Steps that keep what messages carry.                                    *)
(***************************************************************************)
LEMMA WithinMore ==
  ASSUME NEW items, NEW d, NEW e, Within(items, d), \A c \in Client : Edits(d[c]) \subseteq Edits(e[c])
  PROVE  Within(items, e)
  BY DEF Within

\* What a Doc is known to hold a larger one holds.
LEMMA KnownMore ==
  ASSUME NEW sv, NEW d, NEW e, Known(sv, d), \A c \in Client : Edits(d[c]) \subseteq Edits(e[c])
  PROVE  Known(sv, e)
  BY DEF Known

\* The update of a transaction.
LEMMA EditMessageLoad ==
  ASSUME NEW x \in Client, NEW n \in Nat, EditItem(x) = Edit1(n)
  PROVE  LET items == EditMessage(x).items
         IN  /\ Runs(items) /\ Own(items, x) /\ EditMessage(x).type = "update"
             /\ items[x] = <<Edit1(n)>> /\ items[x][1].edit = n
             /\ \A c \in Client : Edits(items[c]) = IF c = x THEN {n} ELSE {}
<1> DEFINE items == EditMessage(x).items
           one   == <<Edit1(n)>>
<1>1. \A c \in Client : items[c] = IF c = x THEN one ELSE <<>>
  BY EmptySlices DEF EditMessage, Empty
<1>2. DOMAIN one = {1} /\ one[1] = Edit1(n) /\ one[1].edit = n
  BY DEF Edit1
<1>3. DOMAIN <<>> = {}
  OBVIOUS
<1> HIDE DEF items, one
<1>4. IsRun(one) /\ Edits(one) = {n}
  BY <1>2 DEF IsRun, Edits
<1>5. IsRun(<<>>) /\ Edits(<<>>) = {}
  BY <1>3 DEF IsRun, Edits
<1>6. Runs(items) /\ Own(items, x)
  BY <1>1, <1>4, <1>5 DEF Runs, Own
<1>7. \A c \in Client : Edits(items[c]) = IF c = x THEN {n} ELSE {}
  BY <1>1, <1>4, <1>5
<1>8. EditMessage(x).type = "update"
  BY DEF EditMessage
<1>9. QED
  BY <1>1, <1>2, <1>6, <1>7, <1>8 DEF items, one

\* What a client answers to the step 1 of the relay, and the relay to its.
LEMMA AnswerLoad ==
  ASSUME Types, Handshake, Sound, NEW k \in Conn, AnswerStep1(k)
  PROVE  LET items == Answer(k).items
         IN  /\ Answer(k) \in Message /\ Answer(k).type = "step2"
             /\ items \in Slices /\ Runs(items) /\ Within(items, doc[k[1]])
             /\ \A c \in Client : /\ Joins(items[c], Edits(room[c]))
                                  /\ Edits(doc[k[1]][c]) \subseteq Edits(room[c]) \cup Edits(items[c])
             /\ down[k] # <<>> /\ down' = [down EXCEPT ![k] = Tail(down[k])]
             /\ up' = [up EXCEPT ![k] = Append(up[k], Answer(k))]
             /\ Head(down[k]).type = "step1" /\ phase[k] = "step1" /\ link[k]
             /\ phase' = [phase EXCEPT ![k] = "step2"]
             /\ UNCHANGED <<doc, room, members, srv, outbox, link>>
<1>0. DocTypes /\ LinkType(down) /\ WholeDocs /\ Offers
  BY TypeParts DEF Sound
<1>1. /\ down[k] # <<>> /\ Head(down[k]).type = "step1" /\ down' = [down EXCEPT ![k] = Tail(down[k])]
      /\ up' = [up EXCEPT ![k] = Append(up[k], Answer(k))] /\ phase[k] = "step1" /\ link[k]
      /\ phase' = [phase EXCEPT ![k] = "step2"]
      /\ UNCHANGED <<doc, room, members, srv, outbox, link>>
  BY DEF AnswerStep1, Reads, Answer
<1> DEFINE sv == Head(down[k]).sv
<1>2. sv \in [Client -> Nat] /\ Known(sv, room)
  <2>1. down[k] \in Seq(Message)
    BY <1>0 DEF LinkType
  <2>2. Head(down[k]) \in Message /\ Head(down[k]) = down[k][1] /\ 1 \in DOMAIN down[k]
    BY <1>1, <2>1, TailAt
  <2>3. QED
    BY <1>0, <1>1, <2>2, MessageTypes DEF Offers
<1>3. doc[k[1]] \in Slices /\ Whole(doc[k[1]])
  BY <1>0, ClientOfConn DEF DocTypes, WholeDocs
<1>4. Answer(k).items = EncodeStateAsUpdate(doc[k[1]], sv) /\ Answer(k).type = "step2"
  BY DEF Answer
<1> HIDE DEF sv
<1>5. EncodeStateAsUpdate(doc[k[1]], sv) \in Slices
  BY <1>2, <1>3, EncodeWhole
<1>6. Answer(k) \in Message
  BY <1>5, MessageTypes DEF Answer, sv
<1>7. QED
  BY <1>1, <1>2, <1>3, <1>4, <1>6, EncodeWhole

\* What the relay answers to the step 1 of a client.
LEMMA ReplyLoad ==
  ASSUME Types, Handshake, Sound, NEW k \in Conn, ReadStep1(k)
  PROVE  LET items == Reply(k).items
         IN  /\ Reply(k) \in Message /\ Reply(k).type = "step2"
             /\ items \in Slices /\ Runs(items) /\ Within(items, room)
             /\ \A c \in Client : /\ Joins(items[c], Edits(doc[k[1]][c]))
                                  /\ Edits(room[c]) \subseteq Edits(doc[k[1]][c]) \cup Edits(items[c])
             /\ Asks(up[k]) /\ up[k] # <<>> /\ up' = [up EXCEPT ![k] = Tail(up[k])]
             /\ Head(up[k]).type = "step1" /\ outbox[k] = <<>>
             /\ outbox' = [outbox EXCEPT ![k] = <<[to |-> k, msg |-> Reply(k)]>>]
             /\ UNCHANGED <<doc, phase, room, members, srv, link, down>>
<1>0. DocTypes /\ LinkType(up) /\ WholeDocs /\ Offers
  BY TypeParts DEF Sound
<1>1. /\ up[k] # <<>> /\ Head(up[k]).type = "step1" /\ up' = [up EXCEPT ![k] = Tail(up[k])]
      /\ outbox[k] = <<>> /\ outbox' = [outbox EXCEPT ![k] = <<[to |-> k, msg |-> Reply(k)]>>]
      /\ UNCHANGED <<doc, phase, room, members, srv, link, down>>
  BY DEF ReadStep1, RelayReads, Reply
<1> DEFINE sv == Head(up[k]).sv
<1>2. sv \in [Client -> Nat] /\ Known(sv, doc[k[1]]) /\ Asks(up[k])
  <2>1. up[k] \in Seq(Message)
    BY <1>0 DEF LinkType
  <2>2. Head(up[k]) \in Message /\ Head(up[k]) = up[k][1]
    BY <1>1, <2>1, TailAt
  <2>3. QED
    BY <1>0, <1>1, <2>2, MessageTypes DEF Offers, Asks
<1>3. room \in Slices /\ Whole(room)
  BY <1>0 DEF DocTypes, WholeDocs
<1>4. Reply(k).items = EncodeStateAsUpdate(room, sv) /\ Reply(k).type = "step2"
  BY DEF Reply
<1> HIDE DEF sv
<1>5. EncodeStateAsUpdate(room, sv) \in Slices
  BY <1>2, <1>3, EncodeWhole
<1>6. Reply(k) \in Message
  BY <1>5, MessageTypes DEF Reply, sv
<1>7. QED
  BY <1>1, <1>2, <1>3, <1>4, <1>6, EncodeWhole

\* A post has the load that Loads says.
LEMMA PostLoad ==
  ASSUME Types, Handshake, Sound, NEW k, NEW j \in Conn, NEW msg, PostedTo(k, j, msg)
  PROVE  /\ msg \in Message /\ msg.type \in {"step2", "update"} /\ msg.items \in Slices
         /\ Runs(msg.items) /\ Within(msg.items, room)
         /\ msg.type = "update" => Own(msg.items, j[1])
         /\ msg.type = "step2" => k = j /\ msg \in Replies(outbox[k])
<1>0. PostTypes /\ Addressed /\ Loads
  BY TypeParts DEF Sound, Handshake, Protocol
<1>1. PICK i \in DOMAIN outbox[j] : outbox[j][i].to = k /\ outbox[j][i].msg = msg
  BY DEF PostedTo
<1>2. msg \in Message /\ msg.type # "step1" /\ (msg.type = "step2" => k = j)
  BY <1>0, <1>1, PostAt DEF Addressed
<1>3. msg.type \in {"step2", "update"} /\ msg.items \in Slices
  BY <1>2, MessageTypes
<1>4. /\ Runs(msg.items) /\ Within(msg.items, room)
      /\ msg.type = "update" => Own(msg.items, j[1])
  BY <1>0, <1>1 DEF Loads
<1>5. msg.type = "step2" => msg \in Replies(outbox[k])
  BY <1>1, <1>2 DEF Replies
<1>6. QED
  BY <1>2, <1>3, <1>4, <1>5

\* Every step keeps what messages carry: whoever sends holds what it sends, and keeps it.
LEMMA LoadsStep ==
  ASSUME Types, Handshake, Sound, [Next]_vars, ~Restart
  PROVE  Loads'
<1>0. DocTypes /\ LinkType(up) /\ LinkType(down) /\ PostTypes /\ WholeDocs /\ Loads /\ Protocol
  BY TypeParts DEF Sound, Handshake
<1>1. \A c \in Client : Edits(room[c]) \subseteq Edits(room'[c])
  BY RoomGrows
<1>2. \A x \in Client, c \in Client : Edits(doc[x][c]) \subseteq Edits(doc'[x][c])
  BY DocGrows
<1>3. ASSUME NEW k \in Conn, NEW msg \in Contents(up'[k])
      PROVE  /\ Runs(msg.items) /\ Within(msg.items, doc'[k[1]])
             /\ msg.type = "update" => Own(msg.items, k[1])
  <2> DEFINE x == k[1]
  <2>0. x \in Client
    BY ClientOfConn
  <2>1. CASE msg \in Contents(up[k])
    <3>1. /\ Runs(msg.items) /\ Within(msg.items, doc[x])
          /\ msg.type = "update" => Own(msg.items, x)
      BY <1>0, <2>1 DEF Loads
    <3>2. Within(msg.items, doc'[x])
      BY <1>2, <2>0, <3>1, WithinMore
    <3>3. QED
      BY <3>1, <3>2
  <2>2. CASE AnswerStep1(k) /\ msg = Answer(k)
    <3>1. Runs(msg.items) /\ Within(msg.items, doc[x]) /\ msg.type = "step2"
      BY <2>2, AnswerLoad
    <3>2. Within(msg.items, doc'[x])
      BY <1>2, <2>0, <3>1, WithinMore
    <3>3. QED
      BY <3>1, <3>2
  <2>3. CASE Edit(x) /\ msg = EditMessage(x)
    <3> DEFINE n == Len(doc[x][x])
    <3>1. n \in Nat /\ EditItem(x) = Edit1(n) /\ doc'[x][x] = Prefix(n + 1)
      BY <2>0, <2>3, EditDoc
    <3> HIDE DEF n
    <3>2. /\ Runs(msg.items) /\ Own(msg.items, x)
          /\ \A c \in Client : Edits(msg.items[c]) = IF c = x THEN {n} ELSE {}
      BY <2>0, <2>3, <3>1, EditMessageLoad
    <3>3. Edits(Prefix(n + 1)) = 0 .. n
      BY <3>1, PrefixNext
    <3> HIDE DEF x
    <3>4. n \in Edits(doc'[x][x])
      BY <3>1, <3>3
    <3>5. Within(msg.items, doc'[x])
      BY <3>2, <3>4 DEF Within
    <3>6. QED
      BY <3>2, <3>5 DEF x
  <2>4. QED
    BY <2>1, <2>2, <2>3, UpNext
<1>4. ASSUME NEW k \in Conn, NEW msg \in Contents(down'[k])
      PROVE  Runs(msg.items) /\ Within(msg.items, room')
  <2>1. PICK i \in DOMAIN down'[k] : msg = down'[k][i] /\ msg.type # "step1"
    BY DEF Contents
  <2>2. Runs(msg.items) /\ Within(msg.items, room)
    <3>1. ASSUME NEW h \in DOMAIN down[k], down[k][h] = msg
          PROVE  Runs(msg.items) /\ Within(msg.items, room)
      <4>1. msg \in Contents(down[k])
        BY <2>1, <3>1 DEF Contents
      <4>2. QED
        BY <1>0, <4>1 DEF Loads
    <3>2. ASSUME NEW j \in Conn, PostedTo(k, j, msg)
          PROVE  Runs(msg.items) /\ Within(msg.items, room)
      BY <3>2, PostLoad
    <3>3. msg # [type |-> "step1", sv |-> stateVector(room)]
      BY <2>1
    <3>4. QED
      BY <1>0, <2>1, <3>1, <3>2, <3>3, DownNext
  <2>3. QED
    BY <1>1, <2>2, WithinMore
<1>5. ASSUME NEW j \in Conn, NEW i \in DOMAIN outbox'[j]
      PROVE  /\ Runs(outbox'[j][i].msg.items) /\ Within(outbox'[j][i].msg.items, room')
             /\ outbox'[j][i].msg.type = "update" => Own(outbox'[j][i].msg.items, j[1])
  <2> DEFINE msg == outbox'[j][i].msg
  <2>1. ASSUME NEW h \in DOMAIN outbox[j], outbox[j][h] = outbox'[j][i]
        PROVE  /\ Runs(msg.items) /\ Within(msg.items, room')
               /\ msg.type = "update" => Own(msg.items, j[1])
    <3>1. /\ Runs(msg.items) /\ Within(msg.items, room)
          /\ msg.type = "update" => Own(msg.items, j[1])
      BY <1>0, <2>1 DEF Loads
    <3> HIDE DEF msg
    <3>2. QED
      BY <1>1, <3>1, WithinMore
  <2>2. CASE ReadStep1(j) /\ outbox'[j][i] = [to |-> j, msg |-> Reply(j)]
    <3>1. msg = Reply(j)
      BY <2>2
    <3> HIDE DEF msg
    <3>2. Runs(msg.items) /\ Within(msg.items, room) /\ msg.type = "step2"
      BY <2>2, <3>1, ReplyLoad
    <3>3. Within(msg.items, room')
      BY <1>1, <3>2, WithinMore
    <3>4. QED
      BY <3>2, <3>3 DEF msg
  <2>3. CASE ReadUpdate(j) /\ msg = Head(up[j])
    <3>1. msg \in Contents(up[j]) /\ Runs(msg.items)
      BY <2>3, ReadUp
    <3>2. msg.type = "update" => Own(msg.items, j[1])
      BY <1>0, <3>1 DEF Loads
    <3>3. \A c \in Client : Edits(room'[c]) = Edits(room[c]) \cup Edits(msg.items[c])
      BY <2>3, RoomGrows
    <3> HIDE DEF msg
    <3>4. Within(msg.items, room')
      BY <3>3 DEF Within
    <3>5. QED
      BY <3>1, <3>2, <3>4 DEF msg
  <2> HIDE DEF msg
  <2>4. QED
    BY <2>1, <2>2, <2>3, PostsNext DEF msg
<1>6. QED
  BY <1>3, <1>4, <1>5 DEF Loads

-----------------------------------------------------------------------------
(***************************************************************************)
(* What a step does to one connection.                                     *)
(***************************************************************************)
\* What goes up: a message is added, the first one is read, or all is lost with the
\* connection.
LEMMA UpMoves ==
  ASSUME Types, [Next]_vars, NEW k \in Conn
  PROVE  \/ up'[k] = up[k]
         \/ up'[k] = <<>> /\ ~link'[k]
         \/ /\ Dial(k) /\ up'[k] = <<[type |-> "step1", sv |-> stateVector(doc[k[1]])]>>
            /\ UNCHANGED doc
         \/ AnswerStep1(k) /\ up'[k] = Append(up[k], Answer(k))
         \/ /\ Edit(k[1]) /\ k \in Registered(k[1]) /\ EditMessage(k[1]) \in Message
            /\ up'[k] = Append(up[k], EditMessage(k[1]))
         \/ /\ ReadStep1(k) \/ ReadStep2(k) \/ ReadUpdate(k)
            /\ up[k] # <<>> /\ up'[k] = Tail(up[k])
<1> DEFINE Goal ==
             \/ up'[k] = up[k]
             \/ up'[k] = <<>> /\ ~link'[k]
             \/ /\ Dial(k) /\ up'[k] = <<[type |-> "step1", sv |-> stateVector(doc[k[1]])]>>
                /\ UNCHANGED doc
             \/ AnswerStep1(k) /\ up'[k] = Append(up[k], Answer(k))
             \/ /\ Edit(k[1]) /\ k \in Registered(k[1]) /\ EditMessage(k[1]) \in Message
                /\ up'[k] = Append(up[k], EditMessage(k[1]))
             \/ /\ ReadStep1(k) \/ ReadStep2(k) \/ ReadUpdate(k)
                /\ up[k] # <<>> /\ up'[k] = Tail(up[k])
<1>0. LinkType(up) /\ TypeOK
  BY TypeParts DEF Types
<1>00. up \in [Conn -> Seq(Message)]
  BY <1>0 DEF LinkType
<1>1. ASSUME NEW j \in Conn, Dial(j) PROVE Goal
  <2> DEFINE first == [type |-> "step1", sv |-> stateVector(doc[j[1]])]
  <2>1. up' = [up EXCEPT ![j] = <<first>>] /\ UNCHANGED doc
    BY <1>1 DEF Dial
  <2> HIDE DEF first
  <2>2. up'[k] = IF k = j THEN <<first>> ELSE up[k]
    BY <1>00, <2>1
  <2>3. QED
    BY <1>1, <2>1, <2>2 DEF first
<1>2. ASSUME NEW j \in Conn, AnswerStep1(j) PROVE Goal
  <2>1. up' = [up EXCEPT ![j] = Append(up[j], Answer(j))]
    BY <1>2 DEF AnswerStep1, Answer
  <2>2. up'[k] = IF k = j THEN Append(up[k], Answer(k)) ELSE up[k]
    BY <1>00, <2>1
  <2>3. QED
    BY <1>2, <2>2
<1>3. ASSUME NEW c \in Client, Edit(c) PROVE Goal
  <2>1. up' = [j \in Conn |-> IF j \in Registered(c) THEN Append(up[j], EditMessage(c)) ELSE up[j]]
    BY <1>3 DEF Edit, EditMessage, EditItem
  <2>2. k \in Registered(c) => c = k[1]
    BY DEF Registered
  <2>3. up'[k] = IF k \in Registered(c) THEN Append(up[k], EditMessage(c)) ELSE up[k]
    BY <2>1
  <2>4. EditMessage(c) \in Message
    BY <1>0, EditItemType, MessageTypes DEF EditMessage
  <2>5. QED
    BY <1>3, <2>2, <2>3, <2>4
<1>4. ASSUME NEW j \in Conn, ReadStep1(j) \/ ReadStep2(j) \/ ReadUpdate(j) PROVE Goal
  <2>1. up[j] # <<>> /\ up' = [up EXCEPT ![j] = Tail(up[j])]
    BY <1>4 DEF ReadStep1, ReadStep2, ReadUpdate, RelayReads
  <2>2. up'[k] = IF k = j THEN Tail(up[k]) ELSE up[k]
    BY <1>00, <2>1
  <2>3. QED
    BY <1>4, <2>1, <2>2
<1>5. ASSUME NEW j \in Conn, Leave(j) PROVE Goal
  <2>1. up' = [up EXCEPT ![j] = <<>>] /\ ~link[j] /\ UNCHANGED link
    BY <1>5 DEF Leave
  <2>2. up'[k] = IF k = j THEN <<>> ELSE up[k]
    BY <1>00, <2>1
  <2>3. QED
    BY <2>1, <2>2
<1>6. ASSUME Restart PROVE Goal
  BY <1>6 DEF Restart
<1>7. ASSUME UNCHANGED up PROVE Goal
  BY <1>7
<1> HIDE DEF Goal
<1>8. Goal
  BY <1>1, <1>2, <1>3, <1>4, <1>5, <1>6, <1>7, NextSteps
  DEF ReceiveStep2, HandshakeFails, Register, Receive, LoopEnds, Close, Greet, Join, Send, Break, vars
<1>9. QED
  BY <1>8 DEF Goal

\* What comes down: a message is sent, the first one is read, or all is lost with
\* the connection; and the phase of the client that goes with it.
LEMMA DownMoves ==
  ASSUME Types, Protocol, [Next]_vars, NEW k \in Conn
  PROVE  \/ /\ down'[k] = down[k]
            /\ phase'[k] = phase[k] \/ phase[k] \in {"synced", "live"} \/ (Dial(k) /\ down[k] = <<>>)
         \/ down'[k] = <<>> /\ ~link'[k]
         \/ Greet(k) /\ link[k] /\ down'[k] = <<[type |-> "step1", sv |-> stateVector(room)]>>
         \/ /\ AnswerStep1(k) /\ phase[k] = "step1" /\ phase'[k] = "step2" /\ UNCHANGED doc
            /\ down[k] # <<>> /\ Head(down[k]).type = "step1" /\ down'[k] = Tail(down[k])
         \/ /\ ReceiveStep2(k) /\ Head(down[k]).type = "step2"
            /\ down[k] # <<>> /\ down'[k] = Tail(down[k])
         \/ Receive(k) /\ phase[k] = "live" /\ down[k] # <<>> /\ down'[k] = Tail(down[k])
         \/ /\ UNCHANGED <<doc, phase, up>>
            /\ \E j \in Conn, msg \in Message : /\ Send(j) /\ PostedTo(k, j, msg)
                                                /\ down'[k] = Append(down[k], msg)
<1> DEFINE Goal ==
             \/ /\ down'[k] = down[k]
                /\ phase'[k] = phase[k] \/ phase[k] \in {"synced", "live"} \/ (Dial(k) /\ down[k] = <<>>)
             \/ down'[k] = <<>> /\ ~link'[k]
             \/ Greet(k) /\ link[k] /\ down'[k] = <<[type |-> "step1", sv |-> stateVector(room)]>>
             \/ /\ AnswerStep1(k) /\ phase[k] = "step1" /\ phase'[k] = "step2" /\ UNCHANGED doc
                /\ down[k] # <<>> /\ Head(down[k]).type = "step1" /\ down'[k] = Tail(down[k])
             \/ /\ ReceiveStep2(k) /\ Head(down[k]).type = "step2"
                /\ down[k] # <<>> /\ down'[k] = Tail(down[k])
             \/ Receive(k) /\ phase[k] = "live" /\ down[k] # <<>> /\ down'[k] = Tail(down[k])
             \/ /\ UNCHANGED <<doc, phase, up>>
                /\ \E j \in Conn, msg \in Message : /\ Send(j) /\ PostedTo(k, j, msg)
                                                    /\ down'[k] = Append(down[k], msg)
<1>0. LinkType(down) /\ StageTypes /\ PostTypes /\ Stages /\ Quiet
  BY TypeParts DEF Protocol
<1>00. /\ down \in [Conn -> Seq(Message)] /\ link \in [Conn -> BOOLEAN]
       /\ phase \in [Conn -> {"new", "step1", "step2", "synced", "live", "over"}]
  BY <1>0 DEF LinkType, StageTypes
<1>1. ASSUME down'[k] = down[k], phase'[k] = phase[k] PROVE Goal
  BY <1>1
<1>2. ASSUME NEW j \in Conn, Dial(j) PROVE Goal
  <2>1. UNCHANGED down /\ phase[j] = "new" /\ phase' = [phase EXCEPT ![j] = "step1"]
    BY <1>2 DEF Dial
  <2>2. CASE k = j
    <3>1. down[k] = <<>>
      BY <1>0, <2>1, <2>2 DEF Stages, Quiet
    <3>2. QED
      BY <1>2, <2>1, <2>2, <3>1
  <2>3. CASE k # j
    BY <1>00, <2>1, <2>3
  <2>4. QED
    BY <2>2, <2>3
<1>3. ASSUME NEW j \in Conn, AnswerStep1(j) \/ ReceiveStep2(j) \/ Receive(j) PROVE Goal
  <2>1. down[j] # <<>> /\ down' = [down EXCEPT ![j] = Tail(down[j])]
    BY <1>3 DEF AnswerStep1, ReceiveStep2, Receive, Reads
  <2>2. CASE j = k
    <3>1. down'[k] = Tail(down[k]) /\ down[k] # <<>>
      BY <1>00, <2>1, <2>2
    <3>2. ASSUME AnswerStep1(k)
          PROVE  /\ phase[k] = "step1" /\ phase'[k] = "step2" /\ UNCHANGED doc
                 /\ Head(down[k]).type = "step1"
      BY <1>00, <3>2 DEF AnswerStep1, Reads
    <3>3. ASSUME ReceiveStep2(k) PROVE Head(down[k]).type = "step2"
      BY <3>3 DEF ReceiveStep2, Reads
    <3>4. ASSUME Receive(k) PROVE phase[k] = "live"
      BY <3>4 DEF Receive
    <3>5. QED
      BY <1>3, <2>2, <3>1, <3>2, <3>3, <3>4
  <2>3. CASE j # k
    <3>1. down'[k] = down[k] /\ phase'[k] = phase[k]
      BY <1>00, <1>3, <2>1, <2>3 DEF AnswerStep1, ReceiveStep2, Receive
    <3> HIDE DEF Goal
    <3>2. QED
      BY <1>1, <3>1
  <2> HIDE DEF Goal
  <2>4. QED
    BY <2>2, <2>3
<1>4. ASSUME NEW j \in Conn, HandshakeFails(j) \/ Close(j) \/ Break(j) PROVE Goal
  <2>1. /\ down' = [down EXCEPT ![j] = <<>>] /\ link' = [link EXCEPT ![j] = FALSE]
        /\ UNCHANGED phase \/ phase' = [phase EXCEPT ![j] = "over"]
    BY <1>4 DEF HandshakeFails, Close, Break, Cut
  <2>2. CASE j = k
    BY <1>00, <2>1, <2>2
  <2>3. CASE j # k
    BY <1>00, <2>1, <2>3
  <2>4. QED
    BY <2>2, <2>3
<1>5. ASSUME NEW j \in Conn, Register(j) \/ LoopEnds(j) PROVE Goal
  <2>1. /\ UNCHANGED down /\ phase[j] \in {"synced", "live"}
        /\ \/ phase' = [phase EXCEPT ![j] = "live"]
           \/ phase' = [phase EXCEPT ![j] = "over"]
    BY <1>5 DEF Register, LoopEnds
  <2>2. QED
    BY <1>00, <2>1
<1>6. ASSUME NEW j \in Conn, Greet(j) PROVE Goal
  <2> DEFINE first == [type |-> "step1", sv |-> stateVector(room)]
  <2>1. down' = (IF link[j] THEN [down EXCEPT ![j] = <<first>>] ELSE down) /\ UNCHANGED phase
    BY <1>6 DEF Greet
  <2> HIDE DEF first
  <2>2. CASE j = k /\ link[j]
    BY <1>00, <1>6, <2>1, <2>2 DEF first
  <2>3. CASE ~(j = k /\ link[j])
    BY <1>00, <2>1, <2>3
  <2> HIDE DEF Goal
  <2>4. QED
    BY <2>2, <2>3
<1>7. ASSUME NEW j \in Conn, Send(j) PROVE Goal
  <2> DEFINE post == Head(outbox[j])
  <2>1. /\ outbox[j] # <<>> /\ UNCHANGED <<doc, phase, up>>
        /\ down' = IF link[post.to] THEN [down EXCEPT ![post.to] = Append(@, post.msg)] ELSE down
    BY <1>7 DEF Send
  <2>2. post = outbox[j][1] /\ 1 \in DOMAIN outbox[j] /\ post.to \in Conn /\ post.msg \in Message
    BY <1>0, <2>1, PostAt
  <2> HIDE DEF post
  <2>3. CASE post.to = k /\ link[post.to]
    <3>1. down'[k] = Append(down[k], post.msg)
      BY <1>00, <2>1, <2>2, <2>3
    <3>2. PostedTo(k, j, post.msg)
      BY <2>2, <2>3 DEF PostedTo
    <3>3. QED
      BY <1>7, <2>1, <2>2, <3>1, <3>2
  <2>4. CASE ~(post.to = k /\ link[post.to])
    BY <1>00, <2>1, <2>2, <2>4
  <2> HIDE DEF Goal
  <2>5. QED
    BY <2>3, <2>4
<1>8. ASSUME Restart PROVE Goal
  BY <1>8 DEF Restart
<1> HIDE DEF Goal
<1>9. ASSUME UNCHANGED <<down, phase>> PROVE Goal
  BY <1>1, <1>9
<1>10. Goal
  BY <1>2, <1>3, <1>4, <1>5, <1>6, <1>7, <1>8, <1>9, NextSteps
  DEF Join, ReadStep1, ReadStep2, ReadUpdate, Leave, Edit, vars
<1>11. QED
  BY <1>10 DEF Goal

\* How far a client and the goroutine of its connection get.
LEMMA PhaseMoves ==
  ASSUME Types, [Next]_vars, NEW k \in Conn
  PROVE  \/ phase'[k] = phase[k] \/ phase'[k] = "over" \/ Dial(k) \/ AnswerStep1(k)
         \/ phase[k] \in {"step2", "synced"}
<1>0. phase \in [Conn -> {"new", "step1", "step2", "synced", "live", "over"}]
  BY TypeParts DEF StageTypes
<1>1. ASSUME NEW j \in Conn, Dial(j) \/ AnswerStep1(j) \/ ReceiveStep2(j) \/ HandshakeFails(j)
                             \/ Register(j) \/ LoopEnds(j) \/ Close(j)
      PROVE  \/ phase'[k] = phase[k] \/ phase'[k] = "over" \/ Dial(k) \/ AnswerStep1(k)
             \/ phase[k] \in {"step2", "synced"}
  BY <1>0, <1>1 DEF Dial, AnswerStep1, ReceiveStep2, HandshakeFails, Register, LoopEnds, Close
<1>2. QED
  BY <1>1, NextSteps
  DEF Receive, Greet, Join, Send, ReadStep1, ReadStep2, ReadUpdate, Leave, Break, Edit, Restart, vars

\* A goroutine gets into its read loop by joining the room.
LEMMA SrvMoves ==
  ASSUME Types, [Next]_vars, NEW k \in Conn, srv'[k] = "reading"
  PROVE  srv[k] = "reading" \/ Join(k)
<1>0. srv \in [Conn -> {"new", "accepted", "greeted", "reading", "gone"}]
  BY TypeParts DEF StageTypes
<1>1. ASSUME NEW j \in Conn, Dial(j) \/ Greet(j) \/ Join(j) \/ Leave(j)
      PROVE  srv[k] = "reading" \/ Join(k)
  BY <1>0, <1>1 DEF Dial, Greet, Join, Leave
<1>2. ~Restart
  BY DEF Restart
<1>3. QED
  BY <1>1, <1>2, NextSteps
  DEF AnswerStep1, ReceiveStep2, HandshakeFails, Register, Receive, LoopEnds, Close, Send, ReadStep1,
      ReadStep2, ReadUpdate, Break, Edit, vars

\* State vectors stay true: what they are about only grows.
LEMMA OffersStep ==
  ASSUME Types, Handshake, Sound, [Next]_vars, ~Restart
  PROVE  Offers'
<1>0. DocTypes /\ LinkType(up) /\ WholeDocs /\ Offers /\ Protocol /\ AskedOnce
  BY TypeParts DEF Sound, Handshake
<1>1. ASSUME NEW k \in Conn, Asks(up'[k])
      PROVE  Known(up'[k][1].sv, doc'[k[1]])
  <2> DEFINE x == k[1]
             d == doc[x]
             e == doc'[x]
             u == up[k]
             v == up'[k]
  <2>1. /\ x \in Client /\ d \in Slices /\ Whole(d) /\ u \in Seq(Message) /\ FirstOnly(u)
        /\ \A c \in Client : Edits(d[c]) \subseteq Edits(e[c])
    BY <1>0, ClientOfConn, DocGrows DEF DocTypes, WholeDocs, LinkType, AskedOnce
  <2>2. ASSUME Asks(u), v[1] = u[1]
        PROVE  Known(v[1].sv, e)
    <3>1. Known(v[1].sv, d)
      BY <1>0, <2>2 DEF Offers
    <3> HIDE DEF v, d, e
    <3>2. QED
      BY <2>1, <3>1, KnownMore
  <2>3. ASSUME Dial(k), v = <<[type |-> "step1", sv |-> stateVector(d)]>>, UNCHANGED doc
        PROVE  Known(v[1].sv, e)
    <3>1. v[1].sv = stateVector(d) /\ e = d
      BY <2>3
    <3> HIDE DEF v, d, e
    <3>2. QED
      BY <2>1, <3>1, StateVectorKnown
  <2>4. ASSUME NEW msg \in Message, msg.type # "step1", v = Append(u, msg)
        PROVE  Known(v[1].sv, e)
    <3>1. Asks(u) /\ v[1] = u[1]
      BY <1>1, <2>1, <2>4, FirstAppend DEF Asks
    <3>2. QED
      BY <2>2, <3>1
  <2>5. ASSUME u # <<>>, v = Tail(u)
        PROVE  FALSE
    BY <1>1, <2>1, <2>5, FirstTail DEF Asks
  <2>6. AnswerStep1(k) => Answer(k) \in Message /\ Answer(k).type # "step1"
    BY AnswerLoad
  <2>7. EditMessage(x).type # "step1"
    BY DEF EditMessage
  <2>8. v # <<>> /\ (v = u => Asks(u))
    BY <1>1 DEF Asks
  <2> HIDE DEF u, v, e
  <2>9. QED
    BY <2>2, <2>3, <2>4, <2>5, <2>6, <2>7, <2>8, UpMoves DEF u, v, e
<1>2. ASSUME NEW k \in Conn, NEW i \in DOMAIN down'[k], down'[k][i].type = "step1"
      PROVE  Known(down'[k][i].sv, room')
  <2> DEFINE msg == down'[k][i]
  <2>1. \A c \in Client : Edits(room[c]) \subseteq Edits(room'[c])
    BY RoomGrows
  <2>2. Known(msg.sv, room)
    <3>1. ASSUME NEW h \in DOMAIN down[k], down[k][h] = msg
          PROVE  Known(msg.sv, room)
      BY <1>0, <1>2, <3>1 DEF Offers
    <3>2. ASSUME msg = [type |-> "step1", sv |-> stateVector(room)]
          PROVE  Known(msg.sv, room)
      BY <1>0, <3>2, StateVectorKnown DEF DocTypes, WholeDocs
    <3>3. ASSUME NEW j \in Conn, PostedTo(k, j, msg)
          PROVE  FALSE
      BY <1>2, <3>3, PostLoad
    <3> HIDE DEF msg
    <3>4. QED
      BY <1>0, <3>1, <3>2, <3>3, DownNext DEF msg
  <2> HIDE DEF msg
  <2>3. QED
    BY <2>1, <2>2, KnownMore DEF msg
<1>3. QED
  BY <1>1, <1>2 DEF Offers, Asks

\* An edit of a client that is connected follows what is in the room or on its way up.
LEMMA EditFollows ==
  ASSUME Types, Handshake, Sound, NEW k \in Conn, Edit(k[1]), k \in Registered(k[1]), NEW c \in Client
  PROVE  Joins(EditMessage(k[1]).items[c], Edits(room[c]) \cup Carried(Contents(up[k]), c))
<1> DEFINE x == k[1]
           n == Len(doc[x][x])
<1>0. DocTypes /\ WholeDocs /\ Forwarded /\ x \in Client
  BY TypeParts, ClientOfConn DEF Sound
<1>1. n \in Nat /\ EditItem(x) = Edit1(n) /\ Edits(doc[x][x]) = 0 .. n - 1
  BY <1>0, EditDoc, EditsWhole DEF DocTypes, WholeDocs
<1> HIDE DEF n
<1>2. LET items == EditMessage(x).items IN items[x][1].edit = n /\ Own(items, x)
  BY <1>0, <1>1, EditMessageLoad
<1>3. CASE c # x
  BY <1>2, <1>3 DEF Own, Joins
<1>4. CASE c = x
  <2>1. link[k] /\ phase[k] = "live"
    BY DEF Registered
  <2>2. 0 .. n - 1 \subseteq Edits(room[x]) \cup Carried(Contents(up[k]), x)
    BY <1>0, <1>1, <2>1 DEF Forwarded
  <2>3. n = 0 \/ n - 1 \in 0 .. n - 1
    BY <1>1
  <2>4. QED
    BY <1>2, <1>4, <2>2, <2>3 DEF Joins
<1>5. QED
  BY <1>3, <1>4

\* Every step keeps the order of what goes up: the step 2 joins what the relay said it
\* holds, and an update the edit before it.
LEMMA UpJoinsStep ==
  ASSUME Types, Handshake, Sound, [Next]_vars, ~Restart
  PROVE  UpJoins'
<1> SUFFICES ASSUME NEW k \in Conn, NEW c \in Client
             PROVE  Ordered(up'[k], {"step2", "update"}, Edits(room'[c]), c)
  BY DEF UpJoins, Ordered, Joins, Earlier, Carried, Edits
<1> DEFINE u == up[k]
           v == up'[k]
           types == {"step2", "update"}
           base == Edits(room[c])
           more == Edits(room'[c])
<1>0. /\ LinkType(up) /\ u \in Seq(Message) /\ Ordered(u, types, base, c)
      /\ base \subseteq more
  <2>1. LinkType(up) /\ UpJoins
    BY TypeParts DEF Sound
  <2>2. base \subseteq more
    BY RoomGrows
  <2>3. QED
    BY <2>1, <2>2 DEF LinkType, UpJoins
<1>1. ASSUME v = u PROVE Ordered(v, types, more, c)
  <2> HIDE DEF u, v, types, base, more
  <2>1. QED
    BY <1>0, <1>1, OrderedMore
<1>2. ASSUME v = <<>> PROVE Ordered(v, types, more, c)
  BY <1>2, OrderedNone
<1>3. ASSUME v = <<[type |-> "step1", sv |-> stateVector(doc[k[1]])]>>
      PROVE  Ordered(v, types, more, c)
  <2> HIDE DEF base, more
  <2>1. \A i \in DOMAIN v : v[i].type = "step1"
    BY <1>3
  <2> HIDE DEF v
  <2>2. QED
    BY <2>1 DEF Ordered
<1>4. ASSUME NEW msg \in Message, v = Append(u, msg),
             Joins(msg.items[c], base \cup Carried(Contents(u), c))
      PROVE  Ordered(v, types, more, c)
  <2> HIDE DEF u, v, types, base, more
  <2>1. Ordered(v, types, base, c)
    BY <1>0, <1>4, OrderedAppend
  <2>2. QED
    BY <1>0, <2>1, OrderedMore
<1>5. AnswerStep1(k) => /\ Answer(k) \in Message
                        /\ Joins(Answer(k).items[c], base \cup Carried(Contents(u), c))
  <2> SUFFICES ASSUME AnswerStep1(k)
               PROVE  /\ Answer(k) \in Message
                      /\ Joins(Answer(k).items[c], base \cup Carried(Contents(u), c))
    OBVIOUS
  <2>1. Answer(k) \in Message /\ Joins(Answer(k).items[c], base)
    BY AnswerLoad
  <2> HIDE DEF base
  <2>2. QED
    BY <2>1, JoinsMore
<1>6. Edit(k[1]) /\ k \in Registered(k[1]) =>
         Joins(EditMessage(k[1]).items[c], base \cup Carried(Contents(u), c))
  BY EditFollows
<1>7. ASSUME ReadStep1(k) \/ ReadStep2(k) \/ ReadUpdate(k), u # <<>>, v = Tail(u)
      PROVE  Ordered(v, types, more, c)
  <2>1. Head(u).type # "step1" => Edits(Head(u).items[c]) \subseteq more
    <3>1. CASE ReadStep1(k)
      BY <3>1 DEF ReadStep1, RelayReads
    <3>2. CASE ReadStep2(k) \/ ReadUpdate(k)
      BY <3>2, RoomGrows
    <3>3. QED
      BY <1>7, <3>1, <3>2
  <2> HIDE DEF u, v, types, base, more
  <2>2. QED
    BY <1>0, <1>7, <2>1, OrderedTail
<1> HIDE DEF u, v, types, base, more
<1>8. Ordered(v, types, more, c)
  BY <1>1, <1>2, <1>3, <1>4, <1>5, <1>6, <1>7, UpMoves DEF u, v
<1>9. QED
  BY <1>8 DEF v, types, more

\* What a client reads it holds.
LEMMA ReadsApplied ==
  ASSUME Types, Handshake, Sound, NEW k \in Conn, ReceiveStep2(k) \/ Receive(k), NEW c \in Client
  PROVE  Edits(Head(down[k]).items[c]) \subseteq Edits(doc'[k[1]][c])
<1> DEFINE items == Head(down[k]).items
           x == k[1]
<1>1. /\ items \in Slices /\ Runs(items) /\ \A y \in Client : Joins(items[y], Edits(doc[x][y]))
      /\ doc' = [doc EXCEPT ![x] = ApplyUpdate(doc[x], items)]
  BY ReadDown
<1>2. DocTypes /\ doc[x] \in Slices /\ Whole(doc[x]) /\ x \in Client
  BY TypeParts, ClientOfConn DEF Sound, DocTypes, WholeDocs
<1> HIDE DEF items, x
<1>3. doc'[x] = ApplyUpdate(doc[x], items)
  BY <1>1, <1>2 DEF DocTypes
<1>4. Edits(ApplyUpdate(doc[x], items)[c]) = Edits(doc[x][c]) \cup Edits(items[c])
  BY <1>1, <1>2, ApplyWhole
<1>5. QED
  BY <1>3, <1>4 DEF items, x

\* A handshake that will fail is not saved by one more message.
LEMMA DoomedAppend ==
  ASSUME NEW d \in Seq(Message), NEW msg \in Message, NEW p, Doomed(p, d)
  PROVE  Doomed(p, Append(d, msg))
<1> DEFINE e == Append(d, msg)
           n == Len(d) + 1
<1>1. /\ DOMAIN e = DOMAIN d \cup {n} /\ n \in Nat
      /\ \A i \in DOMAIN d : e[i] = d[i] /\ i < n /\ i \in Nat
  BY AppendAt
<1> HIDE DEF e, n
<1>2. PICK i \in DOMAIN d : d[i].type = "update" /\ \A h \in Step2s(d) : ~(h < i)
  BY DEF Doomed
<1>3. i \in DOMAIN e /\ e[i].type = "update"
  BY <1>1, <1>2
<1>4. ASSUME NEW h \in Step2s(e), h < i
      PROVE  FALSE
  <2>1. h \in DOMAIN d
    <3>1. h \in DOMAIN d \/ h = n
      BY <1>1 DEF Step2s
    <3>2. i < n /\ i \in Nat
      BY <1>1, <1>2
    <3>3. QED
      BY <1>1, <1>4, <3>1, <3>2
  <2>2. h \in Step2s(d)
    BY <1>1, <2>1 DEF Step2s
  <2>3. QED
    BY <1>2, <1>4, <2>2
<1>5. QED
  BY <1>3, <1>4 DEF Doomed, e

\* Reading the step 1 of the relay does not help it,
LEMMA DoomedTail ==
  ASSUME NEW d \in Seq(Message), d # <<>>, Head(d).type = "step1", NEW p, Doomed(p, d)
  PROVE  Doomed("step2", Tail(d))
<1> DEFINE t == Tail(d)
<1>1. /\ Head(d) = d[1]
      /\ \A i \in DOMAIN t : i + 1 \in DOMAIN d /\ t[i] = d[i + 1] /\ i \in Nat
      /\ \A i \in DOMAIN d : i \in Nat /\ (i # 1 => i - 1 \in DOMAIN t /\ t[i - 1] = d[i])
  BY TailAt
<1> HIDE DEF t
<1>2. PICK i \in DOMAIN d : d[i].type = "update" /\ \A h \in Step2s(d) : ~(h < i)
  BY DEF Doomed
<1>3. i - 1 \in DOMAIN t /\ t[i - 1].type = "update"
  BY <1>1, <1>2
<1>4. ASSUME NEW h \in Step2s(t), h < i - 1
      PROVE  FALSE
  <2>1. h + 1 \in Step2s(d) /\ h \in Nat
    BY <1>1 DEF Step2s
  <2>2. h + 1 < i
    BY <1>1, <1>4, <2>1
  <2>3. QED
    BY <1>2, <2>1, <2>2
<1>5. QED
  BY <1>3, <1>4 DEF Doomed, t

\* nor does any other step while the connection is up.
LEMMA DoomedStays ==
  ASSUME Types, Protocol, [Next]_vars, NEW k \in Conn, link[k], link'[k], Doomed(phase[k], down[k])
  PROVE  Doomed(phase'[k], down'[k])
<1> DEFINE d == down[k]
           e == down'[k]
           p == phase[k]
           q == phase'[k]
<1>1. d \in Seq(Message) /\ p \in {"step1", "step2"}
  BY TypeParts DEF LinkType, Doomed
<1>2. ASSUME e = d, q = p PROVE Doomed(q, e)
  <2> HIDE DEF d, e, p, q
  <2>1. QED
    BY <1>2 DEF d, p
<1>3. ASSUME AnswerStep1(k), d # <<>>, Head(d).type = "step1", e = Tail(d), q = "step2"
      PROVE  Doomed(q, e)
  <2>1. Doomed(p, d)
    OBVIOUS
  <2> HIDE DEF d, e, p, q
  <2>2. QED
    BY <1>1, <1>3, <2>1, DoomedTail
<1>4. ASSUME NEW msg \in Message, e = Append(d, msg), q = p
      PROVE  Doomed(q, e)
  <2>1. Doomed(p, d)
    OBVIOUS
  <2> HIDE DEF d, e, p, q
  <2>2. QED
    BY <1>1, <1>4, <2>1, DoomedAppend
<1>5. Head(d).type # "step2" \/ d = <<>>
  <2>1. PICK i \in DOMAIN d : d[i].type = "update" /\ \A h \in Step2s(d) : ~(h < i)
    BY DEF Doomed
  <2>2. ASSUME d # <<>>, Head(d).type = "step2"
        PROVE  FALSE
    <3>1. Head(d) = d[1] /\ 1 \in DOMAIN d /\ i \in Nat /\ DOMAIN d = 1 .. Len(d)
      BY <1>1, <2>2
    <3>2. 1 \in Step2s(d) /\ i # 1
      BY <2>1, <2>2, <3>1 DEF Step2s
    <3>3. QED
      BY <2>1, <3>1, <3>2
  <2>3. QED
    BY <2>2
<1>6. ~Dial(k) /\ ~Greet(k)
  <2>1. d # <<>>
    BY DEF Doomed
  <2>2. QED
    BY <1>1, <2>1 DEF Dial, Greet, Protocol, Quiet
<1> HIDE DEF d, e, q
<1>7. QED
  BY <1>1, <1>2, <1>3, <1>4, <1>5, <1>6, DownMoves DEF d, e, q


\* An update that is sent to a client that waits for no answer any more can be taken
\* after what came before it.
LEMMA SentFollows ==
  ASSUME Types, Handshake, Sound, NEW k \in Conn, link[k], NEW j \in Conn, NEW msg \in Message,
         PostedTo(k, j, msg), msg.type = "update", ~Doomed(phase[k], Append(down[k], msg)),
         NEW c \in Client
  PROVE  Joins(msg.items[c], Edits(doc[k[1]][c]) \cup Carried(Contents(down[k]), c))
<1> DEFINE d == down[k]
           n == Len(d) + 1
<1>0. /\ d \in Seq(Message) /\ phase[k] \notin {"new", "over"} /\ PostsJoin
      /\ Answered(up[k], d, outbox[k], phase[k])
      /\ phase[k] \in {"new", "step1", "step2", "synced", "live", "over"}
  BY TypeParts DEF Sound, Handshake, Protocol, Stages, LinkType, StageTypes, AnsweredOnce
<1>1. ~Doomed(phase[k], d)
  BY <1>0, DoomedAppend
<1>2. ~Asks(up[k]) /\ ~HasStep2(outbox[k])
  <2>1. CASE phase[k] \in {"synced", "live"}
    BY <1>0, <2>1 DEF Answered
  <2>2. CASE phase[k] \in {"step1", "step2"}
    <3>1. /\ n \in DOMAIN Append(d, msg) /\ Append(d, msg)[n] = msg
          /\ DOMAIN Append(d, msg) = DOMAIN d \cup {n}
          /\ \A i \in DOMAIN d : Append(d, msg)[i] = d[i]
      BY <1>0, AppendAt
    <3>2. PICK h \in Step2s(Append(d, msg)) : h < n
      BY <2>2, <3>1 DEF Doomed
    <3>3. n \in Nat
      BY <1>0
    <3>4. h \in Step2s(d)
      BY <3>1, <3>2, <3>3 DEF Step2s
    <3>5. QED
      BY <1>0, <3>4 DEF Answered
  <2>3. QED
    BY <1>0, <2>1, <2>2
<1>3. Replies(outbox[k]) = {}
  BY <1>2 DEF HasStep2, Replies
<1>4. Carried(Replies(outbox[k]), c) = {}
  BY <1>3 DEF Carried
<1>5. Joins(msg.items[c], Edits(doc[k[1]][c]) \cup Carried(Contents(d), c)
                             \cup Carried(Replies(outbox[k]), c))
  BY <1>0, <1>1, <1>2 DEF PostsJoin, Coming
<1>6. QED
  BY <1>4, <1>5

\* Every step keeps the order of what comes down.
LEMMA DownJoinsStep ==
  ASSUME Types, Handshake, Sound, [Next]_vars
  PROVE  DownJoins'
<1>0. LinkType(down) /\ StageTypes /\ DownJoins /\ PostsJoin /\ Protocol
  BY TypeParts DEF Sound, Handshake
<1>1. ASSUME NEW k \in Conn, NEW c \in Client, NEW i \in Step2s(down'[k])
      PROVE  Joins(down'[k][i].items[c], Edits(doc'[k[1]][c]))
  <2> DEFINE msg == down'[k][i]
  <2>0. i \in DOMAIN down'[k] /\ msg.type = "step2"
    BY DEF Step2s
  <2>1. Edits(doc[k[1]][c]) \subseteq Edits(doc'[k[1]][c])
    BY DocGrows, ClientOfConn
  <2>2. Joins(msg.items[c], Edits(doc[k[1]][c]))
    <3>1. ASSUME NEW h \in DOMAIN down[k], down[k][h] = msg
          PROVE  Joins(msg.items[c], Edits(doc[k[1]][c]))
      <4>1. h \in Step2s(down[k])
        BY <2>0, <3>1 DEF Step2s
      <4>2. QED
        BY <1>0, <3>1, <4>1 DEF DownJoins
    <3>2. ASSUME NEW j \in Conn, PostedTo(k, j, msg)
          PROVE  Joins(msg.items[c], Edits(doc[k[1]][c]))
      <4> HIDE DEF msg
      <4>1. msg \in Replies(outbox[k])
        BY <2>0, <3>2, PostLoad
      <4>2. QED
        BY <1>0, <4>1 DEF PostsJoin
    <3>3. msg # [type |-> "step1", sv |-> stateVector(room)]
      BY <2>0
    <3> HIDE DEF msg
    <3>4. QED
      BY <1>0, <2>0, <3>1, <3>2, <3>3, DownNext DEF msg
  <2> HIDE DEF msg
  <2>3. QED
    BY <2>1, <2>2, JoinsMore DEF msg
<1>2. ASSUME NEW k \in Conn, NEW c \in Client, link'[k], ~Doomed(phase'[k], down'[k])
      PROVE  Ordered(down'[k], {"update"}, Edits(doc'[k[1]][c]), c)
  <2> DEFINE d == down[k]
             e == down'[k]
             types == {"update"}
             base == Edits(doc[k[1]][c])
             more == Edits(doc'[k[1]][c])
             Goal == Ordered(e, types, more, c)
  <2>0. d \in Seq(Message) /\ base \subseteq more
    BY <1>0, DocGrows, ClientOfConn DEF LinkType
  <2>1. ASSUME d = <<>>, e = d PROVE Goal
    <3> HIDE DEF d, more
    <3>1. QED
      BY <2>1, OrderedNone
  <2>2. CASE ~link[k]
    <3>1. d = <<>> /\ e = d
      <4>1. srv[k] = "new" /\ d = <<>>
        BY <1>0, <1>2, <2>2, LinkUp DEF Protocol, Quiet
      <4>2. ~Greet(k) /\ phase[k] = "new"
        BY <1>0, <4>1 DEF Greet, Protocol, Stages
      <4>3. \A j \in Conn, msg \in Message : ~PostedTo(k, j, msg)
        BY <1>0, <4>1 DEF PostedTo, Protocol, Addressed
      <4>4. down'[k] = down[k]
        BY <1>0, <1>2, <4>1, <4>2, <4>3, DownMoves DEF AnswerStep1, ReceiveStep2, Receive, Dial
      <4>5. QED
        BY <4>1, <4>4
    <3>2. QED
      BY <2>1, <3>1
  <2>3. CASE link[k]
    <3>0. ~Doomed(phase[k], d)
      BY <1>0, <1>2, <2>3, DoomedStays
    <3>1. Ordered(d, types, base, c)
      BY <1>0, <2>3, <3>0 DEF DownJoins
    <3>2. ASSUME e = d PROVE Goal
      <4> HIDE DEF d, e, types, base, more
      <4>1. QED
        BY <2>0, <3>1, <3>2, OrderedMore
    <3>3. ASSUME e = <<[type |-> "step1", sv |-> stateVector(room)]>> PROVE Goal
      <4>1. \A i \in DOMAIN e : e[i].type = "step1"
        BY <3>3
      <4> HIDE DEF e, more
      <4>2. QED
        BY <4>1 DEF Ordered
    <3>4. ASSUME d # <<>>, e = Tail(d),
                 Head(d).type # "step1" => Edits(Head(d).items[c]) \subseteq more
          PROVE  Goal
      <4> HIDE DEF d, e, types, base, more
      <4>1. QED
        BY <2>0, <3>1, <3>4, OrderedTail
    <3>5. ReceiveStep2(k) \/ Receive(k) => Edits(Head(d).items[c]) \subseteq more
      BY ReadsApplied
    <3>6. ASSUME NEW j \in Conn, NEW msg \in Message, PostedTo(k, j, msg), e = Append(d, msg),
                 UNCHANGED phase
          PROVE  Goal
      <4>1. phase'[k] = phase[k]
        BY <3>6
      <4>2. msg.type \in types => Joins(msg.items[c], base \cup Carried(Contents(d), c))
        BY <1>2, <2>3, <3>6, <4>1, SentFollows
      <4> HIDE DEF d, e, types, base, more
      <4>3. Ordered(e, types, base, c)
        BY <2>0, <3>1, <3>6, <4>2, OrderedAppend
      <4>4. QED
        BY <2>0, <4>3, OrderedMore
    <3>7. ASSUME d # <<>>, e = Tail(d),
                 (AnswerStep1(k) /\ Head(d).type = "step1") \/ ReceiveStep2(k) \/ Receive(k)
          PROVE  Goal
      <4> HIDE DEF d, e, Goal
      <4>1. QED
        BY <3>4, <3>5, <3>7 DEF d
    <3> HIDE DEF Goal
    <3>8. Goal
      BY <1>0, <1>2, <3>2, <3>3, <3>6, <3>7, DownMoves
    <3>9. QED
      BY <3>8 DEF Goal
  <2>4. Goal
    BY <2>2, <2>3
  <2>5. QED
    BY <2>4
<1>3. QED
  BY <1>1, <1>2 DEF DownJoins, Step2s, Doomed, Ordered, Joins, Earlier, Carried, Edits

-----------------------------------------------------------------------------
(***************************************************************************)
(* What is under way arrives.                                              *)
(***************************************************************************)
\* An update that a client applies it holds, edit by edit.
LEMMA AppliedWithin ==
  ASSUME Types, Handshake, Sound, [Next]_vars, NEW x \in Client, NEW items \in Slices, Runs(items),
         doc' = [doc EXCEPT ![x] = ApplyUpdate(doc[x], items)], NEW c \in Client
  PROVE  Edits(items[c]) \subseteq Edits(doc'[x][c])
<1> DEFINE d == doc'[x]
           n == Len(d[c])
<1>1. d \in Slices /\ Whole(d)
  BY DocGrows
<1>2. Ids(items) \subseteq Ids(d)
  <2>1. doc[x] \in Slices /\ d = ApplyUpdate(doc[x], items)
    BY TypeParts DEF DocTypes
  <2> HIDE DEF d
  <2>2. QED
    BY <2>1, ApplyUpdateIds
<1> HIDE DEF d
<1>3. n \in Nat /\ d[c] = Prefix(n)
  BY <1>1, EditsWhole
<1> HIDE DEF n
<1>4. ASSUME NEW i \in DOMAIN items[c]
      PROVE  items[c][i].edit \in Edits(d[c])
  <2> DEFINE e == items[c][i].edit
  <2>1. items[c][i].clock = e
    <3>1. IsRun(items[c])
      BY DEF Runs
    <3>2. items[c][i] = Edit1(items[c][1].edit + i - 1)
      BY <3>1 DEF IsRun
    <3>3. QED
      BY <3>2 DEF Edit1
  <2>2. <<c, e>> \in Ids(items)
    <3>1. <<c, items[c][i].clock>> \in { <<c, items[c][j].clock>> : j \in DOMAIN items[c] }
      OBVIOUS
    <3>2. QED
      BY <2>1, <3>1 DEF Ids
  <2> HIDE DEF e
  <2>3. PICK h \in DOMAIN d[c] : d[c][h].clock = e
    <3>1. <<c, e>> \in Ids(d)
      BY <1>2, <2>2
    <3>2. PICK y \in Client : <<c, e>> \in { <<y, d[y][h].clock>> : h \in DOMAIN d[y] }
      BY <3>1 DEF Ids
    <3>3. y = c
      BY <3>2
    <3>4. QED
      BY <3>2, <3>3
  <2>4. h \in 1 .. n /\ d[c][h].clock = e
    BY <1>3, <2>3, PrefixType
  <2>5. d[c][h].edit = e /\ h \in DOMAIN d[c]
    BY <1>3, <2>4, PrefixType
  <2>6. QED
    BY <2>5 DEF Edits, e
<1>5. QED
  BY <1>4 DEF Edits, d

\* A load under way carries runs.
LEMMA UnderWayLoad ==
  ASSUME Types, Handshake, Sound, NEW k \in Conn, NEW msg \in MessagesTo(k)
  PROVE  msg \in Message /\ msg.items \in Slices /\ Runs(msg.items)
<1>1. msg \in Message /\ msg.items \in Slices
  BY UnderWayType DEF Handshake
<1>2. CASE msg \in Contents(down[k])
  BY <1>1, <1>2 DEF Sound, Loads
<1>3. ASSUME NEW j \in Conn, PostedTo(k, j, msg)
      PROVE  Runs(msg.items)
  BY <1>3, PostLoad
<1>4. QED
  BY <1>1, <1>2, <1>3, UnderWay

\* What was coming to a client that stays connected has come or comes still.
LEMMA ComingStays ==
  ASSUME Types, Handshake, Sound, [Next]_vars, NEW k \in Conn, link[k], link'[k], NEW c \in Client
  PROVE  Coming(k, c) \subseteq Coming(k, c)'
<1> DEFINE d == down[k]
           e == down'[k]
           C == Edits(doc'[k[1]][c]) \cup Carried(Contents(e), c) \cup Carried(Replies(outbox'[k]), c)
<1>0. LinkType(down) /\ d \in Seq(Message) /\ PostTypes /\ Protocol /\ Handshake' /\ k[1] \in Client
  BY TypeParts, HandshakeStep, ClientOfConn DEF LinkType, Handshake
<1>00. Coming(k, c)' = C
  BY DEF Coming
<1>1. Edits(doc[k[1]][c]) \subseteq C
  BY <1>0, DocGrows
<1>2. ASSUME NEW msg \in Contents(d)
      PROVE  Edits(msg.items[c]) \subseteq C
  <2>1. ASSUME msg \in Contents(e) PROVE Edits(msg.items[c]) \subseteq C
    <3> HIDE DEF e
    <3>1. QED
      BY <2>1, CarriedBy
  <2>2. d # <<>>
    BY ContentsEmpty
  <2>3. ASSUME d # <<>>, e = Tail(d)
        PROVE  msg \in Contents(e) \/ (msg = Head(d) /\ msg.type # "step1")
    <3> HIDE DEF d, e
    <3>1. QED
      BY <1>0, <2>3, ContentsTail
  <2>4. ASSUME NEW more \in Message, e = Append(d, more)
        PROVE  msg \in Contents(e)
    <3> HIDE DEF d, e
    <3>1. QED
      BY <1>0, <2>4, ContentsAppend
  <2>5. ReceiveStep2(k) \/ Receive(k) => Edits(Head(d).items[c]) \subseteq C
    BY ReadsApplied
  <2>6. ~Greet(k)
    BY <1>0, <2>2 DEF Greet, Protocol, Quiet
  <2>7. \/ msg \in Contents(e)
        \/ msg = Head(d) /\ (ReceiveStep2(k) \/ Receive(k))
    <3>1. CASE e = d
      BY <3>1
    <3>2. CASE e # d
      BY <1>0, <2>2, <2>3, <2>4, <2>6, <3>2, DownMoves
    <3>3. QED
      BY <3>1, <3>2
  <2>8. QED
    BY <2>1, <2>5, <2>7
<1>3. ASSUME NEW msg \in Replies(outbox[k])
      PROVE  Edits(msg.items[c]) \subseteq C
  <2>1. PostedTo(k, k, msg) /\ msg.type = "step2"
    BY <1>0 DEF Replies, PostedTo, Protocol, Addressed
  <2>2. msg \in MessagesTo(k)
    BY <2>1, UnderWay
  <2>3. CASE msg \in MessagesTo(k)'
    <3>1. CASE msg \in Contents(e)
      <4> HIDE DEF e
      <4>1. QED
        BY <3>1, CarriedBy
    <3>2. ASSUME NEW j \in Conn, PostedTo(k, j, msg)'
          PROVE  msg \in Replies(outbox'[k])
      <4>1. PICK i \in DOMAIN outbox'[j] : outbox'[j][i].to = k /\ outbox'[j][i].msg = msg
        BY <3>2 DEF PostedTo
      <4>2. j = k
        BY <1>0, <2>1, <4>1 DEF Handshake, Protocol, Addressed
      <4>3. QED
        BY <2>1, <4>1, <4>2 DEF Replies
    <3>3. ASSUME msg \in Replies(outbox'[k])
          PROVE  Edits(msg.items[c]) \subseteq Carried(Replies(outbox'[k]), c)
      BY <3>3, CarriedBy
    <3>4. QED
      BY <2>3, <3>1, <3>2, <3>3, UnderWayNext
  <2>4. CASE doc' = [doc EXCEPT ![k[1]] = ApplyUpdate(@, msg.items)]
    <3>1. msg.items \in Slices /\ Runs(msg.items)
      BY <2>2, UnderWayLoad
    <3>2. QED
      BY <1>0, <2>4, <3>1, AppliedWithin
  <2>5. QED
    BY <2>2, <2>3, <2>4, <1>0, StaysUnderWay
<1>4. ASSUME NEW x \in Carried(Contents(d), c) PROVE x \in C
  <2> HIDE DEF C, d
  <2>1. QED
    BY <1>2, <1>4, InCarried
<1>5. ASSUME NEW x \in Carried(Replies(outbox[k]), c) PROVE x \in C
  <2> HIDE DEF C
  <2>1. QED
    BY <1>3, <1>5, InCarried
<1> HIDE DEF C
<1>6. QED
  BY <1>00, <1>1, <1>4, <1>5 DEF Coming

\* What goes up from a client that stays connected goes up still, or is in the room.
LEMMA UpStays ==
  ASSUME Types, Handshake, Sound, [Next]_vars, ~Restart, NEW k \in Conn, link'[k], NEW c \in Client
  PROVE  Edits(room[c]) \cup Carried(Contents(up[k]), c)
            \subseteq Edits(room'[c]) \cup Carried(Contents(up'[k]), c)
<1> DEFINE u == up[k]
           v == up'[k]
           R == Edits(room'[c]) \cup Carried(Contents(v), c)
<1>0. LinkType(up) /\ u \in Seq(Message) /\ Quiet /\ Stages
  BY TypeParts DEF LinkType, Handshake, Protocol
<1>1. Edits(room[c]) \subseteq R
  BY RoomGrows
<1>2. ASSUME NEW msg \in Contents(u)
      PROVE  Edits(msg.items[c]) \subseteq R
  <2>1. ASSUME msg \in Contents(v) PROVE Edits(msg.items[c]) \subseteq R
    <3> HIDE DEF v
    <3>1. QED
      BY <2>1, CarriedBy
  <2>2. u # <<>>
    BY ContentsEmpty
  <2>3. ASSUME u # <<>>, v = Tail(u)
        PROVE  msg \in Contents(v) \/ (msg = Head(u) /\ msg.type # "step1")
    <3> HIDE DEF u, v
    <3>1. QED
      BY <1>0, <2>3, ContentsTail
  <2>4. ASSUME NEW more \in Message, v = Append(u, more)
        PROVE  msg \in Contents(v)
    <3> HIDE DEF u, v
    <3>1. QED
      BY <1>0, <2>4, ContentsAppend
  <2>5. ReadStep2(k) \/ ReadUpdate(k) => Edits(Head(u).items[c]) \subseteq R
    BY RoomGrows
  <2>6. ReadStep1(k) => Head(u).type = "step1"
    BY DEF ReadStep1, RelayReads
  <2>7. ~Dial(k)
    BY <1>0, <2>2 DEF Dial, Quiet, Stages
  <2>8. AnswerStep1(k) => Answer(k) \in Message
    BY AnswerLoad
  <2> HIDE DEF R
  <2>9. QED
    BY <2>1, <2>3, <2>4, <2>5, <2>6, <2>7, <2>8, UpMoves
<1>3. ASSUME NEW x \in Carried(Contents(u), c) PROVE x \in R
  <2> HIDE DEF R, u
  <2>1. QED
    BY <1>2, <1>3, InCarried
<1>4. QED
  BY <1>1, <1>3

\* What the room holds can be read after what is coming, if the room has no gaps and
\* all it holds is coming.
LEMMA RunFollows ==
  ASSUME NEW d \in Slices, Whole(d), NEW c \in Client, NEW r, Edits(r) \subseteq Edits(d[c]),
         NEW S, Edits(d[c]) \subseteq S
  PROVE  Joins(r, S) \/ 1 \notin DOMAIN r
<1> DEFINE n == Len(d[c])
<1>1. n \in Nat /\ Edits(d[c]) = 0 .. n - 1
  BY EditsWhole
<1> HIDE DEF n
<1>2. ASSUME 1 \in DOMAIN r
      PROVE  r[1].edit = 0 \/ r[1].edit - 1 \in S
  <2>1. r[1].edit \in 0 .. n - 1
    BY <1>1, <1>2 DEF Edits
  <2>2. r[1].edit = 0 \/ r[1].edit - 1 \in 0 .. n - 1
    BY <1>1, <2>1
  <2>3. QED
    BY <1>1, <2>2
<1>3. QED
  BY <1>2 DEF Joins

\* An update that is passed on follows what is coming to the other clients.
LEMMA CastFollows ==
  ASSUME Types, Handshake, Sound, [Next]_vars, clean', NEW j \in Conn, ReadUpdate(j),
         NEW k \in Conn, link[k], srv[k] = "reading", ~Asks(up[k]), NEW c \in Client
  PROVE  Joins(Head(up[j]).items[c], Coming(k, c))
<1> DEFINE msg == Head(up[j])
           r == msg.items[c]
<1>0. Loads /\ Fetched /\ msg \in Contents(up[j]) /\ Joins(r, Edits(room[c]))
  BY ReadUp DEF Sound
<1>1. msg.type = "update" /\ outbox[j] = <<>>
  BY DEF ReadUpdate, RelayReads
<1>2. Own(msg.items, j[1])
  BY <1>0, <1>1 DEF Loads
<1>3. CASE c # j[1]
  BY <1>2, <1>3 DEF Own, Joins
<1>4. CASE c = j[1]
  <2>1. ASSUME NEW x \in Edits(room[c])
        PROVE  x \in Coming(k, c)
    <3>1. CASE x \in Edits(doc[k[1]][c])
      BY <3>1 DEF Coming
    <3>2. CASE x \in Carried(MessagesTo(k), c)
      <4>1. PICK m \in MessagesTo(k) : x \in Edits(m.items[c])
        BY <3>2, InCarried
      <4>2. ASSUME m \in Contents(down[k])
            PROVE  x \in Coming(k, c)
        BY <4>1, <4>2, CarriedBy DEF Coming
      <4>3. ASSUME NEW i \in Conn, PostedTo(k, i, m)
            PROVE  x \in Coming(k, c)
        <5>1. CASE m.type = "step2"
          <6>1. m \in Replies(outbox[k])
            BY <4>3, <5>1, PostLoad
          <6>2. QED
            BY <4>1, <6>1, CarriedBy DEF Coming
        <5>2. CASE m.type = "update"
          <6>1. Own(m.items, i[1])
            BY <4>3, <5>2, PostLoad
          <6>2. m.items[c] # <<>>
            BY <4>1 DEF Edits
          <6>3. c = i[1]
            BY <6>1, <6>2 DEF Own
          <6>4. outbox[i] = <<>>
            BY <1>1, <1>4, <6>3, StaysClean
          <6>5. QED
            BY <4>3, <6>4 DEF PostedTo
        <5>3. QED
          BY <4>3, <5>1, <5>2, PostLoad
      <4>4. QED
        BY <4>2, <4>3, UnderWay
    <3>3. QED
      BY <1>0, <3>1, <3>2 DEF Fetched
  <2> HIDE DEF r
  <2>2. QED
    BY <1>0, <2>1, JoinsMore DEF r
<1>5. QED
  BY <1>3, <1>4

\* The step 1 of a client that stays connected is read before anything else.
LEMMA AskEnds ==
  ASSUME Types, Handshake, Sound, [Next]_vars, NEW k \in Conn, link[k], link'[k],
         Asks(up[k]), ~Asks(up'[k])
  PROVE  ReadStep1(k)
<1>0. Stages /\ up[k] \in Seq(Message)
  BY TypeParts DEF LinkType, Handshake, Protocol
<1>1. up[k] # <<>> /\ Head(up[k]) = up[k][1] /\ up[k][1].type = "step1"
  BY <1>0, TailAt DEF Asks
<1>2. up'[k] # up[k] /\ ~Dial(k)
  BY <1>0 DEF Dial, Stages
<1>3. ASSUME NEW more \in Message, up'[k] = Append(up[k], more)
      PROVE  FALSE
  BY <1>0, <1>1, <1>3, AppendAt DEF Asks
<1>4. AnswerStep1(k) => Answer(k) \in Message
  BY AnswerLoad
<1>5. ~ReadStep2(k) /\ ~ReadUpdate(k)
  BY <1>1 DEF ReadStep2, ReadUpdate, RelayReads
<1>6. QED
  BY <1>2, <1>3, <1>4, <1>5, UpMoves

\* Every step keeps the order of what the goroutines have yet to send, whichever of them
\* sends first.
LEMMA PostsJoinStep ==
  ASSUME Types, Handshake, Sound, [Next]_vars, clean'
  PROVE  PostsJoin'
<1>0. PostTypes /\ Protocol /\ PostsJoin /\ StageTypes /\ Protocol'
  BY TypeParts, HandshakeStep DEF Sound, Handshake
<1>1. ASSUME NEW k \in Conn, NEW c \in Client, NEW msg \in Replies(outbox'[k])
      PROVE  Joins(msg.items[c], Edits(doc'[k[1]][c]))
  <2>1. PICK i \in DOMAIN outbox'[k] : msg = outbox'[k][i].msg /\ msg.type = "step2"
    BY DEF Replies
  <2>2. ASSUME NEW h \in DOMAIN outbox[k], outbox[k][h] = outbox'[k][i]
        PROVE  msg \in Replies(outbox[k])
    BY <2>1, <2>2 DEF Replies
  <2>3. ASSUME msg \in Replies(outbox[k])
        PROVE  Joins(msg.items[c], Edits(doc'[k[1]][c]))
    <3>1. Joins(msg.items[c], Edits(doc[k[1]][c]))
      BY <1>0, <2>3 DEF PostsJoin
    <3>2. Edits(doc[k[1]][c]) \subseteq Edits(doc'[k[1]][c])
      BY DocGrows, ClientOfConn
    <3>3. QED
      BY <3>1, <3>2, JoinsMore
  <2>4. ASSUME ReadStep1(k), msg = Reply(k)
        PROVE  Joins(msg.items[c], Edits(doc'[k[1]][c]))
    BY <2>4, ReplyLoad
  <2>5. ASSUME ReadUpdate(k), msg = Head(up[k])
        PROVE  FALSE
    BY <2>1, <2>5 DEF ReadUpdate, RelayReads
  <2>6. outbox'[k][i] = [to |-> k, msg |-> Reply(k)] => msg = Reply(k)
    BY <2>1
  <2>7. QED
    BY <2>1, <2>2, <2>3, <2>4, <2>5, <2>6, PostsNext
<1>2. ASSUME NEW k \in Conn, NEW c \in Client, link'[k], ~Doomed(phase'[k], down'[k]), ~Asks(up'[k]),
             NEW j \in Conn, NEW msg \in Message, PostedTo(k, j, msg)', msg.type = "update"
      PROVE  Joins(msg.items[c], Coming(k, c)')
  <2>1. PICK i \in DOMAIN outbox'[j] : outbox'[j][i].to = k /\ outbox'[j][i].msg = msg
    BY <1>2 DEF PostedTo
  <2>2. link[k] /\ srv[k] = "reading"
    <3>1. srv'[k] \in {"reading", "gone"}
      BY <1>0, <2>1 DEF Protocol, Addressed
    <3>2. srv'[k] = "reading" /\ phase'[k] # "new"
      BY <1>0, <1>2, <3>1 DEF Protocol, Stages
    <3>3. ~Dial(k)
      BY <1>0, <3>2 DEF Dial, StageTypes
    <3>4. srv[k] = "reading"
      <4>1. ASSUME NEW h \in DOMAIN outbox[j], outbox[j][h] = outbox'[j][i]
            PROVE  srv[k] = "reading"
        <5>1. srv[k] \in {"reading", "gone"}
          BY <1>0, <2>1, <4>1 DEF Protocol, Addressed
        <5>2. srv[k] = "new" \/ link[k]
          BY <1>2, LinkUp
        <5>3. QED
          BY <1>0, <5>1, <5>2 DEF Protocol, Stages
      <4>2. ASSUME ReadStep1(j), outbox'[j][i] = [to |-> j, msg |-> Reply(j)]
            PROVE  srv[k] = "reading"
        BY <2>1, <4>2 DEF ReadStep1, RelayReads
      <4>3. QED
        BY <2>1, <4>1, <4>2, PostsNext
    <3>5. link[k]
      BY <1>2, <3>4, LinkUp
    <3>6. QED
      BY <3>4, <3>5
  <2>3. Coming(k, c) \subseteq Coming(k, c)'
    BY <1>2, <2>2, ComingStays
  <2>4. ~Doomed(phase[k], down[k])
    BY <1>0, <1>2, <2>2, DoomedStays
  <2>5. ASSUME ~Asks(up[k]), PostedTo(k, j, msg)
        PROVE  Joins(msg.items[c], Coming(k, c))
    BY <1>0, <1>2, <2>2, <2>4, <2>5 DEF PostsJoin, Coming
  <2>6. ASSUME Asks(up[k])
        PROVE  ReadStep1(k)
    BY <1>2, <2>2, <2>6, AskEnds
  <2>7. ASSUME NEW h \in DOMAIN outbox[j], outbox[j][h] = outbox'[j][i]
        PROVE  Joins(msg.items[c], Coming(k, c)')
    <3>1. PostedTo(k, j, msg)
      BY <2>1, <2>7 DEF PostedTo
    <3>2. CASE ~Asks(up[k])
      <4>1. Joins(msg.items[c], Coming(k, c))
        BY <2>5, <3>1, <3>2
      <4>2. QED
        BY <2>3, <4>1, JoinsMore
    <3>3. CASE Asks(up[k])
      <4>1. ReadStep1(k)
        BY <2>6, <3>3
      <4> DEFINE S == Edits(doc[k[1]][c]) \cup Edits(Reply(k).items[c])
      <4>2. Edits(room[c]) \subseteq S
        BY <4>1, ReplyLoad
      <4>3. S \subseteq Coming(k, c)'
        <5>1. UNCHANGED doc /\ Reply(k).type = "step2" /\ outbox'[k] = <<[to |-> k, msg |-> Reply(k)]>>
          BY <1>0, <4>1, ReplyLoad, PostsOf
        <5>2. Reply(k) \in Replies(outbox'[k])
          <6>1. 1 \in DOMAIN outbox'[k] /\ outbox'[k][1].msg = Reply(k)
            BY <5>1
          <6>2. QED
            BY <5>1, <6>1 DEF Replies
        <5>3. Edits(Reply(k).items[c]) \subseteq Carried(Replies(outbox'[k]), c)
          BY <5>2, CarriedBy
        <5>4. QED
          BY <5>1, <5>3 DEF Coming
      <4> HIDE DEF S
      <4>4. Within(msg.items, room) /\ msg.items \in Slices
        BY <3>1, PostLoad
      <4>5. Joins(msg.items[c], S) \/ 1 \notin DOMAIN msg.items[c]
        <5>1. room \in Slices /\ Whole(room) /\ Edits(msg.items[c]) \subseteq Edits(room[c])
          BY <4>4, TypeParts DEF Sound, DocTypes, WholeDocs, Within
        <5>2. QED
          BY <4>2, <5>1, RunFollows
      <4>6. Joins(msg.items[c], S)
        <5>1. msg.items[c] \in Seq(Item)
          BY <4>4 DEF Slices
        <5>2. msg.items[c] = <<>> \/ 1 \in DOMAIN msg.items[c]
          BY <5>1
        <5>3. QED
          BY <4>5, <5>2 DEF Joins
      <4>7. QED
        BY <4>3, <4>6, JoinsMore
    <3>4. QED
      BY <3>2, <3>3
  <2>8. ASSUME ReadUpdate(j), msg = Head(up[j])
        PROVE  Joins(msg.items[c], Coming(k, c)')
    <3>1. ~Asks(up[k])
      <4>1. /\ up \in [Conn -> Seq(Message)] /\ up[j] # <<>> /\ Head(up[j]).type = "update"
            /\ up' = [up EXCEPT ![j] = Tail(up[j])]
        BY <2>8, TypeParts DEF ReadUpdate, RelayReads, LinkType
      <4>2. CASE k = j
        <5>1. Head(up[j]) = up[j][1]
          BY <4>1, TailAt
        <5>2. QED
          BY <4>1, <4>2, <5>1 DEF Asks
      <4>3. CASE k # j
        <5>1. up'[k] = up[k]
          BY <4>1, <4>3
        <5>2. QED
          BY <1>2, <5>1
      <4>4. QED
        BY <4>2, <4>3
    <3>2. Joins(msg.items[c], Coming(k, c))
      BY <1>2, <2>2, <2>8, <3>1, CastFollows
    <3>3. QED
      BY <2>3, <3>2, JoinsMore
  <2>9. ~(ReadStep1(j) /\ outbox'[j][i] = [to |-> j, msg |-> Reply(j)])
    <3>1. ReadStep1(j) => Reply(j).type = "step2"
      BY ReplyLoad
    <3>2. QED
      BY <1>2, <2>1, <3>1
  <2>10. QED
    BY <2>1, <2>7, <2>8, <2>9, PostsNext
<1>3. \A k \in Conn, c \in Client :
        /\ \A msg \in Replies(outbox'[k]) : Joins(msg.items[c], Edits(doc'[k[1]][c]))
        /\ link'[k] /\ ~Doomed(phase'[k], down'[k]) /\ ~Asks(up'[k]) =>
              \A j \in Conn, msg \in Message :
                  PostedTo(k, j, msg)' /\ msg.type = "update" => Joins(msg.items[c], Coming(k, c)')
  BY <1>1, <1>2
<1>4. QED
  BY <1>3 DEF PostsJoin, Replies, Joins, Edits, Doomed, Step2s, Asks

\* Every step keeps the edits of a client on their way to the room (the update handler of
\* Connect): Register comes too late only for edits that clean names.
LEMMA ForwardedStep ==
  ASSUME Types, Handshake, Sound, [Next]_vars, ~Restart, clean'
  PROVE  Forwarded'
<1> SUFFICES ASSUME NEW k \in Conn, link'[k], phase'[k] \in {"step2", "synced", "live"}
             PROVE  Edits(doc'[k[1]][k[1]]) \subseteq
                       Edits(room'[k[1]]) \cup Carried(Contents(up'[k]), k[1])
  BY DEF Forwarded, Edits, Carried, Contents
<1> DEFINE x == k[1]
           R == Edits(room'[x]) \cup Carried(Contents(up'[k]), x)
<1>0. /\ x \in Client /\ DocTypes /\ StageTypes /\ LinkType(up) /\ WholeDocs /\ Forwarded /\ Stages
      /\ up[k] \in Seq(Message)
  BY TypeParts, ClientOfConn DEF Sound, Handshake, Protocol, LinkType
<1>1. Edits(room[x]) \cup Carried(Contents(up[k]), x) \subseteq R
  BY <1>0, UpStays
<1>2. ASSUME NEW msg \in Message, up'[k] = Append(up[k], msg), msg.type # "step1"
      PROVE  Edits(msg.items[x]) \subseteq R
  <2>1. msg \in Contents(up'[k])
    BY <1>0, <1>2, ContentsAppend
  <2>2. QED
    BY <2>1, CarriedBy
<1>3. CASE AnswerStep1(k)
  <2>1. /\ Answer(k) \in Message /\ Answer(k).type = "step2" /\ up'[k] = Append(up[k], Answer(k))
        /\ UNCHANGED doc
        /\ Edits(doc[x][x]) \subseteq Edits(room[x]) \cup Edits(Answer(k).items[x])
    BY <1>0, <1>3, AnswerLoad DEF LinkType
  <2>2. Edits(Answer(k).items[x]) \subseteq R
    BY <1>2, <2>1
  <2> HIDE DEF R
  <2>3. QED
    BY <1>1, <2>1, <2>2 DEF R
<1>4. CASE ~AnswerStep1(k)
  <2>1. link[k] /\ phase[k] \in {"step2", "synced", "live"}
    <3>1. ~Dial(k)
      BY <1>0 DEF Dial, StageTypes
    <3>2. link[k]
      <4>1. srv[k] = "new" => phase[k] = "new"
        BY <1>0 DEF Stages
      <4>2. phase[k] = "new" => phase'[k] = "new"
        BY <1>0, <1>4, <3>1, PhaseMoves
      <4>3. QED
        BY <4>1, <4>2, LinkUp
    <3>3. QED
      BY <1>0, <1>4, <3>1, <3>2, PhaseMoves
  <2>2. Edits(doc[x][x]) \subseteq R
    BY <1>0, <1>1, <2>1 DEF Forwarded
  <2>3. CASE Edit(x)
    <3> DEFINE n == Len(doc[x][x])
    <3>1. n \in Nat /\ EditItem(x) = Edit1(n) /\ doc'[x][x] = Prefix(n + 1)
      BY <1>0, <2>3, EditDoc
    <3>2. Edits(doc[x][x]) = 0 .. n - 1
      BY <1>0, EditsWhole DEF DocTypes, WholeDocs
    <3> HIDE DEF n
    <3>3. Edits(Prefix(n + 1)) = 0 .. n
      BY <3>1, PrefixNext
    <3>4. Edits(EditMessage(x).items[x]) = {n} /\ EditMessage(x).type = "update"
      BY <1>0, <2>3, <3>1, EditMessageLoad
    <3>5. k \in Registered(x)
      <4>1. phase[k] = "live"
        BY <1>0, <2>1, <2>3, StaysClean
      <4>2. QED
        BY <2>1, <4>1 DEF Registered
    <3>6. up'[k] = Append(up[k], EditMessage(x)) /\ EditMessage(x) \in Message
      <4>1. up' = [j \in Conn |-> IF j \in Registered(x) THEN Append(up[j], EditMessage(x)) ELSE up[j]]
        BY <2>3 DEF Edit, EditMessage, EditItem
      <4>2. EditMessage(x) \in Message
        BY <1>0, EditItemType, MessageTypes DEF EditMessage, Types
      <4>3. QED
        BY <3>5, <4>1, <4>2
    <3>7. n \in R
      BY <1>2, <3>4, <3>6
    <3>8. \A e \in 0 .. (n + 1) - 1 : e = n \/ e \in 0 .. n - 1
      BY <3>1
    <3> HIDE DEF R, x
    <3>9. Edits(doc'[x][x]) \subseteq R
      BY <2>2, <3>1, <3>2, <3>3, <3>7, <3>8
    <3>10. QED
      BY <3>9 DEF R, x
  <2>4. CASE ~Edit(x)
    <3>1. Edits(doc'[x][x]) \subseteq Edits(doc[x][x]) \cup Edits(room[x])
      BY <1>0, <2>4, DocGrows
    <3> HIDE DEF R, x
    <3>2. Edits(doc'[x][x]) \subseteq R
      BY <1>1, <2>2, <3>1
    <3>3. QED
      BY <3>2 DEF R, x
  <2>5. QED
    BY <2>3, <2>4
<1>5. QED
  BY <1>3, <1>4

\* Every step keeps what the room holds on its way to its members (ServeHTTP): what comes
\* as step 2 and is not passed on is an exception that clean names.
LEMMA FetchedStep ==
  ASSUME Types, Handshake, Sound, [Next]_vars, ~Restart, clean'
  PROVE  Fetched'
<1>1. ASSUME NEW k \in Conn, NEW c \in Client, link'[k], srv'[k] = "reading", ~Asks(up'[k])
      PROVE  Edits(room'[c]) \subseteq Edits(doc'[k[1]][c]) \cup Carried(MessagesTo(k)', c)
  <2> DEFINE x == k[1]
             M == MessagesTo(k)'
             R == Edits(doc'[x][c]) \cup Carried(M, c)
  <2>0. /\ x \in Client /\ PostTypes /\ Protocol /\ Protocol' /\ Fetched /\ AskedOnce
        /\ Loads /\ StageTypes /\ Registry
    BY TypeParts, ClientOfConn, HandshakeStep DEF Sound, Handshake
  <2>1. ASSUME NEW msg \in M PROVE Edits(msg.items[c]) \subseteq R
    <3> HIDE DEF M
    <3>1. QED
      BY <2>1, CarriedBy
  <2>2. link[k]
    <3>1. ASSUME srv[k] = "new" PROVE FALSE
      BY <1>1, <3>1, SrvMoves DEF Join
    <3>2. QED
      BY <1>1, <3>1, LinkUp
  <2>3. CASE Asks(up[k])
    <3>1. ReadStep1(k)
      BY <1>1, <2>2, <2>3, AskEnds
    <3>2. /\ UNCHANGED <<doc, room>> /\ outbox'[k] = <<[to |-> k, msg |-> Reply(k)]>>
          /\ Edits(room[c]) \subseteq Edits(doc[x][c]) \cup Edits(Reply(k).items[c])
      BY <2>0, <3>1, ReplyLoad, PostsOf
    <3>3. Reply(k) \in M
      <4>1. 1 \in DOMAIN outbox'[k] /\ outbox'[k][1].to = k /\ outbox'[k][1].msg = Reply(k)
        BY <3>2
      <4>2. PICK m : m = Reply(k)
        OBVIOUS
      <4>3. PostedTo(k, k, m)'
        BY <4>1, <4>2 DEF PostedTo
      <4>4. QED
        BY <4>2, <4>3, UnderWayNext
    <3>4. Edits(Reply(k).items[c]) \subseteq R
      BY <2>1, <3>3
    <3>5. QED
      BY <3>2, <3>4
  <2>4. CASE ~Asks(up[k])
    <3>1. srv[k] = "reading"
      <4>1. ~Join(k)
        BY <2>0, <2>4 DEF Join, AskedOnce
      <4>2. QED
        BY <1>1, <2>0, <4>1, SrvMoves
    <3>2. ASSUME NEW y \in Edits(room[c])
          PROVE  y \in R
      <4>1. CASE y \in Edits(doc[x][c])
        BY <2>0, <4>1, DocGrows
      <4>2. CASE y \in Carried(MessagesTo(k), c)
        <5>1. PICK msg \in MessagesTo(k) : y \in Edits(msg.items[c])
          BY <4>2, InCarried
        <5>2. CASE msg \in M
          BY <2>1, <5>1, <5>2
        <5>3. CASE doc' = [doc EXCEPT ![x] = ApplyUpdate(@, msg.items)]
          <6>1. msg.items \in Slices /\ Runs(msg.items)
            BY UnderWayLoad
          <6>2. Edits(msg.items[c]) \subseteq Edits(doc'[x][c])
            BY <2>0, <5>3, <6>1, AppliedWithin
          <6>3. QED
            BY <5>1, <6>2
        <5>4. QED
          BY <1>1, <2>0, <2>2, <5>2, <5>3, StaysUnderWay
      <4>3. QED
        BY <2>0, <2>2, <2>4, <3>1, <4>1, <4>2 DEF Fetched
    <3>3. ASSUME NEW j \in Conn, ReadStep2(j) \/ ReadUpdate(j)
          PROVE  Edits(Head(up[j]).items[c]) \subseteq R \/ room' = room
      <4> DEFINE msg == Head(up[j])
      <4>1. msg \in Contents(up[j]) /\ Within(msg.items, doc[j[1]])
        BY <3>3, ReadUp
      <4>2. ASSUME x = j[1] PROVE Edits(msg.items[c]) \subseteq R
        <5>1. Edits(msg.items[c]) \subseteq Edits(doc[x][c])
          BY <4>1, <4>2 DEF Within
        <5>2. QED
          BY <2>0, <5>1, DocGrows
      <4>3. ASSUME ReadStep2(j) PROVE x = j[1] \/ room' = room
        BY <3>1, <4>3, StaysClean
      <4>4. ASSUME ReadUpdate(j), k # j PROVE msg \in M
        <5> DEFINE others == Without(members, j)
                   posts  == [n \in DOMAIN others |-> [to |-> others[n], msg |-> msg]]
        <5>1. outbox'[j] = posts
          BY <2>0, <4>4, PostsOf DEF ReadUpdate
        <5>2. k \in Range(others)
          <6>1. k \in Range(members)
            BY <2>0, <3>1 DEF Registry
          <6>2. Range(others) = Range(members) \ {j}
            BY <2>0, WithoutConn DEF Registry
          <6>3. QED
            BY <4>4, <6>1, <6>2
        <5>3. PICK i \in DOMAIN others : others[i] = k
          BY <5>2 DEF Range
        <5> HIDE DEF others, msg
        <5>4. i \in DOMAIN posts /\ posts[i].to = k /\ posts[i].msg = msg
          BY <5>3
        <5>5. \E h \in DOMAIN outbox'[j] : outbox'[j][h].to = k /\ outbox'[j][h].msg = msg
          BY <5>1, <5>4
        <5>6. PICK m : m = msg
          OBVIOUS
        <5>7. PostedTo(k, j, m)'
          BY <5>5, <5>6 DEF PostedTo
        <5>8. QED
          BY <5>6, <5>7, UnderWayNext
      <4> HIDE DEF msg, R, M
      <4>5. QED
        BY <3>3, <4>2, <4>3, <4>4, <2>1 DEF msg
    <3>4. ASSUME room' = room
          PROVE  Edits(room'[c]) \subseteq R
      BY <3>2, <3>4
    <3>5. ASSUME NEW j \in Conn, ReadStep2(j) \/ ReadUpdate(j)
          PROVE  Edits(room'[c]) \subseteq R
      <4>1. Edits(room'[c]) = Edits(room[c]) \cup Edits(Head(up[j]).items[c])
        BY <3>5, RoomGrows
      <4> HIDE DEF R
      <4>2. QED
        BY <3>2, <3>3, <3>4, <3>5, <4>1
    <3> HIDE DEF R
    <3>6. Edits(room'[c]) \subseteq R
      BY <3>4, <3>5, RoomGrows
    <3>7. QED
      BY <3>6 DEF R
  <2>5. QED
    BY <2>3, <2>4
<1>2. \A k \in Conn, c \in Client : link'[k] /\ srv'[k] = "reading" /\ ~Asks(up'[k]) =>
         Edits(room'[c]) \subseteq Edits(doc'[k[1]][c]) \cup Carried(MessagesTo(k)', c)
  BY <1>1
<1>3. QED
  BY <1>2 DEF Fetched, Asks, Edits, Carried

-----------------------------------------------------------------------------
(***************************************************************************)
(* The theorems.                                                           *)
(***************************************************************************)
\* Where nothing is under way and the room is empty, all but the Docs is sound.
Idle ==
    /\ room = Empty
    /\ \A k \in Conn : ~link[k] /\ up[k] = <<>> /\ down[k] = <<>> /\ outbox[k] = <<>>

\* Nothing is under way: sound.
LEMMA IdleSound ==
  ASSUME Idle, \A c \in Client : Whole(doc[c])
  PROVE  Sound
<1>1. DOMAIN <<>> = {} /\ Contents(<<>>) = {} /\ ~Asks(<<>>) /\ Step2s(<<>>) = {} /\ Replies(<<>>) = {}
  BY ContentsEmpty, FirstNone DEF Asks, Replies
<1>2. Whole(room)
  <2>1. Len(<<>>) = 0 /\ Prefix(0) = <<>>
    BY PrefixType
  <2>2. \A c \in Client : Empty[c] = <<>>
    BY DEF Empty
  <2>3. QED
    BY <2>1, <2>2 DEF Idle, Whole
<1>3. Loads /\ Offers
  BY <1>1 DEF Idle, Loads, Offers
<1>4. UpJoins /\ DownJoins
  BY <1>1, OrderedNone DEF Idle, UpJoins, DownJoins
<1>5. PostsJoin /\ Forwarded /\ Fetched
  BY <1>1 DEF Idle, PostsJoin, Forwarded, Fetched
<1>6. QED
  BY <1>2, <1>3, <1>4, <1>5 DEF Sound, WholeDocs

\* The system starts sound,
LEMMA SoundInit == Init => Sound
<1> SUFFICES ASSUME Init PROVE Sound
  OBVIOUS
<1>1. Idle
  BY DEF Init, Idle
<1>2. Whole(Empty)
  <2>1. Len(<<>>) = 0 /\ Prefix(0) = <<>>
    BY PrefixType
  <2>2. \A c \in Client : Empty[c] = <<>>
    BY DEF Empty
  <2>3. QED
    BY <2>1, <2>2 DEF Whole
<1>3. \A c \in Client : doc[c] = Empty
  BY DEF Init
<1> HIDE DEF Init
<1>4. QED
  BY <1>1, <1>2, <1>3, IdleSound

\* and a restart of the relay leaves the Docs of the clients as they are.
LEMMA SoundRestart ==
  ASSUME Types, Sound, Restart
  PROVE  Sound'
<1>1. Idle'
  BY DEF Restart, Idle, Empty
<1>2. (\A c \in Client : Whole(doc[c]))'
  BY DEF Restart, Sound, WholeDocs, Whole
<1>3. (Idle /\ (\A c \in Client : Whole(doc[c])) => Sound)'
  BY IdleSound, PTL
<1>4. QED
  BY <1>1, <1>2, <1>3

CleanInv == Types /\ Handshake /\ (clean => Sound)

\* Every step keeps clean runs sound.
LEMMA CleanStep == CleanInv /\ [Next]_vars => CleanInv'
<1> SUFFICES ASSUME Types, Handshake, clean => Sound, [Next]_vars
             PROVE  Types' /\ Handshake' /\ (clean' => Sound')
  BY DEF CleanInv
<1>1. Types' /\ Handshake'
  BY TypesStep, HandshakeStep
<1>2. ASSUME clean' PROVE Sound'
  <2>1. Sound
    BY <1>2, StaysClean
  <2>2. CASE Restart
    BY <2>1, <2>2, SoundRestart
  <2>3. CASE ~Restart
    <3>1. WholeDocs'
      <4>1. Whole(room') /\ \A c \in Client : Whole(doc'[c])
        BY <2>1, <2>3, DocGrows, RoomGrows
      <4>2. QED
        BY <4>1 DEF WholeDocs, Whole
    <3>2. Loads' /\ Offers' /\ UpJoins' /\ DownJoins'
      BY <2>1, <2>3, LoadsStep, OffersStep, UpJoinsStep, DownJoinsStep
    <3>3. PostsJoin' /\ Forwarded' /\ Fetched'
      BY <1>2, <2>1, <2>3, PostsJoinStep, ForwardedStep, FetchedStep
    <3>4. QED
      BY <3>1, <3>2, <3>3 DEF Sound
  <2>4. QED
    BY <2>2, <2>3
<1>3. QED
  BY <1>1, <1>2

\* The runs of the relay that part nobody's edits stay sound.
THEOREM StaysSound == Spec => []CleanInv
<1>1. Init => CleanInv
  BY TypesInit, HandshakeInit, SoundInit DEF CleanInv
<1>2. QED
  BY <1>1, CleanStep, PTL DEF Spec

\* Without gaps: the prefixes of the edits of each client.
LEMMA SoundNoGaps == CleanInv => NoGaps
<1> SUFFICES ASSUME CleanInv, clean, NEW d \in Docs, NEW c \in Client
             PROVE  d[c] = [i \in DOMAIN d[c] |-> [clock |-> i - 1, edit |-> i - 1]]
  BY DEF NoGaps
<1>1. DocTypes /\ WholeDocs
  BY TypeParts DEF CleanInv, Sound
<1>2. d \in Slices /\ Whole(d)
  <2>1. d = room \/ \E x \in Client : d = doc[x]
    <3>1. DOMAIN doc = Client
      BY <1>1 DEF DocTypes
    <3>2. d \in Range(doc) => \E x \in DOMAIN doc : d = doc[x]
      BY DEF Range
    <3>3. QED
      BY <3>1, <3>2 DEF Docs
  <2>2. QED
    BY <1>1, <2>1 DEF DocTypes, WholeDocs
<1> DEFINE n == Len(d[c])
<1>3. n \in Nat /\ d[c] = Prefix(n)
  BY <1>2, EditsWhole
<1> HIDE DEF n
<1>4. DOMAIN d[c] = 1 .. n
  BY <1>3, PrefixType
<1>5. Prefix(n) = [i \in 1 .. n |-> [clock |-> i - 1, edit |-> i - 1]]
  BY DEF Prefix, Edit1
<1>6. QED
  BY <1>3, <1>4, <1>5

\* Every Doc holds a prefix of the edits of each client, each once and in order.
THEOREM DocsHaveNoGaps == Spec => []NoGaps
  BY StaysSound, SoundNoGaps, PTL

\* Who is live has read its answer, so that all the room holds has come or comes.
LEMMA SoundNothingMissed == CleanInv => NothingMissed
<1> SUFFICES ASSUME CleanInv, clean, NEW k \in Conn, NEW c \in Client, Live(k)
             PROVE  Edits(room[c]) \subseteq Edits(doc[k[1]][c]) \cup Carried(MessagesTo(k), c)
  BY DEF NothingMissed
<1>1. Registry /\ AnsweredOnce /\ Fetched
  BY TypeParts DEF CleanInv, Sound, Handshake
<1>2. link[k] /\ srv[k] = "reading"
  BY <1>1 DEF Live, Registry
<1>3. ~Asks(up[k])
  BY <1>1 DEF Live, AnsweredOnce, Answered
<1>4. QED
  BY <1>1, <1>2, <1>3 DEF Fetched

\* A client that is connected holds all that the room holds, or it is under way.
THEOREM MembersMissNothing == Spec => []NothingMissed
  BY StaysSound, SoundNothingMissed, PTL

\* Who is live has answered the relay, so that its edits went up or go up.
LEMMA SoundForwarded == CleanInv => OwnEditsForwarded
  BY DEF CleanInv, Sound, Forwarded, OwnEditsForwarded, Live

\* What a client that is connected has edited is in the room or on the way to it.
THEOREM EditsAreForwarded == Spec => []OwnEditsForwarded
  BY StaysSound, SoundForwarded, PTL

=============================================================================
