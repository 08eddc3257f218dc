----------------------------- MODULE OrderProofs -----------------------------
(***************************************************************************)
(* The order of the items in the lists of a document, and of the documents *)
(* of the peers: where an item is linked, what stays to the left of what,  *)
(* and that no item leaves its list.                                       *)
(***************************************************************************)
EXTENDS ReplicasProofs

-----------------------------------------------------------------------------
(***************************************************************************)
(* Sequences of items.                                                     *)
(***************************************************************************)
Has(s, k) == \E i \in 1 .. Len(s) : s[i] = k

\* j is somewhere to the left of k.
Leads(s, j, k) == \E a, b \in 1 .. Len(s) : a < b /\ s[a] = j /\ s[b] = k

\* No item stands in s twice.
Distinct(s) == \A i, j \in 1 .. Len(s) : s[i] = s[j] => i = j

\* t has the items of s, in their order.
Widens(s, t) == (\A i \in 1 .. Len(s) : Has(t, s[i])) /\ InOrder(s, t)

\* t is s with x put after the first p items.
PutIn(s, t, p, x) ==
    /\ p \in 0 .. Len(s)
    /\ Len(t) = Len(s) + 1
    /\ t[p + 1] = x
    /\ \A i \in 1 .. p : t[i] = s[i]
    /\ \A i \in p + 1 .. Len(s) : t[i + 1] = s[i]

\* The items of a list, from the first to the last.
Row(d, l) == chain(d, d.start[l])

\* A sequence widens itself.
LEMMA WidensItself ==
  ASSUME NEW E, NEW s \in Seq(E)
  PROVE  Widens(s, s)
BY DEF Widens, Has, InOrder

\* What is widened twice is widened.
LEMMA WidensTwice ==
  ASSUME NEW E, NEW s \in Seq(E), NEW t \in Seq(E), NEW u \in Seq(E), Widens(s, t), Widens(t, u)
  PROVE  Widens(s, u)
<1>1. ASSUME NEW i \in 1 .. Len(s) PROVE Has(u, s[i])
  <2>1. PICK k \in 1 .. Len(t) : t[k] = s[i]
    BY DEF Widens, Has
  <2>2. QED
    BY <2>1 DEF Widens
<1>2. ASSUME NEW i \in 1 .. Len(s), NEW j \in 1 .. Len(s), i < j
      PROVE  \E k, m \in 1 .. Len(u) : k < m /\ s[i] = u[k] /\ s[j] = u[m]
  <2>1. PICK k \in 1 .. Len(t), m \in 1 .. Len(t) : k < m /\ s[i] = t[k] /\ s[j] = t[m]
    BY <1>2 DEF Widens, InOrder
  <2>2. \E a, b \in 1 .. Len(u) : a < b /\ t[k] = u[a] /\ t[m] = u[b]
    BY <2>1 DEF Widens, InOrder
  <2>3. QED
    BY <2>1, <2>2
<1>3. QED
  BY <1>1, <1>2 DEF Widens, InOrder

\* What is to the left of something stays so.
LEMMA WidensLeads ==
  ASSUME NEW E, NEW s \in Seq(E), NEW t \in Seq(E), Widens(s, t)
  PROVE  /\ \A k : Has(s, k) => Has(t, k)
         /\ \A j, k : Leads(s, j, k) => Leads(t, j, k)
<1>1. ASSUME NEW k, Has(s, k) PROVE Has(t, k)
  BY <1>1 DEF Widens, Has
<1>2. ASSUME NEW j, NEW k, Leads(s, j, k) PROVE Leads(t, j, k)
  <2>1. PICK a \in 1 .. Len(s), b \in 1 .. Len(s) : a < b /\ s[a] = j /\ s[b] = k
    BY <1>2 DEF Leads
  <2>2. PICK x \in 1 .. Len(t), y \in 1 .. Len(t) : x < y /\ s[a] = t[x] /\ s[b] = t[y]
    BY <2>1 DEF Widens, InOrder
  <2>3. QED
    BY <2>1, <2>2 DEF Leads
<1>3. QED
  BY <1>1, <1>2

\* An item that is put in a sequence comes after those before its place, and no other
\* item changes its place among the rest.
LEMMA PutInKeeps ==
  ASSUME NEW E, NEW s \in Seq(E), NEW t \in Seq(E), NEW p, NEW x, PutIn(s, t, p, x)
  PROVE  /\ Widens(s, t)
         /\ Has(t, x)
         /\ \A k : Has(t, k) => k = x \/ Has(s, k)
         /\ \A i \in 1 .. p : Leads(t, s[i], x)
         /\ \A i \in p + 1 .. Len(s) : Leads(t, x, s[i])
<1> DEFINE N == Len(s)
           at == [i \in 1 .. N |-> IF i <= p THEN i ELSE i + 1]
<1>0. N \in Nat /\ p \in Nat /\ p <= N
  BY DEF PutIn
<1>1. Len(t) = N + 1 /\ p + 1 \in 1 .. N + 1 /\ t[p + 1] = x
  BY <1>0 DEF PutIn
<1>2. \A i \in 1 .. N : at[i] \in 1 .. N + 1 /\ t[at[i]] = s[i] /\ (i <= p => at[i] < p + 1) /\ (i > p => p + 1 < at[i])
  <2>1. ASSUME NEW i \in 1 .. N, i <= p PROVE at[i] = i /\ t[i] = s[i]
    BY <1>0, <2>1 DEF PutIn
  <2>2. ASSUME NEW i \in 1 .. N, ~(i <= p) PROVE at[i] = i + 1 /\ t[i + 1] = s[i]
    BY <1>0, <2>2 DEF PutIn
  <2> HIDE DEF N, at
  <2>3. QED
    BY <1>0, <2>1, <2>2
<1>3. \A i, j \in 1 .. N : i < j => at[i] < at[j]
  BY <1>0
<1>4. ASSUME NEW k \in 1 .. N + 1, k # p + 1 PROVE \E i \in 1 .. N : at[i] = k
  <2>1. CASE k <= p
    <3>1. k \in 1 .. N /\ at[k] = k
      BY <1>0, <2>1
    <3>2. QED
      BY <3>1
  <2>2. CASE ~(k <= p)
    <3>1. k - 1 \in 1 .. N /\ at[k - 1] = k
      BY <1>0, <1>4, <2>2
    <3>2. QED
      BY <3>1
  <2>3. QED
    BY <2>1, <2>2
<1> HIDE DEF at, N
<1>5. Widens(s, t)
  <2>1. \A i \in 1 .. N : Has(t, s[i])
    BY <1>1, <1>2 DEF Has
  <2>2. ASSUME NEW i \in 1 .. N, NEW j \in 1 .. N, i < j
        PROVE  \E k, m \in 1 .. Len(t) : k < m /\ s[i] = t[k] /\ s[j] = t[m]
    <3>1. at[i] \in 1 .. Len(t) /\ at[j] \in 1 .. Len(t) /\ at[i] < at[j] /\ t[at[i]] = s[i] /\ t[at[j]] = s[j]
      BY <1>1, <1>2, <1>3, <2>2
    <3>2. QED
      BY <3>1
  <2>3. QED
    BY <2>1, <2>2 DEF Widens, InOrder, N
<1>6. Has(t, x)
  BY <1>1 DEF Has
<1>7. ASSUME NEW k, Has(t, k) PROVE k = x \/ Has(s, k)
  <2>1. PICK m \in 1 .. N + 1 : t[m] = k
    BY <1>1, <1>7 DEF Has
  <2>2. CASE m = p + 1
    BY <1>1, <2>1, <2>2
  <2>3. CASE m # p + 1
    <3>1. PICK i \in 1 .. N : at[i] = m
      BY <1>4, <2>3
    <3>2. s[i] = k
      BY <1>2, <2>1, <3>1
    <3>3. QED
      BY <3>2 DEF Has, N
  <2>4. QED
    BY <2>2, <2>3
<1>8. ASSUME NEW i \in 1 .. p PROVE Leads(t, s[i], x)
  <2>1. i \in 1 .. N /\ i <= p
    BY <1>0
  <2>2. at[i] \in 1 .. Len(t) /\ p + 1 \in 1 .. Len(t) /\ at[i] < p + 1 /\ t[at[i]] = s[i]
    BY <1>1, <1>2, <2>1
  <2>3. QED
    BY <1>1, <2>2 DEF Leads
<1>9. ASSUME NEW i \in p + 1 .. N PROVE Leads(t, x, s[i])
  <2>1. i \in 1 .. N /\ i > p
    BY <1>0
  <2>2. at[i] \in 1 .. Len(t) /\ p + 1 \in 1 .. Len(t) /\ p + 1 < at[i] /\ t[at[i]] = s[i]
    BY <1>1, <1>2, <2>1
  <2>3. QED
    BY <1>1, <2>2 DEF Leads
<1>10. QED
  BY <1>5, <1>6, <1>7, <1>8, <1>9 DEF N

\* t is the elements of s that are in S, in their order.
Selects(t, s, S) ==
    /\ Len(t) \in Nat
    /\ \A i \in 1 .. Len(s) : s[i] \in S => Has(t, s[i])
    /\ \A i \in 1 .. Len(t) : t[i] \in S /\ Has(s, t[i])
    /\ InOrder(t, s)

\* Among selects.
LEMMA AmongIs ==
  ASSUME NEW E, NEW s \in Seq(E), NEW S
  PROVE  Selects(Among(s, S), s, S) /\ Among(s, S) \in Seq(E \cap S)
<1> DEFINE t == Among(s, S)
           X == E \cap S
<1>1. /\ t \in Seq(X)
      /\ \A k \in 1 .. Len(s) : s[k] \in S => \E i \in 1 .. Len(t) : t[i] = s[k]
      /\ \A i \in 1 .. Len(t) : \E k \in 1 .. Len(s) : t[i] = s[k]
      /\ InOrder(t, s)
  <2>1. t \in Seq(X)
    BY AmongSelects
  <2>2. Drawn(t, s, S) /\ InOrder(t, s)
    BY AmongSelects
  <2> HIDE DEF t, X
  <2>3. QED
    BY <2>1, <2>2 DEF Drawn
<1>2. \A i \in 1 .. Len(t) : t[i] \in S /\ Len(t) \in Nat
  <2> HIDE DEF t
  <2>1. \A i \in 1 .. Len(t) : t[i] \in X
    <3> HIDE DEF X
    <3> QED BY <1>1
  <2>2. QED
    BY <1>1, <2>1
<1>3. Len(t) \in Nat
  <2> HIDE DEF t, X
  <2> QED BY <1>1
<1> HIDE DEF t
<1>4. \A i \in 1 .. Len(t) : Has(s, t[i])
  BY <1>1 DEF Has
<1>5. \A k \in 1 .. Len(s) : s[k] \in S => Has(t, s[k])
  BY <1>1 DEF Has
<1>6. Selects(t, s, S)
  BY <1>1, <1>2, <1>3, <1>4, <1>5 DEF Selects
<1>7. QED
  BY <1>1, <1>6 DEF t

\* Two sequences of the same items are one if some rank goes down along both.
LEMMA OrderOnce ==
  ASSUME NEW E, NEW s \in Seq(E), NEW t \in Seq(E),
         \A i \in 1 .. Len(s) : Has(t, s[i]), \A i \in 1 .. Len(t) : Has(s, t[i]),
         NEW rank, \A k \in E : rank[k] \in Int,
         \A i, j \in 1 .. Len(s) : i < j => rank[s[j]] < rank[s[i]],
         \A i, j \in 1 .. Len(t) : i < j => rank[t[j]] < rank[t[i]]
  PROVE  s = t
<1> DEFINE Good == { n \in Nat : /\ n <= Len(s) => n <= Len(t)
                                 /\ n <= Len(t) => n <= Len(s)
                                 /\ \A i \in 1 .. n : i <= Len(s) => s[i] = t[i] }
<1>0. Len(s) \in Nat /\ Len(t) \in Nat /\ (\A i \in 1 .. Len(s) : s[i] \in E) /\ (\A i \in 1 .. Len(t) : t[i] \in E)
  OBVIOUS
<1>1. 0 \in Good
  BY <1>0
<1>2. ASSUME NEW n \in Nat, n \in Good PROVE n + 1 \in Good
  <2>0. \A i \in 1 .. n : i <= Len(s) => s[i] = t[i]
    BY <1>2
  <2>1. ASSUME n + 1 <= Len(s)
        PROVE  \E m \in n + 1 .. Len(t) : t[m] = s[n + 1]
    <3>1. n + 1 \in 1 .. Len(s)
      BY <1>0, <2>1
    <3>2. PICK m \in 1 .. Len(t) : t[m] = s[n + 1]
      BY <3>1 DEF Has
    <3>3. ASSUME m <= n PROVE FALSE
      <4>1. m \in 1 .. n /\ m \in 1 .. Len(s) /\ m < n + 1
        BY <1>0, <2>1, <3>3
      <4>2. s[m] = s[n + 1]
        BY <1>0, <2>0, <3>2, <4>1
      <4>3. rank[s[n + 1]] < rank[s[m]] /\ rank[s[m]] \in Int
        BY <1>0, <3>1, <4>1
      <4>4. QED
        BY <4>2, <4>3
    <3>4. QED
      BY <1>0, <3>2, <3>3
  <2>2. ASSUME n + 1 <= Len(t)
        PROVE  \E m \in n + 1 .. Len(s) : s[m] = t[n + 1]
    <3>1. n + 1 \in 1 .. Len(t)
      BY <1>0, <2>2
    <3>2. PICK m \in 1 .. Len(s) : s[m] = t[n + 1]
      BY <3>1 DEF Has
    <3>3. ASSUME m <= n PROVE FALSE
      <4>1. m \in 1 .. n /\ m \in 1 .. Len(t) /\ m < n + 1 /\ m <= Len(s)
        BY <1>0, <2>2, <3>3
      <4>2. t[m] = t[n + 1]
        BY <1>0, <2>0, <3>2, <4>1
      <4>3. rank[t[n + 1]] < rank[t[m]] /\ rank[t[m]] \in Int
        BY <1>0, <3>1, <4>1
      <4>4. QED
        BY <4>2, <4>3
    <3>4. QED
      BY <1>0, <3>2, <3>3
  <2>3. n + 1 <= Len(s) => n + 1 <= Len(t)
    BY <1>0, <2>1
  <2>4. n + 1 <= Len(t) => n + 1 <= Len(s)
    BY <1>0, <2>2
  <2>5. ASSUME n + 1 <= Len(s) PROVE s[n + 1] = t[n + 1]
    <3>1. PICK m \in n + 1 .. Len(t) : t[m] = s[n + 1]
      BY <2>1, <2>5
    <3>2. PICK q \in n + 1 .. Len(s) : s[q] = t[n + 1]
      BY <2>2, <2>3, <2>5
    <3>3. n + 1 \in 1 .. Len(s) /\ n + 1 \in 1 .. Len(t) /\ m \in 1 .. Len(t) /\ q \in 1 .. Len(s)
      BY <1>0, <2>3, <2>5
    <3>4. CASE q = n + 1
      BY <3>2, <3>4
    <3>5. CASE q # n + 1
      <4>1. n + 1 < q
        BY <3>5
      <4>2. rank[s[q]] < rank[s[n + 1]]
        BY <3>3, <4>1
      <4>3. m = n + 1 \/ rank[t[m]] < rank[t[n + 1]]
        BY <3>3
      <4>4. rank[s[n + 1]] \in Int /\ rank[t[n + 1]] \in Int
        BY <1>0, <3>3
      <4>5. QED
        BY <3>1, <3>2, <4>2, <4>3, <4>4
    <3>6. QED
      BY <3>4, <3>5
  <2>6. \A i \in 1 .. n + 1 : i <= Len(s) => s[i] = t[i]
    <3>1. \A i \in 1 .. n + 1 : i \in 1 .. n \/ i = n + 1
      OBVIOUS
    <3>2. QED
      BY <2>0, <2>5, <3>1
  <2>7. QED
    BY <2>3, <2>4, <2>6
<1>3. \A n \in Nat : n \in Good
  <2> HIDE DEF Good
  <2> QED BY <1>1, <1>2, Induction
<1>4. Len(s) \in Good /\ Len(t) \in Good
  BY <1>0, <1>3
<1>5. Len(s) = Len(t)
  BY <1>0, <1>4
<1>6. \A i \in 1 .. Len(s) : s[i] = t[i]
  BY <1>0, <1>4
<1>7. QED
  BY <1>5, <1>6, SeqEqual

-----------------------------------------------------------------------------
(***************************************************************************)
(* The list of a document, and an item that is linked in it.               *)
(***************************************************************************)
\* A chain goes down in rank.
LEMMA FollowsRanked ==
  ASSUME NEW d \in Docs, NEW rank, Ranked(d, rank), NEW X, X \subseteq Refs(d),
         NEW first, NEW refs, Follows(d, first, refs, X)
  PROVE  \A i, j \in 1 .. Len(refs) : i < j => rank[refs[j]] < rank[refs[i]]
<1> DEFINE N == Len(refs)
<1>1. N \in Nat /\ \A i \in 1 .. N : refs[i] \in Refs(d)
  <2>1. refs \in Seq(X)
    BY DEF Follows
  <2>2. N \in Nat /\ \A i \in 1 .. N : refs[i] \in X
    BY <2>1, SeqElements
  <2>3. QED
    BY <2>2
<1>2. \A i \in 1 .. N : rank[refs[i]] \in Nat
  <2>1. rank \in [0 .. Len(d.heap) -> Nat] /\ Len(d.heap) \in Nat
    BY DocFields DEF Ranked
  <2>2. \A k \in Refs(d) : k \in 0 .. Len(d.heap)
    BY <2>1 DEF Refs
  <2>3. QED
    BY <1>1, <2>1, <2>2
<1>3. \A i \in 1 .. N - 1 : rank[refs[i + 1]] < rank[refs[i]]
  <2>1. ASSUME NEW i \in 1 .. N - 1 PROVE rank[refs[i + 1]] < rank[refs[i]]
    <3>1. d.heap[refs[i]].right = refs[i + 1]
      BY DEF Follows
    <3>2. i \in 1 .. N
      BY <1>1
    <3>3. refs[i] \in Refs(d)
      BY <1>1, <3>2
    <3>4. rank[d.heap[refs[i]].right] < rank[refs[i]]
      BY <3>3 DEF Ranked
    <3>5. QED
      BY <3>1, <3>4
  <2>2. QED
    BY <2>1
<1> HIDE DEF N
<1> DEFINE Below == { j \in Nat : j <= N => \A i \in 1 .. N : i < j => rank[refs[j]] < rank[refs[i]] }
<1>4. \A j \in Nat : j \in Below
  <2>1. 0 \in Below
    OBVIOUS
  <2>2. ASSUME NEW j \in Nat, j \in Below PROVE j + 1 \in Below
    <3>1. SUFFICES ASSUME j + 1 <= N, NEW i \in 1 .. N, i < j + 1 PROVE rank[refs[j + 1]] < rank[refs[i]]
      OBVIOUS
    <3>2. j \in 1 .. N - 1 /\ j \in 1 .. N /\ j + 1 \in 1 .. N
      BY <1>1, <3>1
    <3>3. rank[refs[j + 1]] < rank[refs[j]]
      BY <1>3, <3>2
    <3>4. CASE i = j
      BY <3>3, <3>4
    <3>5. CASE i # j
      <4>1. i < j
        BY <3>1, <3>5
      <4>2. rank[refs[j]] < rank[refs[i]]
        BY <1>1, <2>2, <3>2, <4>1
      <4>3. rank[refs[j + 1]] \in Nat /\ rank[refs[j]] \in Nat /\ rank[refs[i]] \in Nat
        BY <1>2, <3>1, <3>2
      <4>4. QED
        BY <3>3, <4>2, <4>3
    <3>6. QED
      BY <3>4, <3>5
  <2> HIDE DEF Below
  <2>3. QED
    BY <2>1, <2>2, Induction
<1>5. QED
  BY <1>1, <1>4 DEF N

\* There is one way to follow the pointers from an item.
LEMMA FollowsPrefix ==
  ASSUME NEW d, NEW first, NEW X, Nil \notin X,
         NEW s, Follows(d, first, s, X), NEW t, Follows(d, first, t, X)
  PROVE  Len(s) <= Len(t) /\ \A i \in 1 .. Len(s) : s[i] = t[i]
<1>1. /\ s \in Seq(X) /\ t \in Seq(X) /\ Len(s) \in Nat /\ Len(t) \in Nat
      /\ \A i \in 1 .. Len(s) : s[i] \in X
  BY DEF Follows
<1> DEFINE Good == { n \in Nat : n <= Len(s) => n <= Len(t) /\ (n > 0 => s[n] = t[n]) }
<1>2. 0 \in Good
  BY <1>1
<1>3. ASSUME NEW n \in Nat, n \in Good PROVE n + 1 \in Good
  <2>1. SUFFICES ASSUME n + 1 <= Len(s) PROVE n + 1 <= Len(t) /\ s[n + 1] = t[n + 1]
    OBVIOUS
  <2>2. CASE n = 0
    <3>1. s # <<>> /\ Len(s) > 0
      BY <1>1, <2>1, <2>2
    <3>2. first # Nil /\ s[1] = first
      BY <3>1 DEF Follows
    <3>3. Len(t) > 0 /\ t[1] = first
      BY <3>2 DEF Follows
    <3>4. QED
      BY <1>1, <2>2, <3>2, <3>3
  <2>3. CASE n # 0
    <3>1. n \in 1 .. Len(s) - 1 /\ n <= Len(t) /\ s[n] = t[n]
      BY <1>1, <1>3, <2>1, <2>3
    <3>2. d.heap[s[n]].right = s[n + 1] /\ s[n + 1] # Nil
      <4>1. n + 1 \in 1 .. Len(s)
        BY <1>1, <2>1
      <4>2. QED
        BY <1>1, <3>1, <4>1 DEF Follows
    <3>3. n # Len(t)
      BY <1>1, <2>3, <3>1, <3>2 DEF Follows
    <3>4. n \in 1 .. Len(t) - 1
      BY <1>1, <3>1, <3>3
    <3>5. d.heap[t[n]].right = t[n + 1]
      BY <3>4 DEF Follows
    <3>6. QED
      BY <1>1, <3>1, <3>2, <3>4, <3>5
  <2>4. QED
    BY <2>2, <2>3
<1>4. \A n \in Nat : n \in Good
  <2> HIDE DEF Good
  <2> QED BY <1>2, <1>3, Induction
<1>5. Len(s) \in Good
  BY <1>1, <1>4
<1>6. \A i \in 1 .. Len(s) : i \in Good /\ i > 0 /\ i <= Len(s)
  BY <1>1, <1>4
<1>7. QED
  BY <1>1, <1>5, <1>6

LEMMA FollowsOnce ==
  ASSUME NEW d, NEW first, NEW X, Nil \notin X,
         NEW s, Follows(d, first, s, X), NEW t, Follows(d, first, t, X)
  PROVE  s = t
<1>1. Len(s) <= Len(t) /\ Len(t) <= Len(s) /\ \A i \in 1 .. Len(s) : s[i] = t[i]
  BY FollowsPrefix
<1>2. s \in Seq(X) /\ t \in Seq(X) /\ Len(s) \in Nat /\ Len(t) \in Nat
  BY DEF Follows
<1>3. Len(s) = Len(t)
  BY <1>1, <1>2
<1>4. QED
  BY <1>1, <1>2, <1>3, SeqEqual

\* What follows the pointers among some items follows them among more.
LEMMA FollowsWider ==
  ASSUME NEW d, NEW first, NEW X, NEW Y, X \subseteq Y, NEW s, Follows(d, first, s, X)
  PROVE  Follows(d, first, s, Y)
<1>1. s \in Seq(Y)
  BY DEF Follows
<1>2. QED
  BY <1>1 DEF Follows

\* The row of a list is its chain, in which no item stands twice.
LEMMA RowFollows ==
  ASSUME NEW d, Sound(d), NEW l \in List
  PROVE  /\ Follows(d, d.start[l], Row(d, l), OfList(d, l))
         /\ Row(d, l) \in Seq(OfList(d, l)) /\ Row(d, l) \in Seq(Refs(d))
         /\ Len(Row(d, l)) \in Nat
         /\ \A i \in 1 .. Len(Row(d, l)) : Row(d, l)[i] \in OfList(d, l) /\ Row(d, l)[i] \in Refs(d)
         /\ Distinct(Row(d, l))
<1> DEFINE X == OfList(d, l)
           first == d.start[l]
           refs == Row(d, l)
<1>1. d \in Docs /\ Listed(d)
  BY DEF Sound, Whole
<1>2. PICK rank : Ranked(d, rank)
  BY DEF Sound
<1>3. X \subseteq Refs(d) /\ \A k \in X : d.heap[k].right \in {Nil} \cup X
  BY <1>1 DEF Listed, OfList
<1>4. first \in {Nil} \cup X
  BY <1>1 DEF Listed, OfList
<1> HIDE DEF X, first
<1>5. Follows(d, first, chain(d, first), X)
  BY <1>1, <1>2, <1>3, <1>4, chainFollows
<1>6. refs = chain(d, first)
  BY DEF Row, first
<1> HIDE DEF refs
<1>7. \A i, j \in 1 .. Len(refs) : i < j => rank[refs[j]] < rank[refs[i]]
  BY <1>1, <1>2, <1>3, <1>5, <1>6, FollowsRanked
<1>8. refs \in Seq(X) /\ Len(refs) \in Nat /\ \A i \in 1 .. Len(refs) : refs[i] \in X
  BY <1>5, <1>6 DEF Follows
<1>9. refs \in Seq(Refs(d)) /\ \A i \in 1 .. Len(refs) : refs[i] \in Refs(d)
  BY <1>3, <1>8
<1>10. \A k \in Refs(d) : rank[k] \in Nat
  <2>1. Len(d.heap) \in Nat
    BY <1>1, DocFields
  <2>2. \A k \in Refs(d) : k \in 0 .. Len(d.heap)
    BY <2>1 DEF Refs
  <2>3. QED
    BY <1>2, <2>2 DEF Ranked
<1>11. Distinct(refs)
  <2>1. ASSUME NEW i \in 1 .. Len(refs), NEW j \in 1 .. Len(refs), refs[i] = refs[j], i # j PROVE FALSE
    <3>1. i < j \/ j < i
      BY <1>8, <2>1
    <3>2. rank[refs[i]] \in Nat /\ rank[refs[j]] \in Nat
      BY <1>9, <1>10
    <3>3. QED
      BY <1>7, <2>1, <3>1, <3>2
  <2>2. QED
    BY <2>1 DEF Distinct
<1>12. QED
  BY <1>5, <1>6, <1>8, <1>9, <1>11 DEF refs, first, X

LEMMA NilIsNoRef ==
  ASSUME NEW d
  PROVE  Nil \notin Refs(d)
BY DEF Nil, Refs

\* Whatever follows the pointers from the first item of a list is its row.
LEMMA RowOnce ==
  ASSUME NEW d, Sound(d), NEW l \in List, NEW s, Follows(d, d.start[l], s, Refs(d))
  PROVE  s = Row(d, l)
<1> DEFINE first == d.start[l]
           r == Row(d, l)
<1>1. Follows(d, first, r, OfList(d, l)) /\ OfList(d, l) \subseteq Refs(d)
  BY RowFollows DEF OfList
<1> HIDE DEF first, r
<1>2. Follows(d, first, r, Refs(d))
  BY <1>1, FollowsWider
<1>3. s = r
  BY <1>2, NilIsNoRef, FollowsOnce DEF first
<1>4. QED
  BY <1>3 DEF r

\* A list whose pointers stay is the same.
LEMMA SameRow ==
  ASSUME NEW d, Sound(d), NEW e, Sound(e), NEW l \in List,
         e.start[l] = d.start[l], Refs(d) \subseteq Refs(e),
         \A k \in OfList(d, l) : e.heap[k].right = d.heap[k].right
  PROVE  Row(e, l) = Row(d, l)
<1> DEFINE s == Row(d, l)
           X == OfList(d, l)
<1>1. Follows(d, d.start[l], s, X) /\ s \in Seq(X) /\ s \in Seq(Refs(d)) /\ \A i \in 1 .. Len(s) : s[i] \in X
  BY RowFollows
<1>2. s \in Seq(Refs(e)) /\ Len(s) \in Nat
  BY <1>1
<1> HIDE DEF s, X
<1>3. \A i \in 1 .. Len(s) - 1 : e.heap[s[i]].right = s[i + 1]
  <2>1. \A i \in 1 .. Len(s) - 1 : i \in 1 .. Len(s)
    BY <1>2
  <2>2. QED
    BY <1>1, <2>1 DEF Follows, X
<1>4. Len(s) > 0 => e.heap[s[Len(s)]].right = Nil
  <2>1. Len(s) > 0 => Len(s) \in 1 .. Len(s)
    BY <1>2
  <2>2. QED
    BY <1>1, <2>1 DEF Follows, X
<1>5. Follows(e, e.start[l], s, Refs(e))
  BY <1>1, <1>2, <1>3, <1>4 DEF Follows
<1>6. QED
  BY <1>5, RowOnce DEF s

\* from and to are what is before and after the place p of a sequence.
IsSlot(s, p, from, to) ==
    /\ p \in 0 .. Len(s)
    /\ from = IF p = 0 THEN Nil ELSE s[p]
    /\ to = IF p = Len(s) THEN Nil ELSE s[p + 1]

\* An item that is linked at a place of a row stands there, and no other row changes.
LEMMA LinkedRow ==
  ASSUME NEW d, Sound(d), NEW e, Sound(e), NEW x, x.list \in List, NEW from, NEW to,
         Linked(d, e, x, from, to), NEW p, IsSlot(Row(d, x.list), p, from, to)
  PROVE  /\ PutIn(Row(d, x.list), Row(e, x.list), p, Len(d.heap) + 1)
         /\ \A l \in List : l # x.list => Row(e, l) = Row(d, l)
<1> DEFINE l == x.list
           n == Len(d.heap) + 1
           s == Row(d, l)
           N == Len(s)
           t == [i \in 1 .. N + 1 |-> IF i <= p THEN s[i] ELSE IF i = p + 1 THEN n ELSE s[i - 1]]
<1>1. /\ s \in Seq(Refs(d)) /\ N \in Nat /\ (\A i \in 1 .. N : s[i] \in Refs(d) /\ s[i] \in OfList(d, l))
      /\ Distinct(s) /\ Follows(d, d.start[l], s, OfList(d, l))
  BY RowFollows
<1>2. /\ Len(d.heap) \in Nat /\ Len(e.heap) = n /\ Refs(e) = Refs(d) \cup {n} /\ n \notin Refs(d) /\ n # Nil
      /\ Refs(d) \subseteq Refs(e)
  <2>1. Len(d.heap) \in Nat /\ Len(e.heap) = n
    BY DocFields DEF Sound, Whole, Linked, Grows
  <2>2. QED
    BY <2>1 DEF Refs, Nil
<1>3. /\ e.heap[n].right = to
      /\ \A k \in Refs(d) : e.heap[k].right = IF k = from THEN n ELSE d.heap[k].right
      /\ \A m \in List : e.start[m] = IF from = Nil /\ m = l THEN n ELSE d.start[m]
  BY DEF Linked
<1>4. /\ p \in 0 .. N /\ p \in Nat
      /\ from = IF p = 0 THEN Nil ELSE s[p]
      /\ to = IF p = N THEN Nil ELSE s[p + 1]
  BY <1>1 DEF IsSlot
<1> HIDE DEF n
<1>5. /\ Len(t) = N + 1 /\ t[p + 1] = n /\ (\A i \in 1 .. p : t[i] = s[i])
      /\ \A i \in p + 1 .. N : t[i + 1] = s[i]
  <2> HIDE DEF s
  <2>1. DOMAIN t = 1 .. N + 1 /\ Len(t) = N + 1
    BY <1>1
  <2>2. t[p + 1] = n /\ (\A i \in 1 .. p : t[i] = s[i])
    BY <1>1, <1>4
  <2>3. \A i \in p + 1 .. N : t[i + 1] = s[i]
    BY <1>1, <1>4
  <2>4. QED
    BY <2>1, <2>2, <2>3
<1>6. t \in Seq(Refs(e))
  <2> HIDE DEF s
  <2>1. \A i \in 1 .. N + 1 : t[i] \in Refs(e)
    <3>1. ASSUME NEW i \in 1 .. N + 1 PROVE t[i] \in Refs(e)
      <4>1. CASE i <= p
        BY <1>1, <1>2, <1>4, <4>1
      <4>2. CASE i = p + 1
        BY <1>2, <1>4, <4>2
      <4>3. CASE ~(i <= p) /\ i # p + 1
        <5>1. i - 1 \in 1 .. N
          BY <1>1, <1>4, <4>3
        <5>2. QED
          BY <1>1, <1>2, <4>3, <5>1
      <4>4. QED
        BY <4>1, <4>2, <4>3
    <3>2. QED
      BY <3>1
  <2>2. QED
    BY <1>1, <2>1
<1> HIDE DEF t
<1>7. \A i \in 1 .. N : s[i] = from <=> i = p
  <2>1. \A i \in 1 .. N : s[i] # Nil
    BY <1>1, NilIsNoRef
  <2>2. p # 0 => p \in 1 .. N
    BY <1>1, <1>4
  <2> HIDE DEF s
  <2>3. QED
    BY <1>1, <1>4, <2>1, <2>2 DEF Distinct
<1>8. /\ \A i \in 1 .. N : i # p => e.heap[s[i]].right = d.heap[s[i]].right
      /\ p # 0 => e.heap[s[p]].right = n
  <2>1. p # 0 => p \in 1 .. N
    BY <1>1, <1>4
  <2> HIDE DEF s
  <2>2. QED
    BY <1>1, <1>3, <1>7, <2>1
<1>9. /\ \A i \in 1 .. N - 1 : d.heap[s[i]].right = s[i + 1]
      /\ N > 0 => d.heap[s[N]].right = Nil /\ d.start[l] = s[1]
  <2>1. /\ \A i \in 1 .. N - 1 : d.heap[s[i]].right = s[i + 1]
        /\ N > 0 => d.heap[s[N]].right = Nil
    BY <1>1 DEF Follows
  <2>2. N > 0 => s # <<>>
    OBVIOUS
  <2>3. N > 0 => d.start[l] = s[1]
    BY <1>1, <2>2 DEF Follows
  <2>4. QED
    BY <2>1, <2>3
<1> HIDE DEF s, N
<1>10. Follows(e, e.start[l], t, Refs(e))
  <2>1. e.start[l] # Nil /\ t[1] = e.start[l]
    <3>1. CASE p = 0
      <4>1. from = Nil /\ e.start[l] = n /\ t[1] = n
        BY <1>3, <1>4, <1>5, <3>1
      <4>2. QED
        BY <1>2, <4>1
    <3>2. CASE p # 0
      <4>1. 1 \in 1 .. p /\ N > 0 /\ p \in 1 .. N /\ 1 \in 1 .. N
        BY <1>1, <1>4, <3>2
      <4>2. from # Nil
        BY <1>1, <1>4, <3>2, <4>1, NilIsNoRef
      <4>3. e.start[l] = s[1] /\ s[1] # Nil /\ t[1] = s[1]
        BY <1>1, <1>3, <1>5, <1>9, <4>1, <4>2, NilIsNoRef
      <4>4. QED
        BY <4>3
    <3>3. QED
      BY <3>1, <3>2
  <2>2. ASSUME NEW i \in 1 .. N PROVE e.heap[t[i]].right = t[i + 1]
    <3>1. CASE i < p
      <4>1. t[i] = s[i] /\ t[i + 1] = s[i + 1] /\ i \in 1 .. N - 1 /\ i # p
        <5>1. i \in 1 .. p /\ i + 1 \in 1 .. p /\ i \in 1 .. N - 1 /\ i # p
          BY <1>1, <1>4, <3>1
        <5>2. QED
          BY <1>5, <5>1
      <4>2. QED
        BY <1>8, <1>9, <4>1
    <3>2. CASE i = p
      <4>1. t[i] = s[p] /\ p # 0
        <5>1. i \in 1 .. p
          BY <3>2
        <5>2. QED
          BY <1>5, <3>2, <5>1
      <4>2. QED
        BY <1>5, <1>8, <3>2, <4>1
    <3>3. CASE i = p + 1
      <4>1. i \in p + 1 .. N /\ p # N
        BY <1>1, <1>4, <3>3
      <4>2. t[i + 1] = s[i] /\ t[i] = n /\ to = s[i]
        BY <1>4, <1>5, <3>3, <4>1
      <4>3. QED
        BY <1>3, <4>2
    <3>4. CASE i > p + 1
      <4> DEFINE j == i - 1
      <4>1. j \in 1 .. N - 1 /\ j # p /\ j \in p + 1 .. N /\ i \in p + 1 .. N /\ j + 1 = i /\ j \in 1 .. N
        BY <1>1, <1>4, <3>4
      <4>2. t[j + 1] = s[j] /\ t[i + 1] = s[i]
        BY <1>5, <4>1
      <4> HIDE DEF j
      <4>3. e.heap[s[j]].right = s[j + 1]
        BY <1>8, <1>9, <4>1
      <4>4. QED
        BY <4>1, <4>2, <4>3
    <3>5. QED
      BY <1>1, <1>4, <3>1, <3>2, <3>3, <3>4
  <2>3. e.heap[t[N + 1]].right = Nil
    <3>1. CASE p = N
      BY <1>3, <1>4, <1>5, <3>1
    <3>2. CASE p # N
      <4>1. N \in p + 1 .. N /\ N \in 1 .. N /\ N > 0
        BY <1>1, <1>4, <3>2
      <4>2. t[N + 1] = s[N]
        BY <1>5, <4>1
      <4>3. e.heap[s[N]].right = Nil
        BY <1>8, <1>9, <3>2, <4>1
      <4>4. QED
        BY <4>2, <4>3
    <3>3. QED
      BY <3>1, <3>2
  <2>4. Len(t) > 0 /\ Len(t) - 1 = N
    BY <1>1, <1>5
  <2>5. QED
    BY <1>5, <1>6, <2>1, <2>2, <2>3, <2>4 DEF Follows
<1>11. t = Row(e, l)
  BY <1>10, RowOnce
<1>12. PutIn(s, t, p, n)
  BY <1>4, <1>5 DEF PutIn, N
<1>13. ASSUME NEW m \in List, m # l PROVE Row(e, m) = Row(d, m)
  <2>1. e.start[m] = d.start[m]
    BY <1>3, <1>13
  <2>2. from = Nil \/ d.heap[from].list = l
    <3>1. p # 0 => p \in 1 .. N
      BY <1>1, <1>4
    <3>2. QED
      BY <1>1, <1>4, <3>1 DEF OfList
  <2>3. \A k \in OfList(d, m) : k \in Refs(d) /\ k # from
    <3>1. \A k \in OfList(d, m) : k \in Refs(d) /\ d.heap[k].list = m /\ k # Nil
      BY NilIsNoRef DEF OfList
    <3>2. QED
      BY <1>13, <2>2, <3>1
  <2>4. \A k \in OfList(d, m) : e.heap[k].right = d.heap[k].right
    BY <1>3, <2>3
  <2>5. QED
    BY <1>2, <2>1, <2>4, SameRow
<1>14. QED
  BY <1>11, <1>12, <1>13 DEF s, n

\* cands is what comes in the row after its first b items, the last of which is left.
Rest(d, l, left, cands, b) ==
    /\ b \in 0 .. Len(Row(d, l))
    /\ left = Nil => b = 0
    /\ left # Nil => b > 0 /\ Row(d, l)[b] = left
    /\ Len(cands) = Len(Row(d, l)) - b
    /\ \A i \in 1 .. Len(cands) : cands[i] = Row(d, l)[b + i]

\* What follows an item of a row is the rest of the row.
LEMMA FollowsRest ==
  ASSUME NEW d, Sound(d), NEW l \in List, NEW left, left # Nil => Has(Row(d, l), left),
         NEW first, first = IF left = Nil THEN d.start[l] ELSE d.heap[left].right,
         NEW cands, Follows(d, first, cands, OfList(d, l))
  PROVE  \E b : Rest(d, l, left, cands, b)
<1> DEFINE s == Row(d, l)
           N == Len(s)
           X == OfList(d, l)
<1>1. /\ s \in Seq(X) /\ N \in Nat /\ (\A i \in 1 .. N : s[i] \in X)
      /\ Follows(d, d.start[l], s, X) /\ Nil \notin X
  BY RowFollows, NilIsNoRef DEF OfList
<1>2. PICK b \in 0 .. N : (left = Nil => b = 0) /\ (left # Nil => b > 0 /\ s[b] = left)
  <2>1. CASE left = Nil
    BY <1>1, <2>1
  <2>2. CASE left # Nil
    <3>1. PICK i \in 1 .. N : s[i] = left
      BY <2>2 DEF Has
    <3>2. i \in 0 .. N /\ i > 0
      BY <1>1
    <3>3. QED
      BY <2>2, <3>1, <3>2
  <2>3. QED
    BY <2>1, <2>2
<1> DEFINE u == [i \in 1 .. N - b |-> s[b + i]]
<1>3. u \in Seq(X) /\ Len(u) = N - b /\ \A i \in 1 .. N - b : u[i] = s[b + i]
  <2> HIDE DEF s, N, X
  <2>1. \A i \in 1 .. N - b : b + i \in 1 .. N
    BY <1>1
  <2>2. N - b \in Nat
    BY <1>1
  <2>3. QED
    BY <1>1, <2>1, <2>2
<1>4. /\ \A i \in 1 .. N - 1 : d.heap[s[i]].right = s[i + 1]
      /\ N > 0 => d.heap[s[N]].right = Nil /\ d.start[l] = s[1]
      /\ N = 0 => d.start[l] = Nil
  <2>1. /\ \A i \in 1 .. N - 1 : d.heap[s[i]].right = s[i + 1]
        /\ N > 0 => d.heap[s[N]].right = Nil
    BY <1>1 DEF Follows
  <2>2. N > 0 => s # <<>>
    OBVIOUS
  <2>3. N > 0 => d.start[l] = s[1]
    BY <1>1, <2>2 DEF Follows
  <2>4. N = 0 => d.start[l] = Nil
    BY <1>1 DEF Follows
  <2>5. QED
    BY <2>1, <2>3, <2>4
<1> HIDE DEF u, s, N, X
<1>5. Follows(d, first, u, X)
  <2>1. first = IF b = N THEN Nil ELSE s[b + 1]
    <3>1. CASE left = Nil
      BY <1>1, <1>2, <1>4, <3>1
    <3>2. CASE left # Nil
      <4>1. b \in 1 .. N /\ s[b] = left /\ first = d.heap[s[b]].right
        BY <1>1, <1>2, <3>2
      <4>2. b # N => b \in 1 .. N - 1
        BY <1>1, <4>1
      <4>3. QED
        BY <1>1, <1>4, <4>1, <4>2
    <3>3. QED
      BY <3>1, <3>2
  <2>2. b # N => s[b + 1] # Nil /\ u[1] = s[b + 1] /\ Len(u) > 0
    <3>1. SUFFICES ASSUME b # N PROVE s[b + 1] # Nil /\ u[1] = s[b + 1] /\ Len(u) > 0
      OBVIOUS
    <3>2. b + 1 \in 1 .. N /\ 1 \in 1 .. N - b /\ N - b > 0
      BY <1>1, <1>2, <3>1
    <3>3. QED
      BY <1>1, <1>3, <3>2
  <2>3. b = N => u = <<>>
    BY <1>1, <1>3
  <2>4. ASSUME NEW i \in 1 .. Len(u) - 1 PROVE d.heap[u[i]].right = u[i + 1]
    <3>0. i \in 1 .. (N - b) - 1 /\ b \in 0 .. N /\ N \in Nat
      BY <1>1, <1>3
    <3>1. i \in 1 .. N - b /\ i + 1 \in 1 .. N - b /\ b + i \in 1 .. N - 1 /\ b + (i + 1) = (b + i) + 1
      BY <3>0
    <3>2. QED
      BY <1>3, <1>4, <3>1
  <2>5. Len(u) > 0 => d.heap[u[Len(u)]].right = Nil
    <3>1. SUFFICES ASSUME Len(u) > 0 PROVE d.heap[u[Len(u)]].right = Nil
      OBVIOUS
    <3>2. N - b \in 1 .. N - b /\ b + (N - b) = N /\ N > 0
      BY <1>1, <1>2, <1>3, <3>1
    <3>3. QED
      BY <1>3, <1>4, <3>2
  <2>6. QED
    BY <1>3, <2>1, <2>2, <2>3, <2>4, <2>5 DEF Follows
<1>6. u = cands
  BY <1>1, <1>5, FollowsOnce DEF X
<1>7. Rest(d, l, left, cands, b)
  BY <1>2, <1>3, <1>6 DEF Rest, s, N
<1>8. QED
  BY <1>7

\* A slot among them is a slot of the row.
LEMMA SlotOfRest ==
  ASSUME NEW d, Sound(d), NEW l \in List, NEW left, NEW cands, NEW b, Rest(d, l, left, cands, b),
         NEW at \in 0 .. Len(cands), NEW prev, NEW from, NEW to, Slot(cands, left, at, prev, from, to)
  PROVE  IsSlot(Row(d, l), b + prev, from, to) /\ prev \in Nat
<1> DEFINE s == Row(d, l)
           N == Len(s)
<1>1. N \in Nat
  BY RowFollows
<1>2. /\ b \in 0 .. N /\ (left = Nil => b = 0) /\ (left # Nil => b > 0 /\ s[b] = left)
      /\ Len(cands) = N - b /\ \A i \in 1 .. N - b : cands[i] = s[b + i]
  BY DEF Rest
<1> HIDE DEF s, N
<1>3. prev \in 0 .. N - b /\ prev = IF at = 0 THEN N - b ELSE at - 1
  BY <1>1, <1>2 DEF Slot
<1>4. from = IF b + prev = 0 THEN Nil ELSE s[b + prev]
  <2>1. CASE prev = 0
    BY <1>1, <1>2, <2>1 DEF Slot
  <2>2. CASE prev # 0
    <3>1. prev \in 1 .. N - b /\ b + prev # 0
      BY <1>1, <1>2, <1>3, <2>2
    <3>2. QED
      BY <1>2, <2>2, <3>1 DEF Slot
  <2>3. QED
    BY <2>1, <2>2
<1>5. to = IF b + prev = N THEN Nil ELSE s[b + prev + 1]
  <2>1. CASE at = 0
    BY <1>1, <1>2, <1>3, <2>1 DEF Slot
  <2>2. CASE at # 0
    <3>1. at \in 1 .. N - b /\ prev = at - 1 /\ b + prev # N /\ b + prev + 1 = b + at
      BY <1>1, <1>2, <1>3, <2>2
    <3>2. QED
      BY <1>2, <2>2, <3>1 DEF Slot
  <2>3. QED
    BY <2>1, <2>2
<1>6. b + prev \in 0 .. N
  BY <1>1, <1>2, <1>3
<1>7. QED
  BY <1>3, <1>4, <1>5, <1>6 DEF IsSlot, s, N

\* The rows that an item is not linked in stay.
LEMMA OtherRows ==
  ASSUME NEW d, Sound(d), NEW e, Sound(e), NEW x, x.list \in List,
         NEW from \in {Nil} \cup OfList(d, x.list), NEW to, Linked(d, e, x, from, to),
         NEW l \in List, l # x.list
  PROVE  Row(e, l) = Row(d, l)
<1>1. Refs(d) \subseteq Refs(e)
  <2>1. Len(d.heap) \in Nat /\ Len(e.heap) = Len(d.heap) + 1
    BY DocFields DEF Sound, Whole, Linked, Grows
  <2>2. QED
    BY <2>1 DEF Refs
<1>2. e.start[l] = d.start[l]
  BY DEF Linked
<1>3. \A k \in OfList(d, l) : k \in Refs(d) /\ k # from
  <2>1. \A k \in OfList(d, l) : k \in Refs(d) /\ d.heap[k].list = l /\ k # Nil
    BY NilIsNoRef DEF OfList
  <2>2. from = Nil \/ d.heap[from].list = x.list
    BY DEF OfList
  <2>3. QED
    BY <2>1, <2>2
<1>4. \A k \in OfList(d, l) : e.heap[k].right = d.heap[k].right
  BY <1>3 DEF Linked
<1>5. QED
  BY <1>1, <1>2, <1>4, SameRow

-----------------------------------------------------------------------------
(***************************************************************************)
(* Documents in order.                                                     *)
(***************************************************************************)
\* An item of an Array or a Text is in its row, to the right of the item it was put
\* after; an item that names a list has one.
OrderedAt(d, k) ==
    LET it == d.heap[k]
    IN  /\ it.list \in List \ Key => Has(Row(d, it.list), k)
        /\ it.list # NoList /\ it.oleft # NoID =>
              /\ it.list \notin Key
              /\ Held(d, it.oleft)
              /\ Leads(Row(d, it.list), RefOf(d, it.oleft), k)
        /\ it.oleft = NoID => it.list # NoList

Ordered(d) == \A k \in Refs(d) : OrderedAt(d, k)

\* No Array or Text of e has less than in d, or in another order.
Broadens(d, e) == \A l \in List \ Key : Widens(Row(d, l), Row(e, l))

\* The items of a document stay in order when its rows widen.
LEMMA OldOrdered ==
  ASSUME NEW d, Sound(d), Ordered(d), NEW e, Sound(e), Extends(d, e), Broadens(d, e), NEW k \in Refs(d)
  PROVE  OrderedAt(e, k)
<1> DEFINE a == d.heap[k]
           b == e.heap[k]
           o == a.oleft
<1>1. a.list = b.list /\ a.oleft = b.oleft /\ a \in ItemType
  BY DocFields DEF Extends, SameItem, Sound, Whole
<1>2. ASSUME a.list \in List \ Key
      PROVE  /\ \A j : Has(Row(d, a.list), j) => Has(Row(e, a.list), j)
             /\ \A i, j : Leads(Row(d, a.list), i, j) => Leads(Row(e, a.list), i, j)
  <2> DEFINE s == Row(d, a.list)
             t == Row(e, a.list)
             E == Refs(d) \cup Refs(e)
  <2>1. s \in Seq(Refs(d)) /\ t \in Seq(Refs(e)) /\ Widens(s, t)
    BY <1>2, RowFollows DEF Broadens
  <2> HIDE DEF s, t
  <2>2. s \in Seq(E) /\ t \in Seq(E)
    BY <2>1
  <2> HIDE DEF E
  <2>3. /\ \A j : Has(s, j) => Has(t, j)
        /\ \A i, j : Leads(s, i, j) => Leads(t, i, j)
    BY <2>1, <2>2, WidensLeads
  <2>4. QED
    BY <2>3 DEF s, t
<1>3. OrderedAt(d, k)
  BY DEF Ordered
<1>4. ASSUME a.list # NoList, a.oleft # NoID
      PROVE  a.list \notin Key /\ Held(e, o) /\ Leads(Row(e, a.list), RefOf(e, o), k)
  <2>1. a.list \in List \ Key /\ Held(d, o) /\ Leads(Row(d, a.list), RefOf(d, o), k) /\ o \in IdType
    BY <1>1, <1>3, <1>4, ItemFields DEF OrderedAt
  <2>2. Held(e, o) /\ RefOf(e, o) = RefOf(d, o)
    BY <2>1, ExtendsKeeps DEF Sound
  <2>3. QED
    BY <1>2, <2>1, <2>2
<1>5. a.list \in List \ Key => Has(Row(e, a.list), k)
  BY <1>2, <1>3 DEF OrderedAt
<1>6. a.oleft = NoID => a.list # NoList
  BY <1>3 DEF OrderedAt
<1> HIDE DEF a, b
<1>7. QED
  BY <1>1, <1>4, <1>5, <1>6 DEF OrderedAt, b

\* Where no list changes, every row widens.
LEMMA SameBroadens ==
  ASSUME NEW d, Sound(d), NEW e, \A l \in List \ Key : Row(e, l) = Row(d, l)
  PROVE  Broadens(d, e)
<1>1. ASSUME NEW l \in List \ Key PROVE Widens(Row(d, l), Row(e, l))
  <2>1. Row(d, l) \in Seq(Refs(d)) /\ Row(e, l) = Row(d, l)
    BY RowFollows
  <2>2. QED
    BY <2>1, WidensItself
<1>2. QED
  BY <1>1 DEF Broadens

\* Nothing changes its place where only marks of deletion change.
LEMMA MarkedOrdered ==
  ASSUME NEW d, Sound(d), Ordered(d), NEW e, Sound(e), Len(e.heap) = Len(d.heap), e.start = d.start,
         \A k \in Refs(d) : SameItem(e.heap[k], d.heap[k]) /\ e.heap[k].right = d.heap[k].right
  PROVE  /\ Ordered(e) /\ Broadens(d, e)
         /\ \A l \in List : Row(e, l) = Row(d, l)
<1>1. Refs(e) = Refs(d)
  BY DEF Refs
<1>2. Extends(d, e)
  <2>1. Len(d.heap) \in Nat
    BY DocFields DEF Sound, Whole
  <2>2. QED
    BY <2>1 DEF Extends
<1>3. ASSUME NEW l \in List PROVE Row(e, l) = Row(d, l)
  <2>1. \A k \in OfList(d, l) : k \in Refs(d)
    BY DEF OfList
  <2>2. QED
    BY <1>1, <2>1, SameRow
<1>4. Broadens(d, e)
  BY <1>3, SameBroadens
<1>5. Ordered(e)
  <2>1. ASSUME NEW k \in Refs(d) PROVE OrderedAt(e, k)
    BY <1>2, <1>4, OldOrdered
  <2>2. QED
    BY <1>1, <2>1 DEF Ordered
<1>6. QED
  BY <1>3, <1>4, <1>5

\* An item that takes a place in a row stays in order, if it is to the right of the item
\* it was put after.
LEMMA LinkedOrdered ==
  ASSUME NEW d, Sound(d), Ordered(d), NEW e, Sound(e), NEW x \in ItemType, x.list \in List \ Key,
         NEW from, NEW to, Linked(d, e, x, from, to), NEW p, IsSlot(Row(d, x.list), p, from, to),
         x.oleft # NoID => Held(d, x.oleft) /\ \E i \in 1 .. p : Row(d, x.list)[i] = RefOf(d, x.oleft)
  PROVE  Ordered(e) /\ Broadens(d, e)
<1> DEFINE n == Len(d.heap) + 1
           l == x.list
           s == Row(d, l)
           t == Row(e, l)
<1>1. /\ Len(d.heap) \in Nat /\ Refs(e) = Refs(d) \cup {n} /\ Refs(d) \subseteq Refs(e)
      /\ SameItem(e.heap[n], x) /\ Extends(d, e)
  <2>1. Len(d.heap) \in Nat /\ Len(e.heap) = n /\ SameItem(e.heap[n], x)
    BY DocFields DEF Sound, Whole, Linked, Grows
  <2>2. \A k \in Refs(d) : SameItem(e.heap[k], d.heap[k])
    BY DEF Linked, Grows
  <2>3. QED
    BY <2>1, <2>2 DEF Refs, Extends
<1>2. PutIn(s, t, p, n) /\ \A m \in List : m # l => Row(e, m) = Row(d, m)
  BY LinkedRow
<1>3. s \in Seq(Refs(e)) /\ t \in Seq(Refs(e)) /\ Len(s) \in Nat
  <2>1. s \in Seq(Refs(d)) /\ t \in Seq(Refs(e)) /\ Len(s) \in Nat
    BY RowFollows
  <2>2. QED
    BY <1>1, <2>1
<1> HIDE DEF s, t, n
<1>4. /\ Widens(s, t) /\ Has(t, n)
      /\ \A i \in 1 .. p : Leads(t, s[i], n)
  BY <1>2, <1>3, PutInKeeps
<1>5. Broadens(d, e)
  <2>1. ASSUME NEW m \in List \ Key PROVE Widens(Row(d, m), Row(e, m))
    <3>1. CASE m = l
      BY <1>4, <3>1 DEF s, t
    <3>2. CASE m # l
      <4>1. Row(d, m) \in Seq(Refs(d)) /\ Row(e, m) = Row(d, m)
        BY <1>2, <3>2, RowFollows
      <4>2. QED
        BY <4>1, WidensItself
    <3>3. QED
      BY <3>1, <3>2
  <2>2. QED
    BY <2>1 DEF Broadens
<1>6. OrderedAt(e, n)
  <2> DEFINE b == e.heap[n]
  <2>1. b.list = x.list /\ b.oleft = x.oleft /\ b.list # NoList
    BY <1>1, ListAssumption DEF SameItem
  <2>2. ASSUME x.oleft # NoID
        PROVE  Held(e, x.oleft) /\ Leads(t, RefOf(e, x.oleft), n)
    <3>1. x.oleft \in IdType
      BY <2>2, ItemFields
    <3>2. Held(e, x.oleft) /\ RefOf(e, x.oleft) = RefOf(d, x.oleft)
      BY <1>1, <2>2, <3>1, ExtendsKeeps DEF Sound
    <3>3. PICK i \in 1 .. p : s[i] = RefOf(d, x.oleft)
      BY <2>2 DEF s
    <3>4. QED
      BY <1>4, <3>2, <3>3
  <2> HIDE DEF b
  <2>3. QED
    BY <1>4, <2>1, <2>2 DEF OrderedAt, b, t
<1>7. ASSUME NEW k \in Refs(e) PROVE OrderedAt(e, k)
  <2>1. k \in Refs(d) \/ k = n
    BY <1>1
  <2>2. QED
    BY <1>1, <1>5, <1>6, <2>1, OldOrdered
<1>8. QED
  BY <1>5, <1>7 DEF Ordered

\* An item that is in no row leaves the rows alone.
LEMMA UnlinkedOrdered ==
  ASSUME NEW d, Sound(d), Ordered(d), NEW e, Sound(e), NEW x, Grows(d, e, x),
         x.list \notin List \ Key, x.oleft # NoID <=> x.list = NoList,
         \A l \in List \ Key : Row(e, l) = Row(d, l)
  PROVE  Ordered(e) /\ Broadens(d, e)
<1> DEFINE n == Len(d.heap) + 1
<1>1. /\ Len(d.heap) \in Nat /\ Refs(e) = Refs(d) \cup {n}
      /\ SameItem(e.heap[n], x) /\ Extends(d, e)
  <2>1. Len(d.heap) \in Nat /\ Len(e.heap) = n /\ SameItem(e.heap[n], x)
    BY DocFields DEF Sound, Whole, Grows
  <2>2. \A k \in Refs(d) : SameItem(e.heap[k], d.heap[k])
    BY DEF Grows
  <2>3. QED
    BY <2>1, <2>2 DEF Refs, Extends
<1> HIDE DEF n
<1>2. Broadens(d, e)
  BY SameBroadens
<1>3. OrderedAt(e, n)
  BY <1>1 DEF OrderedAt, SameItem
<1>4. ASSUME NEW k \in Refs(e) PROVE OrderedAt(e, k)
  <2>1. k \in Refs(d) \/ k = n
    BY <1>1
  <2>2. QED
    BY <1>1, <1>2, <1>3, <2>1, OldOrdered
<1>5. QED
  BY <1>2, <1>4 DEF Ordered

\* A remote item that names a list if it was put at the beginning of it, and an Array or
\* a Text by the item it was put after.
Places(d, it) ==
    /\ it.oleft = NoID => it.list # NoList
    /\ OriginRef(d, it.oleft) # Nil => d.heap[OriginRef(d, it.oleft)].list \notin Key

\* What integrateItem adds is in order.
LEMMA PutsOrdered ==
  ASSUME NEW d, Sound(d), Ordered(d), NEW it, Wire(it), Places(d, it), NEW e, Sound(e),
         NEW x, Puts(d, e, it, x)
  PROVE  Ordered(e) /\ Broadens(d, e)
<1> DEFINE left == OriginRef(d, it.oleft)
<1>1. /\ Fits(d, x) /\ x \in ItemType /\ x.oleft = it.oleft
      /\ x.list = IF left = Nil THEN it.list ELSE d.heap[left].list
      /\ x.list = NoList => e = addItem(d, x)
      /\ x.list # NoList => left \in {Nil} \cup OfList(d, x.list) /\ Queued(d, e, it, x, left)
  BY DEF Puts, Fits
<1>2. x.list \in List \cup {NoList} /\ Whole(d) /\ d \in Docs
  BY <1>1, ItemFields DEF Sound, Whole
<1>3. /\ it.oleft # NoID => it.list = NoList
      /\ it.oleft = NoID => it.list # NoList /\ left = Nil
  BY DEF Wire, Places, OriginRef
<1>4. CASE x.list = NoList
  <2>1. e = addItem(d, x) /\ Grows(d, e, x)
    BY <1>1, <1>2, <1>4, addItemSound
  <2>2. x.oleft # NoID
    BY <1>1, <1>3, <1>4
  <2>3. ASSUME NEW l \in List PROVE Row(e, l) = Row(d, l)
    <3>1. e.start = d.start /\ (\A k \in Refs(d) : e.heap[k] = d.heap[k]) /\ Len(e.heap) = Len(d.heap) + 1
      BY <1>1, <1>2, <2>1, addItemFields
    <3>2. Refs(d) \subseteq Refs(e)
      <4>1. Len(d.heap) \in Nat
        BY <1>2, DocFields
      <4>2. QED
        BY <3>1, <4>1 DEF Refs
    <3>3. \A k \in OfList(d, l) : e.heap[k].right = d.heap[k].right
      BY <3>1 DEF OfList
    <3>4. QED
      BY <3>1, <3>2, <3>3, SameRow
  <2>4. x.list \notin List \ Key
    BY <1>4, ListAssumption
  <2>5. QED
    BY <1>4, <2>1, <2>2, <2>3, <2>4, UnlinkedOrdered
<1>5. CASE x.list # NoList
  <2>1. x.list \in List /\ left \in {Nil} \cup OfList(d, x.list) /\ Queued(d, e, it, x, left)
    BY <1>1, <1>2, <1>5
  <2>2. PICK first, cands, at, prev, from, to :
          /\ first = IF left = Nil THEN d.start[x.list] ELSE d.heap[left].right
          /\ Follows(d, first, cands, OfList(d, x.list))
          /\ at \in 0 .. Len(cands)
          /\ Slot(cands, left, at, prev, from, to)
          /\ Linked(d, e, x, from, to)
    BY <2>1 DEF Queued
  <2>3. CASE x.list \in Key
    <3>1. left = Nil
      BY <1>1, <2>3 DEF Places
    <3>2. it.oleft = NoID
      BY <1>1, <1>3, <1>5, <3>1
    <3>3. PICK b : Rest(d, x.list, left, cands, b)
      BY <2>1, <2>2, <3>1, FollowsRest
    <3>4. IsSlot(Row(d, x.list), b + prev, from, to)
      BY <2>1, <2>2, <3>3, SlotOfRest
    <3>5. \A l \in List : l # x.list => Row(e, l) = Row(d, l)
      BY <2>1, <2>2, <3>4, LinkedRow
    <3>6. Grows(d, e, x) /\ x.list \notin List \ Key
      BY <2>2, <2>3 DEF Linked
    <3>7. \A l \in List \ Key : Row(e, l) = Row(d, l)
      BY <2>3, <3>5
    <3>8. QED
      BY <1>1, <1>5, <3>2, <3>6, <3>7, UnlinkedOrdered
  <2>4. CASE x.list \notin Key
    <3>1. left # Nil => left \in Refs(d) /\ Has(Row(d, x.list), left)
      <4>1. left # Nil => left \in Refs(d) /\ d.heap[left].list = x.list
        BY <2>1 DEF OfList
      <4>2. QED
        BY <2>1, <2>4, <4>1 DEF Ordered, OrderedAt
    <3>2. PICK b : Rest(d, x.list, left, cands, b)
      BY <2>1, <2>2, <3>1, FollowsRest
    <3>3. IsSlot(Row(d, x.list), b + prev, from, to) /\ prev \in Nat
      BY <2>1, <2>2, <3>2, SlotOfRest
    <3>4. ASSUME x.oleft # NoID
          PROVE  Held(d, x.oleft) /\ \E i \in 1 .. b + prev : Row(d, x.list)[i] = RefOf(d, x.oleft)
      <4>1. left # Nil
        BY <1>1, <1>3, <1>5, <3>4
      <4>2. Held(d, x.oleft) /\ left = RefOf(d, x.oleft)
        BY <1>1, <4>1 DEF OriginRef
      <4>3. b > 0 /\ Row(d, x.list)[b] = left /\ b \in Nat
        <5>1. Len(Row(d, x.list)) \in Nat
          BY <2>1, RowFollows
        <5>2. QED
          BY <3>2, <4>1, <5>1 DEF Rest
      <4>4. b \in 1 .. b + prev
        BY <3>3, <4>3
      <4>5. QED
        BY <4>2, <4>3, <4>4
    <3> HIDE DEF left
    <3>5. x.list \in List \ Key
      BY <2>1, <2>4
    <3> DEFINE p == b + prev
    <3>6. IsSlot(Row(d, x.list), p, from, to)
          /\ (x.oleft # NoID => Held(d, x.oleft) /\ \E i \in 1 .. p : Row(d, x.list)[i] = RefOf(d, x.oleft))
      BY <3>3, <3>4
    <3> HIDE DEF p
    <3>7. QED
      BY <1>1, <2>2, <3>5, <3>6, LinkedOrdered
  <2>5. QED
    BY <2>3, <2>4
<1>6. QED
  BY <1>2, <1>4, <1>5

-----------------------------------------------------------------------------
(***************************************************************************)
(* The first item of a key.                                                *)
(***************************************************************************)
\* The first item of a key gives way only to one with a higher ID.
Rises(d, e, key) ==
    d.start[key] # Nil =>
        /\ e.start[key] # Nil
        /\ \/ e.start[key] = d.start[key]
           \/ compareIDs(e.heap[e.start[key]].id, d.heap[d.start[key]].id)

\* The first item of a key has the highest ID of its items.
Topped(d, key) ==
    \A k \in OfList(d, key) :
        /\ d.start[key] # Nil
        /\ k = d.start[key] \/ compareIDs(d.heap[d.start[key]].id, d.heap[k].id)

\* compareIDs orders the IDs.
LEMMA IdsOrdered ==
  ASSUME NEW a \in IdType, NEW b \in IdType
  PROVE  /\ compareIDs(a, b) \/ compareIDs(b, a) \/ a = b
         /\ ~(compareIDs(a, b) /\ compareIDs(b, a))
         /\ \A c \in IdType : compareIDs(a, b) /\ compareIDs(b, c) => compareIDs(a, c)
<1>1. Client \subseteq Nat
  BY ClientAssumption
<1>2. \A i \in IdType : i.client \in Nat /\ i.clock \in Nat
  BY <1>1 DEF IdType
<1>3. a.client = b.client /\ a.clock = b.clock => a = b
  BY DEF IdType
<1>4. compareIDs(a, b) \/ compareIDs(b, a) \/ a = b
  BY <1>2, <1>3 DEF compareIDs
<1>5. ~(compareIDs(a, b) /\ compareIDs(b, a))
  BY <1>2 DEF compareIDs
<1>6. \A c \in IdType : compareIDs(a, b) /\ compareIDs(b, c) => compareIDs(a, c)
  BY <1>2 DEF compareIDs
<1>7. QED
  BY <1>4, <1>5, <1>6

LEMMA HigherIsHigher ==
  ASSUME NEW a \in IdType, NEW b \in IdType, NEW c \in IdType, compareIDs(a, b), compareIDs(b, c)
  PROVE  compareIDs(a, c)
BY IdsOrdered

\* The IDs of a document.
LEMMA IdsOf ==
  ASSUME NEW d, Sound(d)
  PROVE  /\ \A k \in Refs(d) : d.heap[k].id \in IdType
         /\ \A j, k \in Refs(d) : d.heap[j].id = d.heap[k].id => j = k
         /\ \A l \in List : d.start[l] # Nil => d.start[l] \in Refs(d) /\ d.start[l] \in OfList(d, l)
<1>1. d \in Docs /\ Whole(d) /\ Listed(d)
  BY DEF Sound, Whole
<1>2. \A k \in Refs(d) : d.heap[k].id \in IdType
  BY <1>1, DocFields, ItemFields
<1>3. \A j, k \in Refs(d) : d.heap[j].id = d.heap[k].id => j = k
  BY <1>1 DEF Whole
<1>4. QED
  BY <1>1, <1>2, <1>3 DEF Listed, OfList

LEMMA RisesTwice ==
  ASSUME NEW d, Sound(d), NEW e, Sound(e), NEW f, Sound(f), Extends(d, e), Extends(e, f),
         NEW key \in Key, Rises(d, e, key), Rises(e, f, key)
  PROVE  Rises(d, f, key)
<1> DEFINE a == d.start[key]
           b == e.start[key]
           c == f.start[key]
           i == d.heap[a].id
           j == e.heap[b].id
           k == f.heap[c].id
<1>1. SUFFICES ASSUME a # Nil
               PROVE  c # Nil /\ (c = a \/ compareIDs(k, i))
  BY DEF Rises
<1>2. key \in List
  BY ListAssumption
<1>3. b # Nil /\ (b = a \/ compareIDs(j, i))
  BY <1>1 DEF Rises
<1>4. c # Nil /\ (c = b \/ compareIDs(k, j))
  BY <1>3 DEF Rises
<1>5. a \in Refs(d) /\ b \in Refs(e) /\ c \in Refs(f)
  BY <1>1, <1>2, <1>3, <1>4, IdsOf
<1>6. i \in IdType /\ j \in IdType /\ k \in IdType
  BY <1>5, IdsOf
<1>7. b = a => j = i
  BY <1>5 DEF Extends, SameItem
<1>8. c = b => k = j
  BY <1>5 DEF Extends, SameItem
<1> HIDE DEF a, b, c, i, j, k
<1>9. compareIDs(k, j) /\ compareIDs(j, i) => compareIDs(k, i)
  BY <1>6, HigherIsHigher
<1>10. QED
  BY <1>3, <1>4, <1>7, <1>8, <1>9

\* A key whose items and whose first item stay.
LEMMA ToppedStays ==
  ASSUME NEW d, Sound(d), NEW e, Sound(e), Extends(d, e), NEW key \in Key,
         e.start[key] = d.start[key], OfList(e, key) \subseteq OfList(d, key), Topped(d, key)
  PROVE  Topped(e, key)
<1>1. key \in List
  BY ListAssumption
<1>2. ASSUME NEW k \in OfList(e, key)
      PROVE  e.start[key] # Nil /\ (k = e.start[key] \/ compareIDs(e.heap[e.start[key]].id, e.heap[k].id))
  <2> DEFINE a == d.start[key]
  <2>1. k \in OfList(d, key) /\ k \in Refs(d)
    BY DEF OfList
  <2>2. a # Nil /\ (k = a \/ compareIDs(d.heap[a].id, d.heap[k].id))
    BY <2>1 DEF Topped
  <2>3. a \in Refs(d)
    BY <1>1, <2>2, IdsOf
  <2>4. e.heap[a].id = d.heap[a].id /\ e.heap[k].id = d.heap[k].id
    BY <2>1, <2>3 DEF Extends, SameItem
  <2>5. QED
    BY <2>2, <2>4
<1>3. QED
  BY <1>2 DEF Topped

\* What integrateItem adds to a key becomes its first item if it has the highest ID.
LEMMA PutsRises ==
  ASSUME NEW d, Sound(d), Ordered(d), NEW it, Wire(it), Places(d, it), NEW e, Sound(e),
         NEW x, Puts(d, e, it, x), ~Held(d, it.id), NEW key \in Key
  PROVE  Rises(d, e, key) /\ (Topped(d, key) => Topped(e, key))
<1> DEFINE left == OriginRef(d, it.oleft)
           n == Len(d.heap) + 1
<1>1. /\ Fits(d, x) /\ x \in ItemType /\ x.oleft = it.oleft /\ x.id = it.id
      /\ x.list = IF left = Nil THEN it.list ELSE d.heap[left].list
      /\ x.list = NoList => e = addItem(d, x)
      /\ x.list # NoList => left \in {Nil} \cup OfList(d, x.list) /\ Queued(d, e, it, x, left)
  BY DEF Puts, Fits
<1>2. x.list \in List \cup {NoList} /\ Whole(d) /\ d \in Docs /\ key \in List /\ NoList \notin List
  BY <1>1, ItemFields, ListAssumption DEF Sound, Whole
<1>3. Grows(d, e, x)
  <2>1. CASE x.list = NoList
    BY <1>1, <1>2, <2>1, addItemSound
  <2>2. CASE x.list # NoList
    BY <1>1, <2>2 DEF Queued, Linked
  <2>3. QED
    BY <2>1, <2>2
<1>4. /\ Len(d.heap) \in Nat /\ Refs(e) = Refs(d) \cup {n} /\ n \notin Refs(d) /\ n # Nil
      /\ SameItem(e.heap[n], x) /\ Extends(d, e)
      /\ \A k \in Refs(d) : SameItem(e.heap[k], d.heap[k])
  <2>1. Len(d.heap) \in Nat /\ Len(e.heap) = n /\ SameItem(e.heap[n], x)
    BY <1>2, <1>3, DocFields DEF Grows
  <2>2. \A k \in Refs(d) : SameItem(e.heap[k], d.heap[k])
    BY <1>3 DEF Grows
  <2>3. QED
    BY <2>1, <2>2 DEF Refs, Extends, Nil
<1> HIDE DEF n
<1>5. CASE x.list # key
  <2>1. e.start[key] = d.start[key]
    <3>1. CASE x.list = NoList
      <4>1. e = addItem(d, x)
        BY <1>1, <3>1
      <4>2. e.start = d.start
        BY <1>1, <1>2, <4>1, addItemFields
      <4>3. QED
        BY <4>2
    <3>2. CASE x.list # NoList
      BY <1>1, <1>2, <1>5, <3>2 DEF Queued, Linked
    <3>3. QED
      BY <3>1, <3>2
  <2>2. OfList(e, key) \subseteq OfList(d, key)
    BY <1>4, <1>5 DEF OfList, SameItem
  <2>3. Rises(d, e, key)
    BY <2>1 DEF Rises
  <2>4. QED
    BY <1>4, <2>1, <2>2, <2>3, ToppedStays
<1>6. CASE x.list = key
  <2>1. left = Nil /\ it.oleft = NoID /\ Queued(d, e, it, x, left)
    <3>1. x.list # NoList
      BY <1>2, <1>6
    <3>2. left = Nil
      BY <1>1, <1>6 DEF Places
    <3>3. QED
      BY <1>1, <3>1, <3>2 DEF Wire
  <2>2. PICK first, cands, at, prev, from, to :
          /\ first = IF left = Nil THEN d.start[x.list] ELSE d.heap[left].right
          /\ Follows(d, first, cands, OfList(d, x.list))
          /\ at \in 0 .. Len(cands)
          /\ at # 0 => lssIsBefore(it, d.heap[cands[at]])
          /\ \A i \in 1 .. Len(cands) : at = 0 \/ i < at => ~lssIsBefore(it, d.heap[cands[i]])
          /\ Slot(cands, left, at, prev, from, to)
          /\ Linked(d, e, x, from, to)
    BY <2>1 DEF Queued
  <2> DEFINE a == d.start[key]
  <2>3. first = a /\ cands \in Seq(OfList(d, key)) /\ Len(cands) \in Nat
        /\ \A i \in 1 .. Len(cands) : cands[i] \in OfList(d, key)
    <3>1. first = a /\ cands \in Seq(OfList(d, key))
      BY <1>6, <2>1, <2>2 DEF Follows
    <3>2. QED
      BY <3>1
  <2>4. a = Nil => cands = <<>> /\ Len(cands) = 0
    BY <1>6, <2>2, <2>3 DEF Follows
  <2>5. a # Nil => Len(cands) > 0 /\ cands[1] = a
    BY <1>6, <2>2, <2>3 DEF Follows
  <2>6. it.id \in IdType /\ \A k \in OfList(d, key) : /\ lssIsBefore(it, d.heap[k]) <=> compareIDs(it.id, d.heap[k].id)
                                    /\ k \in Refs(d) /\ d.heap[k].id \in IdType /\ d.heap[k].id # it.id
    <3>1. ASSUME NEW k \in OfList(d, key) PROVE d.heap[k].oleft = NoID
      <4>1. k \in Refs(d) /\ d.heap[k].list = key
        BY DEF OfList
      <4>2. QED
        BY <1>2, <4>1 DEF Ordered, OrderedAt
    <3>2. \A k \in OfList(d, key) : lssIsBefore(it, d.heap[k]) <=> compareIDs(it.id, d.heap[k].id)
      BY <2>1, <3>1 DEF lssIsBefore, originClock
    <3>3. \A k \in OfList(d, key) : k \in Refs(d) /\ d.heap[k].id \in IdType
      BY IdsOf DEF OfList
    <3>4. \A k \in Refs(d) : Held(d, d.heap[k].id)
      BY <1>2 DEF Whole, Held
    <3>5. it.id \in IdType
      BY <1>1, ItemFields
    <3>6. QED
      BY <3>2, <3>3, <3>4, <3>5
  <2>7. from = Nil <=> prev = 0
    <3>1. prev # 0 => from \in OfList(d, key)
      <4>1. prev # 0 => prev \in 1 .. Len(cands) /\ from = cands[prev]
        BY <2>2, <2>3 DEF Slot
      <4>2. QED
        BY <2>3, <4>1
    <3>2. Nil \notin OfList(d, key)
      BY NilIsNoRef DEF OfList
    <3>3. prev = 0 => from = Nil
      BY <2>1, <2>2 DEF Slot
    <3>4. QED
      BY <3>1, <3>2, <3>3
  <2>8. e.start[key] = IF prev = 0 THEN n ELSE a
    BY <1>2, <1>6, <2>2, <2>7 DEF Linked, n
  <2>9. CASE prev = 0
    <3>1. e.start[key] = n /\ n # Nil /\ e.heap[n].id = it.id
      BY <1>1, <1>4, <2>8, <2>9 DEF SameItem
    <3>2. a # Nil => compareIDs(it.id, d.heap[a].id) /\ a \in OfList(d, key)
      <4>1. SUFFICES ASSUME a # Nil PROVE compareIDs(it.id, d.heap[a].id) /\ a \in OfList(d, key)
        OBVIOUS
      <4>2. Len(cands) > 0 /\ cands[1] = a /\ 1 \in 1 .. Len(cands)
        BY <2>3, <2>5, <4>1
      <4>3. at = 1
        BY <2>2, <2>3, <2>9, <4>2 DEF Slot
      <4>4. lssIsBefore(it, d.heap[a]) /\ a \in OfList(d, key)
        BY <2>2, <2>3, <4>2, <4>3
      <4>5. QED
        BY <2>6, <4>4
    <3>3. Rises(d, e, key)
      BY <3>1, <3>2 DEF Rises
    <3>4. ASSUME Topped(d, key), NEW k \in OfList(e, key)
          PROVE  k = n \/ compareIDs(it.id, e.heap[k].id)
      <4>1. SUFFICES ASSUME k # n PROVE compareIDs(it.id, e.heap[k].id)
        OBVIOUS
      <4>2. k \in OfList(d, key) /\ e.heap[k].id = d.heap[k].id
        BY <1>4, <4>1 DEF OfList, SameItem
      <4>3. a # Nil /\ (k = a \/ compareIDs(d.heap[a].id, d.heap[k].id))
        BY <3>4, <4>2 DEF Topped
      <4>4. compareIDs(it.id, d.heap[a].id) /\ d.heap[a].id \in IdType /\ d.heap[k].id \in IdType /\ it.id \in IdType
        BY <2>6, <3>2, <4>2, <4>3
      <4>5. QED
        BY <4>2, <4>3, <4>4, HigherIsHigher
    <3>5. Topped(d, key) => Topped(e, key)
      BY <3>1, <3>4 DEF Topped
    <3>6. QED
      BY <3>3, <3>5
  <2>10. CASE prev # 0
    <3>1. Len(cands) > 0 /\ 1 \in 1 .. Len(cands) /\ (at = 0 \/ 1 < at)
      BY <2>2, <2>3, <2>10 DEF Slot
    <3>2. a # Nil /\ cands[1] = a /\ a \in OfList(d, key)
      BY <2>3, <2>4, <2>5, <3>1
    <3>3. ~lssIsBefore(it, d.heap[a])
      BY <2>2, <3>1, <3>2
    <3>4. compareIDs(d.heap[a].id, it.id)
      <4>1. ~compareIDs(it.id, d.heap[a].id) /\ d.heap[a].id # it.id /\ d.heap[a].id \in IdType /\ it.id \in IdType
        BY <2>6, <3>2, <3>3
      <4>2. QED
        BY <4>1, IdsOrdered
    <3>5. e.start[key] = a /\ e.heap[a].id = d.heap[a].id
      BY <1>4, <2>6, <2>8, <2>10, <3>2 DEF SameItem
    <3>6. Rises(d, e, key)
      BY <3>5 DEF Rises
    <3>7. ASSUME Topped(d, key), NEW k \in OfList(e, key)
          PROVE  k = a \/ compareIDs(d.heap[a].id, e.heap[k].id)
      <4>1. CASE k = n
        <5>1. e.heap[k].id = it.id
          BY <1>1, <1>4, <4>1 DEF SameItem
        <5>2. QED
          BY <3>4, <5>1
      <4>2. CASE k # n
        <5>1. k \in OfList(d, key) /\ e.heap[k].id = d.heap[k].id
          BY <1>4, <4>2 DEF OfList, SameItem
        <5>2. QED
          BY <3>7, <5>1 DEF Topped
      <4>3. QED
        BY <4>1, <4>2
    <3>8. Topped(d, key) => Topped(e, key)
      BY <3>2, <3>5, <3>7 DEF Topped
    <3>9. QED
      BY <3>6, <3>8
  <2>11. QED
    BY <2>9, <2>10
<1>7. QED
  BY <1>5, <1>6

-----------------------------------------------------------------------------
(***************************************************************************)
(* Items that a document has from others, and the lists they are in.       *)
(***************************************************************************)
\* F is what the list of an item is where it was typed; d agrees, as far as it knows.
Labelled(d, F) == \A k \in Refs(d) : d.heap[k].list # NoList => d.heap[k].list = F[d.heap[k].id]

\* An item on the wire names its list, or was typed after one of its list, not a key's.
Fed(it, F) ==
    IF it.oleft = NoID THEN it.list # NoList /\ it.list = F[it.id]
    ELSE F[it.id] = F[it.oleft] /\ F[it.id] \notin Key

\* e is d with more items, which are in order and in the lists they were typed in.
Orders(d, e, F) ==
    /\ Sound(e) /\ Extends(d, e)
    /\ Ordered(e) /\ Broadens(d, e)
    /\ Labelled(e, F)
    /\ \A key \in Key : Rises(d, e, key) /\ (Topped(d, key) => Topped(e, key))

\* What integrateItem adds.
LEMMA PutsOrders ==
  ASSUME NEW d, Sound(d), Ordered(d), NEW F, Labelled(d, F),
         NEW it, Wire(it), Fed(it, F), NEW e, Sound(e), NEW x, Puts(d, e, it, x), ~Held(d, it.id)
  PROVE  Orders(d, e, F)
<1> DEFINE left == OriginRef(d, it.oleft)
           n == Len(d.heap) + 1
<1>1. /\ Fits(d, x) /\ x \in ItemType /\ x.oleft = it.oleft /\ x.id = it.id
      /\ x.list = IF left = Nil THEN it.list ELSE d.heap[left].list
      /\ x.list = NoList => e = addItem(d, x)
      /\ x.list # NoList => Queued(d, e, it, x, left)
  BY DEF Puts, Fits
<1>2. Whole(d) /\ d \in Docs /\ NoList \notin Key
  BY ListAssumption DEF Sound, Whole
<1>3. left # Nil => left \in Refs(d) /\ d.heap[left].id = it.oleft /\ it.oleft # NoID
  <2>1. it.oleft # NoID => it.oleft \in IdType
    BY ItemFields DEF Wire
  <2>2. SUFFICES ASSUME it.oleft # NoID, Held(d, it.oleft)
                 PROVE  RefOf(d, it.oleft) \in Refs(d) /\ d.heap[RefOf(d, it.oleft)].id = it.oleft
    BY DEF OriginRef
  <2>3. QED
    BY <1>2, <2>1, <2>2, getItemFinds
<1>4. Grows(d, e, x)
  <2>1. CASE x.list = NoList
    BY <1>1, <1>2, <2>1, addItemSound
  <2>2. CASE x.list # NoList
    BY <1>1, <2>2 DEF Queued, Linked
  <2>3. QED
    BY <2>1, <2>2
<1>5. /\ Len(d.heap) \in Nat /\ Len(e.heap) = n /\ Refs(e) = Refs(d) \cup {n}
      /\ SameItem(e.heap[n], x) /\ Extends(d, e)
      /\ \A k \in Refs(d) : SameItem(e.heap[k], d.heap[k])
  <2>1. Len(d.heap) \in Nat /\ Len(e.heap) = n /\ SameItem(e.heap[n], x)
    BY <1>2, <1>4, DocFields DEF Grows
  <2>2. \A k \in Refs(d) : SameItem(e.heap[k], d.heap[k])
    BY <1>4 DEF Grows
  <2>3. QED
    BY <2>1, <2>2 DEF Refs, Extends
<1> HIDE DEF n, left
<1>6. left # Nil => d.heap[left].list \notin Key
  BY <1>2, <1>3 DEF Labelled, Fed
<1>7. Places(d, it)
  BY <1>6 DEF Places, Fed, left
<1>8. Ordered(e) /\ Broadens(d, e)
  BY <1>7, PutsOrdered
<1>9. \A key \in Key : Rises(d, e, key) /\ (Topped(d, key) => Topped(e, key))
  BY <1>7, PutsRises
<1>10. x.list # NoList => x.list = F[x.id]
  <2>1. CASE left = Nil
    BY <1>1, <2>1 DEF Wire, Fed
  <2>2. CASE left # Nil
    BY <1>1, <1>3, <2>2 DEF Labelled, Fed
  <2>3. QED
    BY <2>1, <2>2
<1>11. Labelled(e, F)
  BY <1>5, <1>10 DEF Labelled, SameItem
<1>12. QED
  BY <1>5, <1>8, <1>9, <1>11 DEF Orders

\* Documents in order, one after the other.
LEMMA OrdersTwice ==
  ASSUME NEW d, Sound(d), NEW F, NEW e, Orders(d, e, F), NEW f, Orders(e, f, F)
  PROVE  Orders(d, f, F)
<1>1. Sound(e) /\ Sound(f) /\ Extends(d, e) /\ Extends(e, f) /\ Broadens(d, e) /\ Broadens(e, f)
  BY DEF Orders
<1>2. Extends(d, f)
  <2>1. Len(d.heap) \in Nat /\ Len(e.heap) \in Nat /\ Len(f.heap) \in Nat
    BY <1>1, DocFields DEF Sound, Whole
  <2>2. Len(d.heap) <= Len(f.heap) /\ Refs(d) \subseteq Refs(e)
    BY <1>1, <2>1 DEF Extends, Refs
  <2>3. QED
    BY <1>1, <2>2 DEF Extends, SameItem
<1>3. Broadens(d, f)
  <2>1. ASSUME NEW l \in List \ Key PROVE Widens(Row(d, l), Row(f, l))
    <3>1. Widens(Row(d, l), Row(e, l)) /\ Widens(Row(e, l), Row(f, l))
      BY <1>1 DEF Broadens
    <3>2. Row(d, l) \in Seq(Nat) /\ Row(e, l) \in Seq(Nat) /\ Row(f, l) \in Seq(Nat)
      <4>1. Refs(d) \subseteq Nat /\ Refs(e) \subseteq Nat /\ Refs(f) \subseteq Nat
        BY DEF Refs
      <4>2. Row(d, l) \in Seq(Refs(d)) /\ Row(e, l) \in Seq(Refs(e)) /\ Row(f, l) \in Seq(Refs(f))
        BY <1>1, RowFollows
      <4>3. QED
        BY <4>1, <4>2
    <3>3. QED
      BY <3>1, <3>2, WidensTwice
  <2>2. QED
    BY <2>1 DEF Broadens
<1>4. \A key \in Key : Rises(d, f, key)
  BY <1>1, RisesTwice DEF Orders
<1>5. QED
  BY <1>1, <1>2, <1>3, <1>4 DEF Orders

\* A document is in order after itself.
LEMMA OrdersItself ==
  ASSUME NEW d, Sound(d), Ordered(d), NEW F, Labelled(d, F)
  PROVE  Orders(d, d, F)
<1>1. Extends(d, d)
  BY DocFields DEF Extends, SameItem, Sound, Whole
<1>2. Broadens(d, d)
  <2>1. ASSUME NEW l \in List \ Key PROVE Widens(Row(d, l), Row(d, l))
    <3>1. Row(d, l) \in Seq(Refs(d))
      BY RowFollows
    <3>2. QED
      BY <3>1, WidensItself
  <2>2. QED
    BY <2>1 DEF Broadens
<1>3. QED
  BY <1>1, <1>2 DEF Orders, Rises

\* Marks of deletion change no order.
LEMMA MarkedOrders ==
  ASSUME NEW d, Sound(d), Ordered(d), NEW F, Labelled(d, F), NEW e, Sound(e),
         Len(e.heap) = Len(d.heap), e.start = d.start,
         \A k \in Refs(d) : SameItem(e.heap[k], d.heap[k]) /\ e.heap[k].right = d.heap[k].right
  PROVE  Orders(d, e, F)
<1>1. Ordered(e) /\ Broadens(d, e)
  BY MarkedOrdered
<1>2. Refs(e) = Refs(d) /\ Extends(d, e)
  BY DocFields DEF Refs, Extends, Sound, Whole
<1>3. Labelled(e, F)
  BY <1>2 DEF Labelled, SameItem
<1>4. ASSUME NEW key \in Key PROVE Rises(d, e, key) /\ (Topped(d, key) => Topped(e, key))
  <2>1. OfList(e, key) \subseteq OfList(d, key)
    BY <1>2 DEF OfList, SameItem
  <2>2. Topped(d, key) => Topped(e, key)
    BY <1>2, <2>1, ToppedStays
  <2>3. QED
    BY <2>2 DEF Rises
<1>5. QED
  BY <1>1, <1>2, <1>3, <1>4 DEF Orders

\* Every item of d knows its list.
AllIn(d) == \A k \in Refs(d) : d.heap[k].list # NoList

\* An item of an update comes after its origin: it is held, or earlier in the update.
Rooted(d, u) ==
    \A j \in 1 .. Len(u) : u[j].oleft # NoID =>
        Held(d, u[j].oleft) \/ \E i \in 1 .. j - 1 : u[i].id = u[j].oleft

\* An item finds its list if it names one or its origin is held.
LEMMA PutsListed ==
  ASSUME NEW d, Sound(d), AllIn(d), NEW it, Wire(it), it.oleft = NoID => it.list # NoList,
         it.oleft # NoID => Held(d, it.oleft), NEW e, NEW x, Puts(d, e, it, x)
  PROVE  AllIn(e)
<1> DEFINE left == OriginRef(d, it.oleft)
           n == Len(d.heap) + 1
<1>1. /\ Fits(d, x) /\ x \in ItemType
      /\ x.list = IF left = Nil THEN it.list ELSE d.heap[left].list
      /\ x.list = NoList => e = addItem(d, x)
      /\ x.list # NoList => Queued(d, e, it, x, left)
  BY DEF Puts, Fits
<1>2. Whole(d) /\ d \in Docs
  BY DEF Sound, Whole
<1>3. it.oleft # NoID => left \in Refs(d)
  <2>1. it.oleft # NoID => it.oleft \in IdType
    BY ItemFields DEF Wire
  <2>2. QED
    BY <1>2, <2>1, getItemFinds DEF OriginRef
<1>4. x.list # NoList
  <2>1. CASE it.oleft = NoID
    BY <1>1, <2>1 DEF OriginRef, Nil
  <2>2. CASE it.oleft # NoID
    <3>1. left \in Refs(d) /\ left # Nil
      BY <1>3, <2>2, NilIsNoRef
    <3>2. QED
      BY <1>1, <3>1 DEF AllIn
  <2>3. QED
    BY <2>1, <2>2
<1>5. Grows(d, e, x)
  BY <1>1, <1>4 DEF Queued, Linked
<1>6. /\ Len(d.heap) \in Nat /\ Len(e.heap) = n
      /\ SameItem(e.heap[n], x)
      /\ \A k \in Refs(d) : SameItem(e.heap[k], d.heap[k])
  BY <1>2, <1>5, DocFields DEF Grows
<1>7. Refs(e) = Refs(d) \cup {n}
  BY <1>6 DEF Refs
<1>8. QED
  BY <1>4, <1>6, <1>7 DEF AllIn, SameItem

\* One turn of the loop over the items of an update.
LEMMA TurnOrders ==
  ASSUME NEW d, Sound(d), NEW F, NEW u \in Seq(ItemType), Readable(d, u),
         \A j \in 1 .. Len(u) : Fed(u[j], F),
         NEW m \in Nat, m + 1 <= Len(u), NEW e, Merged(d, e, u, m), Orders(d, e, F)
  PROVE  /\ Orders(d, integrateItem(e, u[m + 1]), F)
         /\ Rooted(d, u) /\ AllIn(e) => AllIn(integrateItem(e, u[m + 1]))
<1> DEFINE n == m + 1
           it == u[n]
           f == integrateItem(e, it)
<1>1. Wire(it) /\ it.id.clock <= Len(e.store[it.id.client])
  BY NextFits
<1>2. n \in 1 .. Len(u) /\ n - 1 = m
  OBVIOUS
<1>3. Fed(it, F)
  BY <1>2
<1>4. Sound(e) /\ Ordered(e) /\ Labelled(e, F)
  BY DEF Orders
<1>5. it.oleft # NoID => it.oleft \in IdType
  BY <1>1, ItemFields DEF Wire
<1>6. Rooted(d, u) /\ it.oleft # NoID => Held(e, it.oleft)
  <2>1. SUFFICES ASSUME Rooted(d, u), it.oleft # NoID PROVE Held(e, it.oleft)
    OBVIOUS
  <2>2. Held(d, it.oleft) \/ \E i \in 1 .. m : u[i].id = it.oleft
    BY <1>2, <2>1 DEF Rooted
  <2>3. Held(d, it.oleft) => Held(e, it.oleft)
    <3>1. Whole(d) /\ Whole(e) /\ Extends(d, e)
      BY DEF Merged, Sound
    <3> HIDE DEF it
    <3>2. QED
      BY <1>5, <2>1, <3>1, ExtendsKeeps
  <2>4. (\E i \in 1 .. m : u[i].id = it.oleft) => Held(e, it.oleft)
    BY DEF Merged
  <2>5. QED
    BY <2>2, <2>3, <2>4
<1> HIDE DEF it
<1>7. CASE Held(e, it.id)
  <2>1. f = e
    BY <1>1, <1>4, <1>7, integrateItemSound
  <2>2. QED
    BY <2>1 DEF it, n, f
<1>8. CASE ~Held(e, it.id)
  <2>1. Sound(f) /\ \E x : Puts(e, f, it, x)
    BY <1>1, <1>4, <1>8, integrateItemSound
  <2>2. PICK x : Puts(e, f, it, x)
    BY <2>1
  <2> HIDE DEF f
  <2>3. Orders(e, f, F)
    BY <1>1, <1>3, <1>4, <1>8, <2>1, <2>2, PutsOrders
  <2>4. Orders(d, f, F)
    BY <2>3, OrdersTwice
  <2>5. Rooted(d, u) /\ AllIn(e) => AllIn(f)
    <3>1. it.oleft = NoID => it.list # NoList
      BY <1>3 DEF Fed
    <3>2. QED
      BY <1>1, <1>4, <1>6, <2>2, <3>1, PutsListed
  <2>6. QED
    BY <2>4, <2>5 DEF f, it, n
<1>9. QED
  BY <1>7, <1>8

\* The loop over the items of an update.
LEMMA LoopOrders ==
  ASSUME NEW d, Sound(d), Ordered(d), NEW F, Labelled(d, F), NEW u \in Seq(ItemType), Readable(d, u),
         \A j \in 1 .. Len(u) : Fed(u[j], F)
  PROVE  /\ Orders(d, Loop(integrateItem, d, u), F)
         /\ Rooted(d, u) /\ AllIn(d) => AllIn(Loop(integrateItem, d, u))
<1>1. PICK h : Turns(h, d, u) /\ Loop(integrateItem, d, u) = h[Len(u)]
  BY integrateTurns
<1> DEFINE N == Len(u)
           Good(e) == Orders(d, e, F) /\ (Rooted(d, u) /\ AllIn(d) => AllIn(e))
           Turned == { n \in Nat : n <= N => Good(h[n]) }
<1>2. N \in Nat
  OBVIOUS
<1>3. 0 \in Turned
  <2>1. Good(d)
    BY OrdersItself
  <2>2. h[0] = d
    BY <1>1 DEF Turns
  <2> HIDE DEF Good
  <2>3. QED
    BY <2>1, <2>2
<1>4. ASSUME NEW n \in Nat, n \in Turned PROVE n + 1 \in Turned
  <2>1. SUFFICES ASSUME n + 1 <= N PROVE Good(h[n + 1])
    OBVIOUS
  <2>2. n \in 0 .. N /\ n + 1 \in 1 .. N /\ (n + 1) - 1 = n
    BY <1>2, <2>1
  <2>3. Good(h[n])
    <3> HIDE DEF Good
    <3> QED BY <1>4, <2>2
  <2>4. Merged(d, h[n], u, n) /\ h[n + 1] = integrateItem(h[n], u[n + 1])
    BY <1>1, <2>2 DEF Turns
  <2> DEFINE e == h[n]
             f == integrateItem(e, u[n + 1])
  <2>5. Orders(d, e, F) /\ Merged(d, e, u, n) /\ n + 1 <= Len(u)
    BY <2>1, <2>3, <2>4
  <2> HIDE DEF e
  <2>6. Orders(d, f, F) /\ (Rooted(d, u) /\ AllIn(e) => AllIn(f))
    BY <2>5, TurnOrders
  <2>7. QED
    BY <2>3, <2>4, <2>6 DEF e
<1>5. N \in Turned
  <2> HIDE DEF Turned, N
  <2>1. \A n \in Nat : n \in Turned
    BY <1>3, <1>4, Induction
  <2>2. QED
    BY <1>2, <2>1
<1>6. Good(h[N])
  <2> HIDE DEF Good
  <2> QED BY <1>2, <1>5
<1>7. QED
  BY <1>1, <1>6

\* An update that is applied puts its items in order (ApplyUpdate).
LEMMA ApplyUpdateOrders ==
  ASSUME NEW d, Sound(d), Ordered(d), NEW F, Labelled(d, F),
         NEW u, u.items \in Seq(ItemType), u.dels \in Seq(Ranges), Readable(d, u.items),
         \A j \in 1 .. Len(u.items) : Fed(u.items[j], F)
  PROVE  /\ Orders(d, ApplyUpdate(d, u), F)
         /\ Rooted(d, u.items) /\ AllIn(d) => AllIn(ApplyUpdate(d, u))
<1> DEFINE e == ApplyUpdate(d, u)
<1>1. PICK a, b : Stages(d, a, b, e, u)
  BY ApplyUpdateStages
<1> HIDE DEF e
<1>2. /\ Sound(a) /\ a.heap = d.heap /\ a.store = d.store /\ a.start = d.start
      /\ Readable(a, u.items) /\ b = Loop(integrateItem, a, u.items)
      /\ Swept(b, e, b.ds, Len(b.ds)) /\ Sound(b)
  BY <1>1 DEF Stages, Merged
<1>3. Len(a.heap) = Len(d.heap) /\ Refs(a) = Refs(d)
      /\ \A k \in Refs(d) : SameItem(a.heap[k], d.heap[k]) /\ a.heap[k].right = d.heap[k].right
  BY <1>2 DEF Refs, SameItem
<1>4. Orders(d, a, F)
  BY <1>2, <1>3, MarkedOrders
<1>5. Ordered(a) /\ Labelled(a, F)
  BY <1>4 DEF Orders
<1>6. Orders(a, b, F) /\ (Rooted(a, u.items) /\ AllIn(a) => AllIn(b))
  BY <1>2, <1>5, LoopOrders
<1>7. Ordered(b) /\ Labelled(b, F)
  BY <1>6 DEF Orders
<1>8. Sound(e) /\ Len(e.heap) = Len(b.heap) /\ e.start = b.start
      /\ \A k \in Refs(b) : SameItem(e.heap[k], b.heap[k]) /\ e.heap[k].right = b.heap[k].right
  BY <1>2 DEF Swept
<1>9. Orders(b, e, F)
  BY <1>2, <1>7, <1>8, MarkedOrders
<1>10. Orders(d, e, F)
  <2>1. Orders(d, b, F)
    BY <1>4, <1>6, OrdersTwice
  <2>2. QED
    BY <1>9, <2>1, OrdersTwice
<1>11. ASSUME Rooted(d, u.items), AllIn(d) PROVE AllIn(e)
  <2>1. Rooted(a, u.items)
    BY <1>2, <1>11 DEF Rooted, Held
  <2>2. AllIn(a)
    BY <1>2, <1>3, <1>11 DEF AllIn
  <2>3. AllIn(b)
    BY <1>6, <2>1, <2>2
  <2>4. Refs(e) = Refs(b)
    BY <1>8 DEF Refs
  <2>5. QED
    BY <1>8, <2>3, <2>4 DEF AllIn, SameItem
<1>12. QED
  BY <1>10, <1>11 DEF e

-----------------------------------------------------------------------------
(***************************************************************************)
(* Edits of an Array or a Text.                                            *)
(***************************************************************************)
\* t is s with the items a + 1, ... a + n put after the first p.
Spliced(s, t, p, a, n) ==
    /\ p \in 0 .. Len(s)
    /\ Len(t) = Len(s) + n
    /\ \A i \in 1 .. p : t[i] = s[i]
    /\ \A i \in 1 .. n : t[p + i] = a + i
    /\ \A i \in p + 1 .. Len(s) : t[i + n] = s[i]

\* The n new items of e are not deleted, and the others just where they are in d.
Spares(d, e, n) ==
    /\ \A k \in Refs(d) : e.heap[k].deleted = d.heap[k].deleted
    /\ \A i \in 1 .. n : ~e.heap[Len(d.heap) + i].deleted

\* One new item after the others.
LEMMA SparesAfter ==
  ASSUME NEW d, NEW e, NEW f, NEW n \in Nat, Len(d.heap) \in Nat, Len(e.heap) = Len(d.heap) + n,
         Spares(d, e, n), Spares(e, f, 1)
  PROVE  Spares(d, f, n + 1)
<1> DEFINE a == Len(d.heap)
<1>1. a \in Nat /\ Refs(d) = 1 .. a /\ Refs(e) = 1 .. a + n
  BY DEF Refs
<1>2. ASSUME NEW k \in Refs(d) PROVE f.heap[k].deleted = d.heap[k].deleted
  <2>1. k \in Refs(e)
    <3> HIDE DEF a
    <3> QED BY <1>1
  <2>2. QED
    BY <2>1 DEF Spares
<1>3. ASSUME NEW i \in 1 .. n + 1 PROVE ~f.heap[a + i].deleted
  <2>1. CASE i = n + 1
    <3>1. a + i = (a + n) + 1 /\ 1 \in 1 .. 1
      <4> HIDE DEF a
      <4> QED BY <1>1, <2>1
    <3>2. QED
      BY <3>1 DEF Spares
  <2>2. CASE i # n + 1
    <3>1. i \in 1 .. n
      BY <2>2
    <3>2. a + i \in Refs(e)
      <4> HIDE DEF a
      <4> QED BY <1>1, <3>1
    <3>3. QED
      BY <3>1, <3>2 DEF Spares
  <2>3. QED
    BY <2>1, <2>2
<1>4. QED
  BY <1>2, <1>3 DEF Spares

\* e is d with n values that c has put after the first p items of the list l.
Lays(d, e, c, l, p, values, n) ==
    /\ Typed(d, e, c, n)
    /\ Spares(d, e, n)
    /\ Spliced(Row(d, l), Row(e, l), p, Len(d.heap), n)
    /\ \A i \in 1 .. n :
          LET it == e.heap[Len(d.heap) + i]
          IN  /\ it.list = l /\ it.str = <<values[i]>>
              /\ it.oleft.client = c => it.oleft.clock < it.id.clock
    /\ \A o \in List \ {l} : e.start[o] = d.start[o] /\ Row(e, o) = Row(d, o)
    /\ Ordered(d) => Ordered(e) /\ Broadens(d, e)

\* The two sides of a slot are items of the list, one after the other.
LEMMA SlotSides ==
  ASSUME NEW d, Sound(d), NEW rank, Ranked(d, rank), NEW l \in List,
         NEW p, NEW left, NEW right, IsSlot(Row(d, l), p, left, right)
  PROVE  /\ left \in {Nil} \cup Refs(d) /\ right \in {Nil} \cup Refs(d)
         /\ left # Nil => d.heap[left].list = l /\ rank[right] < rank[left]
         /\ right # Nil => d.heap[right].list = l
         /\ p \in Nat /\ p <= Len(Row(d, l)) /\ (left = Nil <=> p = 0) /\ (p > 0 => left = Row(d, l)[p])
<1> DEFINE s == Row(d, l)
<1>1. /\ Follows(d, d.start[l], s, OfList(d, l)) /\ Len(s) \in Nat
      /\ \A i \in 1 .. Len(s) : s[i] \in OfList(d, l) /\ s[i] \in Refs(d)
  BY RowFollows
<1> HIDE DEF s
<1>2. /\ p \in 0 .. Len(s)
      /\ left = IF p = 0 THEN Nil ELSE s[p]
      /\ right = IF p = Len(s) THEN Nil ELSE s[p + 1]
  BY DEF IsSlot, s
<1>3. p # 0 => p \in 1 .. Len(s) /\ left \in OfList(d, l) /\ left \in Refs(d)
  BY <1>1, <1>2
<1>9. p \in Nat /\ p <= Len(s) /\ (p # Len(s) => p + 1 \in 1 .. Len(s) /\ p < Len(s))
  <2> DEFINE N == Len(s)
  <2>1. N \in Nat /\ p \in 0 .. N
    BY <1>1, <1>2
  <2> HIDE DEF N
  <2>2. p \in Nat /\ p <= N /\ (p # N => p + 1 \in 1 .. N /\ p < N)
    BY <2>1
  <2>3. QED
    BY <2>2 DEF N
<1>4. p # Len(s) => p + 1 \in 1 .. Len(s) /\ right \in OfList(d, l) /\ right \in Refs(d)
  BY <1>1, <1>2, <1>9
<1>5. p # 0 => d.heap[left].right = right
  <2>1. SUFFICES ASSUME p # 0 PROVE d.heap[left].right = right
    OBVIOUS
  <2>2. CASE p = Len(s)
    BY <1>1, <1>2, <1>3, <2>1, <2>2 DEF Follows
  <2>3. CASE p # Len(s)
    <3>1. p \in 1 .. Len(s) - 1
      BY <1>1, <1>9, <2>1, <2>3
    <3>2. QED
      BY <1>1, <1>2, <2>1, <2>3, <3>1 DEF Follows
  <2>4. QED
    BY <2>2, <2>3
<1>6. left = Nil <=> p = 0
  BY <1>2, <1>3, NilIsNoRef
<1>7. left # Nil => rank[right] < rank[left]
  BY <1>3, <1>5, <1>6 DEF Ranked
<1>8. QED
  BY <1>1, <1>2, <1>3, <1>4, <1>6, <1>7 DEF OfList, s

\* One value.
LEMMA placeLays ==
  ASSUME NEW d, Sound(d), NEW c \in Client, NEW l \in List \ Key,
         NEW p, NEW left, NEW right, IsSlot(Row(d, l), p, left, right), NEW v \in 1 .. MaxChars
  PROVE  Lays(d, place(d, c, getState(d, c), l, left, right, <<v>>), c, l, p, <<v>>, 1)
<1> DEFINE e == place(d, c, getState(d, c), l, left, right, <<v>>)
           n == Len(d.heap) + 1
<1>1. PICK rank : Ranked(d, rank)
  BY DEF Sound
<1>2. /\ left \in {Nil} \cup Refs(d) /\ right \in {Nil} \cup Refs(d)
      /\ left # Nil => d.heap[left].list = l /\ rank[right] < rank[left]
      /\ right # Nil => d.heap[right].list = l
      /\ p \in Nat /\ p <= Len(Row(d, l)) /\ (left = Nil <=> p = 0) /\ (p > 0 => left = Row(d, l)[p])
  BY <1>1, SlotSides
<1>3. Typed(d, e, c, 1) /\ Laid(d, e, c, l, left, right, v)
  <2>1. /\ left \in {Nil} \cup Refs(d) /\ right \in {Nil} \cup Refs(d)
        /\ left # Nil => d.heap[left].list = l /\ rank[right] < rank[left]
        /\ right # Nil => d.heap[right].list = l
    BY <1>2
  <2>2. QED
    BY <1>1, <2>1, placeTypes
<1> HIDE DEF e
<1>4. PICK x : /\ Fits(d, x)
               /\ x.id = [client |-> c, clock |-> Len(d.store[c])]
               /\ x.str = <<v>> /\ x.list = l /\ ~x.deleted
               /\ x.oleft = IF left = Nil THEN NoID ELSE d.heap[left].id
               /\ Linked(d, e, x, left, right)
  BY <1>3 DEF Laid
<1>5. Sound(e) /\ x \in ItemType /\ Whole(d) /\ d \in Docs /\ Len(d.heap) \in Nat
  BY <1>3, <1>4, DocFields DEF Typed, Fits, Sound, Whole
<1>6. /\ PutIn(Row(d, l), Row(e, l), p, n)
      /\ \A o \in List : l # o => Row(e, o) = Row(d, o)
  BY <1>4, <1>5, LinkedRow
<1>7. Spliced(Row(d, l), Row(e, l), p, Len(d.heap), 1)
  <2> DEFINE s == Row(d, l)
             t == Row(e, l)
             a == Len(d.heap)
  <2>1. PutIn(s, t, p, a + 1)
    BY <1>6
  <2>2. \A i \in 1 .. 1 : i = 1
    OBVIOUS
  <2> HIDE DEF s, t, a
  <2>3. Spliced(s, t, p, a, 1)
    BY <2>1, <2>2 DEF PutIn, Spliced
  <2>4. QED
    BY <2>3 DEF s, t, a
<1>8. SameItem(e.heap[n], x)
  BY <1>4 DEF Linked, Grows
<1>9. left # Nil => /\ left \in Refs(d) /\ d.heap[left].id \in IdType
                    /\ Held(d, d.heap[left].id) /\ RefOf(d, d.heap[left].id) = left
  <2>1. \A k \in Refs(d) : d.heap[k].id \in IdType
    BY <1>5, DocFields, ItemFields
  <2>2. QED
    BY <1>2, <1>5, <2>1 DEF Whole, Held, RefOf
<1>10. x.oleft.client = c => x.oleft.clock < x.id.clock
  <2>1. CASE left = Nil
    BY <1>4, <2>1, ClientAssumption DEF NoID
  <2>2. CASE left # Nil
    BY <1>4, <1>9, <2>2 DEF Held
  <2>3. QED
    BY <2>1, <2>2
<1>11. ASSUME NEW i \in 1 .. 1
       PROVE  /\ e.heap[Len(d.heap) + i].list = l /\ e.heap[Len(d.heap) + i].str = << <<v>>[i] >>
              /\ e.heap[Len(d.heap) + i].oleft.client = c
                    => e.heap[Len(d.heap) + i].oleft.clock < e.heap[Len(d.heap) + i].id.clock
  <2>1. i = 1 /\ << <<v>>[i] >> = <<v>>
    OBVIOUS
  <2>2. e.heap[n].list = l /\ e.heap[n].str = <<v>> /\ e.heap[n].oleft = x.oleft /\ e.heap[n].id = x.id
    BY <1>4, <1>8 DEF SameItem
  <2>3. QED
    BY <1>10, <2>1, <2>2
<1>12. ASSUME NEW o \in List \ {l} PROVE e.start[o] = d.start[o] /\ Row(e, o) = Row(d, o)
  BY <1>4, <1>6 DEF Linked
<1>13. ASSUME Ordered(d) PROVE Ordered(e) /\ Broadens(d, e)
  <2>1. x.oleft # NoID => Held(d, x.oleft) /\ \E i \in 1 .. p : Row(d, x.list)[i] = RefOf(d, x.oleft)
    <3>1. SUFFICES ASSUME x.oleft # NoID
                   PROVE  Held(d, x.oleft) /\ \E i \in 1 .. p : Row(d, l)[i] = RefOf(d, x.oleft)
      BY <1>4
    <3>2. left # Nil /\ x.oleft = d.heap[left].id
      BY <1>4, <3>1
    <3>3. p \in 1 .. p /\ Row(d, l)[p] = left
      BY <1>2, <3>2
    <3>4. QED
      BY <1>9, <3>2, <3>3
  <2>2. x.list \in List \ Key /\ IsSlot(Row(d, x.list), p, left, right)
    BY <1>4
  <2>3. QED
    BY <1>4, <1>5, <1>13, <2>1, <2>2, LinkedOrdered
<1>0. Spares(d, e, 1)
  <2>1. ~e.heap[n].deleted /\ \A k \in Refs(d) : e.heap[k].deleted = d.heap[k].deleted
    BY <1>4 DEF Linked, Grows
  <2>2. \A i \in 1 .. 1 : i = 1
    OBVIOUS
  <2>3. QED
    BY <2>1, <2>2 DEF Spares
<1>14. Lays(d, e, c, l, p, <<v>>, 1)
  BY <1>0, <1>3, <1>7, <1>11, <1>12, <1>13 DEF Lays
<1>15. QED
  BY <1>14 DEF e

\* Items that are put after the ones put last.
LEMMA SplicedTwice ==
  ASSUME NEW E, NEW s \in Seq(E), NEW t \in Seq(E), NEW u \in Seq(E), NEW p, NEW a \in Nat, NEW n \in Nat,
         Spliced(s, t, p, a, n), Spliced(t, u, p + n, a + n, 1)
  PROVE  Spliced(s, u, p, a, n + 1)
<1>1. Len(s) \in Nat /\ p \in 0 .. Len(s) /\ Len(t) = Len(s) + n /\ Len(u) = Len(s) + (n + 1)
  BY DEF Spliced
<1>2. \A i \in 1 .. p : u[i] = s[i]
  BY <1>1 DEF Spliced
<1>3. ASSUME NEW i \in 1 .. n + 1 PROVE u[p + i] = a + i
  <2>1. CASE i = n + 1
    <3>1. 1 \in 1 .. 1 /\ (p + n) + 1 = p + i /\ (a + n) + 1 = a + i
      BY <1>1, <2>1
    <3>2. u[(p + n) + 1] = (a + n) + 1
      BY <3>1 DEF Spliced
    <3>3. QED
      BY <3>1, <3>2
  <2>2. CASE i # n + 1
    <3>1. i \in 1 .. n /\ p + i \in 1 .. p + n
      BY <1>1, <2>2
    <3>2. QED
      BY <3>1 DEF Spliced
  <2>3. QED
    BY <2>1, <2>2
<1>4. ASSUME NEW i \in p + 1 .. Len(s) PROVE u[i + (n + 1)] = s[i]
  <2>1. i + n \in (p + n) + 1 .. Len(t) /\ (i + n) + 1 = i + (n + 1)
    BY <1>1
  <2>2. t[i + n] = s[i] /\ u[(i + n) + 1] = t[i + n]
    BY <2>1 DEF Spliced
  <2>3. QED
    BY <2>1, <2>2
<1>5. QED
  BY <1>1, <1>2, <1>3, <1>4 DEF Spliced

\* Nothing is put yet.
LEMMA LaysNothing ==
  ASSUME NEW d, Sound(d), NEW c \in Client, NEW l \in List, NEW p \in 0 .. Len(Row(d, l)), NEW values
  PROVE  Lays(d, d, c, l, p, values, 0)
<1> DEFINE s == Row(d, l)
           a == Len(d.heap)
<1>1. s \in Seq(Refs(d)) /\ Len(s) \in Nat
  BY RowFollows
<1>2. Spliced(s, s, p, a, 0)
  <2> HIDE DEF s, a
  <2>1. \A i \in 1 .. 0 : s[p + i] = a + i
    OBVIOUS
  <2>2. \A i \in p + 1 .. Len(s) : s[i + 0] = s[i]
    BY <1>1
  <2>3. p \in 0 .. Len(s)
    BY DEF s
  <2>4. QED
    BY <1>1, <2>1, <2>2, <2>3 DEF Spliced
<1>3. Typed(d, d, c, 0)
  BY TypedNothing
<1>4. Broadens(d, d)
  <2>1. ASSUME NEW o \in List \ Key PROVE Widens(Row(d, o), Row(d, o))
    <3>1. Row(d, o) \in Seq(Refs(d))
      BY RowFollows
    <3>2. QED
      BY <3>1, WidensItself
  <2>2. QED
    BY <2>1 DEF Broadens
<1>5. Spares(d, d, 0)
  BY DEF Spares
<1>6. QED
  BY <1>2, <1>3, <1>4, <1>5 DEF Lays, s, a

\* One more value, put after the ones before.
LEMMA LaysAfter ==
  ASSUME NEW d, Sound(d), NEW c \in Client, NEW l \in List \ Key, NEW p, NEW values,
         NEW n \in Nat, NEW e, Lays(d, e, c, l, p, values, n),
         NEW f, Lays(e, f, c, l, p + n, <<values[n + 1]>>, 1)
  PROVE  Lays(d, f, c, l, p, values, n + 1)
<1>1. /\ Sound(e) /\ Sound(f) /\ Typed(d, e, c, n) /\ Typed(e, f, c, 1)
      /\ Len(d.heap) \in Nat /\ Len(e.heap) = Len(d.heap) + n
      /\ Extends(d, e) /\ Extends(e, f)
  BY DocFields DEF Lays, Typed, Sound, Whole
<1>2. Typed(d, f, c, n + 1)
  BY <1>1, TypedAfter
<1>3. Spliced(Row(d, l), Row(f, l), p, Len(d.heap), n + 1)
  <2> DEFINE s == Row(d, l)
             t == Row(e, l)
             u == Row(f, l)
  <2>1. s \in Seq(Nat) /\ t \in Seq(Nat) /\ u \in Seq(Nat)
    <3>1. Refs(d) \subseteq Nat /\ Refs(e) \subseteq Nat /\ Refs(f) \subseteq Nat
      BY DEF Refs
    <3>2. s \in Seq(Refs(d)) /\ t \in Seq(Refs(e)) /\ u \in Seq(Refs(f))
      BY <1>1, RowFollows
    <3> HIDE DEF s, t, u
    <3>3. QED
      BY <3>1, <3>2
  <2>2. Spliced(s, t, p, Len(d.heap), n) /\ Spliced(t, u, p + n, Len(d.heap) + n, 1)
    BY <1>1 DEF Lays
  <2> HIDE DEF s, t, u
  <2>3. Spliced(s, u, p, Len(d.heap), n + 1)
    BY <1>1, <2>1, <2>2, SplicedTwice
  <2>4. QED
    BY <2>3 DEF s, u
<1>4. ASSUME NEW i \in 1 .. n + 1
      PROVE  /\ f.heap[Len(d.heap) + i].list = l /\ f.heap[Len(d.heap) + i].str = <<values[i]>>
             /\ f.heap[Len(d.heap) + i].oleft.client = c
                   => f.heap[Len(d.heap) + i].oleft.clock < f.heap[Len(d.heap) + i].id.clock
  <2>1. CASE i = n + 1
    <3> DEFINE a == Len(d.heap)
    <3>1. Len(e.heap) + 1 = a + i /\ 1 \in 1 .. 1
      <4>1. a \in Nat /\ Len(e.heap) = a + n
        BY <1>1
      <4> HIDE DEF a
      <4>2. QED
        BY <2>1, <4>1
    <3>2. << <<values[n + 1]>>[1] >> = <<values[i]>>
      BY <2>1
    <3>3. /\ f.heap[Len(e.heap) + 1].list = l /\ f.heap[Len(e.heap) + 1].str = << <<values[n + 1]>>[1] >>
          /\ f.heap[Len(e.heap) + 1].oleft.client = c
                => f.heap[Len(e.heap) + 1].oleft.clock < f.heap[Len(e.heap) + 1].id.clock
      BY <3>1 DEF Lays
    <3>4. QED
      BY <3>1, <3>2, <3>3
  <2>2. CASE i # n + 1
    <3> DEFINE a == Len(d.heap)
               k == a + i
    <3>1. i \in 1 .. n
      BY <2>2
    <3>2. k \in Refs(e)
      <4>1. a \in Nat /\ Len(e.heap) = a + n
        BY <1>1
      <4> HIDE DEF a
      <4>2. QED
        BY <3>1, <4>1 DEF Refs
    <3> HIDE DEF a
    <3>3. SameItem(f.heap[k], e.heap[k])
      BY <1>1, <3>2 DEF Extends
    <3>4. /\ e.heap[k].list = l /\ e.heap[k].str = <<values[i]>>
          /\ e.heap[k].oleft.client = c => e.heap[k].oleft.clock < e.heap[k].id.clock
      BY <3>1 DEF Lays, a
    <3>5. QED
      BY <3>3, <3>4 DEF SameItem, a
  <2>3. QED
    BY <2>1, <2>2
<1>5. ASSUME NEW o \in List \ {l} PROVE f.start[o] = d.start[o] /\ Row(f, o) = Row(d, o)
  BY DEF Lays
<1>6. ASSUME Ordered(d) PROVE Ordered(f) /\ Broadens(d, f)
  <2>1. Ordered(f) /\ Broadens(d, e) /\ Broadens(e, f)
    BY <1>6 DEF Lays
  <2>2. ASSUME NEW o \in List \ Key PROVE Widens(Row(d, o), Row(f, o))
    <3>1. Widens(Row(d, o), Row(e, o)) /\ Widens(Row(e, o), Row(f, o))
      BY <2>1 DEF Broadens
    <3>2. Row(d, o) \in Seq(Nat) /\ Row(e, o) \in Seq(Nat) /\ Row(f, o) \in Seq(Nat)
      <4>1. Refs(d) \subseteq Nat /\ Refs(e) \subseteq Nat /\ Refs(f) \subseteq Nat
        BY DEF Refs
      <4>2. Row(d, o) \in Seq(Refs(d)) /\ Row(e, o) \in Seq(Refs(e)) /\ Row(f, o) \in Seq(Refs(f))
        BY <1>1, RowFollows
      <4>3. QED
        BY <4>1, <4>2
    <3>3. QED
      BY <3>1, <3>2, WidensTwice
  <2>3. QED
    BY <2>1, <2>2 DEF Broadens
<1>7. Spares(d, f, n + 1)
  BY <1>1, SparesAfter DEF Lays
<1>8. QED
  BY <1>2, <1>3, <1>4, <1>5, <1>6, <1>7 DEF Lays

\* After n values the next one goes between the last of them and what came after.
LEMMA NextSlot ==
  ASSUME NEW s, NEW t, NEW p \in Nat, NEW a \in Nat, NEW n \in Nat, Len(s) \in Nat, Spliced(s, t, p, a, n),
         NEW left, NEW right, IsSlot(s, p, left, right)
  PROVE  IsSlot(t, p + n, IF n = 0 THEN left ELSE a + n, right)
<1> DEFINE from == IF n = 0 THEN left ELSE a + n
           N == Len(s)
           M == Len(t)
<1>1. N \in Nat /\ M = N + n /\ p \in 0 .. N
  BY DEF Spliced
<1>2. p + n \in 0 .. M
  <2> HIDE DEF N, M
  <2> QED BY <1>1
<1>3. from = IF p + n = 0 THEN Nil ELSE t[p + n]
  <2>1. CASE n = 0
    <3>1. p + n = p /\ from = left
      BY <2>1
    <3>2. p # 0 => p \in 1 .. p
      OBVIOUS
    <3>3. p # 0 => t[p] = s[p]
      BY <3>2 DEF Spliced
    <3>4. QED
      BY <3>1, <3>3 DEF IsSlot
  <2>2. CASE n # 0
    <3>1. n \in 1 .. n /\ p + n # 0 /\ from = a + n
      BY <2>2
    <3>2. t[p + n] = a + n
      BY <3>1 DEF Spliced
    <3>3. QED
      BY <3>1, <3>2
  <2>3. QED
    BY <2>1, <2>2
<1>4. right = IF p + n = M THEN Nil ELSE t[p + n + 1]
  <2>1. right = IF p = N THEN Nil ELSE s[p + 1]
    BY DEF IsSlot
  <2>2. \A i \in p + 1 .. N : t[i + n] = s[i]
    BY DEF Spliced
  <2> HIDE DEF N, M
  <2>3. CASE p = N
    BY <1>1, <2>1, <2>3
  <2>4. CASE p # N
    <3>1. p + 1 \in p + 1 .. N /\ (p + 1) + n = p + n + 1 /\ p + n # M
      BY <1>1, <2>4
    <3>2. t[(p + 1) + n] = s[p + 1]
      BY <2>2, <3>1
    <3>3. QED
      BY <2>1, <2>4, <3>1, <3>2
  <2>5. QED
    BY <2>3, <2>4
<1>5. QED
  BY <1>2, <1>3, <1>4 DEF IsSlot

-----------------------------------------------------------------------------
(***************************************************************************)
(* How the documents of the peers are arranged.  L has the lists that the   *)
(* users edit.                                                             *)
(***************************************************************************)
\* The list of an item in the document of its client.
ListAt(D) == [id \in IdType |-> D[id.client].heap[RefOf(D[id.client], id)].list]

\* The own items of r are in the lists that are edited, after what was there before them.
Own(d, r, L) ==
    \A k \in Refs(d) : d.heap[k].id.client = r =>
        /\ d.heap[k].list \in L
        /\ d.heap[k].oleft.client = r => d.heap[k].oleft.clock < d.heap[k].id.clock

\* An item of an update that was typed at the beginning of a list names the list.
Filed(D, u) ==
    \A j \in 1 .. Len(u.items) : u.items[j].oleft = NoID => u.items[j].list = ListAt(D)[u.items[j].id]

Arranged(D, A, L) ==
    \A r \in Client :
        /\ Ordered(D[r]) /\ Labelled(D[r], ListAt(D)) /\ Own(D[r], r, L)
        /\ \A h \in 1 .. Len(A[r]) : Filed(D, A[r][h].update)

\* The list of an item stays.
LEMMA ListAtStays ==
  ASSUME NEW D, NEW E, Grown(D, E), NEW id \in IdType, Held(D[id.client], id)
  PROVE  ListAt(E)[id] = ListAt(D)[id]
<1> DEFINE c == id.client
           k == RefOf(D[c], id)
<1>1. c \in Client
  BY DEF IdType
<1>2. RefOf(E[c], id) = k /\ SameItem(E[c].heap[k], D[c].heap[k])
  <2> HIDE DEF c
  <2>1. Held(D[c], id)
    BY DEF c
  <2>2. QED
    BY <1>1, <2>1, HeldStays
<1>3. QED
  BY <1>2 DEF ListAt, SameItem

\* The list of an own item is what its document says.
LEMMA ListAtOwn ==
  ASSUME NEW D, NEW r \in Client, Sound(D[r]), NEW k \in Refs(D[r]), D[r].heap[k].id.client = r
  PROVE  D[r].heap[k].id \in IdType /\ ListAt(D)[D[r].heap[k].id] = D[r].heap[k].list
<1> DEFINE d == D[r]
           id == d.heap[k].id
<1>1. Sound(d) /\ Whole(d) /\ d \in Docs /\ k \in Refs(d)
  BY DEF Sound, Whole
<1>2. id \in IdType /\ RefOf(d, id) = k
  <2> HIDE DEF d
  <2>1. d.heap[k].id \in IdType
    BY <1>1, IdsOf
  <2>2. QED
    BY <1>1, <2>1 DEF Whole, RefOf
<1>3. QED
  BY <1>2 DEF ListAt

\* What an update says of its items holds as documents grow.
LEMMA FiledStays ==
  ASSUME NEW D, NEW E, Grown(D, E), NEW u, Meant(D, u), Filed(D, u)
  PROVE  Filed(E, u)
<1>1. ASSUME NEW j \in 1 .. Len(u.items), u.items[j].oleft = NoID
      PROVE  u.items[j].list = ListAt(E)[u.items[j].id]
  <2> DEFINE it == u.items[j]
  <2>1. it \in ItemType /\ Authored(D, it)
    BY DEF Meant
  <2>2. it.list = ListAt(D)[it.id]
    BY <1>1 DEF Filed
  <2> HIDE DEF it
  <2>3. it.id \in IdType
    BY <2>1, ItemFields
  <2>4. ListAt(E)[it.id] = ListAt(D)[it.id]
    BY <2>1, <2>3, ListAtStays DEF Authored
  <2>5. QED
    BY <2>2, <2>4 DEF it
<1>2. QED
  BY <1>1 DEF Filed

\* An item that its client typed names its list, or its origin is of its list.
LEMMA AuthoredFed ==
  ASSUME NEW D, NEW A, NEW L, L \subseteq List, Arranged(D, A, L), \A r \in Client : Sound(D[r]),
         NEW it \in ItemType, Authored(D, it), it.oleft = NoID => it.list = ListAt(D)[it.id]
  PROVE  Fed(it, ListAt(D))
<1> DEFINE c == it.id.client
           d == D[c]
           k == RefOf(d, it.id)
           F == ListAt(D)
<1>1. it.id \in IdType /\ c \in Client
  <2>1. it.id \in IdType
    BY ItemFields
  <2>2. QED
    BY <2>1 DEF IdType
<1>2. /\ Sound(d) /\ Whole(d) /\ d \in Docs
      /\ Ordered(d) /\ Labelled(d, F) /\ Own(d, c, L)
  BY <1>1 DEF Arranged, Sound, Whole
<1>3. Held(d, it.id) /\ Says(it, d.heap[k])
  BY DEF Authored
<1>4. k \in Refs(d) /\ d.heap[k].id = it.id
  <2> HIDE DEF d, c
  <2>1. QED
    BY <1>1, <1>2, <1>3, getItemFinds
<1>5. F[it.id] = d.heap[k].list
  BY <1>1 DEF ListAt
<1> DEFINE l == d.heap[k].list
<1>6. l \in List /\ l # NoList
  <2>1. d.heap[k].id.client = c
    BY <1>4
  <2> HIDE DEF c, d, k, F
  <2>2. l \in L
    BY <1>2, <1>4, <2>1 DEF Own
  <2>3. QED
    BY <2>2, ListAssumption
<1> HIDE DEF F, c, d, k
<1>7. CASE it.oleft = NoID
  BY <1>5, <1>6, <1>7 DEF Fed, F
<1>8. CASE it.oleft # NoID
  <2> DEFINE o == it.oleft
             m == RefOf(d, o)
  <2>1. d.heap[k].oleft = o /\ o \in IdType
    BY <1>3, <1>8, ItemFields DEF Says
  <2>2. l \notin Key /\ Held(d, o) /\ Leads(Row(d, l), m, k)
    BY <1>2, <1>4, <1>6, <1>8, <2>1 DEF Ordered, OrderedAt
  <2>3. m \in Refs(d) /\ d.heap[m].id = o
    BY <1>2, <2>1, <2>2, getItemFinds
  <2>4. d.heap[m].list = l
    <3>1. \A i \in 1 .. Len(Row(d, l)) : Row(d, l)[i] \in OfList(d, l)
      BY <1>2, <1>6, RowFollows
    <3>2. m \in OfList(d, l)
      BY <2>2, <3>1 DEF Leads
    <3>3. QED
      BY <3>2 DEF OfList
  <2>5. F[o] = l
    BY <1>2, <1>6, <2>3, <2>4 DEF Labelled
  <2>6. QED
    BY <1>5, <1>8, <2>2, <2>5 DEF Fed, F
<1>9. QED
  BY <1>7, <1>8

\* One document changes.
LEMMA ReplacingArranged ==
  ASSUME NEW D, NEW T, NEW A, NEW G, NEW y, Consistent(D, T, A, G, y), NEW L, Arranged(D, A, L),
         NEW r \in Client, NEW e, NEW E, Replaces(D, E, r, e), Grown(D, E), Agrees(E, r),
         Ordered(e), Own(e, r, L),
         \A k \in Refs(e) : e.heap[k].id.client # r /\ e.heap[k].list # NoList
                               => e.heap[k].list = ListAt(D)[e.heap[k].id]
  PROVE  Arranged(E, A, L)
<1>1. ASSUME NEW q \in Client, q # r PROVE Ordered(E[q]) /\ Labelled(E[q], ListAt(E)) /\ Own(E[q], q, L)
  <2>1. E[q] = D[q]
    BY <1>1 DEF Replaces
  <2> DEFINE d == D[q]
  <2>2. Ordered(d) /\ Labelled(d, ListAt(D)) /\ Own(d, q, L)
    BY DEF Arranged
  <2>3. ASSUME NEW k \in Refs(d), d.heap[k].list # NoList PROVE d.heap[k].list = ListAt(E)[d.heap[k].id]
    <3>1. Authored(D, d.heap[k]) /\ d.heap[k].id \in IdType
      <4>1. Agrees(D, q)
        BY DEF Consistent, Settled
      <4>2. d.heap[k].id \in IdType
        BY SettledSound
      <4>3. QED
        BY <4>1, <4>2 DEF Agrees
    <3> DEFINE it == d.heap[k]
    <3>2. Authored(D, it) /\ it.id \in IdType
      BY <3>1
    <3>3. it.list = ListAt(D)[it.id]
      BY <2>2, <2>3 DEF Labelled
    <3> HIDE DEF it, d
    <3>4. ListAt(E)[it.id] = ListAt(D)[it.id]
      BY <3>2, ListAtStays DEF Authored
    <3>5. QED
      BY <3>3, <3>4 DEF it
  <2>4. Labelled(d, ListAt(E))
    BY <2>3 DEF Labelled
  <2>5. QED
    BY <2>1, <2>2, <2>4
<1>2. Labelled(e, ListAt(E))
  <2>1. E[r] = e /\ Sound(e)
    BY DEF Replaces, Agrees
  <2>2. ASSUME NEW k \in Refs(e), e.heap[k].list # NoList PROVE e.heap[k].list = ListAt(E)[e.heap[k].id]
    <3>1. CASE e.heap[k].id.client = r
      BY <2>1, <3>1, ListAtOwn
    <3>2. CASE e.heap[k].id.client # r
      <4> DEFINE id == e.heap[k].id
      <4>1. id \in IdType
        BY <2>1, IdsOf
      <4>2. E[id.client] = D[id.client]
        <5>1. id.client \in Client \ {r}
          BY <3>2, <4>1 DEF IdType
        <5>2. QED
          BY <5>1 DEF Replaces
      <4>3. e.heap[k].list = ListAt(D)[id]
        BY <2>2, <3>2
      <4> HIDE DEF id
      <4>4. ListAt(E)[id] = ListAt(D)[id]
        BY <4>1, <4>2 DEF ListAt
      <4>5. QED
        BY <4>3, <4>4 DEF id
    <3>3. QED
      BY <3>1, <3>2
  <2>3. QED
    BY <2>2 DEF Labelled
<1>3. ASSUME NEW q \in Client, NEW h \in 1 .. Len(A[q]) PROVE Filed(E, A[q][h].update)
  <2>1. Sent(D, A[q], h) /\ Filed(D, A[q][h].update)
    BY DEF Consistent, Settled, Arranged
  <2>2. Meant(D, A[q][h].update)
    BY <2>1 DEF Sent, Meant
  <2>3. QED
    BY <2>1, <2>2, FiledStays
<1>4. ASSUME NEW q \in Client
      PROVE  /\ Ordered(E[q]) /\ Labelled(E[q], ListAt(E)) /\ Own(E[q], q, L)
             /\ \A h \in 1 .. Len(A[q]) : Filed(E, A[q][h].update)
  <2>1. CASE q = r
    <3>1. E[q] = e
      BY <2>1 DEF Replaces
    <3>2. QED
      BY <1>2, <1>3, <2>1, <3>1
  <2>2. CASE q # r
    BY <1>1, <1>3, <2>2
  <2>3. QED
    BY <2>1, <2>2
<1>5. QED
  BY <1>4 DEF Arranged

\* The items of an edit are in lists that are edited, each after its origin.
Edits(d, e, c, L, n) ==
    /\ Typed(d, e, c, n)
    /\ \A i \in 1 .. n :
          LET it == e.heap[Len(d.heap) + i]
          IN  it.list \in L /\ (it.oleft.client = c => it.oleft.clock < it.id.clock)
    /\ Ordered(d) => Ordered(e) /\ Broadens(d, e)

\* An edit keeps the peers arranged.
LEMMA EditArranged ==
  ASSUME NEW D, NEW T, NEW A, NEW G, NEW y, Consistent(D, T, A, G, y), NEW L, Arranged(D, A, L),
         NEW r \in Client, NEW n \in Nat, NEW e, Edits(D[r], e, r, L, n),
         NEW E, Replaces(D, E, r, e), Agrees(E, r)
  PROVE  Arranged(E, A, L) /\ Broadens(D[r], e)
<1> DEFINE d == D[r]
           a == Len(d.heap)
<1>1. /\ Sound(d) /\ Sound(e) /\ Extends(d, e) /\ Typed(d, e, r, n)
      /\ Ordered(d) /\ Own(d, r, L) /\ Labelled(d, ListAt(D))
  BY SettledSound DEF Edits, Typed, Arranged
<1>2. Grown(D, E)
  BY <1>1, ReplacesGrows
<1>3. Ordered(e) /\ Broadens(d, e)
  BY <1>1 DEF Edits
<1>4. \A i \in 1 .. n : /\ e.heap[a + i].list \in L /\ e.heap[a + i].id.client = r
                        /\ e.heap[a + i].oleft.client = r => e.heap[a + i].oleft.clock < e.heap[a + i].id.clock
  <2>1. ASSUME NEW i \in 1 .. n
        PROVE  /\ e.heap[a + i].list \in L
               /\ e.heap[a + i].oleft.client = r => e.heap[a + i].oleft.clock < e.heap[a + i].id.clock
    BY DEF Edits
  <2>2. ASSUME NEW i \in 1 .. n PROVE e.heap[a + i].id.client = r
    <3>1. e.heap[a + i].id = [client |-> r, clock |-> Len(d.store[r]) + (i - 1)]
      BY <1>1 DEF Typed
    <3>2. QED
      BY <3>1
  <2>3. QED
    BY <2>1, <2>2
<1>5. \A k \in Refs(e) : k \in Refs(d) \/ \E i \in 1 .. n : k = a + i
  <2> HIDE DEF d
  <2>1. OldAndNew(d, e, n)
    BY <1>1, OldOrNew
  <2>2. QED
    BY <2>1 DEF OldAndNew
<1>6. \A k \in Refs(d) : SameItem(e.heap[k], d.heap[k])
  BY <1>1 DEF Extends
<1> HIDE DEF d, a
<1>7. ASSUME NEW k \in Refs(e), e.heap[k].id.client = r
      PROVE  e.heap[k].list \in L /\ (e.heap[k].oleft.client = r => e.heap[k].oleft.clock < e.heap[k].id.clock)
  <2>1. CASE k \in Refs(d)
    BY <1>1, <1>6, <1>7, <2>1 DEF Own, SameItem
  <2>2. CASE \E i \in 1 .. n : k = a + i
    BY <1>4, <2>2
  <2>3. QED
    BY <1>5, <2>1, <2>2
<1>8. Own(e, r, L)
  BY <1>7 DEF Own
<1>9. ASSUME NEW k \in Refs(e), e.heap[k].id.client # r, e.heap[k].list # NoList
      PROVE  e.heap[k].list = ListAt(D)[e.heap[k].id]
  <2>1. k \in Refs(d)
    BY <1>4, <1>5, <1>9
  <2>2. QED
    BY <1>1, <1>6, <1>9, <2>1 DEF Labelled, SameItem
<1>10. Arranged(E, A, L)
  BY <1>2, <1>3, <1>8, <1>9, ReplacingArranged
<1>11. QED
  BY <1>3, <1>10 DEF d

\* A deletion keeps the peers arranged.
LEMMA CutArranged ==
  ASSUME NEW D, NEW T, NEW A, NEW G, NEW y, Consistent(D, T, A, G, y), NEW L, Arranged(D, A, L),
         NEW r \in Client, NEW result, Cuts(D[r], result),
         NEW E, Replaces(D, E, r, result.doc), Agrees(E, r)
  PROVE  Arranged(E, A, L) /\ Orders(D[r], result.doc, ListAt(D))
<1> DEFINE d == D[r]
           e == result.doc
           F == ListAt(D)
<1>1. Sound(d) /\ Ordered(d) /\ Own(d, r, L) /\ Labelled(d, F)
  BY SettledSound DEF Arranged
<1>2. /\ Sound(e) /\ Len(e.heap) = Len(d.heap) /\ e.start = d.start
      /\ \A k \in Refs(d) : SameItem(e.heap[k], d.heap[k]) /\ e.heap[k].right = d.heap[k].right
  BY DEF Cuts
<1> HIDE DEF d, e, F
<1>3. Orders(d, e, F)
  BY <1>1, <1>2, MarkedOrders
<1>4. Ordered(e) /\ Labelled(e, F) /\ Extends(d, e) /\ Refs(e) = Refs(d)
  BY <1>2, <1>3 DEF Orders, Refs
<1>5. Own(e, r, L)
  BY <1>1, <1>2, <1>4 DEF Own, SameItem
<1>6. Grown(D, E)
  BY <1>2, <1>4, ReplacesGrows DEF d, e
<1>7. Arranged(E, A, L)
  BY <1>4, <1>5, <1>6, ReplacingArranged DEF Labelled, F, e
<1>8. QED
  BY <1>3, <1>7 DEF d, e, F

\* An update keeps the peers arranged.
LEMMA JoinArranged ==
  ASSUME NEW D, NEW T, NEW A, NEW G, NEW y, Consistent(D, T, A, G, y),
         NEW L, L \subseteq List, Arranged(D, A, L),
         NEW r \in Client, NEW u, Meant(D, u), Filed(D, u), Readable(D[r], u.items),
         NEW E, Replaces(D, E, r, ApplyUpdate(D[r], u))
  PROVE  /\ Arranged(E, A, L) /\ Orders(D[r], ApplyUpdate(D[r], u), ListAt(D))
         /\ Rooted(D[r], u.items) /\ AllIn(D[r]) => AllIn(ApplyUpdate(D[r], u))
<1> DEFINE d == D[r]
           e == ApplyUpdate(d, u)
           F == ListAt(D)
<1>1. Sound(d) /\ Ordered(d) /\ Own(d, r, L) /\ Labelled(d, F) /\ \A q \in Client : Sound(D[q])
  BY SettledSound DEF Arranged
<1>2. ASSUME NEW j \in 1 .. Len(u.items) PROVE Fed(u.items[j], F)
  <2> DEFINE it == u.items[j]
  <2>1. it \in ItemType /\ Authored(D, it) /\ (it.oleft = NoID => it.list = ListAt(D)[it.id])
    BY DEF Meant, Filed
  <2> HIDE DEF it
  <2>2. Fed(it, F)
    BY <1>1, <2>1, AuthoredFed
  <2>3. QED
    BY <2>2 DEF it
<1>3. u.items \in Seq(ItemType) /\ u.dels \in Seq(Ranges) /\ Readable(d, u.items)
  BY DEF Meant
<1> HIDE DEF F, d
<1>4. Updated(d, e, u)
  BY <1>1, <1>3, ApplyUpdateSound
<1>5. Orders(d, e, F) /\ (Rooted(d, u.items) /\ AllIn(d) => AllIn(e))
  BY <1>1, <1>2, <1>3, ApplyUpdateOrders
<1>6. Replaces(D, E, r, e)
  BY DEF d
<1> HIDE DEF e
<1>7. /\ Grown(D, E) /\ Agrees(E, r)
      /\ \A k \in Refs(e) : k \notin Refs(d) => e.heap[k].id.client # r
  BY <1>4, <1>6, JoiningAgrees DEF d
<1>8. Ordered(e) /\ Labelled(e, F) /\ \A k \in Refs(d) : SameItem(e.heap[k], d.heap[k])
  BY <1>5 DEF Orders, Extends
<1>9. Own(e, r, L)
  BY <1>1, <1>7, <1>8 DEF Own, SameItem
<1>10. Arranged(E, A, L)
  BY <1>6, <1>7, <1>8, <1>9, ReplacingArranged DEF Labelled, F
<1>11. QED
  BY <1>5, <1>10 DEF d, e, F

\* A transaction that is announced keeps the peers arranged.
LEMMA AnnounceArranged ==
  ASSUME NEW D, NEW T, NEW A, NEW G, NEW y, Consistent(D, T, A, G, y), NEW L, Arranged(D, A, L),
         NEW r \in Client, NEW u, Announces(D[r], u, T[r].items, T[r].dels),
         NEW B, NEW H, Announcing(A, B, G, H, r, u)
  PROVE  Arranged(D, B, L)
<1> DEFINE d == D[r]
           items == T[r].items
<1>1. \A i \in 1 .. Len(items) : items[i] \in Refs(d) /\ d.heap[items[i]].id.client = r
  <2>1. /\ items \in Seq(Refs(d))
        /\ \A i \in 1 .. Len(items) :
              d.heap[items[i]].id = [client |-> r, clock |-> Len(d.store[r]) - Len(items) + (i - 1)]
    BY DEF Consistent, Settled, Opened
  <2> HIDE DEF items, d
  <2>2. \A i \in 1 .. Len(items) : items[i] \in Refs(d)
    BY <2>1, SeqElements
  <2>3. ASSUME NEW i \in 1 .. Len(items) PROVE d.heap[items[i]].id.client = r
    <3>1. d.heap[items[i]].id = [client |-> r, clock |-> Len(d.store[r]) - Len(items) + (i - 1)]
      BY <2>1
    <3>2. QED
      BY <3>1
  <2>4. QED
    BY <2>2, <2>3
<1>2. Sound(d)
  BY SettledSound
<1>3. Filed(D, u)
  <2>1. ASSUME NEW j \in 1 .. Len(u.items), u.items[j].oleft = NoID
        PROVE  u.items[j].list = ListAt(D)[u.items[j].id]
    <3>1. PICK i \in 1 .. Len(items) : Spells(u.items[j], d.heap[items[i]])
      BY DEF Announces
    <3> DEFINE k == items[i]
    <3>2. k \in Refs(d) /\ d.heap[k].id.client = r
      BY <1>1
    <3>3. ListAt(D)[d.heap[k].id] = d.heap[k].list
      <4> HIDE DEF k
      <4>1. QED
        BY <1>2, <3>2, ListAtOwn
    <3>4. QED
      BY <2>1, <3>1, <3>3 DEF Spells, Says
  <2>2. QED
    BY <2>1 DEF Filed
<1>4. ASSUME NEW q \in Client, NEW h \in 1 .. Len(B[q]) PROVE Filed(D, B[q][h].update)
  <2>1. CASE q = r /\ h = Len(A[r]) + 1
    BY <1>3, <2>1 DEF Announcing
  <2>2. CASE ~(q = r /\ h = Len(A[r]) + 1)
    <3>1. h \in 1 .. Len(A[q]) /\ B[q][h] = A[q][h]
      BY <2>2 DEF Announcing
    <3>2. QED
      BY <3>1 DEF Arranged
  <2>3. QED
    BY <2>1, <2>2
<1>5. QED
  BY <1>4 DEF Arranged

-----------------------------------------------------------------------------
(***************************************************************************)
(* The steps of Exchange.                                                  *)
(***************************************************************************)
\* An announced update says of its items what their client says.
LEMMA AnnouncedMeans ==
  ASSUME Inv, NEW s \in Client, NEW k \in DOMAIN announced[s]
  PROVE  /\ k \in 1 .. Len(announced[s]) /\ k \in Nat
         /\ Meant(doc, announced[s][k].update) /\ Sent(doc, announced[s], k)
<1>1. k \in 1 .. Len(announced[s]) /\ k \in Nat
  <2>1. PICK S : announced[s] \in Seq(S)
    BY DEF Inv, Shape
  <2>2. QED
    BY <2>1
<1>2. Sent(doc, announced[s], k)
  BY <1>1 DEF Inv, Consistent, Settled
<1>3. QED
  BY <1>1, <1>2 DEF Sent, Meant

\* An update that is handed over.
LEMMA DeliverArranges ==
  ASSUME Inv, NEW L, L \subseteq List, Arranged(doc, announced, L),
         NEW r \in Client, NEW s \in Client, NEW k \in DOMAIN announced[s], Deliver(r, s, k)
  PROVE  /\ Arranged(doc', announced', L) /\ Orders(doc[r], doc'[r], ListAt(doc))
         /\ Rooted(doc[r], announced[s][k].update.items) /\ AllIn(doc[r]) => AllIn(doc'[r])
         /\ \A q \in Client \ {r} : doc'[q] = doc[q]
<1> DEFINE u == announced[s][k].update
           e == ApplyUpdate(doc[r], u)
<1>1. k \in 1 .. Len(announced[s]) /\ Meant(doc, u)
  BY AnnouncedMeans
<1>2. Filed(doc, u)
  BY <1>1 DEF Arranged
<1>3. Readable(doc[r], u.items)
  BY <1>1, SentReadable DEF Inv, Deliver, HandOver
<1>4. Replaces(doc, doc', r, e) /\ announced' = announced
  BY DEF Deliver, Inv, Shape, Replaces
<1> HIDE DEF u
<1>5. /\ Arranged(doc', announced, L) /\ Orders(doc[r], e, ListAt(doc))
      /\ Rooted(doc[r], u.items) /\ AllIn(doc[r]) => AllIn(e)
  BY <1>1, <1>2, <1>3, <1>4, JoinArranged DEF Inv
<1> HIDE DEF e
<1>6. doc'[r] = e /\ \A q \in Client \ {r} : doc'[q] = doc[q]
  BY <1>4 DEF Replaces
<1>7. QED
  BY <1>4, <1>5, <1>6 DEF u

\* An exchange of states.
LEMMA SyncArranges ==
  ASSUME WideChar = {}, Inv, NEW L, L \subseteq List, Arranged(doc, announced, L),
         NEW r \in Client, NEW s \in Client, Sync(r, s)
  PROVE  /\ Arranged(doc', announced', L) /\ Orders(doc[r], doc'[r], ListAt(doc))
         /\ \A q \in Client \ {r} : doc'[q] = doc[q]
<1> DEFINE u == EncodeStateAsUpdate(doc[s], stateVector(doc[r]))
           e == ApplyUpdate(doc[r], u)
<1>1. Replaces(doc, doc', r, e) /\ announced' = announced
  BY DEF Sync, Inv, Shape, Replaces
<1>2. /\ Meant(doc, u) /\ Readable(doc[r], u.items)
      /\ \A j \in 1 .. Len(u.items) : \E k \in Refs(doc[s]) : Spells(u.items[j], doc[s].heap[k])
  <2> HIDE DEF u
  <2>1. u = EncodeStateAsUpdate(doc[s], stateVector(doc[r]))
    BY DEF u
  <2>2. QED
    BY <2>1, SyncUpdates DEF Inv
<1> HIDE DEF u
<1>3. Filed(doc, u)
  <2>1. ASSUME NEW j \in 1 .. Len(u.items), u.items[j].oleft = NoID
        PROVE  u.items[j].list = ListAt(doc)[u.items[j].id]
    <3>1. PICK k \in Refs(doc[s]) : Spells(u.items[j], doc[s].heap[k])
      BY <1>2
    <3>2. Ordered(doc[s]) /\ Labelled(doc[s], ListAt(doc))
      BY DEF Arranged
    <3>3. doc[s].heap[k].oleft = NoID /\ doc[s].heap[k].list # NoList
      BY <2>1, <3>1, <3>2 DEF Ordered, OrderedAt, Spells, Says
    <3>4. QED
      BY <3>1, <3>2, <3>3 DEF Labelled, Spells, Says
  <2>2. QED
    BY <2>1 DEF Filed
<1>4. Arranged(doc', announced, L) /\ Orders(doc[r], e, ListAt(doc))
  BY <1>1, <1>2, <1>3, JoinArranged DEF Inv
<1> HIDE DEF e
<1>5. doc'[r] = e /\ \A q \in Client \ {r} : doc'[q] = doc[q]
  BY <1>1 DEF Replaces
<1>6. QED
  BY <1>1, <1>4, <1>5

\* The end of a transaction.
LEMMA CommitArranges ==
  ASSUME WideChar = {}, Inv, NEW L, Arranged(doc, announced, L), NEW r \in Client, Commit(r)
  PROVE  Arranged(doc', announced', L) /\ doc' = doc
<1>1. doc' = doc
  BY DEF Commit
<1>2. CASE tx[r].items = <<>> /\ tx[r].dels = <<>>
  BY <1>1, <1>2 DEF Commit
<1>3. CASE ~(tx[r].items = <<>> /\ tx[r].dels = <<>>)
  <2>1. PICK u : Commits(r, u)
    BY <1>3, CommitAnnounces
  <2>2. Arranged(doc, announced', L)
    BY <2>1, AnnounceArranged DEF Inv, Commits
  <2>3. QED
    BY <1>1, <2>2
<1>4. QED
  BY <1>2, <1>3

\* Nothing is arranged wrong at first.
LEMMA InitArranged == Init => \A L : Arranged(doc, announced, L)
<1> SUFFICES ASSUME Init, NEW L, NEW r \in Client
             PROVE  /\ Ordered(doc[r]) /\ Labelled(doc[r], ListAt(doc)) /\ Own(doc[r], r, L)
                    /\ \A h \in 1 .. Len(announced[r]) : Filed(doc, announced[r][h].update)
  BY DEF Arranged
<1>1. doc[r] = EmptyDoc /\ announced[r] = <<>>
  BY DEF Init
<1>2. Refs(doc[r]) = {}
  BY <1>1, EmptySound
<1>3. QED
  BY <1>1, <1>2 DEF Ordered, Labelled, Own

\* An edit of r, of which nothing but the document of r is known here.
LEMMA InsertsArrange ==
  ASSUME Inv, Inv', NEW L, Arranged(doc, announced, L), NEW r \in Client,
         NEW n \in Nat, NEW d, Edits(doc[r], d, r, L, n), NEW refs, Inserts(r, d, refs, n)
  PROVE  /\ Arranged(doc', announced', L) /\ doc'[r] = d /\ Broadens(doc[r], d)
         /\ \A q \in Client \ {r} : doc'[q] = doc[q]
<1>1. Replaces(doc, doc', r, d) /\ announced' = announced
  BY DEF Inserts, Inv, Shape, Replaces
<1>2. Agrees(doc', r)
  BY DEF Inv, Consistent, Settled
<1>3. Arranged(doc', announced, L) /\ Broadens(doc[r], d)
  BY <1>1, <1>2, EditArranged DEF Inv
<1>4. QED
  BY <1>1, <1>3 DEF Replaces

LEMMA DeletesArrange ==
  ASSUME Inv, Inv', NEW L, Arranged(doc, announced, L), NEW r \in Client,
         NEW result, Cuts(doc[r], result), Deletes(r, result)
  PROVE  /\ Arranged(doc', announced', L) /\ Orders(doc[r], doc'[r], ListAt(doc))
         /\ doc'[r] = result.doc
         /\ \A q \in Client \ {r} : doc'[q] = doc[q]
<1>1. Replaces(doc, doc', r, result.doc) /\ announced' = announced
  BY DEF Deletes, Inv, Shape, Replaces
<1>2. Agrees(doc', r)
  BY DEF Inv, Consistent, Settled
<1>3. Arranged(doc', announced, L) /\ Orders(doc[r], result.doc, ListAt(doc))
  BY <1>1, <1>2, CutArranged DEF Inv
<1>4. QED
  BY <1>1, <1>3 DEF Replaces

-----------------------------------------------------------------------------
(***************************************************************************)
(* Updates that come in causal order.                                      *)
(***************************************************************************)
\* Update k of r names for each item an origin that is earlier in the update, or in an
\* update that r had applied.
TracedAt(A, r, k) ==
    LET u    == A[r][k].update.items
        seen == A[r][k].seen
    IN  /\ \A q \in Client : seen[q] \subseteq 1 .. Len(A[q])
        /\ \A j \in 1 .. Len(u) : u[j].oleft # NoID =>
              \/ \E i \in 1 .. j - 1 : u[i].id = u[j].oleft
              \/ \E q \in Client : \E h \in seen[q] : u[j].oleft \in ItemIds(A[q][h].update)

Traced(A) == \A r \in Client : \A k \in 1 .. Len(A[r]) : TracedAt(A, r, k)

\* Where no states are exchanged every update can be traced; and where they come in
\* causal order, every item has found its list.
Causes(D, A, y, b) ==
    y = 0 => /\ Traced(A)
             /\ b => \A r \in Client : AllIn(D[r])

\* Who has applied what the sender had applied holds the origins or reads them first.
LEMMA RootedWhenSeen ==
  ASSUME NEW D, NEW A, NEW G, NEW r \in Client, Received(D, A, G, r),
         NEW s \in Client, NEW k, TracedAt(A, s, k),
         \A q \in Client : A[s][k].seen[q] \subseteq G[r][q]
  PROVE  Rooted(D[r], A[s][k].update.items)
<1> DEFINE u == A[s][k].update.items
           seen == A[s][k].seen
<1>1. \A j \in 1 .. Len(u) : u[j].oleft # NoID =>
         \/ \E i \in 1 .. j - 1 : u[i].id = u[j].oleft
         \/ \E q \in Client : \E h \in seen[q] : u[j].oleft \in ItemIds(A[q][h].update)
  BY DEF TracedAt
<1>2. \A q \in Client : seen[q] \subseteq G[r][q]
  OBVIOUS
<1>3. \A q \in Client : \A h \in G[r][q] : \A id \in ItemIds(A[q][h].update) : Held(D[r], id)
  BY DEF Received
<1> HIDE DEF u, seen
<1>4. \A j \in 1 .. Len(u) : u[j].oleft # NoID =>
         Held(D[r], u[j].oleft) \/ \E i \in 1 .. j - 1 : u[i].id = u[j].oleft
  BY <1>1, <1>2, <1>3
<1>5. QED
  BY <1>4 DEF Rooted, u

\* The items of the transaction with smaller clocks come earlier in its update.
LEMMA EarlierInUpdate ==
  ASSUME NEW d, NEW c \in Client, NEW items, Run(d, items, c), NEW u, NEW dels, Announces(d, u, items, dels),
         NEW first \in Nat, Len(items) > 0 => d.heap[items[1]].id = [client |-> c, clock |-> first],
         NEW j \in 1 .. Len(u.items), NEW clock \in Nat, first <= clock, clock < u.items[j].id.clock
  PROVE  \E i \in 1 .. j - 1 : u.items[i].id = [client |-> c, clock |-> clock]
<1> DEFINE us == u.items
           Id(n) == [client |-> c, clock |-> n]
           Good == { n \in Nat : \A m \in 1 .. Len(us) : us[m].id = Id(first + n) =>
                        \A x \in Nat : first <= x /\ x < first + n => \E i \in 1 .. m - 1 : us[i].id = Id(x) }
<1>1. Len(us) \in Nat /\ Len(items) \in Nat
  <2>1. us \in Seq(ItemType) /\ items \in Seq(Refs(d))
    BY DEF Announces, Run
  <2> DEFINE R == Refs(d)
  <2>2. items \in Seq(R)
    BY <2>1
  <2> HIDE DEF R, us
  <2>3. QED
    BY <2>1, <2>2
<1>2. ASSUME NEW m \in 1 .. Len(us)
      PROVE  \E i \in 1 .. Len(items) :
                /\ us[m].id = Id(first + (i - 1))
                /\ i = 1 \/ \E h \in 1 .. m - 1 : us[h].id = Before(us[m].id)
  <2>1. PICK i \in 1 .. Len(items) :
           /\ Spells(us[m], d.heap[items[i]])
           /\ i = 1 \/ \E h \in 1 .. m - 1 : us[h].id = Before(us[m].id)
    BY DEF Announces
  <2>2. us[m].id = d.heap[items[i]].id
    BY <2>1 DEF Spells, Says
  <2>3. Len(items) > 0
    BY <1>1
  <2>4. d.heap[items[i]].id = [client |-> c, clock |-> first + (i - 1)]
    <3>1. d.heap[items[i]].id = [client |-> c, clock |-> d.heap[items[1]].id.clock + (i - 1)]
      BY DEF Run
    <3>2. d.heap[items[1]].id.clock = first
      BY <2>3
    <3>3. QED
      BY <3>1, <3>2
  <2>5. QED
    BY <2>1, <2>2, <2>4
<1> HIDE DEF us
<1>3. \A a, b \in Nat : Id(a) = Id(b) => a = b
  <2>1. ASSUME NEW a \in Nat, NEW b \in Nat, Id(a) = Id(b) PROVE a = b
    <3>1. Id(a).clock = a /\ Id(b).clock = b
      OBVIOUS
    <3>2. QED
      BY <2>1, <3>1
  <2>2. QED
    BY <2>1
<1>4. 0 \in Good
  BY <1>1
<1>5. ASSUME NEW n \in Nat, n \in Good PROVE n + 1 \in Good
  <2>1. SUFFICES ASSUME NEW m \in 1 .. Len(us), us[m].id = Id(first + (n + 1)),
                        NEW x \in Nat, first <= x, x < first + (n + 1)
                 PROVE  \E i \in 1 .. m - 1 : us[i].id = Id(x)
    <3> HIDE DEF Id
    <3> QED OBVIOUS
  <2>2. PICK i \in 1 .. Len(items) :
           /\ us[m].id = Id(first + (i - 1))
           /\ i = 1 \/ \E h \in 1 .. m - 1 : us[h].id = Before(us[m].id)
    BY <1>2
  <2>3. i - 1 = n + 1
    <3>1. first + (i - 1) \in Nat /\ first + (n + 1) \in Nat /\ i \in Nat
      BY <1>1
    <3>2. first + (i - 1) = first + (n + 1)
      BY <1>3, <2>1, <2>2, <3>1
    <3>3. QED
      BY <3>1, <3>2
  <2>4. PICK h \in 1 .. m - 1 : us[h].id = Before(us[m].id)
    BY <1>1, <2>2, <2>3
  <2>5. us[h].id = Id(first + n) /\ h \in 1 .. Len(us)
    <3>1. Before(us[m].id) = Id((first + (n + 1)) - 1)
      BY <2>1 DEF Before
    <3>2. (first + (n + 1)) - 1 = first + n /\ h \in 1 .. Len(us)
      BY <1>1
    <3>3. QED
      BY <2>4, <3>1, <3>2
  <2>6. CASE x = first + n
    BY <2>5, <2>6
  <2>7. CASE x # first + n
    <3>1. x < first + n
      <4>1. \A a, b \in Nat : a < b + 1 /\ a # b => a < b
        OBVIOUS
      <4>2. first + n \in Nat /\ first + (n + 1) = (first + n) + 1
        OBVIOUS
      <4> HIDE DEF Id, Good
      <4>3. QED
        BY <2>1, <2>7, <4>1, <4>2, Zenon
    <3>2. PICK g \in 1 .. h - 1 : us[g].id = Id(x)
      <4> HIDE DEF Id
      <4> QED BY <1>5, <2>1, <2>5, <3>1
    <3>3. g \in 1 .. m - 1
      BY <1>1
    <3>4. QED
      BY <3>2, <3>3
  <2>8. QED
    BY <2>6, <2>7
<1>6. \A n \in Nat : n \in Good
  <2> HIDE DEF Good
  <2> QED BY <1>4, <1>5, Induction
<1>7. PICK i \in 1 .. Len(items) : us[j].id = Id(first + (i - 1))
  BY <1>2 DEF us
<1>8. i - 1 \in Nat /\ clock < first + (i - 1)
  <2>1. us[j].id.clock = first + (i - 1)
    BY <1>7
  <2>2. QED
    BY <1>1, <2>1 DEF us
<1>9. i - 1 \in Good
  BY <1>6, <1>8
<1>10. \E g \in 1 .. j - 1 : us[g].id = Id(clock)
  <2>1. j \in 1 .. Len(us)
    BY DEF us
  <2> HIDE DEF Id
  <2>2. QED
    BY <1>7, <1>8, <1>9, <2>1
<1>11. QED
  BY <1>10 DEF us

\* What an announced update is traced to stays announced.
LEMMA TracedStays ==
  ASSUME NEW A, NEW B, NEW q \in Client, NEW k \in 1 .. Len(A[q]), TracedAt(A, q, k),
         \A p \in Client : /\ 1 .. Len(A[p]) \subseteq 1 .. Len(B[p])
                           /\ \A h \in 1 .. Len(A[p]) : B[p][h] = A[p][h]
  PROVE  TracedAt(B, q, k)
<1> DEFINE u == A[q][k].update.items
           seen == A[q][k].seen
           N(p) == 1 .. Len(A[p])
           M(p) == 1 .. Len(B[p])
<1>1. B[q][k].update.items = u /\ B[q][k].seen = seen
  OBVIOUS
<1>2. /\ \A p \in Client : seen[p] \subseteq N(p)
      /\ \A j \in 1 .. Len(u) : u[j].oleft # NoID =>
            \/ \E i \in 1 .. j - 1 : u[i].id = u[j].oleft
            \/ \E p \in Client : \E h \in seen[p] : u[j].oleft \in ItemIds(A[p][h].update)
  BY DEF TracedAt
<1>3. \A p \in Client : N(p) \subseteq M(p) /\ \A h \in N(p) : B[p][h] = A[p][h]
  OBVIOUS
<1> HIDE DEF u, seen, N, M
<1>4. \A p \in Client : seen[p] \subseteq M(p) /\ \A h \in seen[p] : B[p][h] = A[p][h]
  BY <1>2, <1>3
<1>5. \A j \in 1 .. Len(u) : u[j].oleft # NoID =>
            \/ \E i \in 1 .. j - 1 : u[i].id = u[j].oleft
            \/ \E p \in Client : \E h \in seen[p] : u[j].oleft \in ItemIds(B[p][h].update)
  <2>1. ASSUME NEW id, NEW p \in Client, NEW h \in seen[p], id \in ItemIds(A[p][h].update)
        PROVE  id \in ItemIds(B[p][h].update)
    BY <1>4, <2>1
  <2>2. QED
    BY <1>2, <2>1
<1>6. QED
  BY <1>1, <1>4, <1>5 DEF TracedAt, M

\* The update of a transaction can be traced: its peer has what it was typed after from
\* another update, or typed it earlier in the transaction.
LEMMA AnnounceTraces ==
  ASSUME NEW D, NEW T, NEW A, NEW G, Consistent(D, T, A, G, 0),
         NEW L, L \subseteq List, Arranged(D, A, L), Traced(A),
         NEW r \in Client, NEW u, Announces(D[r], u, T[r].items, T[r].dels),
         NEW B, NEW H, Announcing(A, B, G, H, r, u), B[r][Len(A[r]) + 1].seen = G[r]
  PROVE  Traced(B)
<1> DEFINE d == D[r]
           items == T[r].items
           n == Len(A[r]) + 1
           us == u.items
           first == Len(d.store[r]) - Len(items)
<1>1. /\ Sound(d) /\ Opened(D, T, A, r) /\ Received(D, A, G, r) /\ Complete(D, T, A, G, r)
      /\ Ordered(d) /\ Own(d, r, L)
  BY SettledSound DEF Consistent, Settled, Arranged
<1>2. \A q \in Client : /\ 1 .. Len(A[q]) \subseteq 1 .. Len(B[q])
                        /\ \A h \in 1 .. Len(A[q]) : B[q][h] = A[q][h]
  <2> DEFINE Kept(q) == /\ 1 .. Len(A[q]) \subseteq 1 .. Len(B[q])
                        /\ \A h \in 1 .. Len(A[q]) : B[q][h] = A[q][h]
  <2>1. ASSUME NEW q \in Client PROVE Kept(q)
    <3>1. CASE q = r
      BY <3>1 DEF Announcing
    <3>2. CASE q # r
      BY <3>2 DEF Announcing
    <3>3. QED
      BY <3>1, <3>2
  <2>2. \A q \in Client : Kept(q)
    <3> HIDE DEF Kept
    <3> QED BY <2>1
  <2>3. QED
    BY <2>2, Zenon
<1>3. ASSUME NEW q \in Client, NEW k \in 1 .. Len(A[q]) PROVE TracedAt(B, q, k)
  <2>1. TracedAt(A, q, k)
    BY DEF Traced
  <2>2. QED
    BY <1>2, <2>1, TracedStays
<1>4. \A q \in Client : G[r][q] \subseteq 1 .. Len(A[q])
  BY <1>1 DEF Received
<1>5. /\ Run(d, items, r)
      /\ Len(items) > 0 => first \in Nat /\ d.heap[items[1]].id = [client |-> r, clock |-> first]
  BY <1>1, OpenedRuns
<1> HIDE DEF first
<1>6. \A q \in Client : G[r][q] \subseteq 1 .. Len(B[q])
  <2> DEFINE N(q) == 1 .. Len(A[q])
             M(q) == 1 .. Len(B[q])
  <2>1. \A q \in Client : G[r][q] \subseteq N(q) /\ N(q) \subseteq M(q)
    BY <1>2, <1>4
  <2> HIDE DEF N, M
  <2>2. \A q \in Client : G[r][q] \subseteq M(q)
    BY <2>1
  <2>3. QED
    BY <2>2 DEF M
<1>7. ASSUME NEW j \in 1 .. Len(us), us[j].oleft # NoID
      PROVE  \/ \E i \in 1 .. j - 1 : us[i].id = us[j].oleft
             \/ \E q \in Client : \E h \in G[r][q] : us[j].oleft \in ItemIds(B[q][h].update)
  <2>1. PICK i \in 1 .. Len(items) : Spells(us[j], d.heap[items[i]])
    BY DEF Announces
  <2> DEFINE k == items[i]
             o == us[j].oleft
             ko == RefOf(d, o)
  <2>2. /\ k \in Refs(d) /\ d.heap[k].id.client = r /\ Len(items) \in Nat /\ Len(items) > 0
        /\ d.heap[k].oleft = o /\ d.heap[k].id = us[j].id
    <3>1. items \in Seq(Refs(d))
      BY <1>5 DEF Run
    <3>2. k \in Refs(d) /\ Len(items) \in Nat
      <4> DEFINE R == Refs(d)
      <4>1. items \in Seq(R)
        BY <3>1
      <4> HIDE DEF R, items
      <4>2. items[i] \in R /\ Len(items) \in Nat
        BY <4>1
      <4>3. QED
        BY <4>2 DEF R, items
    <3>3. d.heap[k].id.client = r
      <4>1. d.heap[items[i]].id = [client |-> r, clock |-> d.heap[items[1]].id.clock + (i - 1)]
        BY <1>5 DEF Run
      <4>2. QED
        BY <4>1
    <3>4. d.heap[k].oleft = o /\ d.heap[k].id = us[j].id
      BY <2>1 DEF Spells, Says
    <3> HIDE DEF items
    <3>5. Len(items) > 0
      BY <3>2
    <3>6. QED
      BY <3>2, <3>3, <3>4, <3>5
  <2> HIDE DEF k
  <2>3. d.heap[k].list # NoList /\ (o.client = r => o.clock < us[j].id.clock)
    <3>1. d.heap[k].list \in L /\ (d.heap[k].oleft.client = r => d.heap[k].oleft.clock < d.heap[k].id.clock)
      BY <1>1, <2>2 DEF Own
    <3>2. QED
      BY <2>2, <3>1, ListAssumption
  <2>4. Held(d, o) /\ o \in IdType
    <3>1. Held(d, o)
      BY <1>1, <1>7, <2>2, <2>3 DEF Ordered, OrderedAt
    <3>2. d.heap[k] \in ItemType
      BY <1>1, <2>2, DocFields DEF Sound, Whole
    <3>3. QED
      BY <1>7, <2>2, <3>1, <3>2, ItemFields
  <2>5. ko \in Refs(d) /\ d.heap[ko].id = o
    BY <1>1, <2>4, getItemFinds DEF Sound
  <2> HIDE DEF ko, o
  <2>6. CASE \E m \in 1 .. Len(items) : items[m] = ko
    <3>1. PICK m \in 1 .. Len(items) : items[m] = ko
      BY <2>6
    <3>2. o = [client |-> r, clock |-> first + (m - 1)]
      <4>1. d.heap[items[m]].id = [client |-> r, clock |-> d.heap[items[1]].id.clock + (m - 1)]
        BY <1>5 DEF Run
      <4>2. d.heap[items[1]].id.clock = first
        BY <1>5, <2>2
      <4>3. QED
        BY <2>5, <3>1, <4>1, <4>2
    <3>3. o.client = r /\ o.clock = first + (m - 1)
      BY <3>2
    <3>4. first \in Nat /\ o.clock \in Nat /\ first <= o.clock /\ o.clock < us[j].id.clock
      <4>1. first \in Nat /\ m - 1 \in Nat
        BY <1>5, <2>2
      <4>2. QED
        BY <2>3, <3>3, <4>1
    <3>5. \E g \in 1 .. j - 1 : us[g].id = [client |-> r, clock |-> o.clock]
      <4> DEFINE clock == o.clock
      <4>1. /\ Run(d, items, r) /\ Announces(d, u, items, T[r].dels)
            /\ Len(items) > 0 => d.heap[items[1]].id = [client |-> r, clock |-> first]
        BY <1>5
      <4>2. j \in 1 .. Len(u.items) /\ clock < u.items[j].id.clock /\ clock \in Nat
            /\ first \in Nat /\ first <= clock
        BY <3>4
      <4> HIDE DEF d, items, clock, us
      <4>3. \E g \in 1 .. j - 1 : u.items[g].id = [client |-> r, clock |-> clock]
        BY <4>1, <4>2, EarlierInUpdate
      <4>4. QED
        BY <4>3 DEF us, clock
    <3>6. QED
      BY <3>2, <3>3, <3>5 DEF o
  <2>7. CASE ~\E m \in 1 .. Len(items) : items[m] = ko
    <3>0. PICK q \in Client : \E h \in G[r][q] : d.heap[ko].id \in ItemIds(A[q][h].update)
      BY <1>1, <2>5, <2>7 DEF Complete
    <3>1. PICK h \in G[r][q] : d.heap[ko].id \in ItemIds(A[q][h].update)
      BY <3>0
    <3>2. h \in 1 .. Len(A[q])
      BY <1>4
    <3>3. B[q][h] = A[q][h]
      BY <1>2, <3>2
    <3>4. o \in ItemIds(B[q][h].update)
      BY <2>5, <3>1, <3>3
    <3>5. QED
      BY <3>4 DEF o
  <2>8. QED
    BY <2>6, <2>7
<1>8. TracedAt(B, r, n)
  <2>1. B[r][n].update.items = us /\ B[r][n].seen = G[r]
    BY DEF Announcing
  <2> HIDE DEF n, us
  <2>2. QED
    BY <1>6, <1>7, <2>1 DEF TracedAt
<1>9. ASSUME NEW q \in Client, NEW k \in 1 .. Len(B[q]) PROVE TracedAt(B, q, k)
  <2>1. CASE q = r /\ k = n
    BY <1>8, <2>1
  <2>2. CASE ~(q = r /\ k = n)
    <3>1. k \in 1 .. Len(A[q])
      <4>1. CASE q = r
        <5> DEFINE a == Len(A[r])
                   b == Len(B[r])
        <5>1. a \in Nat /\ b = a + 1 /\ k \in 1 .. b /\ k # a + 1
          BY <2>2, <4>1 DEF Announcing
        <5> HIDE DEF a, b
        <5>2. k \in 1 .. a
          BY <5>1
        <5>3. QED
          BY <4>1, <5>2 DEF a
      <4>2. CASE q # r
        BY <4>2 DEF Announcing
      <4>3. QED
        BY <4>1, <4>2
    <3>2. QED
      BY <1>3, <3>1
  <2>3. QED
    BY <2>1, <2>2
<1>10. QED
  BY <1>9 DEF Traced

\* Every item of a new document has its list if it had it before.
LEMMA AllInStays ==
  ASSUME NEW D, NEW E, NEW r \in Client, NEW e, Replaces(D, E, r, e), \A q \in Client : AllIn(D[q]),
         AllIn(e)
  PROVE  \A q \in Client : AllIn(E[q])
BY DEF Replaces

LEMMA EditsAllIn ==
  ASSUME NEW d, NEW e, NEW c \in Client, NEW n \in Nat, Sound(d),
         NEW L, L \subseteq List, Edits(d, e, c, L, n), AllIn(d)
  PROVE  AllIn(e)
<1>1. OldAndNew(d, e, n) /\ Extends(d, e)
  BY OldOrNew DEF Edits, Typed
<1>2. ASSUME NEW k \in Refs(e) PROVE e.heap[k].list # NoList
  <2>1. CASE k \in Refs(d)
    BY <1>1, <2>1 DEF Extends, SameItem, AllIn
  <2>2. CASE k \notin Refs(d)
    <3>1. PICK i \in 1 .. n : k = Len(d.heap) + i
      BY <1>1, <2>2 DEF OldAndNew
    <3>2. e.heap[k].list \in L
      BY <3>1 DEF Edits
    <3>3. QED
      BY <3>2, ListAssumption
  <2>3. QED
    BY <2>1, <2>2
<1>3. QED
  BY <1>2 DEF AllIn

LEMMA CutsAllIn ==
  ASSUME NEW d, NEW result, Cuts(d, result), AllIn(d)
  PROVE  AllIn(result.doc)
<1>1. Refs(result.doc) = Refs(d)
  BY DEF Cuts, Refs
<1>2. QED
  BY <1>1 DEF Cuts, SameItem, AllIn

\* The steps keep the updates traced.
LEMMA InitCauses == Init => Causes(doc, announced, syncs, causal)
<1> SUFFICES ASSUME Init PROVE Causes(doc, announced, syncs, causal)
  OBVIOUS
<1>1. ASSUME NEW r \in Client PROVE AllIn(doc[r]) /\ 1 .. Len(announced[r]) = {}
  <2>1. doc[r] = EmptyDoc /\ announced[r] = <<>>
    BY DEF Init
  <2>2. Len(announced[r]) = 0
    BY <2>1
  <2>3. QED
    BY <2>1, <2>2, EmptySound DEF AllIn
<1>2. QED
  BY <1>1 DEF Causes, Traced

LEMMA InsertsCause ==
  ASSUME Inv, Causes(doc, announced, syncs, causal), NEW r \in Client, NEW n \in Nat,
         NEW L, L \subseteq List, NEW d, Edits(doc[r], d, r, L, n), NEW refs, Inserts(r, d, refs, n)
  PROVE  Causes(doc', announced', syncs', causal')
<1>1. Replaces(doc, doc', r, d) /\ announced' = announced /\ syncs' = syncs /\ causal' = causal
  BY DEF Inserts, Inv, Shape, Replaces
<1>2. AllIn(doc[r]) => AllIn(d)
  BY SettledSound, EditsAllIn DEF Inv
<1>3. QED
  BY <1>1, <1>2, AllInStays DEF Causes

LEMMA DeletesCause ==
  ASSUME Inv, Causes(doc, announced, syncs, causal), NEW r \in Client,
         NEW result, Cuts(doc[r], result), Deletes(r, result)
  PROVE  Causes(doc', announced', syncs', causal')
<1> DEFINE d == result.doc
<1>1. Replaces(doc, doc', r, d) /\ announced' = announced /\ syncs' = syncs /\ causal' = causal
  BY DEF Deletes, Inv, Shape, Replaces
<1>2. AllIn(doc[r]) => AllIn(d)
  BY CutsAllIn
<1> HIDE DEF d
<1>3. QED
  BY <1>1, <1>2, AllInStays DEF Causes

LEMMA CommitCauses ==
  ASSUME WideChar = {}, Inv, NEW L, L \subseteq List, Arranged(doc, announced, L),
         Causes(doc, announced, syncs, causal), NEW r \in Client, Commit(r)
  PROVE  Causes(doc', announced', syncs', causal')
<1>1. doc' = doc /\ syncs' = syncs /\ causal' = causal
  BY DEF Commit
<1>2. CASE tx[r].items = <<>> /\ tx[r].dels = <<>>
  BY <1>1, <1>2 DEF Commit
<1>3. CASE ~(tx[r].items = <<>> /\ tx[r].dels = <<>>)
  <2>1. PICK u : Commits(r, u)
    BY <1>3, CommitAnnounces
  <2>2. ASSUME syncs = 0 PROVE Traced(announced')
    <3>1. /\ Announcing(announced, announced', got, got', r, u)
          /\ Announces(doc[r], u, tx[r].items, tx[r].dels)
          /\ announced'[r][Len(announced[r]) + 1].seen = got[r]
      BY <2>1 DEF Commits
    <3>2. Consistent(doc, tx, announced, got, 0) /\ Traced(announced)
      BY <2>2 DEF Inv, Causes
    <3>3. QED
      BY <3>1, <3>2, AnnounceTraces
  <2>3. QED
    BY <1>1, <2>2 DEF Causes
<1>4. QED
  BY <1>2, <1>3

LEMMA DeliverCauses ==
  ASSUME Inv, NEW L, L \subseteq List, Arranged(doc, announced, L), Causes(doc, announced, syncs, causal),
         NEW r \in Client, NEW s \in Client, NEW k \in DOMAIN announced[s], Deliver(r, s, k)
  PROVE  Causes(doc', announced', syncs', causal')
<1> DEFINE u == announced[s][k].update
<1>1. announced' = announced /\ syncs' = syncs
  BY DEF Deliver
<1>2. k \in 1 .. Len(announced[s])
  BY AnnouncedMeans
<1>3. SUFFICES ASSUME syncs = 0, causal', NEW q \in Client PROVE AllIn(doc'[q])
  BY <1>1 DEF Causes
<1>4. causal /\ \A p \in Client : announced[s][k].seen[p] \subseteq got[r][p]
  BY <1>3 DEF Deliver
<1>5. Rooted(doc[r], u.items)
  <2>1. TracedAt(announced, s, k)
    BY <1>2, <1>3 DEF Causes, Traced
  <2>2. Received(doc, announced, got, r)
    BY DEF Inv, Consistent, Settled
  <2>3. QED
    BY <1>4, <2>1, <2>2, RootedWhenSeen
<1>6. AllIn(doc[r]) /\ AllIn(doc[q])
  BY <1>3, <1>4 DEF Causes
<1>7. QED
  BY <1>5, <1>6, DeliverArranges

LEMMA SyncCauses ==
  ASSUME Inv, NEW r \in Client, NEW s \in Client, Sync(r, s)
  PROVE  Causes(doc', announced', syncs', causal')
<1>1. syncs' # 0
  <2>1. syncs \in Nat /\ syncs' = syncs + 1
    BY DEF Inv, Shape, Sync
  <2>2. QED
    BY <2>1
<1>2. QED
  BY <1>1 DEF Causes

\* Where no item is in another list but in a key's, the row has every item once, each to
\* the right of the one it was put after.
LEMMA WholeRow ==
  ASSUME NEW d, Sound(d), Ordered(d), NEW l \in List \ Key,
         \A k \in Refs(d) : d.heap[k].list \notin Key => d.heap[k].list = l
  PROVE  LET refs == Row(d, l)
             At(id) == CHOOSE k \in DOMAIN refs : d.heap[refs[k]].id = id
         IN  /\ IsInjective(refs)
             /\ Range(refs) = { k \in DOMAIN d.heap : d.heap[k].list \notin Key }
             /\ \A k \in DOMAIN refs :
                   LET origin == d.heap[refs[k]].oleft
                   IN  origin = NoID \/ At(origin) < k
<1> DEFINE refs == Row(d, l)
           N == Len(refs)
           At(id) == CHOOSE k \in DOMAIN refs : d.heap[refs[k]].id = id
<1>1. /\ refs \in Seq(Refs(d)) /\ N \in Nat /\ DOMAIN refs = 1 .. N
      /\ \A i \in 1 .. N : refs[i] \in OfList(d, l) /\ refs[i] \in Refs(d)
      /\ Distinct(refs) /\ DOMAIN d.heap = Refs(d)
  <2>1. /\ refs \in Seq(Refs(d)) /\ N \in Nat
        /\ \A i \in 1 .. N : refs[i] \in OfList(d, l) /\ refs[i] \in Refs(d)
        /\ Distinct(refs)
    BY RowFollows
  <2>2. DOMAIN refs = 1 .. N
    <3> DEFINE X == Refs(d)
    <3>1. refs \in Seq(X)
      BY <2>1
    <3> HIDE DEF refs, X
    <3>2. QED
      BY <3>1
  <2>3. QED
    BY <2>1, <2>2, DocFields DEF Sound, Whole
<1> HIDE DEF refs
<1>2. IsInjective(refs)
  BY <1>1 DEF Distinct, IsInjective
<1>3. Range(refs) = { k \in DOMAIN d.heap : d.heap[k].list \notin Key }
  <2>1. ASSUME NEW k \in Range(refs) PROVE k \in Refs(d) /\ d.heap[k].list \notin Key
    <3>1. PICK i \in 1 .. N : k = refs[i]
      BY <1>1 DEF Range
    <3>2. QED
      BY <1>1, <3>1 DEF OfList
  <2>2. ASSUME NEW k \in Refs(d), d.heap[k].list \notin Key PROVE k \in Range(refs)
    <3>1. Has(refs, k)
      BY <2>2 DEF Ordered, OrderedAt, refs
    <3>2. QED
      BY <1>1, <3>1 DEF Has, Range
  <2>3. QED
    BY <1>1, <2>1, <2>2
<1>4. ASSUME NEW k \in 1 .. N, d.heap[refs[k]].oleft # NoID PROVE At(d.heap[refs[k]].oleft) < k
  <2> DEFINE o == d.heap[refs[k]].oleft
             ko == RefOf(d, o)
  <2>1. refs[k] \in Refs(d) /\ d.heap[refs[k]].list = l /\ l # NoList /\ d.heap[refs[k]] \in ItemType
    BY <1>1, DocFields, ListAssumption DEF OfList, Sound, Whole
  <2>2. Held(d, o) /\ Leads(refs, ko, refs[k]) /\ o \in IdType
    BY <1>4, <2>1, ItemFields DEF Ordered, OrderedAt, refs
  <2>3. ko \in Refs(d) /\ d.heap[ko].id = o
    BY <2>2, getItemFinds DEF Sound
  <2> HIDE DEF ko, o
  <2>4. PICK a \in 1 .. N, b \in 1 .. N : a < b /\ refs[a] = ko /\ refs[b] = refs[k]
    BY <2>2 DEF Leads
  <2>5. b = k
    BY <1>1, <2>4 DEF Distinct
  <2>6. At(o) \in 1 .. N /\ d.heap[refs[At(o)]].id = o
    <3>1. \E i \in DOMAIN refs : d.heap[refs[i]].id = o
      BY <1>1, <2>3, <2>4
    <3>2. QED
      BY <1>1, <3>1
  <2>7. refs[At(o)] = ko
    <3>1. \A i, j \in Refs(d) : d.heap[i].id = d.heap[j].id => i = j
      BY IdsOf
    <3> HIDE DEF At
    <3>2. QED
      BY <1>1, <2>3, <2>6, <3>1
  <2>8. At(o) = a
    <3> HIDE DEF At
    <3> QED BY <1>1, <2>4, <2>6, <2>7 DEF Distinct
  <2>9. QED
    BY <2>4, <2>5, <2>8 DEF o
<1>5. QED
  BY <1>1, <1>2, <1>3, <1>4 DEF refs

\* An item that knows its list is in a list that is edited.
LEMMA ListsEdited ==
  ASSUME NEW D, NEW T, NEW A, NEW G, NEW y, Consistent(D, T, A, G, y), NEW L, Arranged(D, A, L),
         NEW r \in Client, NEW k \in Refs(D[r]), D[r].heap[k].list # NoList
  PROVE  D[r].heap[k].list \in L
<1> DEFINE it == D[r].heap[k]
           c == it.id.client
           j == RefOf(D[c], it.id)
<1>1. Authored(D, it) /\ it.id \in IdType
  BY SettledSound DEF Consistent, Settled, Agrees
<1>2. c \in Client /\ Held(D[c], it.id)
  BY <1>1 DEF Authored, IdType
<1>3. Whole(D[c])
  BY <1>2, SettledSound
<1>4. j \in Refs(D[c]) /\ D[c].heap[j].id = it.id
  <2> DEFINE e == D[c]
             id == it.id
  <2>1. Whole(e) /\ id \in IdType /\ Held(e, id)
    BY <1>1, <1>2, <1>3
  <2> HIDE DEF e, id
  <2>2. RefOf(e, id) \in Refs(e) /\ e.heap[RefOf(e, id)].id = id
    BY <2>1, getItemFinds
  <2>3. QED
    BY <2>2 DEF e, id
<1>5. it.list = ListAt(D)[it.id]
  BY DEF Arranged, Labelled
<1>6. D[c].heap[j].list \in L
  BY <1>2, <1>4 DEF Arranged, Own
<1>7. QED
  BY <1>1, <1>5, <1>6 DEF ListAt

\* A row is what is in it of the row it has become.
LEMMA BroadensSelects ==
  ASSUME NEW d, Sound(d), NEW e, Sound(e), NEW l \in List \ Key, Broadens(d, e)
  PROVE  Row(d, l) = Among(Row(e, l), Range(Row(d, l)))
<1> DEFINE s == Row(d, l)
           t == Row(e, l)
           S == Range(s)
           u == Among(t, S)
<1>1. s \in Seq(Nat) /\ t \in Seq(Nat)
  <2>1. Refs(d) \subseteq Nat /\ Refs(e) \subseteq Nat
    BY DEF Refs
  <2>2. s \in Seq(Refs(d)) /\ t \in Seq(Refs(e))
    BY RowFollows
  <2> HIDE DEF s, t
  <2>3. QED
    BY <2>1, <2>2
<1>2. Widens(s, t)
  BY DEF Broadens
<1>3. PICK rank : Ranked(e, rank)
  BY DEF Sound
<1>4. \A i, j \in 1 .. Len(t) : i < j => rank[t[j]] < rank[t[i]]
  <2>1. Follows(e, e.start[l], t, OfList(e, l))
    BY RowFollows
  <2>2. OfList(e, l) \subseteq Refs(e) /\ e \in Docs
    BY DEF OfList, Sound, Whole
  <2> HIDE DEF t
  <2>3. QED
    BY <1>3, <2>1, <2>2, FollowsRanked
<1>5. \A i \in 1 .. Len(t) : t[i] \in Refs(e)
  BY RowFollows
<1> DEFINE E == { t[i] : i \in 1 .. Len(t) }
<1>6. \A k \in E : rank[k] \in Nat
  <2>1. \A k \in Refs(e) : k \in 0 .. Len(e.heap)
    BY DEF Refs
  <2> HIDE DEF t
  <2>2. QED
    BY <1>3, <1>5, <2>1 DEF Ranked
<1> HIDE DEF s, t
<1>7. Selects(u, t, S)
  <2> HIDE DEF S
  <2> QED BY <1>1, AmongIs
<1>8. s \in Seq(E) /\ u \in Seq(E)
  <2>1. \A i \in 1 .. Len(s) : s[i] \in E
    BY <1>2 DEF Widens, Has
  <2>2. t \in Seq(E)
    <3>1. \A i \in 1 .. Len(t) : t[i] \in E
      OBVIOUS
    <3> HIDE DEF E
    <3>2. QED
      BY <1>1, <3>1
  <2>3. u \in Seq(E \cap S)
    <3> HIDE DEF E, S, u
    <3>1. Among(t, S) \in Seq(E \cap S)
      BY <2>2, AmongIs
    <3>2. QED
      BY <3>1 DEF u
  <2> HIDE DEF E, u, S
  <2>4. s \in Seq(E)
    BY <1>1, <2>1
  <2>5. u \in Seq(E)
    BY <2>3
  <2>6. QED
    BY <2>4, <2>5
<1>9. \A i \in 1 .. Len(s) : Has(u, s[i])
  <2>1. \A i \in 1 .. Len(s) : s[i] \in S
    BY <1>1 DEF Range
  <2> HIDE DEF S, u, E
  <2>2. QED
    BY <1>2, <1>7, <2>1 DEF Widens, Has, Selects
<1>10. \A i \in 1 .. Len(u) : Has(s, u[i])
  <2>1. \A k \in S : Has(s, k)
    <3>1. DOMAIN s = 1 .. Len(s)
      BY <1>1
    <3>2. \A k \in S : \E i \in 1 .. Len(s) : s[i] = k
      <4> HIDE DEF s
      <4> QED BY <3>1 DEF Range
    <3>3. QED
      BY <3>2 DEF Has
  <2> HIDE DEF S, u, E
  <2>2. QED
    BY <1>7, <2>1 DEF Selects
<1> HIDE DEF E, S, u
<1>11. \A i, j \in 1 .. Len(s) : i < j => rank[s[j]] < rank[s[i]]
  <2>1. ASSUME NEW i \in 1 .. Len(s), NEW j \in 1 .. Len(s), i < j PROVE rank[s[j]] < rank[s[i]]
    <3>1. PICK k, m \in 1 .. Len(t) : k < m /\ s[i] = t[k] /\ s[j] = t[m]
      BY <1>2, <2>1 DEF Widens, InOrder
    <3> HIDE DEF s, t
    <3>2. QED
      BY <1>4, <3>1
  <2>2. QED
    BY <2>1
<1>12. \A i, j \in 1 .. Len(u) : i < j => rank[u[j]] < rank[u[i]]
  <2>1. ASSUME NEW i \in 1 .. Len(u), NEW j \in 1 .. Len(u), i < j PROVE rank[u[j]] < rank[u[i]]
    <3>1. PICK k, m \in 1 .. Len(t) : k < m /\ u[i] = t[k] /\ u[j] = t[m]
      BY <1>7, <2>1 DEF Selects, InOrder
    <3> HIDE DEF t
    <3>2. QED
      BY <1>4, <3>1
  <2>2. QED
    BY <2>1
<1>13. s = u
  BY <1>6, <1>8, <1>9, <1>10, <1>11, <1>12, OrderOnce
<1>14. QED
  BY <1>13 DEF s, t, u, S

-----------------------------------------------------------------------------
(***************************************************************************)
(* What a peer has of the deletions of all.                                *)
(***************************************************************************)
\* The IDs that the updates a peer has and its transaction delete.
Dropped(D, T, A, G, r) ==
    { id \in IdType : \/ \E s \in Client : \E h \in G[r][s] : id \in DelIds(A[s][h].update)
                      \/ \E i \in 1 .. Len(T[r].dels) : id = D[r].heap[T[r].dels[i]].id }

\* These are the characters removed at the peer.
LEMMA RemovedIsDropped ==
  ASSUME Inv, NEW r \in Client
  PROVE  Removed(r) = Dropped(doc, tx, announced, got, r)
<1>1. \A id : id \in Removed(r) <=>
               \/ \E s \in Client : \E k \in got[r][s] : id \in DelIds(announced[s][k].update)
               \/ \E i \in 1 .. Len(tx[r].dels) : id = doc[r].heap[tx[r].dels[i]].id
  BY AppliedIds
<1>2. ASSUME NEW s \in Client, NEW k \in got[r][s] PROVE DelIds(announced[s][k].update) \subseteq IdType
  <2>1. Sent(doc, announced[s], k)
    BY DEF Inv, Consistent, Settled, Received
  <2>2. QED
    BY <2>1, SentIds
<1>3. \A i \in 1 .. Len(tx[r].dels) : doc[r].heap[tx[r].dels[i]].id \in IdType
  <2> DEFINE d == doc[r]
             dels == tx[r].dels
             R == Refs(d)
  <2>1. Sound(d) /\ dels \in Seq(R)
    BY SettledSound DEF Inv, Consistent, Settled, Opened
  <2> HIDE DEF dels, R
  <2>2. \A i \in 1 .. Len(dels) : dels[i] \in R
    BY <2>1, SeqElements
  <2> HIDE DEF d
  <2>3. \A k \in R : d.heap[k].id \in IdType
    BY <2>1, IdsOf DEF R
  <2>4. QED
    BY <2>2, <2>3 DEF d, dels
<1>4. QED
  BY <1>1, <1>2, <1>3 DEF Dropped

\* What was dropped stays dropped.
LEMMA DroppedStays ==
  ASSUME NEW D, NEW T, NEW A, NEW G, NEW r \in Client, T[r].dels \in Seq(Refs(D[r])),
         NEW E, Extends(D[r], E[r]), NEW U, NEW B, NEW H,
         \A i \in 1 .. Len(T[r].dels) : \E j \in 1 .. Len(U[r].dels) : U[r].dels[j] = T[r].dels[i],
         \A s \in Client : \A h \in G[r][s] : h \in H[r][s] /\ B[s][h].update = A[s][h].update
  PROVE  Dropped(D, T, A, G, r) \subseteq Dropped(E, U, B, H, r)
<1> SUFFICES ASSUME NEW id \in IdType, id \in Dropped(D, T, A, G, r)
             PROVE  id \in Dropped(E, U, B, H, r)
  BY DEF Dropped
<1>1. CASE \E s \in Client : \E h \in G[r][s] : id \in DelIds(A[s][h].update)
  <2>1. PICK s \in Client : \E h \in G[r][s] : id \in DelIds(A[s][h].update)
    BY <1>1
  <2>2. PICK h \in G[r][s] : id \in DelIds(A[s][h].update)
    BY <2>1
  <2>3. h \in H[r][s] /\ id \in DelIds(B[s][h].update)
    BY <2>2
  <2>4. QED
    BY <2>3 DEF Dropped
<1>2. CASE \E i \in 1 .. Len(T[r].dels) : id = D[r].heap[T[r].dels[i]].id
  <2>1. PICK i \in 1 .. Len(T[r].dels) : id = D[r].heap[T[r].dels[i]].id
    BY <1>2
  <2>2. T[r].dels[i] \in Refs(D[r])
    BY SeqElements
  <2>3. E[r].heap[T[r].dels[i]].id = id
    BY <2>1, <2>2 DEF Extends, SameItem
  <2>4. PICK j \in 1 .. Len(U[r].dels) : U[r].dels[j] = T[r].dels[i]
    OBVIOUS
  <2>5. QED
    BY <2>3, <2>4 DEF Dropped
<1>3. QED
  BY <1>1, <1>2 DEF Dropped

\* What an edit that inserts leaves alone.
LEMMA InsertsLeaves ==
  ASSUME Inv, NEW r \in Client, NEW d, NEW refs, NEW n, Inserts(r, d, refs, n)
  PROVE  /\ doc'[r] = d /\ tx'[r].dels = tx[r].dels
         /\ \A q \in Client \ {r} : doc'[q] = doc[q] /\ tx'[q] = tx[q]
         /\ announced' = announced /\ got' = got
<1>1. tx'[r].dels = tx[r].dels
  <2> DEFINE old == tx[r]
             items == old.items \o refs
  <2>1. tx'[r] = [old EXCEPT !.open = TRUE, !.ops = @ + 1, !.items = items]
    BY DEF Inserts, Inv, Shape
  <2>2. old \in TxType
    BY TxFields DEF Inv
  <2> HIDE DEF old, items
  <2>3. QED
    BY <2>1, <2>2 DEF TxType, old
<1>2. QED
  BY <1>1 DEF Inserts, Inv, Shape

\* What an edit that deletes does to the transaction.
LEMMA DeletesAdds ==
  ASSUME Inv, NEW r \in Client, NEW result, Cuts(doc[r], result), Deletes(r, result)
  PROVE  /\ doc'[r] = result.doc /\ tx'[r].dels = tx[r].dels \o result.dels
         /\ \A q \in Client \ {r} : doc'[q] = doc[q] /\ tx'[q] = tx[q]
         /\ announced' = announced /\ got' = got
<1>1. tx'[r].dels = tx[r].dels \o result.dels
  <2> DEFINE old == tx[r]
             dels == old.dels \o result.dels
  <2>1. tx'[r] = [old EXCEPT !.open = TRUE, !.ops = @ + 1, !.dels = dels]
    BY DEF Deletes, Inv, Shape
  <2>2. old \in TxType
    BY TxFields DEF Inv
  <2> HIDE DEF old, dels
  <2>3. tx'[r].dels = dels
    BY <2>1, <2>2 DEF TxType
  <2>4. QED
    BY <2>3 DEF dels, old
<1>2. QED
  BY <1>1 DEF Deletes, Inv, Shape

\* What an update brings to a document.
LEMMA DeliverUpdates ==
  ASSUME Inv, NEW r \in Client, NEW s \in Client, NEW k \in DOMAIN announced[s], Deliver(r, s, k)
  PROVE  /\ Updated(doc[r], doc'[r], announced[s][k].update)
         /\ \A q \in Client : got[r][q] \subseteq got'[r][q]
         /\ \A q \in Client \ {r} : got'[q] = got[q]
<1> DEFINE u == announced[s][k].update
           d == doc[r]
<1>1. k \in 1 .. Len(announced[s]) /\ Meant(doc, u) /\ Sound(d)
  BY AnnouncedMeans, SettledSound DEF Inv
<1>2. Readable(d, u.items)
  BY <1>1, SentReadable DEF Inv, Deliver, HandOver
<1>3. doc'[r] = ApplyUpdate(d, u)
  BY DEF Deliver, Inv, Shape
<1>4. Updated(d, ApplyUpdate(d, u), u)
  <2> HIDE DEF d, u
  <2>1. QED
    BY <1>1, <1>2, ApplyUpdateSound DEF Meant
<1>5. /\ \A q \in Client : got[r][q] \subseteq got'[r][q]
      /\ \A q \in Client \ {r} : got'[q] = got[q]
  BY DEF Deliver, HandOver, Inv, Shape
<1>6. QED
  BY <1>3, <1>4, <1>5

\* What an exchange of states brings to a document.
LEMMA SyncBrings ==
  ASSUME WideChar = {}, Inv, NEW r \in Client, NEW s \in Client, Sync(r, s)
  PROVE  \E u : Updated(doc[r], doc'[r], u)
<1> DEFINE u == EncodeStateAsUpdate(doc[s], stateVector(doc[r]))
<1>1. doc'[r] = ApplyUpdate(doc[r], u)
  BY DEF Sync, Inv, Shape
<1> HIDE DEF u
<1>2. Updated(doc[r], ApplyUpdate(doc[r], u), u)
  <2>1. u = EncodeStateAsUpdate(doc[s], stateVector(doc[r]))
    BY DEF u
  <2>2. QED
    BY <2>1, SyncUpdates DEF Inv
<1>3. QED
  BY <1>1, <1>2


-----------------------------------------------------------------------------
(***************************************************************************)
(* What a list shows.                                                      *)
(***************************************************************************)
\* t is the elements of s that are in S: t[i] is what stands at q[i].
Picks(s, t, q, S) ==
    /\ Len(t) \in Nat
    /\ q \in [1 .. Len(t) -> 1 .. Len(s)]
    /\ \A i, j \in 1 .. Len(t) : i < j => q[i] < q[j]
    /\ \A i \in 1 .. Len(t) : t[i] = s[q[i]]
    /\ \A k \in 1 .. Len(s) : s[k] \in S <=> \E i \in 1 .. Len(t) : q[i] = k

\* t is the elements of s that are in S, in the order of s.
Chosen(s, t, S) == \E q : Picks(s, t, q, S)

\* Among picks.
LEMMA AmongPicks ==
  ASSUME NEW E, NEW s \in Seq(E), Distinct(s), NEW S
  PROVE  \E q : Picks(s, Among(s, S), q, S)
<1> DEFINE t == Among(s, S)
<1>1. Selects(t, s, S)
  BY AmongIs
<1>2. Len(s) \in Nat
  BY SeqElements
<1> HIDE DEF t
<1>3. Len(t) \in Nat
  BY <1>1 DEF Selects
<1> DEFINE N == Len(s)
           M == Len(t)
           q == [i \in 1 .. M |-> CHOOSE k \in 1 .. N : s[k] = t[i]]
<1>4. \A i \in 1 .. M : \E k \in 1 .. N : s[k] = t[i]
  BY <1>1 DEF Selects, Has
<1>5. \A i \in 1 .. M : q[i] \in 1 .. N /\ s[q[i]] = t[i]
  BY <1>4
<1>6. \A j, k \in 1 .. N : s[j] = s[k] => j = k
  BY DEF Distinct
<1>7. q \in [1 .. M -> 1 .. N]
  BY <1>4
<1>8. ASSUME NEW i \in 1 .. M, NEW j \in 1 .. M, i < j PROVE q[i] < q[j]
  <2>1. PICK k, m \in 1 .. N : k < m /\ t[i] = s[k] /\ t[j] = s[m]
    BY <1>1, <1>8 DEF Selects, InOrder
  <2> HIDE DEF q, M, N
  <2>2. q[i] = k /\ q[j] = m
    BY <1>5, <1>6, <2>1
  <2>3. QED
    BY <2>1, <2>2
<1>9. \A k \in 1 .. N : s[k] \in S => \E i \in 1 .. M : t[i] = s[k]
  BY <1>1 DEF Selects, Has
<1>10. \A i \in 1 .. M : t[i] \in S
  BY <1>1 DEF Selects
<1> HIDE DEF q
<1>11. \A k \in 1 .. N : s[k] \in S <=> \E i \in 1 .. M : q[i] = k
  <2> HIDE DEF M, N
  <2> QED BY <1>5, <1>6, <1>9, <1>10
<1>12. Picks(s, t, q, S)
  BY <1>3, <1>5, <1>7, <1>8, <1>11 DEF Picks
<1>13. QED
  BY <1>12 DEF t

\* There is one such sequence.
LEMMA PicksOnce ==
  ASSUME NEW E, NEW s \in Seq(E), Distinct(s), NEW S, NEW t \in Seq(E), NEW u \in Seq(E),
         NEW q, Picks(s, t, q, S), NEW p, Picks(s, u, p, S)
  PROVE  t = u
<1> DEFINE N == Len(s)
           rank == [k \in E |-> IF Has(s, k) THEN N - CHOOSE j \in 1 .. N : s[j] = k ELSE 0]
<1>1. N \in Nat /\ \A i \in 1 .. N : s[i] \in E
  BY SeqElements
<1>2. \A i, j \in 1 .. N : s[i] = s[j] => i = j
  BY DEF Distinct
<1>3. \A i \in 1 .. N : rank[s[i]] = N - i
  <2>1. ASSUME NEW i \in 1 .. N PROVE (CHOOSE j \in 1 .. N : s[j] = s[i]) = i
    <3> HIDE DEF N
    <3> QED BY <1>2
  <2>2. \A i \in 1 .. N : Has(s, s[i])
    BY DEF Has
  <2>3. QED
    BY <1>1, <2>1, <2>2
<1>4. \A k \in E : rank[k] \in Nat
  <2>1. ASSUME NEW k \in E, Has(s, k) PROVE rank[k] \in Nat
    <3>1. PICK j \in 1 .. N : s[j] = k
      BY <2>1 DEF Has
    <3>2. rank[k] = N - j
      BY <1>3, <3>1
    <3>3. QED
      BY <1>1, <3>2
  <2>2. QED
    BY <2>1
<1> HIDE DEF rank, N
<1>5. ASSUME NEW a \in Seq(E), NEW f, Picks(s, a, f, S), NEW b \in Seq(E), NEW g, Picks(s, b, g, S)
      PROVE  /\ \A i \in 1 .. Len(a) : Has(b, a[i])
             /\ \A i, j \in 1 .. Len(a) : i < j => rank[a[j]] < rank[a[i]]
  <2>1. \A i \in 1 .. Len(a) : f[i] \in 1 .. N /\ a[i] = s[f[i]]
    BY <1>5 DEF Picks, N
  <2>2. ASSUME NEW i \in 1 .. Len(a) PROVE Has(b, a[i])
    <3>1. s[f[i]] \in S
      BY <1>5, <2>1 DEF Picks, N
    <3>2. PICK j \in 1 .. Len(b) : g[j] = f[i]
      BY <1>5, <2>1, <3>1 DEF Picks, N
    <3>3. b[j] = s[g[j]]
      BY <1>5 DEF Picks
    <3>4. QED
      BY <2>1, <3>2, <3>3 DEF Has
  <2>3. ASSUME NEW i \in 1 .. Len(a), NEW j \in 1 .. Len(a), i < j PROVE rank[a[j]] < rank[a[i]]
    <3>1. f[i] < f[j]
      BY <1>5, <2>3 DEF Picks
    <3>2. rank[a[i]] = N - f[i] /\ rank[a[j]] = N - f[j]
      BY <1>3, <2>1
    <3>3. QED
      BY <1>1, <2>1, <3>1, <3>2
  <2>4. QED
    BY <2>2, <2>3
<1>6. /\ \A i \in 1 .. Len(t) : Has(u, t[i])
      /\ \A i \in 1 .. Len(u) : Has(t, u[i])
      /\ \A i, j \in 1 .. Len(t) : i < j => rank[t[j]] < rank[t[i]]
      /\ \A i, j \in 1 .. Len(u) : i < j => rank[u[j]] < rank[u[i]]
  BY <1>5
<1>7. \A k \in E : rank[k] \in Int
  BY <1>4
<1>8. QED
  BY <1>6, <1>7, OrderOnce

\* t is s with the g elements after the first p replaced by a + 1 .. a + n.
Grafted(s, t, p, g, a, n) ==
    /\ p \in 0 .. Len(s) /\ g \in Nat /\ p + g <= Len(s)
    /\ Len(t) = Len(s) - g + n
    /\ \A i \in 1 .. p : t[i] = s[i]
    /\ \A i \in 1 .. n : t[p + i] = a + i
    /\ \A i \in p + g + 1 .. Len(s) : t[i - g + n] = s[i]

\* t is s with m put after the first at elements.
Inset(s, t, at, m) ==
    /\ at \in 0 .. Len(s)
    /\ Len(t) = Len(s) + Len(m)
    /\ \A i \in 1 .. at : t[i] = s[i]
    /\ \A i \in 1 .. Len(m) : t[at + i] = m[i]
    /\ \A i \in at + 1 .. Len(s) : t[i + Len(m)] = s[i]

\* The elements picked by q stand on the two sides of the g after the first p: at of them before.
Parted(s, q, p, g, at) ==
    /\ at \in 0 .. Len(s)
    /\ \A i \in 1 .. Len(s) : IF i <= at THEN q[i] <= p ELSE p + g < q[i]

\* T is S and the new elements a + 1 .. a + n, on the two sides of the g elements.
Widened(r, S, T, p, g, a, n) ==
    /\ \A k \in 1 .. Len(r) : k <= p \/ p + g < k => (r[k] \in T <=> r[k] \in S)
    /\ \A i \in 1 .. n : a + i \in T

\* a + 1 .. a + n.
Following(a, n) == [i \in 1 .. n |-> a + i]

\* Elements that are picked, between those that are picked on the two sides.
LEMMA PicksGrafted ==
  ASSUME NEW r \in Seq(Nat), NEW s \in Seq(Nat), NEW q, NEW S, Picks(r, s, q, S),
         NEW u \in Seq(Nat), NEW p, NEW g, NEW a \in Nat, NEW n \in Nat, Grafted(r, u, p, g, a, n),
         NEW at, Parted(s, q, p, g, at), NEW T, Widened(r, S, T, p, g, a, n)
  PROVE  \E t \in Seq(Nat) : Chosen(u, t, T) /\ Inset(s, t, at, Following(a, n))
<1> DEFINE N == Len(r)
           L == Len(s)
           K == L + n
           t == [i \in 1 .. K |-> IF i <= at THEN s[i] ELSE IF i <= at + n THEN a + (i - at) ELSE s[i - n]]
           f == [i \in 1 .. K |-> IF i <= at THEN q[i] ELSE IF i <= at + n THEN p + (i - at) ELSE q[i - n] - g + n]
<1>1. /\ N \in Nat /\ L \in Nat /\ at \in Nat /\ at <= L
      /\ \A i \in 1 .. L : s[i] \in Nat
  BY SeqElements DEF Parted
<1>2. /\ p \in Nat /\ g \in Nat /\ p + g <= N /\ Len(u) = N - g + n
      /\ \A i \in 1 .. p : u[i] = r[i]
      /\ \A i \in 1 .. n : u[p + i] = a + i
      /\ \A i \in p + g + 1 .. N : u[i - g + n] = r[i]
  BY <1>1 DEF Grafted
<1>3. /\ \A i \in 1 .. L : q[i] \in 1 .. N /\ s[i] = r[q[i]]
      /\ \A i, j \in 1 .. L : i < j => q[i] < q[j]
      /\ \A k \in 1 .. N : r[k] \in S <=> \E i \in 1 .. L : q[i] = k
  BY DEF Picks
<1>4. \A i \in 1 .. L : IF i <= at THEN q[i] <= p ELSE p + g < q[i]
  BY DEF Parted
<1>5. /\ \A k \in 1 .. N : k <= p \/ p + g < k => (r[k] \in T <=> r[k] \in S)
      /\ \A i \in 1 .. n : a + i \in T
  BY DEF Widened
<1> DEFINE U == Len(u)
<1> HIDE DEF N, L
<1>k. K \in Nat /\ K = L + n /\ U \in Nat /\ U = N - g + n
  BY <1>1, <1>2
<1> HIDE DEF U
<1>6. p \in Nat /\ g \in Nat /\ p + g <= N
  BY <1>2
<1>7. ASSUME NEW i \in 1 .. at
      PROVE  /\ i \in 1 .. L /\ i \in 1 .. K /\ t[i] = s[i] /\ f[i] = q[i]
             /\ q[i] \in Nat /\ 1 <= q[i] /\ q[i] <= p /\ q[i] <= N
  <2>1. i \in Nat /\ 1 <= i /\ i <= at /\ i \in 1 .. L /\ i \in 1 .. K
    BY <1>1
  <2>2. q[i] \in 1 .. N /\ q[i] <= p
    BY <1>3, <1>4, <2>1
  <2>3. t[i] = s[i] /\ f[i] = q[i]
    BY <2>1
  <2> HIDE DEF t, f, K
  <2>4. q[i] \in Nat /\ 1 <= q[i] /\ q[i] <= N
    BY <1>1, <2>2
  <2>5. QED
    BY <2>1, <2>2, <2>3, <2>4
<1>8. ASSUME NEW i \in 1 .. n
      PROVE  /\ i \in Nat /\ 1 <= i /\ i <= n /\ at + i \in 1 .. K
             /\ t[at + i] = a + i /\ f[at + i] = p + i
  <2>1. i \in Nat /\ 1 <= i /\ i <= n /\ at + i \in 1 .. K /\ ~(at + i <= at) /\ at + i <= at + n /\ (at + i) - at = i
    BY <1>1
  <2>2. t[at + i] = a + ((at + i) - at) /\ f[at + i] = p + ((at + i) - at)
    BY <2>1
  <2> HIDE DEF t, f, K
  <2>3. QED
    BY <2>1, <2>2
<1>9. ASSUME NEW i \in at + 1 .. L
      PROVE  /\ i \in Nat /\ at < i /\ i \in 1 .. L /\ i + n \in 1 .. K
             /\ t[i + n] = s[i] /\ f[i + n] = q[i] - g + n
             /\ q[i] \in Nat /\ p + g < q[i] /\ q[i] <= N
  <2>1. i \in Nat /\ at < i /\ i \in 1 .. L /\ i + n \in 1 .. K /\ ~(i <= at)
        /\ ~(i + n <= at) /\ ~(i + n <= at + n) /\ (i + n) - n = i
    BY <1>1
  <2>2. q[i] \in 1 .. N /\ p + g < q[i]
    BY <1>3, <1>4, <2>1
  <2>3. t[i + n] = s[(i + n) - n] /\ f[i + n] = q[(i + n) - n] - g + n
    BY <2>1
  <2> HIDE DEF t, f, K
  <2>4. q[i] \in Nat /\ q[i] <= N
    BY <1>1, <2>2
  <2>5. QED
    BY <2>1, <2>2, <2>3, <2>4
<1>10. t = [i \in 1 .. K |-> t[i]] /\ f = [i \in 1 .. K |-> f[i]]
  OBVIOUS
<1> HIDE DEF t, f
<1>14. ASSUME NEW i \in 1 .. K
       PROVE  \/ i \in 1 .. at
              \/ \E h \in 1 .. n : i = at + h
              \/ \E h \in at + 1 .. L : i = h + n
  <2>1. i \in Nat /\ 1 <= i /\ i <= L + n
    BY <1>k
  <2> HIDE DEF K
  <2>2. CASE i <= at
    BY <1>1, <2>1, <2>2
  <2>3. CASE at < i /\ i <= at + n
    <3>1. i - at \in 1 .. n /\ i = at + (i - at)
      BY <1>1, <2>1, <2>3
    <3>2. QED
      BY <3>1
  <2>4. CASE at + n < i
    <3>1. i - n \in at + 1 .. L /\ i = (i - n) + n
      BY <1>1, <2>1, <2>4
    <3>2. QED
      BY <3>1
  <2>5. QED
    BY <1>1, <2>1, <2>2, <2>3, <2>4
<1> HIDE DEF K
<1>11. t \in Seq(Nat) /\ Len(t) = K
  <2>1. ASSUME NEW i \in 1 .. K PROVE t[i] \in Nat
    <3>1. CASE i \in 1 .. at
      BY <1>1, <1>7, <3>1
    <3>2. ASSUME NEW h \in 1 .. n, i = at + h PROVE t[i] \in Nat
      <4>1. t[i] = a + h /\ h \in Nat
        BY <1>8, <3>2
      <4>2. QED
        BY <4>1
    <3>3. ASSUME NEW h \in at + 1 .. L, i = h + n PROVE t[i] \in Nat
      BY <1>1, <1>9, <3>3
    <3>4. QED
      BY <1>14, <3>1, <3>2, <3>3
  <2>2. t \in [1 .. K -> Nat]
    BY <1>10, <2>1
  <2>3. K \in Nat
    BY <1>k
  <2>4. QED
    BY <2>2, <2>3
<1>13. f \in [1 .. K -> 1 .. U]
  <2>1. ASSUME NEW i \in 1 .. K PROVE f[i] \in 1 .. U
    <3>1. CASE i \in 1 .. at
      <4>1. f[i] \in Nat /\ 1 <= f[i] /\ f[i] <= p
        BY <1>7, <3>1
      <4>2. QED
        BY <1>1, <1>6, <1>k, <4>1
    <3>2. ASSUME NEW h \in 1 .. n, i = at + h PROVE f[i] \in 1 .. U
      <4>1. f[i] = p + h /\ h \in Nat /\ 1 <= h /\ h <= n
        BY <1>8, <3>2
      <4>2. QED
        BY <1>1, <1>6, <1>k, <4>1
    <3>3. ASSUME NEW h \in at + 1 .. L, i = h + n PROVE f[i] \in 1 .. U
      <4>1. f[i] = q[h] - g + n /\ q[h] \in Nat /\ p + g < q[h] /\ q[h] <= N
        BY <1>9, <3>3
      <4>2. QED
        BY <1>1, <1>6, <1>k, <4>1
    <3>4. QED
      BY <1>14, <3>1, <3>2, <3>3
  <2>2. QED
    BY <1>10, <2>1
<1>15. ASSUME NEW i \in 1 .. K, NEW j \in 1 .. K, i < j PROVE f[i] < f[j]
  <2>1. CASE i \in 1 .. at
    <3>1. f[i] = q[i] /\ q[i] \in Nat /\ q[i] <= p /\ i \in 1 .. L
      BY <1>7, <2>1
    <3>2. CASE j \in 1 .. at
      <4>1. f[j] = q[j] /\ j \in 1 .. L
        BY <1>7, <3>2
      <4>2. QED
        BY <1>3, <1>15, <3>1, <4>1
    <3>3. ASSUME NEW h \in 1 .. n, j = at + h PROVE f[i] < f[j]
      <4>1. f[j] = p + h /\ h \in Nat /\ 1 <= h
        BY <1>8, <3>3
      <4>2. QED
        BY <1>2, <3>1, <4>1
    <3>4. ASSUME NEW h \in at + 1 .. L, j = h + n PROVE f[i] < f[j]
      <4>1. f[j] = q[h] - g + n /\ q[h] \in Nat /\ p + g < q[h]
        BY <1>9, <3>4
      <4>2. QED
        BY <1>2, <3>1, <4>1
    <3>5. QED
      BY <1>14, <3>2, <3>3, <3>4
  <2>2. ASSUME NEW m \in 1 .. n, i = at + m PROVE f[i] < f[j]
    <3>1. f[i] = p + m /\ m \in Nat /\ 1 <= m /\ m <= n
      BY <1>8, <2>2
    <3>2. CASE j \in 1 .. at
      <4>1. j \in Nat /\ j <= at
        BY <1>1, <3>2
      <4>2. QED
        BY <1>1, <1>15, <2>2, <3>1, <4>1
    <3>3. ASSUME NEW h \in 1 .. n, j = at + h PROVE f[i] < f[j]
      <4>1. f[j] = p + h /\ h \in Nat
        BY <1>8, <3>3
      <4>2. m < h
        BY <1>1, <1>15, <2>2, <3>1, <3>3, <4>1
      <4>3. QED
        BY <1>2, <3>1, <4>1, <4>2
    <3>4. ASSUME NEW h \in at + 1 .. L, j = h + n PROVE f[i] < f[j]
      <4>1. f[j] = q[h] - g + n /\ q[h] \in Nat /\ p + g < q[h]
        BY <1>9, <3>4
      <4>2. QED
        BY <1>2, <3>1, <4>1
    <3>5. QED
      BY <1>14, <3>2, <3>3, <3>4
  <2>3. ASSUME NEW m \in at + 1 .. L, i = m + n PROVE f[i] < f[j]
    <3>1. f[i] = q[m] - g + n /\ q[m] \in Nat /\ p + g < q[m] /\ m \in 1 .. L /\ m \in Nat /\ at < m
      BY <1>9, <2>3
    <3>2. CASE j \in 1 .. at
      <4>1. j \in Nat /\ j <= at
        BY <1>1, <3>2
      <4>2. QED
        BY <1>1, <1>15, <2>3, <3>1, <4>1
    <3>3. ASSUME NEW h \in 1 .. n, j = at + h PROVE f[i] < f[j]
      <4>1. h \in Nat /\ h <= n
        BY <1>8
      <4>2. QED
        BY <1>1, <1>15, <2>3, <3>1, <3>3, <4>1
    <3>4. ASSUME NEW h \in at + 1 .. L, j = h + n PROVE f[i] < f[j]
      <4>1. f[j] = q[h] - g + n /\ q[h] \in Nat /\ p + g < q[h] /\ h \in 1 .. L /\ h \in Nat
        BY <1>9, <3>4
      <4>2. m < h
        BY <1>15, <2>3, <3>1, <3>4, <4>1
      <4>3. q[m] < q[h]
        BY <1>3, <3>1, <4>1, <4>2
      <4>4. \A x, y \in Nat : x < y => x - g + n < y - g + n
        BY <1>1, <1>6
      <4>5. q[m] - g + n < q[h] - g + n
        BY <3>1, <4>1, <4>3, <4>4
      <4>6. QED
        BY <3>1, <4>1, <4>5
    <3>5. QED
      BY <1>14, <3>2, <3>3, <3>4
  <2>4. QED
    BY <1>14, <2>1, <2>2, <2>3
<1>16. ASSUME NEW i \in 1 .. K PROVE t[i] = u[f[i]]
  <2>1. CASE i \in 1 .. at
    <3>1. t[i] = s[i] /\ f[i] = q[i] /\ q[i] \in 1 .. p /\ i \in 1 .. L
      BY <1>2, <1>7, <2>1
    <3>2. s[i] = r[q[i]] /\ u[q[i]] = r[q[i]]
      BY <1>2, <1>3, <3>1
    <3>3. QED
      BY <3>1, <3>2
  <2>2. ASSUME NEW m \in 1 .. n, i = at + m PROVE t[i] = u[f[i]]
    BY <1>2, <1>8, <2>2
  <2>3. ASSUME NEW m \in at + 1 .. L, i = m + n PROVE t[i] = u[f[i]]
    <3>1. t[i] = s[m] /\ f[i] = q[m] - g + n /\ q[m] \in p + g + 1 .. N /\ m \in 1 .. L
      BY <1>1, <1>2, <1>9, <2>3
    <3>2. u[q[m] - g + n] = r[q[m]] /\ s[m] = r[q[m]]
      BY <1>2, <1>3, <3>1
    <3>3. QED
      BY <3>1, <3>2
  <2>4. QED
    BY <1>14, <2>1, <2>2, <2>3
<1>17. ASSUME NEW k \in 1 .. U PROVE u[k] \in T <=> \E i \in 1 .. K : f[i] = k
  <2>0. k \in Nat /\ 1 <= k /\ k <= N - g + n
    BY <1>k
  <2>1. CASE k <= p
    <3>1. k \in 1 .. N /\ k \in 1 .. p /\ u[k] = r[k]
      BY <1>1, <1>2, <2>0, <2>1
    <3>2. u[k] \in T <=> \E i \in 1 .. L : q[i] = k
      BY <1>3, <1>5, <2>1, <3>1
    <3>3. ASSUME NEW i \in 1 .. L, q[i] = k PROVE i \in 1 .. K /\ f[i] = k
      <4>1. i \in 1 .. at
        <5>1. ~(p + g < q[i])
          BY <1>2, <2>0, <2>1, <3>3
        <5>2. i <= at
          BY <1>4, <5>1
        <5>3. QED
          BY <1>1, <5>2
      <4>2. QED
        BY <1>7, <3>3, <4>1
    <3>4. ASSUME NEW i \in 1 .. K, f[i] = k PROVE i \in 1 .. L /\ q[i] = k
      <4>1. CASE i \in 1 .. at
        BY <1>7, <3>4, <4>1
      <4>2. ASSUME NEW m \in 1 .. n, i = at + m PROVE FALSE
        <5>1. f[i] = p + m /\ m \in Nat /\ 1 <= m
          BY <1>8, <4>2
        <5>2. QED
          BY <1>2, <2>0, <2>1, <3>4, <5>1
      <4>3. ASSUME NEW m \in at + 1 .. L, i = m + n PROVE FALSE
        <5>1. f[i] = q[m] - g + n /\ q[m] \in Nat /\ p + g < q[m]
          BY <1>9, <4>3
        <5>2. QED
          BY <1>2, <2>0, <2>1, <3>4, <5>1
      <4>4. QED
        BY <1>14, <4>1, <4>2, <4>3
    <3>5. QED
      BY <3>2, <3>3, <3>4
  <2>2. CASE p < k /\ k <= p + n
    <3>1. PICK m \in 1 .. n : k = p + m
      <4>1. k - p \in 1 .. n /\ k = p + (k - p)
        BY <1>2, <2>0, <2>2
      <4>2. QED
        BY <4>1
    <3>2. u[k] \in T
      BY <1>2, <1>5, <3>1
    <3>3. at + m \in 1 .. K /\ f[at + m] = k
      BY <1>8, <3>1
    <3>4. QED
      BY <3>2, <3>3
  <2>3. CASE p + n < k
    <3>1. PICK m \in p + g + 1 .. N : k = m - g + n
      <4>1. k - n + g \in p + g + 1 .. N /\ k = (k - n + g) - g + n
        BY <1>1, <1>2, <2>0, <2>3
      <4>2. QED
        BY <4>1
    <3>2. u[k] = r[m] /\ p + g < m /\ m \in 1 .. N /\ m \in Nat
      BY <1>1, <1>2, <3>1
    <3>3. u[k] \in T <=> \E i \in 1 .. L : q[i] = m
      BY <1>3, <1>5, <3>2
    <3>4. ASSUME NEW i \in 1 .. L, q[i] = m PROVE i + n \in 1 .. K /\ f[i + n] = k
      <4>1. i \in at + 1 .. L
        <5>1. ~(q[i] <= p)
          BY <1>2, <3>2, <3>4
        <5>2. ~(i <= at)
          BY <1>4, <5>1
        <5>3. QED
          BY <1>1, <5>2
      <4>2. QED
        BY <1>9, <3>1, <3>4, <4>1
    <3>5. ASSUME NEW i \in 1 .. K, f[i] = k PROVE \E h \in 1 .. L : q[h] = m
      <4>1. CASE i \in 1 .. at
        <5>1. f[i] \in Nat /\ f[i] <= p
          BY <1>7, <4>1
        <5>2. QED
          BY <1>2, <2>3, <3>5, <5>1
      <4>2. ASSUME NEW h \in 1 .. n, i = at + h PROVE FALSE
        <5>1. f[i] = p + h /\ h \in Nat /\ h <= n
          BY <1>8, <4>2
        <5>2. QED
          BY <1>2, <2>3, <3>5, <5>1
      <4>3. ASSUME NEW h \in at + 1 .. L, i = h + n PROVE h \in 1 .. L /\ q[h] = m
        <5>1. f[i] = q[h] - g + n /\ q[h] \in Nat /\ h \in 1 .. L
          BY <1>9, <4>3
        <5>2. q[h] - g + n = m - g + n
          BY <3>1, <3>5, <5>1
        <5>3. QED
          BY <1>2, <3>2, <5>1, <5>2
      <4>4. QED
        BY <1>14, <4>1, <4>2, <4>3
    <3>6. QED
      BY <3>3, <3>4, <3>5
  <2>5. QED
    BY <1>2, <2>0, <2>1, <2>2, <2>3
<1>18. Chosen(u, t, T)
  <2>1. Picks(u, t, f, T)
    BY <1>k, <1>11, <1>13, <1>15, <1>16, <1>17 DEF Picks, U
  <2>2. QED
    BY <2>1 DEF Chosen
<1>19. Inset(s, t, at, Following(a, n))
  <2> DEFINE m == Following(a, n)
  <2>1. Len(m) = n /\ \A i \in 1 .. n : m[i] = a + i
    BY DEF Following
  <2> HIDE DEF m
  <2>2. /\ at \in 0 .. L /\ Len(t) = L + n
        /\ \A i \in 1 .. at : t[i] = s[i]
        /\ \A i \in 1 .. n : t[at + i] = m[i]
        /\ \A i \in at + 1 .. L : t[i + n] = s[i]
    BY <1>1, <1>k, <1>7, <1>8, <1>9, <1>11, <2>1
  <2>3. Inset(s, t, at, m)
    BY <2>1, <2>2 DEF Inset, L
  <2>4. QED
    BY <2>3 DEF m
<1>20. QED
  BY <1>11, <1>18, <1>19

\* t is s without the c elements after the first at.
Excised(s, t, at, c) ==
    /\ at \in Nat /\ c \in Nat /\ at + c <= Len(s)
    /\ Len(t) = Len(s) - c
    /\ \A i \in 1 .. at : t[i] = s[i]
    /\ \A i \in at + c + 1 .. Len(s) : t[i - c] = s[i]

\* An index, or the end where it is beyond.
Capped(i, n) == IF i < n THEN i ELSE n

\* T is S without the c elements that q picks after the first at.
Narrowed(r, q, S, T, at, c) ==
    \A k \in 1 .. Len(r) : r[k] \in T <=> r[k] \in S /\ \A i \in at + 1 .. at + c : q[i] # k

\* What is still picked when c elements that follow each other are not.
LEMMA PicksExcised ==
  ASSUME NEW r \in Seq(Nat), NEW s \in Seq(Nat), NEW q, NEW S, Picks(r, s, q, S),
         NEW at \in Nat, NEW c \in Nat, at + c <= Len(s), NEW T, Narrowed(r, q, S, T, at, c)
  PROVE  \E t \in Seq(Nat) : Chosen(r, t, T) /\ Excised(s, t, at, c)
<1> DEFINE N == Len(r)
           L == Len(s)
           t == [i \in 1 .. L - c |-> IF i <= at THEN s[i] ELSE s[i + c]]
           f == [i \in 1 .. L - c |-> IF i <= at THEN q[i] ELSE q[i + c]]
<1>1. /\ N \in Nat /\ L \in Nat /\ at + c <= L
      /\ \A i \in 1 .. L : s[i] \in Nat
  BY SeqElements
<1>2. /\ \A i \in 1 .. L : q[i] \in 1 .. N /\ s[i] = r[q[i]]
      /\ \A i, j \in 1 .. L : i < j => q[i] < q[j]
      /\ \A k \in 1 .. N : r[k] \in S <=> \E i \in 1 .. L : q[i] = k
  BY DEF Picks
<1>3. \A k \in 1 .. N : r[k] \in T <=> r[k] \in S /\ \A i \in at + 1 .. at + c : q[i] # k
  BY DEF Narrowed
<1> DEFINE K == L - c
<1> HIDE DEF N, L
<1>4. /\ \A i \in 1 .. at : t[i] = s[i] /\ f[i] = q[i] /\ i \in 1 .. L /\ i \in 1 .. L - c
      /\ \A i \in at + c + 1 .. L : t[i - c] = s[i] /\ f[i - c] = q[i] /\ i \in 1 .. L /\ i - c \in 1 .. L - c
  BY <1>1
<1>5. \A i \in 1 .. L - c : \E m \in 1 .. L :
          /\ m = IF i <= at THEN i ELSE i + c
          /\ m \notin at + 1 .. at + c
          /\ t[i] = s[m] /\ f[i] = q[m]
  BY <1>1
<1>k. K \in Nat /\ K = L - c
  BY <1>1
<1>7. t = [i \in 1 .. K |-> t[i]] /\ f = [i \in 1 .. K |-> f[i]]
  OBVIOUS
<1>14. \A i \in 1 .. K : \E m \in 1 .. L : /\ m \notin at + 1 .. at + c
                                         /\ t[i] = s[m] /\ f[i] = q[m]
  BY <1>5
<1> HIDE DEF t, f, K
<1>6. t \in Seq(Nat) /\ Len(t) = K
  <2>1. \A i \in 1 .. K : t[i] \in Nat
    BY <1>1, <1>14
  <2>2. t \in [1 .. K -> Nat]
    BY <1>7, <2>1
  <2>3. K \in Nat
    BY <1>k
  <2>4. QED
    BY <2>2, <2>3
<1>8. f \in [1 .. K -> 1 .. N]
  <2>1. \A i \in 1 .. K : f[i] \in 1 .. N
    BY <1>2, <1>14
  <2>2. QED
    BY <1>7, <2>1
<1>9. ASSUME NEW i \in 1 .. L - c, NEW j \in 1 .. L - c, i < j PROVE f[i] < f[j]
  <2>1. PICK m \in 1 .. L : m = (IF i <= at THEN i ELSE i + c) /\ f[i] = q[m]
    BY <1>5
  <2>2. PICK h \in 1 .. L : h = (IF j <= at THEN j ELSE j + c) /\ f[j] = q[h]
    BY <1>5
  <2>3. m < h
    BY <1>9, <2>1, <2>2
  <2>4. QED
    BY <1>2, <2>1, <2>2, <2>3
<1>10. ASSUME NEW i \in 1 .. K PROVE t[i] = r[f[i]]
  <2>1. PICK m \in 1 .. L : t[i] = s[m] /\ f[i] = q[m]
    BY <1>14
  <2>2. s[m] = r[q[m]]
    BY <1>2
  <2>3. QED
    BY <2>1, <2>2
<1>11. ASSUME NEW k \in 1 .. N PROVE r[k] \in T <=> \E i \in 1 .. L - c : f[i] = k
  <2>1. ASSUME r[k] \in T PROVE \E i \in 1 .. L - c : f[i] = k
    <3>1. PICK m \in 1 .. L : q[m] = k
      BY <1>2, <1>3, <2>1
    <3>2. m \notin at + 1 .. at + c
      BY <1>3, <2>1, <3>1
    <3>3. CASE m \in 1 .. at
      BY <1>4, <3>1, <3>3
    <3>4. CASE m \in at + c + 1 .. L
      BY <1>4, <3>1, <3>4
    <3>5. QED
      BY <1>1, <3>2, <3>3, <3>4
  <2>2. ASSUME NEW i \in 1 .. L - c, f[i] = k PROVE r[k] \in T
    <3>1. PICK m \in 1 .. L : m \notin at + 1 .. at + c /\ f[i] = q[m]
      BY <1>5
    <3>2. r[k] \in S
      BY <1>2, <2>2, <3>1
    <3>3. ASSUME NEW j \in at + 1 .. at + c PROVE q[j] # k
      <4>1. j \in 1 .. L /\ (j < m \/ m < j)
        BY <1>1, <3>1
      <4>2. q[j] < q[m] \/ q[m] < q[j]
        BY <1>2, <4>1
      <4>3. QED
        BY <1>1, <1>2, <2>2, <3>1, <4>1, <4>2
    <3>4. QED
      BY <1>3, <3>2, <3>3
  <2>3. QED
    BY <2>1, <2>2
<1>12. Picks(r, t, f, T)
  <2>1. \A i, j \in 1 .. K : i < j => f[i] < f[j]
    BY <1>9, <1>k
  <2>2. \A k \in 1 .. N : r[k] \in T <=> \E i \in 1 .. K : f[i] = k
    BY <1>11, <1>k
  <2>3. K \in Nat
    BY <1>k
  <2>4. QED
    BY <1>6, <1>8, <1>10, <2>1, <2>2, <2>3 DEF Picks, N
<1>13. Excised(s, t, at, c)
  <2>1. Len(t) = L - c
    BY <1>k, <1>6
  <2>2. QED
    BY <1>1, <1>4, <2>1 DEF Excised, L
<1>15. QED
  BY <1>6, <1>12, <1>13 DEF Chosen

\* As sequences are written: s with m put in at an index, and s without what is after the
\* first at up to an index.
PutAt(s, at, m) == SubSeq(s, 1, at) \o m \o SubSeq(s, at + 1, Len(s))
CutOut(s, at, upto) == SubSeq(s, 1, at) \o SubSeq(s, upto + 1, Len(s))

LEMMA InsetIs ==
  ASSUME NEW E, NEW s \in Seq(E), NEW t \in Seq(E), NEW m \in Seq(E), NEW at, Inset(s, t, at, m)
  PROVE  t = PutAt(s, at, m)
<1> DEFINE a == SubSeq(s, 1, at)
           b == SubSeq(s, at + 1, Len(s))
           L == Len(s)
           M == Len(m)
<1>1. L \in Nat /\ M \in Nat /\ at \in 0 .. L /\ at \in Nat /\ (\A i \in 1 .. L : s[i] \in E)
  BY SeqElements DEF Inset
<1>2. /\ Len(t) = L + M
      /\ \A i \in 1 .. at : t[i] = s[i]
      /\ \A i \in 1 .. M : t[at + i] = m[i]
      /\ \A i \in at + 1 .. L : t[i + M] = s[i]
  BY DEF Inset
<1> HIDE DEF L, M
<1>3. a \in Seq(E) /\ Len(a) = at /\ \A i \in 1 .. at : a[i] = s[i]
  <2>1. \A i \in 1 .. at : s[i] \in E
    BY <1>1
  <2>2. QED
    BY <1>1, <2>1, SubSeqProperties
<1>4. b \in Seq(E) /\ Len(b) = L - at /\ \A i \in 1 .. L - at : b[i] = s[at + i]
  <2>1. \A i \in at + 1 .. L : s[i] \in E
    BY <1>1
  <2>2. b \in Seq(E) /\ Len(b) = (IF at + 1 <= L THEN L - (at + 1) + 1 ELSE 0)
        /\ \A i \in 1 .. L - (at + 1) + 1 : b[i] = s[at + 1 + i - 1]
    BY <1>1, <2>1, SubSeqProperties DEF L
  <2>3. QED
    BY <1>1, <2>2
<1> HIDE DEF a, b
<1> DEFINE ab == a \o m
<1>5. ab \in Seq(E) /\ Len(ab) = at + M /\ \A i \in 1 .. at + M : ab[i] = IF i <= at THEN a[i] ELSE m[i - at]
  BY <1>3, ConcatProperties DEF M
<1> HIDE DEF ab
<1> DEFINE x == ab \o b
<1>6. /\ x \in Seq(E) /\ Len(x) = (at + M) + (L - at)
      /\ \A i \in 1 .. (at + M) + (L - at) : x[i] = IF i <= at + M THEN ab[i] ELSE b[i - (at + M)]
  <2>1. ab \in Seq(E) /\ b \in Seq(E)
    BY <1>4, <1>5
  <2>2. /\ x \in Seq(E) /\ Len(x) = Len(ab) + Len(b)
        /\ \A i \in 1 .. Len(ab) + Len(b) : x[i] = IF i <= Len(ab) THEN ab[i] ELSE b[i - Len(ab)]
    BY <2>1, ConcatProperties
  <2>3. Len(ab) = at + M /\ Len(b) = L - at
    BY <1>4, <1>5
  <2> HIDE DEF x
  <2>4. QED
    BY <2>2, <2>3
<1> HIDE DEF x
<1>7. ASSUME NEW i \in 1 .. L + M PROVE t[i] = x[i]
  <2>1. CASE i <= at
    BY <1>1, <1>2, <1>3, <1>5, <1>6, <2>1
  <2>2. CASE at < i /\ i <= at + M
    <3>1. i - at \in 1 .. M /\ at + (i - at) = i
      BY <1>1, <2>2
    <3>2. t[i] = m[i - at]
      BY <1>2, <3>1
    <3>3. QED
      BY <1>1, <1>5, <1>6, <2>2, <3>2
  <2>3. CASE at + M < i
    <3> DEFINE h == i - M
    <3>1. h \in at + 1 .. L /\ i = h + M /\ i - (at + M) = h - at /\ h - at \in 1 .. L - at /\ at + (h - at) = h
      BY <1>1, <2>3
    <3> HIDE DEF h
    <3>2. t[i] = s[h]
      BY <1>2, <3>1
    <3>3. x[i] = b[h - at]
      BY <1>1, <1>6, <2>3, <3>1
    <3>4. b[h - at] = s[h]
      BY <1>4, <3>1
    <3>5. QED
      BY <3>2, <3>3, <3>4
  <2>4. QED
    BY <1>1, <2>1, <2>2, <2>3
<1>8. t = x
  <2>1. Len(t) = L + M /\ Len(x) = L + M
    BY <1>1, <1>2, <1>6
  <2>2. QED
    BY <1>6, <1>7, <2>1, SeqEqual
<1>9. QED
  BY <1>8 DEF x, ab, a, b, L, PutAt

LEMMA ExcisedIs ==
  ASSUME NEW E, NEW s \in Seq(E), NEW t \in Seq(E), NEW at, NEW c, Excised(s, t, at, c)
  PROVE  t = CutOut(s, at, at + c)
<1> DEFINE a == SubSeq(s, 1, at)
           b == SubSeq(s, at + c + 1, Len(s))
           L == Len(s)
<1>1. L \in Nat /\ at \in Nat /\ c \in Nat /\ at + c <= L /\ (\A i \in 1 .. L : s[i] \in E)
  BY SeqElements DEF Excised
<1>2. /\ Len(t) = L - c
      /\ \A i \in 1 .. at : t[i] = s[i]
      /\ \A i \in at + c + 1 .. L : t[i - c] = s[i]
  BY DEF Excised
<1> HIDE DEF L
<1>3. a \in Seq(E) /\ Len(a) = at /\ \A i \in 1 .. at : a[i] = s[i]
  <2>1. \A i \in 1 .. at : s[i] \in E
    BY <1>1
  <2>2. QED
    BY <1>1, <2>1, SubSeqProperties
<1>4. b \in Seq(E) /\ Len(b) = L - at - c /\ \A i \in 1 .. L - at - c : b[i] = s[at + c + i]
  <2>1. \A i \in at + c + 1 .. L : s[i] \in E
    BY <1>1
  <2>2. b \in Seq(E) /\ Len(b) = (IF at + c + 1 <= L THEN L - (at + c + 1) + 1 ELSE 0)
        /\ \A i \in 1 .. L - (at + c + 1) + 1 : b[i] = s[at + c + 1 + i - 1]
    BY <1>1, <2>1, SubSeqProperties DEF L
  <2>3. QED
    BY <1>1, <2>2
<1> HIDE DEF a, b
<1> DEFINE x == a \o b
<1>5. /\ x \in Seq(E) /\ Len(x) = at + (L - at - c)
      /\ \A i \in 1 .. at + (L - at - c) : x[i] = IF i <= at THEN a[i] ELSE b[i - at]
  <2>1. a \in Seq(E) /\ b \in Seq(E)
    BY <1>3, <1>4
  <2>2. /\ x \in Seq(E) /\ Len(x) = Len(a) + Len(b)
        /\ \A i \in 1 .. Len(a) + Len(b) : x[i] = IF i <= Len(a) THEN a[i] ELSE b[i - Len(a)]
    BY <2>1, ConcatProperties
  <2>3. Len(a) = at /\ Len(b) = L - at - c
    BY <1>3, <1>4
  <2> HIDE DEF x
  <2>4. QED
    BY <2>2, <2>3
<1> HIDE DEF x
<1>6. ASSUME NEW i \in 1 .. L - c PROVE t[i] = x[i]
  <2>1. CASE i <= at
    <3>1. i \in 1 .. at /\ i \in 1 .. at + (L - at - c)
      BY <1>1, <2>1
    <3>2. t[i] = s[i] /\ a[i] = s[i]
      BY <1>2, <1>3, <3>1
    <3>3. x[i] = a[i]
      BY <1>5, <2>1, <3>1
    <3>4. QED
      BY <3>2, <3>3
  <2>2. CASE at < i
    <3> DEFINE h == i + c
    <3>1. h \in at + c + 1 .. L /\ i = h - c /\ i - at \in 1 .. L - at - c /\ at + c + (i - at) = h
      BY <1>1, <2>2
    <3> HIDE DEF h
    <3>2. t[i] = s[h]
      BY <1>2, <3>1
    <3>3. x[i] = b[i - at]
      <4>1. i \in 1 .. at + (L - at - c) /\ ~(i <= at)
        BY <1>1, <2>2
      <4>2. QED
        BY <1>5, <4>1
    <3>4. b[i - at] = s[h]
      BY <1>4, <3>1
    <3>5. QED
      BY <3>2, <3>3, <3>4
  <2>3. QED
    BY <1>1, <2>1, <2>2
<1>7. t = x
  <2>1. Len(t) = L - c /\ Len(x) = L - c
    BY <1>1, <1>2, <1>5
  <2>2. QED
    BY <1>5, <1>6, <2>1, SeqEqual
<1>8. QED
  BY <1>7 DEF x, a, b, L, CutOut

\* The items that are not deleted.
Alive(d) == { k \in Refs(d) : ~d.heap[k].deleted }

\* live picks them from the row.
LEMMA liveIs ==
  ASSUME NEW d, Sound(d), NEW l \in List
  PROVE  /\ live(d, l) \in Seq(Nat) /\ live(d, l) \in Seq(Refs(d))
         /\ \E q : Picks(Row(d, l), live(d, l), q, Alive(d))
<1> DEFINE X == Refs(d)
           s == Row(d, l)
           S == { k \in DOMAIN d.heap : ~d.heap[k].deleted }
<1>1. DOMAIN d.heap = X /\ Len(d.heap) \in Nat
  BY DocFields DEF Sound, Whole
<1>2. S = Alive(d)
  BY <1>1 DEF Alive
<1>3. live(d, l) = Among(s, S)
  BY DEF live, Row
<1>4. s \in Seq(X) /\ Distinct(s)
  BY RowFollows
<1>5. X \subseteq Nat
  BY <1>1 DEF Refs
<1> HIDE DEF X, s, S
<1>6. Among(s, S) \in Seq(X \cap S)
  BY <1>4, AmongIs
<1>7. Among(s, S) \in Seq(Nat) /\ Among(s, S) \in Seq(X)
  <2>1. X \cap S \subseteq Nat /\ X \cap S \subseteq X
    BY <1>5
  <2>2. QED
    BY <1>6, <2>1
<1>8. \E q : Picks(s, Among(s, S), q, S)
  BY <1>4, AmongPicks
<1>9. QED
  BY <1>2, <1>3, <1>7, <1>8 DEF X, s

\* Nothing else does.
LEMMA liveOnce ==
  ASSUME NEW d, Sound(d), NEW l \in List, NEW t \in Seq(Nat), NEW q, Picks(Row(d, l), t, q, Alive(d))
  PROVE  live(d, l) = t
<1> DEFINE s == Row(d, l)
           u == live(d, l)
           S == Alive(d)
<1>1. s \in Seq(Refs(d)) /\ Distinct(s)
  BY RowFollows
<1>2. s \in Seq(Nat)
  <2>1. Refs(d) \subseteq Nat
    BY DEF Refs
  <2> HIDE DEF s
  <2>2. QED
    BY <1>1, <2>1
<1>3. u \in Seq(Nat)
  BY liveIs
<1>4. PICK p : Picks(s, u, p, S)
  BY liveIs
<1>5. Picks(s, t, q, S)
  OBVIOUS
<1> HIDE DEF s, u, S
<1>6. u = t
  BY <1>1, <1>2, <1>3, <1>4, <1>5, PicksOnce
<1>7. QED
  BY <1>6 DEF u

\* What a list shows is one value for each of its live items.
LEMMA visibleSpells ==
  ASSUME NEW d, Sound(d), NEW l \in List
  PROVE  /\ visible(d, l) = [i \in 1 .. Len(live(d, l)) |-> d.heap[live(d, l)[i]].str[1]]
         /\ \A i \in 1 .. Len(live(d, l)) : d.heap[live(d, l)[i]].str[1] \in 1 .. MaxChars
<1> DEFINE refs == live(d, l)
           N == Len(refs)
           E == 1 .. MaxChars
           text(n) == d.heap[refs[n]].str
           w(n) == text(n)[1]
           upto(n) == [i \in 1 .. n |-> w(i)]
           Solves(g) == g = [n \in 0 .. N |-> IF n = 0 THEN <<>> ELSE g[n - 1] \o text(n)]
           f == CHOOSE x : Solves(x)
<1>1. visible(d, l) = f[N]
  BY DEF Loop, visible
<1>2. N \in Nat /\ \A n \in 1 .. N : refs[n] \in Refs(d)
  BY liveIs, SeqElements
<1>3. \A n \in 1 .. N : text(n) \in Seq(E) /\ Len(text(n)) = 1
  <2>1. \A k \in Refs(d) : d.heap[k].str \in Seq(E) /\ Len(d.heap[k].str) = 1
    BY DocFields, ItemFields DEF Sound, Whole
  <2>2. QED
    BY <1>2, <2>1
<1> HIDE DEF f, N, E, text
<1>4. \A n \in 1 .. N : w(n) \in E
  BY <1>3
<1> HIDE DEF w
<1>5. ASSUME NEW n \in 0 .. N PROVE upto(n) \in Seq(E) /\ Len(upto(n)) = n /\ \A i \in 1 .. n : upto(n)[i] = w(i)
  <2>1. \A i \in 1 .. n : i \in 1 .. N
    BY <1>2
  <2>2. upto(n) \in [1 .. n -> E]
    BY <1>4, <2>1
  <2>3. n \in Nat
    BY <1>2
  <2>4. \A i \in 1 .. n : upto(n)[i] = w(i)
    OBVIOUS
  <2> HIDE DEF upto
  <2>5. QED
    BY <2>2, <2>3, <2>4
<1> HIDE DEF upto
<1>6. ASSUME NEW n \in 1 .. N PROVE upto(n) = upto(n - 1) \o text(n)
  <2> DEFINE a == upto(n - 1)
             b == text(n)
             c == upto(n)
  <2>1. n - 1 \in 0 .. N /\ n \in 0 .. N /\ n \in Nat
    BY <1>2
  <2>2. a \in Seq(E) /\ Len(a) = n - 1 /\ \A i \in 1 .. n - 1 : a[i] = w(i)
    BY <1>5, <2>1
  <2>3. c \in Seq(E) /\ Len(c) = n /\ \A i \in 1 .. n : c[i] = w(i)
    BY <1>5, <2>1
  <2>4. b \in Seq(E) /\ Len(b) = 1 /\ b[1] = w(n)
    BY <1>3 DEF w
  <2> HIDE DEF a, b, c
  <2>5. /\ a \o b \in Seq(E) /\ Len(a \o b) = n
        /\ \A i \in 1 .. n : (a \o b)[i] = IF i <= n - 1 THEN a[i] ELSE b[i - (n - 1)]
    <3>1. /\ a \o b \in Seq(E) /\ Len(a \o b) = Len(a) + Len(b)
          /\ \A i \in 1 .. Len(a) + Len(b) : (a \o b)[i] = IF i <= Len(a) THEN a[i] ELSE b[i - Len(a)]
      BY <2>2, <2>4, ConcatProperties
    <3>2. Len(a) + Len(b) = n
      BY <2>1, <2>2, <2>4
    <3>3. QED
      BY <2>2, <3>1, <3>2
  <2>6. \A i \in 1 .. n : (a \o b)[i] = c[i]
    <3>1. ASSUME NEW i \in 1 .. n PROVE (a \o b)[i] = c[i]
      <4>1. CASE i = n
        <5>1. ~(i <= n - 1) /\ i - (n - 1) = 1
          BY <2>1, <4>1
        <5>2. QED
          BY <2>3, <2>4, <2>5, <4>1, <5>1
      <4>2. CASE i # n
        <5>1. i <= n - 1 /\ i \in 1 .. n - 1
          BY <2>1, <4>2
        <5>2. QED
          BY <2>2, <2>3, <2>5, <5>1
      <4>3. QED
        BY <4>1, <4>2
    <3>2. QED
      BY <3>1
  <2>7. c = a \o b
    BY <2>3, <2>5, <2>6, SeqEqual
  <2>8. QED
    BY <2>7 DEF a, b, c
<1>7. upto(0) = <<>>
  <2>1. upto(0) \in Seq(E) /\ Len(upto(0)) = 0
    BY <1>2, <1>5
  <2>2. QED
    BY <2>1
<1>8. Solves([n \in 0 .. N |-> upto(n)])
  <2> DEFINE g == [n \in 0 .. N |-> upto(n)]
  <2>1. \A n \in 1 .. N : g[n] = upto(n) /\ g[n - 1] = upto(n - 1)
    BY <1>2
  <2>2. \A n \in 0 .. N : g[n] = IF n = 0 THEN <<>> ELSE g[n - 1] \o text(n)
    <3>1. g[0] = <<>>
      BY <1>2, <1>7
    <3>2. \A n \in 1 .. N : g[n] = g[n - 1] \o text(n)
      BY <1>6, <2>1
    <3>3. \A n \in 0 .. N : n = 0 \/ (n # 0 /\ n \in 1 .. N)
      BY <1>2
    <3> HIDE DEF g
    <3>4. QED
      BY <3>1, <3>2, <3>3
  <2>3. QED
    BY <2>2
<1>9. Solves(f)
  <2> HIDE DEF Solves
  <2> QED BY <1>8 DEF f
<1>10. f[0] = <<>> /\ \A n \in 1 .. N : f[n] = f[n - 1] \o text(n)
  <2>1. \A n \in 0 .. N : f[n] = IF n = 0 THEN <<>> ELSE f[n - 1] \o text(n)
    BY <1>9
  <2>2. 0 \in 0 .. N /\ \A n \in 1 .. N : n \in 0 .. N /\ n # 0
    BY <1>2
  <2>3. QED
    BY <2>1, <2>2
<1> DEFINE Same == { n \in Nat : n <= N => f[n] = upto(n) }
<1>11. \A n \in Nat : n \in Same
  <2>1. 0 \in Same
    BY <1>7, <1>10
  <2>2. ASSUME NEW n \in Nat, n \in Same PROVE n + 1 \in Same
    <3>1. SUFFICES ASSUME n + 1 <= N PROVE f[n + 1] = upto(n + 1)
      OBVIOUS
    <3>2. n + 1 \in 1 .. N /\ (n + 1) - 1 = n /\ n <= N
      BY <1>2, <3>1
    <3>3. f[n] = upto(n)
      BY <2>2, <3>2
    <3>4. f[n + 1] = f[n] \o text(n + 1) /\ upto(n + 1) = upto(n) \o text(n + 1)
      BY <1>6, <1>10, <3>2
    <3>5. QED
      BY <3>3, <3>4
  <2> HIDE DEF Same
  <2>3. QED
    BY <2>1, <2>2, Induction
<1>12. f[N] = upto(N)
  BY <1>2, <1>11
<1>13. /\ visible(d, l) = [i \in 1 .. N |-> w(i)]
       /\ \A i \in 1 .. N : w(i) \in E
  BY <1>1, <1>4, <1>12 DEF upto
<1>14. QED
  BY <1>13 DEF N, w, text, E

\* One value for each.
LEMMA visibleCounts ==
  ASSUME NEW d, Sound(d), NEW l \in List
  PROVE  visible(d, l) \in Seq(1 .. MaxChars) /\ Len(visible(d, l)) = Len(live(d, l)) /\ Len(live(d, l)) \in Nat
<1> DEFINE E == 1 .. MaxChars
           s == live(d, l)
           v == visible(d, l)
           L == Len(s)
<1>1. s \in Seq(Nat)
  BY liveIs
<1>2. v = [i \in 1 .. L |-> d.heap[s[i]].str[1]] /\ \A i \in 1 .. L : d.heap[s[i]].str[1] \in E
  BY visibleSpells
<1> HIDE DEF s, v, E
<1>3. L \in Nat
  BY <1>1
<1> HIDE DEF L
<1>4. v \in [1 .. L -> E]
  BY <1>2
<1>5. v \in Seq(E) /\ Len(v) = L
  BY <1>3, <1>4
<1>6. QED
  BY <1>3, <1>5 DEF s, v, E, L

\* Text.Len and the like count the live items.
LEMMA textLenCounts ==
  ASSUME NEW d, Sound(d), NEW l \in List
  PROVE  textLen(d, l) = Len(live(d, l)) /\ Len(live(d, l)) \in Nat
<1> DEFINE refs == live(d, l)
           N == Len(refs)
           one(n) == d.heap[refs[n]].len
           Solves(g) == g = [n \in 0 .. N |-> IF n = 0 THEN 0 ELSE g[n - 1] + one(n)]
           f == CHOOSE x : Solves(x)
<1>1. textLen(d, l) = f[N]
  BY DEF Loop, textLen
<1>2. N \in Nat /\ \A n \in 1 .. N : refs[n] \in Refs(d)
  BY liveIs, SeqElements
<1>3. \A n \in 1 .. N : one(n) = 1
  BY <1>2 DEF Sound, Whole
<1> HIDE DEF f, N, one
<1>4. Solves([n \in 0 .. N |-> n])
  <2> DEFINE g == [n \in 0 .. N |-> n]
  <2>1. \A n \in 1 .. N : g[n - 1] = n - 1
    BY <1>2
  <2>2. \A n \in 0 .. N : g[n] = IF n = 0 THEN 0 ELSE g[n - 1] + one(n)
    BY <1>2, <1>3, <2>1
  <2>3. QED
    BY <2>2
<1>5. Solves(f)
  <2> HIDE DEF Solves
  <2> QED BY <1>4 DEF f
<1>6. f[0] = 0 /\ \A n \in 1 .. N : f[n] = f[n - 1] + 1
  <2>1. \A n \in 0 .. N : f[n] = IF n = 0 THEN 0 ELSE f[n - 1] + one(n)
    BY <1>5
  <2>2. 0 \in 0 .. N /\ \A n \in 1 .. N : n \in 0 .. N /\ n # 0
    BY <1>2
  <2>3. QED
    BY <1>3, <2>1, <2>2
<1> DEFINE Same == { n \in Nat : n <= N => f[n] = n }
<1>7. \A n \in Nat : n \in Same
  <2>1. 0 \in Same
    BY <1>6
  <2>2. ASSUME NEW n \in Nat, n \in Same PROVE n + 1 \in Same
    <3>1. SUFFICES ASSUME n + 1 <= N PROVE f[n + 1] = n + 1
      OBVIOUS
    <3>2. n + 1 \in 1 .. N /\ (n + 1) - 1 = n /\ n <= N
      BY <1>2, <3>1
    <3>3. f[n] = n /\ f[n + 1] = f[n] + 1
      BY <1>6, <2>2, <3>2
    <3>4. QED
      BY <3>3
  <2> HIDE DEF Same
  <2>3. QED
    BY <2>1, <2>2, Induction
<1>8. f[N] = N
  BY <1>2, <1>7
<1>9. QED
  BY <1>1, <1>2, <1>8 DEF N

\* The first p items of the row are those up to the live item at, and the rest of the row
\* is the others.
Divides(d, l, p, at) ==
    /\ at \in 0 .. Len(live(d, l))
    /\ \E q : /\ Picks(Row(d, l), live(d, l), q, Alive(d))
              /\ \A i \in 1 .. Len(live(d, l)) : IF i <= at THEN q[i] <= p ELSE p < q[i]

\* e is d with n values in the row of the list l, in place of the g items after its first p.
Grafts(d, e, l, p, g, values, n) ==
    /\ Sound(e) /\ Len(e.heap) = Len(d.heap) + n
    /\ Spares(d, e, n)
    /\ \A k \in Refs(d) : e.heap[k].str = d.heap[k].str
    /\ \A i \in 1 .. n : e.heap[Len(d.heap) + i].str = <<values[i]>>
    /\ Grafted(Row(d, l), Row(e, l), p, g, Len(d.heap), n)

\* The g items after the first p of the row are deleted, between the live items at and at + 1.
Gap(d, l, p, g, at) ==
    \E q : Picks(Row(d, l), live(d, l), q, Alive(d)) /\ Parted(live(d, l), q, p, g, at)

\* Then the new items are between those two.
LEMMA GraftsLive ==
  ASSUME NEW d, Sound(d), NEW l \in List, NEW p, NEW g, NEW values, NEW n \in Nat,
         NEW e, Grafts(d, e, l, p, g, values, n), NEW at, Gap(d, l, p, g, at)
  PROVE  Inset(live(d, l), live(e, l), at, Following(Len(d.heap), n))
<1> DEFINE r == Row(d, l)
           s == live(d, l)
           u == Row(e, l)
           S == Alive(d)
           T == Alive(e)
           a == Len(d.heap)
           N == Len(r)
<1>1. Sound(e) /\ Len(e.heap) = a + n /\ a \in Nat
  BY DocFields DEF Grafts, Sound, Whole
<1>2. r \in Seq(Nat) /\ N \in Nat /\ u \in Seq(Nat) /\ s \in Seq(Nat)
  <2>1. Refs(d) \subseteq Nat /\ Refs(e) \subseteq Nat
    BY DEF Refs
  <2>2. r \in Seq(Refs(d)) /\ N \in Nat /\ u \in Seq(Refs(e)) /\ s \in Seq(Nat)
    BY <1>1, RowFollows, liveIs
  <2> HIDE DEF r, u, s, N
  <2>3. QED
    BY <2>1, <2>2
<1>3. PICK q : Picks(r, s, q, S) /\ Parted(s, q, p, g, at)
  BY DEF Gap
<1>4. Grafted(r, u, p, g, a, n)
  BY DEF Grafts
<1>5. \A k \in 1 .. N : r[k] \in T <=> r[k] \in S
  <2>1. \A k \in 1 .. N : r[k] \in Refs(d)
    BY RowFollows
  <2>2. \A k \in Refs(d) : k \in Refs(e) /\ e.heap[k].deleted = d.heap[k].deleted
    BY <1>1 DEF Grafts, Spares, Refs
  <2> HIDE DEF r, N
  <2>3. QED
    BY <2>1, <2>2 DEF Alive
<1>6. \A i \in 1 .. n : a + i \in T
  <2>1. \A i \in 1 .. n : a + i \in Refs(e)
    BY <1>1 DEF Refs
  <2>2. \A i \in 1 .. n : ~e.heap[a + i].deleted
    BY DEF Grafts, Spares
  <2> HIDE DEF a
  <2>3. QED
    BY <2>1, <2>2 DEF Alive
<1> HIDE DEF r, s, u, S, T, a
<1>7. PICK t \in Seq(Nat) : Chosen(u, t, T) /\ Inset(s, t, at, Following(a, n))
  <2>1. Widened(r, S, T, p, g, a, n)
    BY <1>5, <1>6 DEF N, Widened
  <2>2. r \in Seq(Nat) /\ s \in Seq(Nat) /\ u \in Seq(Nat) /\ a \in Nat
    BY <1>1, <1>2
  <2> HIDE DEF N
  <2>3. QED
    BY <1>3, <1>4, <2>1, <2>2, PicksGrafted
<1>8. live(e, l) = t
  <2>1. Chosen(Row(e, l), t, Alive(e))
    BY <1>7 DEF u, T
  <2>2. PICK f : Picks(Row(e, l), t, f, Alive(e))
    BY <2>1 DEF Chosen
  <2> HIDE DEF N
  <2>3. QED
    BY <1>1, <2>2, liveOnce
<1>9. QED
  BY <1>7, <1>8 DEF s, a

\* And what the list shows is spliced there.
LEMMA GraftsShow ==
  ASSUME NEW d, Sound(d), NEW l \in List, NEW p, NEW g, NEW values \in Seq(1 .. MaxChars),
         NEW e, Grafts(d, e, l, p, g, values, Len(values)), NEW at, Gap(d, l, p, g, at)
  PROVE  visible(e, l) = PutAt(visible(d, l), at, values)
<1> DEFINE n == Len(values)
           s == live(d, l)
           t == live(e, l)
           v == visible(d, l)
           w == visible(e, l)
           a == Len(d.heap)
           E == 1 .. MaxChars
           m == Following(a, n)
<1>1. n \in Nat /\ Sound(e) /\ a \in Nat
  BY SeqElements, DocFields DEF Grafts, Sound, Whole
<1>2. Inset(s, t, at, m)
  BY <1>1, GraftsLive
<1>3. Len(m) = n /\ \A i \in 1 .. n : m[i] = a + i
  BY <1>1 DEF Following
<1> HIDE DEF m
<1>4. /\ v = [i \in 1 .. Len(s) |-> d.heap[s[i]].str[1]] /\ \A i \in 1 .. Len(s) : d.heap[s[i]].str[1] \in E
      /\ w = [i \in 1 .. Len(t) |-> e.heap[t[i]].str[1]] /\ \A i \in 1 .. Len(t) : e.heap[t[i]].str[1] \in E
  BY <1>1, visibleSpells
<1>5. Len(s) \in Nat /\ Len(t) \in Nat /\ \A i \in 1 .. Len(s) : s[i] \in Refs(d)
  BY <1>1, liveIs, SeqElements
<1>6. /\ \A k \in Refs(d) : e.heap[k].str = d.heap[k].str
      /\ \A i \in 1 .. n : e.heap[a + i].str[1] = values[i]
  <2>1. \A k \in Refs(d) : e.heap[k].str = d.heap[k].str
    BY DEF Grafts
  <2>2. \A i \in 1 .. n : e.heap[a + i].str = <<values[i]>>
    BY DEF Grafts
  <2> HIDE DEF a, n
  <2>3. QED
    BY <2>1, <2>2
<1> HIDE DEF s, t, a, E, n, v, w
<1>7. /\ at \in 0 .. Len(s)
      /\ Len(t) = Len(s) + n
      /\ \A i \in 1 .. at : t[i] = s[i]
      /\ \A i \in 1 .. n : t[at + i] = a + i
      /\ \A i \in at + 1 .. Len(s) : t[i + n] = s[i]
  BY <1>2, <1>3 DEF Inset
<1>8. /\ v \in Seq(E) /\ Len(v) = Len(s) /\ \A i \in 1 .. Len(s) : v[i] = d.heap[s[i]].str[1]
  <2>1. v \in [1 .. Len(s) -> E]
    BY <1>4
  <2>2. \A i \in 1 .. Len(s) : v[i] = d.heap[s[i]].str[1]
    BY <1>4
  <2>3. QED
    BY <1>5, <2>1, <2>2
<1>9. /\ w \in Seq(E) /\ Len(w) = Len(t) /\ \A i \in 1 .. Len(t) : w[i] = e.heap[t[i]].str[1]
  <2>1. w \in [1 .. Len(t) -> E]
    BY <1>4
  <2>2. \A i \in 1 .. Len(t) : w[i] = e.heap[t[i]].str[1]
    BY <1>4
  <2>3. QED
    BY <1>5, <2>1, <2>2
<1>10. \A i \in 1 .. at : w[i] = v[i]
  <2>1. \A i \in 1 .. at : i \in 1 .. Len(s) /\ i \in 1 .. Len(t)
    BY <1>1, <1>5, <1>7
  <2>2. \A i \in 1 .. at : w[i] = e.heap[s[i]].str[1] /\ v[i] = d.heap[s[i]].str[1]
    BY <1>7, <1>8, <1>9, <2>1
  <2>3. \A i \in 1 .. at : e.heap[s[i]].str = d.heap[s[i]].str
    BY <1>5, <1>6, <2>1
  <2>4. QED
    BY <2>2, <2>3
<1>11. \A i \in 1 .. n : w[at + i] = values[i]
  <2>1. \A i \in 1 .. n : at + i \in 1 .. Len(t)
    BY <1>1, <1>5, <1>7
  <2>2. QED
    BY <1>6, <1>7, <1>9, <2>1
<1>12. \A i \in at + 1 .. Len(s) : w[i + n] = v[i]
  <2>1. \A i \in at + 1 .. Len(s) : i \in 1 .. Len(s) /\ i + n \in 1 .. Len(t)
    BY <1>1, <1>5, <1>7
  <2>2. QED
    BY <1>5, <1>6, <1>7, <1>8, <1>9, <2>1
<1>13. Inset(v, w, at, values)
  BY <1>7, <1>8, <1>9, <1>10, <1>11, <1>12 DEF Inset, n
<1>14. values \in Seq(E)
  BY DEF E
<1>15. w = PutAt(v, at, values)
  BY <1>8, <1>9, <1>13, <1>14, InsetIs
<1>16. QED
  BY <1>15 DEF v, w

\* Values that are laid after the first p items of a row, which divide the live ones at at,
\* are shown there.
LEMMA LaysShows ==
  ASSUME NEW d, Sound(d), NEW c \in Client, NEW l \in List, NEW p, NEW values \in Seq(1 .. MaxChars),
         NEW e, Lays(d, e, c, l, p, values, Len(values)), NEW at, Divides(d, l, p, at)
  PROVE  visible(e, l) = PutAt(visible(d, l), at, values)
<1> DEFINE r == Row(d, l)
           s == live(d, l)
           u == Row(e, l)
           a == Len(d.heap)
           n == Len(values)
           N == Len(r)
<1>1. n \in Nat /\ a \in Nat /\ N \in Nat /\ Sound(e) /\ Len(e.heap) = a + n
  BY RowFollows, SeqElements, DocFields DEF Lays, Typed, Sound, Whole
<1>2. Spliced(r, u, p, a, n)
  BY DEF Lays
<1>3. p \in Nat /\ p <= N
  BY <1>1, <1>2 DEF Spliced
<1>4. Grafted(r, u, p, 0, a, n)
  <2> HIDE DEF r, u, n
  <2>1. /\ p \in 0 .. N /\ Len(u) = N + n
        /\ \A i \in 1 .. p : u[i] = r[i]
        /\ \A i \in 1 .. n : u[p + i] = a + i
        /\ \A i \in p + 1 .. N : u[i + n] = r[i]
    BY <1>2 DEF Spliced
  <2>2. /\ p + 0 = p /\ N - 0 + n = N + n /\ p + 0 + 1 = p + 1
        /\ \A i \in p + 1 .. N : i - 0 + n = i + n
    BY <1>1, <1>3
  <2> HIDE DEF N
  <2>3. \A i \in p + 0 + 1 .. N : u[i - 0 + n] = r[i]
    BY <2>1, <2>2
  <2>4. QED
    BY <1>3, <2>1, <2>2, <2>3 DEF Grafted, N
<1>5. Grafts(d, e, l, p, 0, values, n)
  <2>1. \A k \in Refs(d) : e.heap[k].str = d.heap[k].str
    BY DEF Lays, Typed, Extends, SameItem
  <2>2. \A i \in 1 .. n : e.heap[a + i].str = <<values[i]>>
    BY DEF Lays
  <2>3. Spares(d, e, n)
    BY DEF Lays
  <2>4. QED
    BY <1>1, <1>4, <2>1, <2>2, <2>3 DEF Grafts
<1>6. Gap(d, l, p, 0, at)
  <2>1. PICK q : /\ Picks(r, s, q, Alive(d))
                 /\ \A i \in 1 .. Len(s) : IF i <= at THEN q[i] <= p ELSE p < q[i]
    BY DEF Divides
  <2>2. at \in 0 .. Len(s)
    BY DEF Divides
  <2> HIDE DEF r, s
  <2>3. Parted(s, q, p, 0, at)
    BY <1>3, <2>1, <2>2 DEF Parted
  <2>4. QED
    BY <2>1, <2>3 DEF Gap, r, s
<1>7. QED
  BY <1>5, <1>6, GraftsShow

\* dels has the c elements of s after the first at.
Takes(dels, s, at, c) ==
    \A k : (\E i \in 1 .. Len(dels) : dels[i] = k) <=> (\E i \in at + 1 .. at + c : s[i] = k)

\* The deletion of live items that follow each other takes their values out.
LEMMA CutsShow ==
  ASSUME NEW d, Sound(d), NEW l \in List, NEW result, Cuts(d, result),
         NEW at \in Nat, NEW c \in Nat, at + c <= Len(live(d, l)),
         Takes(result.dels, live(d, l), at, c)
  PROVE  visible(result.doc, l) = CutOut(visible(d, l), at, at + c)
<1> DEFINE e == result.doc
           r == Row(d, l)
           s == live(d, l)
           S == Alive(d)
           T == Alive(e)
           N == Len(r)
           v == visible(d, l)
           w == visible(e, l)
           E == 1 .. MaxChars
<1>1. Sound(e) /\ Len(e.heap) = Len(d.heap) /\ e.start = d.start
  BY DEF Cuts
<1>2. /\ r \in Seq(Nat) /\ N \in Nat /\ s \in Seq(Nat) /\ Len(s) \in Nat
      /\ \A i \in 1 .. N : r[i] \in Refs(d)
      /\ \A i \in 1 .. Len(s) : s[i] \in Refs(d)
      /\ Distinct(r)
  <2>1. Refs(d) \subseteq Nat
    BY DEF Refs
  <2>2. r \in Seq(Refs(d)) /\ N \in Nat /\ s \in Seq(Nat) /\ s \in Seq(Refs(d)) /\ Distinct(r)
    BY RowFollows, liveIs
  <2>3. \A i \in 1 .. N : r[i] \in Refs(d)
    BY RowFollows
  <2> HIDE DEF r, s
  <2>4. Len(s) \in Nat /\ \A i \in 1 .. Len(s) : s[i] \in Refs(d)
    BY <2>2, SeqElements
  <2>5. r \in Seq(Nat)
    BY <2>1, <2>2
  <2>6. QED
    BY <2>2, <2>3, <2>4, <2>5
<1>3. Row(e, l) = r
  <2>1. Refs(d) = Refs(e)
    BY <1>1 DEF Refs
  <2>2. \A k \in OfList(d, l) : e.heap[k].right = d.heap[k].right
    BY DEF Cuts, OfList
  <2> HIDE DEF e
  <2>3. QED
    BY <1>1, <2>1, <2>2, SameRow
<1>4. PICK q : Picks(r, s, q, S)
  BY liveIs
<1>5. ASSUME NEW k \in 1 .. N PROVE r[k] \in T <=> r[k] \in S /\ \A i \in at + 1 .. at + c : q[i] # k
  <2>1. r[k] \in Refs(d) /\ r[k] \in Refs(e)
    BY <1>1, <1>2 DEF Refs
  <2>2. e.heap[r[k]].deleted <=> d.heap[r[k]].deleted \/ \E i \in 1 .. Len(result.dels) : result.dels[i] = r[k]
    BY <2>1 DEF Cuts
  <2>3. (\E i \in 1 .. Len(result.dels) : result.dels[i] = r[k]) <=> \E i \in at + 1 .. at + c : s[i] = r[k]
    BY DEF Takes
  <2> HIDE DEF e, r, s, N
  <2>4. ASSUME NEW i \in at + 1 .. at + c PROVE s[i] = r[k] <=> q[i] = k
    <3>1. i \in 1 .. Len(s)
      BY <1>2 DEF s
    <3>2. q[i] \in 1 .. N /\ s[i] = r[q[i]]
      BY <1>4, <3>1 DEF Picks, N
    <3>3. QED
      BY <1>2, <3>2 DEF Distinct, N
  <2>5. e.heap[r[k]].deleted <=> d.heap[r[k]].deleted \/ \E i \in at + 1 .. at + c : q[i] = k
    BY <2>2, <2>3, <2>4
  <2>6. QED
    BY <2>1, <2>5 DEF Alive
<1>6. at + c <= Len(s)
  OBVIOUS
<1> HIDE DEF r, s, S, T, N
<1>7. PICK t \in Seq(Nat) : Chosen(r, t, T) /\ Excised(s, t, at, c)
  <2>1. Narrowed(r, q, S, T, at, c)
    BY <1>5 DEF N, Narrowed
  <2>2. r \in Seq(Nat) /\ s \in Seq(Nat)
    BY <1>2
  <2>3. QED
    BY <1>4, <1>6, <2>1, <2>2, PicksExcised
<1>8. live(e, l) = t
  <2>1. Chosen(Row(e, l), t, Alive(e))
    BY <1>3, <1>7 DEF T
  <2>2. PICK f : Picks(Row(e, l), t, f, Alive(e))
    BY <2>1 DEF Chosen
  <2> HIDE DEF e
  <2>3. QED
    BY <1>1, <2>2, liveOnce
<1>9. /\ v = [i \in 1 .. Len(s) |-> d.heap[s[i]].str[1]] /\ \A i \in 1 .. Len(s) : d.heap[s[i]].str[1] \in E
      /\ w = [i \in 1 .. Len(t) |-> e.heap[t[i]].str[1]] /\ \A i \in 1 .. Len(t) : e.heap[t[i]].str[1] \in E
  <2> HIDE DEF e, E
  <2>1. /\ v = [i \in 1 .. Len(live(d, l)) |-> d.heap[live(d, l)[i]].str[1]]
        /\ \A i \in 1 .. Len(live(d, l)) : d.heap[live(d, l)[i]].str[1] \in E
    BY visibleSpells DEF E
  <2>2. /\ w = [i \in 1 .. Len(live(e, l)) |-> e.heap[live(e, l)[i]].str[1]]
        /\ \A i \in 1 .. Len(live(e, l)) : e.heap[live(e, l)[i]].str[1] \in E
    BY <1>1, visibleSpells DEF E
  <2>3. QED
    BY <1>8, <2>1, <2>2 DEF s
<1>10. \A k \in Refs(d) : e.heap[k].str = d.heap[k].str
  BY DEF Cuts, SameItem
<1> HIDE DEF e, E, v, w
<1>11. /\ Len(t) = Len(s) - c
       /\ \A i \in 1 .. at : t[i] = s[i]
       /\ \A i \in at + c + 1 .. Len(s) : t[i - c] = s[i]
  BY <1>7 DEF Excised
<1>12. /\ v \in Seq(E) /\ Len(v) = Len(s) /\ \A i \in 1 .. Len(s) : v[i] = d.heap[s[i]].str[1]
  <2>1. v \in [1 .. Len(s) -> E]
    BY <1>9
  <2>2. \A i \in 1 .. Len(s) : v[i] = d.heap[s[i]].str[1]
    BY <1>9
  <2> DEFINE K == Len(s)
  <2>3. K \in Nat /\ v \in [1 .. K -> E]
    BY <1>2, <2>1
  <2> HIDE DEF K
  <2>4. v \in Seq(E) /\ Len(v) = K
    BY <2>3
  <2>5. QED
    BY <2>2, <2>4 DEF K
<1>13. /\ w \in Seq(E) /\ Len(w) = Len(t) /\ \A i \in 1 .. Len(t) : w[i] = e.heap[t[i]].str[1]
  <2>1. w \in [1 .. Len(t) -> E]
    BY <1>9
  <2>2. \A i \in 1 .. Len(t) : w[i] = e.heap[t[i]].str[1]
    BY <1>9
  <2> DEFINE K == Len(t)
  <2>3. K \in Nat /\ w \in [1 .. K -> E]
    BY <2>1
  <2> HIDE DEF K
  <2>4. w \in Seq(E) /\ Len(w) = K
    BY <2>3
  <2>5. QED
    BY <2>2, <2>4 DEF K
<1>14. \A i \in 1 .. at : w[i] = v[i]
  <2>1. \A i \in 1 .. at : i \in 1 .. Len(s) /\ i \in 1 .. Len(t)
    <3> DEFINE L == Len(s)
               K == Len(t)
    <3>1. L \in Nat /\ K = L - c /\ at \in Nat /\ c \in Nat /\ at + c <= L
      BY <1>2, <1>6, <1>11
    <3> HIDE DEF L, K
    <3>2. \A i \in 1 .. at : i \in 1 .. L /\ i \in 1 .. K
      BY <3>1
    <3>3. QED
      BY <3>2 DEF L, K
  <2>2. ASSUME NEW i \in 1 .. at PROVE w[i] = v[i]
    <3>1. i \in 1 .. Len(s) /\ i \in 1 .. Len(t)
      BY <2>1
    <3>2. w[i] = e.heap[t[i]].str[1] /\ v[i] = d.heap[s[i]].str[1]
      BY <1>12, <1>13, <3>1
    <3>3. t[i] = s[i] /\ s[i] \in Refs(d)
      BY <1>2, <1>11, <3>1
    <3>4. QED
      BY <1>10, <3>2, <3>3
  <2>3. QED
    BY <2>2
<1>15. \A i \in at + c + 1 .. Len(s) : w[i - c] = v[i]
  <2>1. \A i \in at + c + 1 .. Len(s) : i \in 1 .. Len(s) /\ i - c \in 1 .. Len(t)
    <3> DEFINE L == Len(s)
               K == Len(t)
    <3>1. L \in Nat /\ K = L - c /\ at \in Nat /\ c \in Nat
      BY <1>2, <1>11
    <3> HIDE DEF L, K
    <3>2. \A i \in at + c + 1 .. L : i \in 1 .. L /\ i - c \in 1 .. K
      BY <3>1
    <3>3. QED
      BY <3>2 DEF L, K
  <2>2. ASSUME NEW i \in at + c + 1 .. Len(s) PROVE w[i - c] = v[i]
    <3>1. i \in 1 .. Len(s) /\ i - c \in 1 .. Len(t)
      BY <2>1
    <3>2. w[i - c] = e.heap[t[i - c]].str[1] /\ v[i] = d.heap[s[i]].str[1]
      BY <1>12, <1>13, <3>1
    <3>3. t[i - c] = s[i] /\ s[i] \in Refs(d)
      BY <1>2, <1>11, <3>1
    <3>4. QED
      BY <1>10, <3>2, <3>3
  <2>3. QED
    BY <2>2
<1>16. Excised(v, w, at, c)
  BY <1>6, <1>11, <1>12, <1>13, <1>14, <1>15 DEF Excised
<1>17. w = CutOut(v, at, at + c)
  BY <1>12, <1>13, <1>16, ExcisedIs
<1>18. QED
  BY <1>17 DEF v, w, e

\* A deletion up to an index that may be beyond the end.
LEMMA CutsShowUpTo ==
  ASSUME NEW d, Sound(d), NEW l \in List, NEW v, v = visible(d, l), NEW result, Cuts(d, result),
         NEW index \in Nat, NEW length \in Nat, NEW at, at = Capped(index, Len(v)),
         NEW c \in Nat, at + c = Capped(index + length, Len(v)),
         Takes(result.dels, live(d, l), at, c)
  PROVE  visible(result.doc, l) = CutOut(v, at, index + length)
<1> DEFINE K == Len(v)
<1>1. v \in Seq(1 .. MaxChars) /\ K = Len(live(d, l)) /\ K \in Nat
  BY visibleCounts
<1>2. at \in Nat /\ at + c <= K /\ (at + c = index + length \/ (at + c = K /\ K < index + length))
  <2> HIDE DEF K
  <2>1. at = Capped(index, K) /\ at + c = Capped(index + length, K)
    BY DEF K
  <2>2. QED
    BY <1>1, <2>1 DEF Capped
<1>3. visible(result.doc, l) = CutOut(v, at, at + c)
  <2> HIDE DEF K
  <2>1. at + c <= Len(live(d, l))
    BY <1>1, <1>2
  <2>2. visible(result.doc, l) = CutOut(visible(d, l), at, at + c)
    BY <1>2, <2>1, CutsShow
  <2>3. QED
    BY <2>2
<1>4. SubSeq(v, at + c + 1, K) = SubSeq(v, index + length + 1, K)
  <2> DEFINE E == 1 .. MaxChars
             a == SubSeq(v, at + c + 1, K)
             b == SubSeq(v, index + length + 1, K)
  <2>1. CASE at + c = index + length
    BY <2>1
  <2>2. CASE at + c = K /\ K < index + length
    <3>1. v \in Seq(E) /\ K \in Nat /\ \A i \in 1 .. K : v[i] \in E
      BY <1>1, SeqElements
    <3> HIDE DEF E, a, b, K
    <3>2. at + c + 1 \in Int /\ index + length + 1 \in Int /\ K \in Int
          /\ ~(at + c + 1 <= K) /\ ~(index + length + 1 <= K)
          /\ (\A i \in at + c + 1 .. K : i \in 1 .. K)
          /\ (\A i \in index + length + 1 .. K : i \in 1 .. K)
      BY <1>1, <1>2, <2>2
    <3>3. a \in Seq(E) /\ Len(a) = 0
      BY <3>1, <3>2, SubSeqProperties DEF a
    <3>4. b \in Seq(E) /\ Len(b) = 0
      BY <3>1, <3>2, SubSeqProperties DEF b
    <3>5. a = b
      BY <3>3, <3>4
    <3>6. QED
      BY <3>5 DEF a, b
  <2>3. QED
    BY <1>2, <2>1, <2>2
<1>5. QED
  BY <1>3, <1>4 DEF CutOut
=============================================================================
