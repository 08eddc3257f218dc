--------------------------- MODULE ReplicasProofs ---------------------------
(***************************************************************************)
(* What the steps of Replicas keep, for all sets of peers and any number   *)
(* of edits, deliveries and exchanges of states, as long as every item     *)
(* holds one character.                                                    *)
(***************************************************************************)
EXTENDS Replicas, LoopProofs, SequenceTheorems, FiniteSetTheorems

-----------------------------------------------------------------------------
(***************************************************************************)
(* Minima, maxima, and the elements of a slice that are in a set.          *)
(***************************************************************************)
\* A set of natural numbers that is not empty has a least element.
LEMMA LeastOf ==
  ASSUME NEW S, S \subseteq Nat, S # {}
  PROVE  Min(S) \in S /\ \A x \in S : Min(S) <= x
<1> DEFINE Below == { n \in Nat : \A i \in 0 .. n : i \notin S }
<1>1. PICK m \in S : \A x \in S : m <= x
  <2>1. SUFFICES ASSUME \A m \in S : \E x \in S : ~(m <= x) PROVE FALSE
    OBVIOUS
  <2>2. 0 \in Below
    BY <2>1
  <2>3. ASSUME NEW n \in Nat, n \in Below PROVE n + 1 \in Below
    <3>1. n + 1 \notin S
      <4>1. SUFFICES ASSUME n + 1 \in S PROVE FALSE
        OBVIOUS
      <4>2. PICK x \in S : ~(n + 1 <= x)
        BY <2>1, <4>1
      <4>3. x \in 0 .. n
        BY <4>2
      <4>4. QED
        BY <2>3, <4>3
    <3>2. QED
      BY <2>3, <3>1
  <2>4. \A n \in Nat : n \in Below
    <3> HIDE DEF Below
    <3> QED BY <2>2, <2>3, Induction
  <2>5. PICK x \in S : TRUE
    OBVIOUS
  <2>6. x \in Below /\ x \in 0 .. x
    BY <2>4
  <2>7. QED
    BY <2>6
<1>2. QED
  BY <1>1 DEF Min

\* A finite set of natural numbers that is not empty has a greatest element.
LEMMA GreatestOf ==
  ASSUME NEW S, S \subseteq Nat, IsFiniteSet(S), S # {}
  PROVE  Max(S) \in S /\ \A x \in S : x <= Max(S)
<1>1. S \subseteq Nat /\ IsFiniteSet(S)
  OBVIOUS
<1>2. PICK f : f \in Bijection(1 .. Cardinality(S), S)
  BY <1>1, FS_CardinalityType DEF ExistsBijection
<1> DEFINE N == Cardinality(S)
           Bounded == { n \in Nat : n <= N => \E b \in Nat : \A i \in 1 .. n : f[i] <= b }
<1>3. N \in Nat /\ f \in [1 .. N -> S] /\ \A c \in S : \E i \in 1 .. N : f[i] = c
  BY <1>1, <1>2, FS_CardinalityType DEF Bijection, Surjection
<1> HIDE DEF N
<1>4. 0 \in Bounded
  OBVIOUS
<1>5. ASSUME NEW n \in Nat, n \in Bounded PROVE n + 1 \in Bounded
  <2>1. SUFFICES ASSUME n + 1 <= N
                 PROVE  \E b \in Nat : \A i \in 1 .. n + 1 : f[i] <= b
    OBVIOUS
  <2>2. PICK b \in Nat : \A i \in 1 .. n : f[i] <= b
    BY <1>3, <1>5, <2>1
  <2>3. f[n + 1] \in Nat /\ \A i \in 1 .. n : f[i] \in Nat
    <3>1. n + 1 \in 1 .. N /\ \A i \in 1 .. n : i \in 1 .. N
      BY <1>3, <2>1
    <3>2. \A i \in 1 .. N : f[i] \in Nat
      BY <1>1, <1>3
    <3>3. QED
      BY <3>1, <3>2
  <2>4. \A i \in 1 .. n + 1 : f[i] <= b + f[n + 1]
    BY <2>2, <2>3
  <2>5. QED
    BY <2>3, <2>4
<1>6. \A n \in Nat : n \in Bounded
  <2> HIDE DEF Bounded
  <2> QED BY <1>4, <1>5, Induction
<1>7. PICK b \in Nat : \A c \in S : c <= b
  <2>0. N \in Bounded
    BY <1>3, <1>6
  <2>1. PICK b \in Nat : \A i \in 1 .. N : f[i] <= b
    BY <1>3, <2>0
  <2>2. QED
    BY <1>3, <2>1
<1> DEFINE Gaps == { b - c : c \in S }
<1>8. Gaps \subseteq Nat /\ Gaps # {}
  <2>1. \A c \in S : b - c \in Nat
    BY <1>1, <1>7
  <2>2. PICK c \in S : TRUE
    OBVIOUS
  <2>3. QED
    BY <2>1, <2>2
<1>9. PICK m \in S : \A c \in S : c <= m
  <2>1. Min(Gaps) \in Gaps /\ \A x \in Gaps : Min(Gaps) <= x
    BY <1>8, LeastOf
  <2>2. PICK m \in S : Min(Gaps) = b - m
    BY <2>1
  <2>3. \A c \in S : b - m <= b - c
    BY <2>1, <2>2
  <2>4. QED
    BY <1>1, <2>3
<1>10. QED
  BY <1>9 DEF Max

\* The client IDs are bounded.
LEMMA MaxClient ==
  ASSUME Client # {}
  PROVE  Max(Client) \in Client /\ \A c \in Client : c <= Max(Client)
BY ClientAssumption, GreatestOf

\* The elements of out stand in seq in the same order.
InOrder(out, seq) ==
    \A i, j \in 1 .. Len(out) : i < j =>
        \E k, m \in 1 .. Len(seq) : k < m /\ out[i] = seq[k] /\ out[j] = seq[m]

\* The elements of out are those of seq that are in S.
Drawn(out, seq, S) ==
    /\ \A k \in 1 .. Len(seq) : seq[k] \in S => \E i \in 1 .. Len(out) : out[i] = seq[k]
    /\ \A i \in 1 .. Len(out) : \E k \in 1 .. Len(seq) : out[i] = seq[k]

\* Among takes the elements of S from seq, in their order.
LEMMA AmongSelects ==
  ASSUME NEW E, NEW seq \in Seq(E), NEW S
  PROVE  /\ Among(seq, S) \in Seq(E \cap S)
         /\ Drawn(Among(seq, S), seq, S)
         /\ InOrder(Among(seq, S), seq)
         /\ (\A k \in 1 .. Len(seq) : seq[k] \in S) => Among(seq, S) = seq
         /\ (\A k \in 1 .. Len(seq) : seq[k] \notin S) => Among(seq, S) = <<>>
<1> DEFINE N == Len(seq)
           T == Seq(E \cap S)
           next == [p \in T \X Nat |-> IF p[2] < N /\ seq[p[2] + 1] \in S
                                       THEN Append(p[1], seq[p[2] + 1]) ELSE p[1]]
           Solves(g) == g = [n \in 0 .. N |-> IF n = 0 THEN <<>>
                                ELSE IF seq[n] \in S THEN Append(g[n - 1], seq[n]) ELSE g[n - 1]]
<1>1. next \in [T \X Nat -> T]
  OBVIOUS
<1>2. PICK h \in [Nat -> T] : Iterates(h, <<>>, next)
  <2> HIDE DEF next, T
  <2>1. <<>> \in T
    BY DEF T
  <2>2. QED
    BY <1>1, <2>1, IterationExists
<1> DEFINE g == [n \in 0 .. N |-> h[n]]
<1>3. Solves(g)
  <2>1. ASSUME NEW n \in 0 .. N, n # 0
        PROVE  h[n] = IF seq[n] \in S THEN Append(h[n - 1], seq[n]) ELSE h[n - 1]
    <3>1. n - 1 \in Nat /\ n - 1 < N /\ (n - 1) + 1 = n
      BY <2>1
    <3>2. h[(n - 1) + 1] = next[<<h[n - 1], n - 1>>]
      BY <1>2, <3>1 DEF Iterates
    <3>3. <<h[n - 1], n - 1>> \in T \X Nat
      BY <3>1
    <3>4. QED
      BY <3>1, <3>2, <3>3
  <2>2. h[0] = <<>>
    BY <1>2 DEF Iterates
  <2>3. ASSUME NEW n \in 0 .. N, n # 0 PROVE g[n - 1] = h[n - 1]
    BY <2>3
  <2>4. QED
    BY <2>1, <2>2, <2>3
<1> DEFINE f == CHOOSE x : Solves(x)
<1>4. Solves(f)
  <2> HIDE DEF Solves
  <2> QED BY <1>3
<1>5. Among(seq, S) = f[N]
  BY DEF Among
<1> HIDE DEF f, g, next
<1>6. f[0] = <<>> /\ \A n \in 1 .. N : f[n] = IF seq[n] \in S THEN Append(f[n - 1], seq[n]) ELSE f[n - 1]
  <2>1. N \in Nat
    OBVIOUS
  <2> HIDE DEF N, T
  <2>2. \A n \in 0 .. N : f[n] = IF n = 0 THEN <<>>
                                ELSE IF seq[n] \in S THEN Append(f[n - 1], seq[n]) ELSE f[n - 1]
    BY <1>4, <2>1
  <2>3. 0 \in 0 .. N /\ \A n \in 1 .. N : n \in 0 .. N /\ n # 0
    BY <2>1
  <2>4. QED
    BY <2>2, <2>3
<1> DEFINE Typed == { n \in Nat : n <= N => f[n] \in T }
           Covers == { n \in Nat : n <= N => \A k \in 1 .. n : seq[k] \in S => \E i \in 1 .. Len(f[n]) : f[n][i] = seq[k] }
           From == { n \in Nat : n <= N => \A i \in 1 .. Len(f[n]) : \E k \in 1 .. n : f[n][i] = seq[k] }
           Ordered == { n \in Nat : n <= N => \A i, j \in 1 .. Len(f[n]) : i < j =>
                            \E k, m \in 1 .. n : k < m /\ f[n][i] = seq[k] /\ f[n][j] = seq[m] }
           Whole == { n \in Nat : n <= N => Len(f[n]) = n /\ \A i \in 1 .. n : f[n][i] = seq[i] }
           None == { n \in Nat : n <= N => f[n] = <<>> }
<1>n. N \in Nat
  OBVIOUS
<1>e. \A n \in 1 .. N : seq[n] \in E
  OBVIOUS
<1>m. <<>> \in T /\ \A s \in T : Len(s) \in Nat
  OBVIOUS
<1>a. ASSUME NEW s \in T, NEW e \in E, e \in S
      PROVE  /\ Append(s, e) \in T
             /\ Len(Append(s, e)) = Len(s) + 1
             /\ Append(s, e)[Len(s) + 1] = e
             /\ \A i \in 1 .. Len(s) : Append(s, e)[i] = s[i]
  <2> DEFINE F == E \cap S
  <2>1. s \in Seq(F) /\ e \in F
    BY <1>a
  <2> HIDE DEF F
  <2>2. /\ Append(s, e) \in Seq(F)
        /\ Len(Append(s, e)) = Len(s) + 1
        /\ Append(s, e)[Len(s) + 1] = e
        /\ \A i \in 1 .. Len(s) : Append(s, e)[i] = s[i]
    BY <2>1, AppendProperties
  <2>3. QED
    BY <2>2 DEF F
<1> HIDE DEF N, T
<1>s. ASSUME NEW n \in Nat, n + 1 <= N, f[n] \in T
      PROVE  /\ n <= N /\ n + 1 \in 1 .. N /\ n \in 0 .. N
             /\ Len(f[n]) \in Nat
             /\ seq[n + 1] \in S => /\ f[n + 1] \in T
                                  /\ Len(f[n + 1]) = Len(f[n]) + 1
                                  /\ f[n + 1][Len(f[n]) + 1] = seq[n + 1]
                                  /\ \A i \in 1 .. Len(f[n]) : f[n + 1][i] = f[n][i]
             /\ seq[n + 1] \notin S => f[n + 1] = f[n]
  <2>1. n + 1 \in 1 .. N /\ n \in 0 .. N /\ (n + 1) - 1 = n
    BY <1>n, <1>s
  <2>2. f[n + 1] = IF seq[n + 1] \in S THEN Append(f[n], seq[n + 1]) ELSE f[n]
    BY <1>6, <2>1
  <2>3. n <= N /\ Len(f[n]) \in Nat
    BY <1>m, <1>n, <1>s
  <2>4. ASSUME seq[n + 1] \in S
        PROVE  /\ f[n + 1] \in T
               /\ Len(f[n + 1]) = Len(f[n]) + 1
               /\ f[n + 1][Len(f[n]) + 1] = seq[n + 1]
               /\ \A i \in 1 .. Len(f[n]) : f[n + 1][i] = f[n][i]
    <3>1. seq[n + 1] \in E
      BY <1>e, <2>1
    <3>2. f[n + 1] = Append(f[n], seq[n + 1])
      BY <2>2, <2>4
    <3>3. QED
      BY <1>a, <1>s, <2>4, <3>1, <3>2
  <2>5. ASSUME seq[n + 1] \notin S PROVE f[n + 1] = f[n]
    BY <2>2, <2>5
  <2>6. QED
    BY <2>1, <2>3, <2>4, <2>5
<1>7. \A n \in Nat : n \in Typed
  <2>1. 0 \in Typed
    BY <1>m, <1>6
  <2>2. ASSUME NEW n \in Nat, n \in Typed PROVE n + 1 \in Typed
    <3>1. SUFFICES ASSUME n + 1 <= N PROVE f[n + 1] \in T
      OBVIOUS
    <3>2. n <= N /\ f[n] \in T
      BY <1>n, <2>2, <3>1
    <3>3. CASE seq[n + 1] \in S
      BY <1>s, <3>1, <3>2, <3>3
    <3>4. QED
      BY <1>s, <3>1, <3>2, <3>3
  <2> HIDE DEF Typed
  <2>3. QED
    BY <2>1, <2>2, Induction
<1>8. \A n \in Nat : n <= N => f[n] \in T
  BY <1>7
<1>t. \A n \in Nat : n <= N => Len(f[n]) \in Nat
  BY <1>m, <1>8
<1>9. \A n \in Nat : n \in Covers
  <2>1. 0 \in Covers
    OBVIOUS
  <2>2. ASSUME NEW n \in Nat, n \in Covers PROVE n + 1 \in Covers
    <3>1. SUFFICES ASSUME n + 1 <= N, NEW k \in 1 .. n + 1, seq[k] \in S
                   PROVE  \E i \in 1 .. Len(f[n + 1]) : f[n + 1][i] = seq[k]
      OBVIOUS
    <3>2. n <= N /\ f[n] \in T
      BY <1>n, <1>8, <3>1
    <3>3. CASE k = n + 1
      BY <1>s, <3>1, <3>2, <3>3
    <3>4. CASE k # n + 1
      <4>1. PICK i \in 1 .. Len(f[n]) : f[n][i] = seq[k]
        BY <2>2, <3>1, <3>2, <3>4
      <4>2. CASE seq[n + 1] \in S
        <5>1. i \in 1 .. Len(f[n + 1]) /\ f[n + 1][i] = f[n][i]
          BY <1>s, <3>1, <3>2, <4>2
        <5>2. QED
          BY <4>1, <5>1
      <4>3. CASE seq[n + 1] \notin S
        BY <1>s, <3>1, <3>2, <4>1, <4>3
      <4>4. QED
        BY <4>2, <4>3
    <3>5. QED
      BY <3>3, <3>4
  <2> HIDE DEF Covers
  <2>3. QED
    BY <2>1, <2>2, Induction
<1>10. \A n \in Nat : n \in From
  <2>1. 0 \in From
    BY <1>6
  <2>2. ASSUME NEW n \in Nat, n \in From PROVE n + 1 \in From
    <3>1. SUFFICES ASSUME n + 1 <= N, NEW i \in 1 .. Len(f[n + 1])
                   PROVE  \E k \in 1 .. n + 1 : f[n + 1][i] = seq[k]
      OBVIOUS
    <3>2. n <= N /\ f[n] \in T
      BY <1>n, <1>8, <3>1
    <3>3. CASE i \in 1 .. Len(f[n])
      <4>1. f[n + 1][i] = f[n][i]
        BY <1>s, <3>1, <3>2, <3>3
      <4>2. PICK k \in 1 .. n : f[n][i] = seq[k]
        BY <2>2, <3>2, <3>3
      <4>3. QED
        BY <4>1, <4>2
    <3>4. CASE i \notin 1 .. Len(f[n])
      <4>1. f[n + 1][i] = seq[n + 1]
        BY <1>s, <3>1, <3>2, <3>4
      <4>2. QED
        BY <4>1
    <3>5. QED
      BY <3>3, <3>4
  <2> HIDE DEF From
  <2>3. QED
    BY <2>1, <2>2, Induction
<1>11. \A n \in Nat : n \in Ordered
  <2>1. 0 \in Ordered
    BY <1>6
  <2>2. ASSUME NEW n \in Nat, n \in Ordered PROVE n + 1 \in Ordered
    <3>0. SUFFICES n + 1 <= N => \A i, j \in 1 .. Len(f[n + 1]) : i < j =>
                      \E k, m \in 1 .. n + 1 : k < m /\ f[n + 1][i] = seq[k] /\ f[n + 1][j] = seq[m]
      <4>1. n + 1 \in Nat
        OBVIOUS
      <4> HIDE DEF f
      <4> DEFINE p == n + 1
      <4>2. p \in Nat /\ p = n + 1
        BY <4>1
      <4> HIDE DEF p
      <4>3. (p <= N => \A i, j \in 1 .. Len(f[p]) : i < j =>
                      \E k, m \in 1 .. p : k < m /\ f[p][i] = seq[k] /\ f[p][j] = seq[m])
            => p \in Ordered
        BY <4>2, Zenon
      <4>4. QED
        BY <4>2, <4>3
    <3>1. SUFFICES ASSUME n + 1 <= N, NEW i \in 1 .. Len(f[n + 1]), NEW j \in 1 .. Len(f[n + 1]), i < j
                   PROVE  \E k, m \in 1 .. n + 1 : k < m /\ f[n + 1][i] = seq[k] /\ f[n + 1][j] = seq[m]
      OBVIOUS
    <3>2. n <= N /\ f[n] \in T
      BY <1>n, <1>8, <3>1
    <3>3. i \in 1 .. Len(f[n]) /\ f[n + 1][i] = f[n][i]
      BY <1>s, <3>1, <3>2
    <3>4. CASE j \in 1 .. Len(f[n])
      <4>1. f[n + 1][j] = f[n][j]
        BY <1>s, <3>1, <3>2, <3>4
      <4>2. PICK k \in 1 .. n, m \in 1 .. n : k < m /\ f[n][i] = seq[k] /\ f[n][j] = seq[m]
        BY <2>2, <3>1, <3>2, <3>3, <3>4
      <4>3. QED
        BY <3>3, <4>1, <4>2
    <3>5. CASE j \notin 1 .. Len(f[n])
      <4>1. f[n + 1][j] = seq[n + 1]
        BY <1>s, <3>1, <3>2, <3>5
      <4>2. PICK k \in 1 .. n : f[n][i] = seq[k]
        <5>1. n \in From
          BY <1>10
        <5>2. QED
          BY <3>2, <3>3, <5>1
      <4>3. QED
        BY <3>3, <4>1, <4>2
    <3>6. QED
      BY <3>4, <3>5
  <2> HIDE DEF Ordered
  <2>3. QED
    BY <2>1, <2>2, Induction
<1>12. ASSUME \A k \in 1 .. N : seq[k] \in S
       PROVE  f[N] = seq
  <2>1. 0 \in Whole
    BY <1>6
  <2>2. ASSUME NEW n \in Nat, n \in Whole PROVE n + 1 \in Whole
    <3>1. SUFFICES ASSUME n + 1 <= N
                   PROVE  Len(f[n + 1]) = n + 1 /\ \A i \in 1 .. n + 1 : f[n + 1][i] = seq[i]
      OBVIOUS
    <3>2. n <= N /\ f[n] \in T
      BY <1>n, <1>8, <3>1
    <3>3. Len(f[n]) = n /\ \A i \in 1 .. n : f[n][i] = seq[i]
      BY <2>2, <3>2
    <3>4. QED
      BY <1>s, <1>12, <3>1, <3>2, <3>3
  <2>3. N \in Whole
    <3> HIDE DEF Whole
    <3> QED BY <1>n, <2>1, <2>2, Induction
  <2>4. Len(f[N]) = N /\ \A i \in 1 .. N : f[N][i] = seq[i]
    BY <1>n, <2>3
  <2>5. f[N] \in Seq(E)
    BY <1>n, <1>8 DEF T
  <2>6. QED
    BY <2>4, <2>5, SeqEqual DEF N
<1>13. ASSUME \A k \in 1 .. N : seq[k] \notin S
       PROVE  f[N] = <<>>
  <2>1. 0 \in None
    BY <1>6
  <2>2. ASSUME NEW n \in Nat, n \in None PROVE n + 1 \in None
    BY <1>n, <1>s, <1>8, <1>13, <2>2
  <2>3. N \in None
    <3> HIDE DEF None
    <3> QED BY <1>n, <2>1, <2>2, Induction
  <2>4. QED
    BY <1>n, <2>3
<1>14. N \in Covers /\ N \in From /\ N \in Ordered
  BY <1>n, <1>9, <1>10, <1>11
<1>15. \A k \in 1 .. N : seq[k] \in S => \E i \in 1 .. Len(f[N]) : f[N][i] = seq[k]
  <2>1. N <= N
    BY <1>n
  <2>2. N <= N => \A k \in 1 .. N : seq[k] \in S => \E i \in 1 .. Len(f[N]) : f[N][i] = seq[k]
    BY <1>14, Zenon
  <2>3. QED
    BY <2>1, <2>2, Zenon
<1>16. \A i \in 1 .. Len(f[N]) : \E k \in 1 .. N : f[N][i] = seq[k]
  BY <1>n, <1>14
<1>17. \A i, j \in 1 .. Len(f[N]) : i < j =>
          \E k, m \in 1 .. N : k < m /\ f[N][i] = seq[k] /\ f[N][j] = seq[m]
  BY <1>n, <1>14
<1>18. f[N] \in Seq(E \cap S)
  BY <1>n, <1>8 DEF T
<1>19. InOrder(f[N], seq)
  <2> DEFINE out == f[N]
  <2>1. \A i, j \in 1 .. Len(out) : i < j => \E k, m \in 1 .. Len(seq) : k < m /\ out[i] = seq[k] /\ out[j] = seq[m]
    BY <1>17 DEF N
  <2> HIDE DEF out
  <2>2. InOrder(out, seq)
    BY <2>1 DEF InOrder
  <2>3. QED
    BY <2>2 DEF out
<1>20. Drawn(f[N], seq, S)
  <2> DEFINE out == f[N]
  <2>1. /\ \A k \in 1 .. Len(seq) : seq[k] \in S => \E i \in 1 .. Len(out) : out[i] = seq[k]
        /\ \A i \in 1 .. Len(out) : \E k \in 1 .. Len(seq) : out[i] = seq[k]
    BY <1>15, <1>16 DEF N
  <2> HIDE DEF out
  <2>2. Drawn(out, seq, S)
    BY <2>1 DEF Drawn
  <2>3. QED
    BY <2>2 DEF out
<1>21. QED
  BY <1>5, <1>12, <1>13, <1>18, <1>19, <1>20 DEF N

-----------------------------------------------------------------------------
(***************************************************************************)
(* Documents whose items hold one character each.                          *)
(***************************************************************************)
Ranges == [client : Client, clock : Nat, len : Nat]

Docs == [heap : Seq(ItemType), store : [Client -> Seq(Nat)], ds : Seq(Ranges),
         start : [List -> Nat], panic : BOOLEAN]

Refs(d) == 1 .. Len(d.heap)

\* Every item has one character and is in the slice of its client, where the clock
\* says, and a slice has nothing else.
Whole(d) ==
    /\ d \in Docs
    /\ ~d.panic
    /\ \A k \in Refs(d) : d.heap[k].len = 1 /\ Len(d.heap[k].str) = 1
    /\ \A c \in Client : \A i \in 1 .. Len(d.store[c]) :
          /\ d.store[c][i] \in Refs(d)
          /\ d.heap[d.store[c][i]].id = [client |-> c, clock |-> i - 1]
    /\ \A k \in Refs(d) :
          /\ d.heap[k].id.clock < Len(d.store[d.heap[k].id.client])
          /\ d.store[d.heap[k].id.client][d.heap[k].id.clock + 1] = k

\* Every list is made of items that have it for their list.
Listed(d) ==
    /\ \A l \in List : d.start[l] # Nil =>
          d.start[l] \in Refs(d) /\ d.heap[d.start[l]].list = l
    /\ \A k \in Refs(d) : d.heap[k].right # Nil =>
          d.heap[k].right \in Refs(d) /\ d.heap[d.heap[k].right].list = d.heap[k].list

\* rank goes down along every chain.
Ranked(d, rank) ==
    /\ rank \in [0 .. Len(d.heap) -> Nat]
    /\ rank[Nil] = 0
    /\ \A k \in Refs(d) : rank[d.heap[k].right] < rank[k]

Sound(d) ==
    /\ Whole(d)
    /\ Listed(d)
    /\ \E rank \in [0 .. Len(d.heap) -> Nat] : Ranked(d, rank)

Held(d, id) == id.clock < Len(d.store[id.client])

\* Where a document keeps the item of an ID.
RefOf(d, id) == d.store[id.client][id.clock + 1]

\* The fields of a document.
LEMMA DocFields ==
  ASSUME NEW d \in Docs
  PROVE  /\ d.heap \in Seq(ItemType) /\ Len(d.heap) \in Nat /\ DOMAIN d.heap = Refs(d)
         /\ d.store \in [Client -> Seq(Nat)]
         /\ \A c \in Client : d.store[c] \in Seq(Nat) /\ Len(d.store[c]) \in Nat
                              /\ DOMAIN d.store[c] = 1 .. Len(d.store[c])
         /\ \A k \in Refs(d) : d.heap[k] \in ItemType
         /\ d.ds \in Seq(Ranges) /\ d.start \in [List -> Nat] /\ d.panic \in BOOLEAN
  BY DEF Docs, Refs

\* The fields of an item.
LEMMA ItemFields ==
  ASSUME NEW it \in ItemType
  PROVE  /\ it.id \in IdType /\ it.id.client \in Client /\ it.id.clock \in Nat
         /\ it.len \in Nat /\ it.str \in Seq(1 .. MaxChars) /\ it.oleft \in IdType \cup {NoID}
         /\ it.right \in Nat /\ it.deleted \in BOOLEAN /\ it.list \in List \cup {NoList}
  BY DEF ItemType, IdType

\* In a whole document getItem finds what is held, and nothing else.
LEMMA getItemFinds ==
  ASSUME NEW d, Whole(d), NEW id \in IdType
  PROVE  /\ getItem(d, id) = IF Held(d, id) THEN RefOf(d, id) ELSE Nil
         /\ Held(d, id) => RefOf(d, id) \in Refs(d) /\ d.heap[RefOf(d, id)].id = id
<1> DEFINE s == d.store[id.client]
           above == { i \in 0 .. Len(s) - 1 : d.heap[s[i + 1]].id.clock > id.clock }
           idx == Search(Len(s), above)
<1>1. d \in Docs /\ id.client \in Client /\ id.clock \in Nat
  BY DEF Whole, IdType
<1>2. Len(s) \in Nat /\ \A i \in 1 .. Len(s) : s[i] \in Refs(d) /\ d.heap[s[i]].id = [client |-> id.client, clock |-> i - 1]
  BY <1>1, DocFields DEF Whole
<1>3. \A i \in 0 .. Len(s) - 1 : i \in above <=> i > id.clock
  <2>1. ASSUME NEW i \in 0 .. Len(s) - 1 PROVE d.heap[s[i + 1]].id.clock = i
    <3>1. i + 1 \in 1 .. Len(s) /\ (i + 1) - 1 = i
      BY <1>2
    <3> HIDE DEF s
    <3>2. d.heap[s[i + 1]].id = [client |-> id.client, clock |-> (i + 1) - 1]
      BY <1>2, <3>1
    <3>3. QED
      BY <3>1, <3>2
  <2> HIDE DEF s
  <2>2. QED
    BY <2>1
<1>4. idx \in 0 .. Len(s)
  <2> HIDE DEF above, s
  <2> QED BY <1>2, SearchInRange
<1>5. \A x \in 0 .. Len(s) - 1 : x \in above <=> idx <= x
  <2> HIDE DEF above, s
  <2>1. \A x \in 0 .. Len(s) - 1, y \in 0 .. Len(s) - 1 : x \in above /\ x <= y => y \in above
    BY <1>1, <1>2, <1>3
  <2>2. QED
    BY <1>2, <2>1, SearchFindsFirst
<1>6. getItem(d, id) = IF idx > 0 /\ d.heap[s[idx]].id.clock + d.heap[s[idx]].len > id.clock
                       THEN s[idx] ELSE Nil
  BY DEF getItem
<1>7. \A i \in 1 .. Len(s) : d.heap[s[i]].id.clock = i - 1 /\ d.heap[s[i]].len = 1
  <2> HIDE DEF s
  <2>1. ASSUME NEW i \in 1 .. Len(s) PROVE d.heap[s[i]].id.clock = i - 1 /\ d.heap[s[i]].len = 1
    <3>1. s[i] \in Refs(d) /\ d.heap[s[i]].id = [client |-> id.client, clock |-> i - 1]
      BY <1>2
    <3>2. d.heap[s[i]].len = 1
      BY <3>1 DEF Whole
    <3>3. QED
      BY <3>1, <3>2
  <2>2. QED
    BY <2>1
<1> HIDE DEF above, idx, s
<1>8. CASE Held(d, id)
  <2>1. id.clock < Len(s) /\ id.clock \in 0 .. Len(s) - 1
    BY <1>1, <1>2, <1>8 DEF Held, s
  <2>2. idx = id.clock + 1
    <3>1. ~(idx <= id.clock)
      BY <1>1, <1>3, <1>5, <2>1
    <3>2. id.clock + 1 <= Len(s) - 1 => idx <= id.clock + 1
      BY <1>1, <1>2, <1>3, <1>5, <2>1
    <3>3. QED
      BY <1>1, <1>2, <1>4, <2>1, <3>1, <3>2
  <2>3. d.heap[s[idx]].id.clock = id.clock /\ d.heap[s[idx]].len = 1
    BY <1>1, <1>2, <1>7, <2>1, <2>2
  <2>4. getItem(d, id) = s[idx]
    BY <1>1, <1>6, <2>2, <2>3
  <2>5. s[idx] \in Refs(d) /\ d.heap[s[idx]].id = [client |-> id.client, clock |-> id.clock]
    BY <1>1, <1>2, <2>1, <2>2
  <2>6. id = [client |-> id.client, clock |-> id.clock]
    BY DEF IdType
  <2>7. QED
    BY <1>8, <2>2, <2>4, <2>5, <2>6 DEF RefOf, s
<1>9. CASE ~Held(d, id)
  <2>1. Len(s) <= id.clock
    BY <1>1, <1>2, <1>9 DEF Held, s
  <2>2. idx > 0 => d.heap[s[idx]].id.clock + d.heap[s[idx]].len = idx
    BY <1>2, <1>4, <1>7
  <2>3. getItem(d, id) = Nil
    BY <1>1, <1>2, <1>4, <1>6, <2>1, <2>2
  <2>4. QED
    BY <1>9, <2>3
<1>10. QED
  BY <1>8, <1>9

\* The next clock of a client is the length of its slice.
LEMMA getStateCounts ==
  ASSUME NEW d, Whole(d), NEW c \in Client
  PROVE  getState(d, c) = Len(d.store[c])
<1>1. d \in Docs /\ Len(d.store[c]) \in Nat /\ d.store[c] \in Seq(Nat)
  BY DocFields DEF Whole
<1>2. CASE d.store[c] = <<>>
  BY <1>2 DEF getState
<1>3. CASE d.store[c] # <<>>
  <2> DEFINE n == Len(d.store[c])
  <2>1. n \in 1 .. n
    BY <1>1, <1>3
  <2>2. d.store[c][n] \in Refs(d) /\ d.heap[d.store[c][n]].id = [client |-> c, clock |-> n - 1]
    BY <1>1, <2>1 DEF Whole
  <2>3. d.heap[d.store[c][n]].id.clock = n - 1 /\ d.heap[d.store[c][n]].len = 1
    BY <2>2 DEF Whole
  <2>4. QED
    BY <1>1, <1>3, <2>3 DEF getState, Last
<1>4. QED
  BY <1>2, <1>3

-----------------------------------------------------------------------------
(***************************************************************************)
(* One more item in a document.                                            *)
(***************************************************************************)
\* What the two items have in common does not change in the life of an item.
SameItem(a, b) == /\ a.id = b.id /\ a.len = b.len /\ a.str = b.str
                  /\ a.oleft = b.oleft /\ a.list = b.list

\* An item that is not linked yet and goes to the end of its client's slice.
Fits(d, it) == /\ it \in ItemType
               /\ it.len = 1 /\ Len(it.str) = 1 /\ it.right = Nil
               /\ it.id.clock = Len(d.store[it.id.client])

\* e is d with the item it, wherever it is linked.
Grows(d, e, it) ==
    /\ e \in Docs
    /\ Len(e.heap) = Len(d.heap) + 1
    /\ \A k \in Refs(d) : SameItem(e.heap[k], d.heap[k]) /\ e.heap[k].deleted = d.heap[k].deleted
    /\ SameItem(e.heap[Len(d.heap) + 1], it) /\ e.heap[Len(d.heap) + 1].deleted = it.deleted
    /\ e.store = [d.store EXCEPT ![it.id.client] = Append(@, Len(d.heap) + 1)]
    /\ e.ds = d.ds
    /\ e.panic = d.panic

\* A document that grows by an item that fits stays whole.
LEMMA GrowsWhole ==
  ASSUME NEW d, Whole(d), NEW it, Fits(d, it), NEW e, Grows(d, e, it)
  PROVE  Whole(e)
<1> DEFINE n == Len(d.heap) + 1
           c == it.id.client
<1>1. d \in Docs /\ e \in Docs /\ Len(d.heap) \in Nat
  BY DocFields DEF Whole, Grows
<1>2. it.id \in IdType /\ c \in Client /\ it.id.clock \in Nat /\ it.id = [client |-> c, clock |-> it.id.clock]
  BY ItemFields DEF Fits, IdType
<1>3. Refs(e) = Refs(d) \cup {n} /\ n \in Refs(e) /\ n \notin Refs(d)
  BY <1>1 DEF Refs, Grows
<1>4. \A k \in Refs(d) : e.heap[k].id = d.heap[k].id /\ e.heap[k].len = d.heap[k].len /\ e.heap[k].str = d.heap[k].str
  BY DEF Grows, SameItem
<1>5. e.heap[n].id = it.id /\ e.heap[n].len = 1 /\ Len(e.heap[n].str) = 1 /\ it.id.clock = Len(d.store[c])
  BY DEF Grows, SameItem, Fits
<1>6. /\ \A x \in Client : x # c => e.store[x] = d.store[x]
      /\ Len(e.store[c]) = Len(d.store[c]) + 1
      /\ e.store[c][Len(d.store[c]) + 1] = n
      /\ \A i \in 1 .. Len(d.store[c]) : e.store[c][i] = d.store[c][i]
  <2>1. d.store \in [Client -> Seq(Nat)] /\ d.store[c] \in Seq(Nat) /\ n \in Nat
    BY <1>1, <1>2, DocFields
  <2>2. e.store = [d.store EXCEPT ![c] = Append(@, n)]
    BY DEF Grows
  <2>3. e.store[c] = Append(d.store[c], n) /\ \A x \in Client : x # c => e.store[x] = d.store[x]
    BY <1>2, <2>1, <2>2
  <2> HIDE DEF n, c
  <2>4. QED
    BY <2>1, <2>3, AppendProperties
<1>7. \A k \in Refs(d) : /\ d.heap[k].id.client \in Client /\ d.heap[k].id.clock \in Nat
                         /\ d.heap[k].id.clock < Len(d.store[d.heap[k].id.client])
                         /\ d.store[d.heap[k].id.client][d.heap[k].id.clock + 1] = k
  BY <1>1, DocFields, ItemFields DEF Whole
<1>8. \A x \in Client : Len(d.store[x]) \in Nat
  BY <1>1, DocFields
<1> HIDE DEF n, c
<1>9. ~e.panic
  BY DEF Grows, Whole
<1>10. \A k \in Refs(e) : e.heap[k].len = 1 /\ Len(e.heap[k].str) = 1
  BY <1>3, <1>4, <1>5 DEF Whole
<1>11. ASSUME NEW x \in Client, NEW i \in 1 .. Len(e.store[x])
       PROVE  e.store[x][i] \in Refs(e) /\ e.heap[e.store[x][i]].id = [client |-> x, clock |-> i - 1]
  <2>1. CASE x = c /\ i = Len(d.store[c]) + 1
    BY <1>2, <1>3, <1>5, <1>6, <1>8, <2>1
  <2>2. CASE ~(x = c /\ i = Len(d.store[c]) + 1)
    <3>1. i \in 1 .. Len(d.store[x]) /\ e.store[x][i] = d.store[x][i]
      BY <1>2, <1>6, <1>8, <2>2
    <3>2. d.store[x][i] \in Refs(d) /\ d.heap[d.store[x][i]].id = [client |-> x, clock |-> i - 1]
      BY <3>1 DEF Whole
    <3>3. QED
      BY <1>3, <1>4, <3>1, <3>2
  <2>3. QED
    BY <2>1, <2>2
<1>12. ASSUME NEW k \in Refs(e)
       PROVE  /\ e.heap[k].id.clock < Len(e.store[e.heap[k].id.client])
              /\ e.store[e.heap[k].id.client][e.heap[k].id.clock + 1] = k
  <2>1. CASE k = n
    <3>1. e.heap[k].id.clock = Len(d.store[c]) /\ e.heap[k].id.client = c
      BY <1>2, <1>5, <2>1
    <3>2. Len(d.store[c]) \in Nat
      BY <1>2, <1>8
    <3>3. QED
      BY <1>6, <2>1, <3>1, <3>2
  <2>2. CASE k # n
    <3>1. k \in Refs(d)
      BY <1>3, <2>2
    <3> DEFINE x == d.heap[k].id.client
               m == d.heap[k].id.clock
    <3>2. x \in Client /\ m \in Nat /\ m < Len(d.store[x]) /\ d.store[x][m + 1] = k
      BY <1>7, <3>1
    <3>3. e.heap[k].id.client = x /\ e.heap[k].id.clock = m
      BY <1>4, <3>1
    <3> HIDE DEF x, m
    <3>4. m + 1 \in 1 .. Len(d.store[x]) /\ Len(d.store[x]) \in Nat
      BY <1>8, <3>2
    <3>5. Len(d.store[x]) <= Len(e.store[x]) /\ e.store[x][m + 1] = d.store[x][m + 1] /\ Len(e.store[x]) \in Nat
      BY <1>6, <1>8, <3>2, <3>4
    <3>6. QED
      BY <3>2, <3>3, <3>4, <3>5
  <2>3. QED
    BY <2>1, <2>2
<1>13. QED
  BY <1>1, <1>9, <1>10, <1>11, <1>12 DEF Whole

\* What addItem returns, field by field.
LEMMA addItemFields ==
  ASSUME NEW d \in Docs, NEW it \in ItemType
  PROVE  /\ addItem(d, it) \in Docs
         /\ addItem(d, it).heap = Append(d.heap, it)
         /\ addItem(d, it).store = [d.store EXCEPT ![it.id.client] = Append(@, Len(d.heap) + 1)]
         /\ addItem(d, it).ds = d.ds /\ addItem(d, it).start = d.start
         /\ addItem(d, it).panic = d.panic
         /\ Len(addItem(d, it).heap) = Len(d.heap) + 1
         /\ addItem(d, it).heap[Len(d.heap) + 1] = it
         /\ \A k \in Refs(d) : addItem(d, it).heap[k] = d.heap[k]
<1>1. it.id.client \in Client
  BY ItemFields
<1>2. /\ d.heap \in Seq(ItemType) /\ Len(d.heap) \in Nat /\ d.store \in [Client -> Seq(Nat)]
      /\ d.store[it.id.client] \in Seq(Nat)
  BY <1>1, DocFields
<1> DEFINE n == Len(d.heap) + 1
           e == addItem(d, it)
<1>3. e = [d EXCEPT !.heap = Append(d.heap, it), !.store = [d.store EXCEPT ![it.id.client] = Append(@, n)]]
  BY DEF addItem, Fresh, Docs
<1>4. Append(d.heap, it) \in Seq(ItemType) /\ [d.store EXCEPT ![it.id.client] = Append(@, n)] \in [Client -> Seq(Nat)]
  <2>1. Append(d.store[it.id.client], n) \in Seq(Nat)
    BY <1>2
  <2>2. QED
    BY <1>1, <1>2, <2>1
<1>5. /\ Len(Append(d.heap, it)) = n
      /\ Append(d.heap, it)[n] = it
      /\ \A k \in Refs(d) : Append(d.heap, it)[k] = d.heap[k]
  BY <1>2, AppendProperties DEF Refs
<1>6. e.heap = Append(d.heap, it) /\ e.store = [d.store EXCEPT ![it.id.client] = Append(@, n)]
      /\ e.ds = d.ds /\ e.start = d.start /\ e.panic = d.panic
  BY <1>3 DEF Docs
<1>7. e \in Docs
  <2> HIDE DEF n
  <2> QED BY <1>3, <1>4 DEF Docs
<1> HIDE DEF e
<1>8. QED
  BY <1>5, <1>6, <1>7 DEF e

\* An item that is added to the store and not to a list.
LEMMA addItemSound ==
  ASSUME NEW d, Whole(d), NEW it, Fits(d, it)
  PROVE  /\ Grows(d, addItem(d, it), it) /\ Whole(addItem(d, it))
         /\ Listed(d) => Listed(addItem(d, it))
<1> DEFINE n == Len(d.heap) + 1
           e == addItem(d, it)
<1>1. d \in Docs /\ it \in ItemType /\ Len(d.heap) \in Nat
  BY DocFields DEF Whole, Fits
<1>2. /\ e \in Docs
      /\ e.store = [d.store EXCEPT ![it.id.client] = Append(@, n)]
      /\ e.ds = d.ds /\ e.start = d.start /\ e.panic = d.panic
      /\ Len(e.heap) = n /\ e.heap[n] = it
      /\ \A k \in Refs(d) : e.heap[k] = d.heap[k]
  BY <1>1, addItemFields
<1> HIDE DEF e
<1>3. Grows(d, e, it)
  BY <1>2 DEF Grows, SameItem
<1>4. Whole(e)
  BY <1>3, GrowsWhole
<1>5. Refs(e) = Refs(d) \cup {n} /\ n \notin Refs(d) /\ it.right = Nil
  BY <1>1, <1>2 DEF Refs, Fits
<1>6. ASSUME Listed(d) PROVE Listed(e)
  BY <1>2, <1>5, <1>6 DEF Listed
<1>7. QED
  BY <1>3, <1>4, <1>6 DEF e

\* The successor of an item, and the first item of a list, where a rank has a value.
LEMMA RightRanked ==
  ASSUME NEW d \in Docs, Listed(d)
  PROVE  /\ \A k \in Refs(d) : d.heap[k].right \in {Nil} \cup Refs(d)
         /\ \A l \in List : d.start[l] \in {Nil} \cup Refs(d)
         /\ {Nil} \cup Refs(d) = 0 .. Len(d.heap)
<1>1. Len(d.heap) \in Nat
  BY DocFields
<1>2. {Nil} \cup Refs(d) = 0 .. Len(d.heap)
  BY <1>1 DEF Nil, Refs
<1>3. QED
  BY <1>2 DEF Listed

\* The ranks of a document with one more item that is linked to nothing.
LEMMA addItemRanked ==
  ASSUME NEW d, Whole(d), Listed(d), NEW it, Fits(d, it), NEW rank, Ranked(d, rank)
  PROVE  \E wide \in [0 .. Len(d.heap) + 1 -> Nat] :
            Ranked(addItem(d, it), wide) /\ \A k \in 0 .. Len(d.heap) : wide[k] = rank[k]
<1> DEFINE L == Len(d.heap)
           n == L + 1
           e == addItem(d, it)
           wide == [k \in 0 .. n |-> IF k = n THEN 1 ELSE rank[k]]
<1>1. d \in Docs /\ it \in ItemType /\ L \in Nat
  BY DocFields DEF Whole, Fits
<1>2. /\ Len(e.heap) = n /\ e.heap[n] = it
      /\ \A k \in Refs(d) : e.heap[k] = d.heap[k]
  BY <1>1, addItemFields
<1>3. Refs(d) = 1 .. L /\ Refs(e) = Refs(d) \cup {n} /\ it.right = 0
  BY <1>1, <1>2 DEF Refs, Fits, Nil
<1>4. \A k \in Refs(d) : d.heap[k].right \in 0 .. L
  BY <1>1, RightRanked
<1>5. rank \in [0 .. L -> Nat] /\ rank[0] = 0 /\ \A k \in Refs(d) : rank[d.heap[k].right] < rank[k]
  BY DEF Ranked, Nil
<1>6. Len(e.heap) = n
  BY <1>2
<1> HIDE DEF L, e
<1>7. wide \in [0 .. n -> Nat] /\ wide[n] = 1 /\ wide[0] = 0 /\ \A k \in 0 .. L : wide[k] = rank[k]
  BY <1>1, <1>5
<1>8. ASSUME NEW k \in Refs(d) PROVE wide[e.heap[k].right] < wide[k]
  <2>1. e.heap[k].right \in 0 .. L /\ e.heap[k].right = d.heap[k].right /\ k \in 0 .. L
    BY <1>1, <1>2, <1>3, <1>4
  <2>2. wide[e.heap[k].right] = rank[d.heap[k].right] /\ wide[k] = rank[k]
    BY <1>7, <2>1
  <2>3. QED
    BY <1>5, <2>2
<1> HIDE DEF wide
<1>9. \A k \in Refs(e) : wide[e.heap[k].right] < wide[k]
  BY <1>2, <1>3, <1>7, <1>8
<1>10. Ranked(e, wide)
  <2>1. wide \in [0 .. Len(e.heap) -> Nat]
    BY <1>6, <1>7
  <2>2. QED
    BY <1>7, <1>9, <2>1 DEF Ranked, Nil
<1>11. QED
  BY <1>7, <1>10 DEF e, L

-----------------------------------------------------------------------------
(***************************************************************************)
(* Chains.                                                                 *)
(***************************************************************************)
\* Where ranks go down the recursion of chain ends.
LEMMA chainUnfolds ==
  ASSUME NEW d \in Docs, Listed(d), NEW rank, Ranked(d, rank)
  PROVE  \A r \in 0 .. Len(d.heap) :
            /\ chain(d, r) \in Seq(Refs(d))
            /\ chain(d, r) = IF r = Nil THEN <<>> ELSE <<r>> \o chain(d, d.heap[r].right)
<1> DEFINE L == Len(d.heap)
           R == Refs(d)
           D == 0 .. L
           S == [D -> Seq(R)]
           start == [r \in D |-> <<>>]
           next == [p \in S \X Nat |-> [r \in D |-> IF r = 0 THEN <<>> ELSE <<r>> \o p[1][d.heap[r].right]]]
           Solves(g) == g = [r \in D |-> IF r = 0 THEN <<>> ELSE <<r>> \o g[d.heap[r].right]]
<1>1. L \in Nat /\ R = 1 .. L /\ D = {0} \cup R /\ 0 \notin R
  BY DocFields DEF Refs
<1>2. \A r \in R : d.heap[r].right \in D
  BY RightRanked
<1>3. rank \in [D -> Nat] /\ \A r \in R : rank[d.heap[r].right] < rank[r]
  BY DEF Ranked
<1>4. <<>> \in Seq(R) /\ \A r \in R : \A s \in Seq(R) : <<r>> \o s \in Seq(R)
  <2>1. ASSUME NEW r \in R, NEW s \in Seq(R) PROVE <<r>> \o s \in Seq(R)
    <3>1. <<r>> \in Seq(R)
      OBVIOUS
    <3> HIDE DEF R
    <3>2. QED
      BY <3>1, ConcatProperties
  <2> HIDE DEF R
  <2>2. QED
    BY <2>1
<1> HIDE DEF L, R
<1>5. start \in S
  BY <1>4
<1>6. next \in [S \X Nat -> S]
  <2>1. ASSUME NEW p \in S \X Nat, NEW r \in D, r # 0
        PROVE  <<r>> \o p[1][d.heap[r].right] \in Seq(R)
    <3>1. r \in R /\ d.heap[r].right \in D
      BY <1>1, <1>2, <2>1
    <3>2. p[1] \in S
      OBVIOUS
    <3>3. p[1][d.heap[r].right] \in Seq(R)
      BY <3>1, <3>2
    <3>4. QED
      BY <1>4, <3>1, <3>3
  <2>2. ASSUME NEW p \in S \X Nat
        PROVE  [r \in D |-> IF r = 0 THEN <<>> ELSE <<r>> \o p[1][d.heap[r].right]] \in S
    <3> HIDE DEF D
    <3> QED BY <1>4, <2>1
  <2> HIDE DEF S, D
  <2>3. QED
    BY <2>2
<1>7. PICK g \in [Nat -> S] : Iterates(g, start, next)
  <2> HIDE DEF start, next, S
  <2> QED BY <1>5, <1>6, IterationExists
<1>8. \A m \in Nat : g[m] \in S
  <2> HIDE DEF S
  <2> QED OBVIOUS
<1>9. ASSUME NEW m \in Nat, NEW r \in D
      PROVE  g[m + 1][r] = IF r = 0 THEN <<>> ELSE <<r>> \o g[m][d.heap[r].right]
  <2>1. g[m + 1] = next[<<g[m], m>>]
    <3> HIDE DEF next, S
    <3> QED BY <1>7 DEF Iterates
  <2>2. <<g[m], m>> \in S \X Nat
    <3> HIDE DEF S
    <3> QED BY <1>8
  <2>3. next[<<g[m], m>>] = [x \in D |-> IF x = 0 THEN <<>> ELSE <<x>> \o g[m][d.heap[x].right]]
    <3> HIDE DEF D, S
    <3> QED BY <2>2
  <2>4. QED
    <3> HIDE DEF D, next
    <3> QED BY <2>1, <2>3
<1> HIDE DEF S, D, next, start
<1> DEFINE Stable == { m \in Nat : \A r \in D : rank[r] < m => g[m + 1][r] = g[m][r] }
           Reached == { m \in Nat : \A r \in D : rank[r] < m => g[m][r] = g[rank[r] + 1][r] }
<1>10. \A m \in Nat : m \in Stable
  <2>1. 0 \in Stable
    BY <1>3
  <2>2. ASSUME NEW m \in Nat, m \in Stable PROVE m + 1 \in Stable
    <3>1. SUFFICES ASSUME NEW r \in D, rank[r] < m + 1
                   PROVE  g[(m + 1) + 1][r] = g[m + 1][r]
      OBVIOUS
    <3>0. m + 1 \in Nat
      OBVIOUS
    <3>2. CASE r = 0
      <4>1. g[(m + 1) + 1][r] = <<>> /\ g[m + 1][r] = <<>>
        BY <1>9, <3>0, <3>2
      <4>2. QED
        BY <4>1
    <3>3. CASE r # 0
      <4>1. r \in R /\ d.heap[r].right \in D
        BY <1>1, <1>2, <3>3
      <4>2. rank[d.heap[r].right] < m
        <5>1. rank[d.heap[r].right] \in Nat /\ rank[r] \in Nat /\ rank[d.heap[r].right] < rank[r]
          BY <1>3, <4>1
        <5>2. QED
          BY <3>1, <5>1
      <4>3. g[m + 1][d.heap[r].right] = g[m][d.heap[r].right]
        BY <2>2, <4>1, <4>2
      <4>4. g[(m + 1) + 1][r] = <<r>> \o g[m + 1][d.heap[r].right]
        BY <1>9, <3>0, <3>3
      <4>6. g[m + 1][r] = <<r>> \o g[m][d.heap[r].right]
        BY <1>9, <3>3
      <4>5. QED
        BY <4>3, <4>4, <4>6
    <3>4. QED
      BY <3>2, <3>3
  <2> HIDE DEF Stable
  <2>3. QED
    BY <2>1, <2>2, Induction
<1>11. \A m \in Nat : m \in Reached
  <2>1. 0 \in Reached
    BY <1>3
  <2>2. ASSUME NEW m \in Nat, m \in Reached PROVE m + 1 \in Reached
    <3>1. SUFFICES ASSUME NEW r \in D, rank[r] < m + 1
                   PROVE  g[m + 1][r] = g[rank[r] + 1][r]
      OBVIOUS
    <3>2. rank[r] \in Nat
      BY <1>3
    <3>3. CASE rank[r] = m
      BY <3>3
    <3>4. CASE rank[r] < m
      <4>1. g[m][r] = g[rank[r] + 1][r]
        BY <2>2, <3>4
      <4>2. m \in Stable
        BY <1>10
      <4>3. g[m + 1][r] = g[m][r]
        BY <3>4, <4>2
      <4>4. QED
        BY <4>1, <4>3
    <3>5. QED
      BY <3>1, <3>2, <3>3, <3>4
  <2> HIDE DEF Reached
  <2>3. QED
    BY <2>1, <2>2, Induction
<1> DEFINE f == [r \in D |-> g[rank[r] + 1][r]]
<1>12. Solves(f)
  <2>1. ASSUME NEW r \in D, r # 0
        PROVE  g[rank[r] + 1][r] = <<r>> \o f[d.heap[r].right]
    <3>1. r \in R /\ d.heap[r].right \in D
      BY <1>1, <1>2, <2>1
    <3>2. rank[r] \in Nat /\ rank[d.heap[r].right] < rank[r]
      BY <1>3, <3>1
    <3>3. g[rank[r] + 1][r] = <<r>> \o g[rank[r]][d.heap[r].right]
      BY <1>9, <2>1, <3>2
    <3>4. rank[r] \in Reached
      BY <1>11, <3>2
    <3>5. g[rank[r]][d.heap[r].right] = g[rank[d.heap[r].right] + 1][d.heap[r].right]
      BY <3>1, <3>2, <3>4
    <3>6. QED
      BY <3>1, <3>3, <3>5
  <2>2. ASSUME NEW r \in D, r = 0 PROVE g[rank[r] + 1][r] = <<>>
    <3>1. rank[r] \in Nat
      BY <1>3
    <3>2. QED
      BY <1>9, <2>2, <3>1
  <2> DEFINE h == [r \in D |-> IF r = 0 THEN <<>> ELSE <<r>> \o f[d.heap[r].right]]
  <2>3. \A r \in D : f[r] = h[r]
    BY <2>1, <2>2
  <2>4. f = h
    BY <2>3
  <2>5. QED
    BY <2>4
<1> DEFINE follow == CHOOSE x : Solves(x)
<1>13. Solves(follow)
  <2> HIDE DEF Solves, f
  <2> QED BY <1>12
<1>14. \A r : chain(d, r) = follow[r]
  BY DEF chain, L, D, Nil
<1> HIDE DEF follow
<1>15. \A r \in D : follow[r] = IF r = 0 THEN <<>> ELSE <<r>> \o follow[d.heap[r].right]
  <2> DEFINE h == [r \in D |-> IF r = 0 THEN <<>> ELSE <<r>> \o follow[d.heap[r].right]]
  <2>1. follow = h
    BY <1>13
  <2>2. \A r \in D : h[r] = IF r = 0 THEN <<>> ELSE <<r>> \o follow[d.heap[r].right]
    OBVIOUS
  <2> HIDE DEF h
  <2>3. QED
    BY <2>1, <2>2
<1> DEFINE Typed == { m \in Nat : \A r \in D : rank[r] < m => follow[r] \in Seq(R) }
<1>16. \A m \in Nat : m \in Typed
  <2>1. 0 \in Typed
    BY <1>3
  <2>2. ASSUME NEW m \in Nat, m \in Typed PROVE m + 1 \in Typed
    <3>1. SUFFICES ASSUME NEW r \in D, rank[r] < m + 1
                   PROVE  follow[r] \in Seq(R)
      OBVIOUS
    <3>2. CASE r = 0
      BY <1>4, <1>15, <3>2
    <3>3. CASE r # 0
      <4>1. r \in R /\ d.heap[r].right \in D
        BY <1>1, <1>2, <3>3
      <4>2. rank[d.heap[r].right] < m
        <5>1. rank[d.heap[r].right] \in Nat /\ rank[r] \in Nat /\ rank[d.heap[r].right] < rank[r]
          BY <1>3, <4>1
        <5>2. QED
          BY <3>1, <5>1
      <4>3. follow[d.heap[r].right] \in Seq(R)
        BY <2>2, <4>1, <4>2
      <4>4. follow[r] = <<r>> \o follow[d.heap[r].right]
        BY <1>15, <3>3
      <4>5. QED
        BY <1>4, <4>1, <4>3, <4>4
    <3>4. QED
      BY <3>2, <3>3
  <2> HIDE DEF Typed
  <2>3. QED
    BY <2>1, <2>2, Induction
<1>17. ASSUME NEW r \in D PROVE follow[r] \in Seq(R)
  <2>1. rank[r] \in Nat
    BY <1>3
  <2>2. rank[r] + 1 \in Typed
    BY <1>16, <2>1
  <2>3. QED
    BY <2>1, <2>2
<1>18. QED
  BY <1>14, <1>15, <1>17 DEF Nil, D, L, R

\* A chain that stays in X begins with its first item, goes on with the successor of
\* each item and ends with one that has none.
Follows(d, first, refs, X) ==
    /\ refs \in Seq(X)
    /\ first = Nil => refs = <<>>
    /\ first # Nil => Len(refs) > 0 /\ refs[1] = first
    /\ \A i \in 1 .. Len(refs) - 1 : d.heap[refs[i]].right = refs[i + 1]
    /\ Len(refs) > 0 => d.heap[refs[Len(refs)]].right = Nil

\* A chain that begins in a set of items which no item of it leaves follows them to an end.
LEMMA chainFollows ==
  ASSUME NEW d \in Docs, Listed(d), NEW rank, Ranked(d, rank),
         NEW X, X \subseteq Refs(d), \A k \in X : d.heap[k].right \in {Nil} \cup X,
         NEW first \in {Nil} \cup X
  PROVE  Follows(d, first, chain(d, first), X)
<1> DEFINE Good == { m \in Nat : \A r \in {Nil} \cup X : rank[r] < m => Follows(d, r, chain(d, r), X) }
<1>1. /\ \A r \in {Nil} \cup X : r \in 0 .. Len(d.heap) /\ rank[r] \in Nat
      /\ \A r \in X : r # Nil /\ rank[d.heap[r].right] < rank[r]
  <2>1. Len(d.heap) \in Nat /\ rank \in [0 .. Len(d.heap) -> Nat]
    BY DocFields DEF Ranked
  <2>2. \A r \in X : r \in Refs(d)
    OBVIOUS
  <2>3. \A r \in {Nil} \cup X : r \in 0 .. Len(d.heap)
    BY <2>1, <2>2 DEF Refs, Nil
  <2>4. \A r \in X : r # Nil /\ rank[d.heap[r].right] < rank[r]
    BY <2>1, <2>2 DEF Refs, Nil, Ranked
  <2>5. QED
    BY <2>1, <2>3, <2>4
<1>2. \A r \in {Nil} \cup X : chain(d, r) = IF r = Nil THEN <<>> ELSE <<r>> \o chain(d, d.heap[r].right)
  BY <1>1, chainUnfolds
<1>3. 0 \in Good
  BY <1>1
<1>4. ASSUME NEW m \in Nat, m \in Good PROVE m + 1 \in Good
  <2>1. SUFFICES ASSUME NEW r \in {Nil} \cup X, rank[r] < m + 1
                 PROVE  Follows(d, r, chain(d, r), X)
    OBVIOUS
  <2>2. CASE r = Nil
    <3>1. chain(d, r) = <<>>
      BY <1>2, <2>2
    <3>2. QED
      BY <2>2, <3>1 DEF Follows
  <2>3. CASE r # Nil
    <3> DEFINE next == d.heap[r].right
               rest == chain(d, next)
               refs == chain(d, r)
    <3>1. r \in X /\ next \in {Nil} \cup X
      BY <2>3
    <3>2. rank[next] < m
      <4>1. rank[next] \in Nat /\ rank[r] \in Nat /\ rank[next] < rank[r]
        BY <1>1, <3>1
      <4> HIDE DEF next
      <4>2. QED
        BY <2>1, <4>1
    <3>3. refs = <<r>> \o rest
      BY <1>2, <2>3
    <3> HIDE DEF rest, refs
    <3>4. Follows(d, next, rest, X)
      BY <1>4, <3>1, <3>2 DEF rest
    <3>5. rest \in Seq(X) /\ <<r>> \in Seq(X) /\ Len(rest) \in Nat
      BY <3>1, <3>4 DEF Follows
    <3>6. /\ refs \in Seq(X) /\ Len(refs) = Len(rest) + 1 /\ refs[1] = r
          /\ \A i \in 1 .. Len(rest) : refs[i + 1] = rest[i]
      BY <3>3, <3>5
    <3>7. Len(rest) > 0 => rest[1] = next /\ d.heap[rest[Len(rest)]].right = Nil
      BY <3>4 DEF Follows
    <3>8. Len(rest) = 0 => next = Nil
      BY <3>4, <3>5 DEF Follows
    <3>9. \A i \in 1 .. Len(rest) - 1 : d.heap[rest[i]].right = rest[i + 1]
      BY <3>4 DEF Follows
    <3>10. ASSUME NEW i \in 1 .. Len(refs) - 1 PROVE d.heap[refs[i]].right = refs[i + 1]
      <4>1. CASE i = 1
        <5>1. 1 \in 1 .. Len(rest) /\ Len(rest) > 0
          BY <3>5, <3>6, <4>1
        <5>2. refs[1 + 1] = rest[1]
          BY <3>6, <5>1
        <5>3. QED
          BY <3>6, <3>7, <4>1, <5>1, <5>2
      <4>2. CASE i # 1
        <5>1. i - 1 \in 1 .. Len(rest) - 1 /\ i - 1 \in 1 .. Len(rest) /\ i \in 1 .. Len(rest) /\ (i - 1) + 1 = i
          BY <3>5, <3>6, <4>2
        <5>2. refs[i] = rest[i - 1] /\ refs[i + 1] = rest[i]
          BY <3>6, <5>1
        <5>3. d.heap[rest[i - 1]].right = rest[i]
          BY <3>9, <5>1
        <5>4. QED
          BY <5>2, <5>3
      <4>3. QED
        BY <4>1, <4>2
    <3>11. d.heap[refs[Len(refs)]].right = Nil
      <4>1. CASE Len(rest) = 0
        <5>1. refs[Len(refs)] = r
          BY <3>6, <4>1
        <5>2. QED
          BY <3>8, <4>1, <5>1
      <4>2. CASE Len(rest) # 0
        <5>1. Len(rest) \in 1 .. Len(rest) /\ Len(rest) > 0
          BY <3>5, <4>2
        <5>2. refs[Len(refs)] = rest[Len(rest)]
          BY <3>6, <5>1
        <5>3. QED
          BY <3>7, <5>1, <5>2
      <4>3. QED
        BY <4>1, <4>2
    <3>12. Follows(d, r, refs, X)
      BY <2>3, <3>5, <3>6, <3>10, <3>11 DEF Follows
    <3>13. QED
      BY <3>12 DEF refs
  <2>4. QED
    BY <2>2, <2>3
<1>5. \A m \in Nat : m \in Good
  <2> HIDE DEF Good
  <2> QED BY <1>3, <1>4, Induction
<1>6. rank[first] + 1 \in Good
  BY <1>1, <1>5
<1>7. QED
  BY <1>1, <1>6

-----------------------------------------------------------------------------
(***************************************************************************)
(* An item that is linked.                                                 *)
(***************************************************************************)
\* e is d with the item it linked after left and before right.
Linked(d, e, it, left, right) ==
    /\ Grows(d, e, it)
    /\ e.heap[Len(d.heap) + 1].right = right
    /\ \A k \in Refs(d) : e.heap[k].right = IF k = left THEN Len(d.heap) + 1 ELSE d.heap[k].right
    /\ \A l \in List : e.start[l] = IF left = Nil /\ l = it.list THEN Len(d.heap) + 1 ELSE d.start[l]

\* What link makes of a document to which an item was added, field by field.
LEMMA linkFields ==
  ASSUME NEW d, Whole(d), NEW it, Fits(d, it), it.list \in List,
         NEW left \in {Nil} \cup Refs(d), NEW right \in {Nil} \cup Refs(d),
         NEW e, e = link(addItem(d, it), Len(d.heap) + 1, left, right, it.list)
  PROVE  Linked(d, e, it, left, right)
<1> DEFINE n == Len(d.heap) + 1
           Built == /\ e \in Docs /\ Len(e.heap) = n
                    /\ e.heap[n] = [it EXCEPT !.right = right]
                    /\ left # Nil => e.heap[left] = [d.heap[left] EXCEPT !.right = n] /\ e.start = d.start
                    /\ \A k \in Refs(d) : k # left => e.heap[k] = d.heap[k]
                    /\ left = Nil => e.start = [d.start EXCEPT ![it.list] = n]
                    /\ e.store = [d.store EXCEPT ![it.id.client] = Append(@, n)]
                    /\ e.ds = d.ds /\ e.panic = d.panic
           a == addItem(d, it)
           h == [a.heap EXCEPT ![n].right = right]
           b == [a EXCEPT !.heap = h]
<1>1. d \in Docs /\ it \in ItemType /\ Len(d.heap) \in Nat
  BY DocFields DEF Whole, Fits
<1>2. /\ a \in Docs /\ a.start = d.start /\ a.ds = d.ds /\ a.panic = d.panic
      /\ a.store = [d.store EXCEPT ![it.id.client] = Append(@, n)]
      /\ Len(a.heap) = n /\ a.heap[n] = it
      /\ \A k \in Refs(d) : a.heap[k] = d.heap[k]
  BY <1>1, addItemFields
<1>3. /\ Refs(d) = 1 .. n - 1 /\ n \in 1 .. n /\ n \in Nat /\ n # left /\ n \notin Refs(d)
      /\ Refs(d) \subseteq 1 .. n /\ left \in Nat /\ right \in Nat
  BY <1>1 DEF Refs, Nil, n
<1>4. [it EXCEPT !.right = right] \in ItemType /\ \A k \in Refs(d) : [d.heap[k] EXCEPT !.right = n] \in ItemType
  <2>1. \A x \in ItemType, r \in Nat : [x EXCEPT !.right = r] \in ItemType
    BY DEF ItemType
  <2>2. \A k \in Refs(d) : d.heap[k] \in ItemType
    BY <1>1, DocFields
  <2>3. QED
    BY <1>1, <1>3, <2>1, <2>2
<1> HIDE DEF a, n
<1>5. /\ h \in Seq(ItemType) /\ Len(h) = n
      /\ \A k \in 1 .. n : h[k] = IF k = n THEN [it EXCEPT !.right = right] ELSE a.heap[k]
  <2>1. a.heap \in Seq(ItemType)
    BY <1>2, DocFields
  <2>2. h = [a.heap EXCEPT ![n] = [it EXCEPT !.right = right]]
    BY <1>2, <1>3, <2>1
  <2> HIDE DEF h
  <2>3. QED
    BY <1>2, <1>3, <1>4, <2>1, <2>2, ExceptSeq
<1>6. link(a, n, left, right, it.list) =
         IF left = Nil THEN [b EXCEPT !.start[it.list] = n] ELSE [b EXCEPT !.heap[left].right = n]
  BY DEF link
<1> HIDE DEF h
<1>7. /\ b \in Docs /\ b.heap = h /\ b.start = d.start /\ b.ds = d.ds /\ b.panic = d.panic
      /\ b.store = a.store
  BY <1>2, <1>5 DEF Docs
<1> HIDE DEF b
<1>8. ASSUME left = Nil PROVE Built
  <2>1. e = [b EXCEPT !.start = [d.start EXCEPT ![it.list] = n]]
    BY <1>6, <1>7, <1>8 DEF a, n
  <2>2. [d.start EXCEPT ![it.list] = n] \in [List -> Nat]
    <3>1. d.start \in [List -> Nat]
      BY <1>1, DocFields
    <3>2. QED
      BY <1>3, <3>1
  <2>3. /\ e \in Docs /\ e.heap = h /\ e.start = [d.start EXCEPT ![it.list] = n]
        /\ e.ds = d.ds /\ e.panic = d.panic /\ e.store = b.store
    BY <1>7, <2>1, <2>2 DEF Docs
  <2>4. \A k \in Refs(d) : e.heap[k] = d.heap[k] /\ k # left
    <3>1. \A k \in Refs(d) : k # left
      BY <1>8 DEF Refs, Nil
    <3>2. QED
      BY <1>2, <1>3, <1>5, <2>3, <3>1
  <2>5. e.heap[n] = [it EXCEPT !.right = right] /\ Len(e.heap) = n
    BY <1>3, <1>5, <2>3
  <2>6. QED
    BY <1>2, <1>7, <1>8, <2>3, <2>4, <2>5 DEF Built
<1>9. ASSUME left # Nil PROVE Built
  <2> DEFINE g == [h EXCEPT ![left] = [d.heap[left] EXCEPT !.right = n]]
  <2>1. left \in Refs(d) /\ left \in 1 .. n /\ h[left] = d.heap[left]
    BY <1>2, <1>3, <1>5, <1>9
  <2>2. e = [b EXCEPT !.heap = g]
    <3>1. [h EXCEPT ![left].right = n] = g
      BY <1>5, <2>1
    <3>2. e = [b EXCEPT !.heap = [h EXCEPT ![left].right = n]]
      BY <1>6, <1>7, <1>9 DEF a, n
    <3>3. QED
      BY <3>1, <3>2
  <2>3. /\ g \in Seq(ItemType) /\ Len(g) = n
        /\ \A k \in 1 .. n : g[k] = IF k = left THEN [d.heap[left] EXCEPT !.right = n] ELSE h[k]
    BY <1>4, <1>5, <2>1, ExceptSeq
  <2> HIDE DEF g
  <2>4. /\ e \in Docs /\ e.heap = g /\ e.start = d.start
        /\ e.ds = d.ds /\ e.panic = d.panic /\ e.store = b.store
    BY <1>7, <2>2, <2>3 DEF Docs
  <2>5. /\ e.heap[left] = [d.heap[left] EXCEPT !.right = n]
        /\ \A k \in Refs(d) : k # left => e.heap[k] = d.heap[k]
    BY <1>2, <1>3, <1>5, <2>1, <2>3, <2>4
  <2>6. e.heap[n] = [it EXCEPT !.right = right] /\ Len(e.heap) = n
    BY <1>3, <1>5, <2>3, <2>4
  <2>7. QED
    BY <1>2, <1>7, <1>9, <2>4, <2>5, <2>6 DEF Built
<1> HIDE DEF Built
<1>10. Built
  BY <1>8, <1>9
<1>11. \A k \in Refs(d) : d.heap[k] \in ItemType
  BY <1>1, DocFields
<1>13. SameItem(e.heap[n], it) /\ e.heap[n].deleted = it.deleted /\ e.heap[n].right = right
  <2>1. /\ SameItem([it EXCEPT !.right = right], it) /\ [it EXCEPT !.right = right].deleted = it.deleted
        /\ [it EXCEPT !.right = right].right = right
    BY <1>1 DEF ItemType, SameItem
  <2>2. QED
    BY <1>10, <2>1 DEF Built
<1>14. ASSUME NEW k \in Refs(d)
       PROVE  /\ SameItem(e.heap[k], d.heap[k]) /\ e.heap[k].deleted = d.heap[k].deleted
              /\ e.heap[k].right = IF k = left THEN n ELSE d.heap[k].right
  <2>1. CASE k = left
    <3> DEFINE x == d.heap[k]
    <3>1. e.heap[k] = [x EXCEPT !.right = n] /\ x \in ItemType
      <4>1. k # Nil
        BY <1>1 DEF Refs, Nil
      <4>2. QED
        BY <1>10, <1>11, <2>1, <4>1 DEF Built
    <3> HIDE DEF x
    <3>2. SameItem([x EXCEPT !.right = n], x) /\ [x EXCEPT !.right = n].deleted = x.deleted
          /\ [x EXCEPT !.right = n].right = n
      BY <3>1 DEF ItemType, SameItem
    <3>3. SameItem(e.heap[k], x) /\ e.heap[k].deleted = x.deleted /\ e.heap[k].right = n
      BY <3>1, <3>2
    <3>4. QED
      BY <2>1, <3>3 DEF x
  <2>2. CASE k # left
    <3>1. e.heap[k] = d.heap[k]
      BY <1>10, <2>2 DEF Built
    <3>2. QED
      BY <2>2, <3>1 DEF SameItem
  <2>3. QED
    BY <2>1, <2>2
<1>15. Grows(d, e, it)
  BY <1>10, <1>13, <1>14 DEF Grows, Built, n
<1>16. ASSUME NEW l \in List PROVE e.start[l] = IF left = Nil /\ l = it.list THEN n ELSE d.start[l]
  <2>1. d.start \in [List -> Nat]
    BY <1>1, DocFields
  <2>2. CASE left = Nil
    BY <1>10, <2>1, <2>2 DEF Built
  <2>3. CASE left # Nil
    BY <1>10, <2>3 DEF Built
  <2>4. QED
    BY <2>2, <2>3
<1>17. QED
  BY <1>13, <1>14, <1>15, <1>16 DEF n, Linked

\* An item that is linked between two of its list, or before the first, leaves every
\* chain finite.
LEMMA linkSound ==
  ASSUME NEW d, Whole(d), Listed(d), NEW rank, Ranked(d, rank),
         NEW it, Fits(d, it), it.list \in List,
         NEW left \in {Nil} \cup Refs(d), NEW right \in {Nil} \cup Refs(d),
         left # Nil => d.heap[left].list = it.list /\ rank[right] < rank[left],
         right # Nil => d.heap[right].list = it.list,
         NEW e, e = link(addItem(d, it), Len(d.heap) + 1, left, right, it.list)
  PROVE  Grows(d, e, it) /\ Sound(e) /\ e.heap[Len(d.heap) + 1].right = right
<1> DEFINE n == Len(d.heap) + 1
<1>1. /\ Grows(d, e, it) /\ Len(e.heap) = n
      /\ e.heap[n].right = right
      /\ \A k \in Refs(d) : e.heap[k].right = IF k = left THEN n ELSE d.heap[k].right
      /\ \A l \in List : e.start[l] = IF left = Nil /\ l = it.list THEN n ELSE d.start[l]
  <2>1. /\ Grows(d, e, it) /\ e.heap[n].right = right
        /\ \A k \in Refs(d) : e.heap[k].right = IF k = left THEN n ELSE d.heap[k].right
        /\ \A l \in List : e.start[l] = IF left = Nil /\ l = it.list THEN n ELSE d.start[l]
    <3>1. Linked(d, e, it, left, right)
      BY linkFields
    <3>2. QED
      BY <3>1 DEF Linked
  <2>2. Len(e.heap) = n
    BY <2>1 DEF Grows
  <2>3. QED
    BY <2>1, <2>2
<1>2. d \in Docs /\ it \in ItemType /\ Len(d.heap) \in Nat /\ n \in Nat
  BY DocFields DEF Whole, Fits
<1>4. /\ SameItem(e.heap[n], it) /\ e.heap[n].right = right
      /\ \A k \in Refs(d) : /\ SameItem(e.heap[k], d.heap[k])
                            /\ e.heap[k].right = IF k = left THEN n ELSE d.heap[k].right
  BY <1>1 DEF Grows
<1> HIDE DEF n
<1>5. Grows(d, e, it)
  BY <1>1
<1>6. Whole(e)
  BY <1>5, GrowsWhole
<1>7. Refs(e) = Refs(d) \cup {n} /\ n \notin Refs(d) /\ n # Nil
  BY <1>1, <1>2 DEF Refs, Nil, n
<1>8. d.start \in [List -> Nat] /\ e.heap[n].list = it.list /\ \A k \in Refs(d) : e.heap[k].list = d.heap[k].list
  BY <1>2, <1>4, DocFields DEF SameItem
<1>9. Listed(e)
  <2>1. ASSUME NEW l \in List, e.start[l] # Nil
        PROVE  e.start[l] \in Refs(e) /\ e.heap[e.start[l]].list = l
    <3>1. CASE left = Nil /\ l = it.list
      BY <1>1, <1>7, <1>8, <3>1
    <3>2. CASE ~(left = Nil /\ l = it.list)
      <4>1. e.start[l] = d.start[l]
        BY <1>1, <1>8, <3>2
      <4>2. d.start[l] \in Refs(d) /\ d.heap[d.start[l]].list = l
        BY <2>1, <4>1 DEF Listed
      <4>3. QED
        BY <1>7, <1>8, <4>1, <4>2
    <3>3. QED
      BY <3>1, <3>2
  <2>2. ASSUME NEW k \in Refs(e), e.heap[k].right # Nil
        PROVE  e.heap[k].right \in Refs(e) /\ e.heap[e.heap[k].right].list = e.heap[k].list
    <3>1. CASE k = n
      <4>1. e.heap[k].right = right /\ right \in Refs(d) /\ d.heap[right].list = it.list
        BY <1>4, <2>2, <3>1
      <4>2. QED
        BY <1>7, <1>8, <3>1, <4>1
    <3>2. CASE k # n /\ k = left
      <4>1. k \in Refs(d) /\ k # Nil
        BY <1>7, <3>2 DEF Refs, Nil
      <4>2. e.heap[k].right = n /\ d.heap[k].list = it.list
        BY <1>4, <3>2, <4>1
      <4>3. QED
        BY <1>7, <1>8, <4>1, <4>2
    <3>3. CASE k # n /\ k # left
      <4>1. k \in Refs(d) /\ e.heap[k].right = d.heap[k].right
        BY <1>4, <1>7, <3>3
      <4>2. d.heap[k].right \in Refs(d) /\ d.heap[d.heap[k].right].list = d.heap[k].list
        BY <2>2, <4>1 DEF Listed
      <4>3. QED
        BY <1>7, <1>8, <4>1, <4>2
    <3>4. QED
      BY <3>1, <3>2, <3>3
  <2>3. QED
    BY <2>1, <2>2 DEF Listed
<1> DEFINE L == Len(d.heap)
           wide == [k \in 0 .. n |-> IF k = n THEN 2 * rank[right] + 1 ELSE 2 * rank[k]]
<1>10. rank \in [0 .. L -> Nat] /\ rank[0] = 0 /\ \A k \in Refs(d) : rank[d.heap[k].right] < rank[k]
  BY DEF Ranked, Nil
<1>11. Refs(d) = 1 .. L /\ right \in 0 .. L /\ left \in 0 .. L /\ L \in Nat /\ n = L + 1
  BY <1>2 DEF Refs, Nil, n
<1>12. \A k \in Refs(d) : d.heap[k].right \in 0 .. L
  BY <1>2, <1>11, RightRanked DEF Nil
<1> HIDE DEF L
<1>13. /\ wide \in [0 .. n -> Nat] /\ wide[n] = 2 * rank[right] + 1 /\ wide[0] = 0
       /\ \A k \in 0 .. L : wide[k] = 2 * rank[k]
  <2>1. rank[right] \in Nat /\ \A k \in 0 .. L : rank[k] \in Nat
    BY <1>10, <1>11
  <2>2. \A k \in 0 .. n : (IF k = n THEN 2 * rank[right] + 1 ELSE 2 * rank[k]) \in Nat
    BY <1>11, <2>1
  <2>3. \A k \in 0 .. L : k \in 0 .. n /\ k # n
    BY <1>11
  <2>4. n \in 0 .. n /\ 0 \in 0 .. L
    BY <1>11
  <2>5. QED
    BY <1>10, <2>2, <2>3, <2>4
<1> HIDE DEF wide
<1>14. ASSUME NEW k \in Refs(e) PROVE wide[e.heap[k].right] < wide[k]
  <2>1. rank[right] \in Nat /\ \A j \in 0 .. L : rank[j] \in Nat
    BY <1>10, <1>11
  <2>2. CASE k = n
    <3>1. e.heap[k].right = right /\ wide[right] = 2 * rank[right] /\ wide[k] = 2 * rank[right] + 1
      BY <1>4, <1>11, <1>13, <2>2
    <3>2. QED
      BY <2>1, <3>1
  <2>3. CASE k # n /\ k = left
    <3>1. k \in Refs(d) /\ k # Nil /\ k \in 0 .. L
      BY <1>7, <1>11, <2>3 DEF Nil
    <3>2. e.heap[k].right = n /\ rank[right] < rank[k]
      BY <1>4, <2>3, <3>1
    <3>3. wide[k] = 2 * rank[k] /\ rank[k] \in Nat
      BY <1>13, <2>1, <3>1
    <3>4. QED
      BY <1>13, <2>1, <3>2, <3>3
  <2>4. CASE k # n /\ k # left
    <3>1. k \in Refs(d) /\ e.heap[k].right = d.heap[k].right /\ k \in 0 .. L /\ d.heap[k].right \in 0 .. L
      BY <1>4, <1>7, <1>11, <1>12, <2>4
    <3>2. rank[d.heap[k].right] < rank[k]
      BY <1>10, <3>1
    <3>3. wide[k] = 2 * rank[k] /\ wide[d.heap[k].right] = 2 * rank[d.heap[k].right]
      BY <1>13, <3>1
    <3>4. QED
      BY <2>1, <3>1, <3>2, <3>3
  <2>5. QED
    BY <2>2, <2>3, <2>4
<1>15. Ranked(e, wide) /\ wide \in [0 .. Len(e.heap) -> Nat]
  BY <1>1, <1>13, <1>14 DEF Ranked, Nil
<1>16. Sound(e)
  BY <1>6, <1>9, <1>15 DEF Sound
<1>17. QED
  BY <1>4, <1>5, <1>16 DEF n

\* a is d with the item it, the last of its heap, n; x is it as an item of the list l.
Lists(d, it, l, a, x, n) ==
    a = addItem(d, it) /\ x = [it EXCEPT !.list = l] /\ n = Len(d.heap) + 1

\* An item that is added and gets its list then is an item of that list that is added.
LEMMA addItemListed ==
  ASSUME NEW d \in Docs, NEW it \in ItemType, NEW l \in List,
         NEW a, NEW x, NEW n, Lists(d, it, l, a, x, n)
  PROVE  [a EXCEPT !.heap[n].list = l] = addItem(d, x)
<1>0. a = addItem(d, it) /\ x = [it EXCEPT !.list = l] /\ n = Len(d.heap) + 1
  BY DEF Lists
<1> DEFINE s == [d.store EXCEPT ![it.id.client] = Append(@, n)]
           h == [a.heap EXCEPT ![n].list = l]
<1>1. x \in ItemType /\ x.id = it.id
  BY <1>0 DEF ItemType
<1>2. /\ d.heap \in Seq(ItemType) /\ Len(d.heap) \in Nat
      /\ a \in Docs /\ a.heap = Append(d.heap, it) /\ Len(a.heap) = n /\ a.heap[n] = it
      /\ \A k \in 1 .. Len(d.heap) : a.heap[k] = d.heap[k]
  <2>1. d.heap \in Seq(ItemType) /\ Len(d.heap) \in Nat
    BY DocFields
  <2>2. /\ a \in Docs /\ a.heap = Append(d.heap, it) /\ Len(a.heap) = n /\ a.heap[n] = it
        /\ \A k \in Refs(d) : a.heap[k] = d.heap[k]
    <3>1. /\ addItem(d, it) \in Docs /\ addItem(d, it).heap = Append(d.heap, it)
          /\ Len(addItem(d, it).heap) = Len(d.heap) + 1 /\ addItem(d, it).heap[Len(d.heap) + 1] = it
          /\ \A k \in Refs(d) : addItem(d, it).heap[k] = d.heap[k]
      BY addItemFields
    <3>2. QED
      BY <1>0, <3>1
  <2>3. QED
    BY <2>1, <2>2 DEF Refs
<1>3. a = [d EXCEPT !.heap = Append(d.heap, it), !.store = s]
  BY <1>0 DEF addItem, Fresh, Docs
<1>4. addItem(d, x) = [d EXCEPT !.heap = Append(d.heap, x), !.store = s]
  BY <1>0, <1>1 DEF addItem, Fresh, Docs
<1> HIDE DEF s
<1>5. h = Append(d.heap, x)
  <2>1. a.heap \in Seq(ItemType) /\ n \in 1 .. n
    BY <1>0, <1>2, DocFields
  <2>2. h = [a.heap EXCEPT ![n] = x]
    BY <1>0, <1>2, <2>1
  <2> DEFINE g == [a.heap EXCEPT ![n] = x]
  <2>3. g \in Seq(ItemType) /\ Len(g) = n /\ \A k \in 1 .. n : g[k] = IF k = n THEN x ELSE a.heap[k]
    <3>1. a.heap \in Seq(ItemType) /\ n \in 1 .. Len(a.heap)
      BY <1>0, <1>2, <2>1
    <3>2. x \in ItemType
      BY <1>1
    <3> DEFINE q == a.heap
    <3>3. q \in Seq(ItemType) /\ n \in 1 .. Len(q) /\ Len(q) = n
      BY <1>2, <3>1
    <3> HIDE DEF q
    <3>4. /\ [q EXCEPT ![n] = x] \in Seq(ItemType) /\ Len([q EXCEPT ![n] = x]) = Len(q)
          /\ \A j \in 1 .. Len(q) : [q EXCEPT ![n] = x][j] = IF j = n THEN x ELSE q[j]
      BY <3>2, <3>3, ExceptSeq
    <3>5. QED
      BY <3>3, <3>4 DEF q
  <2> HIDE DEF g
  <2>4. /\ Append(d.heap, x) \in Seq(ItemType) /\ Len(Append(d.heap, x)) = n
        /\ \A k \in 1 .. n : Append(d.heap, x)[k] = IF k = n THEN x ELSE d.heap[k]
    BY <1>0, <1>1, <1>2, AppendProperties
  <2>5. \A k \in 1 .. n : g[k] = Append(d.heap, x)[k]
    BY <1>0, <1>2, <2>3, <2>4
  <2>6. g = Append(d.heap, x)
    BY <2>3, <2>4, <2>5, SeqEqual
  <2>7. QED
    BY <2>2, <2>6 DEF g
<1>6. [a EXCEPT !.heap = h] = [d EXCEPT !.heap = h, !.store = s]
  <2> HIDE DEF h
  <2> QED BY <1>3 DEF Docs
<1>7. QED
  BY <1>4, <1>5, <1>6

\* Between from and to, which are refs[prev] and refs[at] or what is beyond an end of refs.
Slot(refs, left, at, prev, from, to) ==
    /\ at = 0 => prev = Len(refs) /\ to = Nil
    /\ at # 0 => prev = at - 1 /\ to = refs[at]
    /\ prev = 0 => from = left
    /\ prev # 0 => from = refs[prev]

\* Where an item is put: among the items X, of one list, that begin with first.
LEMMA SlotIsBetween ==
  ASSUME NEW d \in Docs, Listed(d), NEW rank, Ranked(d, rank),
         NEW X, X \subseteq Refs(d),
         NEW left \in {Nil} \cup X,
         NEW first, left # Nil => first = d.heap[left].right,
         NEW refs, Follows(d, first, refs, X),
         NEW at \in 0 .. Len(refs),
         NEW prev, NEW from, NEW to, Slot(refs, left, at, prev, from, to)
  PROVE  from \in {Nil} \cup X /\ to \in {Nil} \cup X /\ (from # Nil => rank[to] < rank[from])
<1>0. /\ at = 0 => prev = Len(refs) /\ to = Nil
      /\ at # 0 => prev = at - 1 /\ to = refs[at]
      /\ prev = 0 => from = left
      /\ prev # 0 => from = refs[prev]
  BY DEF Slot
<1>1. refs \in Seq(X) /\ Len(refs) \in Nat
  BY DEF Follows
<1>2. \A i \in 1 .. Len(refs) : refs[i] \in X
  BY <1>1
<1>3. prev \in 0 .. Len(refs)
  BY <1>0, <1>1
<1>4. from \in {Nil} \cup X /\ to \in {Nil} \cup X
  BY <1>0, <1>2, <1>3
<1>5. from # Nil => d.heap[from].right = to
  <2>1. CASE prev = 0 /\ at = 0
    <3>1. refs = <<>> /\ Len(refs) = 0
      BY <1>0, <1>1, <2>1
    <3>2. first = Nil
      BY <3>1 DEF Follows
    <3>3. QED
      BY <1>0, <2>1, <3>2
  <2>2. CASE prev = 0 /\ at # 0
    <3>1. at = 1 /\ Len(refs) > 0
      BY <1>0, <1>1, <2>2
    <3>2. refs[1] = first
      BY <3>1 DEF Follows
    <3>3. QED
      BY <1>0, <2>2, <3>1, <3>2
  <2>3. CASE prev # 0 /\ at = 0
    BY <1>0, <1>1, <2>3 DEF Follows
  <2>4. CASE prev # 0 /\ at # 0
    <3>1. prev \in 1 .. Len(refs) - 1 /\ prev + 1 = at
      BY <1>0, <1>1, <2>4
    <3>2. d.heap[refs[prev]].right = refs[prev + 1]
      BY <3>1 DEF Follows
    <3>3. QED
      BY <1>0, <2>4, <3>1, <3>2
  <2>5. QED
    BY <2>1, <2>2, <2>3, <2>4
<1>6. from # Nil => rank[to] < rank[from]
  <2>1. SUFFICES ASSUME from # Nil PROVE rank[to] < rank[from]
    OBVIOUS
  <2>2. from \in Refs(d)
    BY <1>4, <2>1
  <2>3. QED
    BY <1>5, <2>1, <2>2 DEF Ranked
<1>7. QED
  BY <1>4, <1>6

-----------------------------------------------------------------------------
(***************************************************************************)
(* What the functions of an update do to a document.                       *)
(***************************************************************************)
\* An item as the decoder makes it.
Wire(it) == /\ it \in ItemType
            /\ it.len = 1 /\ Len(it.str) = 1 /\ it.right = Nil
            /\ it.oleft # NoID => it.list = NoList

\* e is d with an item that says what it says, deleted if the delete set has it.
Joins(d, e, it) ==
    \E x \in ItemType : /\ Fits(d, x) /\ Grows(d, e, x)
                        /\ x.id = it.id /\ x.str = it.str /\ x.oleft = it.oleft
                        /\ x.deleted = isDeleted(d, it.id)

\* The items of a list.
OfList(d, l) == { k \in Refs(d) : d.heap[k].list = l }

\* The item an item was typed after, if the document has it.
OriginRef(d, id) == IF id # NoID /\ Held(d, id) THEN RefOf(d, id) ELSE Nil

\* x is linked in e before the first of cands that the item it is before, cands being
\* what comes in d after left, or the whole list without left.
Queued(d, e, it, x, left) ==
    \E first, cands, at, prev, from, to :
        /\ first = IF left = Nil THEN d.start[x.list] ELSE d.heap[left].right
        /\ Follows(d, first, cands, OfList(d, x.list))
        /\ at \in 0 .. Len(cands)
        /\ at # 0 => lssIsBefore(it, d.heap[cands[at]])
        /\ \A i \in 1 .. Len(cands) : at = 0 \/ i < at => ~lssIsBefore(it, d.heap[cands[i]])
        /\ Slot(cands, left, at, prev, from, to)
        /\ Linked(d, e, x, from, to)

\* e is d with x, which is what becomes of the item it: it is in the list of its
\* origin, or in no list if it names none and its origin is not held.
Puts(d, e, it, x) ==
    LET left == OriginRef(d, it.oleft)
    IN  /\ Fits(d, x)
        /\ x.id = it.id /\ x.str = it.str /\ x.oleft = it.oleft
        /\ x.deleted = isDeleted(d, it.id)
        /\ x.list = IF left = Nil THEN it.list ELSE d.heap[left].list
        /\ x.list = NoList => e = addItem(d, x)
        /\ x.list # NoList => left \in {Nil} \cup OfList(d, x.list) /\ Queued(d, e, it, x, left)

\* integrateItem leaves a document alone that holds the item, and otherwise adds it.
LEMMA integrateItemSound ==
  ASSUME NEW d, Sound(d), NEW it, Wire(it), it.id.clock <= Len(d.store[it.id.client])
  PROVE  /\ Held(d, it.id) => integrateItem(d, it) = d
         /\ ~Held(d, it.id) => Sound(integrateItem(d, it)) /\ Joins(d, integrateItem(d, it), it)
         /\ ~Held(d, it.id) => \E x : Puts(d, integrateItem(d, it), it, x)
<1> DEFINE n == Len(d.heap) + 1
           x == [it EXCEPT !.deleted = isDeleted(d, it.id)]
           added == addItem(d, x)
           left  == IF it.oleft = NoID THEN Nil ELSE getItem(added, it.oleft)
           list  == IF it.list # NoList \/ left = Nil THEN it.list ELSE added.heap[left].list
           first == IF left = Nil THEN added.start[list] ELSE added.heap[left].right
           cands == chain(added, first)
           at    == SelectInSeq(cands, LAMBDA o : lssIsBefore(it, added.heap[o]))
           right == IF at = 0 THEN Nil ELSE cands[at]
           prev  == IF at = 0 THEN Len(cands) ELSE at - 1
           from  == IF prev = 0 THEN left ELSE cands[prev]
           y     == [x EXCEPT !.list = list]
           e     == IF getItem(d, it.id) # Nil THEN d
                    ELSE IF list = NoList THEN added
                    ELSE link([added EXCEPT !.heap[n].list = list], n, from, right, list)
<1>1. integrateItem(d, it) = e
  BY DEF integrateItem, Fresh
<1>2. Whole(d) /\ Listed(d) /\ d \in Docs /\ Len(d.heap) \in Nat /\ it \in ItemType /\ it.id \in IdType
  BY DocFields, ItemFields DEF Sound, Whole, Wire
<1>3. PICK rank \in [0 .. Len(d.heap) -> Nat] : Ranked(d, rank)
  BY DEF Sound
<1>4. getItem(d, it.id) = (IF Held(d, it.id) THEN RefOf(d, it.id) ELSE Nil)
      /\ (Held(d, it.id) => RefOf(d, it.id) # Nil)
  <2>1. /\ getItem(d, it.id) = IF Held(d, it.id) THEN RefOf(d, it.id) ELSE Nil
        /\ Held(d, it.id) => RefOf(d, it.id) \in Refs(d)
    BY <1>2, getItemFinds
  <2>2. Nil \notin Refs(d)
    BY DEF Refs, Nil
  <2>3. QED
    BY <2>1, <2>2
<1>5. CASE Held(d, it.id)
  <2> HIDE DEF added, list, from, right
  <2> QED BY <1>1, <1>4, <1>5
<1>6. CASE ~Held(d, it.id)
  <2>1. /\ x \in ItemType /\ x.id = it.id /\ x.str = it.str /\ x.oleft = it.oleft /\ x.list = it.list
        /\ x.deleted = isDeleted(d, it.id) /\ x.len = it.len /\ x.right = it.right
    <3>1. isDeleted(d, it.id) \in BOOLEAN
      BY DEF isDeleted
    <3>2. QED
      BY <1>2, <3>1 DEF ItemType
  <2> HIDE DEF x
  <2>2. Fits(d, x)
    <3>1. Len(d.store[it.id.client]) \in Nat /\ it.id.clock \in Nat
      BY <1>2, DocFields DEF IdType
    <3>2. it.id.clock = Len(d.store[it.id.client])
      BY <1>6, <3>1 DEF Held
    <3>3. QED
      BY <2>1, <3>2 DEF Fits, Wire
  <2>3. Whole(added) /\ Listed(added) /\ Grows(d, added, x)
    BY <1>2, <2>2, addItemSound
  <2>4. PICK wide \in [0 .. Len(d.heap) + 1 -> Nat] :
            Ranked(added, wide) /\ \A k \in 0 .. Len(d.heap) : wide[k] = rank[k]
    BY <1>2, <1>3, <2>2, addItemRanked
  <2>5. /\ added.start = d.start /\ added.heap[n] = x /\ Len(added.heap) = n
        /\ \A k \in Refs(d) : added.heap[k] = d.heap[k]
    BY <1>2, <2>1, addItemFields
  <2>6. added \in Docs /\ Refs(added) = Refs(d) \cup {n} /\ n \notin Refs(d) /\ n # Nil
    BY <1>2, <2>3, <2>5 DEF Whole, Refs, Nil
  <2>7. left \in {Nil} \cup Refs(added)
    <3>1. CASE it.oleft = NoID
      BY <3>1
    <3>2. CASE it.oleft # NoID
      <4>1. it.oleft \in IdType
        BY <1>2, <3>2, ItemFields
      <4>2. /\ getItem(added, it.oleft) = IF Held(added, it.oleft) THEN RefOf(added, it.oleft) ELSE Nil
            /\ Held(added, it.oleft) => RefOf(added, it.oleft) \in Refs(added)
        BY <2>3, <4>1, getItemFinds
      <4> HIDE DEF added
      <4>3. QED
        BY <3>2, <4>2
    <3>3. QED
      BY <3>1, <3>2
  <2>8. left # Nil => it.list = NoList
    <3>1. left # Nil => it.oleft # NoID
      OBVIOUS
    <3>2. QED
      BY <3>1 DEF Wire
  <2>12. left = OriginRef(d, it.oleft) \/ (OriginRef(d, it.oleft) = Nil /\ left = n)
    <3>1. CASE it.oleft = NoID
      BY <3>1 DEF OriginRef
    <3>2. CASE it.oleft # NoID
      <4> DEFINE o == it.oleft
      <4>1. o \in IdType /\ o.client \in Client /\ o.clock \in Nat
        BY <1>2, <3>2, ItemFields DEF IdType
      <4>2. getItem(added, o) = IF Held(added, o) THEN RefOf(added, o) ELSE Nil
        <5> HIDE DEF added, o
        <5> QED BY <2>3, <4>1, getItemFinds
      <4>3. /\ added.store = [d.store EXCEPT ![x.id.client] = Append(@, n)]
            /\ x.id.client \in Client
        BY <1>2, <2>1, addItemFields, ItemFields
      <4>4. /\ d.store \in [Client -> Seq(Nat)] /\ Len(d.store[o.client]) \in Nat /\ n \in Nat
            /\ d.store[o.client] \in Seq(Nat)
        BY <1>2, <4>1, DocFields
      <4> DEFINE s == d.store[o.client]
      <4>5. /\ o.client # x.id.client => added.store[o.client] = s
            /\ o.client = x.id.client => added.store[o.client] = Append(s, n)
        <5> HIDE DEF n, added
        <5> QED BY <4>1, <4>3, <4>4
      <4> HIDE DEF s, o, added
      <4>6. s \in Seq(Nat) /\ Len(s) \in Nat /\ n \in Nat
        BY <4>4 DEF s
      <4>7. /\ Len(Append(s, n)) = Len(s) + 1 /\ Append(s, n)[Len(s) + 1] = n
            /\ \A i \in 1 .. Len(s) : Append(s, n)[i] = s[i]
        <5> HIDE DEF n
        <5> QED BY <4>6, AppendProperties
      <4>8. CASE Held(d, o)
        <5>1. o.clock < Len(s) /\ o.clock + 1 \in 1 .. Len(s)
          BY <4>1, <4>6, <4>8 DEF Held, s
        <5>2. Held(added, o) /\ RefOf(added, o) = RefOf(d, o)
          <6> DEFINE i == o.clock + 1
                     w == added.store[o.client]
          <6>1. i \in 1 .. Len(s) /\ o.clock < Len(s) /\ o.clock < Len(s) + 1
            BY <4>1, <4>6, <5>1
          <6> HIDE DEF n, i, w
          <6>2. o.clock < Len(w) /\ w[i] = s[i]
            BY <4>5, <4>7, <6>1 DEF w
          <6>3. QED
            BY <6>2 DEF Held, RefOf, s, i, w
        <5>3. left = RefOf(d, o)
          BY <3>2, <4>2, <5>2 DEF o
        <5>4. QED
          BY <3>2, <4>8, <5>3 DEF OriginRef, o
      <4>9. CASE ~Held(d, o)
        <5>1. ~(o.clock < Len(s)) /\ OriginRef(d, o) = Nil
          BY <4>9 DEF Held, s, OriginRef
        <5>2. CASE Held(added, o)
          <6>1. o.clock = Len(s) /\ RefOf(added, o) = n
            <7> HIDE DEF n
            <7> QED BY <4>1, <4>5, <4>6, <4>7, <5>1, <5>2 DEF Held, RefOf
          <6>2. QED
            BY <3>2, <4>2, <5>1, <5>2, <6>1 DEF o
        <5>3. CASE ~Held(added, o)
          BY <3>2, <4>2, <5>1, <5>3 DEF o
        <5>4. QED
          BY <5>2, <5>3
      <4>10. QED
        BY <4>8, <4>9
    <3>3. QED
      BY <3>1, <3>2
  <2>13. OriginRef(d, it.oleft) \in {Nil} \cup Refs(d)
    <3>1. it.oleft # NoID /\ Held(d, it.oleft) => RefOf(d, it.oleft) \in Refs(d)
      <4>1. it.oleft # NoID => it.oleft \in IdType
        BY <1>2, ItemFields
      <4>2. QED
        BY <1>2, <4>1, getItemFinds
    <3>2. QED
      BY <3>1 DEF OriginRef
  <2> HIDE DEF added, left
  <2>9. CASE list = NoList
    <3>1. e = added
      BY <1>4, <1>6, <2>9
    <3> HIDE DEF e
    <3>2. Sound(added)
      <4>1. wide \in [0 .. Len(added.heap) -> Nat]
        BY <2>5
      <4>2. QED
        BY <2>3, <2>4, <4>1 DEF Sound
    <3>3. Joins(d, added, it)
      BY <2>1, <2>2, <2>3 DEF Joins
    <3>4. x.list = NoList
      BY <2>1, <2>8, <2>9
    <3>5. OriginRef(d, it.oleft) # Nil => d.heap[OriginRef(d, it.oleft)].list = NoList
      <4>1. SUFFICES ASSUME OriginRef(d, it.oleft) # Nil PROVE d.heap[OriginRef(d, it.oleft)].list = NoList
        OBVIOUS
      <4>2. left = OriginRef(d, it.oleft) /\ left \in Refs(d) /\ it.list = NoList
        BY <2>8, <2>12, <2>13, <4>1
      <4>3. added.heap[left].list = NoList
        BY <2>9, <4>1, <4>2
      <4>4. QED
        BY <2>5, <4>2, <4>3
    <3>6. Puts(d, added, it, x)
      BY <2>1, <2>2, <3>4, <3>5 DEF Puts, added
    <3>7. QED
      BY <1>1, <1>6, <3>1, <3>2, <3>3, <3>6
  <2>10. CASE list # NoList
    <3>1. list \in List
      <4>1. it.list \in List \cup {NoList} /\ \A k \in Refs(added) : added.heap[k].list \in List \cup {NoList}
        <5>1. \A k \in Refs(added) : added.heap[k] \in ItemType
          BY <2>6, DocFields
        <5>2. QED
          BY <1>2, <5>1, ItemFields
      <4>2. QED
        BY <2>7, <2>10, <4>1
    <3>2. left \in {Nil} \cup Refs(d) /\ (left # Nil => d.heap[left].list = list)
      <4>1. left # Nil => list = added.heap[left].list
        BY <2>8
      <4>2. left # n
        <5>1. left = n => list = it.list
          BY <2>1, <2>5, <2>6, <4>1
        <5>2. QED
          BY <2>6, <2>8, <2>10, <5>1
      <4>3. QED
        BY <2>5, <2>6, <2>7, <4>1, <4>2
    <3> HIDE DEF list
    <3> DEFINE X == { k \in Refs(d) : d.heap[k].list = list }
    <3>3. /\ X \subseteq Refs(d) /\ X \subseteq Refs(added)
          /\ \A k \in X : added.heap[k].right \in {Nil} \cup X /\ added.heap[k] = d.heap[k]
      <4>1. \A k \in X : d.heap[k].right \in {Nil} \cup X
        BY <1>2 DEF Listed
      <4>2. QED
        BY <2>5, <2>6, <4>1
    <3>4. first \in {Nil} \cup X /\ (left # Nil => first = d.heap[left].right)
      <4>1. CASE left = Nil
        <5>1. first = d.start[list]
          BY <2>5, <4>1
        <5>2. QED
          BY <1>2, <3>1, <4>1, <5>1 DEF Listed
      <4>2. CASE left # Nil
        <5>1. left \in X
          BY <3>2, <4>2
        <5>2. first = added.heap[left].right /\ added.heap[left] = d.heap[left]
          BY <3>3, <4>2, <5>1
        <5>3. QED
          BY <3>3, <5>1, <5>2
      <4>3. QED
        BY <4>1, <4>2
    <3> HIDE DEF first
    <3>5. Follows(added, first, cands, X)
      <4> HIDE DEF X
      <4> QED BY <2>3, <2>4, <2>6, <3>3, <3>4, chainFollows
    <3> HIDE DEF cands
    <3>6. Follows(d, first, cands, X)
      <4>1. cands \in Seq(X) /\ Len(cands) \in Nat /\ \A i \in 1 .. Len(cands) : cands[i] \in X
        <5> HIDE DEF X
        <5> QED BY <3>5 DEF Follows
      <4>2. \A i \in 1 .. Len(cands) : added.heap[cands[i]] = d.heap[cands[i]]
        BY <3>3, <4>1
      <4> HIDE DEF X
      <4>3. /\ cands \in Seq(X) /\ first = Nil => cands = <<>>
            /\ first # Nil => Len(cands) > 0 /\ cands[1] = first
        BY <3>5 DEF Follows
      <4>4. \A i \in 1 .. Len(cands) - 1 : d.heap[cands[i]].right = cands[i + 1]
        <5>1. \A i \in 1 .. Len(cands) - 1 : added.heap[cands[i]].right = cands[i + 1]
          BY <3>5 DEF Follows
        <5>2. \A i \in 1 .. Len(cands) - 1 : i \in 1 .. Len(cands)
          BY <4>1
        <5>3. QED
          BY <4>2, <5>1, <5>2
      <4>5. Len(cands) > 0 => d.heap[cands[Len(cands)]].right = Nil
        <5>1. Len(cands) > 0 => added.heap[cands[Len(cands)]].right = Nil
          BY <3>5 DEF Follows
        <5>2. Len(cands) > 0 => Len(cands) \in 1 .. Len(cands)
          BY <4>1
        <5>3. QED
          BY <4>2, <5>1, <5>2
      <4>6. QED
        BY <3>5, <4>3, <4>4, <4>5 DEF Follows
    <3>7. at \in 0 .. Len(cands)
      <4> DEFINE I == { i \in 1 .. Len(cands) : lssIsBefore(it, added.heap[cands[i]]) }
      <4>1. at = IF I # {} THEN Min(I) ELSE 0
        BY DEF SelectInSeq
      <4>2. Len(cands) \in Nat
        <5> HIDE DEF X
        <5> QED BY <3>6 DEF Follows
      <4>3. I \subseteq 1 .. Len(cands) /\ I \subseteq Nat
        BY <4>2
      <4> HIDE DEF I, at
      <4>4. I # {} => Min(I) \in I
        BY <4>3, LeastOf
      <4>5. CASE I # {}
        <5>1. at = Min(I) /\ Min(I) \in 1 .. Len(cands)
          BY <4>1, <4>3, <4>4, <4>5
        <5>2. QED
          BY <4>2, <5>1
      <4>6. CASE I = {}
        BY <4>1, <4>2, <4>6
      <4>7. QED
        BY <4>5, <4>6
    <3> HIDE DEF at
    <3>8. left \in {Nil} \cup X
      BY <3>2
    <3>9. from \in {Nil} \cup X /\ right \in {Nil} \cup X /\ (from # Nil => rank[right] < rank[from])
      <4> DEFINE p == prev
                 f == from
                 t == right
      <4>1. Slot(cands, left, at, p, f, t)
        BY DEF Slot
      <4>0. X \subseteq Refs(d)
        OBVIOUS
      <4> HIDE DEF p, f, t, X
      <4>2. f \in {Nil} \cup X /\ t \in {Nil} \cup X /\ (f # Nil => rank[t] < rank[f])
        BY <1>2, <1>3, <3>4, <3>6, <3>7, <3>8, <4>0, <4>1, SlotIsBetween
      <4>3. QED
        BY <4>2 DEF p, f, t
    <3>10. /\ y \in ItemType /\ y.id = x.id /\ y.str = x.str /\ y.oleft = x.oleft /\ y.list = list
           /\ y.deleted = x.deleted /\ y.len = x.len /\ y.right = x.right
      BY <2>1, <3>1 DEF ItemType
    <3>11. e = link(addItem(d, y), n, from, right, y.list)
      <4>1. [added EXCEPT !.heap[n].list = list] = addItem(d, y)
        <5> DEFINE last == n
        <5>1. Lists(d, x, list, added, y, last)
          BY DEF Lists, added
        <5> HIDE DEF y, last
        <5>3. [added EXCEPT !.heap[last].list = list] = addItem(d, y)
          BY <1>2, <2>1, <3>1, <5>1, addItemListed
        <5>4. QED
          BY <5>3 DEF last
      <4>2. getItem(d, it.id) = Nil
        BY <1>4, <1>6
      <4> HIDE DEF from, right, y
      <4>3. QED
        BY <2>10, <3>10, <4>1, <4>2
    <3> HIDE DEF y, from, right, e
    <3>12. Fits(d, y)
      BY <2>2, <3>10 DEF Fits
    <3>13. Grows(d, e, y) /\ Sound(e)
      <4>1. /\ from \in {Nil} \cup Refs(d) /\ right \in {Nil} \cup Refs(d)
            /\ (from # Nil => d.heap[from].list = y.list /\ rank[right] < rank[from])
            /\ (right # Nil => d.heap[right].list = y.list)
        BY <3>9, <3>10
      <4>2. e = link(addItem(d, y), Len(d.heap) + 1, from, right, y.list)
        BY <3>11
      <4>3. y.list \in List
        BY <3>1, <3>10
      <4>4. QED
        BY <1>2, <1>3, <3>12, <4>1, <4>2, <4>3, linkSound
    <3>14. Joins(d, e, it)
      BY <2>1, <3>10, <3>12, <3>13 DEF Joins
    <3>16. left = OriginRef(d, it.oleft)
      <4>1. n \notin {Nil} \cup Refs(d)
        BY <2>6
      <4>2. QED
        BY <2>12, <3>2, <4>1
    <3>17. /\ at # 0 => lssIsBefore(it, d.heap[cands[at]])
           /\ \A i \in 1 .. Len(cands) : at = 0 \/ i < at => ~lssIsBefore(it, d.heap[cands[i]])
      <4> DEFINE I == { i \in 1 .. Len(cands) : lssIsBefore(it, added.heap[cands[i]]) }
      <4>1. at = IF I # {} THEN Min(I) ELSE 0
        BY DEF SelectInSeq, at
      <4>2. Len(cands) \in Nat /\ \A i \in 1 .. Len(cands) : cands[i] \in X
        <5> HIDE DEF X
        <5> QED BY <3>6 DEF Follows
      <4>3. I \subseteq 1 .. Len(cands) /\ I \subseteq Nat
        BY <4>2
      <4>4. \A i \in 1 .. Len(cands) : i \in I <=> lssIsBefore(it, d.heap[cands[i]])
        BY <3>3, <4>2
      <4> HIDE DEF I
      <4>5. I # {} => Min(I) \in I /\ \A i \in I : Min(I) <= i
        BY <4>3, LeastOf
      <4>6. QED
        BY <3>7, <4>1, <4>2, <4>3, <4>4, <4>5
    <3>18. Slot(cands, left, at, prev, from, right)
      BY DEF Slot, from, right
    <3>19. Linked(d, e, y, from, right)
      <4>1. from \in {Nil} \cup Refs(d) /\ right \in {Nil} \cup Refs(d)
        BY <3>9
      <4>2. e = link(addItem(d, y), Len(d.heap) + 1, from, right, y.list)
        BY <3>11
      <4>3. y.list \in List
        BY <3>1, <3>10
      <4>4. QED
        BY <1>2, <3>12, <4>1, <4>2, <4>3, linkFields
    <3>20. Puts(d, e, it, y)
      <4>1. first = IF left = Nil THEN d.start[y.list] ELSE d.heap[left].right
        BY <2>5, <3>4, <3>10 DEF first
      <4>2. Follows(d, first, cands, OfList(d, y.list))
        BY <3>6, <3>10 DEF OfList
      <4> DEFINE p == prev
      <4>3. Slot(cands, left, at, p, from, right)
        BY <3>18
      <4> HIDE DEF p, X
      <4>4. Queued(d, e, it, y, left)
        BY <3>7, <3>17, <3>19, <4>1, <4>2, <4>3 DEF Queued
      <4>5. left \in {Nil} \cup OfList(d, y.list)
        BY <3>2, <3>10 DEF OfList
      <4>6. y.list = IF left = Nil THEN it.list ELSE d.heap[left].list
        <5>1. left = Nil => list = it.list
          BY DEF list
        <5>2. QED
          BY <3>2, <3>10, <5>1
      <4>7. /\ Fits(d, y) /\ y.id = it.id /\ y.str = it.str /\ y.oleft = it.oleft
            /\ y.deleted = isDeleted(d, it.id) /\ y.list # NoList
        BY <2>1, <2>10, <3>10, <3>12
      <4>8. QED
        BY <3>16, <4>4, <4>5, <4>6, <4>7 DEF Puts
    <3>21. integrateItem(d, it) = e
      BY <1>1
    <3>15. QED
      BY <1>6, <3>13, <3>14, <3>20, <3>21
  <2>11. QED
    BY <2>9, <2>10
<1>7. QED
  BY <1>5, <1>6

\* e is d with the items S marked deleted.
Marks(d, e, S) ==
    /\ e \in Docs
    /\ Len(e.heap) = Len(d.heap)
    /\ \A k \in Refs(d) : /\ SameItem(e.heap[k], d.heap[k]) /\ e.heap[k].right = d.heap[k].right
                          /\ e.heap[k].deleted <=> d.heap[k].deleted \/ k \in S
    /\ e.store = d.store /\ e.start = d.start /\ e.ds = d.ds /\ e.panic = d.panic

\* Marking items deleted keeps a document sound.
LEMMA markDeletedSound ==
  ASSUME NEW d, Sound(d), NEW S
  PROVE  Marks(d, markDeleted(d, S), S) /\ Sound(markDeleted(d, S))
<1> DEFINE h == [r \in DOMAIN d.heap |-> [d.heap[r] EXCEPT !.deleted = @ \/ r \in S]]
           e == markDeleted(d, S)
<1>1. /\ d \in Docs /\ d.heap \in Seq(ItemType) /\ Len(d.heap) \in Nat /\ DOMAIN d.heap = Refs(d)
      /\ \A k \in Refs(d) : d.heap[k] \in ItemType
  BY DocFields DEF Sound, Whole
<1>2. ASSUME NEW x \in ItemType, NEW b
      PROVE  [x EXCEPT !.deleted = x.deleted \/ b] \in ItemType
             /\ SameItem([x EXCEPT !.deleted = x.deleted \/ b], x)
             /\ [x EXCEPT !.deleted = x.deleted \/ b].right = x.right
             /\ ([x EXCEPT !.deleted = x.deleted \/ b].deleted <=> x.deleted \/ b)
  <2>1. (x.deleted \/ b) \in BOOLEAN
    OBVIOUS
  <2> DEFINE v == x.deleted \/ b
  <2>2. v \in BOOLEAN /\ (v <=> x.deleted \/ b)
    BY <2>1
  <2> HIDE DEF v
  <2>3. /\ [x EXCEPT !.deleted = v] \in ItemType /\ SameItem([x EXCEPT !.deleted = v], x)
        /\ [x EXCEPT !.deleted = v].right = x.right /\ [x EXCEPT !.deleted = v].deleted = v
    BY <2>2 DEF ItemType, SameItem
  <2>4. QED
    BY <2>2, <2>3 DEF v
<1>3. e = [d EXCEPT !.heap = h]
  BY <1>1 DEF markDeleted, Docs, h
<1>4. ASSUME NEW k \in Refs(d)
      PROVE  /\ h[k] \in ItemType /\ SameItem(h[k], d.heap[k]) /\ h[k].right = d.heap[k].right
             /\ h[k].deleted <=> d.heap[k].deleted \/ k \in S
  <2>1. h[k] = [d.heap[k] EXCEPT !.deleted = d.heap[k].deleted \/ k \in S]
    BY <1>1
  <2>2. d.heap[k] \in ItemType
    BY <1>1
  <2> DEFINE x == d.heap[k]
             b == k \in S
  <2>3. x \in ItemType /\ h[k] = [x EXCEPT !.deleted = x.deleted \/ b]
    BY <2>1, <2>2
  <2> HIDE DEF x, h, b
  <2>4. h[k] \in ItemType /\ SameItem(h[k], x) /\ h[k].right = x.right /\ (h[k].deleted <=> x.deleted \/ b)
    BY <1>2, <2>3
  <2>5. QED
    BY <2>4 DEF x, b
<1>5. h \in Seq(ItemType) /\ Len(h) = Len(d.heap)
  <2>1. DOMAIN h = 1 .. Len(d.heap) /\ h \in [1 .. Len(d.heap) -> ItemType]
    BY <1>1, <1>4 DEF Refs
  <2> HIDE DEF h
  <2>2. QED
    BY <1>1, <2>1
<1> HIDE DEF h
<1>6. /\ e \in Docs /\ e.heap = h
      /\ e.store = d.store /\ e.start = d.start /\ e.ds = d.ds /\ e.panic = d.panic
  BY <1>1, <1>3, <1>5 DEF Docs
<1>7. Marks(d, e, S)
  BY <1>4, <1>5, <1>6 DEF Marks
<1> HIDE DEF e
<1>8. /\ Refs(e) = Refs(d) /\ Len(e.heap) = Len(d.heap)
      /\ \A k \in Refs(d) : /\ e.heap[k].id = d.heap[k].id /\ e.heap[k].len = d.heap[k].len
                            /\ e.heap[k].str = d.heap[k].str /\ e.heap[k].list = d.heap[k].list
                            /\ e.heap[k].right = d.heap[k].right
  BY <1>5, <1>6, <1>7 DEF Marks, Refs, SameItem
<1>9. Whole(e)
  <2>1. Whole(d)
    BY DEF Sound
  <2>2. QED
    BY <1>6, <1>8, <2>1 DEF Whole
<1>10. Listed(e)
  <2>1. Listed(d)
    BY DEF Sound
  <2>2. QED
    BY <1>6, <1>8, <2>1 DEF Listed
<1>11. PICK rank \in [0 .. Len(d.heap) -> Nat] : Ranked(d, rank)
  BY DEF Sound
<1>12. rank \in [0 .. Len(e.heap) -> Nat] /\ Ranked(e, rank)
  BY <1>8, <1>11 DEF Ranked
<1>13. QED
  BY <1>7, <1>9, <1>10, <1>12 DEF e, Sound

\* The IDs a range covers.
LEMMA CoveredIds ==
  ASSUME NEW range \in Ranges, NEW id \in IdType
  PROVE  id \in Covered(range) <=> /\ id.client = range.client
                                   /\ range.clock <= id.clock /\ id.clock < range.clock + range.len
<1>1. range.client \in Client /\ range.clock \in Nat /\ range.len \in Nat /\ id.clock \in Nat
  BY DEF Ranges, IdType
<1>2. ASSUME id.client = range.client, range.clock <= id.clock, id.clock < range.clock + range.len
      PROVE  id \in Covered(range)
  <2>1. id.clock - range.clock \in 0 .. range.len - 1 /\ range.clock + (id.clock - range.clock) = id.clock
    BY <1>1, <1>2
  <2>2. id = [client |-> range.client, clock |-> range.clock + (id.clock - range.clock)]
    BY <1>2, <2>1 DEF IdType
  <2>3. QED
    BY <2>1, <2>2 DEF Covered
<1>3. ASSUME id \in Covered(range)
      PROVE  id.client = range.client /\ range.clock <= id.clock /\ id.clock < range.clock + range.len
  <2>1. PICK k \in 0 .. range.len - 1 : id = [client |-> range.client, clock |-> range.clock + k]
    BY <1>3 DEF Covered
  <2>2. QED
    BY <1>1, <2>1
<1>4. QED
  BY <1>2, <1>3

\* No item has to be split at a clock.
LEMMA splitIsNothing ==
  ASSUME NEW d, Whole(d), NEW c \in Client, NEW clock \in Nat
  PROVE  splitAtClock(d, c, clock) = d
<1> DEFINE id == [client |-> c, clock |-> clock]
           r == getItem(d, id)
<1>1. id \in IdType
  BY DEF IdType
<1>2. r = (IF Held(d, id) THEN RefOf(d, id) ELSE Nil) /\ (Held(d, id) => d.heap[RefOf(d, id)].id = id)
  <2> HIDE DEF id
  <2> QED BY <1>1, getItemFinds
<1>3. r # Nil => clock - d.heap[r].id.clock = 0
  <2>1. r # Nil => d.heap[r].id = id
    <3> HIDE DEF id, r
    <3> QED BY <1>2
  <2>2. QED
    BY <2>1
<1> HIDE DEF r
<1>4. splitAtClock(d, c, clock) =
         IF r = Nil THEN d
         ELSE IF clock - d.heap[r].id.clock = 0 \/ clock - d.heap[r].id.clock >= Len(d.heap[r].str) THEN d
         ELSE insertIntoStore(cut(d, r, clock - d.heap[r].id.clock), Fresh(d))
  BY DEF splitAtClock, r
<1>5. QED
  BY <1>3, <1>4

\* A range marks the items it covers.
LEMMA applyDeleteRangeMarks ==
  ASSUME NEW d, Sound(d), NEW range \in Ranges
  PROVE  LET e == applyDeleteRange(d, range)
         IN  /\ Sound(e)
             /\ \E S : Marks(d, e, S) /\ \A k \in Refs(d) : k \in S <=> d.heap[k].id \in Covered(range)
<1> DEFINE c == range.client
           end == range.clock + range.len
           split == splitAtClock(splitAtClock(d, c, range.clock), c, end)
           s == split.store[c]
           stop == SelectInSeq(s, LAMBDA r : split.heap[r].id.clock >= end)
           upto == IF stop = 0 THEN Len(s) ELSE stop - 1
           S == { r \in { s[k] : k \in 1 .. upto } : split.heap[r].id.clock >= range.clock }
<1>1. c \in Client /\ range.clock \in Nat /\ range.len \in Nat /\ end \in Nat
  BY DEF Ranges
<1>2. split = d
  <2> HIDE DEF c, end
  <2>0. Whole(d)
    BY DEF Sound
  <2>1. splitAtClock(d, c, range.clock) = d /\ splitAtClock(d, c, end) = d
    BY <1>1, <2>0, splitIsNothing
  <2>2. QED
    BY <2>1
<1>3. applyDeleteRange(d, range) = markDeleted(split, S)
  BY DEF applyDeleteRange
<1> HIDE DEF split
<1>0. Sound(split) /\ Whole(split) /\ split \in Docs /\ Len(s) \in Nat
  <2>1. Sound(split) /\ Whole(split) /\ split \in Docs
    BY <1>2 DEF Sound, Whole
  <2>2. QED
    BY <1>1, <2>1, DocFields
<1>4. /\ \A i \in 1 .. Len(s) : s[i] \in Refs(split) /\ split.heap[s[i]].id = [client |-> c, clock |-> i - 1]
      /\ \A i \in 1 .. Len(s) : split.heap[s[i]].id.clock = i - 1
  <2>1. \A i \in 1 .. Len(s) : s[i] \in Refs(split) /\ split.heap[s[i]].id = [client |-> c, clock |-> i - 1]
    BY <1>0, <1>1 DEF Whole
  <2>2. ASSUME NEW i \in 1 .. Len(s) PROVE split.heap[s[i]].id.clock = i - 1
    <3> HIDE DEF s
    <3>1. split.heap[s[i]].id = [client |-> c, clock |-> i - 1]
      BY <2>1
    <3>2. QED
      BY <3>1
  <2> HIDE DEF s
  <2>3. QED
    BY <2>1, <2>2
<1>5. \A i \in 1 .. Len(s) : i \in 1 .. upto <=> i - 1 < end
  <2> DEFINE I == { i \in 1 .. Len(s) : split.heap[s[i]].id.clock >= end }
  <2>1. stop = IF I # {} THEN Min(I) ELSE 0
    BY DEF SelectInSeq
  <2>2. I \subseteq Nat /\ \A i \in 1 .. Len(s) : i \in I <=> i - 1 >= end
    <3> HIDE DEF s
    <3>1. I \subseteq 1 .. Len(s)
      OBVIOUS
    <3>2. \A i \in 1 .. Len(s) : i \in I <=> i - 1 >= end
      BY <1>4
    <3> HIDE DEF I
    <3>3. QED
      BY <1>0, <1>1, <3>1, <3>2
  <2>3. I \subseteq 1 .. Len(s)
    OBVIOUS
  <2> HIDE DEF I, s, stop, end
  <2>4. CASE I = {}
    <3>1. upto = Len(s)
      BY <2>1, <2>4
    <3>2. \A i \in 1 .. Len(s) : ~(i - 1 >= end)
      BY <2>2, <2>4
    <3>3. QED
      BY <1>0, <1>1, <3>1, <3>2
  <2>5. CASE I # {}
    <3>1. Min(I) \in I /\ \A i \in I : Min(I) <= i
      BY <2>2, <2>5, LeastOf
    <3>2. stop = Min(I) /\ stop \in 1 .. Len(s)
      BY <2>1, <2>3, <2>5, <3>1
    <3>3. upto = stop - 1 /\ stop - 1 >= end /\ \A i \in 1 .. Len(s) : i - 1 >= end => stop <= i
      BY <1>0, <1>1, <2>2, <3>1, <3>2
    <3> HIDE DEF upto
    <3>4. QED
      BY <1>0, <1>1, <3>2, <3>3
  <2>6. QED
    BY <2>4, <2>5
<1>6. ASSUME NEW k \in Refs(split)
      PROVE  k \in S <=> split.heap[k].id \in Covered(range)
  <2> DEFINE id == split.heap[k].id
  <2>1. id \in IdType /\ id.clock \in Nat /\ id.client \in Client
    BY <1>0, <1>1, DocFields, ItemFields
  <2>2. id.clock < Len(split.store[id.client]) /\ split.store[id.client][id.clock + 1] = k
    BY <1>0, <1>1 DEF Whole
  <2>3. id \in Covered(range) <=> id.client = c /\ range.clock <= id.clock /\ id.clock < end
    <3> HIDE DEF id
    <3> QED BY <2>1, CoveredIds
  <2>4. ASSUME k \in S PROVE id.client = c /\ range.clock <= id.clock /\ id.clock < end
    <3>1. PICK i \in 1 .. upto : k = s[i]
      BY <2>4
    <3>2. id.clock >= range.clock
      BY <2>4
    <3>3. i \in 1 .. Len(s)
      <4>1. upto <= Len(s) /\ upto \in Int
        <5> DEFINE I == { j \in 1 .. Len(s) : split.heap[s[j]].id.clock >= end }
        <5>1. stop = IF I # {} THEN Min(I) ELSE 0
          BY DEF SelectInSeq
        <5>2. I \subseteq 1 .. Len(s) /\ I \subseteq Nat
          BY <1>0, <1>1
        <5> HIDE DEF I, s, stop
        <5>3. I # {} => Min(I) \in 1 .. Len(s)
          BY <5>2, LeastOf
        <5>4. stop \in 0 .. Len(s)
          BY <1>0, <1>1, <5>1, <5>3
        <5>5. QED
          BY <1>0, <1>1, <5>4
      <4> HIDE DEF upto, s
      <4>2. QED
        BY <1>0, <1>1, <4>1
    <3>4. id = [client |-> c, clock |-> i - 1] /\ i - 1 < end
      <4>1. i - 1 < end
        <5> HIDE DEF upto, s, end
        <5> QED BY <1>5, <3>3
      <4>2. split.heap[s[i]].id = [client |-> c, clock |-> i - 1]
        <5> HIDE DEF s
        <5> QED BY <1>4, <3>3
      <4>3. QED
        BY <3>1, <4>1, <4>2
    <3> HIDE DEF id, c, end
    <3>5. QED
      BY <1>0, <1>1, <2>1, <3>2, <3>4
  <2>5. ASSUME id.client = c, range.clock <= id.clock, id.clock < end PROVE k \in S
    <3>1. id.clock + 1 \in 1 .. Len(s) /\ s[id.clock + 1] = k
      BY <1>0, <1>1, <2>1, <2>2, <2>5
    <3>2. id.clock + 1 \in 1 .. upto
      <4>1. (id.clock + 1) - 1 < end
        <5> HIDE DEF id, end
        <5> QED BY <2>1, <2>5
      <4> HIDE DEF id, end, upto, s
      <4>2. QED
        BY <1>5, <3>1, <4>1
    <3>3. split.heap[k].id.clock >= range.clock
      <4>1. id.clock >= range.clock
        <5> HIDE DEF id
        <5> QED BY <1>0, <1>1, <2>1, <2>5
      <4>2. QED
        BY <4>1
    <3> DEFINE m == id.clock + 1
    <3>4. m \in 1 .. upto /\ s[m] = k
      BY <3>1, <3>2
    <3> HIDE DEF m, upto, s
    <3>5. QED
      BY <3>3, <3>4
  <2>6. QED
    BY <2>3, <2>4, <2>5
<1> HIDE DEF S
<1>7. Marks(split, markDeleted(split, S), S) /\ Sound(markDeleted(split, S))
  BY <1>0, markDeletedSound
<1>8. QED
  BY <1>2, <1>3, <1>6, <1>7

\* e has the items of d, and maybe more.
Extends(d, e) ==
    Len(d.heap) <= Len(e.heap) /\ \A k \in Refs(d) : SameItem(e.heap[k], d.heap[k])

\* What is held is held where it was.
LEMMA ExtendsKeeps ==
  ASSUME NEW d, Whole(d), NEW e, Whole(e), Extends(d, e)
  PROVE  /\ \A c \in Client : Len(d.store[c]) <= Len(e.store[c])
         /\ \A id \in IdType : Held(d, id) => Held(e, id) /\ RefOf(e, id) = RefOf(d, id)
         /\ Refs(d) \subseteq Refs(e)
         /\ \A k \in Refs(e) : k \notin Refs(d) => ~Held(d, e.heap[k].id)
<1>1. /\ d \in Docs /\ e \in Docs /\ Len(d.heap) \in Nat /\ Len(e.heap) \in Nat
      /\ \A c \in Client : Len(d.store[c]) \in Nat /\ Len(e.store[c]) \in Nat
  BY DocFields DEF Whole
<1>2. Refs(d) \subseteq Refs(e)
  BY <1>1 DEF Extends, Refs
<1>3. ASSUME NEW id \in IdType, Held(d, id) PROVE Held(e, id) /\ RefOf(e, id) = RefOf(d, id)
  <2> DEFINE k == RefOf(d, id)
  <2>1. k \in Refs(d) /\ d.heap[k].id = id
    <3> HIDE DEF k
    <3>1. RefOf(d, id) \in Refs(d) /\ d.heap[RefOf(d, id)].id = id
      BY <1>3, getItemFinds
    <3>2. QED
      BY <3>1 DEF k
  <2> HIDE DEF k
  <2>2. k \in Refs(e) /\ e.heap[k].id = id
    BY <1>2, <2>1 DEF Extends, SameItem
  <2>3. id.clock < Len(e.store[id.client]) /\ e.store[id.client][id.clock + 1] = k
    BY <2>2 DEF Whole
  <2>4. QED
    BY <2>3 DEF Held, RefOf, k
<1>4. ASSUME NEW c \in Client PROVE Len(d.store[c]) <= Len(e.store[c])
  <2>1. CASE Len(d.store[c]) = 0
    BY <1>1, <2>1
  <2>2. CASE Len(d.store[c]) # 0
    <3> DEFINE id == [client |-> c, clock |-> Len(d.store[c]) - 1]
    <3>1. id \in IdType /\ id.client = c /\ id.clock = Len(d.store[c]) - 1
      BY <1>1, <2>2 DEF IdType
    <3> HIDE DEF id
    <3>2. Held(d, id)
      BY <1>1, <3>1 DEF Held
    <3>3. Held(e, id)
      BY <1>3, <3>1, <3>2
    <3>4. QED
      BY <1>1, <3>1, <3>3 DEF Held
  <2>3. QED
    BY <2>1, <2>2
<1>5. ASSUME NEW k \in Refs(e), k \notin Refs(d) PROVE ~Held(d, e.heap[k].id)
  <2> DEFINE id == e.heap[k].id
  <2>1. id \in IdType /\ RefOf(e, id) = k
    <3>1. e.heap[k] \in ItemType
      BY <1>1, DocFields
    <3>2. QED
      BY <3>1, ItemFields DEF Whole, RefOf
  <2>2. Held(d, id) => RefOf(d, id) \in Refs(d)
    <3> HIDE DEF id
    <3> QED BY <2>1, getItemFinds
  <2>3. QED
    BY <1>3, <1>5, <2>1, <2>2
<1>6. QED
  BY <1>2, <1>3, <1>4, <1>5

\* The ID before an ID.
Before(id) == [client |-> id.client, clock |-> id.clock - 1]

\* The items of an update, each after the one before it, or that one is held.
Readable(d, u) ==
    \A j \in 1 .. Len(u) :
        /\ Wire(u[j])
        /\ \/ u[j].id.clock = 0
           \/ Held(d, Before(u[j].id))
           \/ \E i \in 1 .. j - 1 : u[i].id = Before(u[j].id)

\* e is d with the first m items of u.
Merged(d, e, u, m) ==
    /\ Sound(e)
    /\ Extends(d, e)
    /\ e.ds = d.ds
    /\ \A k \in Refs(d) : e.heap[k].deleted = d.heap[k].deleted
    /\ \A k \in Refs(e) : k \notin Refs(d) =>
          \E j \in 1 .. m : /\ e.heap[k].id = u[j].id /\ e.heap[k].str = u[j].str
                            /\ e.heap[k].oleft = u[j].oleft
                            /\ e.heap[k].deleted = isDeleted(d, u[j].id)
    /\ \A j \in 1 .. m : Held(e, u[j].id)

\* The next item of an update goes to the end of its client's slice, or is held.
LEMMA NextFits ==
  ASSUME NEW d, Sound(d), NEW u \in Seq(ItemType), Readable(d, u),
         NEW m \in Nat, m + 1 <= Len(u), NEW e, Merged(d, e, u, m)
  PROVE  Wire(u[m + 1]) /\ u[m + 1].id.clock <= Len(e.store[u[m + 1].id.client])
<1> DEFINE n == m + 1
           it == u[n]
<1>1. n \in 1 .. Len(u) /\ Len(u) \in Nat /\ n \in Nat /\ n - 1 = m
  OBVIOUS
<1>2. Wire(it) /\ it \in ItemType /\ it.id \in IdType /\ it.id.client \in Client /\ it.id.clock \in Nat
  <2>1. Wire(it)
    BY <1>1 DEF Readable
  <2>2. it \in ItemType
    BY <2>1 DEF Wire
  <2> HIDE DEF it
  <2>3. QED
    BY <2>1, <2>2, ItemFields
<1>3. Whole(d) /\ Whole(e) /\ Extends(d, e) /\ d \in Docs /\ e \in Docs
  BY DEF Sound, Merged, Whole
<1> HIDE DEF n
<1>4. it.id.clock <= Len(e.store[it.id.client])
  <2>0. Len(e.store[it.id.client]) \in Nat
    BY <1>2, <1>3, DocFields
  <2>1. CASE it.id.clock = 0
    BY <2>0, <2>1
  <2>2. CASE it.id.clock # 0
    <3> DEFINE b == Before(it.id)
    <3>1. b \in IdType /\ b.client = it.id.client /\ b.clock = it.id.clock - 1
      BY <1>2, <2>2 DEF Before, IdType
    <3>2. Held(d, b) \/ \E i \in 1 .. n - 1 : u[i].id = b
      BY <1>1, <2>2 DEF Readable
    <3> HIDE DEF b
    <3>3. Held(d, b) => Held(e, b)
      BY <1>3, <3>1, ExtendsKeeps
    <3>4. (\E i \in 1 .. n - 1 : u[i].id = b) => Held(e, b)
      BY <1>1 DEF Merged
    <3>5. b.clock < Len(e.store[b.client])
      BY <3>2, <3>3, <3>4 DEF Held
    <3>6. QED
      BY <1>2, <2>0, <3>1, <3>5
  <2>3. QED
    BY <2>1, <2>2
<1>5. QED
  BY <1>2, <1>4 DEF it, n

\* One more item.
LEMMA integrateItemMerges ==
  ASSUME NEW d, Sound(d), NEW u \in Seq(ItemType), Readable(d, u),
         NEW m \in Nat, m + 1 <= Len(u), NEW e, Merged(d, e, u, m)
  PROVE  Merged(d, integrateItem(e, u[m + 1]), u, m + 1)
<1> DEFINE n == m + 1
           it == u[n]
           f == integrateItem(e, it)
<1>1. n \in 1 .. Len(u) /\ Len(u) \in Nat /\ n \in Nat /\ n - 1 = m
  OBVIOUS
<1>2. Wire(it) /\ it \in ItemType /\ it.id \in IdType /\ it.id.client \in Client /\ it.id.clock \in Nat
  <2>1. Wire(it)
    BY <1>1 DEF Readable
  <2>2. it \in ItemType
    BY <2>1 DEF Wire
  <2> HIDE DEF it
  <2>3. QED
    BY <2>1, <2>2, ItemFields
<1>3. Whole(d) /\ Whole(e) /\ Sound(e) /\ Extends(d, e) /\ d \in Docs /\ e \in Docs
  BY DEF Sound, Merged, Whole
<1> HIDE DEF n
<1>4. it.id.clock <= Len(e.store[it.id.client])
  BY NextFits DEF n
<1> HIDE DEF it
<1>5. /\ Held(e, it.id) => f = e
      /\ ~Held(e, it.id) => Sound(f) /\ Joins(e, f, it)
  BY <1>2, <1>3, <1>4, integrateItemSound
<1>6. \A j \in 1 .. n : j \in 1 .. m \/ j = n
  BY <1>1
<1>7. CASE Held(e, it.id)
  <2>1. f = e
    BY <1>5, <1>7
  <2>2. \A j \in 1 .. n : Held(e, u[j].id)
    BY <1>6, <1>7 DEF Merged, it
  <2>3. ASSUME NEW k \in Refs(e), k \notin Refs(d)
        PROVE  \E j \in 1 .. n : /\ e.heap[k].id = u[j].id /\ e.heap[k].str = u[j].str
                                 /\ e.heap[k].oleft = u[j].oleft
                                 /\ e.heap[k].deleted = isDeleted(d, u[j].id)
    <3>1. PICK j \in 1 .. m : /\ e.heap[k].id = u[j].id /\ e.heap[k].str = u[j].str
                              /\ e.heap[k].oleft = u[j].oleft
                              /\ e.heap[k].deleted = isDeleted(d, u[j].id)
      BY <2>3 DEF Merged
    <3>2. j \in 1 .. n
      BY <1>1
    <3>3. QED
      BY <3>1, <3>2
  <2>4. Merged(d, e, u, n)
    BY <2>2, <2>3 DEF Merged
  <2>5. QED
    BY <2>1, <2>4 DEF n, it
<1>8. CASE ~Held(e, it.id)
  <2> HIDE DEF f
  <2>1. Sound(f) /\ Whole(f)
    BY <1>5, <1>8 DEF Sound
  <2>2. PICK x \in ItemType : /\ Fits(e, x) /\ Grows(e, f, x)
                              /\ x.id = it.id /\ x.str = it.str /\ x.oleft = it.oleft
                              /\ x.deleted = isDeleted(e, it.id)
    BY <1>5, <1>8 DEF Joins
  <2>3. Len(d.heap) \in Nat /\ Len(e.heap) \in Nat /\ Len(d.heap) <= Len(e.heap)
    BY <1>3, DocFields DEF Extends
  <2>4. /\ Refs(f) = Refs(e) \cup {Len(e.heap) + 1} /\ Refs(d) \subseteq Refs(e)
        /\ Len(f.heap) = Len(e.heap) + 1
    BY <2>2, <2>3 DEF Refs, Grows
  <2>5. /\ \A k \in Refs(e) : SameItem(f.heap[k], e.heap[k]) /\ f.heap[k].deleted = e.heap[k].deleted
        /\ f.ds = e.ds
        /\ SameItem(f.heap[Len(e.heap) + 1], x) /\ f.heap[Len(e.heap) + 1].deleted = x.deleted
    BY <2>2 DEF Grows
  <2>6. Extends(d, f) /\ Extends(e, f)
    BY <1>3, <2>3, <2>4, <2>5 DEF Extends, SameItem
  <2>7. isDeleted(e, it.id) = isDeleted(d, it.id)
    BY DEF isDeleted, Merged
  <2>8. ASSUME NEW k \in Refs(f), k \notin Refs(d)
        PROVE  \E j \in 1 .. n : /\ f.heap[k].id = u[j].id /\ f.heap[k].str = u[j].str
                                 /\ f.heap[k].oleft = u[j].oleft
                                 /\ f.heap[k].deleted = isDeleted(d, u[j].id)
    <3>1. CASE k \in Refs(e)
      <4>1. PICK j \in 1 .. m : /\ e.heap[k].id = u[j].id /\ e.heap[k].str = u[j].str
                                /\ e.heap[k].oleft = u[j].oleft
                                /\ e.heap[k].deleted = isDeleted(d, u[j].id)
        BY <2>8, <3>1 DEF Merged
      <4>2. j \in 1 .. n
        BY <1>1
      <4>3. QED
        BY <2>5, <3>1, <4>1, <4>2 DEF SameItem
    <3>2. CASE k = Len(e.heap) + 1
      <4>1. n \in 1 .. n
        BY <1>1
      <4>2. /\ f.heap[k].id = it.id /\ f.heap[k].str = it.str /\ f.heap[k].oleft = it.oleft
            /\ f.heap[k].deleted = isDeleted(d, it.id)
        BY <2>2, <2>5, <2>7, <3>2 DEF SameItem
      <4>3. QED
        BY <4>1, <4>2 DEF it
    <3>3. QED
      BY <2>4, <3>1, <3>2
  <2>9. ASSUME NEW j \in 1 .. n PROVE Held(f, u[j].id)
    <3>1. CASE j \in 1 .. m
      <4>1. Held(e, u[j].id)
        BY <3>1 DEF Merged
      <4>2. u[j].id \in IdType
        <5>1. j \in 1 .. Len(u)
          BY <1>1
        <5>2. u[j] \in ItemType
          BY <5>1
        <5>3. QED
          BY <5>2, ItemFields
      <4>3. QED
        BY <1>3, <2>1, <2>6, <4>1, <4>2, ExtendsKeeps
    <3>2. CASE j = n
      <4> DEFINE k == Len(e.heap) + 1
      <4>1. k \in Refs(f) /\ f.heap[k].id = it.id
        BY <2>2, <2>4, <2>5 DEF SameItem
      <4> HIDE DEF k
      <4>2. it.id.clock < Len(f.store[it.id.client])
        BY <2>1, <4>1 DEF Whole
      <4>3. QED
        BY <3>2, <4>2 DEF Held, it
    <3>3. QED
      BY <1>6, <3>1, <3>2
  <2>10. \A k \in Refs(d) : f.heap[k].deleted = d.heap[k].deleted
    BY <2>4, <2>5 DEF Merged
  <2>11. f.ds = d.ds
    BY <2>5 DEF Merged
  <2>12. Merged(d, f, u, n)
    BY <2>1, <2>6, <2>8, <2>9, <2>10, <2>11 DEF Merged
  <2>13. QED
    BY <2>12 DEF f, n, it
<1>9. QED
  BY <1>7, <1>8

\* h[n] is the document d after the first n turns of the loop over u.
Turns(h, d, u) ==
    /\ h \in [Nat -> Docs]
    /\ h[0] = d
    /\ \A n \in 1 .. Len(u) : h[n] = integrateItem(h[n - 1], u[n])
    /\ \A n \in 0 .. Len(u) : Merged(d, h[n], u, n)

\* The loop over the items of an update, turn by turn.
LEMMA integrateTurns ==
  ASSUME NEW d, Sound(d), NEW u \in Seq(ItemType), Readable(d, u)
  PROVE  \E h : Turns(h, d, u) /\ Loop(integrateItem, d, u) = h[Len(u)]
<1> DEFINE N == Len(u)
           Turn(a, n) == integrateItem(a, u[n])
           next == [p \in Docs \X Nat |-> IF p[2] < N /\ Turn(p[1], p[2] + 1) \in Docs
                                          THEN Turn(p[1], p[2] + 1) ELSE p[1]]
           Solves(g) == g = [n \in 0 .. N |-> IF n = 0 THEN d ELSE Turn(g[n - 1], n)]
           f == CHOOSE x : Solves(x)
<1>1. Loop(integrateItem, d, u) = f[N]
  BY DEF Loop
<1>2. N \in Nat /\ d \in Docs
  BY DEF Sound, Whole
<1>3. \A m \in Nat : m + 1 <= N => \A e : Merged(d, e, u, m) => Merged(d, Turn(e, m + 1), u, m + 1)
  BY integrateItemMerges
<1>4. \A m \in Nat : \A e : Merged(d, e, u, m) => e \in Docs
  BY DEF Merged, Sound, Whole
<1>5. Merged(d, d, u, 0)
  <2>1. Extends(d, d)
    BY <1>2, DocFields DEF Extends, SameItem
  <2>2. QED
    BY <2>1 DEF Merged
<1> HIDE DEF f, N, Turn
<1>6. next \in [Docs \X Nat -> Docs]
  OBVIOUS
<1>7. PICK h \in [Nat -> Docs] : Iterates(h, d, next)
  <2> HIDE DEF next
  <2> QED BY <1>2, <1>6, IterationExists
<1>8. ASSUME NEW n \in Nat, n < N, Turn(h[n], n + 1) \in Docs
      PROVE  h[n + 1] = Turn(h[n], n + 1)
  <2>1. h[n + 1] = next[<<h[n], n>>]
    <3> HIDE DEF next
    <3> QED BY <1>7 DEF Iterates
  <2>2. <<h[n], n>> \in Docs \X Nat
    OBVIOUS
  <2>3. QED
    BY <1>8, <2>1, <2>2
<1>9. h[0] = d
  BY <1>7 DEF Iterates
<1> HIDE DEF next
<1> DEFINE Good == { n \in Nat : n <= N => Merged(d, h[n], u, n) }
<1>10. \A n \in Nat : n \in Good
  <2>1. 0 \in Good
    BY <1>5, <1>9
  <2>2. ASSUME NEW n \in Nat, n \in Good PROVE n + 1 \in Good
    <3>1. SUFFICES ASSUME n + 1 <= N PROVE Merged(d, h[n + 1], u, n + 1)
      OBVIOUS
    <3>2. Merged(d, h[n], u, n) /\ n < N
      BY <1>2, <2>2, <3>1
    <3>3. Merged(d, Turn(h[n], n + 1), u, n + 1)
      BY <1>3, <3>1, <3>2
    <3>4. h[n + 1] = Turn(h[n], n + 1)
      BY <1>4, <1>8, <3>2, <3>3
    <3>5. QED
      BY <3>3, <3>4
  <2> HIDE DEF Good
  <2>3. QED
    BY <2>1, <2>2, Induction
<1>11. \A n \in Nat : n <= N => Merged(d, h[n], u, n)
  BY <1>10
<1>12. \A n \in 1 .. N : h[n] = Turn(h[n - 1], n)
  <2>1. ASSUME NEW n \in 1 .. N PROVE h[n] = Turn(h[n - 1], n)
    <3>1. n - 1 \in Nat /\ n - 1 < N /\ (n - 1) + 1 = n /\ n - 1 <= N /\ n \in Nat
      BY <1>2
    <3>2. Merged(d, Turn(h[n - 1], n), u, n)
      <4>1. Merged(d, h[n - 1], u, n - 1) /\ (n - 1) + 1 <= N
        BY <1>2, <1>11, <3>1
      <4>2. Merged(d, Turn(h[n - 1], (n - 1) + 1), u, (n - 1) + 1)
        BY <1>3, <3>1, <4>1
      <4>3. QED
        BY <3>1, <4>2
    <3>3. Turn(h[n - 1], n) \in Docs
      BY <1>4, <3>1, <3>2
    <3>4. h[(n - 1) + 1] = Turn(h[n - 1], (n - 1) + 1)
      BY <1>8, <3>1, <3>3
    <3>5. QED
      BY <3>1, <3>4
  <2>2. QED
    BY <2>1
<1>13. Solves([n \in 0 .. N |-> h[n]])
  <2> DEFINE g == [n \in 0 .. N |-> h[n]]
  <2>1. \A n \in 1 .. N : g[n - 1] = h[n - 1]
    BY <1>2
  <2>2. \A n \in 0 .. N : g[n] = IF n = 0 THEN d ELSE Turn(g[n - 1], n)
    BY <1>2, <1>9, <1>12, <2>1
  <2>3. QED
    BY <2>2
<1>14. Solves(f)
  <2> HIDE DEF Solves
  <2> QED BY <1>13 DEF f
<1>15. f[0] = d /\ \A n \in 1 .. N : f[n] = Turn(f[n - 1], n)
  <2>1. \A n \in 0 .. N : f[n] = IF n = 0 THEN d ELSE Turn(f[n - 1], n)
    BY <1>14
  <2>2. 0 \in 0 .. N /\ \A n \in 1 .. N : n \in 0 .. N /\ n # 0
    BY <1>2
  <2>3. QED
    BY <2>1, <2>2
<1> DEFINE Same == { n \in Nat : n <= N => f[n] = h[n] }
<1>16. \A n \in Nat : n \in Same
  <2>1. 0 \in Same
    BY <1>9, <1>15
  <2>2. ASSUME NEW n \in Nat, n \in Same PROVE n + 1 \in Same
    <3>1. SUFFICES ASSUME n + 1 <= N PROVE f[n + 1] = h[n + 1]
      OBVIOUS
    <3>2. n + 1 \in 1 .. N /\ (n + 1) - 1 = n /\ n <= N
      BY <1>2, <3>1
    <3>3. f[n] = h[n]
      BY <2>2, <3>2
    <3>4. QED
      BY <1>12, <1>15, <3>2, <3>3
  <2> HIDE DEF Same
  <2>3. QED
    BY <2>1, <2>2, Induction
<1>17. N \in Same /\ N <= N
  BY <1>2, <1>16
<1>18. f[N] = h[N]
  BY <1>2, <1>17
<1>19. \A n \in 1 .. Len(u) : h[n] = integrateItem(h[n - 1], u[n])
  BY <1>12 DEF N, Turn
<1>20. \A n \in 0 .. Len(u) : Merged(d, h[n], u, n)
  BY <1>2, <1>11 DEF N
<1>21. Turns(h, d, u)
  BY <1>9, <1>19, <1>20 DEF Turns
<1>22. QED
  BY <1>1, <1>18, <1>21 DEF N

LEMMA integrateLoop ==
  ASSUME NEW d, Sound(d), NEW u \in Seq(ItemType), Readable(d, u)
  PROVE  Merged(d, Loop(integrateItem, d, u), u, Len(u))
<1>1. PICK h : Turns(h, d, u) /\ Loop(integrateItem, d, u) = h[Len(u)]
  BY integrateTurns
<1>2. Len(u) \in 0 .. Len(u)
  OBVIOUS
<1>3. QED
  BY <1>1, <1>2 DEF Turns

\* e is d with everything deleted that the first m ranges cover.
Swept(d, e, ranges, m) ==
    /\ Sound(e)
    /\ Len(e.heap) = Len(d.heap)
    /\ \A k \in Refs(d) :
          /\ SameItem(e.heap[k], d.heap[k]) /\ e.heap[k].right = d.heap[k].right
          /\ e.heap[k].deleted <=> \/ d.heap[k].deleted
                                   \/ \E i \in 1 .. m : d.heap[k].id \in Covered(ranges[i])
    /\ e.store = d.store /\ e.ds = d.ds /\ e.start = d.start

\* One more range.
LEMMA applyDeleteRangeSweeps ==
  ASSUME NEW d, Sound(d), NEW ranges \in Seq(Ranges),
         NEW m \in Nat, m + 1 <= Len(ranges), NEW e, Swept(d, e, ranges, m)
  PROVE  Swept(d, applyDeleteRange(e, ranges[m + 1]), ranges, m + 1)
<1> DEFINE n == m + 1
           f == applyDeleteRange(e, ranges[n])
<1>1. n \in 1 .. Len(ranges) /\ n \in Nat /\ \A i \in 1 .. n : i \in 1 .. m \/ i = n
  OBVIOUS
<1>2. \A i \in 1 .. m : i \in 1 .. n
  OBVIOUS
<1>3. ranges[n] \in Ranges /\ n \in 1 .. n
  BY <1>1
<1>4. Sound(e) /\ Refs(e) = Refs(d)
  BY DEF Swept, Refs
<1> HIDE DEF n
<1>5. /\ Sound(f)
      /\ \E S : Marks(e, f, S) /\ \A k \in Refs(e) : k \in S <=> e.heap[k].id \in Covered(ranges[n])
  BY <1>3, <1>4, applyDeleteRangeMarks
<1> HIDE DEF f
<1>6. PICK S : Marks(e, f, S) /\ \A k \in Refs(e) : k \in S <=> e.heap[k].id \in Covered(ranges[n])
  BY <1>5
<1>7. Len(f.heap) = Len(d.heap) /\ f.store = d.store /\ f.ds = d.ds /\ f.start = d.start
  BY <1>6 DEF Marks, Swept
<1>8. ASSUME NEW k \in Refs(d)
      PROVE  /\ SameItem(f.heap[k], d.heap[k]) /\ f.heap[k].right = d.heap[k].right
             /\ f.heap[k].deleted <=> \/ d.heap[k].deleted
                                      \/ \E i \in 1 .. n : d.heap[k].id \in Covered(ranges[i])
  <2>1. /\ SameItem(f.heap[k], e.heap[k]) /\ SameItem(e.heap[k], d.heap[k])
        /\ f.heap[k].deleted <=> e.heap[k].deleted \/ k \in S
        /\ f.heap[k].right = d.heap[k].right
    BY <1>4, <1>6 DEF Marks, Swept
  <2>2. SameItem(f.heap[k], d.heap[k]) /\ e.heap[k].id = d.heap[k].id
    BY <2>1 DEF SameItem
  <2>3. k \in S <=> d.heap[k].id \in Covered(ranges[n])
    BY <1>4, <1>6, <2>2
  <2>4. e.heap[k].deleted <=> d.heap[k].deleted \/ \E i \in 1 .. m : d.heap[k].id \in Covered(ranges[i])
    BY DEF Swept
  <2>5. (\E i \in 1 .. n : d.heap[k].id \in Covered(ranges[i])) <=>
        (\E i \in 1 .. m : d.heap[k].id \in Covered(ranges[i])) \/ d.heap[k].id \in Covered(ranges[n])
    BY <1>1, <1>2, <1>3
  <2>6. QED
    BY <2>1, <2>2, <2>3, <2>4, <2>5
<1>9. Swept(d, f, ranges, n)
  BY <1>5, <1>7, <1>8 DEF Swept
<1>10. QED
  BY <1>9 DEF f, n

\* The loop over the ranges of a delete set.
LEMMA deleteLoop ==
  ASSUME NEW d, Sound(d), NEW ranges \in Seq(Ranges)
  PROVE  Swept(d, Loop(applyDeleteRange, d, ranges), ranges, Len(ranges))
<1> DEFINE N == Len(ranges)
           Turn(a, n) == applyDeleteRange(a, ranges[n])
           next == [p \in Docs \X Nat |-> IF p[2] < N /\ Turn(p[1], p[2] + 1) \in Docs
                                          THEN Turn(p[1], p[2] + 1) ELSE p[1]]
           Solves(g) == g = [n \in 0 .. N |-> IF n = 0 THEN d ELSE Turn(g[n - 1], n)]
           f == CHOOSE x : Solves(x)
<1>1. Loop(applyDeleteRange, d, ranges) = f[N]
  BY DEF Loop
<1>2. N \in Nat /\ d \in Docs
  BY DEF Sound, Whole
<1>3. \A m \in Nat : m + 1 <= N => \A e : Swept(d, e, ranges, m) => Swept(d, Turn(e, m + 1), ranges, m + 1)
  BY applyDeleteRangeSweeps
<1>4. \A m \in Nat : \A e : Swept(d, e, ranges, m) => e \in Docs
  BY DEF Swept, Sound, Whole
<1>5. Swept(d, d, ranges, 0)
  BY DEF Swept, SameItem
<1> HIDE DEF f, N, Turn
<1>6. next \in [Docs \X Nat -> Docs]
  OBVIOUS
<1>7. PICK h \in [Nat -> Docs] : Iterates(h, d, next)
  <2> HIDE DEF next
  <2> QED BY <1>2, <1>6, IterationExists
<1>8. ASSUME NEW n \in Nat, n < N, Turn(h[n], n + 1) \in Docs
      PROVE  h[n + 1] = Turn(h[n], n + 1)
  <2>1. h[n + 1] = next[<<h[n], n>>]
    <3> HIDE DEF next
    <3> QED BY <1>7 DEF Iterates
  <2>2. <<h[n], n>> \in Docs \X Nat
    OBVIOUS
  <2>3. QED
    BY <1>8, <2>1, <2>2
<1>9. h[0] = d
  BY <1>7 DEF Iterates
<1> HIDE DEF next
<1> DEFINE Good == { n \in Nat : n <= N => Swept(d, h[n], ranges, n) }
<1>10. \A n \in Nat : n \in Good
  <2>1. 0 \in Good
    BY <1>5, <1>9
  <2>2. ASSUME NEW n \in Nat, n \in Good PROVE n + 1 \in Good
    <3>1. SUFFICES ASSUME n + 1 <= N PROVE Swept(d, h[n + 1], ranges, n + 1)
      OBVIOUS
    <3>2. Swept(d, h[n], ranges, n) /\ n < N
      BY <1>2, <2>2, <3>1
    <3>3. Swept(d, Turn(h[n], n + 1), ranges, n + 1)
      BY <1>3, <3>1, <3>2
    <3>4. h[n + 1] = Turn(h[n], n + 1)
      BY <1>4, <1>8, <3>2, <3>3
    <3>5. QED
      BY <3>3, <3>4
  <2> HIDE DEF Good
  <2>3. QED
    BY <2>1, <2>2, Induction
<1>11. \A n \in Nat : n <= N => Swept(d, h[n], ranges, n)
  BY <1>10
<1>12. \A n \in 1 .. N : h[n] = Turn(h[n - 1], n)
  <2>1. ASSUME NEW n \in 1 .. N PROVE h[n] = Turn(h[n - 1], n)
    <3>1. n - 1 \in Nat /\ n - 1 < N /\ (n - 1) + 1 = n /\ n - 1 <= N /\ n \in Nat
      BY <1>2
    <3>2. Swept(d, Turn(h[n - 1], n), ranges, n)
      <4>1. Swept(d, h[n - 1], ranges, n - 1) /\ (n - 1) + 1 <= N
        BY <1>2, <1>11, <3>1
      <4>2. Swept(d, Turn(h[n - 1], (n - 1) + 1), ranges, (n - 1) + 1)
        BY <1>3, <3>1, <4>1
      <4>3. QED
        BY <3>1, <4>2
    <3>3. Turn(h[n - 1], n) \in Docs
      BY <1>4, <3>1, <3>2
    <3>4. h[(n - 1) + 1] = Turn(h[n - 1], (n - 1) + 1)
      BY <1>8, <3>1, <3>3
    <3>5. QED
      BY <3>1, <3>4
  <2>2. QED
    BY <2>1
<1>13. Solves([n \in 0 .. N |-> h[n]])
  <2> DEFINE g == [n \in 0 .. N |-> h[n]]
  <2>1. \A n \in 1 .. N : g[n - 1] = h[n - 1]
    BY <1>2
  <2>2. \A n \in 0 .. N : g[n] = IF n = 0 THEN d ELSE Turn(g[n - 1], n)
    BY <1>2, <1>9, <1>12, <2>1
  <2>3. QED
    BY <2>2
<1>14. Solves(f)
  <2> HIDE DEF Solves
  <2> QED BY <1>13 DEF f
<1>15. f[0] = d /\ \A n \in 1 .. N : f[n] = Turn(f[n - 1], n)
  <2>1. \A n \in 0 .. N : f[n] = IF n = 0 THEN d ELSE Turn(f[n - 1], n)
    BY <1>14
  <2>2. 0 \in 0 .. N /\ \A n \in 1 .. N : n \in 0 .. N /\ n # 0
    BY <1>2
  <2>3. QED
    BY <2>1, <2>2
<1> DEFINE Same == { n \in Nat : n <= N => f[n] = h[n] }
<1>16. \A n \in Nat : n \in Same
  <2>1. 0 \in Same
    BY <1>9, <1>15
  <2>2. ASSUME NEW n \in Nat, n \in Same PROVE n + 1 \in Same
    <3>1. SUFFICES ASSUME n + 1 <= N PROVE f[n + 1] = h[n + 1]
      OBVIOUS
    <3>2. n + 1 \in 1 .. N /\ (n + 1) - 1 = n /\ n <= N
      BY <1>2, <3>1
    <3>3. f[n] = h[n]
      BY <2>2, <3>2
    <3>4. QED
      BY <1>12, <1>15, <3>2, <3>3
  <2> HIDE DEF Same
  <2>3. QED
    BY <2>1, <2>2, Induction
<1>17. N \in Same /\ N <= N
  BY <1>2, <1>16
<1>18. Swept(d, f[N], ranges, N)
  BY <1>2, <1>11, <1>17
<1>19. QED
  BY <1>1, <1>18 DEF N

\* The delete set of a document has an ID when a range of it covers it.
LEMMA isDeletedIsCovered ==
  ASSUME NEW d \in Docs, NEW id \in IdType
  PROVE  isDeleted(d, id) <=> \E i \in 1 .. Len(d.ds) : id \in Covered(d.ds[i])
<1>1. d.ds \in Seq(Ranges) /\ DOMAIN d.ds = 1 .. Len(d.ds) /\ id.clock \in Nat
  BY DocFields DEF IdType
<1>2. ASSUME NEW i \in 1 .. Len(d.ds)
      PROVE  id \in Covered(d.ds[i]) <=> /\ d.ds[i].client = id.client
                                         /\ id.clock \in d.ds[i].clock .. d.ds[i].clock + d.ds[i].len - 1
  <2> DEFINE x == d.ds[i]
  <2>1. x \in Ranges
    BY <1>1
  <2> HIDE DEF x
  <2>2. x.clock \in Nat /\ x.len \in Nat
    BY <2>1 DEF Ranges
  <2>3. id \in Covered(x) <=> id.client = x.client /\ x.clock <= id.clock /\ id.clock < x.clock + x.len
    BY <2>1, CoveredIds
  <2>4. id.clock \in x.clock .. x.clock + x.len - 1 <=> x.clock <= id.clock /\ id.clock < x.clock + x.len
    BY <1>1, <2>2
  <2>5. QED
    BY <2>3, <2>4 DEF x
<1>3. QED
  BY <1>1, <1>2 DEF isDeleted

\* An update joins a document: its ranges are in the delete set, its items are held,
\* and the delete set says what is deleted besides what was.
Updated(d, e, u) ==
    /\ Sound(e)
    /\ Extends(d, e)
    /\ e.ds = d.ds \o u.dels
    /\ \A k \in Refs(e) : k \notin Refs(d) =>
          \E j \in 1 .. Len(u.items) : /\ e.heap[k].id = u.items[j].id /\ e.heap[k].str = u.items[j].str
                                       /\ e.heap[k].oleft = u.items[j].oleft
    /\ \A j \in 1 .. Len(u.items) : Held(e, u.items[j].id)
    /\ \A k \in Refs(e) : e.heap[k].deleted <=> \/ k \in Refs(d) /\ d.heap[k].deleted
                                                \/ isDeleted(e, e.heap[k].id)

\* How an update is applied: a is d with the ranges of u in its delete set, b is a with
\* the items of u, and e is b with the delete set applied.
Stages(d, a, b, e, u) ==
    /\ Sound(a)
    /\ a.heap = d.heap /\ a.store = d.store /\ a.start = d.start /\ a.ds = d.ds \o u.dels
    /\ Readable(a, u.items)
    /\ b = Loop(integrateItem, a, u.items) /\ Merged(a, b, u.items, Len(u.items))
    /\ Swept(b, e, b.ds, Len(b.ds))

LEMMA ApplyUpdateStages ==
  ASSUME NEW d, Sound(d), NEW u, u.items \in Seq(ItemType), u.dels \in Seq(Ranges), Readable(d, u.items)
  PROVE  \E a, b : Stages(d, a, b, ApplyUpdate(d, u), u)
<1> DEFINE dels == d.ds \o u.dels
           a == [d EXCEPT !.ds = dels]
           b == Loop(integrateItem, a, u.items)
           e == Loop(applyDeleteRange, b, b.ds)
<1>1. ApplyUpdate(d, u) = e
  <2> DEFINE x == [d EXCEPT !.ds = @ \o u.dels]
  <2>1. ApplyUpdate(d, u) = Loop(applyDeleteRange, Loop(integrateItem, x, u.items), Loop(integrateItem, x, u.items).ds)
    BY DEF ApplyUpdate
  <2>2. x = a
    OBVIOUS
  <2> HIDE DEF a, x
  <2>3. QED
    BY <2>1, <2>2
<1>2. /\ Whole(d) /\ Listed(d) /\ d \in Docs /\ Len(d.heap) \in Nat
      /\ \A k \in Refs(d) : d.heap[k].deleted \in BOOLEAN
  <2>1. Whole(d) /\ Listed(d) /\ d \in Docs
    BY DEF Sound, Whole
  <2>2. QED
    BY <2>1, DocFields, ItemFields
<1>3. dels \in Seq(Ranges)
  <2>1. d.ds \in Seq(Ranges)
    BY <1>2, DocFields
  <2>2. QED
    BY <2>1, ConcatProperties
<1> HIDE DEF dels
<1>4. /\ a \in Docs /\ a.heap = d.heap /\ a.store = d.store /\ a.start = d.start /\ a.panic = d.panic
      /\ a.ds = dels /\ Refs(a) = Refs(d)
  BY <1>2, <1>3 DEF Docs, Refs
<1> HIDE DEF a
<1>5. Sound(a)
  <2>1. Whole(a)
    BY <1>2, <1>4 DEF Whole
  <2>2. Listed(a)
    BY <1>2, <1>4 DEF Listed
  <2>3. \E rank \in [0 .. Len(a.heap) -> Nat] : Ranked(a, rank)
    <3>1. PICK rank \in [0 .. Len(d.heap) -> Nat] : Ranked(d, rank)
      BY DEF Sound
    <3>2. Ranked(a, rank)
      BY <1>4, <3>1 DEF Ranked
    <3>3. QED
      BY <1>4, <3>2
  <2>4. QED
    BY <2>1, <2>2, <2>3 DEF Sound
<1>6. Readable(a, u.items)
  BY <1>4 DEF Readable, Held
<1>7. Merged(a, b, u.items, Len(u.items))
  BY <1>5, <1>6, integrateLoop
<1> HIDE DEF b
<1>8. Sound(b) /\ b \in Docs /\ b.ds = dels /\ Len(b.heap) \in Nat
  <2>1. Sound(b) /\ b.ds = dels
    BY <1>4, <1>7 DEF Merged
  <2>2. b \in Docs
    BY <2>1 DEF Sound, Whole
  <2>3. QED
    BY <2>1, <2>2, DocFields
<1>9. Swept(b, e, b.ds, Len(b.ds))
  BY <1>3, <1>8, deleteLoop
<1> HIDE DEF e
<1>10. Stages(d, a, b, e, u)
  BY <1>4, <1>5, <1>6, <1>7, <1>9 DEF Stages, b, dels
<1>11. QED
  BY <1>1, <1>10

\* An update that a document can read joins it (ApplyUpdate).
LEMMA ApplyUpdateSound ==
  ASSUME NEW d, Sound(d), NEW u, u.items \in Seq(ItemType), u.dels \in Seq(Ranges), Readable(d, u.items)
  PROVE  Updated(d, ApplyUpdate(d, u), u)
<1> DEFINE dels == d.ds \o u.dels
           e == ApplyUpdate(d, u)
<1>1. PICK a, b : Stages(d, a, b, e, u)
  BY ApplyUpdateStages
<1> HIDE DEF e
<1>2. /\ Whole(d) /\ Listed(d) /\ d \in Docs /\ Len(d.heap) \in Nat
      /\ \A k \in Refs(d) : d.heap[k].deleted \in BOOLEAN
  <2>1. Whole(d) /\ Listed(d) /\ d \in Docs
    BY DEF Sound, Whole
  <2>2. QED
    BY <2>1, DocFields, ItemFields
<1>3. dels \in Seq(Ranges)
  <2>1. d.ds \in Seq(Ranges)
    BY <1>2, DocFields
  <2>2. QED
    BY <2>1, ConcatProperties
<1> HIDE DEF dels
<1>4. /\ a.heap = d.heap /\ a.store = d.store /\ a.start = d.start
      /\ a.ds = dels /\ Refs(a) = Refs(d)
  BY <1>1 DEF Stages, Refs, dels
<1>5. Merged(a, b, u.items, Len(u.items))
  BY <1>1 DEF Stages
<1>6. Sound(b) /\ b \in Docs /\ b.ds = dels /\ Len(b.heap) \in Nat
  <2>1. Sound(b) /\ b.ds = dels
    BY <1>4, <1>5 DEF Merged
  <2>2. b \in Docs
    BY <2>1 DEF Sound, Whole
  <2>3. QED
    BY <2>1, <2>2, DocFields
<1>7. Swept(b, e, b.ds, Len(b.ds))
  BY <1>1 DEF Stages
<1>8. Sound(e) /\ e \in Docs /\ e.ds = dels /\ Refs(e) = Refs(b) /\ Len(e.heap) = Len(b.heap) /\ e.store = b.store
  BY <1>6, <1>7 DEF Swept, Sound, Whole, Refs
<1>9. Len(d.heap) <= Len(b.heap) /\ Refs(d) \subseteq Refs(b) /\ \A k \in Refs(d) : SameItem(b.heap[k], d.heap[k])
  <2>1. Len(d.heap) <= Len(b.heap) /\ \A k \in Refs(d) : SameItem(b.heap[k], d.heap[k])
    BY <1>4, <1>5 DEF Merged, Extends
  <2>2. QED
    BY <1>2, <1>6, <2>1 DEF Refs
<1>10. \A k \in Refs(e) : SameItem(e.heap[k], b.heap[k])
  BY <1>7, <1>8 DEF Swept
<1>11. Extends(d, e)
  BY <1>8, <1>9, <1>10 DEF Extends, SameItem
<1>12. ASSUME NEW k \in Refs(e), k \notin Refs(d)
       PROVE  \E j \in 1 .. Len(u.items) : /\ e.heap[k].id = u.items[j].id /\ e.heap[k].str = u.items[j].str
                                           /\ e.heap[k].oleft = u.items[j].oleft
  <2>1. k \in Refs(b) /\ k \notin Refs(a)
    BY <1>4, <1>8, <1>12
  <2>2. \E j \in 1 .. Len(u.items) : /\ b.heap[k].id = u.items[j].id /\ b.heap[k].str = u.items[j].str
                                     /\ b.heap[k].oleft = u.items[j].oleft
    BY <1>5, <2>1 DEF Merged
  <2>3. QED
    BY <1>10, <2>2 DEF SameItem
<1>13. \A j \in 1 .. Len(u.items) : Held(e, u.items[j].id)
  BY <1>5, <1>8 DEF Merged, Held
<1>14. ASSUME NEW k \in Refs(e)
       PROVE  e.heap[k].deleted <=> \/ k \in Refs(d) /\ d.heap[k].deleted
                                    \/ isDeleted(e, e.heap[k].id)
  <2>1. e.heap[k].id \in IdType /\ e.heap[k].id = b.heap[k].id /\ k \in Refs(b)
    <3>1. e.heap[k] \in ItemType
      BY <1>8, DocFields
    <3>2. e.heap[k].id \in IdType
      BY <3>1, ItemFields
    <3>3. QED
      BY <1>8, <1>10, <3>2 DEF SameItem
  <2>2. isDeleted(e, e.heap[k].id) <=> \E i \in 1 .. Len(b.ds) : b.heap[k].id \in Covered(b.ds[i])
    <3>1. isDeleted(e, e.heap[k].id) <=> \E i \in 1 .. Len(e.ds) : e.heap[k].id \in Covered(e.ds[i])
      BY <1>8, <2>1, isDeletedIsCovered
    <3>2. QED
      BY <1>6, <1>8, <2>1, <3>1
  <2>3. e.heap[k].deleted <=> b.heap[k].deleted \/ isDeleted(e, e.heap[k].id)
    BY <1>7, <2>1, <2>2 DEF Swept
  <2>4. CASE k \in Refs(d)
    <3>1. b.heap[k].deleted = d.heap[k].deleted
      BY <1>4, <1>5, <2>4 DEF Merged
    <3>2. QED
      BY <2>3, <2>4, <3>1
  <2>5. CASE k \notin Refs(d)
    <3>1. k \in Refs(b) /\ k \notin Refs(a)
      BY <1>4, <2>1, <2>5
    <3>2. PICK j \in 1 .. Len(u.items) : b.heap[k].id = u.items[j].id /\ b.heap[k].deleted = isDeleted(a, u.items[j].id)
      BY <1>5, <3>1 DEF Merged
    <3>3. isDeleted(a, e.heap[k].id) = isDeleted(e, e.heap[k].id)
      BY <1>4, <1>8 DEF isDeleted
    <3>4. QED
      BY <2>1, <2>3, <2>5, <3>2, <3>3
  <2>6. QED
    BY <2>4, <2>5
<1>15. Updated(d, e, u)
  BY <1>8, <1>11, <1>12, <1>13, <1>14 DEF Updated, dels
<1>16. QED
  BY <1>15 DEF e

-----------------------------------------------------------------------------
(***************************************************************************)
(* What is written and read.                                               *)
(***************************************************************************)
\* The two say the same: the same ID, the same text, the same origin.
Says(a, b) == a.id = b.id /\ a.str = b.str /\ a.oleft = b.oleft

\* The same list, too, unless it has an origin, from which the reader finds the list.
Spells(a, b) == Says(a, b) /\ (b.oleft = NoID => a.list = b.list)

\* An item that is written and read with its own clock says what it said.
LEMMA encodedSays ==
  ASSUME WideChar = {}, NEW it \in ItemType, Len(it.str) = 1, NEW clock, clock = it.id.clock
  PROVE  utf16Len(it.str) = 1 /\ Wire(encodedToItem(it, clock)) /\ Spells(encodedToItem(it, clock), it)
<1> DEFINE list == IF it.oleft = NoID THEN it.list ELSE NoList
           x == [it EXCEPT !.len = 1, !.right = Nil, !.deleted = FALSE, !.list = list]
<1>1. utf16Len(it.str) = 1
  <2>1. { k \in DOMAIN it.str : it.str[k] \in WideChar } = {}
    OBVIOUS
  <2>2. Cardinality({}) = 0
    BY FS_EmptySet
  <2> DEFINE wide == { k \in DOMAIN it.str : it.str[k] \in WideChar }
  <2>3. utf16Len(it.str) = Len(it.str) + Cardinality(wide)
    BY DEF utf16Len
  <2>4. wide = {}
    BY <2>1
  <2> HIDE DEF wide
  <2>5. QED
    BY <2>2, <2>3, <2>4
<1>2. it.id \in IdType /\ [it.id EXCEPT !.clock = clock] = it.id
  BY ItemFields DEF IdType
<1>3. encodedToItem(it, clock) = [it EXCEPT !.id.clock = clock, !.len = 1, !.right = Nil, !.deleted = FALSE, !.list = list]
  BY <1>1 DEF encodedToItem
<1>4. encodedToItem(it, clock) = x
  <2> HIDE DEF list
  <2> QED BY <1>2, <1>3 DEF ItemType
<1>5. list \in List \cup {NoList} /\ (it.oleft # NoID => list = NoList) /\ (it.oleft = NoID => list = it.list)
  BY ItemFields
<1> HIDE DEF list
<1>6. /\ x \in ItemType /\ x.id = it.id /\ x.str = it.str /\ x.oleft = it.oleft /\ x.len = 1
      /\ x.right = Nil /\ x.list = list
  BY <1>5 DEF ItemType, Nil
<1> HIDE DEF x
<1>7. Wire(x) /\ Spells(x, it)
  BY <1>5, <1>6 DEF Wire, Spells, Says
<1>8. QED
  BY <1>1, <1>4, <1>7

\* The items of one client, one clock after the other.
Run(d, refs, c) ==
    /\ refs \in Seq(Refs(d))
    /\ \A i \in 1 .. Len(refs) :
          d.heap[refs[i]].id = [client |-> c, clock |-> d.heap[refs[1]].id.clock + (i - 1)]

\* The decoder gives every item of a run its own clock.
LEMMA decodedSays ==
  ASSUME WideChar = {}, NEW d, Whole(d), NEW c \in Client, NEW refs, Run(d, refs, c)
  PROVE  /\ decoded(d, refs) \in Seq(ItemType)
         /\ Len(decoded(d, refs)) = Len(refs)
         /\ \A i \in 1 .. Len(refs) : Wire(decoded(d, refs)[i]) /\ Spells(decoded(d, refs)[i], d.heap[refs[i]])
<1> DEFINE N == Len(refs)
           first == d.heap[refs[1]].id.clock
           Solves(g) == g = [k \in 1 .. N |-> IF k = 1 THEN first
                                              ELSE g[k - 1] + utf16Len(d.heap[refs[k - 1]].str)]
           f == CHOOSE x : Solves(x)
           out == [k \in DOMAIN refs |-> encodedToItem(d.heap[refs[k]], f[k])]
<1>1. decoded(d, refs) = out
  BY DEF decoded
<1>2. /\ refs \in Seq(Refs(d)) /\ N \in Nat /\ DOMAIN refs = 1 .. N
      /\ \A i \in 1 .. N : refs[i] \in Refs(d)
  BY DEF Run
<1>3. d \in Docs
  BY DEF Whole
<1>4. \A i \in 1 .. N : d.heap[refs[i]] \in ItemType /\ Len(d.heap[refs[i]].str) = 1
  BY <1>2, <1>3, DocFields DEF Whole
<1>5. \A i \in 1 .. N : d.heap[refs[i]].id.clock = first + (i - 1)
  <2>1. ASSUME NEW i \in 1 .. N PROVE d.heap[refs[i]].id.clock = first + (i - 1)
    <3>1. d.heap[refs[i]].id = [client |-> c, clock |-> first + (i - 1)]
      BY DEF Run
    <3> HIDE DEF first, N
    <3>2. QED
      BY <3>1
  <2>2. QED
    BY <2>1
<1>6. N > 0 => first \in Nat
  <2>1. ASSUME N > 0 PROVE first \in Nat
    <3>1. d.heap[refs[1]] \in ItemType
      BY <1>2, <1>4, <2>1
    <3>2. QED
      BY <3>1, ItemFields
  <2>2. QED
    BY <2>1
<1>7. \A i \in 1 .. N : utf16Len(d.heap[refs[i]].str) = 1
  BY <1>4, encodedSays
<1> HIDE DEF f, first, N
<1>8. Solves([k \in 1 .. N |-> first + (k - 1)])
  <2> DEFINE g == [k \in 1 .. N |-> first + (k - 1)]
             h == [k \in 1 .. N |-> IF k = 1 THEN first ELSE g[k - 1] + utf16Len(d.heap[refs[k - 1]].str)]
  <2>1. ASSUME NEW k \in 1 .. N, k # 1 PROVE g[k - 1] + utf16Len(d.heap[refs[k - 1]].str) = first + (k - 1)
    <3>1. k - 1 \in 1 .. N /\ first \in Nat
      BY <1>2, <1>6, <2>1
    <3>2. g[k - 1] = first + ((k - 1) - 1) /\ utf16Len(d.heap[refs[k - 1]].str) = 1
      BY <1>7, <3>1
    <3> HIDE DEF g
    <3>3. QED
      BY <1>2, <3>1, <3>2
  <2>2. ASSUME NEW k \in 1 .. N PROVE g[k] = h[k]
    <3>1. CASE k = 1
      <4>1. first \in Nat
        BY <1>2, <1>6, <3>1
      <4>2. QED
        BY <3>1, <4>1
    <3>2. CASE k # 1
      BY <2>1, <3>2
    <3>3. QED
      BY <3>1, <3>2
  <2>3. g = h
    BY <2>2
  <2>4. QED
    BY <2>3
<1>9. Solves(f)
  <2> HIDE DEF Solves
  <2> QED BY <1>8 DEF f
<1>10. \A k \in 1 .. N : f[k] = IF k = 1 THEN first ELSE f[k - 1] + utf16Len(d.heap[refs[k - 1]].str)
  <2> DEFINE h == [k \in 1 .. N |-> IF k = 1 THEN first ELSE f[k - 1] + utf16Len(d.heap[refs[k - 1]].str)]
  <2>1. f = h
    BY <1>9
  <2>2. \A k \in 1 .. N : h[k] = IF k = 1 THEN first ELSE f[k - 1] + utf16Len(d.heap[refs[k - 1]].str)
    OBVIOUS
  <2> HIDE DEF h
  <2>3. QED
    BY <2>1, <2>2
<1> DEFINE Good == { n \in Nat : n + 1 <= N => f[n + 1] = first + n }
<1>11. \A n \in Nat : n \in Good
  <2>1. 0 \in Good
    <3>1. SUFFICES ASSUME 0 + 1 <= N PROVE f[0 + 1] = first + 0
      OBVIOUS
    <3>2. 1 \in 1 .. N /\ first \in Nat
      BY <1>2, <1>6, <3>1
    <3>3. QED
      BY <1>10, <3>2
  <2>2. ASSUME NEW n \in Nat, n \in Good PROVE n + 1 \in Good
    <3>1. SUFFICES ASSUME (n + 1) + 1 <= N PROVE f[(n + 1) + 1] = first + (n + 1)
      OBVIOUS
    <3>2. n + 1 \in 1 .. N /\ (n + 1) + 1 \in 1 .. N /\ ((n + 1) + 1) - 1 = n + 1 /\ (n + 1) + 1 # 1 /\ first \in Nat
      BY <1>2, <1>6, <3>1
    <3>3. f[n + 1] = first + n
      BY <1>2, <2>2, <3>2
    <3>4. f[(n + 1) + 1] = f[n + 1] + utf16Len(d.heap[refs[n + 1]].str)
      BY <1>10, <3>2
    <3>5. QED
      BY <1>7, <3>2, <3>3, <3>4
  <2> HIDE DEF Good
  <2>3. QED
    BY <2>1, <2>2, Induction
<1>12. ASSUME NEW i \in 1 .. N PROVE f[i] = d.heap[refs[i]].id.clock
  <2>1. i - 1 \in Nat /\ (i - 1) + 1 = i /\ i - 1 \in Good
    BY <1>2, <1>11
  <2>2. f[(i - 1) + 1] = first + (i - 1)
    BY <1>2, <2>1
  <2>3. QED
    BY <1>5, <2>1, <2>2
<1>13. ASSUME NEW i \in 1 .. N
       PROVE  Wire(out[i]) /\ Spells(out[i], d.heap[refs[i]]) /\ out[i] \in ItemType
  <2>1. out[i] = encodedToItem(d.heap[refs[i]], f[i])
    BY <1>2
  <2>2. Wire(encodedToItem(d.heap[refs[i]], f[i])) /\ Spells(encodedToItem(d.heap[refs[i]], f[i]), d.heap[refs[i]])
    BY <1>4, <1>12, encodedSays
  <2>3. QED
    BY <2>1, <2>2 DEF Wire
<1>14. out \in Seq(ItemType) /\ Len(out) = N
  <2>1. DOMAIN out = 1 .. N /\ out \in [1 .. N -> ItemType]
    BY <1>2, <1>13
  <2> HIDE DEF out
  <2>2. QED
    BY <1>2, <2>1
<1>15. QED
  BY <1>1, <1>13, <1>14 DEF N

\* items are the items of the groups of the clients up to m, each the first of its
\* group or after the one before it.
Written(d, groups, items, m) ==
    /\ items \in Seq(ItemType)
    /\ \A j \in 1 .. Len(items) :
          /\ Wire(items[j])
          /\ \E c \in Client : \E i \in 1 .. Len(groups[c]) :
                /\ Spells(items[j], d.heap[groups[c][i]])
                /\ i = 1 \/ \E h \in 1 .. j - 1 : items[h].id = Before(items[j].id)
    /\ \A c \in Client : c <= m =>
          \A i \in 1 .. Len(groups[c]) : \E j \in 1 .. Len(items) : items[j].id = d.heap[groups[c][i]].id

\* The items of one more client, written before the others.
LEMMA clientWritten ==
  ASSUME WideChar = {}, NEW d, Whole(d), NEW groups, NEW c \in Client, Run(d, groups[c], c),
         NEW items, Written(d, groups, items, c - 1)
  PROVE  Written(d, groups, decoded(d, groups[c]) \o items, c)
<1> DEFINE refs == groups[c]
           new == decoded(d, refs)
           all == new \o items
           D == Len(refs)
           L == Len(items)
<1>1. new \in Seq(ItemType) /\ Len(new) = D /\ items \in Seq(ItemType) /\ L \in Nat /\ D \in Nat
  <2>1. new \in Seq(ItemType) /\ Len(new) = D
    BY decodedSays
  <2>2. items \in Seq(ItemType)
    BY DEF Written
  <2> HIDE DEF new
  <2>3. QED
    BY <2>1, <2>2
<1>2. \A i \in 1 .. D : Wire(new[i]) /\ Spells(new[i], d.heap[refs[i]])
  BY decodedSays
<1>3. /\ all \in Seq(ItemType) /\ Len(all) = D + L
      /\ \A i \in 1 .. D + L : all[i] = IF i <= D THEN new[i] ELSE items[i - D]
  <2> HIDE DEF new, D, L
  <2>1. /\ all \in Seq(ItemType) /\ Len(all) = Len(new) + Len(items)
        /\ \A i \in 1 .. Len(new) + Len(items) : all[i] = IF i <= Len(new) THEN new[i] ELSE items[i - Len(new)]
    BY <1>1, ConcatProperties
  <2>2. QED
    BY <1>1, <2>1 DEF L
<1>4. refs \in Seq(Refs(d)) /\ \A i \in 1 .. D : d.heap[refs[i]].id = [client |-> c, clock |-> d.heap[refs[1]].id.clock + (i - 1)]
  BY DEF Run
<1>5. c \in Nat
  BY ClientAssumption
<1> HIDE DEF new, all, D, L
<1>6. /\ \A i \in 1 .. D : i \in 1 .. D + L /\ all[i] = new[i]
      /\ \A i \in 1 .. L : D + i \in 1 .. D + L /\ all[D + i] = items[i]
  BY <1>1, <1>3
<1>7. ASSUME NEW j \in 1 .. D + L
      PROVE  /\ Wire(all[j])
             /\ \E x \in Client : \E i \in 1 .. Len(groups[x]) :
                   /\ Spells(all[j], d.heap[groups[x][i]])
                   /\ i = 1 \/ \E h \in 1 .. j - 1 : all[h].id = Before(all[j].id)
  <2>1. CASE j \in 1 .. D
    <3>1. Wire(all[j]) /\ Spells(all[j], d.heap[groups[c][j]]) /\ j \in 1 .. Len(groups[c])
      BY <1>2, <1>6, <2>1 DEF D
    <3>2. j # 1 => \E h \in 1 .. j - 1 : all[h].id = Before(all[j].id)
      <4>1. SUFFICES ASSUME j # 1 PROVE \E h \in 1 .. j - 1 : all[h].id = Before(all[j].id)
        OBVIOUS
      <4> DEFINE h == j - 1
                 first == d.heap[refs[1]].id.clock
      <4>2. h \in 1 .. j - 1 /\ h \in 1 .. D /\ 1 \in 1 .. D
        BY <1>1, <2>1, <4>1
      <4>3. first \in Int
        <5>1. refs[1] \in Refs(d)
          BY <1>4, <4>2 DEF D
        <5>2. d.heap[refs[1]] \in ItemType
          BY <5>1, DocFields DEF Whole
        <5>3. QED
          BY <5>2, ItemFields
      <4>4. all[h].id = d.heap[refs[h]].id /\ all[j].id = d.heap[refs[j]].id
        BY <1>2, <1>6, <2>1, <4>2 DEF Spells, Says
      <4>5. /\ d.heap[refs[h]].id = [client |-> c, clock |-> first + (h - 1)]
            /\ d.heap[refs[j]].id = [client |-> c, clock |-> first + (j - 1)]
        <5>1. \A i \in 1 .. D : d.heap[refs[i]].id = [client |-> c, clock |-> first + (i - 1)]
          BY <1>4
        <5> HIDE DEF first, h
        <5>2. h \in 1 .. D /\ j \in 1 .. D
          BY <2>1, <4>2
        <5> HIDE DEF refs
        <5>3. QED
          BY <5>1, <5>2
      <4>6. (first + (j - 1)) - 1 = first + (h - 1)
        BY <1>1, <2>1, <4>3
      <4> HIDE DEF first, h
      <4>7. all[h].id = Before(all[j].id)
        BY <4>4, <4>5, <4>6 DEF Before
      <4>8. QED
        BY <4>2, <4>7
    <3>3. QED
      BY <3>1, <3>2
  <2>2. CASE j \notin 1 .. D
    <3> DEFINE k == j - D
    <3>1. k \in 1 .. L /\ D + k = j
      BY <1>1, <2>2
    <3> HIDE DEF k
    <3>2. all[j] = items[k]
      BY <1>6, <3>1
    <3>3. Wire(items[k])
      BY <3>1 DEF Written, L
    <3>4. PICK x \in Client : \E i \in 1 .. Len(groups[x]) :
                   /\ Spells(items[k], d.heap[groups[x][i]])
                   /\ i = 1 \/ \E h \in 1 .. k - 1 : items[h].id = Before(items[k].id)
      BY <3>1 DEF Written, L
    <3>5. PICK i \in 1 .. Len(groups[x]) :
                   /\ Spells(items[k], d.heap[groups[x][i]])
                   /\ i = 1 \/ \E h \in 1 .. k - 1 : items[h].id = Before(items[k].id)
      BY <3>4
    <3>6. ASSUME NEW h \in 1 .. k - 1, items[h].id = Before(items[k].id)
          PROVE  \E g \in 1 .. j - 1 : all[g].id = Before(all[j].id)
      <4>1. D + h \in 1 .. j - 1 /\ h \in 1 .. L
        BY <1>1, <3>1
      <4>2. all[D + h] = items[h]
        BY <1>6, <4>1
      <4>3. QED
        BY <3>2, <3>6, <4>1, <4>2
    <3>7. QED
      BY <3>2, <3>3, <3>5, <3>6
  <2>3. QED
    BY <2>1, <2>2
<1>8. ASSUME NEW x \in Client, x <= c, NEW i \in 1 .. Len(groups[x])
      PROVE  \E j \in 1 .. D + L : all[j].id = d.heap[groups[x][i]].id
  <2>1. CASE x = c
    <3>1. i \in 1 .. D
      BY <2>1 DEF D
    <3>2. all[i].id = d.heap[groups[x][i]].id /\ i \in 1 .. D + L
      BY <1>2, <1>6, <2>1, <3>1 DEF Spells, Says
    <3>3. QED
      BY <3>2
  <2>2. CASE x # c
    <3>1. x <= c - 1
      BY <1>5, <1>8, <2>2, ClientAssumption
    <3>2. PICK j \in 1 .. L : items[j].id = d.heap[groups[x][i]].id
      BY <3>1 DEF Written, L
    <3>3. D + j \in 1 .. D + L /\ all[D + j] = items[j]
      BY <1>6
    <3> DEFINE h == D + j
    <3>4. h \in 1 .. D + L /\ all[h] = items[j]
      BY <3>3
    <3> HIDE DEF h
    <3>5. all[h].id = d.heap[groups[x][i]].id
      BY <3>2, <3>4
    <3>6. QED
      BY <3>4, <3>5
  <2>3. QED
    BY <2>1, <2>2
<1>9. Written(d, groups, all, c)
  <2>1. all \in Seq(ItemType) /\ Len(all) = D + L
    BY <1>3
  <2>2. ASSUME NEW j \in 1 .. Len(all)
        PROVE  /\ Wire(all[j])
               /\ \E x \in Client : \E i \in 1 .. Len(groups[x]) :
                     /\ Spells(all[j], d.heap[groups[x][i]])
                     /\ i = 1 \/ \E h \in 1 .. j - 1 : all[h].id = Before(all[j].id)
    <3>1. j \in 1 .. D + L
      BY <2>1
    <3>2. QED
      BY <1>7, <3>1
  <2>3. ASSUME NEW x \in Client, x <= c, NEW i \in 1 .. Len(groups[x])
        PROVE  \E j \in 1 .. Len(all) : all[j].id = d.heap[groups[x][i]].id
    <3>1. PICK j \in 1 .. D + L : all[j].id = d.heap[groups[x][i]].id
      BY <1>8, <2>3
    <3>2. j \in 1 .. Len(all)
      BY <2>1
    <3>3. QED
      BY <3>1, <3>2
  <2>4. QED
    BY <2>1, <2>2, <2>3 DEF Written
<1>10. QED
  BY <1>9 DEF all, new

\* Every item of the groups is written, and nothing else.
LEMMA writeUpdateV1Writes ==
  ASSUME WideChar = {}, Client # {}, NEW d, Whole(d), NEW groups, \A c \in Client : Run(d, groups[c], c)
  PROVE  Written(d, groups, writeUpdateV1(d, groups), Max(Client))
<1> DEFINE M == Max(Client)
           S == Seq(ItemType)
           Out(n) == IF n \in Client THEN decoded(d, groups[n]) ELSE <<>>
           next == [p \in S \X Nat |-> Out(p[2] + 1) \o p[1]]
           Solves(g) == g = [n \in 0 .. M |-> IF n = 0 THEN <<>> ELSE Out(n) \o g[n - 1]]
           upto == CHOOSE x : Solves(x)
<1>1. M \in Nat /\ \A c \in Client : c \in Nat /\ c <= M /\ c # 0
  BY MaxClient, ClientAssumption
<1>2. writeUpdateV1(d, groups) = upto[M]
  BY DEF writeUpdateV1
<1>3. \A n \in Nat : Out(n) \in S
  <2>1. \A c \in Client : decoded(d, groups[c]) \in S
    BY decodedSays
  <2>2. QED
    BY <2>1
<1>4. \A c \in Client : Out(c) = decoded(d, groups[c])
  OBVIOUS
<1>5. \A n : n \notin Client => Out(n) = <<>>
  OBVIOUS
<1> HIDE DEF M, upto, Out
<1>6. next \in [S \X Nat -> S]
  <2>1. ASSUME NEW p \in S \X Nat PROVE Out(p[2] + 1) \o p[1] \in S
    <3>1. p[1] \in S /\ p[2] + 1 \in Nat
      OBVIOUS
    <3>2. Out(p[2] + 1) \in S
      BY <1>3, <3>1
    <3> HIDE DEF S
    <3>3. QED
      BY <3>1, <3>2, ConcatProperties DEF S
  <2> HIDE DEF S
  <2>2. QED
    BY <2>1
<1>7. PICK h \in [Nat -> S] : Iterates(h, <<>>, next)
  <2>1. <<>> \in S
    OBVIOUS
  <2> HIDE DEF next, S
  <2>2. QED
    BY <1>6, <2>1, IterationExists
<1>8. h[0] = <<>> /\ \A n \in Nat : h[n + 1] = Out(n + 1) \o h[n]
  <2>1. ASSUME NEW n \in Nat PROVE h[n + 1] = Out(n + 1) \o h[n]
    <3>1. h[n + 1] = next[<<h[n], n>>]
      <4> HIDE DEF next
      <4> QED BY <1>7 DEF Iterates
    <3>2. <<h[n], n>> \in S \X Nat
      <4> HIDE DEF S
      <4> QED OBVIOUS
    <3> HIDE DEF S
    <3>3. QED
      BY <3>1, <3>2
  <2>2. h[0] = <<>>
    BY <1>7 DEF Iterates
  <2>3. QED
    BY <2>1, <2>2
<1> HIDE DEF next, S
<1>9. Solves([n \in 0 .. M |-> h[n]])
  <2> DEFINE g == [n \in 0 .. M |-> h[n]]
             k == [n \in 0 .. M |-> IF n = 0 THEN <<>> ELSE Out(n) \o g[n - 1]]
  <2>1. ASSUME NEW n \in 0 .. M PROVE g[n] = k[n]
    <3>1. CASE n = 0
      BY <1>8, <3>1
    <3>2. CASE n # 0
      <4>1. n - 1 \in Nat /\ n - 1 \in 0 .. M /\ (n - 1) + 1 = n
        BY <1>1, <3>2
      <4>2. h[(n - 1) + 1] = Out((n - 1) + 1) \o h[n - 1]
        BY <1>8, <4>1
      <4>3. QED
        BY <3>2, <4>1, <4>2
    <3>3. QED
      BY <3>1, <3>2
  <2>2. g = k
    BY <2>1
  <2>3. QED
    BY <2>2
<1>10. Solves(upto)
  <2> HIDE DEF Solves
  <2> QED BY <1>9 DEF upto
<1>11. upto[0] = <<>> /\ \A n \in 1 .. M : upto[n] = Out(n) \o upto[n - 1]
  <2> DEFINE k == [n \in 0 .. M |-> IF n = 0 THEN <<>> ELSE Out(n) \o upto[n - 1]]
  <2>1. upto = k
    BY <1>10
  <2>2. k[0] = <<>> /\ \A n \in 1 .. M : k[n] = Out(n) \o upto[n - 1]
    BY <1>1
  <2> HIDE DEF k
  <2>3. QED
    BY <2>1, <2>2
<1> DEFINE Good == { n \in Nat : n <= M => Written(d, groups, upto[n], n) }
<1>12. \A n \in Nat : n \in Good
  <2>1. 0 \in Good
    <3>1. Written(d, groups, <<>>, 0)
      <4>1. \A c \in Client : ~(c <= 0)
        BY <1>1
      <4>2. QED
        BY <4>1 DEF Written
    <3>2. QED
      BY <1>11, <3>1
  <2>2. ASSUME NEW n \in Nat, n \in Good PROVE n + 1 \in Good
    <3>1. SUFFICES ASSUME n + 1 <= M PROVE Written(d, groups, upto[n + 1], n + 1)
      OBVIOUS
    <3>2. n + 1 \in 1 .. M /\ (n + 1) - 1 = n /\ n <= M
      BY <1>1, <3>1
    <3>3. Written(d, groups, upto[n], n) /\ upto[n + 1] = Out(n + 1) \o upto[n]
      BY <1>11, <2>2, <3>2
    <3>4. CASE n + 1 \in Client
      <4> DEFINE c == n + 1
      <4>1. c \in Client /\ c - 1 = n
        BY <3>2, <3>4
      <4> HIDE DEF c
      <4>2. Written(d, groups, decoded(d, groups[c]) \o upto[n], c)
        BY <3>3, <4>1, clientWritten
      <4>3. Out(c) = decoded(d, groups[c])
        BY <1>4, <4>1
      <4>4. QED
        BY <3>3, <4>2, <4>3 DEF c
    <3>5. CASE n + 1 \notin Client
      <4>1. upto[n] \in Seq(ItemType)
        BY <3>3 DEF Written
      <4>2. upto[n + 1] = upto[n]
        BY <1>5, <3>3, <3>5, <4>1, ConcatEmptySeq
      <4>3. \A c \in Client : c <= n + 1 => c <= n
        BY <1>1, <3>5
      <4> DEFINE items == upto[n]
      <4>4. Written(d, groups, items, n)
        BY <3>3
      <4> HIDE DEF items
      <4>5. Written(d, groups, items, n + 1)
        BY <4>3, <4>4 DEF Written
      <4>6. QED
        BY <4>2, <4>5 DEF items
    <3>6. QED
      BY <3>4, <3>5
  <2> HIDE DEF Good
  <2>3. QED
    BY <2>1, <2>2, Induction
<1>13. M \in Good /\ M <= M
  BY <1>1, <1>12
<1>14. QED
  BY <1>2, <1>13 DEF M

\* The items of a client from a clock on are the rest of its slice.
LEMMA itemsFromRuns ==
  ASSUME NEW d, Whole(d), NEW c \in Client, NEW state \in Nat
  PROVE  /\ Run(d, itemsFrom(d, c, state), c)
         /\ Len(itemsFrom(d, c, state)) > 0 => d.heap[itemsFrom(d, c, state)[1]].id.clock = state
         /\ \A k \in Refs(d) : d.heap[k].id.client = c /\ state <= d.heap[k].id.clock =>
               \E i \in 1 .. Len(itemsFrom(d, c, state)) : itemsFrom(d, c, state)[i] = k
<1> DEFINE s == d.store[c]
           L == Len(s)
           found == { i \in 0 .. L - 1 : d.heap[s[i + 1]].id.clock + d.heap[s[i + 1]].len > state }
           n == Search(L, found)
           out == SubSeq(s, n + 1, L)
<1>1. itemsFrom(d, c, state) = out
  BY DEF itemsFrom
<1>2. /\ d \in Docs /\ s \in Seq(Nat) /\ L \in Nat
      /\ \A i \in 1 .. L : s[i] \in Refs(d) /\ d.heap[s[i]].id = [client |-> c, clock |-> i - 1] /\ d.heap[s[i]].len = 1
  <2>1. d \in Docs /\ s \in Seq(Nat) /\ L \in Nat
    BY DocFields DEF Whole
  <2>2. \A i \in 1 .. L : s[i] \in Refs(d) /\ d.heap[s[i]].id = [client |-> c, clock |-> i - 1]
    BY DEF Whole
  <2>3. \A i \in 1 .. L : d.heap[s[i]].len = 1
    <3> HIDE DEF L, s
    <3> QED BY <2>2 DEF Whole
  <2>4. QED
    BY <2>1, <2>2, <2>3
<1> HIDE DEF s, L
<1>3. \A i \in 0 .. L - 1 : i \in found <=> state <= i
  <2>1. ASSUME NEW i \in 0 .. L - 1 PROVE d.heap[s[i + 1]].id.clock = i /\ d.heap[s[i + 1]].len = 1
    <3>1. i + 1 \in 1 .. L /\ (i + 1) - 1 = i
      BY <1>2
    <3>2. d.heap[s[i + 1]].id = [client |-> c, clock |-> (i + 1) - 1] /\ d.heap[s[i + 1]].len = 1
      BY <1>2, <3>1
    <3>3. QED
      BY <3>1, <3>2
  <2>2. QED
    BY <1>2, <2>1
<1> HIDE DEF found
<1>4. n \in 0 .. L
  BY <1>2, SearchInRange
<1>5. \A x \in 0 .. L - 1 : x \in found <=> n <= x
  <2>1. \A x \in 0 .. L - 1, y \in 0 .. L - 1 : x \in found /\ x <= y => y \in found
    BY <1>2, <1>3
  <2>2. QED
    BY <1>2, <2>1, SearchFindsFirst
<1> HIDE DEF n
<1>6. \A x \in 0 .. L - 1 : state <= x <=> n <= x
  BY <1>3, <1>5
<1>7. n < L => n = state
  <2>1. SUFFICES ASSUME n < L PROVE n = state
    OBVIOUS
  <2>2. n \in 0 .. L - 1 /\ (n > 0 => n - 1 \in 0 .. L - 1)
    BY <1>2, <1>4, <2>1
  <2>3. state <= n
    BY <1>6, <1>4, <2>2
  <2>4. CASE n = 0
    BY <2>3, <2>4
  <2>5. CASE n # 0
    <3>1. ~(state <= n - 1)
      BY <1>4, <1>6, <2>2, <2>5
    <3>2. QED
      BY <1>4, <2>3, <3>1
  <2>6. QED
    BY <2>4, <2>5
<1>8. /\ out \in Seq(Refs(d)) /\ Len(out) = L - n
      /\ \A i \in 1 .. L - n : out[i] = s[n + i]
  <2>1. \A i \in n + 1 .. L : s[i] \in Refs(d)
    <3>1. ASSUME NEW i \in n + 1 .. L PROVE s[i] \in Refs(d)
      <4>1. i \in 1 .. L
        BY <1>2, <1>4
      <4>2. QED
        BY <1>2, <4>1
    <3>2. QED
      BY <3>1
  <2>2. /\ SubSeq(s, n + 1, L) \in Seq(Refs(d))
        /\ Len(SubSeq(s, n + 1, L)) = IF n + 1 <= L THEN L - (n + 1) + 1 ELSE 0
        /\ \A i \in 1 .. L - (n + 1) + 1 : SubSeq(s, n + 1, L)[i] = s[(n + 1) + i - 1]
    <3>1. n + 1 \in Int /\ L \in Int
      BY <1>2, <1>4
    <3> DEFINE R == Refs(d)
    <3>2. \A i \in n + 1 .. L : s[i] \in R
      BY <2>1
    <3> HIDE DEF R
    <3>3. /\ SubSeq(s, n + 1, L) \in Seq(R)
          /\ Len(SubSeq(s, n + 1, L)) = IF n + 1 <= L THEN L - (n + 1) + 1 ELSE 0
          /\ \A i \in 1 .. L - (n + 1) + 1 : SubSeq(s, n + 1, L)[i] = s[(n + 1) + i - 1]
      BY <3>1, <3>2, SubSeqProperties
    <3>4. QED
      BY <3>3 DEF R
  <2>3. L - (n + 1) + 1 = L - n
    BY <1>2, <1>4
  <2>4. \A i \in 1 .. L - n : (n + 1) + i - 1 = n + i
    BY <1>2, <1>4
  <2>5. QED
    BY <1>2, <1>4, <2>2, <2>3, <2>4
<1> HIDE DEF out
<1>9. ASSUME NEW i \in 1 .. Len(out)
      PROVE  d.heap[out[i]].id = [client |-> c, clock |-> state + (i - 1)]
  <2>1. n + i \in 1 .. L /\ n < L /\ (n + i) - 1 = n + (i - 1) /\ i \in 1 .. L - n
    BY <1>2, <1>4, <1>8
  <2>2. out[i] = s[n + i] /\ n = state
    BY <1>7, <1>8, <2>1
  <2>3. d.heap[s[n + i]].id = [client |-> c, clock |-> (n + i) - 1]
    BY <1>2, <2>1
  <2>4. QED
    BY <2>1, <2>2, <2>3
<1>10. Len(out) > 0 => d.heap[out[1]].id.clock = state
  <2>1. SUFFICES ASSUME Len(out) > 0 PROVE d.heap[out[1]].id.clock = state
    OBVIOUS
  <2>2. 1 \in 1 .. Len(out)
    BY <1>8, <2>1
  <2>3. d.heap[out[1]].id = [client |-> c, clock |-> state + (1 - 1)]
    BY <1>9, <2>2
  <2>4. QED
    BY <2>3
<1>11. Run(d, out, c)
  <2>1. \A i \in 1 .. Len(out) : d.heap[out[i]].id = [client |-> c, clock |-> d.heap[out[1]].id.clock + (i - 1)]
    <3>1. ASSUME NEW i \in 1 .. Len(out)
          PROVE  d.heap[out[i]].id = [client |-> c, clock |-> d.heap[out[1]].id.clock + (i - 1)]
      <4>1. Len(out) > 0
        BY <1>8
      <4>2. QED
        BY <1>9, <1>10, <4>1
    <3>2. QED
      BY <3>1
  <2>2. QED
    BY <1>8, <2>1 DEF Run
<1>12. ASSUME NEW k \in Refs(d), d.heap[k].id.client = c, state <= d.heap[k].id.clock
       PROVE  \E i \in 1 .. Len(out) : out[i] = k
  <2> DEFINE m == d.heap[k].id.clock
  <2>1. m \in Nat /\ m < L /\ s[m + 1] = k
    <3>1. d.heap[k] \in ItemType
      BY <1>2, DocFields
    <3>2. m \in Nat
      BY <3>1, ItemFields
    <3>3. m < L /\ s[m + 1] = k
      BY <1>12 DEF Whole, s, L
    <3>4. QED
      BY <3>2, <3>3
  <2>2. state <= m
    BY <1>12
  <2> HIDE DEF m
  <2>3. n <= m
    BY <1>2, <1>6, <2>1, <2>2
  <2>4. (m + 1) - n \in 1 .. L - n /\ n + ((m + 1) - n) = m + 1
    BY <1>2, <1>4, <2>1, <2>3
  <2>5. out[(m + 1) - n] = k
    BY <1>8, <2>1, <2>4
  <2>6. QED
    BY <1>8, <2>4, <2>5
<1>13. QED
  BY <1>1, <1>10, <1>11, <1>12

\* The answer to a state vector is what the asking document lacks, and it can read it.
LEMMA EncodeStateAnswers ==
  ASSUME WideChar = {}, Client # {}, NEW d, Whole(d), NEW e, Whole(e),
         NEW u, u = EncodeStateAsUpdate(d, stateVector(e))
  PROVE  /\ u.items \in Seq(ItemType) /\ u.dels = <<>>
         /\ Readable(e, u.items)
         /\ \A j \in 1 .. Len(u.items) : \E k \in Refs(d) : Spells(u.items[j], d.heap[k])
         /\ \A k \in Refs(d) : Held(e, d.heap[k].id) \/ \E j \in 1 .. Len(u.items) : u.items[j].id = d.heap[k].id
<1> DEFINE sv == stateVector(e)
           groups == [c \in Client |-> itemsFrom(d, c, sv[c])]
           items == writeUpdateV1(d, groups)
<1>1. u.items = items /\ u.dels = <<>>
  BY DEF EncodeStateAsUpdate
<1>2. d \in Docs /\ e \in Docs
  BY DEF Whole
<1>3. \A c \in Client : sv[c] = Len(e.store[c]) /\ sv[c] \in Nat
  <2>1. \A c \in Client : sv[c] = getState(e, c)
    BY DEF stateVector
  <2>2. \A c \in Client : Len(e.store[c]) \in Nat
    BY <1>2, DocFields
  <2>3. QED
    BY <2>1, <2>2, getStateCounts
<1> HIDE DEF sv
<1>4. /\ \A c \in Client : Run(d, groups[c], c)
      /\ \A c \in Client : Len(groups[c]) > 0 => d.heap[groups[c][1]].id.clock = sv[c]
      /\ \A c \in Client : \A k \in Refs(d) : d.heap[k].id.client = c /\ sv[c] <= d.heap[k].id.clock =>
               \E i \in 1 .. Len(groups[c]) : groups[c][i] = k
  <2>1. \A c \in Client : groups[c] = itemsFrom(d, c, sv[c])
    OBVIOUS
  <2> HIDE DEF groups
  <2>2. QED
    BY <1>3, <2>1, itemsFromRuns
<1> HIDE DEF groups
<1>5. Written(d, groups, items, Max(Client))
  BY <1>4, writeUpdateV1Writes
<1> HIDE DEF items
<1>6. ASSUME NEW c \in Client, NEW i \in 1 .. Len(groups[c])
      PROVE  groups[c][i] \in Refs(d) /\ d.heap[groups[c][i]].id \in IdType /\ d.heap[groups[c][i]].id.client = c
  <2>1. groups[c] \in Seq(Refs(d)) /\ d.heap[groups[c][i]].id = [client |-> c, clock |-> d.heap[groups[c][1]].id.clock + (i - 1)]
    BY <1>4 DEF Run
  <2>2. groups[c][i] \in Refs(d)
    BY <2>1
  <2>3. d.heap[groups[c][i]] \in ItemType
    BY <1>2, <2>2, DocFields
  <2>4. QED
    BY <2>1, <2>2, <2>3, ItemFields
<1>7. ASSUME NEW j \in 1 .. Len(items)
      PROVE  /\ Wire(items[j])
             /\ \E k \in Refs(d) : Spells(items[j], d.heap[k])
             /\ \/ items[j].id.clock = 0
                \/ Held(e, Before(items[j].id))
                \/ \E i \in 1 .. j - 1 : items[i].id = Before(items[j].id)
  <2>1. PICK c \in Client : \E i \in 1 .. Len(groups[c]) :
                /\ Spells(items[j], d.heap[groups[c][i]])
                /\ i = 1 \/ \E h \in 1 .. j - 1 : items[h].id = Before(items[j].id)
    BY <1>5 DEF Written
  <2>2. PICK i \in 1 .. Len(groups[c]) :
                /\ Spells(items[j], d.heap[groups[c][i]])
                /\ i = 1 \/ \E h \in 1 .. j - 1 : items[h].id = Before(items[j].id)
    BY <2>1
  <2>3. Wire(items[j]) /\ \E k \in Refs(d) : Spells(items[j], d.heap[k])
    BY <1>5, <1>6, <2>2 DEF Written
  <2>4. ASSUME i = 1, items[j].id.clock # 0 PROVE Held(e, Before(items[j].id))
    <3> DEFINE id == items[j].id
    <3>1. id = d.heap[groups[c][1]].id /\ Len(groups[c]) > 0
      <4>1. Len(groups[c]) \in Nat
        BY <1>4 DEF Run
      <4>2. QED
        BY <2>2, <2>4, <4>1 DEF Spells, Says
    <3>2. id \in IdType /\ id.client = c /\ id.clock = sv[c]
      BY <1>4, <1>6, <2>2, <2>4, <3>1
    <3>3. id.clock # 0
      BY <2>4
    <3> HIDE DEF id
    <3>4. Before(id).client = c /\ Before(id).clock = sv[c] - 1
      BY <3>2 DEF Before
    <3>5. Held(e, Before(id))
      BY <1>3, <3>2, <3>3, <3>4 DEF Held
    <3>6. QED
      BY <3>5 DEF id
  <2>5. QED
    BY <2>2, <2>3, <2>4
<1>8. ASSUME NEW k \in Refs(d), ~Held(e, d.heap[k].id)
      PROVE  \E j \in 1 .. Len(items) : items[j].id = d.heap[k].id
  <2> DEFINE id == d.heap[k].id
             c == id.client
  <2>1. id \in IdType /\ c \in Client /\ id.clock \in Nat
    <3>1. d.heap[k] \in ItemType
      BY <1>2, DocFields
    <3>2. QED
      BY <3>1, ItemFields
  <2>2. sv[c] <= id.clock
    BY <1>3, <1>8, <2>1 DEF Held
  <2>3. PICK i \in 1 .. Len(groups[c]) : groups[c][i] = k
    BY <1>4, <2>1, <2>2
  <2>4. c <= Max(Client)
    BY <2>1, MaxClient
  <2>5. QED
    BY <1>5, <2>1, <2>3, <2>4 DEF Written
<1>9. items \in Seq(ItemType)
  BY <1>5 DEF Written
<1>10. QED
  BY <1>1, <1>7, <1>8, <1>9 DEF Readable

\* What an update inserts and what it deletes.
ItemIds(u) == { u.items[j].id : j \in 1 .. Len(u.items) }
DelIds(u)  == UNION { Covered(u.dels[j]) : j \in 1 .. Len(u.dels) }

\* u says what the items of a transaction say, each the first of them or after the
\* one before it, and deletes what the transaction deletes.
Announces(d, u, items, dels) ==
    /\ u.items \in Seq(ItemType)
    /\ u.dels \in Seq(Ranges)
    /\ \A j \in 1 .. Len(u.items) :
          /\ Wire(u.items[j])
          /\ \E i \in 1 .. Len(items) :
                /\ Spells(u.items[j], d.heap[items[i]])
                /\ i = 1 \/ \E h \in 1 .. j - 1 : u.items[h].id = Before(u.items[j].id)
    /\ \A i \in 1 .. Len(items) : d.heap[items[i]].id \in ItemIds(u)
    /\ \A id \in IdType : id \in DelIds(u) <=> \E i \in 1 .. Len(dels) : d.heap[dels[i]].id = id

\* A transaction of one client is announced whole.
LEMMA encodeUpdateV1Announces ==
  ASSUME WideChar = {}, NEW d, Whole(d), NEW c \in Client,
         NEW items, Run(d, items, c), NEW dels \in Seq(Refs(d))
  PROVE  Announces(d, encodeUpdateV1(d, items, dels), items, dels)
<1> DEFINE groups == ofClient(d, items)
           u == encodeUpdateV1(d, items, dels)
           out == writeUpdateV1(d, groups)
           Of(q) == { r \in DOMAIN d.heap : d.heap[r].id.client = q }
<1>1. d \in Docs /\ items \in Seq(Refs(d)) /\ DOMAIN d.heap = Refs(d)
  BY DocFields DEF Whole, Run
<1>2. \A i \in 1 .. Len(items) : items[i] \in Refs(d) /\ d.heap[items[i]].id.client = c
  <2>1. \A i \in 1 .. Len(items) : d.heap[items[i]].id = [client |-> c, clock |-> d.heap[items[1]].id.clock + (i - 1)]
    BY DEF Run
  <2>2. ASSUME NEW i \in 1 .. Len(items) PROVE items[i] \in Refs(d) /\ d.heap[items[i]].id.client = c
    <3>1. items[i] \in Refs(d)
      BY <1>1
    <3>2. d.heap[items[i]].id = [client |-> c, clock |-> d.heap[items[1]].id.clock + (i - 1)]
      BY <2>1
    <3>3. QED
      BY <3>1, <3>2
  <2>3. QED
    BY <2>2
<1>3. \A q \in Client : groups[q] = Among(items, Of(q))
  BY DEF ofClient
<1>4. \A q \in Client : groups[q] = IF q = c THEN items ELSE <<>>
  <2>1. ASSUME NEW q \in Client, q = c PROVE Among(items, Of(q)) = items
    <3> DEFINE S == Of(q)
    <3>1. \A i \in 1 .. Len(items) : items[i] \in S
      BY <1>1, <1>2, <2>1
    <3> HIDE DEF S
    <3>2. QED
      <4>1. Among(items, S) = items
        <5> DEFINE R == Refs(d)
                   s == items
        <5>1. s \in Seq(R)
          BY <1>1
        <5>2. \A i \in 1 .. Len(s) : s[i] \in S
          BY <3>1
        <5> HIDE DEF R, s
        <5>3. Among(s, S) = s
          BY <5>1, <5>2, AmongSelects
        <5>4. QED
          BY <5>3 DEF s
      <4>2. QED
        BY <4>1 DEF S
  <2>2. ASSUME NEW q \in Client, q # c PROVE Among(items, Of(q)) = <<>>
    <3> DEFINE S == Of(q)
    <3>1. \A i \in 1 .. Len(items) : items[i] \notin S
      BY <1>1, <1>2, <2>2
    <3> HIDE DEF S
    <3>2. QED
      <4>1. Among(items, S) = <<>>
        BY <1>1, <3>1, AmongSelects
      <4>2. QED
        BY <4>1 DEF S
  <2> HIDE DEF Of, groups
  <2>3. QED
    BY <1>3, <2>1, <2>2
<1> HIDE DEF groups, Of
<1>5. \A q \in Client : Run(d, groups[q], q)
  <2>1. \A q \in Client : Run(d, <<>>, q)
    BY DEF Run
  <2>2. QED
    BY <1>4, <2>1
<1>6. Written(d, groups, out, Max(Client)) /\ c <= Max(Client)
  <2>1. Client # {}
    OBVIOUS
  <2>2. Written(d, groups, writeUpdateV1(d, groups), Max(Client))
    BY <1>5, <2>1, writeUpdateV1Writes
  <2>3. QED
    BY <2>1, <2>2, MaxClient
<1>7. /\ u.items = out
      /\ u.dels = [k \in DOMAIN dels |-> [client |-> d.heap[dels[k]].id.client,
                                          clock  |-> d.heap[dels[k]].id.clock,
                                          len    |-> d.heap[dels[k]].len]]
  BY DEF encodeUpdateV1, groups
<1> HIDE DEF out, u
<1>8. u.items \in Seq(ItemType)
  BY <1>6, <1>7 DEF Written
<1>9. ASSUME NEW j \in 1 .. Len(u.items)
      PROVE  /\ Wire(u.items[j])
             /\ \E i \in 1 .. Len(items) :
                   /\ Spells(u.items[j], d.heap[items[i]])
                   /\ i = 1 \/ \E h \in 1 .. j - 1 : u.items[h].id = Before(u.items[j].id)
  <2>1. /\ Wire(out[j])
        /\ \E q \in Client : \E i \in 1 .. Len(groups[q]) :
              /\ Spells(out[j], d.heap[groups[q][i]])
              /\ i = 1 \/ \E h \in 1 .. j - 1 : out[h].id = Before(out[j].id)
    BY <1>6, <1>7 DEF Written
  <2>2. PICK q \in Client : \E i \in 1 .. Len(groups[q]) :
              /\ Spells(out[j], d.heap[groups[q][i]])
              /\ i = 1 \/ \E h \in 1 .. j - 1 : out[h].id = Before(out[j].id)
    BY <2>1
  <2>3. groups[q] = items
    <3>1. Len(groups[q]) # 0
      BY <2>2
    <3>2. QED
      BY <1>4, <3>1
  <2>4. QED
    BY <1>7, <2>1, <2>2, <2>3
<1>10. \A i \in 1 .. Len(items) : d.heap[items[i]].id \in ItemIds(u)
  <2>1. groups[c] = items
    BY <1>4
  <2>2. \A i \in 1 .. Len(items) : \E j \in 1 .. Len(out) : out[j].id = d.heap[items[i]].id
    BY <1>6, <2>1 DEF Written
  <2>3. QED
    BY <1>7, <2>2 DEF ItemIds
<1>11. /\ u.dels \in Seq(Ranges) /\ Len(u.dels) = Len(dels)
       /\ \A i \in 1 .. Len(dels) : d.heap[dels[i]].id \in IdType /\ Covered(u.dels[i]) = {d.heap[dels[i]].id}
  <2>1. ASSUME NEW i \in 1 .. Len(dels)
        PROVE  /\ u.dels[i] = [client |-> d.heap[dels[i]].id.client, clock |-> d.heap[dels[i]].id.clock, len |-> 1]
               /\ d.heap[dels[i]].id \in IdType
               /\ u.dels[i] \in Ranges
    <3>1. dels[i] \in Refs(d)
      OBVIOUS
    <3>2. d.heap[dels[i]] \in ItemType /\ d.heap[dels[i]].len = 1
      BY <1>1, <3>1, DocFields DEF Whole
    <3>3. i \in DOMAIN dels
      OBVIOUS
    <3>4. u.dels[i] = [client |-> d.heap[dels[i]].id.client, clock |-> d.heap[dels[i]].id.clock, len |-> 1]
      BY <1>7, <3>2, <3>3
    <3>5. d.heap[dels[i]].id \in IdType /\ d.heap[dels[i]].id.client \in Client /\ d.heap[dels[i]].id.clock \in Nat
      BY <3>2, ItemFields
    <3>6. QED
      BY <3>4, <3>5 DEF Ranges
  <2>2. u.dels = [k \in 1 .. Len(dels) |-> u.dels[k]] /\ Len(dels) \in Nat
    BY <1>7
  <2>3. u.dels \in Seq(Ranges) /\ Len(u.dels) = Len(dels)
    <3> DEFINE s == u.dels
               n == Len(dels)
    <3>1. s = [k \in 1 .. n |-> s[k]] /\ n \in Nat /\ \A k \in 1 .. n : s[k] \in Ranges
      BY <2>1, <2>2
    <3> HIDE DEF s, n
    <3>2. s \in Seq(Ranges) /\ Len(s) = n
      <4>1. s \in [1 .. n -> Ranges]
        BY <3>1
      <4>2. QED
        BY <3>1, <4>1
    <3>3. QED
      BY <3>2 DEF s, n
  <2>4. ASSUME NEW i \in 1 .. Len(dels) PROVE Covered(u.dels[i]) = {d.heap[dels[i]].id}
    <3> DEFINE id == d.heap[dels[i]].id
               r == u.dels[i]
    <3>1. r = [client |-> id.client, clock |-> id.clock, len |-> 1] /\ id \in IdType
      BY <2>1
    <3> HIDE DEF id, r
    <3>2. \A k : k \in 0 .. r.len - 1 <=> k = 0
      BY <3>1
    <3>3. Covered(r) = { [client |-> r.client, clock |-> r.clock + k] : k \in {0} }
      BY <3>2 DEF Covered
    <3>4. r.clock + 0 = id.clock /\ id = [client |-> id.client, clock |-> id.clock]
      BY <3>1 DEF IdType
    <3>5. Covered(r) = {id}
      BY <3>1, <3>3, <3>4
    <3>6. QED
      BY <3>5 DEF id, r
  <2>5. QED
    BY <2>1, <2>3, <2>4
<1>12. \A id \in IdType : id \in DelIds(u) <=> \E i \in 1 .. Len(dels) : d.heap[dels[i]].id = id
  <2>1. \A id : id \in DelIds(u) <=> \E i \in 1 .. Len(u.dels) : id \in Covered(u.dels[i])
    BY DEF DelIds
  <2>2. ASSUME NEW id \in IdType
        PROVE  id \in DelIds(u) <=> \E i \in 1 .. Len(dels) : d.heap[dels[i]].id = id
    <3>1. id \in DelIds(u) <=> \E i \in 1 .. Len(dels) : id \in Covered(u.dels[i])
      BY <1>11, <2>1
    <3>2. \A i \in 1 .. Len(dels) : id \in Covered(u.dels[i]) <=> d.heap[dels[i]].id = id
      BY <1>11
    <3>3. QED
      BY <3>1, <3>2
  <2>3. QED
    BY <2>2
<1>13. Announces(d, u, items, dels)
  BY <1>8, <1>9, <1>10, <1>11, <1>12 DEF Announces
<1>14. QED
  BY <1>13 DEF u

\* The elements of a sequence.
LEMMA SeqElements ==
  ASSUME NEW S, NEW s \in Seq(S)
  PROVE  Len(s) \in Nat /\ \A i \in 1 .. Len(s) : s[i] \in S
OBVIOUS

-----------------------------------------------------------------------------
(***************************************************************************)
(* Local edits.                                                            *)
(***************************************************************************)
\* e is d with n new items of the client c, the last of the heap and of its slice;
\* no item is deleted but the value of a key.
Typed(d, e, c, n) ==
    /\ Sound(e)
    /\ Len(e.heap) = Len(d.heap) + n
    /\ Extends(d, e)
    /\ e.ds = d.ds
    /\ Len(e.store[c]) = Len(d.store[c]) + n
    /\ \A k \in Refs(d) : /\ d.heap[k].deleted => e.heap[k].deleted
                          /\ e.heap[k].deleted => d.heap[k].deleted \/ d.heap[k].list \in Key
    /\ \A i \in 1 .. n : /\ e.heap[Len(d.heap) + i].id = [client |-> c, clock |-> Len(d.store[c]) + (i - 1)]
                         /\ e.heap[Len(d.heap) + i].deleted => e.heap[Len(d.heap) + i].list \in Key

\* An edit after an edit.
LEMMA TypedAfter ==
  ASSUME NEW d, Sound(d), NEW c \in Client, NEW n \in Nat,
         NEW e, Typed(d, e, c, n), NEW f, Typed(e, f, c, 1)
  PROVE  Typed(d, f, c, n + 1)
<1>1. /\ Len(d.heap) \in Nat /\ Len(d.store[c]) \in Nat
      /\ Len(e.heap) = Len(d.heap) + n /\ Len(e.store[c]) = Len(d.store[c]) + n
      /\ Len(f.heap) = Len(d.heap) + (n + 1) /\ Len(f.store[c]) = Len(d.store[c]) + (n + 1)
      /\ Len(d.heap) <= Len(f.heap)
  <2>1. d \in Docs
    BY DEF Sound, Whole
  <2>2. Len(d.heap) \in Nat /\ Len(d.store[c]) \in Nat
    BY <2>1, DocFields
  <2>3. /\ Len(e.heap) = Len(d.heap) + n /\ Len(e.store[c]) = Len(d.store[c]) + n
        /\ Len(f.heap) = Len(e.heap) + 1 /\ Len(f.store[c]) = Len(e.store[c]) + 1
    BY DEF Typed
  <2> DEFINE a == Len(d.heap)
             b == Len(d.store[c])
  <2>4. /\ a \in Nat /\ b \in Nat /\ Len(e.heap) = a + n /\ Len(e.store[c]) = b + n
        /\ Len(f.heap) = Len(e.heap) + 1 /\ Len(f.store[c]) = Len(e.store[c]) + 1
    BY <2>2, <2>3
  <2> HIDE DEF a, b
  <2>5. Len(f.heap) = a + (n + 1) /\ Len(f.store[c]) = b + (n + 1) /\ a <= Len(f.heap)
    BY <2>4
  <2>6. QED
    BY <2>4, <2>5 DEF a, b
<1>2. \A k \in Refs(d) : k \in Refs(e)
  BY <1>1 DEF Refs
<1>3. ASSUME NEW k \in Refs(d)
      PROVE  /\ SameItem(f.heap[k], d.heap[k])
             /\ d.heap[k].deleted => f.heap[k].deleted
             /\ f.heap[k].deleted => d.heap[k].deleted \/ d.heap[k].list \in Key
  <2>1. SameItem(f.heap[k], e.heap[k]) /\ SameItem(e.heap[k], d.heap[k])
    BY <1>2 DEF Typed, Extends
  <2>2. SameItem(f.heap[k], d.heap[k]) /\ e.heap[k].list = d.heap[k].list
    BY <2>1 DEF SameItem
  <2>3. QED
    BY <1>2, <2>2 DEF Typed
<1>4. ASSUME NEW i \in 1 .. n + 1
      PROVE  /\ f.heap[Len(d.heap) + i].id = [client |-> c, clock |-> Len(d.store[c]) + (i - 1)]
             /\ f.heap[Len(d.heap) + i].deleted => f.heap[Len(d.heap) + i].list \in Key
  <2>1. CASE i \in 1 .. n
    <3> DEFINE k == Len(d.heap) + i
    <3>1. k \in Refs(e)
      BY <1>1, <2>1 DEF Refs
    <3>2. e.heap[k].id = [client |-> c, clock |-> Len(d.store[c]) + (i - 1)] /\ (e.heap[k].deleted => e.heap[k].list \in Key)
      BY <2>1 DEF Typed
    <3>4. SameItem(f.heap[k], e.heap[k])
      BY <3>1 DEF Typed, Extends
    <3> HIDE DEF k
    <3>5. f.heap[k].id = [client |-> c, clock |-> Len(d.store[c]) + (i - 1)]
      BY <3>2, <3>4 DEF SameItem
    <3>6. f.heap[k].deleted => f.heap[k].list \in Key
      BY <3>1, <3>2, <3>4 DEF Typed, SameItem
    <3>7. QED
      BY <3>5, <3>6 DEF k
  <2>2. CASE i = n + 1
    <3> DEFINE a == Len(d.heap)
               b == Len(d.store[c])
    <3>1. Len(d.heap) + i = Len(e.heap) + 1 /\ Len(d.store[c]) + (i - 1) = Len(e.store[c]) + (1 - 1) /\ 1 \in 1 .. 1
      <4>1. a \in Nat /\ b \in Nat /\ Len(e.heap) = a + n /\ Len(e.store[c]) = b + n
        BY <1>1
      <4> HIDE DEF a, b
      <4>2. a + i = Len(e.heap) + 1 /\ b + (i - 1) = Len(e.store[c]) + (1 - 1) /\ 1 \in 1 .. 1
        BY <2>2, <4>1
      <4>3. QED
        BY <4>2 DEF a, b
    <3>2. QED
      BY <3>1 DEF Typed
  <2>3. QED
    BY <2>1, <2>2
<1>5. Sound(f) /\ f.ds = d.ds
  BY DEF Typed
<1>6. Extends(d, f)
  <2>1. Len(d.heap) <= Len(f.heap)
    BY <1>1
  <2>2. QED
    BY <1>3, <2>1 DEF Extends
<1>7. QED
  BY <1>1, <1>3, <1>4, <1>5, <1>6 DEF Typed

\* e is d with a new item of c linked after left, its origin, and before right.
Laid(d, e, c, l, left, right, v) ==
    \E x : /\ Fits(d, x)
           /\ x.id = [client |-> c, clock |-> Len(d.store[c])]
           /\ x.str = <<v>> /\ x.list = l /\ ~x.deleted
           /\ x.oleft = IF left = Nil THEN NoID ELSE d.heap[left].id
           /\ Linked(d, e, x, left, right)

\* A new item of one character is put between two items of its list.
LEMMA placeTypes ==
  ASSUME NEW d, Sound(d), NEW rank, Ranked(d, rank), NEW c \in Client, NEW l \in List,
         NEW left \in {Nil} \cup Refs(d), NEW right \in {Nil} \cup Refs(d),
         left # Nil => d.heap[left].list = l /\ rank[right] < rank[left],
         right # Nil => d.heap[right].list = l,
         NEW v \in 1 .. MaxChars
  PROVE  LET e == place(d, c, getState(d, c), l, left, right, <<v>>)
         IN  /\ Typed(d, e, c, 1)
             /\ e.heap[Len(d.heap) + 1].right = right
             /\ e.heap[Len(d.heap) + 1].list = l
             /\ Laid(d, e, c, l, left, right, v)
<1> DEFINE n == Len(d.heap) + 1
           prev == d.heap[left]
           it == [id      |-> [client |-> c, clock |-> getState(d, c)],
                  len     |-> Len(<<v>>),
                  str     |-> <<v>>,
                  oleft   |-> IF left = Nil THEN NoID
                              ELSE [prev.id EXCEPT !.clock = @ + prev.len - 1],
                  right   |-> Nil,
                  deleted |-> FALSE,
                  list    |-> l]
           e == place(d, c, getState(d, c), l, left, right, <<v>>)
<1>1. e = link(addItem(d, it), n, left, right, it.list)
  BY DEF place, Fresh
<1>2. d \in Docs /\ Whole(d) /\ Listed(d)
  BY DEF Sound, Whole
<1>3. getState(d, c) = Len(d.store[c]) /\ Len(d.store[c]) \in Nat /\ Len(d.heap) \in Nat
  BY <1>2, getStateCounts, DocFields
<1>4. it.oleft \in IdType \cup {NoID}
  <2>1. CASE left = Nil
    BY <2>1
  <2>2. CASE left # Nil
    <3>1. left \in Refs(d) /\ prev \in ItemType /\ prev.len = 1
      BY <1>2, <2>2, DocFields DEF Whole
    <3> HIDE DEF prev
    <3>2. prev.id \in IdType
      BY <3>1, ItemFields
    <3>3. [prev.id EXCEPT !.clock = @ + prev.len - 1] \in IdType
      BY <3>1, <3>2 DEF IdType
    <3>4. QED
      BY <2>2, <3>3
  <2>3. QED
    BY <2>1, <2>2
<1>5. /\ it.id = [client |-> c, clock |-> Len(d.store[c])] /\ it.len = 1 /\ Len(it.str) = 1
      /\ it.right = Nil /\ ~it.deleted /\ it.list = l /\ it.str = <<v>>
  BY <1>3
<1>14. it.oleft = IF left = Nil THEN NoID ELSE d.heap[left].id
  <2>1. CASE left = Nil
    BY <2>1
  <2>2. CASE left # Nil
    <3>1. left \in Refs(d) /\ prev \in ItemType /\ prev.len = 1
      BY <1>2, <2>2, DocFields DEF Whole
    <3> HIDE DEF prev
    <3>2. prev.id \in IdType
      BY <3>1, ItemFields
    <3>3. [prev.id EXCEPT !.clock = @ + prev.len - 1] = prev.id
      BY <3>1, <3>2 DEF IdType
    <3>4. QED
      BY <2>2, <3>3 DEF prev
  <2>3. QED
    BY <2>1, <2>2
<1>6. it \in ItemType
  <2>1. it.id \in IdType /\ it.str \in Seq(1 .. MaxChars) /\ it.list \in List \cup {NoList}
    BY <1>3, <1>5 DEF IdType
  <2>2. it.len \in Nat /\ it.right \in Nat /\ it.deleted \in BOOLEAN
    BY <1>5 DEF Nil
  <2>3. QED
    BY <1>4, <2>1, <2>2 DEF ItemType
<1> HIDE DEF it
<1>7. Fits(d, it)
  BY <1>5, <1>6 DEF Fits
<1> HIDE DEF e
<1>8. Grows(d, e, it) /\ Sound(e) /\ e.heap[Len(d.heap) + 1].right = right
  <2>1. /\ e = link(addItem(d, it), Len(d.heap) + 1, left, right, it.list)
        /\ it.list \in List
        /\ left # Nil => d.heap[left].list = it.list /\ rank[right] < rank[left]
        /\ right # Nil => d.heap[right].list = it.list
    BY <1>1, <1>5 DEF n
  <2>2. QED
    BY <1>2, <1>7, <2>1, linkSound
<1>9. e.heap[n].id = [client |-> c, clock |-> Len(d.store[c]) + (1 - 1)] /\ ~e.heap[n].deleted /\ e.heap[n].list = l
  BY <1>3, <1>5, <1>8 DEF Grows, SameItem, n
<1>10. Len(e.store[c]) = Len(d.store[c]) + 1
  <2>1. e.store = [d.store EXCEPT ![c] = Append(@, n)]
    BY <1>5, <1>8 DEF Grows, n
  <2>2. d.store \in [Client -> Seq(Nat)] /\ n \in Nat
    BY <1>2, <1>3, DocFields DEF n
  <2> HIDE DEF n
  <2>3. QED
    BY <2>1, <2>2
<1>11. Extends(d, e)
  BY <1>3, <1>8 DEF Grows, Extends
<1>12. Typed(d, e, c, 1)
  <2>1. \A i \in 1 .. 1 : i = 1
    OBVIOUS
  <2>2. \A k \in Refs(d) : e.heap[k].deleted = d.heap[k].deleted
    BY <1>8 DEF Grows
  <2>3. Len(e.heap) = Len(d.heap) + 1 /\ e.ds = d.ds
    BY <1>8 DEF Grows
  <2>4. \A i \in 1 .. 1 : /\ e.heap[Len(d.heap) + i].id = [client |-> c, clock |-> Len(d.store[c]) + (i - 1)]
                          /\ e.heap[Len(d.heap) + i].deleted => e.heap[Len(d.heap) + i].list \in Key
    BY <1>9, <2>1 DEF n
  <2>5. QED
    BY <1>8, <1>10, <1>11, <2>2, <2>3, <2>4 DEF Typed
<1>13. Linked(d, e, it, left, right)
  <2>1. e = link(addItem(d, it), Len(d.heap) + 1, left, right, it.list) /\ it.list \in List
    BY <1>1, <1>5 DEF n
  <2>2. QED
    BY <1>2, <1>7, <2>1, linkFields
<1>15. Laid(d, e, c, l, left, right, v)
  BY <1>5, <1>7, <1>13, <1>14 DEF Laid
<1>16. QED
  BY <1>8, <1>9, <1>12, <1>15 DEF e, n

\* The chain and the live items of a list are items of that list.
LEMMA chainOfList ==
  ASSUME NEW d, Sound(d), NEW l \in List
  PROVE  chain(d, d.start[l]) \in Seq(OfList(d, l)) /\ live(d, l) \in Seq(OfList(d, l))
<1> DEFINE X == OfList(d, l)
           first == d.start[l]
           refs == chain(d, first)
           S == { r \in DOMAIN d.heap : ~d.heap[r].deleted }
<1>1. d \in Docs /\ Listed(d)
  BY DEF Sound, Whole
<1>2. PICK rank : Ranked(d, rank)
  BY DEF Sound
<1>3. X \subseteq Refs(d) /\ \A k \in X : d.heap[k].right \in {Nil} \cup X
  BY <1>1 DEF Listed, OfList
<1>4. first \in {Nil} \cup X
  BY <1>1 DEF Listed, OfList
<1> HIDE DEF X, first
<1>5. Follows(d, first, chain(d, first), X)
  BY <1>1, <1>2, <1>3, <1>4, chainFollows
<1>6. refs \in Seq(X)
  BY <1>5 DEF Follows
<1>7. live(d, l) = Among(refs, S)
  BY DEF live, first
<1> HIDE DEF refs, S
<1>8. Among(refs, S) \in Seq(X \cap S)
  BY <1>6, AmongSelects
<1>9. Among(refs, S) \in Seq(X)
  <2>1. X \cap S \subseteq X
    OBVIOUS
  <2>2. QED
    BY <1>8, <2>1
<1>10. QED
  BY <1>6, <1>7, <1>9 DEF refs, first, X

\* Nothing is typed yet.
LEMMA TypedNothing ==
  ASSUME NEW d, Sound(d), NEW c \in Client
  PROVE  Typed(d, d, c, 0)
<1>1. Len(d.heap) \in Nat /\ Len(d.store[c]) \in Nat
  BY DocFields DEF Sound, Whole
<1> DEFINE a == Len(d.heap)
           b == Len(d.store[c])
<1>2. a = a + 0 /\ b = b + 0 /\ a <= a
  <2> HIDE DEF a, b
  <2>1. a \in Nat /\ b \in Nat
    BY <1>1 DEF a, b
  <2>2. QED
    BY <2>1
<1>3. Extends(d, d)
  BY <1>2 DEF Extends, SameItem
<1>4. \A i \in 1 .. 0 : FALSE
  OBVIOUS
<1>5. QED
  BY <1>2, <1>3, <1>4 DEF Typed

\* The visible length of a list is a number.
LEMMA textLenNat ==
  ASSUME NEW d, Sound(d), NEW l \in List
  PROVE  textLen(d, l) \in Nat
<1> DEFINE N == Len(live(d, l))
           Turn(a, n) == a + d.heap[live(d, l)[n]].len
           next == [p \in Nat \X Nat |-> IF p[2] < N /\ Turn(p[1], p[2] + 1) \in Nat
                                          THEN Turn(p[1], p[2] + 1) ELSE p[1]]
           Solves(g) == g = [n \in 0 .. N |-> IF n = 0 THEN 0 ELSE Turn(g[n - 1], n)]
           f == CHOOSE x : Solves(x)
<1>1. textLen(d, l) = f[N]
  BY DEF Loop, textLen
<1>2. N \in Nat /\ 0 \in Nat
  BY chainOfList
<1>3. \A m \in Nat : m + 1 <= N => \A e : e \in Nat => Turn(e, m + 1) \in Nat
  <2>1. live(d, l) \in Seq(OfList(d, l))
    BY chainOfList
  <2>2. \A n \in 1 .. N : live(d, l)[n] \in Refs(d)
    <3> DEFINE X == OfList(d, l)
               refs == live(d, l)
    <3>1. X \subseteq Refs(d)
      BY DEF OfList
    <3>2. refs \in Seq(X)
      BY <2>1
    <3> HIDE DEF X, refs
    <3>3. \A n \in 1 .. Len(refs) : refs[n] \in X
      BY <3>2, SeqElements
    <3>4. QED
      BY <3>1, <3>3 DEF refs
  <2>3. \A n \in 1 .. N : d.heap[live(d, l)[n]].len = 1
    BY <2>2 DEF Sound, Whole
  <2>4. ASSUME NEW m \in Nat, m + 1 <= N PROVE m + 1 \in 1 .. N
    BY <2>4
  <2>5. QED
    BY <2>3, <2>4
<1>4. \A m \in Nat : \A e : e \in Nat => e \in Nat
  OBVIOUS
<1>5. 0 \in Nat
  OBVIOUS
<1> HIDE DEF f, N, Turn
<1>6. next \in [Nat \X Nat -> Nat]
  OBVIOUS
<1>7. PICK h \in [Nat -> Nat] : Iterates(h, 0, next)
  <2> HIDE DEF next
  <2> QED BY <1>2, <1>6, IterationExists
<1>8. ASSUME NEW n \in Nat, n < N, Turn(h[n], n + 1) \in Nat
      PROVE  h[n + 1] = Turn(h[n], n + 1)
  <2>1. h[n + 1] = next[<<h[n], n>>]
    <3> HIDE DEF next
    <3> QED BY <1>7 DEF Iterates
  <2>2. <<h[n], n>> \in Nat \X Nat
    OBVIOUS
  <2>3. QED
    BY <1>8, <2>1, <2>2
<1>9. h[0] = 0
  BY <1>7 DEF Iterates
<1> HIDE DEF next
<1> DEFINE Good == { n \in Nat : n <= N => h[n] \in Nat }
<1>10. \A n \in Nat : n \in Good
  <2>1. 0 \in Good
    BY <1>5, <1>9
  <2>2. ASSUME NEW n \in Nat, n \in Good PROVE n + 1 \in Good
    <3>1. SUFFICES ASSUME n + 1 <= N PROVE h[n + 1] \in Nat
      OBVIOUS
    <3>2. h[n] \in Nat /\ n < N
      BY <1>2, <2>2, <3>1
    <3>3. Turn(h[n], n + 1) \in Nat
      BY <1>3, <3>1, <3>2
    <3>4. h[n + 1] = Turn(h[n], n + 1)
      BY <1>4, <1>8, <3>2, <3>3
    <3>5. QED
      BY <3>3, <3>4
  <2> HIDE DEF Good
  <2>3. QED
    BY <2>1, <2>2, Induction
<1>11. \A n \in Nat : n <= N => h[n] \in Nat
  BY <1>10
<1>12. \A n \in 1 .. N : h[n] = Turn(h[n - 1], n)
  <2>1. ASSUME NEW n \in 1 .. N PROVE h[n] = Turn(h[n - 1], n)
    <3>1. n - 1 \in Nat /\ n - 1 < N /\ (n - 1) + 1 = n /\ n - 1 <= N /\ n \in Nat
      BY <1>2
    <3>2. Turn(h[n - 1], n) \in Nat
      <4>1. h[n - 1] \in Nat /\ (n - 1) + 1 <= N
        BY <1>2, <1>11, <3>1
      <4>2. Turn(h[n - 1], (n - 1) + 1) \in Nat
        BY <1>3, <3>1, <4>1
      <4>3. QED
        BY <3>1, <4>2
    <3>3. Turn(h[n - 1], n) \in Nat
      BY <1>4, <3>1, <3>2
    <3>4. h[(n - 1) + 1] = Turn(h[n - 1], (n - 1) + 1)
      BY <1>8, <3>1, <3>3
    <3>5. QED
      BY <3>1, <3>4
  <2>2. QED
    BY <2>1
<1>13. Solves([n \in 0 .. N |-> h[n]])
  <2> DEFINE g == [n \in 0 .. N |-> h[n]]
  <2>1. \A n \in 1 .. N : g[n - 1] = h[n - 1]
    BY <1>2
  <2>2. \A n \in 0 .. N : g[n] = IF n = 0 THEN 0 ELSE Turn(g[n - 1], n)
    BY <1>2, <1>9, <1>12, <2>1
  <2>3. QED
    BY <2>2
<1>14. Solves(f)
  <2> HIDE DEF Solves
  <2> QED BY <1>13 DEF f
<1>15. f[0] = 0 /\ \A n \in 1 .. N : f[n] = Turn(f[n - 1], n)
  <2>1. \A n \in 0 .. N : f[n] = IF n = 0 THEN 0 ELSE Turn(f[n - 1], n)
    BY <1>14
  <2>2. 0 \in 0 .. N /\ \A n \in 1 .. N : n \in 0 .. N /\ n # 0
    BY <1>2
  <2>3. QED
    BY <2>1, <2>2
<1> DEFINE Same == { n \in Nat : n <= N => f[n] = h[n] }
<1>16. \A n \in Nat : n \in Same
  <2>1. 0 \in Same
    BY <1>9, <1>15
  <2>2. ASSUME NEW n \in Nat, n \in Same PROVE n + 1 \in Same
    <3>1. SUFFICES ASSUME n + 1 <= N PROVE f[n + 1] = h[n + 1]
      OBVIOUS
    <3>2. n + 1 \in 1 .. N /\ (n + 1) - 1 = n /\ n <= N
      BY <1>2, <3>1
    <3>3. f[n] = h[n]
      BY <2>2, <3>2
    <3>4. QED
      BY <1>12, <1>15, <3>2, <3>3
  <2> HIDE DEF Same
  <2>3. QED
    BY <2>1, <2>2, Induction
<1>17. N \in Same /\ N <= N
  BY <1>2, <1>16
<1>18. f[N] \in Nat
  BY <1>2, <1>11, <1>17
<1>19. QED
  BY <1>1, <1>18 DEF N

\* A deletion gives the document in which just the items it lists are deleted.
Cuts(d, result) ==
    /\ Sound(result.doc)
    /\ result.dels \in Seq(Refs(d))
    /\ Len(result.doc.heap) = Len(d.heap)
    /\ \A k \in Refs(d) :
          /\ SameItem(result.doc.heap[k], d.heap[k])
          /\ result.doc.heap[k].right = d.heap[k].right
          /\ result.doc.heap[k].deleted <=> \/ d.heap[k].deleted
                                            \/ \E i \in 1 .. Len(result.dels) : result.dels[i] = k
    /\ result.doc.store = d.store /\ result.doc.ds = d.ds /\ result.doc.start = d.start

\* Marking the items of a sequence cuts them.
LEMMA markDeletedCuts ==
  ASSUME NEW d, Sound(d), NEW dels \in Seq(Refs(d))
  PROVE  Cuts(d, [doc |-> markDeleted(d, Range(dels)), dels |-> dels])
<1> DEFINE S == Range(dels)
           m == markDeleted(d, S)
           result == [doc |-> m, dels |-> dels]
<1>1. Marks(d, m, S) /\ Sound(m)
  BY markDeletedSound
<1>2. \A k : k \in S <=> \E i \in 1 .. Len(dels) : dels[i] = k
  <2>1. DOMAIN dels = 1 .. Len(dels)
    OBVIOUS
  <2>2. QED
    BY <2>1 DEF Range
<1> HIDE DEF S, m
<1>3. result.doc = m /\ result.dels = dels
  OBVIOUS
<1> HIDE DEF result
<1>4. Cuts(d, result)
  BY <1>1, <1>2, <1>3 DEF Cuts, Marks
<1>5. QED
  BY <1>4 DEF result, m, S

\* Nothing is cut.
LEMMA NothingCut ==
  ASSUME NEW d, Sound(d)
  PROVE  Cuts(d, [doc |-> d, dels |-> <<>>])
BY DEF Cuts, SameItem

-----------------------------------------------------------------------------
(***************************************************************************)
(* How the documents, transactions and updates of the peers fit together.   *)
(* D, T, A and G stand for doc, tx, announced and got, before a step or     *)
(* after it, and y for syncs.                                              *)
(***************************************************************************)
\* The client of an item has it, and it says the same there.
Authored(D, it) ==
    /\ Held(D[it.id.client], it.id)
    /\ Says(it, D[it.id.client].heap[RefOf(D[it.id.client], it.id)])

\* A document is sound and has nothing but items of the peers.
Agrees(D, r) ==
    /\ Sound(D[r])
    /\ \A k \in Refs(D[r]) : Authored(D, D[r].heap[k])

\* Update k of a peer says what the peers say, and its items come one after the
\* other, in it or in the updates before it.
Sent(D, sent, k) ==
    LET u == sent[k].update
    IN  /\ u.items \in Seq(ItemType)
        /\ u.dels \in Seq(Ranges)
        /\ \A j \in 1 .. Len(u.items) :
              /\ Wire(u.items[j])
              /\ Authored(D, u.items[j])
              /\ \/ u.items[j].id.clock = 0
                 \/ \E i \in 1 .. j - 1 : u.items[i].id = Before(u.items[j].id)
                 \/ \E h \in 1 .. k - 1 : Before(u.items[j].id) \in ItemIds(sent[h].update)
        /\ \A id \in DelIds(u) : Held(D[id.client], id)

\* The open transaction has the last items of the peer, and every item before them
\* was announced.
Opened(D, T, A, r) ==
    /\ T[r].items \in Seq(Refs(D[r]))
    /\ \A i \in 1 .. Len(T[r].items) :
          D[r].heap[T[r].items[i]].id = [client |-> r, clock |-> Len(D[r].store[r]) - Len(T[r].items) + (i - 1)]
    /\ T[r].dels \in Seq(Refs(D[r]))
    /\ \A k \in Refs(D[r]) : D[r].heap[k].id.client = r =>
          \/ \E i \in 1 .. Len(T[r].items) : T[r].items[i] = k
          \/ \E h \in 1 .. Len(A[r]) : D[r].heap[k].id \in ItemIds(A[r][h].update)

\* A peer holds what the updates inserted that it has applied.
Received(D, A, G, r) ==
    /\ \A s \in Client : G[r][s] \subseteq 1 .. Len(A[s])
    /\ G[r][r] = 1 .. Len(A[r])
    /\ \A s \in Client : \A k \in G[r][s] : \A id \in ItemIds(A[s][k].update) : Held(D[r], id)

\* The IDs that the updates delete which a peer has of the others.
Foreign(A, G, r) ==
    { id \in IdType : \E s \in Client \ {r} : \E k \in G[r][s] : id \in DelIds(A[s][k].update) }

\* Its delete set is what the updates of the others delete, and is applied.
Remembers(D, A, G, r) ==
    /\ \A id \in IdType : isDeleted(D[r], id) <=> id \in Foreign(A, G, r)
    /\ \A k \in Refs(D[r]) : isDeleted(D[r], D[r].heap[k].id) => D[r].heap[k].deleted

\* What it deletes itself it deletes among its items; an item that no transaction and
\* no update deletes is deleted only if it was the value of a key.
Erased(D, T, A, G, r) ==
    /\ \A k \in G[r][r] : \A id \in DelIds(A[r][k].update) :
          Held(D[r], id) /\ D[r].heap[RefOf(D[r], id)].deleted
    /\ \A i \in 1 .. Len(T[r].dels) : D[r].heap[T[r].dels[i]].deleted
    /\ \A k \in Refs(D[r]) : D[r].heap[k].deleted /\ D[r].heap[k].list \notin Key =>
          \/ \E i \in 1 .. Len(T[r].dels) : T[r].dels[i] = k
          \/ \E s \in Client : \E h \in G[r][s] : D[r].heap[k].id \in DelIds(A[s][h].update)

\* Without an exchange of states, what it holds came with an update or is its own.
Complete(D, T, A, G, r) ==
    \A k \in Refs(D[r]) :
        \/ \E i \in 1 .. Len(T[r].items) : T[r].items[i] = k
        \/ \E s \in Client : \E h \in G[r][s] : D[r].heap[k].id \in ItemIds(A[s][h].update)

Settled(D, T, A, G, y, r) ==
    /\ Agrees(D, r)
    /\ \A k \in 1 .. Len(A[r]) : Sent(D, A[r], k)
    /\ Opened(D, T, A, r)
    /\ Received(D, A, G, r)
    /\ Remembers(D, A, G, r)
    /\ Erased(D, T, A, G, r)
    /\ y = 0 => Complete(D, T, A, G, r)

Consistent(D, T, A, G, y) == \A r \in Client : Settled(D, T, A, G, y, r)

-----------------------------------------------------------------------------
(***************************************************************************)
(* What stays as documents grow.                                           *)
(***************************************************************************)
\* An update names IDs.
LEMMA DelIdsAreIds ==
  ASSUME NEW u, u.dels \in Seq(Ranges)
  PROVE  DelIds(u) \subseteq IdType
<1>1. ASSUME NEW j \in 1 .. Len(u.dels), NEW id \in Covered(u.dels[j]) PROVE id \in IdType
  <2> DEFINE range == u.dels[j]
  <2>1. range \in Ranges
    OBVIOUS
  <2> HIDE DEF range
  <2>2. range.client \in Client /\ range.clock \in Nat /\ range.len \in Nat
    BY <2>1 DEF Ranges
  <2>3. PICK k \in 0 .. range.len - 1 : id = [client |-> range.client, clock |-> range.clock + k]
    BY <1>1 DEF Covered, range
  <2>4. QED
    BY <2>2, <2>3 DEF IdType
<1>2. QED
  BY <1>1 DEF DelIds

\* No document loses an item.
Grown(D, E) == \A c \in Client : Sound(D[c]) /\ Sound(E[c]) /\ Extends(D[c], E[c])

\* What is held stays held, where it was.
LEMMA HeldStays ==
  ASSUME NEW D, NEW E, Grown(D, E), NEW c \in Client, NEW id \in IdType, Held(D[c], id)
  PROVE  /\ Held(E[c], id) /\ RefOf(E[c], id) = RefOf(D[c], id)
         /\ RefOf(D[c], id) \in Refs(D[c]) /\ D[c].heap[RefOf(D[c], id)].id = id
         /\ SameItem(E[c].heap[RefOf(D[c], id)], D[c].heap[RefOf(D[c], id)])
<1> DEFINE d == D[c]
           e == E[c]
<1>1. Whole(d) /\ Whole(e) /\ Extends(d, e)
  BY DEF Grown, Sound
<1>2. Held(d, id)
  OBVIOUS
<1> HIDE DEF d, e
<1>3. Held(e, id) /\ RefOf(e, id) = RefOf(d, id)
  BY <1>1, <1>2, ExtendsKeeps
<1>4. RefOf(d, id) \in Refs(d) /\ d.heap[RefOf(d, id)].id = id
  BY <1>1, <1>2, getItemFinds
<1>5. SameItem(e.heap[RefOf(d, id)], d.heap[RefOf(d, id)])
  BY <1>1, <1>4 DEF Extends
<1>6. QED
  BY <1>3, <1>4, <1>5 DEF d, e

\* What the client of an item says of it stays.
LEMMA AuthoredStays ==
  ASSUME NEW D, NEW E, Grown(D, E), NEW it, it.id \in IdType, Authored(D, it)
  PROVE  Authored(E, it)
<1> DEFINE c == it.id.client
           id == it.id
           n == RefOf(D[c], id)
<1>1. c \in Client /\ id \in IdType /\ Held(D[c], id) /\ Says(it, D[c].heap[n])
  BY DEF Authored, IdType
<1>2. Held(E[c], id) /\ RefOf(E[c], id) = n /\ SameItem(E[c].heap[n], D[c].heap[n])
  <2> HIDE DEF c, id
  <2>1. QED
    BY <1>1, HeldStays
<1>3. Says(it, E[c].heap[n])
  <2> HIDE DEF c, n
  <2>1. QED
    BY <1>1, <1>2 DEF Says, SameItem
<1>4. QED
  BY <1>2, <1>3 DEF Authored

\* Two items that say the same have the same client.
LEMMA AuthoredSays ==
  ASSUME NEW D, NEW a, NEW b, Authored(D, a), Says(b, a)
  PROVE  Authored(D, b)
BY DEF Authored, Says

\* What was announced stays true.
LEMMA SentStays ==
  ASSUME NEW D, NEW E, Grown(D, E), NEW sent, NEW k, Sent(D, sent, k)
  PROVE  Sent(E, sent, k)
<1> DEFINE u == sent[k].update
<1>1. /\ u.items \in Seq(ItemType)
      /\ u.dels \in Seq(Ranges)
      /\ \A j \in 1 .. Len(u.items) :
              /\ Wire(u.items[j])
              /\ Authored(D, u.items[j])
              /\ \/ u.items[j].id.clock = 0
                 \/ \E i \in 1 .. j - 1 : u.items[i].id = Before(u.items[j].id)
                 \/ \E h \in 1 .. k - 1 : Before(u.items[j].id) \in ItemIds(sent[h].update)
      /\ \A id \in DelIds(u) : Held(D[id.client], id)
  BY DEF Sent
<1> HIDE DEF u
<1>2. ASSUME NEW j \in 1 .. Len(u.items) PROVE Authored(E, u.items[j])
  <2>1. u.items[j] \in ItemType
    BY <1>1
  <2>2. u.items[j].id \in IdType
    BY <2>1, ItemFields
  <2>3. QED
    BY <1>1, <2>2, AuthoredStays
<1>3. ASSUME NEW id \in DelIds(u) PROVE Held(E[id.client], id)
  <2>1. id \in IdType
    BY <1>1, DelIdsAreIds
  <2>2. id.client \in Client
    BY <2>1 DEF IdType
  <2>3. QED
    BY <1>1, <2>1, <2>2, HeldStays
<1>4. QED
  BY <1>1, <1>2, <1>3 DEF Sent, u

\* E is D with e for the document of r.
Replaces(D, E, r, e) == E[r] = e /\ \A q \in Client \ {r} : E[q] = D[q]

\* A document of the peers is sound, and so are its parts.
LEMMA SettledSound ==
  ASSUME NEW D, NEW T, NEW A, NEW G, NEW y, Consistent(D, T, A, G, y), NEW r \in Client
  PROVE  /\ Sound(D[r]) /\ Whole(D[r]) /\ D[r] \in Docs
         /\ Len(D[r].heap) \in Nat
         /\ \A c \in Client : Len(D[r].store[c]) \in Nat
         /\ \A k \in Refs(D[r]) : D[r].heap[k] \in ItemType /\ D[r].heap[k].id \in IdType
<1> DEFINE d == D[r]
<1>1. Sound(d)
  BY DEF Consistent, Settled, Agrees
<1> HIDE DEF d
<1>2. Whole(d) /\ d \in Docs
  BY <1>1 DEF Sound, Whole
<1>3. /\ Len(d.heap) \in Nat /\ \A c \in Client : Len(d.store[c]) \in Nat
      /\ \A k \in Refs(d) : d.heap[k] \in ItemType
  BY <1>2, DocFields
<1>4. \A k \in Refs(d) : d.heap[k].id \in IdType
  BY <1>3, ItemFields
<1>5. QED
  BY <1>1, <1>2, <1>3, <1>4 DEF d

\* If the document of one peer grows, none shrinks.
LEMMA ReplacesGrows ==
  ASSUME NEW D, NEW T, NEW A, NEW G, NEW y, Consistent(D, T, A, G, y), NEW r \in Client,
         NEW e, Sound(e), Extends(D[r], e), NEW E, Replaces(D, E, r, e)
  PROVE  Grown(D, E)
<1>1. ASSUME NEW c \in Client PROVE Sound(D[c]) /\ Sound(E[c]) /\ Extends(D[c], E[c])
  <2>1. Sound(D[c]) /\ Len(D[c].heap) \in Nat
    BY SettledSound
  <2>2. CASE c = r
    BY <2>1, <2>2 DEF Replaces
  <2>3. CASE c # r
    <3>1. E[c] = D[c]
      BY <2>3 DEF Replaces
    <3> DEFINE d == D[c]
    <3>2. Extends(d, d)
      <4> HIDE DEF d
      <4>1. Len(d.heap) <= Len(d.heap)
        BY <2>1 DEF d
      <4>2. QED
        BY <4>1 DEF Extends, SameItem
    <3>3. QED
      BY <2>1, <3>1, <3>2
  <2>4. QED
    BY <2>2, <2>3
<1>2. QED
  BY <1>1 DEF Grown

\* Who takes no part in a step stays as it is.
LEMMA OthersStay ==
  ASSUME NEW D, NEW T, NEW A, NEW G, NEW y, Consistent(D, T, A, G, y),
         NEW E, Grown(D, E), NEW U, NEW H, NEW q \in Client, E[q] = D[q], U[q] = T[q], H[q] = G[q]
  PROVE  Settled(E, U, A, H, y, q)
<1>1. Settled(D, T, A, G, y, q)
  BY DEF Consistent
<1>2. Agrees(E, q)
  <2>1. ASSUME NEW k \in Refs(D[q]) PROVE Authored(E, D[q].heap[k])
    <3> DEFINE it == D[q].heap[k]
    <3>1. Authored(D, it)
      BY <1>1 DEF Settled, Agrees
    <3>2. it.id \in IdType
      BY SettledSound
    <3> HIDE DEF it
    <3>3. Authored(E, it)
      BY <3>1, <3>2, AuthoredStays
    <3>4. QED
      BY <3>3 DEF it
  <2>2. QED
    BY <1>1, <2>1 DEF Settled, Agrees
<1>3. ASSUME NEW k \in 1 .. Len(A[q]) PROVE Sent(E, A[q], k)
  <2> DEFINE sent == A[q]
  <2>1. Sent(D, sent, k)
    BY <1>1 DEF Settled
  <2> HIDE DEF sent
  <2>2. Sent(E, sent, k)
    BY <2>1, SentStays
  <2>3. QED
    BY <2>2 DEF sent
<1>4. Opened(E, U, A, q)
  BY <1>1 DEF Settled, Opened
<1>5. Received(E, A, H, q)
  BY <1>1 DEF Settled, Received
<1>6. Foreign(A, H, q) = Foreign(A, G, q)
  BY DEF Foreign
<1>7. Remembers(E, A, H, q)
  BY <1>1, <1>6 DEF Settled, Remembers
<1>8. Erased(E, U, A, H, q)
  BY <1>1 DEF Settled, Erased
<1>9. y = 0 => Complete(E, U, A, H, q)
  BY <1>1 DEF Settled, Complete
<1>10. QED
  BY <1>2, <1>3, <1>4, <1>5, <1>7, <1>8, <1>9 DEF Settled

-----------------------------------------------------------------------------
(***************************************************************************)
(* An edit that inserts.                                                   *)
(***************************************************************************)
\* U is T with the refs in the transaction of r.
Inserting(T, U, r, refs) ==
    /\ U[r].items = T[r].items \o refs
    /\ U[r].dels = T[r].dels
    /\ \A q \in Client \ {r} : U[q] = T[q]

\* The last n items of e, which d does not have.
LastRefs(d, n) == [i \in 1 .. n |-> Len(d.heap) + i]

\* Every item is an old one or one of the new ones.
OldAndNew(d, e, n) ==
    /\ \A k \in Refs(d) : k \in Refs(e)
    /\ \A i \in 1 .. n : Len(d.heap) + i \in Refs(e)
    /\ \A k \in Refs(e) : k \in Refs(d) \/ \E i \in 1 .. n : k = Len(d.heap) + i
    /\ LastRefs(d, n) \in Seq(Refs(e)) /\ Len(LastRefs(d, n)) = n
    /\ \A i \in 1 .. n : LastRefs(d, n)[i] = Len(d.heap) + i

\* An edit that inserts leaves the old items and adds the new ones.
LEMMA OldOrNew ==
  ASSUME NEW d, NEW e, NEW c \in Client, NEW n \in Nat, Sound(d), Typed(d, e, c, n)
  PROVE  OldAndNew(d, e, n)
<1> DEFINE a == Len(d.heap)
<1>1. a \in Nat
  BY DocFields DEF Sound, Whole
<1>2. Len(e.heap) = a + n
  BY DEF Typed
<1>3. Refs(d) = 1 .. a /\ Refs(e) = 1 .. Len(e.heap)
  BY DEF Refs
<1>4. LastRefs(d, n) = [i \in 1 .. n |-> a + i]
  BY DEF LastRefs
<1> HIDE DEF a
<1> DEFINE R == Refs(e)
<1>5. \A i \in 1 .. n : a + i \in R
  BY <1>1, <1>2, <1>3
<1>6. /\ \A k \in 1 .. a : k \in R
      /\ \A k \in R : k \in 1 .. a \/ \E i \in 1 .. n : k = a + i
  <2>1. ASSUME NEW k \in R, k \notin 1 .. a PROVE \E i \in 1 .. n : k = a + i
    <3>1. k - a \in 1 .. n /\ k = a + (k - a)
      BY <1>1, <1>2, <1>3, <2>1
    <3>2. QED
      BY <3>1
  <2>2. \A k \in 1 .. a : k \in R
    BY <1>1, <1>2, <1>3
  <2>3. QED
    BY <2>1, <2>2
<1> HIDE DEF R
<1>7. LastRefs(d, n) \in Seq(R) /\ Len(LastRefs(d, n)) = n /\ \A i \in 1 .. n : LastRefs(d, n)[i] = a + i
  <2> DEFINE s == [i \in 1 .. n |-> a + i]
  <2>1. s \in [1 .. n -> R]
    BY <1>5
  <2>2. s \in Seq(R) /\ Len(s) = n
    BY <2>1
  <2>3. QED
    BY <1>4, <2>2
<1>8. QED
  BY <1>3, <1>5, <1>6, <1>7 DEF a, R, OldAndNew

\* What the peers have agrees after an edit, and the new items are the peer's own.
LEMMA TypingAgrees ==
  ASSUME NEW D, NEW T, NEW A, NEW G, NEW y, Consistent(D, T, A, G, y),
         NEW r \in Client, NEW n \in Nat, NEW e, Typed(D[r], e, r, n),
         NEW E, Replaces(D, E, r, e)
  PROVE  Grown(D, E) /\ Agrees(E, r)
<1>1. Sound(D[r]) /\ Sound(e) /\ Extends(D[r], e)
  BY SettledSound DEF Typed
<1>2. Grown(D, E)
  BY <1>1, ReplacesGrows
<1>3. E[r] = e
  BY DEF Replaces
<1>4. ASSUME NEW k \in Refs(e) PROVE Authored(E, e.heap[k])
  <2>1. CASE k \in Refs(D[r])
    <3> DEFINE a == D[r].heap[k]
               b == e.heap[k]
    <3>1. Authored(D, a)
      BY <2>1 DEF Consistent, Settled, Agrees
    <3>2. a.id \in IdType
      BY <2>1, SettledSound
    <3>3. Says(b, a)
      BY <1>1, <2>1 DEF Extends, SameItem, Says
    <3> HIDE DEF a, b
    <3>4. Authored(E, b)
      BY <1>2, <3>1, <3>2, <3>3, AuthoredStays, AuthoredSays
    <3>5. QED
      BY <3>4 DEF b
  <2>2. CASE k \notin Refs(D[r])
    <3> DEFINE d == D[r]
    <3>0. Sound(d) /\ Typed(d, e, r, n) /\ k \notin Refs(d)
      BY <1>1, <2>2
    <3> HIDE DEF d
    <3>1. PICK i \in 1 .. n : k = Len(d.heap) + i
      <4>1. OldAndNew(d, e, n)
        BY <3>0, OldOrNew
      <4>2. QED
        BY <3>0, <4>1 DEF OldAndNew
    <3>2. e.heap[k].id.client = r
      <4>1. e.heap[Len(d.heap) + i].id = [client |-> r, clock |-> Len(d.store[r]) + (i - 1)]
        BY <3>0 DEF Typed
      <4>2. QED
        BY <3>1, <4>1
    <3>3. Held(e, e.heap[k].id) /\ RefOf(e, e.heap[k].id) = k
      BY <1>1 DEF Sound, Whole, Held, RefOf
    <3>4. QED
      BY <1>3, <3>2, <3>3 DEF Authored, Says
  <2>3. QED
    BY <2>1, <2>2
<1>5. QED
  BY <1>1, <1>2, <1>3, <1>4 DEF Agrees

\* The new items end the transaction.
LEMMA TypingOpened ==
  ASSUME NEW D, NEW T, NEW A, NEW G, NEW y, Consistent(D, T, A, G, y),
         NEW r \in Client, NEW n \in Nat, NEW e, Typed(D[r], e, r, n),
         NEW E, Replaces(D, E, r, e), NEW U, Inserting(T, U, r, LastRefs(D[r], n))
  PROVE  Opened(E, U, A, r)
<1> DEFINE d == D[r]
           s == T[r].items
           refs == LastRefs(d, n)
           t == U[r].items
           dels == T[r].dels
           m == Len(s)
           b == Len(d.store[r])
<1>1. E[r] = e /\ t = s \o refs /\ U[r].dels = dels
  BY DEF Replaces, Inserting
<1>2. /\ s \in Seq(Refs(d))
      /\ \A i \in 1 .. Len(s) : d.heap[s[i]].id = [client |-> r, clock |-> b - m + (i - 1)]
      /\ dels \in Seq(Refs(d))
      /\ \A k \in Refs(d) : d.heap[k].id.client = r =>
          \/ \E i \in 1 .. Len(s) : s[i] = k
          \/ \E h \in 1 .. Len(A[r]) : d.heap[k].id \in ItemIds(A[r][h].update)
  BY DEF Consistent, Settled, Opened
<1>3. Sound(d) /\ b \in Nat
  BY SettledSound
<1>4. /\ \A k \in Refs(d) : k \in Refs(e)
      /\ \A i \in 1 .. n : Len(d.heap) + i \in Refs(e)
      /\ \A k \in Refs(e) : k \in Refs(d) \/ \E i \in 1 .. n : k = Len(d.heap) + i
      /\ refs \in Seq(Refs(e)) /\ Len(refs) = n
      /\ \A i \in 1 .. n : refs[i] = Len(d.heap) + i
  <2>1. OldAndNew(d, e, n)
    BY <1>3, OldOrNew
  <2> HIDE DEF d
  <2>2. QED
    BY <2>1 DEF OldAndNew
<1>5. /\ Len(e.store[r]) = b + n
      /\ \A k \in Refs(d) : e.heap[k].id = d.heap[k].id
      /\ \A i \in 1 .. n : e.heap[Len(d.heap) + i].id = [client |-> r, clock |-> b + (i - 1)]
  BY DEF Typed, Extends, SameItem
<1> HIDE DEF d, s, refs, t, dels, b
<1>6. m \in Nat
  BY <1>2
<1> DEFINE R == Refs(e)
<1>7. s \in Seq(R) /\ dels \in Seq(R)
  <2> DEFINE Q == Refs(d)
  <2>1. Q \subseteq R /\ s \in Seq(Q) /\ dels \in Seq(Q)
    BY <1>2, <1>4
  <2> HIDE DEF Q, R
  <2>2. QED
    BY <2>1
<1>8. /\ t \in Seq(R) /\ Len(t) = m + n
      /\ \A i \in 1 .. m + n : t[i] = IF i <= m THEN s[i] ELSE refs[i - m]
  <2>1. refs \in Seq(R)
    BY <1>4
  <2>2. Len(s) = m /\ Len(refs) = n /\ t = s \o refs /\ s \in Seq(R)
    BY <1>1, <1>4, <1>7
  <2> HIDE DEF R, m
  <2>3. /\ s \o refs \in Seq(R)
        /\ Len(s \o refs) = Len(s) + Len(refs)
        /\ \A i \in 1 .. Len(s) + Len(refs) : (s \o refs)[i] = IF i <= Len(s) THEN s[i] ELSE refs[i - Len(s)]
    BY <2>1, <2>2, ConcatProperties
  <2>4. QED
    BY <2>2, <2>3
<1> HIDE DEF m
<1>9. ASSUME NEW i \in 1 .. Len(t)
      PROVE  e.heap[t[i]].id = [client |-> r, clock |-> Len(e.store[r]) - Len(t) + (i - 1)]
  <2>1. CASE i <= m
    <3>1. i \in 1 .. Len(s) /\ t[i] = s[i]
      BY <1>6, <1>8, <2>1 DEF m
    <3>2. s[i] \in Refs(d) /\ d.heap[s[i]].id = [client |-> r, clock |-> b - m + (i - 1)]
      BY <1>2, <3>1
    <3>3. b - m + (i - 1) = Len(e.store[r]) - Len(t) + (i - 1)
      BY <1>3, <1>5, <1>6, <1>8
    <3>4. QED
      BY <1>5, <3>1, <3>2, <3>3
  <2>2. CASE i > m
    <3>1. i - m \in 1 .. n /\ t[i] = refs[i - m]
      BY <1>6, <1>8, <2>2
    <3>2. e.heap[t[i]].id = [client |-> r, clock |-> b + ((i - m) - 1)]
      BY <1>4, <1>5, <3>1
    <3>3. b + ((i - m) - 1) = Len(e.store[r]) - Len(t) + (i - 1)
      BY <1>3, <1>5, <1>6, <1>8
    <3>4. QED
      BY <3>2, <3>3
  <2>3. QED
    BY <1>6, <1>8, <2>1, <2>2
<1>10. ASSUME NEW k \in Refs(e), e.heap[k].id.client = r
       PROVE  \/ \E i \in 1 .. Len(t) : t[i] = k
              \/ \E h \in 1 .. Len(A[r]) : e.heap[k].id \in ItemIds(A[r][h].update)
  <2>1. CASE k \in Refs(d)
    <3>1. e.heap[k].id = d.heap[k].id
      BY <1>5, <2>1
    <3>2. CASE \E i \in 1 .. Len(s) : s[i] = k
      <4>1. PICK i \in 1 .. Len(s) : s[i] = k
        BY <3>2
      <4>2. i \in 1 .. Len(t) /\ t[i] = k
        BY <1>6, <1>8, <4>1 DEF m
      <4>3. QED
        BY <4>2
    <3>3. QED
      BY <1>2, <1>10, <2>1, <3>1, <3>2
  <2>2. CASE k \notin Refs(d)
    <3>1. PICK i \in 1 .. n : k = Len(d.heap) + i
      BY <1>4, <2>2
    <3>2. m + i \in 1 .. Len(t) /\ (m + i) - m = i /\ ~(m + i <= m)
      BY <1>6, <1>8
    <3>3. t[m + i] = k
      BY <1>4, <1>8, <3>1, <3>2
    <3>4. QED
      BY <3>2, <3>3
  <2>3. QED
    BY <2>1, <2>2
<1>11. QED
  BY <1>1, <1>7, <1>8, <1>9, <1>10 DEF Opened, t

\* What was received is still held, and no new item has an ID that is deleted.
LEMMA TypingReceived ==
  ASSUME NEW D, NEW T, NEW A, NEW G, NEW y, Consistent(D, T, A, G, y),
         NEW r \in Client, NEW n \in Nat, NEW e, Typed(D[r], e, r, n),
         NEW E, Replaces(D, E, r, e), NEW U, Inserting(T, U, r, LastRefs(D[r], n))
  PROVE  /\ Received(E, A, G, r)
         /\ Remembers(E, A, G, r)
         /\ Erased(E, U, A, G, r)
         /\ y = 0 => Complete(E, U, A, G, r)
<1> DEFINE d == D[r]
           s == T[r].items
           refs == LastRefs(d, n)
           t == U[r].items
           dels == T[r].dels
<1>1. E[r] = e /\ t = s \o refs /\ U[r].dels = dels
  BY DEF Replaces, Inserting
<1>2. Settled(D, T, A, G, y, r) /\ Sound(d) /\ d \in Docs /\ Sound(e) /\ Whole(e) /\ Extends(d, e) /\ Grown(D, E)
  BY SettledSound, TypingAgrees DEF Typed, Sound, Consistent
<1>3. /\ \A k \in Refs(d) : k \in Refs(e)
      /\ \A k \in Refs(e) : k \in Refs(d) \/ \E i \in 1 .. n : k = Len(d.heap) + i
      /\ \A i \in 1 .. n : Len(d.heap) + i \in Refs(e)
      /\ refs \in Seq(Refs(e)) /\ Len(refs) = n
      /\ \A i \in 1 .. n : refs[i] = Len(d.heap) + i
  <2>1. Sound(d) /\ Typed(d, e, r, n)
    BY <1>2
  <2>2. OldAndNew(d, e, n)
    BY <2>1, OldOrNew
  <2> HIDE DEF d
  <2>3. QED
    BY <2>2 DEF OldAndNew
<1>4. \A id \in IdType : Held(d, id) => Held(e, id) /\ RefOf(e, id) = RefOf(d, id) /\ RefOf(d, id) \in Refs(d)
  <2>1. ASSUME NEW id \in IdType, Held(d, id)
        PROVE  Held(e, id) /\ RefOf(e, id) = RefOf(d, id) /\ RefOf(d, id) \in Refs(d)
    <3>1. Held(E[r], id) /\ RefOf(E[r], id) = RefOf(D[r], id) /\ RefOf(D[r], id) \in Refs(D[r])
      BY <1>2, <2>1, HeldStays
    <3>2. QED
      BY <1>1, <3>1
  <2>2. QED
    BY <2>1
<1>5. ASSUME NEW s1 \in Client, NEW k \in G[r][s1]
      PROVE  /\ A[s1][k].update.items \in Seq(ItemType) /\ A[s1][k].update.dels \in Seq(Ranges)
             /\ \A id \in ItemIds(A[s1][k].update) : id \in IdType
             /\ \A id \in DelIds(A[s1][k].update) : id \in IdType /\ Held(D[id.client], id)
  <2> DEFINE u == A[s1][k].update
  <2>1. k \in 1 .. Len(A[s1])
    BY <1>2 DEF Settled, Received
  <2>2. Sent(D, A[s1], k)
    BY <2>1 DEF Consistent, Settled
  <2>3. u.items \in Seq(ItemType) /\ u.dels \in Seq(Ranges) /\ \A id \in DelIds(u) : Held(D[id.client], id)
    BY <2>2 DEF Sent
  <2> HIDE DEF u
  <2>4. \A j \in 1 .. Len(u.items) : u.items[j].id \in IdType
    <3>1. ASSUME NEW j \in 1 .. Len(u.items) PROVE u.items[j].id \in IdType
      <4>1. u.items[j] \in ItemType
        BY <2>3
      <4>2. QED
        BY <4>1, ItemFields
    <3>2. QED
      BY <3>1
  <2>5. \A id \in ItemIds(u) : id \in IdType
    BY <2>4 DEF ItemIds
  <2>6. \A id \in DelIds(u) : id \in IdType
    BY <2>3, DelIdsAreIds
  <2>7. QED
    BY <2>3, <2>5, <2>6 DEF u
<1>6. Received(E, A, G, r)
  <2>1. \A s1 \in Client : \A k \in G[r][s1] : \A id \in ItemIds(A[s1][k].update) : Held(d, id)
    BY <1>2 DEF Settled, Received
  <2> HIDE DEF d
  <2>2. \A s1 \in Client : \A k \in G[r][s1] : \A id \in ItemIds(A[s1][k].update) : Held(e, id)
    BY <1>4, <1>5, <2>1
  <2>3. QED
    BY <1>1, <1>2, <2>2 DEF Settled, Received
<1>7. /\ e.ds = d.ds
      /\ \A id \in IdType : isDeleted(e, id) <=> isDeleted(d, id)
  <2>1. e.ds = d.ds
    BY DEF Typed
  <2>2. QED
    BY <2>1 DEF isDeleted
<1>8. ASSUME NEW i \in 1 .. n
      PROVE  LET id == e.heap[Len(d.heap) + i].id
             IN  id \in IdType /\ id.client = r /\ ~Held(d, id)
  <2> DEFINE id == e.heap[Len(d.heap) + i].id
  <2>1. id = [client |-> r, clock |-> Len(d.store[r]) + (i - 1)]
    BY DEF Typed
  <2>2. Len(d.store[r]) \in Nat
    BY <1>2, DocFields
  <2> HIDE DEF id, d
  <2>3. Len(d.store[r]) + (i - 1) \in Nat /\ ~(Len(d.store[r]) + (i - 1) < Len(d.store[r]))
    BY <2>2
  <2>4. QED
    BY <2>1, <2>3 DEF Held, IdType, id
<1>9. Remembers(E, A, G, r)
  <2>1. \A id \in IdType : isDeleted(d, id) <=> id \in Foreign(A, G, r)
    BY <1>2 DEF Settled, Remembers
  <2>2. ASSUME NEW k \in Refs(e), isDeleted(e, e.heap[k].id) PROVE e.heap[k].deleted
    <3>1. CASE k \in Refs(d)
      <4>1. e.heap[k].id = d.heap[k].id /\ d.heap[k].id \in IdType
        BY <1>2, <3>1, SettledSound DEF Extends, SameItem
      <4>2. d.heap[k].deleted
        BY <1>2, <1>7, <2>2, <3>1, <4>1 DEF Settled, Remembers
      <4>3. QED
        BY <3>1, <4>2 DEF Typed
    <3>2. CASE k \notin Refs(d)
      <4> DEFINE id == e.heap[k].id
      <4>1. PICK i \in 1 .. n : k = Len(d.heap) + i
        BY <1>3, <3>2
      <4>2. id \in IdType /\ id.client = r /\ ~Held(d, id)
        BY <1>8, <4>1
      <4>3. isDeleted(e, id)
        BY <2>2
      <4> HIDE DEF id
      <4>4. id \in Foreign(A, G, r)
        BY <1>7, <2>1, <4>2, <4>3
      <4>5. PICK s1 \in Client \ {r} : \E h \in G[r][s1] : id \in DelIds(A[s1][h].update)
        BY <4>4 DEF Foreign
      <4>6. Held(D[id.client], id)
        BY <1>5, <4>5
      <4>7. QED
        BY <4>2, <4>6
    <3>3. QED
      BY <3>1, <3>2
  <2>3. QED
    BY <1>1, <1>7, <2>1, <2>2 DEF Remembers
<1>10. Erased(E, U, A, G, r)
  <2>1. ASSUME NEW k \in G[r][r], NEW id \in DelIds(A[r][k].update)
        PROVE  Held(e, id) /\ e.heap[RefOf(e, id)].deleted
    <3>1. Held(d, id) /\ d.heap[RefOf(d, id)].deleted /\ id \in IdType
      BY <1>2, <1>5 DEF Settled, Erased
    <3>2. Held(e, id) /\ RefOf(e, id) = RefOf(d, id) /\ RefOf(d, id) \in Refs(d)
      BY <1>4, <3>1
    <3>3. QED
      BY <3>1, <3>2 DEF Typed
  <2>2. ASSUME NEW i \in 1 .. Len(dels) PROVE e.heap[dels[i]].deleted
    <3>1. d.heap[dels[i]].deleted /\ dels \in Seq(Refs(d))
      BY <1>2 DEF Settled, Erased, Opened
    <3>2. dels[i] \in Refs(d)
      BY <3>1
    <3>3. QED
      BY <3>1, <3>2 DEF Typed
  <2>3. ASSUME NEW k \in Refs(e), e.heap[k].deleted, e.heap[k].list \notin Key
        PROVE  \/ \E i \in 1 .. Len(dels) : dels[i] = k
               \/ \E s1 \in Client : \E h \in G[r][s1] : e.heap[k].id \in DelIds(A[s1][h].update)
    <3>1. k \in Refs(d)
      <4>1. SUFFICES ASSUME k \notin Refs(d) PROVE FALSE
        OBVIOUS
      <4>2. PICK i \in 1 .. n : k = Len(d.heap) + i
        BY <1>3, <4>1
      <4>3. e.heap[Len(d.heap) + i].deleted => e.heap[Len(d.heap) + i].list \in Key
        BY DEF Typed
      <4>4. QED
        BY <2>3, <4>2, <4>3
    <3>2. e.heap[k].id = d.heap[k].id /\ e.heap[k].list = d.heap[k].list
      BY <1>2, <3>1 DEF Extends, SameItem
    <3>3. d.heap[k].deleted
      BY <2>3, <3>1, <3>2 DEF Typed
    <3>4. \/ \E i \in 1 .. Len(dels) : dels[i] = k
          \/ \E s1 \in Client : \E h \in G[r][s1] : d.heap[k].id \in DelIds(A[s1][h].update)
      BY <1>2, <2>3, <3>1, <3>2, <3>3 DEF Settled, Erased
    <3>5. QED
      BY <3>2, <3>4
  <2>4. QED
    BY <1>1, <2>1, <2>2, <2>3 DEF Erased
<1>11. ASSUME y = 0 PROVE Complete(E, U, A, G, r)
  <2>1. s \in Seq(Refs(d)) /\ Len(s) \in Nat
    BY <1>2 DEF Settled, Opened
  <2>2. /\ Len(t) = Len(s) + n
        /\ \A i \in 1 .. Len(s) + n : t[i] = IF i <= Len(s) THEN s[i] ELSE refs[i - Len(s)]
    <3> DEFINE R == Refs(e)
               Q == Refs(d)
    <3>1. refs \in Seq(R) /\ Len(refs) = n /\ t = s \o refs
      BY <1>1, <1>3
    <3>2. Q \subseteq R /\ s \in Seq(Q)
      BY <1>3, <2>1
    <3> HIDE DEF R, Q, s, t, refs
    <3>3. s \in Seq(R)
      BY <3>2
    <3>4. /\ Len(s \o refs) = Len(s) + Len(refs)
          /\ \A i \in 1 .. Len(s) + Len(refs) : (s \o refs)[i] = IF i <= Len(s) THEN s[i] ELSE refs[i - Len(s)]
      BY <3>1, <3>3, ConcatProperties
    <3>5. QED
      BY <3>1, <3>4
  <2>3. ASSUME NEW k \in Refs(e)
        PROVE  \/ \E i \in 1 .. Len(t) : t[i] = k
               \/ \E s1 \in Client : \E h \in G[r][s1] : e.heap[k].id \in ItemIds(A[s1][h].update)
    <3>1. CASE k \in Refs(d)
      <4>1. e.heap[k].id = d.heap[k].id
        BY <1>2, <3>1 DEF Extends, SameItem
      <4>2. \/ \E i \in 1 .. Len(s) : s[i] = k
            \/ \E s1 \in Client : \E h \in G[r][s1] : d.heap[k].id \in ItemIds(A[s1][h].update)
        BY <1>2, <1>11, <3>1 DEF Settled, Complete
      <4>3. CASE \E i \in 1 .. Len(s) : s[i] = k
        <5>1. PICK i \in 1 .. Len(s) : s[i] = k
          BY <4>3
        <5> HIDE DEF s, t, refs
        <5>2. i \in 1 .. Len(t) /\ t[i] = k
          BY <2>1, <2>2, <5>1
        <5>3. QED
          BY <5>2
      <4>4. QED
        BY <4>1, <4>2, <4>3
    <3>2. CASE k \notin Refs(d)
      <4>1. PICK i \in 1 .. n : k = Len(d.heap) + i
        BY <1>3, <3>2
      <4>2. refs[i] = k
        BY <1>3, <4>1
      <4> HIDE DEF s, t, refs
      <4>3. Len(s) + i \in 1 .. Len(t) /\ (Len(s) + i) - Len(s) = i /\ ~(Len(s) + i <= Len(s))
        BY <2>1, <2>2
      <4>4. t[Len(s) + i] = k
        BY <2>2, <4>2, <4>3
      <4>5. QED
        BY <4>3, <4>4
    <3>3. QED
      BY <3>1, <3>2
  <2>4. QED
    BY <1>1, <2>3 DEF Complete
<1>12. QED
  BY <1>6, <1>9, <1>10, <1>11

\* An edit that inserts keeps the peers consistent.
LEMMA TypingKeeps ==
  ASSUME NEW D, NEW T, NEW A, NEW G, NEW y, Consistent(D, T, A, G, y),
         NEW r \in Client, NEW n \in Nat, NEW e, Typed(D[r], e, r, n),
         NEW E, Replaces(D, E, r, e), NEW U, Inserting(T, U, r, LastRefs(D[r], n))
  PROVE  Consistent(E, U, A, G, y)
<1>1. Grown(D, E) /\ Agrees(E, r)
  BY TypingAgrees
<1>2. ASSUME NEW q \in Client, q # r PROVE Settled(E, U, A, G, y, q)
  <2>1. E[q] = D[q] /\ U[q] = T[q]
    BY <1>2 DEF Replaces, Inserting
  <2>2. QED
    BY <1>1, <2>1, OthersStay
<1>3. ASSUME NEW k \in 1 .. Len(A[r]) PROVE Sent(E, A[r], k)
  <2> DEFINE sent == A[r]
  <2>1. Sent(D, sent, k)
    BY DEF Consistent, Settled
  <2> HIDE DEF sent
  <2>2. Sent(E, sent, k)
    BY <1>1, <2>1, SentStays
  <2>3. QED
    BY <2>2 DEF sent
<1>4. Opened(E, U, A, r)
  BY TypingOpened
<1>5. /\ Received(E, A, G, r)
      /\ Remembers(E, A, G, r)
      /\ Erased(E, U, A, G, r)
      /\ y = 0 => Complete(E, U, A, G, r)
  BY TypingReceived
<1>6. Settled(E, U, A, G, y, r)
  BY <1>1, <1>3, <1>4, <1>5 DEF Settled
<1>7. QED
  BY <1>2, <1>6 DEF Consistent

-----------------------------------------------------------------------------
(***************************************************************************)
(* An edit that deletes.                                                   *)
(***************************************************************************)
\* U is T with the deletion of the refs in the transaction of r.
Deleting(T, U, r, refs) ==
    /\ U[r].items = T[r].items
    /\ U[r].dels = T[r].dels \o refs
    /\ \A q \in Client \ {r} : U[q] = T[q]

\* An edit that deletes keeps the peers consistent.
LEMMA CuttingKeeps ==
  ASSUME NEW D, NEW T, NEW A, NEW G, NEW y, Consistent(D, T, A, G, y),
         NEW r \in Client, NEW result, Cuts(D[r], result),
         NEW E, Replaces(D, E, r, result.doc), NEW U, Deleting(T, U, r, result.dels)
  PROVE  Consistent(E, U, A, G, y)
<1> DEFINE d == D[r]
           e == result.doc
           s == T[r].dels
           refs == result.dels
           t == U[r].dels
           items == T[r].items
<1>1. E[r] = e /\ t = s \o refs /\ U[r].items = items
  BY DEF Replaces, Deleting
<1>2. Settled(D, T, A, G, y, r) /\ Sound(d) /\ d \in Docs /\ Len(d.heap) \in Nat
  BY SettledSound DEF Consistent
<1>3. /\ Sound(e)
      /\ refs \in Seq(Refs(d))
      /\ Len(e.heap) = Len(d.heap) /\ Refs(e) = Refs(d)
      /\ e.store = d.store /\ e.ds = d.ds
      /\ \A k \in Refs(d) :
            /\ SameItem(e.heap[k], d.heap[k])
            /\ e.heap[k].deleted <=> \/ d.heap[k].deleted
                                     \/ \E i \in 1 .. Len(refs) : refs[i] = k
  BY DEF Cuts, Refs
<1>4. \A k \in Refs(d) : e.heap[k].id = d.heap[k].id /\ e.heap[k].list = d.heap[k].list
  BY <1>3 DEF SameItem
<1>5. /\ s \in Seq(Refs(d)) /\ items \in Seq(Refs(d)) /\ Len(s) \in Nat /\ Len(refs) \in Nat
      /\ \A i \in 1 .. Len(items) :
            d.heap[items[i]].id = [client |-> r, clock |-> Len(d.store[r]) - Len(items) + (i - 1)]
      /\ \A k \in Refs(d) : d.heap[k].id.client = r =>
          \/ \E i \in 1 .. Len(items) : items[i] = k
          \/ \E h \in 1 .. Len(A[r]) : d.heap[k].id \in ItemIds(A[r][h].update)
  <2>1. Opened(D, T, A, r)
    BY <1>2 DEF Settled
  <2>2. Len(refs) \in Nat
    BY <1>3
  <2>3. s \in Seq(Refs(d))
    BY <2>1 DEF Opened
  <2>4. Len(s) \in Nat
    BY <2>3
  <2>5. QED
    BY <2>1, <2>2, <2>3, <2>4 DEF Opened
<1>6. /\ t \in Seq(Refs(d)) /\ Len(t) = Len(s) + Len(refs)
      /\ \A i \in 1 .. Len(s) + Len(refs) : t[i] = IF i <= Len(s) THEN s[i] ELSE refs[i - Len(s)]
  <2> DEFINE R == Refs(d)
  <2>1. s \in Seq(R) /\ refs \in Seq(R)
    BY <1>3, <1>5
  <2> HIDE DEF R, s, refs, t
  <2>2. QED
    BY <1>1, <2>1, ConcatProperties DEF R
<1>7. \A k : (\E i \in 1 .. Len(t) : t[i] = k) <=> \/ \E i \in 1 .. Len(s) : s[i] = k
                                                   \/ \E i \in 1 .. Len(refs) : refs[i] = k
  <2> HIDE DEF s, refs, t
  <2>1. ASSUME NEW k, NEW i \in 1 .. Len(t), t[i] = k
        PROVE  \/ \E j \in 1 .. Len(s) : s[j] = k
               \/ \E j \in 1 .. Len(refs) : refs[j] = k
    <3>1. CASE i <= Len(s)
      BY <1>5, <1>6, <2>1, <3>1
    <3>2. CASE i > Len(s)
      <4>1. i - Len(s) \in 1 .. Len(refs) /\ refs[i - Len(s)] = k
        BY <1>5, <1>6, <2>1, <3>2
      <4>2. QED
        BY <4>1
    <3>3. QED
      BY <1>5, <1>6, <3>1, <3>2
  <2>2. ASSUME NEW k, NEW i \in 1 .. Len(s), s[i] = k PROVE \E j \in 1 .. Len(t) : t[j] = k
    <3>1. i \in 1 .. Len(t) /\ t[i] = k
      BY <1>5, <1>6, <2>2
    <3>2. QED
      BY <3>1
  <2>3. ASSUME NEW k, NEW i \in 1 .. Len(refs), refs[i] = k PROVE \E j \in 1 .. Len(t) : t[j] = k
    <3>1. Len(s) + i \in 1 .. Len(t) /\ (Len(s) + i) - Len(s) = i /\ ~(Len(s) + i <= Len(s))
      BY <1>5, <1>6
    <3>2. t[Len(s) + i] = k
      BY <1>6, <2>3, <3>1
    <3>3. QED
      BY <3>1, <3>2
  <2>4. QED
    BY <2>1, <2>2, <2>3
<1>8. Grown(D, E)
  <2>1. Extends(d, e)
    <3>1. Len(d.heap) <= Len(e.heap)
      BY <1>2, <1>3
    <3>2. QED
      BY <1>3, <3>1 DEF Extends
  <2>2. QED
    BY <1>3, <2>1, ReplacesGrows
<1>9. ASSUME NEW q \in Client, q # r PROVE Settled(E, U, A, G, y, q)
  <2>1. E[q] = D[q] /\ U[q] = T[q]
    BY <1>9 DEF Replaces, Deleting
  <2>2. QED
    BY <1>8, <2>1, OthersStay
<1>10. Agrees(E, r)
  <2>1. ASSUME NEW k \in Refs(d) PROVE Authored(E, e.heap[k])
    <3> DEFINE a == d.heap[k]
               b == e.heap[k]
    <3>1. Authored(D, a) /\ a.id \in IdType
      BY <1>2, SettledSound DEF Settled, Agrees
    <3>2. Says(b, a)
      BY <1>3 DEF SameItem, Says
    <3> HIDE DEF a, b
    <3>3. Authored(E, b)
      BY <1>8, <3>1, <3>2, AuthoredStays, AuthoredSays
    <3>4. QED
      BY <3>3 DEF b
  <2>2. QED
    BY <1>1, <1>3, <2>1 DEF Agrees
<1>11. ASSUME NEW k \in 1 .. Len(A[r]) PROVE Sent(E, A[r], k)
  <2> DEFINE sent == A[r]
  <2>1. Sent(D, sent, k)
    BY <1>2 DEF Settled
  <2> HIDE DEF sent
  <2>2. Sent(E, sent, k)
    BY <1>8, <2>1, SentStays
  <2>3. QED
    BY <2>2 DEF sent
<1>12. \A id : Held(e, id) <=> Held(d, id)
  BY <1>3 DEF Held
<1>13. \A id : RefOf(e, id) = RefOf(d, id)
  BY <1>3 DEF RefOf
<1>14. \A id : isDeleted(e, id) <=> isDeleted(d, id)
  BY <1>3 DEF isDeleted
<1>15. Opened(E, U, A, r)
  <2>1. \A i \in 1 .. Len(items) : items[i] \in Refs(d)
    BY <1>5
  <2>2. \A i \in 1 .. Len(items) :
            e.heap[items[i]].id = [client |-> r, clock |-> Len(e.store[r]) - Len(items) + (i - 1)]
    BY <1>3, <1>4, <1>5, <2>1
  <2>3. \A k \in Refs(d) : e.heap[k].id.client = r =>
          \/ \E i \in 1 .. Len(items) : items[i] = k
          \/ \E h \in 1 .. Len(A[r]) : e.heap[k].id \in ItemIds(A[r][h].update)
    BY <1>4, <1>5
  <2>4. /\ U[r].items = items /\ U[r].items \in Seq(Refs(e)) /\ U[r].dels \in Seq(Refs(e))
    BY <1>1, <1>3, <1>5, <1>6
  <2> HIDE DEF items, e, t, s, d
  <2>5. QED
    BY <1>1, <1>3, <2>2, <2>3, <2>4 DEF Opened
<1>16. Received(E, A, G, r)
  <2>1. Received(D, A, G, r)
    BY <1>2 DEF Settled
  <2>2. QED
    BY <1>1, <1>12, <2>1 DEF Received
<1>17. Remembers(E, A, G, r)
  <2>1. Remembers(D, A, G, r)
    BY <1>2 DEF Settled
  <2>2. QED
    BY <1>1, <1>3, <1>4, <1>14, <2>1 DEF Remembers
<1>18. Erased(E, U, A, G, r)
  <2>1. Erased(D, T, A, G, r)
    BY <1>2 DEF Settled
  <2>2. ASSUME NEW k \in G[r][r], NEW id \in DelIds(A[r][k].update)
        PROVE  Held(e, id) /\ e.heap[RefOf(e, id)].deleted
    <3>1. Held(d, id) /\ d.heap[RefOf(d, id)].deleted
      BY <2>1 DEF Erased
    <3>2. id \in IdType
      <4>1. k \in 1 .. Len(A[r])
        BY <1>2 DEF Settled, Received
      <4>2. A[r][k].update.dels \in Seq(Ranges)
        BY <1>2, <4>1 DEF Settled, Sent
      <4>3. QED
        BY <4>2, DelIdsAreIds
    <3>3. RefOf(d, id) \in Refs(d)
      BY <1>2, <3>1, <3>2, getItemFinds DEF Sound
    <3>4. QED
      BY <1>3, <1>12, <1>13, <3>1, <3>3
  <2>3. \A i \in 1 .. Len(t) : t[i] \in Refs(d)
    <3> HIDE DEF t
    <3>1. QED BY <1>6, SeqElements
  <2>4. ASSUME NEW i \in 1 .. Len(t) PROVE e.heap[t[i]].deleted
    <3> DEFINE k == t[i]
    <3>1. k \in Refs(d) /\ \E j \in 1 .. Len(t) : t[j] = k
      BY <2>3
    <3>2. CASE \E j \in 1 .. Len(s) : s[j] = k
      <4>1. d.heap[k].deleted
        BY <2>1, <3>2 DEF Erased
      <4> HIDE DEF k
      <4>2. e.heap[k].deleted
        BY <1>3, <3>1, <4>1
      <4>3. QED
        BY <4>2 DEF k
    <3>3. CASE \E j \in 1 .. Len(refs) : refs[j] = k
      <4> HIDE DEF k
      <4>2. e.heap[k].deleted
        BY <1>3, <3>1, <3>3
      <4>3. QED
        BY <4>2 DEF k
    <3> HIDE DEF k
    <3>4. QED
      BY <1>7, <3>1, <3>2, <3>3
  <2>5. ASSUME NEW k \in Refs(d), e.heap[k].deleted, e.heap[k].list \notin Key
        PROVE  \/ \E i \in 1 .. Len(t) : t[i] = k
               \/ \E s1 \in Client : \E h \in G[r][s1] : e.heap[k].id \in DelIds(A[s1][h].update)
    <3>1. CASE d.heap[k].deleted
      <4>1. \/ \E i \in 1 .. Len(s) : s[i] = k
            \/ \E s1 \in Client : \E h \in G[r][s1] : d.heap[k].id \in DelIds(A[s1][h].update)
        BY <1>4, <2>1, <2>5, <3>1 DEF Erased
      <4>2. QED
        BY <1>4, <1>7, <4>1
    <3>2. CASE \E i \in 1 .. Len(refs) : refs[i] = k
      BY <1>7, <3>2
    <3>3. QED
      BY <1>3, <2>5, <3>1, <3>2
  <2>6. QED
    BY <1>1, <1>3, <2>2, <2>4, <2>5 DEF Erased
<1>19. y = 0 => Complete(E, U, A, G, r)
  <2>1. y = 0 => Complete(D, T, A, G, r)
    BY <1>2 DEF Settled
  <2>2. QED
    BY <1>1, <1>3, <1>4, <2>1 DEF Complete
<1>20. Settled(E, U, A, G, y, r)
  BY <1>10, <1>11, <1>15, <1>16, <1>17, <1>18, <1>19 DEF Settled
<1>21. QED
  BY <1>9, <1>20 DEF Consistent

-----------------------------------------------------------------------------
(***************************************************************************)
(* An update that is applied.                                              *)
(***************************************************************************)
\* What r has of the updates grows by what u has of them, from G to H; y and z count
\* the exchanges of states before and after.
Getting(A, G, H, r, u, y, z) ==
    /\ \A q \in Client \ {r} : H[q] = G[q]
    /\ \A s \in Client : G[r][s] \subseteq H[r][s] /\ H[r][s] \subseteq 1 .. Len(A[s])
    /\ H[r][r] = G[r][r]
    /\ \A s \in Client : \A k \in H[r][s] : k \in G[r][s] \/ ItemIds(A[s][k].update) \subseteq ItemIds(u)
    /\ Foreign(A, H, r) = Foreign(A, G, r) \cup DelIds(u)
    /\ z = 0 => /\ y = 0
                /\ \A id \in ItemIds(u) :
                      \E s \in Client : \E k \in H[r][s] : id \in ItemIds(A[s][k].update)

\* What the items of an update are.
Meant(D, u) ==
    /\ u.items \in Seq(ItemType) /\ u.dels \in Seq(Ranges)
    /\ \A j \in 1 .. Len(u.items) : Authored(D, u.items[j])

\* The peers agree after an update, and it brings nothing of the peer's own.
LEMMA JoiningAgrees ==
  ASSUME NEW D, NEW T, NEW A, NEW G, NEW y, Consistent(D, T, A, G, y),
         NEW r \in Client, NEW u, Meant(D, u), NEW e, Updated(D[r], e, u),
         NEW E, Replaces(D, E, r, e)
  PROVE  /\ Grown(D, E) /\ Agrees(E, r)
         /\ \A k \in Refs(e) : k \notin Refs(D[r]) => e.heap[k].id.client # r
         /\ Len(e.store[r]) = Len(D[r].store[r])
<1> DEFINE d == D[r]
<1>1. Sound(d) /\ Sound(e) /\ Extends(d, e) /\ Whole(d) /\ Whole(e) /\ e \in Docs /\ d \in Docs
  <2>1. Sound(d) /\ Whole(d) /\ d \in Docs
    BY SettledSound
  <2>2. Sound(e) /\ Extends(d, e)
    BY DEF Updated
  <2>3. Whole(e) /\ e \in Docs
    BY <2>2 DEF Sound, Whole
  <2>4. QED
    BY <2>1, <2>2, <2>3
<1>2. Grown(D, E)
  BY <1>1, ReplacesGrows
<1>3. E[r] = e
  BY DEF Replaces
<1>4. ASSUME NEW k \in Refs(e), k \notin Refs(d)
      PROVE  \E j \in 1 .. Len(u.items) : Says(e.heap[k], u.items[j]) /\ Authored(D, u.items[j])
  BY <1>4 DEF Updated, Meant, Says
<1>5. ASSUME NEW k \in Refs(e) PROVE Authored(E, e.heap[k])
  <2>1. CASE k \in Refs(d)
    <3> DEFINE a == d.heap[k]
               b == e.heap[k]
    <3>1. Authored(D, a)
      BY <2>1 DEF Consistent, Settled, Agrees
    <3>2. a.id \in IdType
      BY <2>1, SettledSound
    <3>3. Says(b, a)
      BY <1>1, <2>1 DEF Extends, SameItem, Says
    <3> HIDE DEF a, b
    <3>4. Authored(E, b)
      BY <1>2, <3>1, <3>2, <3>3, AuthoredStays, AuthoredSays
    <3>5. QED
      BY <3>4 DEF b
  <2>2. CASE k \notin Refs(d)
    <3>1. PICK j \in 1 .. Len(u.items) : Says(e.heap[k], u.items[j]) /\ Authored(D, u.items[j])
      BY <1>4, <2>2
    <3> DEFINE a == u.items[j]
               b == e.heap[k]
    <3>2. a \in ItemType
      BY DEF Meant
    <3>3. Says(b, a) /\ Authored(D, a)
      BY <3>1
    <3> HIDE DEF a, b
    <3>4. a.id \in IdType
      BY <3>2, ItemFields
    <3>5. Authored(E, b)
      BY <1>2, <3>3, <3>4, AuthoredStays, AuthoredSays
    <3>6. QED
      BY <3>5 DEF b
  <2>3. QED
    BY <2>1, <2>2
<1>6. ASSUME NEW k \in Refs(e), k \notin Refs(d) PROVE e.heap[k].id.client # r
  <2>1. SUFFICES ASSUME e.heap[k].id.client = r PROVE FALSE
    OBVIOUS
  <2>2. PICK j \in 1 .. Len(u.items) : Says(e.heap[k], u.items[j]) /\ Authored(D, u.items[j])
    BY <1>4, <1>6
  <2>3. Held(d, e.heap[k].id)
    BY <2>1, <2>2 DEF Says, Authored
  <2> HIDE DEF d
  <2>4. ~Held(d, e.heap[k].id)
    BY <1>1, <1>6, ExtendsKeeps
  <2>5. QED
    BY <2>3, <2>4
<1>7. Len(e.store[r]) = Len(d.store[r])
  <2> DEFINE b == Len(d.store[r])
             c == Len(e.store[r])
  <2>1. b \in Nat /\ c \in Nat
    BY <1>1, DocFields
  <2>2. b <= c
    <3> HIDE DEF d
    <3>1. QED BY <1>1, ExtendsKeeps
  <2>3. SUFFICES ASSUME b < c PROVE FALSE
    <3> HIDE DEF b, c
    <3>1. b = c
      BY <2>1, <2>2, <2>3
    <3>2. QED
      BY <3>1 DEF b, c
  <2> DEFINE k == e.store[r][b + 1]
  <2>4. b + 1 \in 1 .. c /\ (b + 1) - 1 = b
    <3> HIDE DEF b, c
    <3>1. QED BY <2>1, <2>3
  <2>5. k \in Refs(e) /\ e.heap[k].id = [client |-> r, clock |-> b]
    <3> HIDE DEF b
    <3>1. \A i \in 1 .. c : e.store[r][i] \in Refs(e) /\ e.heap[e.store[r][i]].id = [client |-> r, clock |-> i - 1]
      BY <1>1 DEF Whole
    <3> HIDE DEF c
    <3>2. e.store[r][b + 1] \in Refs(e) /\ e.heap[e.store[r][b + 1]].id = [client |-> r, clock |-> (b + 1) - 1]
      BY <2>4, <3>1
    <3>3. QED
      BY <2>4, <3>2
  <2> HIDE DEF k
  <2>6. k \in Refs(d)
    BY <1>6, <2>5
  <2>7. d.heap[k].id = [client |-> r, clock |-> b]
    BY <1>1, <2>5, <2>6 DEF Extends, SameItem
  <2>8. d.heap[k].id.clock < Len(d.store[d.heap[k].id.client])
    BY <1>1, <2>6 DEF Whole
  <2>9. b < b
    BY <2>7, <2>8
  <2> HIDE DEF b
  <2>10. QED
    BY <2>1, <2>9
<1>8. QED
  BY <1>1, <1>2, <1>3, <1>5, <1>6, <1>7 DEF Agrees

\* An update names items and deletions of its sender by their IDs.
LEMMA SentIds ==
  ASSUME NEW D, NEW sent, NEW k, Sent(D, sent, k)
  PROVE  /\ \A id \in ItemIds(sent[k].update) : id \in IdType
         /\ \A id \in DelIds(sent[k].update) : id \in IdType /\ Held(D[id.client], id)
         /\ Meant(D, sent[k].update)
<1> DEFINE u == sent[k].update
<1>1. /\ u.items \in Seq(ItemType) /\ u.dels \in Seq(Ranges)
      /\ \A id \in DelIds(u) : Held(D[id.client], id)
      /\ \A j \in 1 .. Len(u.items) : Authored(D, u.items[j])
  BY DEF Sent
<1> HIDE DEF u
<1>2. ASSUME NEW j \in 1 .. Len(u.items) PROVE u.items[j].id \in IdType
  <2>1. u.items[j] \in ItemType
    BY <1>1
  <2>2. QED
    BY <2>1, ItemFields
<1>3. \A id \in ItemIds(u) : id \in IdType
  BY <1>2 DEF ItemIds
<1>4. \A id \in DelIds(u) : id \in IdType
  BY <1>1, DelIdsAreIds
<1>5. QED
  BY <1>1, <1>3, <1>4 DEF Meant, u

\* What a delete set says after ranges were added.
LEMMA isDeletedGrows ==
  ASSUME NEW d \in Docs, NEW e \in Docs, NEW u, u.dels \in Seq(Ranges), e.ds = d.ds \o u.dels
  PROVE  \A id \in IdType : isDeleted(e, id) <=> isDeleted(d, id) \/ id \in DelIds(u)
<1> DEFINE a == d.ds
           b == u.dels
           c == e.ds
<1>1. a \in Seq(Ranges) /\ b \in Seq(Ranges) /\ c = a \o b
  BY DocFields
<1>2. /\ \A id \in IdType : isDeleted(d, id) <=> \E i \in 1 .. Len(a) : id \in Covered(a[i])
      /\ \A id \in IdType : isDeleted(e, id) <=> \E i \in 1 .. Len(c) : id \in Covered(c[i])
  BY isDeletedIsCovered
<1>3. \A id : id \in DelIds(u) <=> \E i \in 1 .. Len(b) : id \in Covered(b[i])
  BY DEF DelIds
<1> HIDE DEF a, b, c
<1>4. /\ Len(c) = Len(a) + Len(b) /\ Len(a) \in Nat /\ Len(b) \in Nat
      /\ \A i \in 1 .. Len(a) + Len(b) : c[i] = IF i <= Len(a) THEN a[i] ELSE b[i - Len(a)]
  BY <1>1, ConcatProperties
<1>5. ASSUME NEW i \in 1 .. Len(c)
      PROVE  (\E j \in 1 .. Len(a) : c[i] = a[j]) \/ (\E j \in 1 .. Len(b) : c[i] = b[j])
  <2>1. CASE i <= Len(a)
    BY <1>4, <2>1
  <2>2. CASE i > Len(a)
    <3>1. i - Len(a) \in 1 .. Len(b) /\ c[i] = b[i - Len(a)]
      BY <1>4, <2>2
    <3>2. QED
      BY <3>1
  <2>3. QED
    BY <1>4, <2>1, <2>2
<1>6. ASSUME NEW j \in 1 .. Len(a) PROVE \E i \in 1 .. Len(c) : c[i] = a[j]
  <2>1. j \in 1 .. Len(c) /\ c[j] = a[j]
    BY <1>4
  <2>2. QED
    BY <2>1
<1>7. ASSUME NEW j \in 1 .. Len(b) PROVE \E i \in 1 .. Len(c) : c[i] = b[j]
  <2>1. Len(a) + j \in 1 .. Len(c) /\ (Len(a) + j) - Len(a) = j /\ ~(Len(a) + j <= Len(a))
    BY <1>4
  <2>2. c[Len(a) + j] = b[j]
    BY <1>4, <2>1
  <2>3. QED
    BY <2>1, <2>2
<1>8. ASSUME NEW id \in IdType
      PROVE  isDeleted(e, id) <=> isDeleted(d, id) \/ id \in DelIds(u)
  <2>1. isDeleted(e, id) => isDeleted(d, id) \/ id \in DelIds(u)
    BY <1>2, <1>3, <1>5
  <2>2. isDeleted(d, id) => isDeleted(e, id)
    BY <1>2, <1>6
  <2>3. id \in DelIds(u) => isDeleted(e, id)
    BY <1>2, <1>3, <1>7
  <2>4. QED
    BY <2>1, <2>2, <2>3
<1>9. QED
  BY <1>8

\* What was received is held, and the delete set is what the others deleted.
LEMMA JoiningReceived ==
  ASSUME NEW D, NEW T, NEW A, NEW G, NEW y, Consistent(D, T, A, G, y),
         NEW r \in Client, NEW u, Meant(D, u), NEW e, Updated(D[r], e, u),
         NEW E, Replaces(D, E, r, e), NEW H, NEW z, Getting(A, G, H, r, u, y, z)
  PROVE  /\ Opened(E, T, A, r)
         /\ Received(E, A, H, r)
         /\ Remembers(E, A, H, r)
         /\ Erased(E, T, A, H, r)
         /\ z = 0 => Complete(E, T, A, H, r)
<1> DEFINE d == D[r]
           dels == T[r].dels
           items == T[r].items
<1>1. E[r] = e
  BY DEF Replaces
<1>2. Settled(D, T, A, G, y, r) /\ Sound(d) /\ d \in Docs /\ Whole(d)
  BY SettledSound DEF Consistent
<1>3. /\ Grown(D, E)
      /\ \A k \in Refs(e) : k \notin Refs(d) => e.heap[k].id.client # r
      /\ Len(e.store[r]) = Len(d.store[r])
  BY JoiningAgrees
<1>4. Sound(e) /\ Whole(e) /\ e \in Docs /\ Extends(d, e)
  BY DEF Updated, Sound, Whole
<1>5. \A k \in Refs(d) : k \in Refs(e) /\ e.heap[k].id = d.heap[k].id /\ e.heap[k].list = d.heap[k].list
  <2>1. Refs(d) \subseteq Refs(e)
    <3> HIDE DEF d
    <3>1. QED BY <1>2, <1>4, ExtendsKeeps
  <2>2. QED
    BY <1>4, <2>1 DEF Extends, SameItem
<1>6. \A id \in IdType : Held(d, id) => Held(e, id) /\ RefOf(e, id) = RefOf(d, id) /\ RefOf(d, id) \in Refs(d)
  <2>1. ASSUME NEW id \in IdType, Held(d, id)
        PROVE  Held(e, id) /\ RefOf(e, id) = RefOf(d, id) /\ RefOf(d, id) \in Refs(d)
    <3>1. Held(E[r], id) /\ RefOf(E[r], id) = RefOf(D[r], id) /\ RefOf(D[r], id) \in Refs(D[r])
      BY <1>3, <2>1, HeldStays
    <3>2. QED
      BY <1>1, <3>1
  <2>2. QED
    BY <2>1
<1>7. ASSUME NEW s \in Client, NEW k \in H[r][s]
      PROVE  /\ k \in G[r][s] \/ ItemIds(A[s][k].update) \subseteq ItemIds(u)
             /\ \A id \in ItemIds(A[s][k].update) : id \in IdType
             /\ \A id \in DelIds(A[s][k].update) : id \in IdType /\ Held(D[id.client], id)
  <2>1. k \in 1 .. Len(A[s]) /\ (k \in G[r][s] \/ ItemIds(A[s][k].update) \subseteq ItemIds(u))
    BY DEF Getting
  <2> DEFINE sent == A[s]
  <2>2. Sent(D, sent, k)
    BY <2>1 DEF Consistent, Settled
  <2> HIDE DEF sent
  <2>3. /\ \A id \in ItemIds(sent[k].update) : id \in IdType
        /\ \A id \in DelIds(sent[k].update) : id \in IdType /\ Held(D[id.client], id)
    BY <2>2, SentIds
  <2>4. QED
    BY <2>1, <2>3 DEF sent
<1>8. Opened(E, T, A, r)
  <2>1. Opened(D, T, A, r)
    BY <1>2 DEF Settled
  <2>2. items \in Seq(Refs(d)) /\ dels \in Seq(Refs(d))
    BY <2>1 DEF Opened
  <2>3. \A i \in 1 .. Len(items) : items[i] \in Refs(d)
    BY <2>2, SeqElements
  <2>4. items \in Seq(Refs(e)) /\ dels \in Seq(Refs(e))
    <3> DEFINE Q == Refs(d)
               R == Refs(e)
    <3>1. Q \subseteq R /\ items \in Seq(Q) /\ dels \in Seq(Q)
      BY <1>5, <2>2
    <3> HIDE DEF Q, R, items, dels
    <3>2. items \in Seq(R) /\ dels \in Seq(R)
      BY <3>1
    <3>3. QED
      BY <3>2 DEF R
  <2>5. ASSUME NEW i \in 1 .. Len(items)
        PROVE  e.heap[items[i]].id = [client |-> r, clock |-> Len(e.store[r]) - Len(items) + (i - 1)]
    <3>1. d.heap[items[i]].id = [client |-> r, clock |-> Len(d.store[r]) - Len(items) + (i - 1)]
      BY <2>1 DEF Opened
    <3>2. e.heap[items[i]].id = d.heap[items[i]].id
      BY <1>5, <2>3
    <3>3. QED
      BY <1>3, <3>1, <3>2
  <2>6. ASSUME NEW k \in Refs(e), e.heap[k].id.client = r
        PROVE  \/ \E i \in 1 .. Len(items) : items[i] = k
               \/ \E h \in 1 .. Len(A[r]) : e.heap[k].id \in ItemIds(A[r][h].update)
    <3>1. k \in Refs(d) /\ e.heap[k].id = d.heap[k].id
      BY <1>3, <1>5, <2>6
    <3>2. QED
      BY <2>1, <2>6, <3>1 DEF Opened
  <2>7. QED
    BY <1>1, <2>4, <2>5, <2>6 DEF Opened
<1>9. Received(E, A, H, r)
  <2>1. Received(D, A, G, r)
    BY <1>2 DEF Settled
  <2>2. ASSUME NEW s \in Client, NEW k \in H[r][s], NEW id \in ItemIds(A[s][k].update) PROVE Held(e, id)
    <3>1. CASE k \in G[r][s]
      <4>1. Held(d, id) /\ id \in IdType
        BY <1>7, <2>1, <3>1 DEF Received
      <4>2. QED
        BY <1>6, <4>1
    <3>2. CASE ItemIds(A[s][k].update) \subseteq ItemIds(u)
      <4>1. PICK j \in 1 .. Len(u.items) : id = u.items[j].id
        BY <3>2 DEF ItemIds
      <4>2. QED
        BY <4>1 DEF Updated
    <3>3. QED
      BY <1>7, <3>1, <3>2
  <2>3. QED
    BY <1>1, <2>1, <2>2 DEF Received, Getting
<1>10. \A id \in IdType : isDeleted(e, id) <=> isDeleted(d, id) \/ id \in DelIds(u)
  <2>1. e.ds = d.ds \o u.dels /\ u.dels \in Seq(Ranges)
    BY DEF Updated, Meant
  <2> HIDE DEF d
  <2>2. QED
    BY <1>2, <1>4, <2>1, isDeletedGrows
<1>11. Remembers(E, A, H, r)
  <2>1. \A id \in IdType : isDeleted(d, id) <=> id \in Foreign(A, G, r)
    BY <1>2 DEF Settled, Remembers
  <2>2. \A id \in IdType : isDeleted(e, id) <=> id \in Foreign(A, H, r)
    BY <1>10, <2>1 DEF Getting
  <2>3. \A k \in Refs(e) : isDeleted(e, e.heap[k].id) => e.heap[k].deleted
    BY DEF Updated
  <2>4. QED
    BY <1>1, <2>2, <2>3 DEF Remembers
<1>12. Erased(E, T, A, H, r)
  <2>1. Erased(D, T, A, G, r) /\ H[r][r] = G[r][r]
    BY <1>2 DEF Settled, Getting
  <2>2. ASSUME NEW k \in H[r][r], NEW id \in DelIds(A[r][k].update)
        PROVE  Held(e, id) /\ e.heap[RefOf(e, id)].deleted
    <3>1. Held(d, id) /\ d.heap[RefOf(d, id)].deleted /\ id \in IdType
      BY <1>7, <2>1 DEF Erased
    <3>2. Held(e, id) /\ RefOf(e, id) = RefOf(d, id) /\ RefOf(d, id) \in Refs(d)
      BY <1>6, <3>1
    <3>3. QED
      BY <1>5, <3>1, <3>2 DEF Updated
  <2>3. ASSUME NEW i \in 1 .. Len(dels) PROVE e.heap[dels[i]].deleted
    <3>1. d.heap[dels[i]].deleted
      BY <2>1 DEF Erased
    <3>2. dels \in Seq(Refs(d))
      BY <1>2 DEF Settled, Opened
    <3>3. dels[i] \in Refs(d)
      BY <3>2, SeqElements
    <3>4. QED
      BY <1>5, <3>1, <3>3 DEF Updated
  <2>4. ASSUME NEW k \in Refs(e), e.heap[k].deleted, e.heap[k].list \notin Key
        PROVE  \/ \E i \in 1 .. Len(dels) : dels[i] = k
               \/ \E s \in Client : \E h \in H[r][s] : e.heap[k].id \in DelIds(A[s][h].update)
    <3>1. CASE k \in Refs(d) /\ d.heap[k].deleted
      <4>1. \/ \E i \in 1 .. Len(dels) : dels[i] = k
            \/ \E s \in Client : \E h \in G[r][s] : d.heap[k].id \in DelIds(A[s][h].update)
        BY <1>5, <2>1, <2>4, <3>1 DEF Erased
      <4>2. \A s \in Client : G[r][s] \subseteq H[r][s]
        BY DEF Getting
      <4>3. QED
        BY <1>5, <3>1, <4>1, <4>2
    <3>2. CASE isDeleted(e, e.heap[k].id)
      <4>1. e.heap[k] \in ItemType
        BY <1>4, DocFields
      <4>2. e.heap[k].id \in IdType
        BY <4>1, ItemFields
      <4>3. e.heap[k].id \in Foreign(A, H, r)
        BY <1>1, <1>11, <3>2, <4>2 DEF Remembers
      <4>4. QED
        BY <4>3 DEF Foreign
    <3>3. QED
      BY <2>4, <3>1, <3>2 DEF Updated
  <2>5. QED
    BY <1>1, <2>2, <2>3, <2>4 DEF Erased
<1>13. ASSUME z = 0 PROVE Complete(E, T, A, H, r)
  <2>1. /\ y = 0
        /\ \A id \in ItemIds(u) : \E s \in Client : \E k \in H[r][s] : id \in ItemIds(A[s][k].update)
        /\ \A s \in Client : G[r][s] \subseteq H[r][s]
    BY <1>13 DEF Getting
  <2>2. ASSUME NEW k \in Refs(e)
        PROVE  \/ \E i \in 1 .. Len(items) : items[i] = k
               \/ \E s \in Client : \E h \in H[r][s] : e.heap[k].id \in ItemIds(A[s][h].update)
    <3>1. CASE k \in Refs(d)
      <4>1. \/ \E i \in 1 .. Len(items) : items[i] = k
            \/ \E s \in Client : \E h \in G[r][s] : d.heap[k].id \in ItemIds(A[s][h].update)
        BY <1>2, <2>1, <3>1 DEF Settled, Complete
      <4>2. QED
        BY <1>5, <2>1, <3>1, <4>1
    <3>2. CASE k \notin Refs(d)
      <4>1. PICK j \in 1 .. Len(u.items) : e.heap[k].id = u.items[j].id
        BY <3>2 DEF Updated
      <4>2. e.heap[k].id \in ItemIds(u)
        BY <4>1 DEF ItemIds
      <4>3. QED
        BY <2>1, <4>2
    <3>3. QED
      BY <3>1, <3>2
  <2>3. QED
    BY <1>1, <2>2 DEF Complete
<1>14. QED
  BY <1>8, <1>9, <1>11, <1>12, <1>13

\* An update that is applied keeps the peers consistent.
LEMMA JoiningKeeps ==
  ASSUME NEW D, NEW T, NEW A, NEW G, NEW y, Consistent(D, T, A, G, y),
         NEW r \in Client, NEW u, Meant(D, u), NEW e, Updated(D[r], e, u),
         NEW E, Replaces(D, E, r, e), NEW H, NEW z, Getting(A, G, H, r, u, y, z)
  PROVE  Consistent(E, T, A, H, z)
<1>1. Grown(D, E) /\ Agrees(E, r)
  BY JoiningAgrees
<1>2. ASSUME NEW q \in Client, q # r PROVE Settled(E, T, A, H, z, q)
  <2>1. E[q] = D[q] /\ H[q] = G[q] /\ (z = 0 => y = 0)
    BY <1>2 DEF Replaces, Getting
  <2>2. Settled(E, T, A, H, y, q)
    BY <1>1, <2>1, OthersStay
  <2>3. QED
    BY <2>1, <2>2 DEF Settled
<1>3. ASSUME NEW k \in 1 .. Len(A[r]) PROVE Sent(E, A[r], k)
  <2> DEFINE sent == A[r]
  <2>1. Sent(D, sent, k)
    BY DEF Consistent, Settled
  <2> HIDE DEF sent
  <2>2. Sent(E, sent, k)
    BY <1>1, <2>1, SentStays
  <2>3. QED
    BY <2>2 DEF sent
<1>4. /\ Opened(E, T, A, r)
      /\ Received(E, A, H, r)
      /\ Remembers(E, A, H, r)
      /\ Erased(E, T, A, H, r)
      /\ z = 0 => Complete(E, T, A, H, r)
  BY JoiningReceived
<1>5. Settled(E, T, A, H, z, r)
  BY <1>1, <1>3, <1>4 DEF Settled
<1>6. QED
  BY <1>2, <1>5 DEF Consistent

-----------------------------------------------------------------------------
(***************************************************************************)
(* The end of a transaction.                                               *)
(***************************************************************************)
\* U is T without the transaction of r.
Ending(T, U, r) ==
    /\ U[r].items = <<>> /\ U[r].dels = <<>>
    /\ \A q \in Client \ {r} : U[q] = T[q]

\* B is A with one more update of r, and H is G with that.
Announcing(A, B, G, H, r, u) ==
    /\ Len(A[r]) \in Nat
    /\ Len(B[r]) = Len(A[r]) + 1
    /\ \A k \in 1 .. Len(A[r]) : B[r][k] = A[r][k]
    /\ B[r][Len(A[r]) + 1].update = u
    /\ \A q \in Client \ {r} : B[q] = A[q] /\ H[q] = G[q] /\ H[r][q] = G[r][q]
    /\ H[r][r] = G[r][r] \cup {Len(A[r]) + 1}

\* A transaction without changes ends.
LEMMA EndingKeeps ==
  ASSUME NEW D, NEW T, NEW A, NEW G, NEW y, Consistent(D, T, A, G, y),
         NEW r \in Client, T[r].items = <<>>, T[r].dels = <<>>, NEW U, Ending(T, U, r)
  PROVE  Consistent(D, U, A, G, y)
<1>1. ASSUME NEW q \in Client PROVE Settled(D, U, A, G, y, q)
  <2>1. U[q].items = T[q].items /\ U[q].dels = T[q].dels
    BY DEF Ending
  <2>2. Settled(D, T, A, G, y, q)
    BY DEF Consistent
  <2>3. Opened(D, U, A, q)
    BY <2>1, <2>2 DEF Settled, Opened
  <2>4. Erased(D, U, A, G, q)
    BY <2>1, <2>2 DEF Settled, Erased
  <2>5. y = 0 => Complete(D, U, A, G, q)
    BY <2>1, <2>2 DEF Settled, Complete
  <2>6. QED
    BY <2>2, <2>3, <2>4, <2>5 DEF Settled
<1>2. QED
  BY <1>1 DEF Consistent

\* The updates before stay where they were.
LEMMA AnnouncingKeeps ==
  ASSUME NEW A, NEW B, NEW G, NEW H, NEW r \in Client, NEW u, Announcing(A, B, G, H, r, u), NEW q \in Client
  PROVE  /\ \A k \in 1 .. Len(A[q]) : B[q][k] = A[q][k]
         /\ 1 .. Len(A[q]) \subseteq 1 .. Len(B[q])
<1>1. CASE q = r
  BY <1>1 DEF Announcing
<1>2. CASE q # r
  BY <1>2 DEF Announcing
<1>3. QED
  BY <1>1, <1>2

\* An update depends on those before it only.
LEMMA SentPrefix ==
  ASSUME NEW D, NEW sent, NEW more, NEW n \in Nat, \A k \in 1 .. n : more[k] = sent[k],
         NEW k \in 1 .. n, Sent(D, sent, k)
  PROVE  Sent(D, more, k)
<1> DEFINE u == sent[k].update
<1>1. more[k].update = u /\ \A h \in 1 .. k - 1 : more[h] = sent[h]
  OBVIOUS
<1>2. /\ u.items \in Seq(ItemType)
      /\ u.dels \in Seq(Ranges)
      /\ \A j \in 1 .. Len(u.items) :
              /\ Wire(u.items[j])
              /\ Authored(D, u.items[j])
              /\ \/ u.items[j].id.clock = 0
                 \/ \E i \in 1 .. j - 1 : u.items[i].id = Before(u.items[j].id)
                 \/ \E h \in 1 .. k - 1 : Before(u.items[j].id) \in ItemIds(sent[h].update)
      /\ \A id \in DelIds(u) : Held(D[id.client], id)
  BY DEF Sent
<1> HIDE DEF u
<1>3. QED
  BY <1>1, <1>2 DEF Sent

\* The peers that take no part in the end of a transaction.
LEMMA AnnouncingOthers ==
  ASSUME NEW D, NEW T, NEW A, NEW G, NEW y, Consistent(D, T, A, G, y),
         NEW r \in Client, NEW U, Ending(T, U, r),
         NEW B, NEW H, NEW u, Announcing(A, B, G, H, r, u), NEW q \in Client, q # r
  PROVE  Settled(D, U, B, H, y, q)
<1>1. Settled(D, T, A, G, y, q)
  BY DEF Consistent
<1>2. U[q] = T[q] /\ B[q] = A[q] /\ H[q] = G[q]
  BY DEF Ending, Announcing
<1>3. ASSUME NEW s \in Client PROVE /\ G[q][s] \subseteq 1 .. Len(A[s]) /\ G[q][s] \subseteq 1 .. Len(B[s])
                                    /\ \A k \in G[q][s] : B[s][k] = A[s][k]
  <2>1. G[q][s] \subseteq 1 .. Len(A[s])
    BY <1>1 DEF Settled, Received
  <2>2. QED
    BY <2>1, AnnouncingKeeps
<1>4. Received(D, B, H, q)
  <2>1. G[q][q] = 1 .. Len(A[q]) /\ \A s \in Client : \A k \in G[q][s] : \A id \in ItemIds(A[s][k].update) : Held(D[q], id)
    BY <1>1 DEF Settled, Received
  <2>2. QED
    BY <1>2, <1>3, <2>1 DEF Received
<1>5. Foreign(B, H, q) = Foreign(A, G, q)
  BY <1>2, <1>3 DEF Foreign
<1>6. Remembers(D, B, H, q)
  BY <1>1, <1>5 DEF Settled, Remembers
<1>7. Erased(D, U, B, H, q)
  <2>1. Erased(D, T, A, G, q)
    BY <1>1 DEF Settled
  <2>2. QED
    BY <1>2, <1>3, <2>1 DEF Erased
<1>8. y = 0 => Complete(D, U, B, H, q)
  <2>1. y = 0 => Complete(D, T, A, G, q)
    BY <1>1 DEF Settled
  <2>2. QED
    BY <1>2, <1>3, <2>1 DEF Complete
<1>9. Opened(D, U, B, q) /\ Agrees(D, q) /\ \A k \in 1 .. Len(B[q]) : Sent(D, B[q], k)
  BY <1>1, <1>2 DEF Settled, Opened
<1>10. QED
  BY <1>4, <1>6, <1>7, <1>8, <1>9 DEF Settled

\* The items of the transaction follow one another.
LEMMA OpenedRuns ==
  ASSUME NEW D, NEW T, NEW A, NEW r \in Client, Sound(D[r]), Opened(D, T, A, r)
  PROVE  /\ Run(D[r], T[r].items, r)
         /\ Len(T[r].items) > 0 =>
               /\ Len(D[r].store[r]) - Len(T[r].items) \in Nat
               /\ D[r].heap[T[r].items[1]].id = [client |-> r, clock |-> Len(D[r].store[r]) - Len(T[r].items)]
<1> DEFINE d == D[r]
           items == T[r].items
           m == Len(items)
           L == Len(d.store[r])
<1>1. /\ items \in Seq(Refs(d))
      /\ \A i \in 1 .. m : d.heap[items[i]].id = [client |-> r, clock |-> L - m + (i - 1)]
  BY DEF Opened
<1>2. L \in Nat /\ d \in Docs
  BY DocFields DEF Sound, Whole
<1>3. m \in Nat /\ \A i \in 1 .. m : items[i] \in Refs(d)
  <2> DEFINE R == Refs(d)
  <2>1. items \in Seq(R)
    BY <1>1
  <2> HIDE DEF R, items
  <2>2. QED
    BY <2>1, SeqElements DEF R
<1> HIDE DEF m, L, d
<1>4. ASSUME m > 0 PROVE L - m \in Nat /\ d.heap[items[1]].id = [client |-> r, clock |-> L - m]
  <2>1. 1 \in 1 .. m /\ L - m + (1 - 1) = L - m
    BY <1>2, <1>3, <1>4
  <2>2. d.heap[items[1]].id = [client |-> r, clock |-> L - m + (1 - 1)]
    BY <1>1, <2>1
  <2>3. d.heap[items[1]] \in ItemType
    BY <1>2, <1>3, <2>1, DocFields
  <2>4. d.heap[items[1]].id.clock \in Nat
    BY <2>3, ItemFields
  <2>5. QED
    BY <2>1, <2>2, <2>4
<1>5. ASSUME NEW i \in 1 .. m
      PROVE  d.heap[items[i]].id = [client |-> r, clock |-> d.heap[items[1]].id.clock + (i - 1)]
  <2>1. m > 0
    BY <1>3
  <2>2. d.heap[items[1]].id.clock = L - m
    BY <1>4, <2>1
  <2>3. d.heap[items[i]].id = [client |-> r, clock |-> L - m + (i - 1)]
    BY <1>1
  <2>4. QED
    BY <2>2, <2>3
<1>6. QED
  BY <1>1, <1>4, <1>5 DEF Run, m, L, d

\* The update that is announced says what the peers say.
LEMMA AnnouncingSent ==
  ASSUME NEW D, NEW T, NEW A, NEW G, NEW y, Consistent(D, T, A, G, y),
         NEW r \in Client, NEW u, Announces(D[r], u, T[r].items, T[r].dels),
         NEW B, NEW H, Announcing(A, B, G, H, r, u)
  PROVE  Sent(D, B[r], Len(A[r]) + 1)
<1> DEFINE d == D[r]
           items == T[r].items
           dels == T[r].dels
           m == Len(items)
           L == Len(d.store[r])
           n == Len(A[r])
           sent == B[r]
<1>1. /\ Sound(d) /\ Whole(d) /\ d \in Docs /\ Opened(D, T, A, r) /\ Agrees(D, r)
      /\ \A k \in Refs(d) : d.heap[k].id \in IdType
  BY SettledSound DEF Consistent, Settled
<1>2. /\ items \in Seq(Refs(d)) /\ dels \in Seq(Refs(d))
      /\ \A k \in Refs(d) : d.heap[k].id.client = r =>
          \/ \E i \in 1 .. m : items[i] = k
          \/ \E h \in 1 .. n : d.heap[k].id \in ItemIds(A[r][h].update)
      /\ \A i \in 1 .. m : d.heap[items[i]].id = [client |-> r, clock |-> L - m + (i - 1)]
  BY <1>1 DEF Opened
<1>3. m > 0 => L - m \in Nat /\ d.heap[items[1]].id = [client |-> r, clock |-> L - m]
  BY <1>1, OpenedRuns
<1>4. /\ n \in Nat /\ sent[n + 1].update = u /\ \A k \in 1 .. n : sent[k] = A[r][k]
  BY DEF Announcing
<1>5. /\ u.items \in Seq(ItemType)
      /\ u.dels \in Seq(Ranges)
      /\ \A j \in 1 .. Len(u.items) :
            /\ Wire(u.items[j])
            /\ \E i \in 1 .. m :
                  /\ Says(u.items[j], d.heap[items[i]])
                  /\ i = 1 \/ \E h \in 1 .. j - 1 : u.items[h].id = Before(u.items[j].id)
      /\ \A id \in IdType : id \in DelIds(u) <=> \E i \in 1 .. Len(dels) : d.heap[dels[i]].id = id
  BY DEF Announces, Spells
<1>6. L \in Nat
  BY <1>1, DocFields
<1>7. /\ m \in Nat /\ (\A i \in 1 .. m : items[i] \in Refs(d)) /\ \A i \in 1 .. Len(dels) : dels[i] \in Refs(d)
  <2> DEFINE R == Refs(d)
  <2>1. items \in Seq(R) /\ dels \in Seq(R)
    BY <1>2
  <2> HIDE DEF R, items, dels
  <2>2. QED
    BY <2>1, SeqElements DEF R
<1>8. \A k \in Refs(d) : Authored(D, d.heap[k])
  BY <1>1 DEF Agrees
<1> HIDE DEF d, items, dels, m, L, n, sent
<1>9. ASSUME NEW j \in 1 .. Len(u.items)
      PROVE  /\ Authored(D, u.items[j])
             /\ \/ u.items[j].id.clock = 0
                \/ \E i \in 1 .. j - 1 : u.items[i].id = Before(u.items[j].id)
                \/ \E h \in 1 .. n : Before(u.items[j].id) \in ItemIds(sent[h].update)
  <2> DEFINE it == u.items[j]
  <2>1. PICK i \in 1 .. m : /\ Says(it, d.heap[items[i]])
                            /\ i = 1 \/ \E h \in 1 .. j - 1 : u.items[h].id = Before(it.id)
    BY <1>5
  <2>2. Authored(D, d.heap[items[i]]) /\ it.id = d.heap[items[i]].id
    BY <1>7, <1>8, <2>1 DEF Says
  <2> HIDE DEF it
  <2>3. Authored(D, it)
    BY <2>1, <2>2, AuthoredSays
  <2>4. CASE i # 1
    BY <2>1, <2>3, <2>4 DEF it
  <2>5. CASE i = 1 /\ L - m = 0
    <3>1. it.id.clock = 0
      BY <1>3, <1>7, <2>2, <2>5
    <3>2. QED
      BY <2>3, <3>1 DEF it
  <2>6. CASE i = 1 /\ L - m # 0
    <3> DEFINE id == [client |-> r, clock |-> L - m - 1]
               k == RefOf(d, id)
    <3>1. L - m \in Nat /\ it.id = [client |-> r, clock |-> L - m] /\ m > 0
      BY <1>3, <1>7, <2>2, <2>6
    <3>2. L - m - 1 \in Nat /\ L - m - 1 < L
      BY <1>6, <1>7, <2>6, <3>1
    <3>3. id.client = r /\ id.clock = L - m - 1 /\ id \in IdType
      BY <3>2 DEF IdType
    <3>9. Before(it.id) = id
      BY <3>1 DEF Before
    <3> HIDE DEF id
    <3>10. Held(d, id)
      BY <3>2, <3>3 DEF Held, L
    <3>4. k \in Refs(d) /\ d.heap[k].id = id
      BY <1>1, <3>3, <3>10, getItemFinds
    <3> HIDE DEF k
    <3>5. ~\E x \in 1 .. m : items[x] = k
      <4>1. SUFFICES ASSUME NEW x \in 1 .. m, items[x] = k PROVE FALSE
        OBVIOUS
      <4>2. d.heap[items[x]].id = [client |-> r, clock |-> L - m + (x - 1)]
        BY <1>2
      <4>3. id.clock = L - m + (x - 1)
        BY <3>4, <4>1, <4>2
      <4>4. QED
        BY <1>6, <1>7, <3>3, <4>3
    <3>6. PICK h \in 1 .. n : d.heap[k].id \in ItemIds(A[r][h].update)
      BY <1>2, <3>3, <3>4, <3>5
    <3>7. Before(it.id) \in ItemIds(sent[h].update)
      BY <1>4, <3>4, <3>6, <3>9
    <3>8. QED
      BY <2>3, <3>7 DEF it
  <2>7. QED
    BY <2>4, <2>5, <2>6
<1>10. ASSUME NEW id \in DelIds(u) PROVE Held(D[id.client], id)
  <2>1. id \in IdType
    BY <1>5, DelIdsAreIds
  <2>2. PICK i \in 1 .. Len(dels) : d.heap[dels[i]].id = id
    BY <1>5, <2>1
  <2>3. Authored(D, d.heap[dels[i]])
    BY <1>7, <1>8
  <2>4. QED
    BY <2>2, <2>3 DEF Authored
<1>11. Sent(D, sent, n + 1)
  <2>1. (n + 1) - 1 = n
    BY <1>4
  <2> DEFINE n1 == n + 1
             w == sent[n1].update
  <2>2. n1 - 1 = n /\ w = u
    BY <1>4, <2>1
  <2>3. \A j \in 1 .. Len(w.items) :
              /\ Wire(w.items[j])
              /\ Authored(D, w.items[j])
              /\ \/ w.items[j].id.clock = 0
                 \/ \E i \in 1 .. j - 1 : w.items[i].id = Before(w.items[j].id)
                 \/ \E h \in 1 .. n1 - 1 : Before(w.items[j].id) \in ItemIds(sent[h].update)
    BY <1>5, <1>9, <2>2
  <2>4. QED
    BY <1>5, <1>10, <2>2, <2>3 DEF Sent
<1>12. QED
  BY <1>11 DEF sent, n

\* What the peer that ends its transaction has is what it had.
LEMMA AnnouncingReceived ==
  ASSUME NEW D, NEW T, NEW A, NEW G, NEW y, Consistent(D, T, A, G, y),
         NEW r \in Client, NEW U, Ending(T, U, r),
         NEW u, Announces(D[r], u, T[r].items, T[r].dels),
         NEW B, NEW H, Announcing(A, B, G, H, r, u)
  PROVE  /\ Opened(D, U, B, r)
         /\ Received(D, B, H, r)
         /\ Remembers(D, B, H, r)
         /\ Erased(D, U, B, H, r)
         /\ y = 0 => Complete(D, U, B, H, r)
<1> DEFINE d == D[r]
           items == T[r].items
           dels == T[r].dels
           m == Len(items)
           n == Len(A[r])
<1>1. /\ Sound(d) /\ Whole(d) /\ d \in Docs /\ Settled(D, T, A, G, y, r)
      /\ \A k \in Refs(d) : d.heap[k].id \in IdType
  BY SettledSound DEF Consistent
<1>2. /\ items \in Seq(Refs(d)) /\ dels \in Seq(Refs(d))
      /\ \A k \in Refs(d) : d.heap[k].id.client = r =>
          \/ \E i \in 1 .. m : items[i] = k
          \/ \E h \in 1 .. n : d.heap[k].id \in ItemIds(A[r][h].update)
  BY <1>1 DEF Settled, Opened
<1>3. /\ n \in Nat /\ B[r][n + 1].update = u /\ Len(B[r]) = n + 1
      /\ \A k \in 1 .. n : B[r][k] = A[r][k]
      /\ \A s \in Client \ {r} : B[s] = A[s] /\ H[s] = G[s] /\ H[r][s] = G[r][s]
      /\ H[r][r] = G[r][r] \cup {n + 1}
  BY DEF Announcing
<1>4. /\ \A id \in ItemIds(u) : \E i \in 1 .. m : id = d.heap[items[i]].id
      /\ \A i \in 1 .. m : d.heap[items[i]].id \in ItemIds(u)
      /\ \A id \in IdType : id \in DelIds(u) <=> \E i \in 1 .. Len(dels) : d.heap[dels[i]].id = id
      /\ DelIds(u) \subseteq IdType
  <2>1. /\ \A j \in 1 .. Len(u.items) : \E i \in 1 .. m : Says(u.items[j], d.heap[items[i]])
        /\ \A i \in 1 .. m : d.heap[items[i]].id \in ItemIds(u)
        /\ \A id \in IdType : id \in DelIds(u) <=> \E i \in 1 .. Len(dels) : d.heap[dels[i]].id = id
        /\ u.dels \in Seq(Ranges)
    BY DEF Announces, Spells
  <2>2. DelIds(u) \subseteq IdType
    BY <2>1, DelIdsAreIds
  <2>3. ASSUME NEW id \in ItemIds(u) PROVE \E i \in 1 .. m : id = d.heap[items[i]].id
    <3>1. PICK j \in 1 .. Len(u.items) : u.items[j].id = id
      BY DEF ItemIds
    <3>2. PICK i \in 1 .. m : Says(u.items[j], d.heap[items[i]])
      BY <2>1
    <3>3. QED
      BY <3>1, <3>2 DEF Says
  <2>4. QED
    BY <2>1, <2>2, <2>3
<1>5. /\ \A i \in 1 .. m : items[i] \in Refs(d)
      /\ \A i \in 1 .. Len(dels) : dels[i] \in Refs(d)
  <2> DEFINE R == Refs(d)
  <2>1. items \in Seq(R) /\ dels \in Seq(R)
    BY <1>2
  <2> HIDE DEF R, items, dels
  <2>2. QED
    BY <2>1, SeqElements DEF R
<1>6. U[r].items = <<>> /\ U[r].dels = <<>>
  BY DEF Ending
<1>7. Received(D, A, G, r) /\ Remembers(D, A, G, r) /\ Erased(D, T, A, G, r) /\ (y = 0 => Complete(D, T, A, G, r))
  BY <1>1 DEF Settled
<1>8. /\ \A s \in Client : G[r][s] \subseteq 1 .. Len(A[s]) /\ G[r][s] \subseteq 1 .. Len(B[s])
      /\ \A s \in Client : \A k \in G[r][s] : B[s][k] = A[s][k]
      /\ G[r][r] = 1 .. n
      /\ \A s \in Client : G[r][s] \subseteq H[r][s]
  <2>1. \A s \in Client : G[r][s] \subseteq 1 .. Len(A[s])
    BY <1>7 DEF Received
  <2>2. G[r][r] = 1 .. n
    BY <1>7 DEF Received
  <2>3. QED
    BY <1>3, <2>1, <2>2, AnnouncingKeeps
<1>9. /\ \A s \in Client : \A k \in H[r][s] : k \in G[r][s] \/ (s = r /\ k = n + 1)
      /\ n + 1 \in H[r][r] /\ H[r][r] = 1 .. Len(B[r])
  BY <1>3, <1>8
<1> HIDE DEF m, n, items, dels
<1>10. Opened(D, U, B, r)
  <2>1. ASSUME NEW k \in Refs(d), d.heap[k].id.client = r
        PROVE  \E h \in 1 .. Len(B[r]) : d.heap[k].id \in ItemIds(B[r][h].update)
    <3>1. CASE \E i \in 1 .. m : items[i] = k
      <4>1. n + 1 \in 1 .. Len(B[r])
        BY <1>3
      <4>2. d.heap[k].id \in ItemIds(B[r][n + 1].update)
        BY <1>3, <1>4, <3>1
      <4>3. QED
        BY <4>1, <4>2
    <3>2. CASE \E h \in 1 .. n : d.heap[k].id \in ItemIds(A[r][h].update)
      <4>1. PICK h \in 1 .. n : d.heap[k].id \in ItemIds(A[r][h].update)
        BY <3>2
      <4>2. h \in 1 .. Len(B[r]) /\ B[r][h] = A[r][h]
        BY <1>3
      <4>3. QED
        BY <4>1, <4>2
    <3>3. QED
      BY <1>2, <2>1, <3>1, <3>2
  <2> DEFINE x == U[r].items
             z == U[r].dels
  <2>2. /\ x \in Seq(Refs(d)) /\ z \in Seq(Refs(d))
        /\ \A i \in 1 .. Len(x) : d.heap[x[i]].id = [client |-> r, clock |-> Len(d.store[r]) - Len(x) + (i - 1)]
    BY <1>6
  <2>3. QED
    BY <2>1, <2>2 DEF Opened
<1>11. Received(D, B, H, r)
  <2>1. ASSUME NEW s \in Client, NEW k \in H[r][s], NEW id \in ItemIds(B[s][k].update) PROVE Held(d, id)
    <3>1. CASE k \in G[r][s]
      BY <1>7, <1>8, <2>1, <3>1 DEF Received
    <3>2. CASE s = r /\ k = n + 1
      <4>1. PICK i \in 1 .. m : id = d.heap[items[i]].id
        BY <1>3, <1>4, <2>1, <3>2
      <4>2. QED
        BY <1>1, <1>5, <4>1 DEF Whole, Held
    <3>3. QED
      BY <1>9, <3>1, <3>2
  <2>2. \A s \in Client : H[r][s] \subseteq 1 .. Len(B[s])
    BY <1>3, <1>8, <1>9
  <2>3. QED
    BY <1>9, <2>1, <2>2 DEF Received
<1>12. Foreign(B, H, r) = Foreign(A, G, r)
  BY <1>3, <1>8 DEF Foreign
<1>13. Remembers(D, B, H, r)
  BY <1>7, <1>12 DEF Remembers
<1>14. Erased(D, U, B, H, r)
  <2>1. ASSUME NEW k \in H[r][r], NEW id \in DelIds(B[r][k].update)
        PROVE  Held(d, id) /\ d.heap[RefOf(d, id)].deleted
    <3>1. CASE k \in G[r][r]
      BY <1>7, <1>8, <2>1, <3>1 DEF Erased
    <3>2. CASE k = n + 1
      <4>1. PICK i \in 1 .. Len(dels) : d.heap[dels[i]].id = id
        BY <1>3, <1>4, <2>1, <3>2
      <4>2. Held(d, id) /\ RefOf(d, id) = dels[i]
        BY <1>1, <1>5, <4>1 DEF Whole, Held, RefOf
      <4>3. QED
        BY <1>7, <4>2 DEF Erased, dels
    <3>3. QED
      BY <1>9, <3>1, <3>2
  <2>2. ASSUME NEW k \in Refs(d), d.heap[k].deleted, d.heap[k].list \notin Key
        PROVE  \E s \in Client : \E h \in H[r][s] : d.heap[k].id \in DelIds(B[s][h].update)
    <3>1. CASE \E i \in 1 .. Len(dels) : dels[i] = k
      <4>1. d.heap[k].id \in DelIds(u)
        BY <1>1, <1>4, <3>1
      <4>2. QED
        BY <1>3, <1>9, <4>1
    <3>2. CASE \E s \in Client : \E h \in G[r][s] : d.heap[k].id \in DelIds(A[s][h].update)
      <4>0. PICK s \in Client : \E h \in G[r][s] : d.heap[k].id \in DelIds(A[s][h].update)
        BY <3>2
      <4>1. PICK h \in G[r][s] : d.heap[k].id \in DelIds(A[s][h].update)
        BY <4>0
      <4>2. h \in H[r][s] /\ B[s][h] = A[s][h]
        BY <1>8
      <4>3. QED
        BY <4>1, <4>2
    <3>3. QED
      BY <1>7, <2>2, <3>1, <3>2 DEF Erased, dels
  <2>3. QED
    BY <1>6, <2>1, <2>2 DEF Erased
<1>15. ASSUME y = 0 PROVE Complete(D, U, B, H, r)
  <2>1. ASSUME NEW k \in Refs(d)
        PROVE  \E s \in Client : \E h \in H[r][s] : d.heap[k].id \in ItemIds(B[s][h].update)
    <3>1. CASE \E i \in 1 .. m : items[i] = k
      BY <1>3, <1>4, <1>9, <3>1
    <3>2. CASE \E s \in Client : \E h \in G[r][s] : d.heap[k].id \in ItemIds(A[s][h].update)
      <4>0. PICK s \in Client : \E h \in G[r][s] : d.heap[k].id \in ItemIds(A[s][h].update)
        BY <3>2
      <4>1. PICK h \in G[r][s] : d.heap[k].id \in ItemIds(A[s][h].update)
        BY <4>0
      <4>2. h \in H[r][s] /\ B[s][h] = A[s][h]
        BY <1>8
      <4>3. QED
        BY <4>1, <4>2
    <3>3. QED
      BY <1>7, <1>15, <3>1, <3>2 DEF Complete, m, items
  <2>2. QED
    BY <2>1 DEF Complete
<1>16. QED
  BY <1>10, <1>11, <1>13, <1>14, <1>15

\* A transaction that is announced keeps the peers consistent.
LEMMA AnnouncingConsistent ==
  ASSUME NEW D, NEW T, NEW A, NEW G, NEW y, Consistent(D, T, A, G, y),
         NEW r \in Client, NEW U, Ending(T, U, r),
         NEW u, Announces(D[r], u, T[r].items, T[r].dels),
         NEW B, NEW H, Announcing(A, B, G, H, r, u)
  PROVE  Consistent(D, U, B, H, y)
<1>1. Settled(D, T, A, G, y, r)
  BY DEF Consistent
<1>2. ASSUME NEW q \in Client, q # r PROVE Settled(D, U, B, H, y, q)
  BY <1>2, AnnouncingOthers
<1>3. ASSUME NEW k \in 1 .. Len(B[r]) PROVE Sent(D, B[r], k)
  <2> DEFINE n == Len(A[r])
             sent == A[r]
             more == B[r]
  <2>1. n \in Nat /\ Len(more) = n + 1 /\ \A h \in 1 .. n : more[h] = sent[h]
    BY DEF Announcing
  <2>2. CASE k \in 1 .. n
    <3>1. Sent(D, sent, k)
      BY <1>1, <2>2 DEF Settled
    <3> HIDE DEF n, sent, more
    <3>2. Sent(D, more, k)
      BY <2>1, <2>2, <3>1, SentPrefix
    <3>3. QED
      BY <3>2 DEF more
  <2>3. CASE k \notin 1 .. n
    <3>1. k = n + 1
      <4> HIDE DEF n
      <4>1. QED
        BY <2>1, <2>3
    <3>2. Sent(D, B[r], Len(A[r]) + 1)
      BY AnnouncingSent
    <3>3. QED
      BY <3>1, <3>2
  <2>4. QED
    BY <2>2, <2>3
<1>4. /\ Opened(D, U, B, r)
      /\ Received(D, B, H, r)
      /\ Remembers(D, B, H, r)
      /\ Erased(D, U, B, H, r)
      /\ y = 0 => Complete(D, U, B, H, r)
  BY AnnouncingReceived
<1>5. Settled(D, U, B, H, y, r)
  BY <1>1, <1>3, <1>4 DEF Settled
<1>6. QED
  BY <1>2, <1>5 DEF Consistent

-----------------------------------------------------------------------------
(***************************************************************************)
(* The invariant, and what the steps do to it.                             *)
(***************************************************************************)
TxType == [open : BOOLEAN, items : Seq(Nat), dels : Seq(Nat), ops : 0 .. MaxOps]

\* The types of the variables that Consistent says nothing of.
Shape ==
    /\ doc = [r \in Client |-> doc[r]]
    /\ tx \in [Client -> TxType]
    /\ announced = [r \in Client |-> announced[r]]
    /\ \A r \in Client : \E S : announced[r] \in Seq(S)
    /\ got \in [Client -> [Client -> SUBSET Nat]]
    /\ causal \in BOOLEAN /\ typed \in Nat /\ syncs \in Nat

Inv == Shape /\ Consistent(doc, tx, announced, got, syncs)

\* An empty document is sound.
LEMMA EmptySound == Sound(EmptyDoc) /\ Len(EmptyDoc.heap) = 0 /\ Refs(EmptyDoc) = {} /\ EmptyDoc.ds = <<>>
                    /\ \A c \in Client : EmptyDoc.store[c] = <<>>
<1>1. EmptyDoc \in Docs
  BY DEF EmptyDoc, Docs, Nil
<1>2. Len(EmptyDoc.heap) = 0 /\ Refs(EmptyDoc) = {} /\ ~EmptyDoc.panic /\ EmptyDoc.ds = <<>>
  BY DEF EmptyDoc, Refs
<1>3. /\ \A c \in Client : EmptyDoc.store[c] = <<>>
      /\ \A l \in List : EmptyDoc.start[l] = Nil
  BY DEF EmptyDoc
<1>4. Whole(EmptyDoc)
  BY <1>1, <1>2, <1>3 DEF Whole
<1>5. Listed(EmptyDoc)
  BY <1>2, <1>3 DEF Listed
<1>6. \E rank \in [0 .. Len(EmptyDoc.heap) -> Nat] : Ranked(EmptyDoc, rank)
  <2> DEFINE rank == [k \in 0 .. 0 |-> 0]
  <2>1. rank \in [0 .. 0 -> Nat] /\ rank[Nil] = 0
    BY DEF Nil
  <2> HIDE DEF rank
  <2>2. Ranked(EmptyDoc, rank)
    BY <1>2, <2>1 DEF Ranked
  <2>3. QED
    BY <1>2, <2>1, <2>2
<1>7. QED
  BY <1>2, <1>3, <1>4, <1>5, <1>6 DEF Sound

\* The peers are consistent at first.
LEMMA InitInv == Init => Inv
<1> SUFFICES ASSUME Init PROVE Inv
  OBVIOUS
<1>1. Shape
  <2>1. tx \in [Client -> TxType]
    BY BoundAssumption DEF Init, NoTx, TxType
  <2>2. \A r \in Client : announced[r] \in Seq({})
    BY DEF Init
  <2>3. QED
    BY <2>1, <2>2 DEF Init, Shape
<1>2. ASSUME NEW r \in Client PROVE Settled(doc, tx, announced, got, syncs, r)
  <2>1. /\ doc[r] = EmptyDoc /\ tx[r].items = <<>> /\ tx[r].dels = <<>>
        /\ \A s \in Client : announced[s] = <<>> /\ got[r][s] = {}
    BY DEF Init, NoTx
  <2>2. Agrees(doc, r)
    BY <2>1, EmptySound DEF Agrees
  <2>3. Len(announced[r]) = 0
    BY <2>1
  <2>4. Opened(doc, tx, announced, r)
    BY <2>1, EmptySound DEF Opened
  <2>5. Received(doc, announced, got, r)
    BY <2>1, <2>3 DEF Received
  <2>6. Foreign(announced, got, r) = {}
    BY <2>1 DEF Foreign
  <2>7. Remembers(doc, announced, got, r)
    BY <2>1, <2>6, EmptySound DEF Remembers, isDeleted
  <2>8. Erased(doc, tx, announced, got, r)
    BY <2>1, EmptySound DEF Erased
  <2>9. Complete(doc, tx, announced, got, r)
    BY <2>1, EmptySound DEF Complete
  <2>10. QED
    BY <2>2, <2>3, <2>4, <2>5, <2>7, <2>8, <2>9 DEF Settled
<1>3. QED
  BY <1>1, <1>2 DEF Inv, Consistent

\* The fields of a transaction.
LEMMA TxFields ==
  ASSUME Shape, NEW r \in Client
  PROVE  /\ tx[r] \in TxType /\ tx[r].open \in BOOLEAN /\ tx[r].items \in Seq(Nat)
         /\ tx[r].dels \in Seq(Nat) /\ tx[r].ops \in 0 .. MaxOps
<1>1. tx[r] \in TxType
  BY DEF Shape
<1>2. QED
  BY <1>1 DEF TxType

\* Edits that insert.
LEMMA InsertsKeep ==
  ASSUME Inv, NEW r \in Client, NEW n \in Nat, NEW d, Typed(doc[r], d, r, n), NEW refs,
         refs = LastRefs(doc[r], n), Inserts(r, d, refs, n)
  PROVE  Inv'
<1>1. Sound(doc[r]) /\ Len(doc[r].heap) \in Nat
  BY SettledSound DEF Inv
<1>2. refs \in Seq(Nat)
  <2> DEFINE a == Len(doc[r].heap)
  <2>1. refs = [i \in 1 .. n |-> a + i] /\ a \in Nat
    BY <1>1 DEF LastRefs
  <2> HIDE DEF a
  <2>2. refs \in [1 .. n -> Nat]
    BY <2>1
  <2>3. QED
    BY <2>2
<1>3. Replaces(doc, doc', r, d)
  BY DEF Inserts, Inv, Shape, Replaces
<1>4. tx[r].ops \in 0 .. MaxOps /\ tx[r].ops + 1 \in 0 .. MaxOps
  BY BoundAssumption, TxFields DEF Inserts, Editing, Inv
<1>5. Inserting(tx, tx', r, refs)
  BY DEF Inserts, Inv, Shape, Inserting
<1>6. Consistent(doc', tx', announced, got, syncs)
  BY <1>3, <1>5, TypingKeeps DEF Inv
<1>7. UNCHANGED <<announced, got, causal, syncs>>
  BY DEF Inserts
<1>8. tx' \in [Client -> TxType]
  <2> DEFINE items == tx[r].items \o refs
  <2>1. items \in Seq(Nat)
    BY <1>2, TxFields DEF Inv
  <2> DEFINE old == tx[r]
             new == [old EXCEPT !.open = TRUE, !.ops = old.ops + 1, !.items = items]
  <2>2. tx' = [tx EXCEPT ![r] = new]
    BY DEF Inserts, Inv, Shape
  <2>3. tx \in [Client -> TxType] /\ old \in TxType
    BY DEF Inv, Shape
  <2>4. new \in TxType
    <3> HIDE DEF items
    <3>1. old.ops + 1 \in 0 .. MaxOps
      BY <1>4
    <3> HIDE DEF old
    <3>2. QED
      BY <2>1, <2>3, <3>1 DEF TxType
  <2> HIDE DEF new
  <2>5. QED
    BY <2>2, <2>3, <2>4
<1>9. Shape'
  <2>1. doc' = [q \in Client |-> doc'[q]]
    BY DEF Inserts, Inv, Shape
  <2>2. typed' \in Nat
    BY DEF Inserts, Inv, Shape
  <2>3. QED
    BY <1>7, <1>8, <2>1, <2>2 DEF Inv, Shape
<1>10. QED
  BY <1>6, <1>7, <1>9 DEF Inv

\* Edits that delete.
LEMMA DeletesKeep ==
  ASSUME Inv, NEW r \in Client, NEW result, Cuts(doc[r], result), Deletes(r, result)
  PROVE  Inv'
<1>1. result.dels \in Seq(Nat)
  <2> DEFINE R == Refs(doc[r])
  <2>1. result.dels \in Seq(R) /\ R \subseteq Nat
    BY DEF Cuts, Refs
  <2> DEFINE dels == result.dels
  <2> HIDE DEF R, dels
  <2>2. Len(dels) \in Nat /\ \A i \in 1 .. Len(dels) : dels[i] \in Nat
    BY <2>1, SeqElements DEF dels
  <2>3. dels = [i \in 1 .. Len(dels) |-> dels[i]]
    BY <2>1 DEF dels
  <2>4. dels \in Seq(Nat)
    <3> DEFINE n == Len(dels)
    <3> HIDE DEF n
    <3>1. dels \in [1 .. n -> Nat] /\ n \in Nat
      BY <2>2, <2>3 DEF n
    <3>2. QED
      BY <3>1
  <2>5. QED
    BY <2>4 DEF dels
<1>2. Replaces(doc, doc', r, result.doc)
  BY DEF Deletes, Inv, Shape, Replaces
<1>3. tx[r].ops \in 0 .. MaxOps /\ tx[r].ops + 1 \in 0 .. MaxOps
  BY BoundAssumption, TxFields DEF Deletes, Editing, Inv
<1>4. Deleting(tx, tx', r, result.dels)
  <2>1. tx[r] \in TxType
    BY TxFields DEF Inv
  <2>2. \A q \in Client \ {r} : tx'[q] = tx[q]
    BY DEF Deletes, Inv, Shape
  <2> DEFINE old == tx[r]
             dels == old.dels \o result.dels
             new == [old EXCEPT !.open = TRUE, !.ops = old.ops + 1, !.dels = dels]
  <2>3. tx'[r] = new
    BY DEF Deletes, Inv, Shape
  <2>4. new.items = old.items /\ new.dels = dels
    <3> HIDE DEF dels, old
    <3>1. old \in TxType
      BY <2>1 DEF old
    <3>2. QED
      BY <3>1 DEF TxType
  <2>5. QED
    BY <2>2, <2>3, <2>4 DEF Deleting
<1>5. Consistent(doc', tx', announced, got, syncs)
  BY <1>2, <1>4, CuttingKeeps DEF Inv
<1>6. UNCHANGED <<announced, got, causal, syncs, typed>>
  BY DEF Deletes
<1>7. tx' \in [Client -> TxType]
  <2> DEFINE dels == tx[r].dels \o result.dels
  <2>1. dels \in Seq(Nat)
    BY <1>1, TxFields DEF Inv
  <2> DEFINE old == tx[r]
             new == [old EXCEPT !.open = TRUE, !.ops = old.ops + 1, !.dels = dels]
  <2>2. tx' = [tx EXCEPT ![r] = new]
    BY DEF Deletes, Inv, Shape
  <2>3. tx \in [Client -> TxType] /\ old \in TxType
    BY DEF Inv, Shape
  <2>4. new \in TxType
    <3> HIDE DEF dels
    <3>1. old.ops + 1 \in 0 .. MaxOps
      BY <1>3
    <3> HIDE DEF old
    <3>2. QED
      BY <2>1, <2>3, <3>1 DEF TxType
  <2> HIDE DEF new
  <2>5. QED
    BY <2>2, <2>3, <2>4
<1>8. Shape'
  <2>1. doc' = [q \in Client |-> doc'[q]]
    BY DEF Deletes, Inv, Shape
  <2>2. QED
    BY <1>6, <1>7, <2>1 DEF Inv, Shape
<1>9. QED
  BY <1>5, <1>6, <1>8 DEF Inv

\* A transaction with changes ends: u is its update, announced with what r had seen.
Commits(r, u) ==
    /\ Announcing(announced, announced', got, got', r, u)
    /\ Announces(doc[r], u, tx[r].items, tx[r].dels)
    /\ announced'[r][Len(announced[r]) + 1].seen = got[r]
    /\ announced' = [q \in Client |-> announced'[q]]
    /\ \A q \in Client : \E S : announced'[q] \in Seq(S)
    /\ got' \in [Client -> [Client -> SUBSET Nat]]

\* What is announced of a transaction.
LEMMA CommitAnnounces ==
  ASSUME WideChar = {}, Inv, NEW r \in Client, Commit(r), ~(tx[r].items = <<>> /\ tx[r].dels = <<>>)
  PROVE  \E u : Commits(r, u)
<1> DEFINE n == Len(announced[r])
           u == encodeUpdateV1(doc[r], tx[r].items, tx[r].dels)
           x == [update |-> u, shown |-> shown(doc[r]), seen |-> got[r]]
           old == announced[r]
           new == Append(old, x)
<1>1. /\ announced' = [announced EXCEPT ![r] = new]
      /\ got' = [got EXCEPT ![r][r] = @ \cup {n + 1}]
  BY DEF Commit
<1>2. /\ n \in Nat /\ Len(new) = n + 1 /\ new[n + 1] = x
      /\ (\A k \in 1 .. n : new[k] = old[k]) /\ \E S : new \in Seq(S)
  <2>1. PICK S : old \in Seq(S)
    BY DEF Inv, Shape
  <2> HIDE DEF x, old
  <2> DEFINE S1 == S \cup {x}
  <2>2. old \in Seq(S1)
    BY <2>1
  <2>3. x \in S1
    OBVIOUS
  <2> HIDE DEF S1
  <2>4. /\ new \in Seq(S1) /\ Len(new) = Len(old) + 1 /\ new[Len(old) + 1] = x
        /\ \A k \in 1 .. Len(old) : new[k] = old[k]
    BY <2>2, <2>3, AppendProperties
  <2>5. Len(old) \in Nat
    BY <2>2
  <2>6. QED
    BY <2>4, <2>5 DEF old
<1> HIDE DEF new
<1>3. announced'[r] = new /\ \A q \in Client \ {r} : announced'[q] = announced[q]
  BY <1>1 DEF Inv, Shape
<1>4. /\ \A q \in Client \ {r} : got'[q] = got[q] /\ got'[r][q] = got[r][q]
      /\ got'[r][r] = got[r][r] \cup {n + 1}
      /\ got' \in [Client -> [Client -> SUBSET Nat]]
  BY <1>1, <1>2 DEF Inv, Shape
<1>5. x.update = u
  OBVIOUS
<1> HIDE DEF u
<1>6. Announcing(announced, announced', got, got', r, u)
  BY <1>2, <1>3, <1>4, <1>5 DEF Announcing
<1>7. Announces(doc[r], u, tx[r].items, tx[r].dels)
  <2> DEFINE d == doc[r]
             items == tx[r].items
             dels == tx[r].dels
  <2>1. Sound(d) /\ Whole(d) /\ Opened(doc, tx, announced, r)
    BY SettledSound DEF Inv, Consistent, Settled
  <2>2. Run(d, items, r) /\ dels \in Seq(Refs(d))
    BY <2>1, OpenedRuns DEF Opened
  <2> HIDE DEF d, items, dels
  <2>3. Announces(d, encodeUpdateV1(d, items, dels), items, dels)
    BY <2>1, <2>2, encodeUpdateV1Announces
  <2>4. QED
    BY <2>3 DEF u, d, items, dels
<1>8. announced' = [q \in Client |-> announced'[q]]
  BY <1>1 DEF Inv, Shape
<1>9. \A q \in Client : \E S : announced'[q] \in Seq(S)
  BY <1>2, <1>3 DEF Inv, Shape
<1>10. announced'[r][n + 1].seen = got[r]
  BY <1>2, <1>3
<1>11. Commits(r, u)
  BY <1>4, <1>6, <1>7, <1>8, <1>9, <1>10 DEF Commits
<1>12. QED
  BY <1>11

\* The end of a transaction.
LEMMA CommitKeeps ==
  ASSUME WideChar = {}, Inv, NEW r \in Client, Commit(r)
  PROVE  Inv'
<1>1. Ending(tx, tx', r)
  BY DEF Commit, EndOfTx, Inv, Shape, Ending, NoTx
<1>2. UNCHANGED <<doc, causal, typed, syncs>>
  BY DEF Commit
<1>3. tx' \in [Client -> TxType]
  <2>1. NoTx \in TxType
    BY BoundAssumption DEF NoTx, TxType
  <2>2. QED
    BY <2>1 DEF Commit, EndOfTx, Inv, Shape
<1>4. CASE tx[r].items = <<>> /\ tx[r].dels = <<>>
  <2>1. UNCHANGED <<announced, got>>
    BY <1>4 DEF Commit
  <2>2. Consistent(doc, tx', announced, got, syncs)
    BY <1>1, <1>4, EndingKeeps DEF Inv
  <2>3. QED
    BY <1>2, <1>3, <2>1, <2>2 DEF Inv, Shape
<1>5. CASE ~(tx[r].items = <<>> /\ tx[r].dels = <<>>)
  <2>1. PICK u : Commits(r, u)
    BY <1>5, CommitAnnounces
  <2>2. Consistent(doc, tx', announced', got', syncs)
    BY <1>1, <2>1, AnnouncingConsistent DEF Inv, Commits
  <2>3. Shape'
    BY <1>2, <1>3, <2>1 DEF Inv, Shape, Commits
  <2>4. QED
    BY <1>2, <2>2, <2>3 DEF Inv
<1>6. QED
  BY <1>4, <1>5

\* An update of a peer is readable for one that has those before it.
LEMMA SentReadable ==
  ASSUME NEW D, NEW T, NEW A, NEW G, NEW y, Consistent(D, T, A, G, y),
         NEW r \in Client, NEW s \in Client, NEW k \in 1 .. Len(A[s]), 1 .. k - 1 \subseteq G[r][s]
  PROVE  Readable(D[r], A[s][k].update.items)
<1> DEFINE u == A[s][k].update
           d == D[r]
<1>1. \A j \in 1 .. Len(u.items) :
              /\ Wire(u.items[j])
              /\ \/ u.items[j].id.clock = 0
                 \/ \E i \in 1 .. j - 1 : u.items[i].id = Before(u.items[j].id)
                 \/ \E h \in 1 .. k - 1 : Before(u.items[j].id) \in ItemIds(A[s][h].update)
  BY DEF Consistent, Settled, Sent
<1>2. \A h \in G[r][s] : \A id \in ItemIds(A[s][h].update) : Held(d, id)
  BY DEF Consistent, Settled, Received
<1> HIDE DEF u, d
<1>3. \A j \in 1 .. Len(u.items) : (\E h \in 1 .. k - 1 : Before(u.items[j].id) \in ItemIds(A[s][h].update))
                                      => Held(d, Before(u.items[j].id))
  BY <1>2
<1>4. Readable(d, u.items)
  BY <1>1, <1>3 DEF Readable
<1>5. QED
  BY <1>4 DEF d, u

\* An update that is handed over.
LEMMA DeliverKeeps ==
  ASSUME Inv, NEW r \in Client, NEW s \in Client, NEW k \in DOMAIN announced[s], Deliver(r, s, k)
  PROVE  Inv'
<1> DEFINE u == announced[s][k].update
           d == doc[r]
           e == ApplyUpdate(d, u)
<1>1. k \in 1 .. Len(announced[s]) /\ k \in Nat
  <2>1. PICK S : announced[s] \in Seq(S)
    BY DEF Inv, Shape
  <2>2. QED
    BY <2>1
<1>2. Sound(d) /\ Sent(doc, announced[s], k)
  BY <1>1, SettledSound DEF Inv, Consistent, Settled
<1>3. Meant(doc, u) /\ \A id \in DelIds(u) : id \in IdType
  BY <1>2, SentIds
<1>4. Readable(d, u.items)
  BY <1>1, SentReadable DEF Inv, Deliver, HandOver
<1>5. Updated(d, e, u)
  <2> HIDE DEF d, u
  <2>1. QED
    BY <1>2, <1>3, <1>4, ApplyUpdateSound DEF Meant
<1>6. /\ Replaces(doc, doc', r, e)
      /\ doc' = [q \in Client |-> doc'[q]]
  BY DEF Deliver, Inv, Shape, Replaces
<1>7. /\ \A q \in Client \ {r} : got'[q] = got[q]
      /\ \A q \in Client \ {s} : got'[r][q] = got[r][q]
      /\ got'[r][s] = got[r][s] \cup {k}
      /\ r # s
      /\ got' \in [Client -> [Client -> SUBSET Nat]]
  BY <1>1 DEF Deliver, HandOver, Inv, Shape
<1>8. \A q \in Client : got[r][q] \subseteq 1 .. Len(announced[q])
  BY DEF Inv, Consistent, Settled, Received
<1>9. Foreign(announced, got', r) = Foreign(announced, got, r) \cup DelIds(u)
  <2> HIDE DEF u
  <2>1. ASSUME NEW id \in Foreign(announced, got', r) PROVE id \in Foreign(announced, got, r) \cup DelIds(u)
    <3>1. PICK q \in Client \ {r} : \E h \in got'[r][q] : id \in DelIds(announced[q][h].update)
      BY <2>1 DEF Foreign
    <3>2. PICK h \in got'[r][q] : id \in DelIds(announced[q][h].update)
      BY <3>1
    <3>3. CASE h \in got[r][q]
      BY <2>1, <3>2, <3>3 DEF Foreign
    <3>4. CASE h \notin got[r][q]
      BY <1>7, <3>2, <3>4 DEF u
    <3>5. QED
      BY <3>3, <3>4
  <2>2. ASSUME NEW id \in Foreign(announced, got, r) PROVE id \in Foreign(announced, got', r)
    BY <1>7, <2>2 DEF Foreign
  <2>3. ASSUME NEW id \in DelIds(u) PROVE id \in Foreign(announced, got', r)
    BY <1>3, <1>7, <2>3 DEF Foreign, u
  <2>4. QED
    BY <2>1, <2>2, <2>3
<1>10. Getting(announced, got, got', r, u, syncs, syncs)
  <2>1. \A q \in Client : got[r][q] \subseteq got'[r][q] /\ got'[r][q] \subseteq 1 .. Len(announced[q])
    BY <1>1, <1>7, <1>8
  <2>2. \A q \in Client : \A h \in got'[r][q] : h \in got[r][q] \/ ItemIds(announced[q][h].update) \subseteq ItemIds(u)
    BY <1>7
  <2>3. \A id \in ItemIds(u) :
           \E q \in Client : \E h \in got'[r][q] : id \in ItemIds(announced[q][h].update)
    BY <1>7
  <2> HIDE DEF u
  <2>4. QED
    BY <1>7, <1>9, <2>1, <2>2, <2>3 DEF Getting
<1> HIDE DEF e, u
<1>11. Consistent(doc', tx, announced, got', syncs)
  BY <1>3, <1>5, <1>6, <1>10, JoiningKeeps DEF Inv
<1>12. UNCHANGED <<tx, announced, typed, syncs>> /\ causal' \in BOOLEAN
  BY DEF Deliver
<1>13. Shape'
  BY <1>6, <1>7, <1>12 DEF Inv, Shape
<1>14. QED
  BY <1>11, <1>12, <1>13 DEF Inv

\* What a peer answers to a state vector is sound to apply, and all it lacks.
LEMMA SyncUpdates ==
  ASSUME WideChar = {}, NEW D, NEW T, NEW A, NEW G, NEW y, Consistent(D, T, A, G, y),
         NEW r \in Client, NEW s \in Client, NEW u, u = EncodeStateAsUpdate(D[s], stateVector(D[r]))
  PROVE  /\ Meant(D, u) /\ u.dels = <<>>
         /\ Updated(D[r], ApplyUpdate(D[r], u), u)
         /\ \A k \in Refs(D[s]) : Held(ApplyUpdate(D[r], u), D[s].heap[k].id)
         /\ Readable(D[r], u.items)
         /\ \A j \in 1 .. Len(u.items) : \E k \in Refs(D[s]) : Spells(u.items[j], D[s].heap[k])
<1> DEFINE d == D[s]
           e == D[r]
           f == ApplyUpdate(e, u)
<1>1. Sound(e) /\ Whole(e) /\ Whole(d) /\ \A k \in Refs(d) : d.heap[k].id \in IdType
  BY SettledSound
<1>2. \A k \in Refs(d) : Authored(D, d.heap[k])
  BY DEF Consistent, Settled, Agrees
<1> HIDE DEF d, e
<1>3. /\ u.items \in Seq(ItemType) /\ u.dels = <<>>
      /\ Readable(e, u.items)
      /\ \A j \in 1 .. Len(u.items) : \E k \in Refs(d) : Spells(u.items[j], d.heap[k])
      /\ \A k \in Refs(d) : Held(e, d.heap[k].id) \/ \E j \in 1 .. Len(u.items) : u.items[j].id = d.heap[k].id
  <2>1. Client # {} /\ u = EncodeStateAsUpdate(d, stateVector(e))
    BY DEF d, e
  <2>2. u.items \in Seq(ItemType) /\ u.dels = <<>>
    BY <1>1, <2>1, EncodeStateAnswers
  <2>3. Readable(e, u.items)
    BY <1>1, <2>1, EncodeStateAnswers
  <2>4. \A j \in 1 .. Len(u.items) : \E k \in Refs(d) : Spells(u.items[j], d.heap[k])
    BY <1>1, <2>1, EncodeStateAnswers
  <2>5. \A k \in Refs(d) : Held(e, d.heap[k].id) \/ \E j \in 1 .. Len(u.items) : u.items[j].id = d.heap[k].id
    BY <1>1, <2>1, EncodeStateAnswers
  <2>6. QED
    BY <2>2, <2>3, <2>4, <2>5
<1>4. u.dels \in Seq(Ranges)
  BY <1>3
<1>5. Meant(D, u)
  <2>1. ASSUME NEW j \in 1 .. Len(u.items) PROVE Authored(D, u.items[j])
    <3>1. PICK k \in Refs(d) : Says(u.items[j], d.heap[k])
      BY <1>3 DEF Spells
    <3>2. QED
      BY <1>2, <3>1, AuthoredSays
  <2>2. QED
    BY <1>3, <1>4, <2>1 DEF Meant
<1>6. Updated(e, f, u)
  BY <1>1, <1>3, <1>4, ApplyUpdateSound
<1>7. ASSUME NEW k \in Refs(d) PROVE Held(f, d.heap[k].id)
  <2> HIDE DEF f
  <2> DEFINE id == d.heap[k].id
  <2>1. CASE Held(e, id)
    <3>1. Whole(f) /\ Extends(e, f)
      BY <1>6 DEF Updated, Sound
    <3>2. id \in IdType
      BY <1>1
    <3> HIDE DEF id
    <3>3. Held(f, id)
      BY <1>1, <2>1, <3>1, <3>2, ExtendsKeeps
    <3>4. QED
      BY <3>3 DEF id
  <2>2. CASE \E j \in 1 .. Len(u.items) : u.items[j].id = id
    BY <1>6, <2>2 DEF Updated
  <2>3. QED
    BY <1>3, <2>1, <2>2
<1>8. QED
  BY <1>3, <1>5, <1>6, <1>7 DEF d, e

\* An exchange of states.
LEMMA SyncKeeps ==
  ASSUME WideChar = {}, Inv, NEW r \in Client, NEW s \in Client, Sync(r, s)
  PROVE  Inv'
<1> DEFINE u == EncodeStateAsUpdate(doc[s], stateVector(doc[r]))
           e == ApplyUpdate(doc[r], u)
<1>1. Meant(doc, u) /\ u.dels = <<>> /\ Updated(doc[r], e, u)
  <2> HIDE DEF u
  <2>1. u = EncodeStateAsUpdate(doc[s], stateVector(doc[r]))
    BY DEF u
  <2>2. QED
    BY <2>1, SyncUpdates DEF Inv
<1>2. /\ Replaces(doc, doc', r, e)
      /\ doc' = [q \in Client |-> doc'[q]]
  BY DEF Sync, Inv, Shape, Replaces
<1>3. syncs \in Nat /\ syncs' = syncs + 1 /\ UNCHANGED <<tx, announced, got, causal, typed>>
  BY DEF Sync, Inv, Shape
<1> HIDE DEF u, e
<1>4. Getting(announced, got, got, r, u, syncs, syncs + 1)
  <2>1. DelIds(u) = {}
    BY <1>1 DEF DelIds
  <2>2. \A q \in Client : got[r][q] \subseteq 1 .. Len(announced[q])
    BY DEF Inv, Consistent, Settled, Received
  <2>3. syncs + 1 # 0
    BY <1>3
  <2>4. QED
    BY <2>1, <2>2, <2>3 DEF Getting
<1>5. Consistent(doc', tx, announced, got, syncs + 1)
  BY <1>1, <1>2, <1>4, JoiningKeeps DEF Inv
<1>6. Shape'
  BY <1>2, <1>3 DEF Inv, Shape
<1>7. QED
  BY <1>3, <1>5, <1>6 DEF Inv

-----------------------------------------------------------------------------
(***************************************************************************)
(* What the invariant says of the peers.                                   *)
(***************************************************************************)
\* Pointers stay in the heap, and every item is in the slice of its client.
LEMMA InvTypes == Inv => TypeOK
<1>1. ASSUME Inv, NEW r \in Client PROVE DocType(doc[r])
  <2> DEFINE d == doc[r]
  <2>1. Sound(d) /\ Whole(d) /\ d \in Docs
    BY <1>1, SettledSound DEF Inv
  <2> HIDE DEF d
  <2>2. /\ d.heap \in Seq(ItemType) /\ DOMAIN d.heap = Refs(d) /\ DOMAIN d.store = Client
        /\ d.ds \in Seq(Ranges) /\ d.start \in [List -> Nat] /\ d.panic \in BOOLEAN
        /\ \A c \in Client : /\ d.store[c] \in Seq(Nat) /\ DOMAIN d.store[c] = 1 .. Len(d.store[c])
    BY <2>1, DocFields
  <2>3. ASSUME NEW c \in Client
        PROVE  /\ d.store[c] \in Seq(DOMAIN d.heap)
               /\ \A k \in DOMAIN d.store[c] : d.heap[d.store[c][k]].id.client = c
    <3> DEFINE s == d.store[c]
               R == DOMAIN d.heap
    <3>1. s \in Seq(Nat) /\ DOMAIN s = 1 .. Len(s)
      BY <2>2
    <3>2. ASSUME NEW i \in 1 .. Len(s) PROVE s[i] \in R /\ d.heap[s[i]].id.client = c
      <4>1. s[i] \in R /\ d.heap[s[i]].id = [client |-> c, clock |-> i - 1]
        BY <2>1, <2>2 DEF Whole
      <4>2. QED
        BY <4>1
    <3>3. \A i \in 1 .. Len(s) : d.heap[s[i]].id.client = c
      BY <3>2
    <3> HIDE DEF s, R
    <3>4. s \in Seq(R)
      <4> DEFINE n == Len(s)
      <4>1. s \in [1 .. n -> R] /\ n \in Nat
        BY <3>1, <3>2
      <4> HIDE DEF n
      <4>2. QED
        BY <4>1
    <3>5. QED
      BY <3>1, <3>3, <3>4 DEF s, R
  <2>4. d.start \in [List -> {Nil} \cup DOMAIN d.heap]
    BY <2>1, <2>2 DEF Sound, Listed
  <2>5. \A k \in DOMAIN d.heap : d.heap[k].right \in {Nil} \cup DOMAIN d.heap
    BY <2>1, <2>2 DEF Sound, Listed
  <2>6. DocType(d)
    BY <2>2, <2>3, <2>4, <2>5 DEF DocType, Ranges
  <2>7. QED
    BY <2>6 DEF d
<1>2. ASSUME Inv, NEW r \in Client
      PROVE  /\ Range(tx[r].items) \subseteq DOMAIN doc[r].heap
             /\ Range(tx[r].dels) \subseteq DOMAIN doc[r].heap
             /\ tx[r].ops \in 0 .. MaxOps
  <2> DEFINE R == DOMAIN doc[r].heap
             items == tx[r].items
             dels == tx[r].dels
  <2>1. doc[r] \in Docs
    BY <1>2, SettledSound DEF Inv
  <2>2. R = Refs(doc[r])
    BY <2>1, DocFields
  <2>3. items \in Seq(R) /\ dels \in Seq(R)
    BY <1>2, <2>2 DEF Inv, Consistent, Settled, Opened
  <2> HIDE DEF R, items, dels
  <2>4. Range(items) \subseteq R /\ Range(dels) \subseteq R
    BY <2>3 DEF Range
  <2>5. tx[r].ops \in 0 .. MaxOps
    BY <1>2, TxFields DEF Inv
  <2>6. QED
    BY <2>4, <2>5 DEF R, items, dels
<1>3. ASSUME Inv, NEW r \in Client, NEW s \in Client PROVE got[r][s] \subseteq DOMAIN announced[s]
  <2>1. got[r][s] \subseteq 1 .. Len(announced[s])
    BY <1>3 DEF Inv, Consistent, Settled, Received
  <2>2. PICK S : announced[s] \in Seq(S)
    BY <1>3 DEF Inv, Shape
  <2>3. QED
    BY <2>1, <2>2
<1>4. SUFFICES ASSUME Inv PROVE TypeOK
  OBVIOUS
<1>5. DOMAIN doc = Client /\ causal \in BOOLEAN
  BY <1>4 DEF Inv, Shape
<1>6. QED
  BY <1>1, <1>2, <1>3, <1>4, <1>5 DEF TypeOK

\* An ID names one character in all documents: two items with a common character are
\* one item or, at two peers, say the same.
LEMMA InvIds == Inv => IdNamesOneChar
<1>1. ASSUME Inv, NEW r \in Client, NEW j \in DOMAIN doc[r].heap
      PROVE  /\ j \in Refs(doc[r]) /\ doc[r].heap[j].id \in IdType /\ doc[r].heap[j].len = 1
             /\ Authored(doc, doc[r].heap[j])
             /\ RefOf(doc[r], doc[r].heap[j].id) = j
  <2>1. Whole(doc[r]) /\ doc[r] \in Docs /\ \A k \in Refs(doc[r]) : doc[r].heap[k].id \in IdType
    BY <1>1, SettledSound DEF Inv
  <2>2. j \in Refs(doc[r])
    BY <1>1, <2>1, DocFields
  <2>3. Authored(doc, doc[r].heap[j])
    BY <1>1, <2>2 DEF Inv, Consistent, Settled, Agrees
  <2>4. QED
    BY <2>1, <2>2, <2>3 DEF Whole, RefOf
<1>2. ASSUME Inv, NEW r \in Client, NEW s \in Client, NEW j \in DOMAIN doc[r].heap, NEW k \in DOMAIN doc[s].heap,
             Overlap(doc[r].heap[j], doc[s].heap[k])
      PROVE  /\ r = s => j = k
             /\ doc[r].heap[j].str = doc[s].heap[k].str /\ doc[r].heap[j].oleft = doc[s].heap[k].oleft
  <2> DEFINE a == doc[r].heap[j]
             b == doc[s].heap[k]
  <2>1. a.id \in IdType /\ b.id \in IdType /\ a.len = 1 /\ b.len = 1
    BY <1>1, <1>2
  <2>2. a.id.client = b.id.client /\ a.id.clock < b.id.clock + 1 /\ b.id.clock < a.id.clock + 1
    BY <1>2, <2>1 DEF Overlap
  <2>3. Authored(doc, a) /\ Authored(doc, b) /\ RefOf(doc[r], a.id) = j /\ RefOf(doc[s], b.id) = k
    BY <1>1, <1>2
  <2> HIDE DEF a, b
  <2>4. a.id = b.id
    <3>1. a.id.clock \in Nat /\ b.id.clock \in Nat
      BY <2>1 DEF IdType
    <3>2. a.id.clock = b.id.clock
      BY <2>2, <3>1
    <3>3. QED
      BY <2>1, <2>2, <3>2 DEF IdType
  <2>5. a.str = b.str /\ a.oleft = b.oleft
    BY <2>3, <2>4 DEF Authored, Says
  <2>6. r = s => j = k
    BY <2>3, <2>4
  <2>7. QED
    BY <2>5, <2>6 DEF a, b
<1>3. QED
  BY <1>2 DEF IdNamesOneChar

\* An item of one character is the character of its ID.
LEMMA CharsOne ==
  ASSUME NEW it, it.id \in IdType, it.len = 1
  PROVE  Chars(it) = {it.id}
<1> DEFINE id == it.id
<1>1. [id EXCEPT !.clock = id.clock + 0] = id
  <2> HIDE DEF id
  <2>1. id \in IdType
    BY DEF id
  <2>2. QED
    BY <2>1 DEF IdType
<1>2. 0 .. it.len - 1 = {0}
  OBVIOUS
<1>3. Chars(it) = { [id EXCEPT !.clock = @ + k] : k \in {0} }
  BY <1>2 DEF Chars
<1> HIDE DEF id
<1>4. Chars(it) = {[id EXCEPT !.clock = id.clock + 0]}
  BY <1>3
<1>5. QED
  BY <1>1, <1>4 DEF id

\* What a document holds is the IDs of its items.
LEMMA HeldIds ==
  ASSUME NEW d, Whole(d)
  PROVE  /\ \A id : id \in Stored(d) <=> \E k \in Refs(d) : d.heap[k].id = id
         /\ \A id : id \in Elements(d) <=> \E k \in Refs(d) : d.heap[k].id = id /\ d.heap[k].list \notin Key
         /\ \A id : id \in Undeleted(d) <=> \E k \in Refs(d) : /\ d.heap[k].id = id
                                                             /\ d.heap[k].list \notin Key /\ ~d.heap[k].deleted
<1>1. d \in Docs /\ DOMAIN d.heap = Refs(d) /\ \A k \in Refs(d) : d.heap[k] \in ItemType /\ d.heap[k].len = 1
  BY DocFields DEF Whole
<1>2. \A k \in Refs(d) : Chars(d.heap[k]) = {d.heap[k].id}
  <2>1. ASSUME NEW k \in Refs(d) PROVE Chars(d.heap[k]) = {d.heap[k].id}
    <3> DEFINE it == d.heap[k]
    <3>1. it \in ItemType /\ it.len = 1
      BY <1>1
    <3> HIDE DEF it
    <3>2. Chars(it) = {it.id}
      BY <3>1, ItemFields, CharsOne
    <3>3. QED
      BY <3>2 DEF it
  <2>2. QED
    BY <2>1
<1>3. \A it : it \in Items(d) <=> \E k \in Refs(d) : d.heap[k] = it
  BY <1>1 DEF Items, Range
<1>4. \A id : id \in Stored(d) <=> \E k \in Refs(d) : d.heap[k].id = id
  <2>1. \A id : id \in Stored(d) <=> \E it \in Items(d) : id \in Chars(it)
    BY DEF Stored
  <2>2. \A id : id \in Stored(d) <=> \E k \in Refs(d) : id \in Chars(d.heap[k])
    BY <1>3, <2>1
  <2>3. QED
    BY <1>2, <2>2
<1>5. \A id : id \in Elements(d) <=> \E k \in Refs(d) : d.heap[k].id = id /\ d.heap[k].list \notin Key
  <2>1. \A id : id \in Elements(d) <=> \E it \in Items(d) : id \in Chars(it) /\ it.list \notin Key
    BY DEF Elements
  <2>2. \A id : id \in Elements(d) <=> \E k \in Refs(d) : id \in Chars(d.heap[k]) /\ d.heap[k].list \notin Key
    BY <1>3, <2>1
  <2>3. QED
    BY <1>2, <2>2
<1>6. \A id : id \in Undeleted(d) <=> \E k \in Refs(d) : /\ d.heap[k].id = id
                                                       /\ d.heap[k].list \notin Key /\ ~d.heap[k].deleted
  <2>1. \A id : id \in Undeleted(d) <=> \E it \in Items(d) : /\ id \in Chars(it)
                                                            /\ it.list \notin Key /\ ~it.deleted
    BY DEF Undeleted
  <2>2. \A id : id \in Undeleted(d) <=> \E k \in Refs(d) : /\ id \in Chars(d.heap[k])
                                                           /\ d.heap[k].list \notin Key /\ ~d.heap[k].deleted
    BY <1>3, <2>1
  <2>3. QED
    BY <1>2, <2>2
<1>7. QED
  BY <1>4, <1>5, <1>6

\* What the updates applied at a peer and its transaction insert and delete, by IDs.
LEMMA AppliedIds ==
  ASSUME Inv, NEW r \in Client
  PROVE  /\ \A id : id \in Inserted(r) <=>
               \/ \E s \in Client : \E k \in got[r][s] : id \in ItemIds(announced[s][k].update)
               \/ \E i \in 1 .. Len(tx[r].items) : id = doc[r].heap[tx[r].items[i]].id
         /\ \A id : id \in Removed(r) <=>
               \/ \E s \in Client : \E k \in got[r][s] : id \in DelIds(announced[s][k].update)
               \/ \E i \in 1 .. Len(tx[r].dels) : id = doc[r].heap[tx[r].dels[i]].id
<1> DEFINE d == doc[r]
           items == tx[r].items
           dels == tx[r].dels
<1>1. Whole(d) /\ d \in Docs /\ items \in Seq(Refs(d)) /\ dels \in Seq(Refs(d))
  BY SettledSound DEF Inv, Consistent, Settled, Opened
<1>2. \A k \in Refs(d) : Chars(d.heap[k]) = {d.heap[k].id}
  <2>1. ASSUME NEW k \in Refs(d) PROVE Chars(d.heap[k]) = {d.heap[k].id}
    <3> DEFINE it == d.heap[k]
    <3> HIDE DEF d
    <3>1. it \in ItemType /\ it.len = 1
      BY <1>1, DocFields DEF Whole
    <3> HIDE DEF it
    <3>2. Chars(it) = {it.id}
      BY <3>1, ItemFields, CharsOne
    <3>3. QED
      BY <3>2 DEF it
  <2>2. QED
    BY <2>1
<1>3. /\ \A x : x \in Range(items) <=> \E i \in 1 .. Len(items) : x = items[i]
      /\ \A x : x \in Range(dels) <=> \E i \in 1 .. Len(dels) : x = dels[i]
      /\ \A i \in 1 .. Len(items) : items[i] \in Refs(d)
      /\ \A i \in 1 .. Len(dels) : dels[i] \in Refs(d)
  <2> DEFINE R == Refs(d)
  <2>1. items \in Seq(R) /\ dels \in Seq(R)
    BY <1>1
  <2> HIDE DEF R, items, dels
  <2>2. /\ \A x : x \in Range(items) <=> \E i \in 1 .. Len(items) : x = items[i]
        /\ \A x : x \in Range(dels) <=> \E i \in 1 .. Len(dels) : x = dels[i]
    BY <2>1 DEF Range
  <2>3. /\ \A i \in 1 .. Len(items) : items[i] \in R
        /\ \A i \in 1 .. Len(dels) : dels[i] \in R
    BY <2>1, SeqElements
  <2>4. QED
    BY <2>2, <2>3 DEF R
<1>4. \A u : u \in Applied(r) <=> \E s \in Client : \E k \in got[r][s] : u = announced[s][k].update
  BY DEF Applied
<1>5. \A s \in Client : \A k \in got[r][s] : Sent(doc, announced[s], k)
  BY DEF Inv, Consistent, Settled, Received
<1>6. ASSUME NEW s \in Client, NEW k \in got[r][s], NEW u, u = announced[s][k].update
      PROVE  /\ \A id : id \in UNION { Chars(it) : it \in Range(u.items) } <=> id \in ItemIds(u)
             /\ \A id : id \in UNION { Covered(x) : x \in Range(u.dels) } <=> id \in DelIds(u)
  <2>1. /\ u.items \in Seq(ItemType) /\ u.dels \in Seq(Ranges)
        /\ \A j \in 1 .. Len(u.items) : Wire(u.items[j])
    BY <1>5, <1>6 DEF Sent
  <2>2. \A j \in 1 .. Len(u.items) : Chars(u.items[j]) = {u.items[j].id}
    <3>1. ASSUME NEW it, Wire(it) PROVE Chars(it) = {it.id}
      BY <3>1, ItemFields, CharsOne DEF Wire
    <3>2. QED
      BY <2>1, <3>1
  <2>3. \A it : it \in Range(u.items) <=> \E j \in 1 .. Len(u.items) : it = u.items[j]
    BY <2>1 DEF Range
  <2>4. \A x : x \in Range(u.dels) <=> \E j \in 1 .. Len(u.dels) : x = u.dels[j]
    BY <2>1 DEF Range
  <2>5. \A id : id \in UNION { Chars(it) : it \in Range(u.items) } <=> id \in ItemIds(u)
    <3>1. \A id : id \in UNION { Chars(it) : it \in Range(u.items) } <=> \E it \in Range(u.items) : id \in Chars(it)
      OBVIOUS
    <3>2. \A id : id \in ItemIds(u) <=> \E j \in 1 .. Len(u.items) : id = u.items[j].id
      BY DEF ItemIds
    <3>3. \A id : (\E it \in Range(u.items) : id \in Chars(it)) <=> \E j \in 1 .. Len(u.items) : id \in Chars(u.items[j])
      BY <2>3
    <3>4. \A id : \A j \in 1 .. Len(u.items) : id \in Chars(u.items[j]) <=> id = u.items[j].id
      BY <2>2
    <3>5. QED
      BY <3>1, <3>2, <3>3, <3>4
  <2>6. \A id : id \in UNION { Covered(x) : x \in Range(u.dels) } <=> id \in DelIds(u)
    BY <2>4 DEF DelIds
  <2>7. QED
    BY <2>5, <2>6
<1>7. ASSUME NEW id
      PROVE  id \in Inserted(r) <=>
               \/ \E s \in Client : \E k \in got[r][s] : id \in ItemIds(announced[s][k].update)
               \/ \E i \in 1 .. Len(items) : id = d.heap[items[i]].id
  <2>1. id \in Inserted(r) <=> \/ \E u \in Applied(r) : id \in UNION { Chars(it) : it \in Range(u.items) }
                               \/ \E k \in Range(items) : id \in Chars(d.heap[k])
    <3> DEFINE A == UNION { Chars(it) : it \in UNION { Range(u.items) : u \in Applied(r) } }
               B == UNION { Chars(d.heap[k]) : k \in Range(items) }
    <3>1. id \in Inserted(r) <=> id \in A \/ id \in B
      <4>1. Inserted(r) = A \cup B
        BY Zenon DEF Inserted
      <4> HIDE DEF A, B
      <4>2. QED
        BY <4>1
    <3>2. id \in A <=> \E u \in Applied(r) : id \in UNION { Chars(it) : it \in Range(u.items) }
      <4>1. id \in A <=> \E u \in Applied(r) : \E it \in Range(u.items) : id \in Chars(it)
        OBVIOUS
      <4>2. \A u : id \in UNION { Chars(it) : it \in Range(u.items) } <=> \E it \in Range(u.items) : id \in Chars(it)
        OBVIOUS
      <4>3. QED
        BY <4>1, <4>2
    <3>3. id \in B <=> \E k \in Range(items) : id \in Chars(d.heap[k])
      OBVIOUS
    <3> HIDE DEF A, B
    <3>4. QED
      BY <3>1, <3>2, <3>3
  <2> HIDE DEF d, items
  <2>2. (\E u \in Applied(r) : id \in UNION { Chars(it) : it \in Range(u.items) }) <=>
           \E s \in Client : \E k \in got[r][s] : id \in ItemIds(announced[s][k].update)
    BY <1>4, <1>6
  <2>3. (\E k \in Range(items) : id \in Chars(d.heap[k])) <=> \E i \in 1 .. Len(items) : id = d.heap[items[i]].id
    <3>1. \A i \in 1 .. Len(items) : Chars(d.heap[items[i]]) = {d.heap[items[i]].id}
      BY <1>2, <1>3
    <3>2. (\E k \in Range(items) : id \in Chars(d.heap[k])) <=> \E i \in 1 .. Len(items) : id \in Chars(d.heap[items[i]])
      BY <1>3
    <3>3. QED
      BY <3>1, <3>2
  <2>4. QED
    BY <2>1, <2>2, <2>3
<1>8. ASSUME NEW id
      PROVE  id \in Removed(r) <=>
               \/ \E s \in Client : \E k \in got[r][s] : id \in DelIds(announced[s][k].update)
               \/ \E i \in 1 .. Len(dels) : id = d.heap[dels[i]].id
  <2>1. id \in Removed(r) <=> \/ \E u \in Applied(r) : id \in UNION { Covered(x) : x \in Range(u.dels) }
                              \/ \E k \in Range(dels) : id \in Chars(d.heap[k])
    <3> DEFINE A == UNION { Covered(x) : x \in UNION { Range(u.dels) : u \in Applied(r) } }
               B == UNION { Chars(d.heap[k]) : k \in Range(dels) }
    <3>1. id \in Removed(r) <=> id \in A \/ id \in B
      <4>1. Removed(r) = A \cup B
        BY Zenon DEF Removed
      <4> HIDE DEF A, B
      <4>2. QED
        BY <4>1
    <3>2. id \in A <=> \E u \in Applied(r) : id \in UNION { Covered(x) : x \in Range(u.dels) }
      <4>1. id \in A <=> \E u \in Applied(r) : \E x \in Range(u.dels) : id \in Covered(x)
        OBVIOUS
      <4>2. \A u : id \in UNION { Covered(x) : x \in Range(u.dels) } <=> \E x \in Range(u.dels) : id \in Covered(x)
        OBVIOUS
      <4>3. QED
        BY <4>1, <4>2
    <3>3. id \in B <=> \E k \in Range(dels) : id \in Chars(d.heap[k])
      OBVIOUS
    <3> HIDE DEF A, B
    <3>4. QED
      BY <3>1, <3>2, <3>3
  <2> HIDE DEF d, dels
  <2>2. (\E u \in Applied(r) : id \in UNION { Covered(x) : x \in Range(u.dels) }) <=>
           \E s \in Client : \E k \in got[r][s] : id \in DelIds(announced[s][k].update)
    BY <1>4, <1>6
  <2>3. (\E k \in Range(dels) : id \in Chars(d.heap[k])) <=> \E i \in 1 .. Len(dels) : id = d.heap[dels[i]].id
    <3>1. \A i \in 1 .. Len(dels) : Chars(d.heap[dels[i]]) = {d.heap[dels[i]].id}
      BY <1>2, <1>3
    <3>2. (\E k \in Range(dels) : id \in Chars(d.heap[k])) <=> \E i \in 1 .. Len(dels) : id \in Chars(d.heap[dels[i]])
      BY <1>3
    <3>3. QED
      BY <3>1, <3>2
  <2>4. QED
    BY <2>1, <2>2, <2>3
<1>9. QED
  BY <1>7, <1>8

\* A peer's store is the updates it applied, whatever their order and number: what they
\* insert, and alive, unless it is the value of a key, what none of them deletes.
LEMMA InvStore == Inv => StoreIsTheUpdateSet
<1>1. ASSUME Inv, NEW r \in Client
      PROVE  /\ Inserted(r) \subseteq Stored(doc[r])
             /\ syncs = 0 => Stored(doc[r]) = Inserted(r)
             /\ Undeleted(doc[r]) = Elements(doc[r]) \ Removed(r)
  <2> DEFINE d == doc[r]
             items == tx[r].items
             dels == tx[r].dels
  <2>1. /\ Whole(d) /\ d \in Docs /\ \A k \in Refs(d) : d.heap[k].id \in IdType
        /\ items \in Seq(Refs(d)) /\ dels \in Seq(Refs(d))
        /\ Received(doc, announced, got, r) /\ Remembers(doc, announced, got, r)
        /\ Erased(doc, tx, announced, got, r)
        /\ syncs = 0 => Complete(doc, tx, announced, got, r)
    BY <1>1, SettledSound DEF Inv, Consistent, Settled, Opened
  <2>2. /\ \A i \in 1 .. Len(items) : items[i] \in Refs(d)
        /\ \A i \in 1 .. Len(dels) : dels[i] \in Refs(d)
    <3> DEFINE R == Refs(d)
    <3>1. items \in Seq(R) /\ dels \in Seq(R)
      BY <2>1
    <3> HIDE DEF R, items, dels
    <3>2. QED
      BY <3>1, SeqElements DEF R
  <2>3. /\ \A id : id \in Stored(d) <=> \E k \in Refs(d) : d.heap[k].id = id
        /\ \A id : id \in Elements(d) <=> \E k \in Refs(d) : d.heap[k].id = id /\ d.heap[k].list \notin Key
        /\ \A id : id \in Undeleted(d) <=> \E k \in Refs(d) : /\ d.heap[k].id = id
                                                             /\ d.heap[k].list \notin Key /\ ~d.heap[k].deleted
    <3> HIDE DEF d
    <3> QED BY <2>1, HeldIds
  <2>4. /\ \A id : id \in Inserted(r) <=>
               \/ \E s \in Client : \E k \in got[r][s] : id \in ItemIds(announced[s][k].update)
               \/ \E i \in 1 .. Len(items) : id = d.heap[items[i]].id
        /\ \A id : id \in Removed(r) <=>
               \/ \E s \in Client : \E k \in got[r][s] : id \in DelIds(announced[s][k].update)
               \/ \E i \in 1 .. Len(dels) : id = d.heap[dels[i]].id
    BY <1>1, AppliedIds
  <2>5. \A k \in Refs(d) : RefOf(d, d.heap[k].id) = k
    BY <2>1 DEF Whole, RefOf
  <2>6. ASSUME NEW id \in Inserted(r) PROVE id \in Stored(d)
    <3>1. CASE \E s \in Client : \E k \in got[r][s] : id \in ItemIds(announced[s][k].update)
      <4>1. PICK s \in Client : \E k \in got[r][s] : id \in ItemIds(announced[s][k].update)
        BY <3>1
      <4>2. PICK k \in got[r][s] : id \in ItemIds(announced[s][k].update)
        BY <4>1
      <4>3. Held(d, id)
        BY <2>1, <4>2 DEF Received
      <4>4. id \in IdType
        <5>1. Sent(doc, announced[s], k)
          BY <1>1, <2>1 DEF Inv, Consistent, Settled, Received
        <5>2. QED
          BY <4>2, <5>1, SentIds
      <4>5. RefOf(d, id) \in Refs(d) /\ d.heap[RefOf(d, id)].id = id
        <5> HIDE DEF d
        <5> QED BY <2>1, <4>3, <4>4, getItemFinds
      <4>6. QED
        BY <2>3, <4>5
    <3>2. CASE \E i \in 1 .. Len(items) : id = d.heap[items[i]].id
      BY <2>2, <2>3, <3>2
    <3>3. QED
      BY <2>4, <2>6, <3>1, <3>2
  <2>7. ASSUME syncs = 0, NEW id \in Stored(d) PROVE id \in Inserted(r)
    <3>1. PICK k \in Refs(d) : d.heap[k].id = id
      BY <2>3, <2>7
    <3>2. \/ \E i \in 1 .. Len(items) : items[i] = k
          \/ \E s \in Client : \E h \in got[r][s] : d.heap[k].id \in ItemIds(announced[s][h].update)
      BY <2>1, <2>7 DEF Complete
    <3>3. QED
      BY <2>4, <3>1, <3>2
  <2>8. ASSUME NEW k \in Refs(d), d.heap[k].list \notin Key
        PROVE  d.heap[k].deleted <=> d.heap[k].id \in Removed(r)
    <3> DEFINE id == d.heap[k].id
    <3>1. d.heap[k].deleted => id \in Removed(r)
      <4>1. d.heap[k].deleted =>
               \/ \E i \in 1 .. Len(dels) : dels[i] = k
               \/ \E s \in Client : \E h \in got[r][s] : id \in DelIds(announced[s][h].update)
        BY <2>1, <2>8 DEF Erased
      <4>2. QED
        BY <2>4, <4>1
    <3>2. ASSUME NEW s \in Client, NEW h \in got[r][s], id \in DelIds(announced[s][h].update)
          PROVE  d.heap[k].deleted
      <4>1. CASE s = r
        <5>1. d.heap[RefOf(d, id)].deleted
          BY <2>1, <3>2, <4>1 DEF Erased
        <5>2. QED
          BY <2>5, <5>1
      <4>2. CASE s # r
        <5>1. id \in Foreign(announced, got, r)
          BY <2>1, <3>2, <4>2 DEF Foreign
        <5>2. isDeleted(d, id)
          BY <2>1, <5>1 DEF Remembers
        <5>3. QED
          BY <2>1, <5>2 DEF Remembers
      <4>3. QED
        BY <4>1, <4>2
    <3>3. ASSUME NEW i \in 1 .. Len(dels), id = d.heap[dels[i]].id PROVE d.heap[k].deleted
      <4>1. dels[i] = k
        BY <2>2, <2>5, <3>3
      <4>2. d.heap[dels[i]].deleted
        BY <2>1 DEF Erased
      <4>3. QED
        BY <4>1, <4>2
    <3>4. QED
      BY <2>4, <3>1, <3>2, <3>3
  <2>9. Undeleted(d) = Elements(d) \ Removed(r)
    <3>1. ASSUME NEW id \in Undeleted(d) PROVE id \in Elements(d) \ Removed(r)
      <4>1. PICK k \in Refs(d) : d.heap[k].id = id /\ d.heap[k].list \notin Key /\ ~d.heap[k].deleted
        BY <2>3, <3>1
      <4>2. QED
        BY <2>3, <2>8, <4>1
    <3>2. ASSUME NEW id \in Elements(d), id \notin Removed(r) PROVE id \in Undeleted(d)
      <4>1. PICK k \in Refs(d) : d.heap[k].id = id /\ d.heap[k].list \notin Key
        BY <2>3, <3>2
      <4>2. QED
        BY <2>3, <2>8, <3>2, <4>1
    <3>3. QED
      BY <3>1, <3>2
  <2>10. QED
    BY <2>6, <2>7, <2>9
<1>2. QED
  BY <1>1 DEF StoreIsTheUpdateSet

\* After an exchange of states a peer stores all that the one that answered stores.
LEMMA InvCatchesUp ==
  ASSUME WideChar = {}, Inv, NEW r \in Client, NEW s \in Client, Sync(r, s)
  PROVE  Stored(doc[s]) \subseteq Stored(doc'[r])
<1> DEFINE u == EncodeStateAsUpdate(doc[s], stateVector(doc[r]))
           e == ApplyUpdate(doc[r], u)
           d == doc[s]
<1>1. doc'[r] = e
  BY DEF Sync, Inv, Shape
<1>2. Whole(d) /\ \A k \in Refs(d) : d.heap[k].id \in IdType
  BY SettledSound DEF Inv
<1>3. Whole(e) /\ \A k \in Refs(d) : Held(e, d.heap[k].id)
  <2> HIDE DEF u
  <2>1. u = EncodeStateAsUpdate(doc[s], stateVector(doc[r]))
    BY DEF u
  <2>2. /\ Updated(doc[r], ApplyUpdate(doc[r], u), u)
        /\ \A k \in Refs(doc[s]) : Held(ApplyUpdate(doc[r], u), doc[s].heap[k].id)
    BY <2>1, SyncUpdates DEF Inv
  <2>3. QED
    BY <2>2 DEF Updated, Sound
<1> HIDE DEF e, d
<1>4. ASSUME NEW id \in Stored(d) PROVE id \in Stored(e)
  <2>1. PICK k \in Refs(d) : d.heap[k].id = id
    BY <1>2, <1>4, HeldIds
  <2>2. Held(e, id) /\ id \in IdType
    BY <1>2, <1>3, <2>1
  <2>3. RefOf(e, id) \in Refs(e) /\ e.heap[RefOf(e, id)].id = id
    BY <1>3, <2>2, getItemFinds
  <2>4. QED
    BY <1>3, <2>3, HeldIds
<1>5. QED
  BY <1>1, <1>4 DEF d

=============================================================================
