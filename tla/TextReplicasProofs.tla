------------------------- MODULE TextReplicasProofs -------------------------
(***************************************************************************)
(* The invariant of the peers that share a Text, where every edit types    *)
(* one character.  Then no index falls inside an item and nothing is split *)
(* (longer strings give an ID to two characters: the run text_clock_reuse).*)
(***************************************************************************)
EXTENDS MCTextReplicas, OrderProofs

-----------------------------------------------------------------------------
(***************************************************************************)
(* Where a character goes.                                                 *)
(***************************************************************************)
\* The end of a chain is below every item.
LEMMA AboveNil ==
  ASSUME NEW d, Sound(d), NEW rank, Ranked(d, rank), NEW k \in Refs(d)
  PROVE  rank[Nil] < rank[k]
<1>1. Len(d.heap) \in Nat /\ Listed(d) /\ d \in Docs
  BY DocFields DEF Sound, Whole
<1>2. d.heap[k].right \in 0 .. Len(d.heap) /\ k \in 0 .. Len(d.heap)
  <2>1. d.heap[k].right \in {Nil} \cup Refs(d) /\ {Nil} \cup Refs(d) = 0 .. Len(d.heap)
    BY <1>1, RightRanked
  <2>2. QED
    BY <2>1
<1>3. rank[d.heap[k].right] < rank[k] /\ rank[Nil] = 0 /\ rank \in [0 .. Len(d.heap) -> Nat]
  BY DEF Ranked
<1>4. rank[d.heap[k].right] \in Nat /\ rank[k] \in Nat
  BY <1>2, <1>3
<1>5. QED
  BY <1>3, <1>4

\* The visible items of a list go down in rank.
LEMMA liveRanked ==
  ASSUME NEW d, Sound(d), NEW rank, Ranked(d, rank), NEW l \in List
  PROVE  \A i, j \in 1 .. Len(live(d, l)) : i < j => rank[live(d, l)[j]] < rank[live(d, l)[i]]
<1> DEFINE X == OfList(d, l)
           first == d.start[l]
           refs == chain(d, first)
           S == { r \in DOMAIN d.heap : ~d.heap[r].deleted }
<1>1. d \in Docs /\ Listed(d)
  BY DEF Sound, Whole
<1>2. X \subseteq Refs(d) /\ (\A k \in X : d.heap[k].right \in {Nil} \cup X) /\ first \in {Nil} \cup X
  BY <1>1 DEF Listed, OfList
<1>3. live(d, l) = Among(refs, S)
  BY DEF live
<1> HIDE DEF X, first
<1>4. Follows(d, first, refs, X)
  BY <1>1, <1>2, chainFollows
<1> HIDE DEF refs, S
<1>5. \A i, j \in 1 .. Len(refs) : i < j => rank[refs[j]] < rank[refs[i]]
  BY <1>1, <1>2, <1>4, FollowsRanked
<1>6. refs \in Seq(X)
  BY <1>4 DEF Follows
<1> DEFINE out == Among(refs, S)
<1>7. InOrder(out, refs)
  BY <1>6, AmongSelects
<1> HIDE DEF out
<1>8. \A i, j \in 1 .. Len(out) : i < j => rank[out[j]] < rank[out[i]]
  BY <1>5, <1>7 DEF InOrder
<1>9. QED
  BY <1>3, <1>8 DEF out

\* The index falls between two of the items, or after the last one.
LEMMA positionBetween ==
  ASSUME NEW d, Whole(d), NEW refs \in Seq(Refs(d)), NEW index \in Nat
  PROVE  \E left, right : /\ IsSlot(refs, Capped(index, Len(refs)), left, right)
                          /\ position(d, refs, index) = [doc |-> d, left |-> left, right |-> right]
<1> DEFINE N == Len(refs)
           Solves(g) == g = [k \in 0 .. N |-> IF k = 0 THEN 0 ELSE g[k - 1] + d.heap[refs[k]].len]
           end == CHOOSE x : Solves(x)
           hits == { k \in 0 .. N : end[k] >= index }
           m == IF hits = {} THEN N ELSE Min(hits)
           At(i) == IF i \in DOMAIN refs THEN refs[i] ELSE Nil
<1>1. position(d, refs, index) =
         IF end[m] > index
         THEN [doc  |-> splitItemAt(d, refs[m], index - end[m - 1]),
               left |-> refs[m], right |-> Fresh(d)]
         ELSE [doc |-> d, left |-> At(m), right |-> At(m + 1)]
  BY DEF position
<1>2. N \in Nat /\ \A k \in 1 .. N : d.heap[refs[k]].len = 1
  <2> DEFINE R == Refs(d)
  <2>1. refs \in Seq(R)
    OBVIOUS
  <2> HIDE DEF R
  <2>2. N \in Nat /\ \A k \in 1 .. N : refs[k] \in R
    BY <2>1, SeqElements
  <2>3. QED
    BY <2>2 DEF Whole, R
<1> HIDE DEF N
<1>3. Solves([k \in 0 .. N |-> k])
  <2> DEFINE g == [k \in 0 .. N |-> k]
  <2>1. \A k \in 0 .. N : k = IF k = 0 THEN 0 ELSE g[k - 1] + d.heap[refs[k]].len
    <3>1. ASSUME NEW k \in 0 .. N, k # 0 PROVE k = g[k - 1] + d.heap[refs[k]].len
      <4>1. k \in 1 .. N /\ k - 1 \in 0 .. N
        BY <1>2, <3>1
      <4>2. g[k - 1] = k - 1
        BY <4>1
      <4>3. QED
        BY <1>2, <4>1, <4>2
    <3>2. QED
      BY <3>1
  <2>2. QED
    BY <2>1
<1>4. Solves(end)
  <2> HIDE DEF Solves
  <2> QED BY <1>3 DEF end
<1> HIDE DEF end
<1>5. \A k \in 0 .. N : end[k] = IF k = 0 THEN 0 ELSE end[k - 1] + d.heap[refs[k]].len
  BY <1>4
<1> HIDE DEF Solves
<1> DEFINE Counts == { k \in Nat : k <= N => end[k] = k }
<1>6. \A k \in Nat : k \in Counts
  <2>1. 0 \in Counts
    BY <1>2, <1>5
  <2>2. ASSUME NEW k \in Nat, k \in Counts PROVE k + 1 \in Counts
    <3>1. SUFFICES ASSUME k + 1 <= N PROVE end[k + 1] = k + 1
      OBVIOUS
    <3>2. k + 1 \in 0 .. N /\ k + 1 \in 1 .. N /\ (k + 1) - 1 = k /\ k + 1 # 0 /\ end[k] = k
      BY <1>2, <2>2, <3>1
    <3>3. end[k + 1] = end[k] + d.heap[refs[k + 1]].len
      BY <1>5, <3>2
    <3>4. QED
      BY <1>2, <3>2, <3>3
  <2> HIDE DEF Counts
  <2>3. QED
    BY <2>1, <2>2, Induction
<1>7. \A k \in 0 .. N : end[k] = k
  BY <1>2, <1>6
<1>8. hits = { k \in 0 .. N : k >= index }
  BY <1>7
<1>9. m = Capped(index, N)
  <2>1. CASE hits = {}
    <3>1. ~(N >= index)
      BY <1>2, <1>8, <2>1
    <3>2. QED
      BY <1>2, <2>1, <3>1 DEF Capped
  <2>2. CASE hits # {}
    <3>1. hits \subseteq Nat
      BY <1>2
    <3>2. Min(hits) \in hits /\ \A x \in hits : Min(hits) <= x
      <4> HIDE DEF hits
      <4> QED BY <2>2, <3>1, LeastOf
    <3>3. index \in hits
      <4>1. PICK x \in 0 .. N : x >= index
        BY <1>8, <2>2
      <4>2. index \in 0 .. N
        BY <1>2, <4>1
      <4>3. QED
        BY <1>8, <4>2
    <3>4. Min(hits) <= index /\ Min(hits) >= index /\ Min(hits) \in Nat /\ index <= N
      BY <1>2, <1>8, <3>1, <3>2, <3>3
    <3>5. Min(hits) = index
      BY <3>4
    <3>6. QED
      BY <1>2, <2>2, <3>4, <3>5 DEF Capped
  <2>3. QED
    BY <2>1, <2>2
<1> HIDE DEF hits, m
<1>10. m \in 0 .. N /\ m <= index
  BY <1>2, <1>9 DEF Capped
<1>11. ~(end[m] > index)
  <2>1. end[m] = m /\ m \in Nat
    BY <1>2, <1>7, <1>10
  <2>2. QED
    BY <1>10, <2>1
<1>12. position(d, refs, index) = [doc |-> d, left |-> At(m), right |-> At(m + 1)]
  BY <1>1, <1>11
<1>13. IsSlot(refs, m, At(m), At(m + 1))
  <2>1. DOMAIN refs = 1 .. N
    BY DEF N
  <2>2. m \in 1 .. N <=> m # 0
    BY <1>2, <1>10
  <2>3. m + 1 \in 1 .. N <=> m # N
    BY <1>2, <1>10
  <2>4. m \in 0 .. Len(refs) /\ N = Len(refs)
    BY <1>10 DEF N
  <2> HIDE DEF N
  <2>5. At(m) = IF m = 0 THEN Nil ELSE refs[m]
    BY <2>1, <2>2
  <2>6. At(m + 1) = IF m = N THEN Nil ELSE refs[m + 1]
    BY <2>1, <2>3
  <2> HIDE DEF At
  <2>7. QED
    BY <2>4, <2>5, <2>6 DEF IsSlot
<1> HIDE DEF At
<1>14. QED
  BY <1>9, <1>12, <1>13 DEF N

\* A character is inserted between two visible ones that follow each other.
LEMMA InsertTypes ==
  ASSUME NEW d, Sound(d), NEW c \in Client, NEW l \in List, NEW index \in Nat, NEW v \in 1 .. MaxChars
  PROVE  LET e == Insert(d, c, l, index, <<v>>)
         IN  /\ Typed(d, e, c, 1)
             /\ \E left, right : /\ IsSlot(live(d, l), Capped(index, Len(live(d, l))), left, right)
                                 /\ Laid(d, e, c, l, left, right, v)
<1> DEFINE refs == live(d, l)
<1>1. refs \in Seq(OfList(d, l)) /\ OfList(d, l) \subseteq Refs(d) /\ Whole(d) /\ ~d.panic /\ d \in Docs
  BY chainOfList DEF OfList, Sound, Whole
<1>2. PICK rank : Ranked(d, rank)
  BY DEF Sound
<1>3. \A i, j \in 1 .. Len(refs) : i < j => rank[refs[j]] < rank[refs[i]]
  BY <1>2, liveRanked
<1>4. Insert(d, c, l, index, <<v>>) =
         LET pos == position(d, refs, index)
         IN  IF pos.doc.panic THEN pos.doc
             ELSE place(pos.doc, c, getState(d, c), l, pos.left, pos.right, <<v>>)
  BY DEF Insert, findPositionAt
<1> HIDE DEF refs
<1>5. Len(refs) \in Nat /\ DOMAIN refs = 1 .. Len(refs) /\ refs \in Seq(Refs(d))
      /\ \A i \in 1 .. Len(refs) : refs[i] \in Refs(d) /\ d.heap[refs[i]].list = l
  <2> DEFINE X == OfList(d, l)
             R == Refs(d)
  <2>1. refs \in Seq(X) /\ X \subseteq R
    BY <1>1
  <2> HIDE DEF X, R
  <2>2. Len(refs) \in Nat /\ DOMAIN refs = 1 .. Len(refs) /\ refs \in Seq(R) /\ \A i \in 1 .. Len(refs) : refs[i] \in X
    BY <2>1
  <2>3. QED
    BY <2>2 DEF X, R, OfList
<1> DEFINE k == Capped(index, Len(refs))
<1>6. PICK left, right : /\ IsSlot(refs, k, left, right)
                         /\ position(d, refs, index) = [doc |-> d, left |-> left, right |-> right]
  BY <1>1, <1>5, positionBetween
<1>7. Insert(d, c, l, index, <<v>>) = place(d, c, getState(d, c), l, left, right, <<v>>)
  BY <1>1, <1>4, <1>6
<1> HIDE DEF k
<1>8. /\ left \in {Nil} \cup Refs(d) /\ (left # Nil => d.heap[left].list = l)
      /\ right \in {Nil} \cup Refs(d) /\ (right # Nil => d.heap[right].list = l)
  <2> DEFINE N == Len(refs)
  <2>1. N \in Nat /\ k \in 0 .. N /\ (left = IF k = 0 THEN Nil ELSE refs[k]) /\ (right = IF k = N THEN Nil ELSE refs[k + 1])
    BY <1>5, <1>6 DEF IsSlot
  <2>2. \A i \in 1 .. N : refs[i] \in Refs(d) /\ d.heap[refs[i]].list = l
    BY <1>5
  <2> HIDE DEF N
  <2>3. (k # 0 => k \in 1 .. N) /\ (k # N => k + 1 \in 1 .. N)
    BY <2>1
  <2>4. QED
    BY <2>1, <2>2, <2>3
<1>9. left # Nil => rank[right] < rank[left]
  <2>1. SUFFICES ASSUME left # Nil PROVE rank[right] < rank[left]
    OBVIOUS
  <2> DEFINE N == Len(refs)
  <2>2. N \in Nat /\ k \in 0 .. N /\ (left = IF k = 0 THEN Nil ELSE refs[k]) /\ (right = IF k = N THEN Nil ELSE refs[k + 1])
    BY <1>5, <1>6 DEF IsSlot
  <2>3. \A i, j \in 1 .. N : i < j => rank[refs[j]] < rank[refs[i]]
    BY <1>3
  <2> HIDE DEF N
  <2>4. CASE k # N
    <3>1. k \in 1 .. N /\ k + 1 \in 1 .. N /\ k < k + 1 /\ left = refs[k] /\ right = refs[k + 1]
      BY <2>1, <2>2, <2>4
    <3>2. rank[refs[k + 1]] < rank[refs[k]]
      BY <2>3, <3>1
    <3>3. QED
      BY <3>1, <3>2
  <2>5. CASE k = N
    <3>1. right = Nil /\ left \in Refs(d)
      BY <1>8, <2>1, <2>2, <2>5
    <3>2. rank[Nil] < rank[left]
      BY <1>2, <3>1, AboveNil
    <3>3. QED
      BY <3>1, <3>2
  <2>6. QED
    BY <2>4, <2>5
<1> DEFINE e == place(d, c, getState(d, c), l, left, right, <<v>>)
<1>10. Typed(d, e, c, 1) /\ Laid(d, e, c, l, left, right, v)
  BY <1>2, <1>8, <1>9, placeTypes
<1> HIDE DEF e
<1>11. Insert(d, c, l, index, <<v>>) = e
  BY <1>7 DEF e
<1>12. QED
  BY <1>6, <1>10, <1>11 DEF k, refs

-----------------------------------------------------------------------------
(***************************************************************************)
(* What is deleted.                                                        *)
(***************************************************************************)
\* A cut item more.
LEMMA CutAnother ==
  ASSUME NEW d, Sound(d), NEW a, Cuts(d, a), NEW r \in Refs(d),
         NEW b, b.doc = markDeleted(a.doc, {r}), b.dels = Append(a.dels, r)
  PROVE  Cuts(d, b)
<1> DEFINE e == a.doc
           m == markDeleted(e, {r})
           R == Refs(d)
<1>1. Sound(e) /\ Len(e.heap) = Len(d.heap) /\ Refs(e) = R /\ a.dels \in Seq(R)
  BY DEF Cuts, Refs
<1>2. Marks(e, m, {r}) /\ Sound(m)
  <2>1. {r} \subseteq Refs(e)
    BY <1>1
  <2> HIDE DEF e
  <2>2. QED
    BY <1>1, <2>1, markDeletedSound
<1>3. /\ Append(a.dels, r) \in Seq(R)
      /\ \A k : (\E i \in 1 .. Len(Append(a.dels, r)) : Append(a.dels, r)[i] = k)
                   <=> (\E i \in 1 .. Len(a.dels) : a.dels[i] = k) \/ k = r
  <2> DEFINE s == a.dels
             t == Append(s, r)
  <2>1. s \in Seq(R) /\ r \in R
    BY <1>1
  <2> HIDE DEF s, R
  <2>2. t \in Seq(R) /\ Len(s) \in Nat /\ Len(t) = Len(s) + 1 /\ t[Len(s) + 1] = r /\ \A i \in 1 .. Len(s) : t[i] = s[i]
    BY <2>1
  <2> HIDE DEF t
  <2>3. ASSUME NEW k PROVE (\E i \in 1 .. Len(t) : t[i] = k) <=> (\E i \in 1 .. Len(s) : s[i] = k) \/ k = r
    <3>1. ASSUME NEW i \in 1 .. Len(t), t[i] = k PROVE (\E j \in 1 .. Len(s) : s[j] = k) \/ k = r
      <4>1. CASE i = Len(s) + 1
        BY <2>2, <3>1, <4>1
      <4>2. CASE i # Len(s) + 1
        <5>1. i \in 1 .. Len(s)
          BY <2>2, <4>2
        <5>2. s[i] = k
          BY <2>2, <3>1, <5>1
        <5>3. QED
          BY <5>1, <5>2
      <4>3. QED
        BY <4>1, <4>2
    <3>2. ASSUME NEW i \in 1 .. Len(s), s[i] = k PROVE \E j \in 1 .. Len(t) : t[j] = k
      <4>1. i \in 1 .. Len(t) /\ t[i] = k
        BY <2>2, <3>2
      <4>2. QED
        BY <4>1
    <3>3. ASSUME k = r PROVE \E j \in 1 .. Len(t) : t[j] = k
      <4>1. Len(t) \in 1 .. Len(t) /\ t[Len(t)] = k
        BY <2>2, <3>3
      <4>2. QED
        BY <4>1
    <3>4. QED
      BY <3>1, <3>2, <3>3
  <2>4. QED
    BY <2>2, <2>3 DEF s, t
<1>4. b.doc = m /\ Len(m.heap) = Len(d.heap) /\ m.store = d.store /\ m.ds = d.ds
      /\ m.start = d.start
  BY <1>1, <1>2 DEF Marks, Cuts
<1>5. ASSUME NEW k \in R
      PROVE  /\ SameItem(m.heap[k], d.heap[k]) /\ m.heap[k].right = d.heap[k].right
             /\ m.heap[k].deleted <=> d.heap[k].deleted \/ \E i \in 1 .. Len(b.dels) : b.dels[i] = k
  <2>1. SameItem(e.heap[k], d.heap[k]) /\ e.heap[k].right = d.heap[k].right
        /\ (e.heap[k].deleted <=> d.heap[k].deleted \/ \E i \in 1 .. Len(a.dels) : a.dels[i] = k)
    BY DEF Cuts
  <2>2. SameItem(m.heap[k], e.heap[k]) /\ m.heap[k].right = e.heap[k].right /\ (m.heap[k].deleted <=> e.heap[k].deleted \/ k \in {r})
    BY <1>1, <1>2, <1>5 DEF Marks
  <2>3. SameItem(m.heap[k], d.heap[k])
    BY <2>1, <2>2 DEF SameItem
  <2> HIDE DEF m, e
  <2>4. QED
    BY <1>3, <2>1, <2>2, <2>3
<1> HIDE DEF m, e
<1>6. QED
  BY <1>2, <1>3, <1>4, <1>5 DEF Cuts

\* What the walk over the visible items cut.
Walks(d, a) ==
    /\ a \in [doc : Docs, dels : Seq(Refs(d)), pos : Nat, rem : Nat]
    /\ Cuts(d, a)

\* Where it is after n of them: it has cut those from the index on, and none is left to
\* cut or it counted all of the n.
Strides(seq, index, length, a, n) ==
    LET c == length - a.rem
    IN  /\ a.rem \in Nat /\ c \in Nat /\ Len(a.dels) = c
        /\ \A i \in 1 .. c : a.dels[i] = seq[index + i]
        /\ IF a.rem = 0 THEN c = 0 \/ index + c <= n
           ELSE a.pos = n /\ c = IF n <= index THEN 0 ELSE n - index

\* What Text.Delete makes of the accumulator at the item r (the visit of Delete).
Visited(acc, r, index) ==
    LET skip  == IF acc.pos < index THEN index - acc.pos ELSE 0
        end   == acc.pos + acc.doc.heap[r].len
        d1    == IF skip > 0 THEN splitItemAt(acc.doc, r, skip) ELSE acc.doc
        ref   == IF skip > 0 THEN Fresh(acc.doc) ELSE r
        len   == d1.heap[ref].len
        d2    == IF len > acc.rem THEN splitItemAt(d1, ref, acc.rem) ELSE d1
    IN  IF acc.rem = 0 \/ acc.doc.panic THEN acc
        ELSE IF end <= index THEN [acc EXCEPT !.pos = end]
        ELSE IF d1.panic \/ d2.panic
             THEN [acc EXCEPT !.doc = [d2 EXCEPT !.panic = TRUE]]
        ELSE [doc  |-> markDeleted(d2, {ref}),
              dels |-> Append(acc.dels, ref),
              pos  |-> end,
              rem  |-> acc.rem - d2.heap[ref].len]

\* A visit splits nothing and cuts at most the item it visits.
LEMMA VisitWalks ==
  ASSUME NEW d, Sound(d), NEW a, Walks(d, a), NEW r \in Refs(d), NEW index \in Nat,
         NEW length \in Nat, NEW seq, NEW n \in Nat, Strides(seq, index, length, a, n), r = seq[n + 1]
  PROVE  LET b == Visited(a, r, index)
         IN  Walks(d, b) /\ Strides(seq, index, length, b, n + 1)
<1> DEFINE skip  == IF a.pos < index THEN index - a.pos ELSE 0
           end   == a.pos + a.doc.heap[r].len
           d1    == IF skip > 0 THEN splitItemAt(a.doc, r, skip) ELSE a.doc
           ref   == IF skip > 0 THEN Fresh(a.doc) ELSE r
           len   == d1.heap[ref].len
           d2    == IF len > a.rem THEN splitItemAt(d1, ref, a.rem) ELSE d1
           b     == [doc  |-> markDeleted(d2, {ref}),
                     dels |-> Append(a.dels, ref),
                     pos  |-> end,
                     rem  |-> a.rem - d2.heap[ref].len]
<1>1. Visited(a, r, index) =
         IF a.rem = 0 \/ a.doc.panic THEN a
         ELSE IF end <= index THEN [a EXCEPT !.pos = end]
         ELSE IF d1.panic \/ d2.panic
              THEN [a EXCEPT !.doc = [d2 EXCEPT !.panic = TRUE]]
         ELSE b
  BY DEF Visited
<1>2. /\ a = [doc |-> a.doc, dels |-> a.dels, pos |-> a.pos, rem |-> a.rem]
      /\ a.doc \in Docs /\ a.dels \in Seq(Refs(d)) /\ a.pos \in Nat /\ a.rem \in Nat
      /\ Cuts(d, a) /\ Sound(a.doc) /\ Len(a.doc.heap) = Len(d.heap)
  BY DEF Walks, Cuts
<1>3. ~a.doc.panic /\ a.doc.heap[r].len = 1
  <2>1. r \in Refs(a.doc)
    BY <1>2 DEF Refs
  <2>2. Whole(a.doc)
    BY <1>2 DEF Sound
  <2>3. QED
    BY <2>1, <2>2 DEF Whole
<1>4. end = a.pos + 1 /\ end \in Nat
  BY <1>2, <1>3
<1> DEFINE k == length - a.rem
<1>9. /\ k \in Nat /\ Len(a.dels) = k
      /\ \A i \in 1 .. k : a.dels[i] = seq[index + i]
      /\ IF a.rem = 0 THEN k = 0 \/ index + k <= n
         ELSE a.pos = n /\ k = IF n <= index THEN 0 ELSE n - index
  BY DEF Strides
<1>5. CASE a.rem = 0
  <2>1. Visited(a, r, index) = a
    BY <1>1, <1>5
  <2>2. k = 0 \/ index + k <= n + 1
    BY <1>5, <1>9
  <2>3. Strides(seq, index, length, a, n + 1)
    BY <1>2, <1>5, <1>9, <2>2 DEF Strides
  <2>4. QED
    BY <2>1, <2>3
<1>6. CASE a.rem # 0 /\ end <= index
  <2> DEFINE c == [a EXCEPT !.pos = end]
  <2>1. Visited(a, r, index) = c
    BY <1>1, <1>3, <1>6
  <2> HIDE DEF end
  <2>2. /\ c.doc = a.doc /\ c.dels = a.dels /\ c.pos = end /\ c.rem = a.rem
        /\ c \in [doc : Docs, dels : Seq(Refs(d)), pos : Nat, rem : Nat]
    BY <1>2, <1>4
  <2> HIDE DEF c
  <2>3. Cuts(d, c)
    BY <1>2, <2>2 DEF Cuts
  <2>4. end = n + 1 /\ n + 1 <= index /\ k = 0
    BY <1>4, <1>6, <1>9
  <2>5. Strides(seq, index, length, c, n + 1)
    BY <1>2, <1>6, <1>9, <2>2, <2>4 DEF Strides
  <2>6. QED
    BY <2>1, <2>2, <2>3, <2>5 DEF Walks
<1>7. CASE a.rem # 0 /\ ~(end <= index)
  <2>1. skip = 0
    <3>1. ~(a.pos < index)
      BY <1>2, <1>4, <1>7
    <3>2. QED
      BY <3>1
  <2>2. d1 = a.doc /\ ref = r
    BY <2>1
  <2> HIDE DEF d1, ref
  <2>3. len = 1 /\ d2 = a.doc
    <3>1. len = 1
      BY <1>3, <2>2
    <3>2. ~(len > a.rem)
      BY <1>2, <1>7, <3>1
    <3>3. QED
      BY <2>2, <3>1, <3>2
  <2> HIDE DEF len, d2, end, skip
  <2>4. Visited(a, r, index) = b
    BY <1>1, <1>3, <1>7, <2>2, <2>3
  <2> DEFINE e == markDeleted(a.doc, {r})
             dels == Append(a.dels, r)
             left == a.rem - 1
  <2>5. b = [doc |-> e, dels |-> dels, pos |-> end, rem |-> left]
    BY <1>3, <2>2, <2>3
  <2>6. left \in Nat
    BY <1>2, <1>7
  <2> HIDE DEF b, e, left
  <2>7. b.doc = e /\ b.dels = dels
    BY <2>5
  <2>8. Cuts(d, b)
    BY <1>2, <2>7, CutAnother DEF e
  <2>9. e \in Docs /\ dels \in Seq(Refs(d))
    BY <2>7, <2>8 DEF Cuts, Sound, Whole
  <2>12. Len(dels) = k + 1 /\ dels[k + 1] = r /\ \A i \in 1 .. k : dels[i] = a.dels[i]
    <3> DEFINE R == Refs(d)
               o == a.dels
    <3>1. o \in Seq(R) /\ r \in R /\ Len(o) = k /\ k \in Nat
      BY <1>2, <1>9
    <3> HIDE DEF R, o, k
    <3>2. Len(Append(o, r)) = k + 1 /\ Append(o, r)[k + 1] = r /\ \A i \in 1 .. k : Append(o, r)[i] = o[i]
      BY <3>1
    <3>3. QED
      BY <3>2 DEF o
  <2> HIDE DEF dels
  <2>10. /\ b \in [doc : Docs, dels : Seq(Refs(d)), pos : Nat, rem : Nat]
         /\ b.pos = end /\ b.rem = left
    BY <1>4, <2>5, <2>6, <2>9
  <2>13. a.pos = n /\ end = n + 1 /\ index <= n /\ k = n - index /\ left = a.rem - 1
    BY <1>4, <1>7, <1>9 DEF left, end
  <2>14. length - b.rem = k + 1
    BY <1>2, <1>9, <2>10, <2>13
  <2>15. \A i \in 1 .. k + 1 : b.dels[i] = seq[index + i]
    <3>1. ASSUME NEW i \in 1 .. k + 1 PROVE dels[i] = seq[index + i]
      <4>1. CASE i = k + 1
        <5>1. index + i = n + 1
          BY <2>13, <4>1
        <5>2. QED
          BY <2>12, <4>1, <5>1
      <4>2. CASE i # k + 1
        <5>1. i \in 1 .. k
          BY <1>9, <4>2
        <5>2. QED
          BY <1>9, <2>12, <5>1
      <4>3. QED
        BY <4>1, <4>2
    <3>2. QED
      BY <2>7, <3>1
  <2>16. Strides(seq, index, length, b, n + 1)
    <3>1. k + 1 \in Nat /\ Len(b.dels) = k + 1
      BY <1>9, <2>7, <2>12
    <3>2. index + (k + 1) <= n + 1 /\ ~(n + 1 <= index) /\ k + 1 = n + 1 - index
      BY <2>13
    <3>3. b.pos = n + 1 /\ b.rem \in Nat
      BY <2>6, <2>10, <2>13
    <3> HIDE DEF k
    <3>4. QED
      BY <2>14, <2>15, <3>1, <3>2, <3>3 DEF Strides
  <2>11. QED
    BY <2>4, <2>8, <2>10, <2>16 DEF Walks
<1>8. QED
  BY <1>5, <1>6, <1>7

\* Text.Delete cuts visible items, those from the index on.
LEMMA DeleteCuts ==
  ASSUME NEW d, Sound(d), NEW l \in List, NEW index \in Nat, NEW length \in Nat
  PROVE  LET result == Delete(d, l, index, length)
         IN  Cuts(d, result) /\ Strides(live(d, l), index, length, result, Len(live(d, l)))
<1> DEFINE seq == live(d, l)
           N == Len(seq)
           S == [doc : Docs, dels : Seq(Refs(d)), pos : Nat, rem : Nat]
           a0 == [doc |-> d, dels |-> <<>>, pos |-> 0, rem |-> length]
           Turn(a, n) == Visited(a, seq[n], index)
           next == [p \in S \X Nat |-> IF p[2] < N /\ Turn(p[1], p[2] + 1) \in S
                                       THEN Turn(p[1], p[2] + 1) ELSE p[1]]
           Solves(g) == g = [n \in 0 .. N |-> IF n = 0 THEN a0 ELSE Turn(g[n - 1], n)]
           f == CHOOSE x : Solves(x)
<1>1. Delete(d, l, index, length) = f[N]
  BY DEF Loop, Delete, Visited
<1>2. N \in Nat /\ d \in Docs /\ \A n \in 1 .. N : seq[n] \in Refs(d)
  <2> DEFINE X == OfList(d, l)
  <2>1. seq \in Seq(X) /\ X \subseteq Refs(d) /\ d \in Docs
    BY chainOfList DEF OfList, Sound, Whole
  <2> HIDE DEF X, seq
  <2>2. QED
    BY <2>1, SeqElements
<1> DEFINE At(e, n) == Walks(d, e) /\ Strides(seq, index, length, e, n)
<1>3. \A m \in Nat : m + 1 <= N => \A e : At(e, m) => At(Turn(e, m + 1), m + 1)
  <2>1. ASSUME NEW m \in Nat, m + 1 <= N, NEW e, At(e, m) PROVE At(Turn(e, m + 1), m + 1)
    <3>1. m + 1 \in 1 .. N
      BY <1>2, <2>1
    <3>2. seq[m + 1] \in Refs(d)
      BY <1>2, <3>1
    <3> HIDE DEF seq
    <3>3. QED
      BY <2>1, <3>2, VisitWalks
  <2>2. QED
    BY <2>1
<1>4. \A e, n : At(e, n) => e \in S
  BY DEF Walks
<1>5. At(a0, 0)
  <2>1. a0.doc = d /\ a0.dels = <<>> /\ a0 \in S /\ a0.pos = 0 /\ a0.rem = length
    BY <1>2
  <2> HIDE DEF a0, seq
  <2>2. Cuts(d, a0)
    BY <2>1, NothingCut DEF Cuts
  <2>3. Strides(seq, index, length, a0, 0)
    <3>1. length - a0.rem = 0 /\ Len(a0.dels) = 0 /\ (0 <= index => (IF 0 <= index THEN 0 ELSE 0 - index) = 0)
      BY <2>1
    <3>2. QED
      BY <2>1, <3>1 DEF Strides
  <2>4. QED
    BY <2>1, <2>2, <2>3 DEF Walks
<1> HIDE DEF f, N, Turn, a0, S, At
<1>6. next \in [S \X Nat -> S]
  OBVIOUS
<1>7. PICK h \in [Nat -> S] : Iterates(h, a0, next)
  <2>1. a0 \in S
    BY <1>4, <1>5
  <2> HIDE DEF next
  <2>2. QED
    BY <1>6, <2>1, IterationExists
<1>8. ASSUME NEW n \in Nat, n < N, Turn(h[n], n + 1) \in S
      PROVE  h[n + 1] = Turn(h[n], n + 1)
  <2>1. h[n + 1] = next[<<h[n], n>>]
    <3> HIDE DEF next
    <3> QED BY <1>7 DEF Iterates
  <2>2. <<h[n], n>> \in S \X Nat
    OBVIOUS
  <2>3. QED
    BY <1>8, <2>1, <2>2
<1>9. h[0] = a0
  BY <1>7 DEF Iterates
<1> HIDE DEF next
<1> DEFINE Good == { n \in Nat : n <= N => At(h[n], n) }
<1>10. \A n \in Nat : n \in Good
  <2>1. 0 \in Good
    BY <1>5, <1>9
  <2>2. ASSUME NEW n \in Nat, n \in Good PROVE n + 1 \in Good
    <3>1. SUFFICES ASSUME n + 1 <= N PROVE At(h[n + 1], n + 1)
      OBVIOUS
    <3>2. At(h[n], n) /\ n < N
      BY <1>2, <2>2, <3>1
    <3>3. At(Turn(h[n], n + 1), n + 1)
      BY <1>3, <3>1, <3>2
    <3>4. h[n + 1] = Turn(h[n], n + 1)
      BY <1>4, <1>8, <3>2, <3>3
    <3>5. QED
      BY <3>3, <3>4
  <2> HIDE DEF Good
  <2>3. QED
    BY <2>1, <2>2, Induction
<1>11. \A n \in Nat : n <= N => At(h[n], n)
  BY <1>10
<1>12. \A n \in 1 .. N : h[n] = Turn(h[n - 1], n)
  <2>1. ASSUME NEW n \in 1 .. N PROVE h[n] = Turn(h[n - 1], n)
    <3>1. n - 1 \in Nat /\ n - 1 < N /\ (n - 1) + 1 = n /\ n - 1 <= N /\ (n - 1) + 1 <= N
      BY <1>2
    <3>2. At(Turn(h[n - 1], (n - 1) + 1), (n - 1) + 1)
      BY <1>3, <1>11, <3>1
    <3>3. Turn(h[n - 1], (n - 1) + 1) \in S
      BY <1>4, <3>2
    <3>4. h[(n - 1) + 1] = Turn(h[n - 1], (n - 1) + 1)
      BY <1>8, <3>1, <3>3
    <3>5. QED
      BY <3>1, <3>4
  <2>2. QED
    BY <2>1
<1>13. Solves([n \in 0 .. N |-> h[n]])
  <2> DEFINE g == [n \in 0 .. N |-> h[n]]
  <2>1. \A n \in 1 .. N : g[n - 1] = h[n - 1]
    BY <1>2
  <2>2. \A n \in 0 .. N : g[n] = IF n = 0 THEN a0 ELSE Turn(g[n - 1], n)
    BY <1>2, <1>9, <1>12, <2>1
  <2>3. QED
    BY <2>2
<1>14. Solves(f)
  <2> HIDE DEF Solves
  <2> QED BY <1>13 DEF f
<1>15. f[0] = a0 /\ \A n \in 1 .. N : f[n] = Turn(f[n - 1], n)
  <2>1. \A n \in 0 .. N : f[n] = IF n = 0 THEN a0 ELSE Turn(f[n - 1], n)
    BY <1>14
  <2>2. 0 \in 0 .. N /\ \A n \in 1 .. N : n \in 0 .. N /\ n # 0
    BY <1>2
  <2>3. QED
    BY <2>1, <2>2
<1> DEFINE Same == { n \in Nat : n <= N => f[n] = h[n] }
<1>16. \A n \in Nat : n \in Same
  <2>1. 0 \in Same
    BY <1>9, <1>15
  <2>2. ASSUME NEW n \in Nat, n \in Same PROVE n + 1 \in Same
    <3>1. SUFFICES ASSUME n + 1 <= N PROVE f[n + 1] = h[n + 1]
      OBVIOUS
    <3>2. n + 1 \in 1 .. N /\ (n + 1) - 1 = n /\ n <= N
      BY <1>2, <3>1
    <3>3. f[n] = h[n]
      BY <2>2, <3>2
    <3>4. QED
      BY <1>12, <1>15, <3>2, <3>3
  <2> HIDE DEF Same
  <2>3. QED
    BY <2>1, <2>2, Induction
<1>17. N \in Same /\ N <= N
  BY <1>2, <1>16
<1>18. At(f[N], N)
  BY <1>2, <1>11, <1>17
<1>19. QED
  BY <1>1, <1>18 DEF Walks, At, N

-----------------------------------------------------------------------------
(***************************************************************************)
(* The steps.                                                              *)
(***************************************************************************)
\* What the theorems assume: an edit types one character, of one UTF-16 code unit.
OneCharacter == InsertLen = {1} /\ WideChar = {}

\* An index is a number.
LEMMA IndexesAreNat ==
  ASSUME Inv, NEW r \in Client, NEW i \in Indexes(r)
  PROVE  i \in Nat
<1> DEFINE d == doc[r]
           n == textLen(d, Text)
<1>1. n \in Nat
  <2>1. Sound(d) /\ Text \in List
    BY SettledSound, TextAssumption DEF Inv
  <2> HIDE DEF d
  <2>2. QED
    BY <2>1, textLenNat
<1>2. Indexes(r) = 0 .. n + Slack /\ Slack \in Nat
  BY TextAssumption DEF Indexes
<1> HIDE DEF n
<1>3. QED
  BY <1>1, <1>2

\* The insertion of a character.
LEMMA TextInsertMeans ==
  ASSUME Inv, NEW r \in Client, NEW i \in Indexes(r), TextInsert(r, i, 1)
  PROVE  LET v == typed + 1
             e == Insert(doc[r], r, Text, i, <<v>>)
         IN  /\ v \in 1 .. MaxChars
             /\ Typed(doc[r], e, r, 1)
             /\ Inserts(r, e, LastRefs(doc[r], 1), 1)
<1> DEFINE d == doc[r]
           str == [k \in 1 .. 1 |-> typed + k]
           v == typed + 1
           e == Insert(d, r, Text, i, str)
           refs == IF e.panic THEN <<>> ELSE <<Len(e.heap)>>
<1>1. Sound(d) /\ Text \in List /\ i \in Nat
  BY SettledSound, TextAssumption, IndexesAreNat DEF Inv
<1>2. Inserts(r, e, refs, 1)
  BY DEF TextInsert
<1>3. typed \in Nat /\ MaxChars \in Nat /\ typed + 1 <= MaxChars
  BY <1>2, BoundAssumption DEF Inserts, Inv, Shape
<1>4. v \in 1 .. MaxChars /\ str = <<v>>
  BY <1>3
<1>5. Typed(d, e, r, 1)
  <2> HIDE DEF d, v, str
  <2>1. Typed(d, Insert(d, r, Text, i, <<v>>), r, 1)
    BY <1>1, <1>4, InsertTypes
  <2>2. QED
    BY <1>4, <2>1
<1>6. e = Insert(doc[r], r, Text, i, <<v>>)
  BY <1>4
<1> HIDE DEF e
<1>7. ~e.panic /\ Len(e.heap) = Len(d.heap) + 1 /\ Len(d.heap) \in Nat
  BY <1>1, <1>5, DocFields DEF Typed, Sound, Whole
<1>8. refs = LastRefs(doc[r], 1)
  <2> DEFINE a == Len(d.heap)
  <2>1. refs = <<a + 1>> /\ a \in Nat
    BY <1>7
  <2>2. LastRefs(doc[r], 1) = [j \in 1 .. 1 |-> a + j]
    BY DEF LastRefs
  <2> HIDE DEF a, refs
  <2>3. QED
    BY <2>1, <2>2
<1>9. QED
  BY <1>2, <1>4, <1>5, <1>6, <1>8

\* The deletion of characters.
LEMMA TextDeleteMeans ==
  ASSUME Inv, NEW r \in Client, NEW i \in Indexes(r), NEW n \in DeleteLen, TextDelete(r, i, n)
  PROVE  \E result : Cuts(doc[r], result) /\ Deletes(r, result)
<1> DEFINE d == doc[r]
<1>1. Sound(d) /\ Text \in List /\ i \in Nat /\ n \in Nat
  BY SettledSound, TextAssumption, IndexesAreNat, ReplicaAssumption DEF Inv
<1>2. Cuts(d, Delete(d, Text, i, n))
  <2> HIDE DEF d
  <2> QED BY <1>1, DeleteCuts
<1>3. Deletes(r, Delete(d, Text, i, n))
  BY DEF TextDelete
<1>4. QED
  BY <1>2, <1>3

\* The edits of the Text.
LEMMA EditsKeep ==
  ASSUME OneCharacter, Inv, NEW r \in Client, NEW i \in Indexes(r)
  PROVE  /\ TextInsert(r, i, 1) => Inv'
         /\ \A n \in DeleteLen : TextDelete(r, i, n) => Inv'
<1>1. ASSUME TextInsert(r, i, 1) PROVE Inv'
  BY <1>1, TextInsertMeans, InsertsKeep
<1>2. ASSUME NEW n \in DeleteLen, TextDelete(r, i, n) PROVE Inv'
  BY <1>2, TextDeleteMeans, DeletesKeep
<1>3. QED
  BY <1>1, <1>2

\* Every step keeps the peers consistent.
LEMMA StepInv ==
  ASSUME OneCharacter
  PROVE  Inv /\ [Next]_vars => Inv'
<1> SUFFICES ASSUME Inv, [Next]_vars PROVE Inv'
  OBVIOUS
<1>1. ASSUME NEW r \in Client, NEW n \in InsertLen, NEW i \in Indexes(r), TextInsert(r, i, n) PROVE Inv'
  <2>1. n = 1
    BY DEF OneCharacter
  <2>2. QED
    BY <1>1, <2>1, EditsKeep
<1>2. ASSUME NEW r \in Client, NEW n \in DeleteLen, NEW i \in Indexes(r), TextDelete(r, i, n) PROVE Inv'
  BY <1>2, EditsKeep
<1>3. ASSUME NEW r \in Client, Commit(r) PROVE Inv'
  BY <1>3, CommitKeeps DEF OneCharacter
<1>4. ASSUME NEW r \in Client, NEW s \in Client, NEW k \in DOMAIN announced[s], Deliver(r, s, k) PROVE Inv'
  BY <1>4, DeliverKeeps
<1>5. ASSUME NEW r \in Client, NEW s \in Client, Sync(r, s) PROVE Inv'
  BY <1>5, SyncKeeps DEF OneCharacter
<1>6. CASE UNCHANGED vars
  BY <1>6 DEF vars, Inv, Shape
<1>7. QED
  BY <1>1, <1>2, <1>3, <1>4, <1>5, <1>6 DEF Next, Exchange

\* The peers are consistent: the documents of all peers are sound and agree, every
\* update says what its peer holds, and what a peer holds and deletes is what it
\* received and edited (Transact, ApplyUpdate, Text.Insert and Text.Delete).
THEOREM TextConsistency ==
  ASSUME OneCharacter
  PROVE  Spec => []Inv
<1>1. Init => Inv
  BY InitInv
<1>2. Inv /\ [Next]_vars => Inv'
  BY StepInv
<1>3. QED
  BY <1>1, <1>2, PTL DEF Spec

-----------------------------------------------------------------------------
(***************************************************************************)
(* What the invariant says of the peers.                                   *)
(***************************************************************************)
\* Pointers stay in the heap, and every item is in the slice of its client.
THEOREM TextTypes ==
  ASSUME OneCharacter
  PROVE  Spec => []TypeOK
  BY InvTypes, TextConsistency, PTL

\* An ID names one character in all documents: two items with a common character are
\* one item or, at two peers, say the same.
THEOREM TextIds ==
  ASSUME OneCharacter
  PROVE  Spec => []IdNamesOneChar
  BY InvIds, TextConsistency, PTL

\* A peer's store is the updates it applied, whatever their order and number: what they
\* insert, and alive exactly when none of them deletes it.
THEOREM TextStore ==
  ASSUME OneCharacter
  PROVE  Spec => []StoreIsTheUpdateSet
  BY InvStore, TextConsistency, PTL

\* After an exchange of states a peer stores all that the one that answered stores.
THEOREM TextCatchesUp ==
  ASSUME OneCharacter
  PROVE  Spec => SyncCatchesUp
<1>1. Inv /\ [Next]_vars => [syncs' > syncs =>
          \A r, s \in Client : Stored(doc[s]) \subseteq Stored(doc'[r]) \/ ~Sync(r, s)]_vars
  BY InvCatchesUp DEF OneCharacter
<1>2. QED
  BY <1>1, TextConsistency, PTL DEF Spec, SyncCatchesUp

-----------------------------------------------------------------------------
(***************************************************************************)
(* A text in which nothing is deleted.                                     *)
(***************************************************************************)
\* Then all items of a list are visible.
LEMMA liveIsRow ==
  ASSUME NEW d, Sound(d), NEW l \in List, \A k \in Refs(d) : ~d.heap[k].deleted
  PROVE  live(d, l) = Row(d, l)
<1> DEFINE R == Refs(d)
           S == { r \in DOMAIN d.heap : ~d.heap[r].deleted }
           s == Row(d, l)
           t == Among(s, S)
<1>1. s \in Seq(R) /\ live(d, l) = t /\ S = R
  BY RowFollows, DocFields DEF live, Row, Sound, Whole
<1>2. PICK rank : Ranked(d, rank)
  BY DEF Sound
<1>3. \A k \in R : rank[k] \in Nat
  BY <1>2 DEF Ranked, Refs
<1>4. \A i, j \in 1 .. Len(s) : i < j => rank[s[j]] < rank[s[i]]
  <2>1. Follows(d, d.start[l], s, OfList(d, l))
    BY RowFollows
  <2>2. OfList(d, l) \subseteq Refs(d)
    BY DEF OfList
  <2>3. d \in Docs
    BY DEF Sound, Whole
  <2> HIDE DEF s
  <2>4. QED
    BY <1>2, <2>1, <2>2, <2>3, FollowsRanked
<1>5. \A i, j \in 1 .. Len(t) : i < j => rank[t[j]] < rank[t[i]]
  BY <1>1, <1>2, liveRanked
<1> HIDE DEF s, S, R
<1>6. Selects(t, s, S) /\ t \in Seq(R \cap S)
  BY <1>1, AmongIs
<1> HIDE DEF t
<1>7. t \in Seq(R)
  BY <1>1, <1>6
<1>8. (\A i \in 1 .. Len(s) : Has(t, s[i])) /\ \A i \in 1 .. Len(t) : Has(s, t[i])
  <2>1. \A i \in 1 .. Len(s) : s[i] \in S
    BY <1>1
  <2>2. QED
    BY <1>6, <2>1 DEF Selects
<1>9. s = t
  BY <1>1, <1>3, <1>4, <1>5, <1>7, <1>8, OrderOnce
<1>10. QED
  BY <1>1, <1>9 DEF s

\* Then a character is put between two neighbours of the row.
LEMMA InsertLays ==
  ASSUME NEW d, Sound(d), \A k \in Refs(d) : ~d.heap[k].deleted,
         NEW c \in Client, NEW l \in List \ Key, NEW index \in Nat, NEW v \in 1 .. MaxChars
  PROVE  \E p : Lays(d, Insert(d, c, l, index, <<v>>), c, l, p, <<v>>, 1)
<1> DEFINE refs == Row(d, l)
<1>1. Whole(d) /\ ~d.panic
  BY DEF Sound, Whole
<1>2. refs \in Seq(Refs(d)) /\ Len(refs) \in Nat
  BY RowFollows
<1>3. Insert(d, c, l, index, <<v>>) =
         LET pos == position(d, refs, index)
         IN  IF pos.doc.panic THEN pos.doc
             ELSE place(pos.doc, c, getState(d, c), l, pos.left, pos.right, <<v>>)
  BY liveIsRow DEF Insert, findPositionAt
<1> HIDE DEF refs
<1> DEFINE k == Capped(index, Len(refs))
<1>4. PICK left, right : /\ IsSlot(refs, k, left, right)
                         /\ position(d, refs, index) = [doc |-> d, left |-> left, right |-> right]
  BY <1>1, <1>2, positionBetween
<1>5. Insert(d, c, l, index, <<v>>) = place(d, c, getState(d, c), l, left, right, <<v>>)
  BY <1>1, <1>3, <1>4
<1> HIDE DEF k
<1>6. Lays(d, place(d, c, getState(d, c), l, left, right, <<v>>), c, l, k, <<v>>, 1)
  BY <1>4, placeLays DEF refs
<1>7. QED
  BY <1>5, <1>6

\* Nothing is deleted by the transactions and the updates.
Intact(T, A) ==
    \A r \in Client :
        /\ T[r].dels = <<>>
        /\ \A h \in 1 .. Len(A[r]) : DelIds(A[r][h].update) = {}

\* Until something is deleted, the row of the text has all that came in order.
Quiet ==
    /\ deletes \in Nat
    /\ deletes = 0 => /\ Intact(tx, announced)
                      /\ Arranged(doc, announced, {Text})
                      /\ Causes(doc, announced, syncs, causal)

\* And no item is deleted.
LEMMA NothingDeleted ==
  ASSUME Inv, Intact(tx, announced), Arranged(doc, announced, {Text}), NEW r \in Client
  PROVE  \A k \in Refs(doc[r]) : doc[r].heap[k].list \notin Key /\ ~doc[r].heap[k].deleted
<1> TAKE k \in Refs(doc[r])
<1>1. doc[r].heap[k].list \notin Key
  <2>1. CASE doc[r].heap[k].list = NoList
    BY <2>1, ListAssumption
  <2>2. CASE doc[r].heap[k].list # NoList
    <3>1. doc[r].heap[k].list \in {Text}
      BY <2>2, ListsEdited DEF Inv
    <3>2. QED
      BY <3>1, TextAssumption
  <2>3. QED
    BY <2>1, <2>2
<1>2. ASSUME doc[r].heap[k].deleted PROVE FALSE
  <2>1. \/ \E i \in 1 .. Len(tx[r].dels) : tx[r].dels[i] = k
        \/ \E s \in Client : \E h \in got[r][s] : doc[r].heap[k].id \in DelIds(announced[s][h].update)
    BY <1>1, <1>2 DEF Inv, Consistent, Settled, Erased
  <2>2. 1 .. Len(tx[r].dels) = {}
    BY DEF Intact
  <2>3. PICK s \in Client : \E h \in got[r][s] : doc[r].heap[k].id \in DelIds(announced[s][h].update)
    BY <2>1, <2>2
  <2>4. \A h \in got[r][s] : h \in 1 .. Len(announced[s])
    BY DEF Inv, Consistent, Settled, Received
  <2>5. QED
    BY <2>3, <2>4 DEF Intact
<1>3. QED
  BY <1>1, <1>2

LEMMA InitQuiet == Init => Quiet
<1> SUFFICES ASSUME Init PROVE Quiet
  OBVIOUS
<1>1. Intact(tx, announced)
  <2>1. \A r \in Client : tx[r].dels = <<>> /\ Len(announced[r]) = 0
    BY DEF Init, NoTx
  <2>2. QED
    BY <2>1 DEF Intact
<1>2. QED
  BY <1>1, InitArranged, InitCauses DEF Init, Quiet

\* Every step keeps it so.
LEMMA StepQuiet ==
  ASSUME OneCharacter
  PROVE  Inv /\ Quiet /\ [Next]_vars => Quiet'
<1> SUFFICES ASSUME Inv, Quiet, [Next]_vars PROVE Quiet'
  OBVIOUS
<1>1. Inv' /\ WideChar = {} /\ {Text} \subseteq List /\ deletes \in Nat
  BY StepInv, TextAssumption DEF OneCharacter, Quiet
<1>2. ASSUME NEW r \in Client, NEW n \in InsertLen, NEW i \in Indexes(r), TextInsert(r, i, n) PROVE Quiet'
  <2> DEFINE v == typed + 1
             e == Insert(doc[r], r, Text, i, <<v>>)
  <2>1. v \in 1 .. MaxChars /\ Inserts(r, e, LastRefs(doc[r], 1), 1)
    <3>1. TextInsert(r, i, 1)
      BY <1>2 DEF OneCharacter
    <3>2. QED
      BY <3>1, TextInsertMeans
  <2>2. deletes' = deletes
    BY <2>1 DEF Inserts
  <2>3. SUFFICES ASSUME deletes = 0
                 PROVE  /\ Intact(tx', announced')
                        /\ Arranged(doc', announced', {Text})
                        /\ Causes(doc', announced', syncs', causal')
    BY <1>1, <2>2 DEF Quiet
  <2>4. Intact(tx, announced) /\ Arranged(doc, announced, {Text}) /\ Causes(doc, announced, syncs, causal)
    BY <2>3 DEF Quiet
  <2>5. Edits(doc[r], e, r, {Text}, 1)
    <3> DEFINE d == doc[r]
    <3>1. Sound(d) /\ i \in Nat /\ \A k \in Refs(d) : ~d.heap[k].deleted
      BY <2>4, SettledSound, IndexesAreNat, NothingDeleted DEF Inv
    <3> HIDE DEF d, v
    <3>2. \E p : Lays(d, Insert(d, r, Text, i, <<v>>), r, Text, p, <<v>>, 1)
      BY <2>1, <3>1, TextAssumption, InsertLays
    <3>3. \E p : Lays(d, e, r, Text, p, <<v>>, 1)
      BY <3>2 DEF d
    <3> HIDE DEF e
    <3>4. Edits(d, e, r, {Text}, 1)
      BY <3>3 DEF Lays, Edits
    <3>5. QED
      BY <3>4 DEF d
  <2> HIDE DEF e, v
  <2>6. Intact(tx', announced')
    BY <2>1, <2>4, InsertsLeaves DEF Intact
  <2>7. Arranged(doc', announced', {Text})
    BY <1>1, <2>1, <2>4, <2>5, InsertsArrange
  <2>8. Causes(doc', announced', syncs', causal')
    BY <1>1, <2>1, <2>4, <2>5, InsertsCause
  <2>9. QED
    BY <2>6, <2>7, <2>8
<1>3. ASSUME NEW r \in Client, NEW n \in DeleteLen, NEW i \in Indexes(r), TextDelete(r, i, n) PROVE Quiet'
  <2>1. deletes' = deletes + 1
    BY <1>3 DEF TextDelete, Deletes
  <2>2. QED
    BY <1>1, <2>1 DEF Quiet
<1>4. ASSUME NEW r \in Client, Commit(r) PROVE Quiet'
  <2>1. deletes' = deletes
    BY <1>4 DEF Commit
  <2>2. SUFFICES ASSUME deletes = 0
                 PROVE  /\ Intact(tx', announced')
                        /\ Arranged(doc', announced', {Text})
                        /\ Causes(doc', announced', syncs', causal')
    BY <1>1, <2>1 DEF Quiet
  <2>3. Intact(tx, announced) /\ Arranged(doc, announced, {Text}) /\ Causes(doc, announced, syncs, causal)
    BY <2>2 DEF Quiet
  <2>4. Ending(tx, tx', r)
    BY <1>4 DEF Commit, EndOfTx, Inv, Shape, Ending, NoTx
  <2>5. \A q \in Client : tx'[q].dels = <<>>
    BY <2>3, <2>4 DEF Ending, Intact
  <2>6. ASSUME NEW q \in Client, NEW h \in 1 .. Len(announced'[q]) PROVE DelIds(announced'[q][h].update) = {}
    <3>1. CASE tx[r].items = <<>> /\ tx[r].dels = <<>>
      BY <1>4, <2>3, <3>1 DEF Commit, Intact
    <3>2. CASE ~(tx[r].items = <<>> /\ tx[r].dels = <<>>)
      <4>1. PICK u : Commits(r, u)
        BY <1>1, <1>4, <3>2, CommitAnnounces
      <4>2. Announcing(announced, announced', got, got', r, u) /\ Announces(doc[r], u, tx[r].items, tx[r].dels)
        BY <4>1 DEF Commits
      <4>3. CASE q # r
        BY <2>3, <4>2, <4>3 DEF Announcing, Intact
      <4>4. CASE q = r /\ h \in 1 .. Len(announced[r])
        BY <2>3, <4>2, <4>4 DEF Announcing, Intact
      <4>5. CASE q = r /\ h \notin 1 .. Len(announced[r])
        <5>1. announced'[q][h].update = u
          <6>1. h = Len(announced[r]) + 1
            BY <4>2, <4>5 DEF Announcing
          <6>2. QED
            BY <4>2, <4>5, <6>1 DEF Announcing
        <5>2. u.dels \in Seq(Ranges) /\ 1 .. Len(tx[r].dels) = {}
          BY <2>3, <4>2 DEF Announces, Intact
        <5>3. DelIds(u) \subseteq IdType
          BY <5>2, DelIdsAreIds
        <5>4. \A id \in IdType : id \notin DelIds(u)
          BY <4>2, <5>2 DEF Announces
        <5>5. QED
          BY <5>1, <5>3, <5>4
      <4>6. QED
        BY <4>3, <4>4, <4>5
    <3>3. QED
      BY <3>1, <3>2
  <2>7. Arranged(doc', announced', {Text})
    BY <1>1, <1>4, <2>3, CommitArranges
  <2>8. Causes(doc', announced', syncs', causal')
    BY <1>1, <1>4, <2>3, CommitCauses
  <2>9. QED
    BY <2>5, <2>6, <2>7, <2>8 DEF Intact
<1>5. ASSUME NEW r \in Client, NEW s \in Client, NEW k \in DOMAIN announced[s], Deliver(r, s, k) PROVE Quiet'
  <2>1. deletes' = deletes /\ tx' = tx /\ announced' = announced
    BY <1>5 DEF Deliver
  <2>2. ASSUME deletes = 0 PROVE Arranged(doc', announced', {Text}) /\ Causes(doc', announced', syncs', causal')
    BY <1>1, <1>5, <2>2, DeliverArranges, DeliverCauses DEF Quiet
  <2>3. QED
    BY <2>1, <2>2 DEF Quiet
<1>6. ASSUME NEW r \in Client, NEW s \in Client, Sync(r, s) PROVE Quiet'
  <2>1. deletes' = deletes /\ tx' = tx /\ announced' = announced
    BY <1>6 DEF Sync
  <2>2. ASSUME deletes = 0 PROVE Arranged(doc', announced', {Text}) /\ Causes(doc', announced', syncs', causal')
    BY <1>1, <1>6, <2>2, SyncArranges, SyncCauses DEF Quiet
  <2>3. QED
    BY <2>1, <2>2 DEF Quiet
<1>7. CASE UNCHANGED vars
  BY <1>7 DEF vars, Quiet
<1>8. QED
  BY <1>2, <1>3, <1>4, <1>5, <1>6, <1>7 DEF Next, Exchange

\* Where updates come in causal order and nothing is deleted, the text has every item
\* that any peer typed, each once.
THEOREM TextHasAll ==
  ASSUME OneCharacter
  PROVE  Spec => []NoItemLost
<1>1. ASSUME Inv, Quiet, causal /\ deletes = 0 /\ syncs = 0, NEW r \in Client
      PROVE  LET refs == chain(doc[r], doc[r].start[Text])
             IN  /\ IsInjective(refs)
                 /\ Range(refs) = DOMAIN doc[r].heap
  <2>1. /\ Intact(tx, announced) /\ Arranged(doc, announced, {Text})
        /\ Causes(doc, announced, syncs, causal)
    BY <1>1 DEF Quiet
  <2>2. Sound(doc[r]) /\ Ordered(doc[r]) /\ AllIn(doc[r])
    BY <1>1, <2>1, SettledSound DEF Inv, Arranged, Causes
  <2>3. \A k \in Refs(doc[r]) : doc[r].heap[k].list \in {Text}
    BY <1>1, <2>1, <2>2, ListsEdited DEF Inv, AllIn
  <2> DEFINE d == doc[r]
  <2>4. DOMAIN d.heap = Refs(d)
    BY <2>2, DocFields DEF Sound, Whole
  <2>5. { k \in DOMAIN d.heap : d.heap[k].list \notin Key } = DOMAIN d.heap
    BY <2>3, <2>4, TextAssumption
  <2> HIDE DEF d
  <2>6. IsInjective(Row(d, Text)) /\ Range(Row(d, Text)) = { k \in DOMAIN d.heap : d.heap[k].list \notin Key }
    BY <2>2, <2>3, TextAssumption, WholeRow DEF d
  <2>7. QED
    BY <2>5, <2>6 DEF Row, d
<1>2. Inv /\ Quiet => NoItemLost
  BY <1>1 DEF NoItemLost
<1>3. Spec => [](Inv /\ Quiet)
  <2>1. Init => Inv /\ Quiet
    BY InitInv, InitQuiet
  <2>2. Inv /\ Quiet /\ [Next]_vars => Inv' /\ Quiet'
    BY StepInv, StepQuiet
  <2>3. QED
    BY <2>1, <2>2, PTL DEF Spec
<1>4. QED
  BY <1>2, <1>3, PTL

-----------------------------------------------------------------------------
(***************************************************************************)
(* What the Text shows.                                                    *)
(***************************************************************************)
\* from and to are what is before and after the g elements that come after the first p.
Spans(s, p, g, from, to) ==
    /\ p \in 0 .. Len(s) /\ g \in Nat /\ p + g <= Len(s)
    /\ from = IF p = 0 THEN Nil ELSE s[p]
    /\ to = IF p + g = Len(s) THEN Nil ELSE s[p + g + 1]

\* An item that is linked over others takes their place in the row.
LEMMA LinkedOver ==
  ASSUME NEW d, Sound(d), NEW e, Sound(e), NEW x, x.list \in List, NEW from, NEW to,
         Linked(d, e, x, from, to), NEW p, NEW g, Spans(Row(d, x.list), p, g, from, to)
  PROVE  Grafted(Row(d, x.list), Row(e, x.list), p, g, Len(d.heap), 1)
<1> DEFINE l == x.list
           n == Len(d.heap) + 1
           s == Row(d, l)
           N == Len(s)
           M == N - g
           t == [i \in 1 .. M + 1 |-> IF i <= p THEN s[i] ELSE IF i = p + 1 THEN n ELSE s[i - 1 + g]]
<1>1. /\ s \in Seq(Refs(d)) /\ N \in Nat /\ (\A i \in 1 .. N : s[i] \in Refs(d))
      /\ Distinct(s) /\ Follows(d, d.start[l], s, OfList(d, l))
  BY RowFollows
<1>2. /\ Len(d.heap) \in Nat /\ Len(e.heap) = n /\ Refs(e) = Refs(d) \cup {n} /\ n # Nil
      /\ Refs(d) \subseteq Refs(e) /\ Len(d.heap) + 1 = n
  <2>1. Len(d.heap) \in Nat /\ Len(e.heap) = n
    BY DocFields DEF Sound, Whole, Linked, Grows
  <2>2. QED
    BY <2>1 DEF Refs, Nil
<1>3. /\ e.heap[n].right = to
      /\ \A k \in Refs(d) : e.heap[k].right = IF k = from THEN n ELSE d.heap[k].right
      /\ \A m \in List : e.start[m] = IF from = Nil /\ m = l THEN n ELSE d.start[m]
  BY DEF Linked
<1>4. /\ p \in 0 .. N /\ p \in Nat /\ g \in Nat /\ p + g <= N
      /\ from = IF p = 0 THEN Nil ELSE s[p]
      /\ to = IF p + g = N THEN Nil ELSE s[p + g + 1]
  BY <1>1 DEF Spans
<1> HIDE DEF n
<1>5. M \in Nat /\ p <= M /\ N = M + g /\ (p + g = N <=> p = M)
  <2>1. N \in Nat /\ p \in Nat /\ g \in Nat /\ p + g <= N
    BY <1>1, <1>4
  <2> HIDE DEF N
  <2>2. QED
    BY <2>1
<1>6. /\ \A i \in 1 .. N - 1 : d.heap[s[i]].right = s[i + 1]
      /\ N > 0 => d.heap[s[N]].right = Nil /\ d.start[l] = s[1]
  <2>1. /\ \A i \in 1 .. N - 1 : d.heap[s[i]].right = s[i + 1]
        /\ N > 0 => d.heap[s[N]].right = Nil
    BY <1>1 DEF Follows
  <2>2. N > 0 => s # <<>>
    OBVIOUS
  <2>3. N > 0 => d.start[l] = s[1]
    BY <1>1, <2>2 DEF Follows
  <2>4. QED
    BY <2>1, <2>3
<1>7. \A i \in 1 .. N : s[i] = from <=> i = p
  <2>1. \A i \in 1 .. N : s[i] # Nil
    BY <1>1, NilIsNoRef
  <2>2. p # 0 => p \in 1 .. N
    BY <1>1, <1>4
  <2> HIDE DEF s
  <2>3. QED
    BY <1>1, <1>4, <2>1, <2>2 DEF Distinct
<1> HIDE DEF s, N, M
<1>8. /\ \A i \in 1 .. N : i # p => e.heap[s[i]].right = d.heap[s[i]].right
      /\ p # 0 => e.heap[s[p]].right = n
  <2>1. p # 0 => p \in 1 .. N
    BY <1>1, <1>4
  <2>2. QED
    BY <1>1, <1>3, <1>7, <2>1
<1>9. /\ DOMAIN t = 1 .. M + 1 /\ t[p + 1] = n
      /\ \A i \in 1 .. p : t[i] = s[i]
      /\ \A i \in p + 1 .. M : t[i + 1] = s[i + g]
  <2>1. t[p + 1] = n /\ \A i \in 1 .. p : t[i] = s[i]
    BY <1>4, <1>5
  <2>2. ASSUME NEW i \in p + 1 .. M PROVE t[i + 1] = s[i + g]
    <3>1. i + 1 \in 1 .. M + 1 /\ ~(i + 1 <= p) /\ i + 1 # p + 1 /\ i + 1 - 1 + g = i + g
      BY <1>4, <1>5
    <3>2. QED
      BY <3>1
  <2>3. QED
    BY <2>1, <2>2
<1>10. Len(t) = M + 1 /\ t \in Seq(Refs(e))
  <2>1. ASSUME NEW i \in 1 .. M + 1 PROVE t[i] \in Refs(e)
    <3>1. CASE i <= p
      <4>1. i \in 1 .. p /\ i \in 1 .. N
        BY <1>1, <1>4, <3>1
      <4>2. QED
        BY <1>1, <1>2, <1>9, <4>1
    <3>2. CASE i = p + 1
      BY <1>2, <1>9, <3>2
    <3>3. CASE ~(i <= p) /\ i # p + 1
      <4> DEFINE j == i - 1
      <4>1. j \in p + 1 .. M /\ j + 1 = i /\ j + g \in 1 .. N
        BY <1>4, <1>5, <3>3
      <4> HIDE DEF j
      <4>2. t[i] = s[j + g]
        BY <1>9, <4>1
      <4>3. QED
        BY <1>1, <1>2, <4>1, <4>2
    <3>4. QED
      BY <3>1, <3>2, <3>3
  <2> DEFINE R == Refs(e)
  <2>2. t \in [1 .. M + 1 -> R] /\ M + 1 \in Nat
    BY <1>5, <2>1
  <2> HIDE DEF t, R
  <2>3. t \in Seq(R) /\ Len(t) = M + 1
    BY <2>2
  <2>4. QED
    BY <2>3 DEF R
<1> HIDE DEF t
<1>11. Follows(e, e.start[l], t, Refs(e))
  <2>1. e.start[l] # Nil /\ t[1] = e.start[l]
    <3>1. CASE p = 0
      <4>1. from = Nil /\ e.start[l] = n /\ t[1] = n
        BY <1>3, <1>4, <1>9, <3>1
      <4>2. QED
        BY <1>2, <4>1
    <3>2. CASE p # 0
      <4>1. 1 \in 1 .. p /\ N > 0 /\ p \in 1 .. N /\ 1 \in 1 .. N
        BY <1>1, <1>4, <3>2
      <4>2. from # Nil
        BY <1>1, <1>4, <3>2, <4>1, NilIsNoRef
      <4>3. e.start[l] = s[1] /\ s[1] # Nil /\ t[1] = s[1]
        BY <1>1, <1>3, <1>6, <1>9, <4>1, <4>2, NilIsNoRef
      <4>4. QED
        BY <4>3
    <3>3. QED
      BY <3>1, <3>2
  <2>2. ASSUME NEW i \in 1 .. M PROVE e.heap[t[i]].right = t[i + 1]
    <3>1. CASE i < p
      <4>1. i \in 1 .. p /\ i + 1 \in 1 .. p /\ i \in 1 .. N - 1 /\ i \in 1 .. N /\ i # p
        BY <1>1, <1>4, <3>1
      <4>2. t[i] = s[i] /\ t[i + 1] = s[i + 1]
        BY <1>9, <4>1
      <4>3. QED
        BY <1>6, <1>8, <4>1, <4>2
    <3>2. CASE i = p
      <4>1. i \in 1 .. p /\ p # 0
        BY <3>2
      <4>2. t[i] = s[p]
        BY <1>9, <3>2, <4>1
      <4>3. QED
        BY <1>8, <1>9, <3>2, <4>1, <4>2
    <3>3. CASE i = p + 1
      <4>1. i \in p + 1 .. M /\ p # M /\ i + g = p + g + 1
        BY <1>4, <1>5, <3>3
      <4>2. t[i + 1] = s[p + g + 1] /\ t[i] = n /\ to = s[p + g + 1]
        BY <1>4, <1>5, <1>9, <3>3, <4>1
      <4>3. QED
        BY <1>3, <4>2
    <3>4. CASE i > p + 1
      <4> DEFINE j == i - 1
                 k == j + g
      <4>1. /\ j \in p + 1 .. M /\ i \in p + 1 .. M /\ j + 1 = i
            /\ k \in 1 .. N - 1 /\ k \in 1 .. N /\ k # p /\ i + g = k + 1
        BY <1>4, <1>5, <3>4
      <4>2. t[j + 1] = s[k] /\ t[i + 1] = s[i + g]
        BY <1>9, <4>1
      <4> HIDE DEF j, k
      <4>3. e.heap[s[k]].right = s[k + 1]
        BY <1>6, <1>8, <4>1
      <4>4. QED
        BY <4>1, <4>2, <4>3
    <3>5. QED
      BY <1>4, <1>5, <3>1, <3>2, <3>3, <3>4
  <2>3. e.heap[t[M + 1]].right = Nil
    <3>1. CASE p = M
      BY <1>3, <1>4, <1>5, <1>9, <3>1
    <3>2. CASE p # M
      <4>1. M \in p + 1 .. M /\ N \in 1 .. N /\ N > 0 /\ N # p /\ M + g = N
        BY <1>4, <1>5, <3>2
      <4>2. t[M + 1] = s[N]
        BY <1>9, <4>1
      <4>3. e.heap[s[N]].right = Nil
        BY <1>6, <1>8, <4>1
      <4>4. QED
        BY <4>2, <4>3
    <3>3. QED
      BY <3>1, <3>2
  <2>4. Len(t) > 0 /\ Len(t) - 1 = M
    BY <1>5, <1>10
  <2>5. QED
    BY <1>10, <2>1, <2>2, <2>3, <2>4 DEF Follows
<1>12. t = Row(e, l)
  BY <1>11, RowOnce
<1>13. Grafted(s, t, p, g, Len(d.heap), 1)
  <2> DEFINE a == Len(d.heap)
  <2>1. Len(t) = N - g + 1 /\ p \in 0 .. N
    BY <1>4, <1>5, <1>10
  <2>2. \A i \in 1 .. 1 : t[p + i] = a + i
    BY <1>2, <1>9
  <2>3. ASSUME NEW i \in p + g + 1 .. N PROVE t[i - g + 1] = s[i]
    <3> DEFINE j == i - g
    <3>1. j \in p + 1 .. M /\ j + g = i
      BY <1>4, <1>5
    <3> HIDE DEF j
    <3>2. t[j + 1] = s[i]
      BY <1>9, <3>1
    <3>3. QED
      BY <3>2 DEF j
  <2> HIDE DEF a
  <2>4. Grafted(s, t, p, g, a, 1)
    BY <1>4, <1>9, <2>1, <2>2, <2>3 DEF Grafted, N
  <2>5. QED
    BY <2>4 DEF a
<1>14. QED
  BY <1>12, <1>13 DEF s

\* The items on the two sides of a place among the visible items stand in the row on the
\* two sides of some that are deleted.
LEMMA LiveSpans ==
  ASSUME NEW d, Sound(d), NEW l \in List, NEW k, NEW left, NEW right, IsSlot(live(d, l), k, left, right)
  PROVE  \E p, g : Spans(Row(d, l), p, g, left, right) /\ Gap(d, l, p, g, k)
<1> DEFINE r == Row(d, l)
           s == live(d, l)
           K == Len(s)
           N == Len(r)
<1>1. K \in Nat /\ N \in Nat /\ k \in 0 .. K
  BY RowFollows, visibleCounts DEF IsSlot
<1>2. PICK q : Picks(r, s, q, Alive(d))
  BY liveIs
<1>3. /\ \A i \in 1 .. K : q[i] \in 1 .. N /\ s[i] = r[q[i]]
      /\ \A i, j \in 1 .. K : i < j => q[i] < q[j]
  BY <1>2 DEF Picks
<1>4. (left = IF k = 0 THEN Nil ELSE s[k]) /\ (right = IF k = K THEN Nil ELSE s[k + 1])
  BY DEF IsSlot
<1> HIDE DEF r, s, K, N
<1> DEFINE p == IF k = 0 THEN 0 ELSE q[k]
           b == IF k = K THEN N + 1 ELSE q[k + 1]
           g == b - p - 1
<1>5. (k # 0 => k \in 1 .. K) /\ (k # K => k + 1 \in 1 .. K /\ k < k + 1)
  BY <1>1
<1>6. /\ p \in 0 .. N /\ b \in 1 .. N + 1 /\ p < b
       /\ (k = 0 <=> p = 0) /\ (k = K <=> b = N + 1)
  BY <1>1, <1>3, <1>5
<1>7. \A i \in 1 .. K : IF i <= k THEN q[i] <= p ELSE b <= q[i]
  <2>1. ASSUME NEW i \in 1 .. K, i <= k PROVE q[i] <= p
    <3>1. k # 0 /\ k \in 1 .. K
      BY <1>1, <1>5, <2>1
    <3>2. i = k \/ i < k
      BY <1>1, <2>1
    <3>3. q[i] \in 1 .. N /\ (q[i] = q[k] \/ q[i] < q[k]) /\ q[k] \in 1 .. N
      BY <1>3, <2>1, <3>1, <3>2
    <3>4. QED
      BY <3>1, <3>3
  <2>2. ASSUME NEW i \in 1 .. K, ~(i <= k) PROVE b <= q[i]
    <3>1. k # K /\ k + 1 \in 1 .. K
      BY <1>1, <1>5, <2>2
    <3>2. i = k + 1 \/ k + 1 < i
      BY <1>1, <2>2
    <3>3. q[i] \in 1 .. N /\ (q[i] = q[k + 1] \/ q[k + 1] < q[i]) /\ q[k + 1] \in 1 .. N
      BY <1>3, <2>2, <3>1, <3>2
    <3>4. QED
      BY <3>1, <3>3
  <2>3. QED
    BY <2>1, <2>2
<1>8. (left = IF p = 0 THEN Nil ELSE r[p]) /\ (right = IF b = N + 1 THEN Nil ELSE r[b])
  BY <1>3, <1>4, <1>5, <1>6
<1> HIDE DEF p, b
<1>9. g \in Nat /\ p + g + 1 = b /\ p + g <= N /\ (p + g = N <=> b = N + 1)
  BY <1>1, <1>6
<1> HIDE DEF g
<1>10. Spans(r, p, g, left, right)
  BY <1>6, <1>8, <1>9 DEF Spans, N
<1>11. Gap(d, l, p, g, k)
  <2>1. \A i \in 1 .. K : IF i <= k THEN q[i] <= p ELSE p + g < q[i]
    <3>1. ASSUME NEW i \in 1 .. K, b <= q[i] PROVE p + g < q[i]
      <4>1. q[i] \in Int /\ p + g \in Int
        BY <1>3, <1>6, <1>9
      <4>2. QED
        BY <1>9, <3>1, <4>1
    <3>2. QED
      BY <1>7, <3>1
  <2>2. Parted(s, q, p, g, k)
    BY <1>1, <2>1 DEF Parted, K
  <2>3. QED
    BY <1>2, <2>2 DEF Gap, r, s
<1>12. QED
  BY <1>10, <1>11 DEF r

\* The new character is shown at the index, or at the end where that is beyond.
LEMMA InsertShows ==
  ASSUME NEW d, Sound(d), NEW c \in Client, NEW l \in List, NEW index \in Nat, NEW u \in 1 .. MaxChars,
         NEW v, v = visible(d, l)
  PROVE  visible(Insert(d, c, l, index, <<u>>), l) = PutAt(v, Capped(index, Len(v)), <<u>>)
<1> DEFINE e == Insert(d, c, l, index, <<u>>)
           s == live(d, l)
           K == Len(s)
           k == Capped(index, K)
<1>1. Typed(d, e, c, 1) /\ \E left, right : IsSlot(s, k, left, right) /\ Laid(d, e, c, l, left, right, u)
  BY InsertTypes
<1> HIDE DEF e
<1>2. PICK left, right : IsSlot(s, k, left, right) /\ Laid(d, e, c, l, left, right, u)
  BY <1>1
<1>3. PICK x : /\ Fits(d, x)
               /\ x.str = <<u>> /\ x.list = l /\ ~x.deleted
               /\ Linked(d, e, x, left, right)
  BY <1>2 DEF Laid
<1>4. Sound(e) /\ Len(d.heap) \in Nat /\ Len(e.heap) = Len(d.heap) + 1
  BY <1>1, DocFields DEF Typed, Sound, Whole
<1>5. Len(v) = K /\ \E p, g : Spans(Row(d, l), p, g, left, right) /\ Gap(d, l, p, g, k)
  BY <1>2, visibleCounts, LiveSpans
<1>6. PICK p, g : Spans(Row(d, l), p, g, left, right) /\ Gap(d, l, p, g, k)
  BY <1>5
<1>7. Grafted(Row(d, l), Row(e, l), p, g, Len(d.heap), 1)
  BY <1>3, <1>4, <1>6, LinkedOver
<1>8. Grafts(d, e, l, p, g, <<u>>, 1)
  <2> DEFINE n == Len(d.heap) + 1
  <2>1. /\ \A j \in Refs(d) : e.heap[j].str = d.heap[j].str /\ e.heap[j].deleted = d.heap[j].deleted
        /\ e.heap[n].str = <<u>> /\ ~e.heap[n].deleted
    BY <1>3 DEF Linked, Grows, SameItem
  <2>2. \A i \in 1 .. 1 : i = 1 /\ << <<u>>[i] >> = <<u>>
    OBVIOUS
  <2>3. Spares(d, e, 1)
    BY <2>1, <2>2 DEF Spares
  <2>4. \A i \in 1 .. 1 : e.heap[Len(d.heap) + i].str = << <<u>>[i] >>
    BY <2>1, <2>2
  <2> HIDE DEF n
  <2>5. QED
    BY <1>4, <1>7, <2>1, <2>3, <2>4 DEF Grafts
<1>9. visible(e, l) = PutAt(visible(d, l), k, <<u>>)
  <2> DEFINE m == <<u>>
  <2>1. m \in Seq(1 .. MaxChars)
    OBVIOUS
  <2>2. Grafts(d, e, l, p, g, m, Len(m))
    BY <1>8
  <2> HIDE DEF m
  <2>3. \A at : Gap(d, l, p, g, at) => visible(e, l) = PutAt(visible(d, l), at, m)
    BY <2>1, <2>2, GraftsShow
  <2>4. QED
    BY <1>6, <2>3 DEF m
<1>10. k = Capped(index, Len(v))
  BY <1>5 DEF k
<1>11. QED
  BY <1>9, <1>10 DEF e

\* What is deleted is shown from the index on, as many characters as there are.
LEMMA DeleteShows ==
  ASSUME NEW d, Sound(d), NEW l \in List, NEW index \in Nat, NEW length \in Nat, NEW v, v = visible(d, l)
  PROVE  visible(Delete(d, l, index, length).doc, l) = CutOut(v, Capped(index, Len(v)), index + length)
<1> DEFINE result == Delete(d, l, index, length)
           s == live(d, l)
           K == Len(s)
           c == length - result.rem
           at == Capped(index, K)
<1>1. Cuts(d, result) /\ Strides(s, index, length, result, K)
  BY DeleteCuts
<1>2. Len(v) = K /\ K \in Nat
  BY visibleCounts
<1> HIDE DEF result, s
<1>3. /\ c \in Nat /\ Len(result.dels) = c
      /\ \A i \in 1 .. c : result.dels[i] = s[index + i]
      /\ IF result.rem = 0 THEN c = 0 \/ index + c <= K
         ELSE c = IF K <= index THEN 0 ELSE K - index
  BY <1>1 DEF Strides
<1> HIDE DEF c, K
<1>4. result.rem \in Nat /\ (result.rem = 0 => c = length) /\ (result.rem # 0 => c < length)
  BY <1>1, <1>3 DEF Strides, c
<1>5. at \in Nat /\ at + c = Capped(index + length, K) /\ (c = 0 \/ at = index)
  <2>1. CASE K <= index
    <3>1. at = K /\ Capped(index + length, K) = K
      BY <1>2, <2>1 DEF Capped
    <3>2. c = 0
      <4>1. CASE result.rem = 0
        BY <1>2, <1>3, <2>1, <4>1
      <4>2. CASE result.rem # 0
        BY <1>3, <2>1, <4>2
      <4>3. QED
        BY <4>1, <4>2
    <3>3. QED
      BY <1>2, <3>1, <3>2
  <2>2. CASE ~(K <= index)
    <3>1. at = index /\ index < K
      BY <1>2, <2>2 DEF Capped
    <3>2. index + c = Capped(index + length, K)
      <4>1. CASE result.rem = 0
        <5>1. c = length /\ index + c <= K
          BY <1>2, <1>3, <1>4, <3>1, <4>1
        <5>2. QED
          BY <1>2, <5>1 DEF Capped
      <4>2. CASE result.rem # 0
        <5>1. c = K - index /\ c < length
          BY <1>3, <1>4, <2>2, <4>2
        <5>2. index + c = K /\ ~(index + length < K)
          BY <1>2, <5>1
        <5>3. QED
          BY <5>2 DEF Capped
      <4>3. QED
        BY <4>1, <4>2
    <3>3. QED
      BY <3>1, <3>2
  <2>3. QED
    BY <2>1, <2>2
<1> HIDE DEF at
<1>6. Takes(result.dels, s, at, c)
  <2>1. ASSUME NEW k PROVE (\E i \in 1 .. c : result.dels[i] = k) <=> (\E i \in at + 1 .. at + c : s[i] = k)
    <3>1. CASE c = 0
      BY <1>5, <3>1
    <3>2. CASE at = index
      <4>1. \A i \in 1 .. c : index + i \in at + 1 .. at + c /\ result.dels[i] = s[index + i]
        BY <1>3, <1>5, <3>2
      <4>2. \A i \in at + 1 .. at + c : i - index \in 1 .. c /\ index + (i - index) = i
        BY <1>3, <1>5, <3>2
      <4>3. QED
        BY <4>1, <4>2
    <3>3. QED
      BY <1>5, <3>1, <3>2
  <2>2. QED
    BY <1>3, <2>1 DEF Takes
<1>7. at = Capped(index, Len(v)) /\ at + c = Capped(index + length, Len(v))
  BY <1>2, <1>5 DEF at
<1>8. visible(result.doc, l) = CutOut(v, at, index + length)
  <2>1. Takes(result.dels, live(d, l), at, c)
    BY <1>6 DEF s
  <2>2. QED
    BY <1>1, <1>3, <1>7, <2>1, CutsShowUpTo
<1>9. QED
  BY <1>7, <1>8 DEF result

\* What the edits of the Text make of what it shows.
LEMMA EditsShow ==
  ASSUME Inv, NEW r \in Client, NEW i \in Indexes(r),
         NEW v, v = visible(doc[r], Text), NEW w, w = visible(doc'[r], Text)
  PROVE  /\ TextInsert(r, i, 1) =>
               typed + 1 \in 1 .. MaxChars /\ w = PutAt(v, Capped(i, Len(v)), <<typed + 1>>)
         /\ \A n \in DeleteLen : TextDelete(r, i, n) => w = CutOut(v, Capped(i, Len(v)), i + n)
<1> DEFINE d == doc[r]
<1>1. Sound(d) /\ Text \in List /\ i \in Nat /\ DOMAIN doc = Client
  BY SettledSound, TextAssumption, IndexesAreNat DEF Inv, Shape
<1>2. v = visible(d, Text)
  OBVIOUS
<1>3. ASSUME TextInsert(r, i, 1)
      PROVE  typed + 1 \in 1 .. MaxChars /\ w = PutAt(v, Capped(i, Len(v)), <<typed + 1>>)
  <2> DEFINE u == typed + 1
             e == Insert(d, r, Text, i, <<u>>)
  <2>1. u \in 1 .. MaxChars /\ Inserts(r, e, LastRefs(doc[r], 1), 1)
    BY <1>3, TextInsertMeans
  <2>2. doc'[r] = e
    BY <1>1, <2>1 DEF Inserts
  <2> HIDE DEF d, u
  <2>3. visible(e, Text) = PutAt(v, Capped(i, Len(v)), <<u>>)
    BY <1>1, <1>2, <2>1, InsertShows
  <2> HIDE DEF e
  <2>4. w = PutAt(v, Capped(i, Len(v)), <<u>>)
    BY <2>2, <2>3
  <2>5. QED
    BY <2>1, <2>4 DEF u
<1>4. ASSUME NEW n \in DeleteLen, TextDelete(r, i, n) PROVE w = CutOut(v, Capped(i, Len(v)), i + n)
  <2> DEFINE result == Delete(d, Text, i, n)
  <2>1. n \in Nat
    BY ReplicaAssumption
  <2>2. doc'[r] = result.doc
    BY <1>1, <1>4 DEF TextDelete, Deletes
  <2> HIDE DEF d
  <2>3. \A x : x = visible(d, Text) =>
           visible(result.doc, Text) = CutOut(x, Capped(i, Len(x)), i + n)
    BY <1>1, <2>1, DeleteShows
  <2> HIDE DEF result
  <2>4. QED
    BY <1>2, <2>2, <2>3
<1>5. QED
  BY <1>3, <1>4

\* Every index of every edit of the Text means the visible character at it, whatever the
\* items that are deleted or came from other peers.
THEOREM TextEdits ==
  ASSUME OneCharacter
  PROVE  Spec => EditsHitTheirIndex
<1>1. ASSUME Inv, NEW r \in Client, NEW i \in Indexes(r)
      PROVE  /\ \A n \in InsertLen : TextInsert(r, i, n) =>
                   Buffer(r)!InsertAt(i, [k \in 1 .. n |-> typed + k])
             /\ \A n \in DeleteLen : TextDelete(r, i, n) => Buffer(r)!CutAt(i, n)
  <2> DEFINE v == visible(doc[r], Text)
             w == visible(doc'[r], Text)
  <2>1. ASSUME NEW n \in InsertLen, TextInsert(r, i, n)
        PROVE  Buffer(r)!InsertAt(i, [k \in 1 .. n |-> typed + k])
    <3>1. TextInsert(r, i, 1) /\ n = 1
      BY <2>1 DEF OneCharacter
    <3>2. w = PutAt(v, Capped(i, Len(v)), <<typed + 1>>)
      BY <1>1, <3>1, EditsShow
    <3>3. [k \in 1 .. n |-> typed + k] = <<typed + 1>>
      BY <3>1
    <3>4. Buffer(r)!InsertAt(i, <<typed + 1>>)
      BY <3>2 DEF Buffer!InsertAt, Buffer!Least, PutAt, Capped, TextOf
    <3>5. QED
      BY <3>3, <3>4
  <2>2. ASSUME NEW n \in DeleteLen, TextDelete(r, i, n) PROVE Buffer(r)!CutAt(i, n)
    <3>1. w = CutOut(v, Capped(i, Len(v)), i + n)
      BY <1>1, <2>2, EditsShow
    <3>2. QED
      BY <3>1 DEF Buffer!CutAt, Buffer!Least, CutOut, Capped, TextOf
  <2>3. QED
    BY <2>1, <2>2
<1>2. Inv =>
         [\A r \in Client : \A i \in Indexes(r) :
             /\ \A n \in InsertLen : TextInsert(r, i, n) =>
                   Buffer(r)!InsertAt(i, [k \in 1 .. n |-> typed + k])
             /\ \A n \in DeleteLen : TextDelete(r, i, n) => Buffer(r)!CutAt(i, n)]_vars
  BY <1>1
<1>3. QED
  BY <1>2, TextConsistency, PTL DEF EditsHitTheirIndex

\* Text.Len counts what Text.String returns, and no item is empty.
THEOREM TextLength ==
  ASSUME OneCharacter
  PROVE  Spec => []LenIsTheText
<1>1. ASSUME Inv, NEW r \in Client
      PROVE  /\ textLen(doc[r], Text) = Len(TextOf(r))
             /\ \A k \in DOMAIN doc[r].heap : doc[r].heap[k].len > 0
  <2> DEFINE d == doc[r]
  <2>1. Sound(d) /\ Text \in List
    BY <1>1, SettledSound, TextAssumption DEF Inv
  <2>2. TextOf(r) = visible(d, Text)
    BY DEF TextOf
  <2> HIDE DEF d
  <2>3. textLen(d, Text) = Len(visible(d, Text))
    BY <2>1, textLenCounts, visibleCounts
  <2>4. DOMAIN d.heap = Refs(d) /\ \A k \in Refs(d) : d.heap[k].len > 0
    BY <2>1, DocFields DEF Sound, Whole
  <2>5. QED
    BY <2>2, <2>3, <2>4 DEF d
<1>2. Inv => LenIsTheText
  BY <1>1 DEF LenIsTheText
<1>3. QED
  BY <1>2, TextConsistency, PTL

-----------------------------------------------------------------------------
(***************************************************************************)
(* A Text that has no other peer implements StringBuffer.                  *)
(***************************************************************************)
\* An empty document shows nothing.
LEMMA EmptyShows ==
  ASSUME NEW l \in List
  PROVE  visible(EmptyDoc, l) = <<>>
<1> DEFINE d == EmptyDoc
           s == live(d, l)
           v == visible(d, l)
           R == Refs(d)
<1>1. Sound(d) /\ R = {}
  BY EmptySound
<1> HIDE DEF d
<1>2. s \in Seq(R)
  BY <1>1, liveIs
<1>3. v \in Seq(1 .. MaxChars) /\ Len(v) = Len(s) /\ Len(s) \in Nat
  BY <1>1, visibleCounts
<1> HIDE DEF s, v, R
<1>4. Len(s) = 0
  <2>1. \A k \in 1 .. Len(s) : s[k] \in R
    BY <1>2, SeqElements
  <2>2. QED
    BY <1>1, <1>3, <2>1
<1>5. v = <<>>
  BY <1>3, <1>4
<1>6. QED
  BY <1>5 DEF v, d

\* What is put in is the part of the string at its place.
LEMMA PutAtShows ==
  ASSUME NEW E, NEW v \in Seq(E), NEW u \in E, NEW k \in 0 .. Len(v), NEW w, w = PutAt(v, k, <<u>>)
  PROVE  Len(w) = Len(v) + 1 /\ SubSeq(w, k + 1, k + 1) = <<u>>
<1> DEFINE K == Len(v)
           a == SubSeq(v, 1, k)
           m == <<u>>
           b == SubSeq(v, k + 1, K)
<1>1. K \in Nat /\ \A j \in 1 .. K : v[j] \in E
  BY SeqElements
<1>2. k \in Nat /\ k <= K
  BY <1>1
<1>3. a \in Seq(E) /\ Len(a) = k
  <2> HIDE DEF K
  <2>1. /\ 1 \in Int /\ k \in Int /\ \A j \in 1 .. k : v[j] \in E
    BY <1>1, <1>2
  <2>2. QED
    BY <1>2, <2>1, SubSeqProperties
<1>4. b \in Seq(E) /\ Len(b) = K - k
  <2> HIDE DEF K
  <2>1. /\ k + 1 \in Int /\ K \in Int /\ \A j \in k + 1 .. K : v[j] \in E
    BY <1>1, <1>2
  <2>2. b \in Seq(E) /\ Len(b) = IF k + 1 <= K THEN K - (k + 1) + 1 ELSE 0
    BY <2>1, SubSeqProperties
  <2>3. QED
    BY <1>1, <1>2, <2>2
<1>5. m \in Seq(E) /\ Len(m) = 1 /\ m[1] = u
  OBVIOUS
<1>6. w = a \o m \o b
  BY DEF PutAt
<1> HIDE DEF a, b, m, K
<1> DEFINE c == a \o m
<1>7. c \in Seq(E) /\ Len(c) = k + 1 /\ c[k + 1] = u
  <2>1. c \in Seq(E) /\ Len(c) = Len(a) + Len(m)
        /\ \A i \in 1 .. Len(a) + Len(m) : c[i] = IF i <= Len(a) THEN a[i] ELSE m[i - Len(a)]
    BY <1>3, <1>5, ConcatProperties
  <2> HIDE DEF c
  <2>2. k + 1 \in 1 .. Len(a) + Len(m) /\ ~(k + 1 <= Len(a)) /\ k + 1 - Len(a) = 1
    BY <1>2, <1>3, <1>5
  <2>3. QED
    BY <1>2, <1>3, <1>5, <2>1, <2>2
<1>8. w = c \o b
  BY <1>6
<1> HIDE DEF c
<1>9. w \in Seq(E) /\ Len(w) = K + 1 /\ w[k + 1] = u
  <2>1. c \o b \in Seq(E) /\ Len(c \o b) = Len(c) + Len(b)
        /\ \A i \in 1 .. Len(c) + Len(b) : (c \o b)[i] = IF i <= Len(c) THEN c[i] ELSE b[i - Len(c)]
    BY <1>4, <1>7, ConcatProperties
  <2>2. k + 1 \in 1 .. Len(c) + Len(b) /\ k + 1 <= Len(c) /\ Len(c) + Len(b) = K + 1
    BY <1>1, <1>2, <1>4, <1>7
  <2>3. QED
    BY <1>7, <1>8, <2>1, <2>2
<1>10. SubSeq(w, k + 1, k + 1) = <<u>>
  <2>1. k + 1 \in Int /\ k + 1 <= k + 1 /\ \A j \in k + 1 .. k + 1 : j = k + 1 /\ w[j] \in E
    BY <1>2, <1>9
  <2> DEFINE n == k + 1
             t == SubSeq(w, n, n)
  <2>2. t \in Seq(E) /\ Len(t) = 1 /\ t[1] = w[n]
    <3>1. n \in Int /\ \A j \in n .. n : w[j] \in E
      BY <2>1
    <3> HIDE DEF n
    <3>2. /\ t \in Seq(E) /\ Len(t) = IF n <= n THEN n - n + 1 ELSE 0
          /\ \A j \in 1 .. n - n + 1 : t[j] = w[n + j - 1]
      BY <3>1, SubSeqProperties
    <3> HIDE DEF t
    <3>3. QED
      BY <3>1, <3>2
  <2> HIDE DEF t
  <2>3. t = <<u>>
    BY <1>9, <2>2
  <2>4. QED
    BY <2>3 DEF t
<1>11. QED
  BY <1>9, <1>10 DEF K

\* w comes of v by one splice of up to M elements.
OneSplice(v, w, M) ==
    \E m \in 1 .. M : /\ Len(w) = Len(v) + m
                      /\ \E k \in 0 .. Len(v) : w = PutAt(v, k, SubSeq(w, k + 1, k + m))

\* w comes of v by one cut of up to M elements, which stops at the end of v.
OneCut(v, w, M) == \E k \in 0 .. Len(v), m \in 1 .. M : w = CutOut(v, k, k + m)

\* An edit at an index beyond the end is an edit at the end.
LEMMA BufferStep ==
  ASSUME NEW M \in Nat, NEW n \in 1 .. M, NEW i \in Nat, NEW v \in Seq(1 .. MaxChars), NEW w
  PROVE  /\ \A u \in 1 .. MaxChars : w = PutAt(v, Capped(i, Len(v)), <<u>>) => OneSplice(v, w, M)
         /\ w = CutOut(v, Capped(i, Len(v)), i + n) => OneCut(v, w, M)
<1> DEFINE K == Len(v)
           at == Capped(i, K)
<1>1. K \in Nat /\ at \in 0 .. K /\ n \in Nat /\ 1 <= n /\ 1 \in 1 .. M
  BY DEF Capped
<1>2. ASSUME NEW u \in 1 .. MaxChars, w = PutAt(v, at, <<u>>) PROVE OneSplice(v, w, M)
  <2>1. Len(w) = K + 1 /\ SubSeq(w, at + 1, at + 1) = <<u>>
    BY <1>1, <1>2, PutAtShows
  <2> HIDE DEF K, at
  <2>2. w = PutAt(v, at, SubSeq(w, at + 1, at + 1))
    BY <1>2, <2>1
  <2>3. \E k \in 0 .. K : w = PutAt(v, k, SubSeq(w, k + 1, k + 1))
    BY <1>1, <2>2
  <2>4. QED
    BY <1>1, <2>1, <2>3 DEF OneSplice, K
<1>3. ASSUME w = CutOut(v, at, i + n) PROVE OneCut(v, w, M)
  <2>1. w = CutOut(v, at, at + n)
    <3>1. CASE i < K
      BY <1>3, <3>1 DEF Capped
    <3>2. CASE ~(i < K)
      <4>1. at = K
        BY <3>2 DEF Capped
      <4> HIDE DEF K, at
      <4>2. /\ i + n + 1 \in Int /\ K \in Int /\ K < i + n + 1
            /\ at + n + 1 \in Int /\ K < at + n + 1
        BY <1>1, <3>2, <4>1
      <4>3. SubSeq(v, i + n + 1, K) = <<>> /\ SubSeq(v, at + n + 1, K) = <<>>
        BY <4>2, SubSeqEmpty
      <4>4. QED
        BY <1>3, <4>3 DEF CutOut, K
    <3>3. QED
      BY <3>1, <3>2
  <2> HIDE DEF K, at
  <2>2. QED
    BY <1>1, <2>1 DEF OneCut, K
<1>4. QED
  BY <1>2, <1>3

\* A Text that nobody else edits is a string buffer: whatever its user types and deletes,
\* wherever, and however the transactions end, what Text.String returns changes only as one
\* splice or one cut of a string would change it.
THEOREM TextBuffer ==
  ASSUME OneCharacter, IsFiniteSet(DeleteLen), Client = {Peer}
  PROVE  Spec => ImplementsBuffer
<1> DEFINE S == InsertLen \cup DeleteLen
           M == Max(S)
<1>1. M \in Nat /\ 1 \in 1 .. M /\ \A n \in DeleteLen : n \in 1 .. M
  <2>1. S = {1} \cup DeleteLen /\ DeleteLen \subseteq Nat \ {0}
    BY ReplicaAssumption DEF OneCharacter
  <2>2. IsFiniteSet({1}) /\ IsFiniteSet(DeleteLen)
    BY FS_Singleton
  <2>3. IsFiniteSet({1} \cup DeleteLen)
    BY <2>2, FS_Union
  <2> HIDE DEF S
  <2>4. S \subseteq Nat /\ S # {} /\ IsFiniteSet(S)
    BY <2>1, <2>3
  <2>5. M \in S /\ \A n \in S : n <= M
    BY <2>4, GreatestOf
  <2> HIDE DEF M
  <2>6. QED
    BY <2>1, <2>5
<1>2. Peer \in Client /\ \A r \in Client : r = Peer
  OBVIOUS
<1>3. Init => PeersBuffer!Init
  <2>1. SUFFICES ASSUME Init PROVE TextOf(Peer) = <<>>
    BY DEF PeersBuffer!Init
  <2>2. doc[Peer] = EmptyDoc
    BY <1>2, <2>1 DEF Init
  <2>3. QED
    BY <2>2, TextAssumption, EmptyShows DEF TextOf
<1>4. Inv /\ [Next]_vars => [PeersBuffer!Next]_(TextOf(Peer))
  <2>1. SUFFICES ASSUME Inv, [Next]_vars PROVE [PeersBuffer!Next]_(TextOf(Peer))
    OBVIOUS
  <2> DEFINE v == visible(doc[Peer], Text)
             w == visible(doc'[Peer], Text)
  <2>2. Sound(doc[Peer]) /\ Text \in List
    BY <1>2, <2>1, SettledSound, TextAssumption DEF Inv
  <2>3. v \in Seq(1 .. MaxChars)
    BY <2>2, visibleCounts
  <2>4. TextOf(Peer) = v /\ TextOf(Peer)' = w
    BY DEF TextOf
  <2>5. ASSUME NEW i \in Indexes(Peer), TextInsert(Peer, i, 1) PROVE PeersBuffer!Next
    <3>1. i \in Nat
      BY <1>2, <2>1, IndexesAreNat
    <3>2. typed + 1 \in 1 .. MaxChars /\ w = PutAt(v, Capped(i, Len(v)), <<typed + 1>>)
      BY <1>2, <2>1, <2>5, EditsShow
    <3> HIDE DEF v, w, M
    <3>3. OneSplice(v, w, M)
      BY <1>1, <2>3, <3>1, <3>2, BufferStep
    <3>4. PeersBuffer!Splice
      <4>1. PICK m \in 1 .. M, k \in 0 .. Len(v) :
               Len(w) = Len(v) + m /\ w = PutAt(v, k, SubSeq(w, k + 1, k + m))
        BY <3>3 DEF OneSplice
      <4>2. PeersBuffer!Least(k, Len(v)) = k
        BY <2>3 DEF PeersBuffer!Least
      <4>3. PeersBuffer!InsertAt(k, SubSeq(w, k + 1, k + m))
        BY <2>4, <4>1, <4>2 DEF PeersBuffer!InsertAt, PutAt
      <4>4. QED
        BY <2>4, <4>1, <4>3 DEF PeersBuffer!Splice, M
    <3>5. QED
      BY <3>4 DEF PeersBuffer!Next
  <2>6. ASSUME NEW i \in Indexes(Peer), NEW n \in DeleteLen, TextDelete(Peer, i, n) PROVE PeersBuffer!Next
    <3>1. i \in Nat /\ n \in 1 .. M
      BY <1>1, <1>2, <2>1, IndexesAreNat
    <3>2. w = CutOut(v, Capped(i, Len(v)), i + n)
      BY <1>2, <2>1, <2>6, EditsShow
    <3> HIDE DEF v, w, M
    <3>3. OneCut(v, w, M)
      BY <1>1, <2>3, <3>1, <3>2, BufferStep
    <3>4. PICK k \in 0 .. Len(v), m \in 1 .. M : w = CutOut(v, k, k + m)
      BY <3>3 DEF OneCut
    <3>5. PeersBuffer!Least(k, Len(v)) = k
      BY <2>3 DEF PeersBuffer!Least
    <3>6. PeersBuffer!CutAt(k, m)
      BY <2>4, <3>4, <3>5 DEF PeersBuffer!CutAt, CutOut
    <3>7. QED
      BY <2>4, <3>4, <3>6 DEF PeersBuffer!Next, PeersBuffer!Cut, M
  <2>7. ASSUME doc' = doc PROVE TextOf(Peer)' = TextOf(Peer)
    BY <2>4, <2>7
  <2>8. ASSUME NEW r \in Client, Commit(r) PROVE doc' = doc
    BY <2>8 DEF Commit
  <2>9. ASSUME NEW r \in Client, NEW s \in Client PROVE /\ ~Sync(r, s)
                                                       /\ \A k \in DOMAIN announced[s] : ~Deliver(r, s, k)
    BY <1>2 DEF Sync, Deliver, HandOver
  <2>10. CASE UNCHANGED vars
    BY <2>7, <2>10 DEF vars
  <2>11. CASE Next
    <3>1. CASE \E r \in Client, n \in InsertLen : \E i \in Indexes(r) : TextInsert(r, i, n)
      BY <1>2, <2>5, <3>1 DEF OneCharacter
    <3>2. CASE \E r \in Client, n \in DeleteLen : \E i \in Indexes(r) : TextDelete(r, i, n)
      BY <1>2, <2>6, <3>2
    <3>3. CASE Exchange
      BY <2>7, <2>8, <2>9, <3>3 DEF Exchange
    <3>4. QED
      BY <2>11, <3>1, <3>2, <3>3 DEF Next
  <2>12. QED
    BY <2>1, <2>10, <2>11
<1>5. QED
  BY <1>3, <1>4, TextConsistency, PTL DEF Spec, ImplementsBuffer, PeersBuffer!Spec

-----------------------------------------------------------------------------
(***************************************************************************)
(* One writer and its viewers.  Where no other peer types, the origins     *)
(* alone say in which order the items of the writer stand: each comes      *)
(* right after its origin, before all that was there.  Every peer has them *)
(* in that order, and what it shows are the letters of those it has and    *)
(* has not deleted.                                                        *)
(***************************************************************************)
\* The item of w with the clock c, where W is the document of w.
Letter(W, w, c) == W.heap[RefOf(W, [client |-> w, clock |-> c])]

\* spot gives the clocks of w places on a line: an item is right after its origin, and
\* before all the items with lower clocks that are after that.
Weaves(spot, W, w) ==
    /\ spot \in [Nat -> Nat]
    /\ \A c \in 0 .. Len(W.store[w]) - 1 : \A a \in 0 .. c - 1 :
          LET o == Letter(W, w, c).oleft
          IN  IF o = NoID \/ spot[o.clock] < spot[a] THEN spot[c] < spot[a] ELSE spot[a] < spot[c]

\* All the items are items of w in the text.
Solely(d, w) ==
    \A k \in Refs(d) :
        LET it == d.heap[k]
        IN  /\ it.id.client = w /\ it.list = Text
            /\ it.oleft # NoID => it.oleft.client = w /\ it.oleft.clock < it.id.clock

\* The items of s come in the order of their places.
Ascends(spot, d, s) ==
    \A i, j \in 1 .. Len(s) : i < j => spot[d.heap[s[i]].id.clock] < spot[d.heap[s[j]].id.clock]

\* The row is in order and has all that is not deleted.
Lined(spot, d) == Ascends(spot, d, Row(d, Text)) /\ \A k \in Alive(d) : Has(Row(d, Text), k)

\* The row has all the items, and an item comes from the item before it in the row or from
\* one with a lower clock: remote integration stops at the first candidate.
Tidy(d) ==
    LET s == Row(d, Text)
    IN  /\ \A k \in Refs(d) : Has(s, k)
        /\ Len(s) > 0 => d.heap[s[1]].oleft = NoID
        /\ \A i \in 1 .. Len(s) - 1 : originClock(d.heap[s[i + 1]]) <= d.heap[s[i]].id.clock + 1

\* A document that only takes in what w types.
Viewer(spot, d, w) == Sound(d) /\ Solely(d, w) /\ Lined(spot, d) /\ Tidy(d)

\* A remote item that w typed.
Brings(W, w, it) ==
    /\ Wire(it)
    /\ it.id.client = w /\ it.id.clock < Len(W.store[w])
    /\ it.oleft = Letter(W, w, it.id.clock).oleft
    /\ IF it.oleft = NoID THEN it.list = Text ELSE it.oleft.client = w /\ it.oleft.clock < it.id.clock

\* A row in order with an item put in its place.
LEMMA AscendsGrafted ==
  ASSUME NEW spot \in [Nat -> Nat], NEW e, NEW E, NEW s \in Seq(E), Ascends(spot, e, s),
         \A k \in E : e.heap[k].id.clock \in Nat,
         NEW t, NEW p, NEW g, NEW a, Grafted(s, t, p, g, a, 1), e.heap[a + 1].id.clock \in Nat,
         \A i \in 1 .. p : spot[e.heap[s[i]].id.clock] < spot[e.heap[a + 1].id.clock],
         \A i \in p + g + 1 .. Len(s) : spot[e.heap[a + 1].id.clock] < spot[e.heap[s[i]].id.clock]
  PROVE  Ascends(spot, e, t)
<1> DEFINE N == Len(s)
           At(k) == spot[e.heap[k].id.clock]
           M == N - g
<1>1. /\ N \in Nat /\ p \in 0 .. N /\ g \in Nat /\ p + g <= N /\ Len(t) = M + 1
      /\ \A i \in 1 .. p : t[i] = s[i]
      /\ t[p + 1] = a + 1
      /\ \A i \in p + g + 1 .. N : t[i - g + 1] = s[i]
  BY DEF Grafted
<1>2. /\ \A i, j \in 1 .. N : i < j => At(s[i]) < At(s[j])
      /\ \A i \in 1 .. p : At(s[i]) < At(a + 1)
      /\ \A i \in p + g + 1 .. N : At(a + 1) < At(s[i])
  BY DEF Ascends
<1>3. /\ \A i \in 1 .. N : At(s[i]) \in Nat
      /\ At(a + 1) \in Nat
  <2>1. \A i \in 1 .. N : s[i] \in E
    BY SeqElements
  <2>2. QED
    BY <2>1
<1> HIDE DEF At, N
<1>4. \A i \in p + 2 .. M + 1 : i + g - 1 \in p + g + 1 .. N /\ t[i] = s[i + g - 1]
  <2> TAKE i \in p + 2 .. M + 1
  <2>1. i + g - 1 \in p + g + 1 .. N /\ (i + g - 1) - g + 1 = i
    BY <1>1
  <2>2. QED
    BY <1>1, <2>1
<1>5. ASSUME NEW i \in 1 .. M + 1, NEW j \in 1 .. M + 1, i < j PROVE At(t[i]) < At(t[j])
  <2>0. p \in Nat /\ M \in Nat /\ p <= M /\ N \in Nat /\ p <= N /\ g \in Nat
        /\ i \in Nat /\ j \in Nat /\ 1 <= i /\ 1 <= j /\ N = M + g
    BY <1>1
  <2> HIDE DEF M
  <2>1. CASE j <= p
    <3>1. i \in 1 .. p /\ j \in 1 .. p /\ i \in 1 .. N /\ j \in 1 .. N
      BY <1>1, <1>5, <2>0, <2>1
    <3>2. QED
      BY <1>1, <1>2, <1>5, <3>1
  <2>2. CASE j = p + 1
    <3>1. i \in 1 .. p
      BY <1>5, <2>0, <2>2
    <3>2. QED
      BY <1>1, <1>2, <2>2, <3>1
  <2>3. CASE j > p + 1
    <3>1. j \in p + 2 .. M + 1
      BY <2>0, <2>3
    <3>2. j + g - 1 \in p + g + 1 .. N /\ t[j] = s[j + g - 1]
      BY <1>4, <3>1
    <3> j + g - 1 \in 1 .. N
      BY <2>0, <3>2
    <3>3. CASE i <= p
      <4>1. i \in 1 .. p /\ i \in 1 .. N /\ i < j + g - 1
        BY <2>0, <2>3, <3>3
      <4>2. QED
        BY <1>1, <1>2, <3>2, <4>1
    <3>4. CASE i = p + 1
      BY <1>1, <1>2, <3>2, <3>4
    <3>5. CASE i > p + 1
      <4>1. i \in p + 2 .. M + 1
        BY <2>0, <3>5
      <4>2. i + g - 1 \in p + g + 1 .. N /\ t[i] = s[i + g - 1]
        BY <1>4, <4>1
      <4>3. i + g - 1 \in 1 .. N /\ i + g - 1 < j + g - 1
        BY <1>5, <2>0, <4>2
      <4>4. QED
        BY <1>2, <3>2, <4>2, <4>3
    <3>6. QED
      BY <2>0, <3>3, <3>4, <3>5
  <2>4. j <= p \/ j = p + 1 \/ j > p + 1
    BY <2>0
  <2>5. QED
    BY <2>1, <2>2, <2>3, <2>4
<1>6. QED
  BY <1>1, <1>5 DEF Ascends, At

\* e is d with x, right after its origin, which is the item b of the row.
PutsAfter(d, e, x, b) ==
    /\ Fits(d, x) /\ x.list = Text /\ Grows(d, e, x)
    /\ PutIn(Row(d, Text), Row(e, Text), b, Len(d.heap) + 1)
    /\ IF b = 0 THEN x.oleft = NoID ELSE x.oleft # NoID /\ x.oleft = d.heap[Row(d, Text)[b]].id

\* In the document of a viewer a remote item comes right after its origin: it is before the
\* first candidate (integrateItem, lssIsBefore).
LEMMA PutsRight ==
  ASSUME NEW w \in Client, NEW W, NEW spot, NEW d, Viewer(spot, d, w),
         NEW it, Brings(W, w, it), NEW e, Sound(e), NEW x, Puts(d, e, it, x)
  PROVE  x.id = it.id /\ x.oleft = it.oleft /\ \E b : PutsAfter(d, e, x, b)
<1> DEFINE left == OriginRef(d, it.oleft)
           s == Row(d, Text)
           N == Len(s)
<1>1. /\ Sound(d) /\ Whole(d) /\ d \in Docs /\ Text \in List /\ Text # NoList
      /\ Len(d.store[w]) \in Nat
  <2>1. Sound(d) /\ Whole(d) /\ d \in Docs
    BY DEF Viewer, Sound, Whole
  <2>2. QED
    BY <2>1, DocFields, TextAssumption, ListAssumption
<1>2. /\ Fits(d, x) /\ x.id = it.id /\ x.oleft = it.oleft
      /\ x.list = IF left = Nil THEN it.list ELSE d.heap[left].list
      /\ x.list # NoList => left \in {Nil} \cup OfList(d, x.list) /\ Queued(d, e, it, x, left)
  BY DEF Puts
<1>3. /\ it.id.client = w /\ it.id.clock = Len(d.store[w]) /\ it.id \in IdType
      /\ it \in ItemType
  <2>1. x.id.clock = Len(d.store[x.id.client]) /\ x \in ItemType
    BY <1>2 DEF Fits
  <2>2. QED
    BY <1>2, <2>1, ItemFields DEF Brings, Wire
<1>4. IF it.oleft = NoID THEN left = Nil /\ it.list = Text
      ELSE left \in Refs(d) /\ d.heap[left].id = it.oleft
  <2>1. CASE it.oleft = NoID
    BY <2>1 DEF OriginRef, Brings
  <2>2. CASE it.oleft # NoID
    <3>1. it.oleft \in IdType /\ it.oleft.client = w /\ it.oleft.clock < Len(d.store[w])
      BY <1>3, <2>2, ItemFields DEF Brings
    <3>2. Held(d, it.oleft)
      BY <3>1 DEF Held
    <3>3. QED
      BY <1>1, <2>2, <3>1, <3>2, getItemFinds DEF OriginRef
  <2>3. QED
    BY <2>1, <2>2
<1>5. x.list = Text /\ (left = Nil <=> it.oleft = NoID)
  <2>1. it.oleft # NoID => left # Nil
    BY <1>4, NilIsNoRef
  <2>2. it.oleft # NoID => d.heap[left].list = Text
    BY <1>4 DEF Viewer, Solely
  <2>3. QED
    BY <1>2, <1>4, <2>1, <2>2
<1>6. PICK first, cands, at, prev, from, to :
        /\ first = IF left = Nil THEN d.start[Text] ELSE d.heap[left].right
        /\ Follows(d, first, cands, OfList(d, Text))
        /\ at \in 0 .. Len(cands)
        /\ \A i \in 1 .. Len(cands) : at = 0 \/ i < at => ~lssIsBefore(it, d.heap[cands[i]])
        /\ Slot(cands, left, at, prev, from, to)
        /\ Linked(d, e, x, from, to)
  BY <1>1, <1>2, <1>5 DEF Queued
<1>7. left # Nil => Has(s, left)
  BY <1>4, <1>5 DEF Viewer, Tidy
<1>8. PICK b : Rest(d, Text, left, cands, b)
  BY <1>1, <1>6, <1>7, FollowsRest
<1>9. /\ N \in Nat /\ b \in 0 .. N /\ (b = 0 <=> left = Nil) /\ (b > 0 => s[b] = left)
      /\ Len(cands) = N - b /\ (\A i \in 1 .. Len(cands) : cands[i] = s[b + i])
      /\ \A i \in 1 .. N : s[i] \in Refs(d)
  BY <1>1, <1>8, RowFollows DEF Rest
<1> HIDE DEF left
<1>10. ASSUME Len(cands) > 0 PROVE lssIsBefore(it, d.heap[cands[1]])
  <2> DEFINE o == d.heap[cands[1]]
  <2>1. cands[1] = s[b + 1] /\ b + 1 \in 1 .. N /\ cands[1] \in Refs(d)
    BY <1>9, <1>10
  <2>2. o.id \in IdType /\ o.id.client = w /\ o.id.clock < Len(d.store[w]) /\ o.oleft \in IdType \cup {NoID}
    <3>1. o \in ItemType
      BY <1>1, <2>1, DocFields
    <3>2. o.id.client = w
      BY <2>1 DEF Viewer, Solely
    <3>3. o.id.clock < Len(d.store[o.id.client])
      BY <1>1, <2>1 DEF Whole
    <3>4. QED
      BY <3>1, <3>2, <3>3, ItemFields
  <2>3. compareIDs(it.id, o.id)
    BY <1>1, <1>3, <2>2 DEF compareIDs, IdType
  <2>4. /\ originClock(it) \in Nat /\ originClock(o) \in Nat
        /\ originClock(o) <= originClock(it)
    <3>1. originClock(o) \in Nat
      BY <2>2 DEF originClock, IdType
    <3>2. CASE left = Nil
      <4>1. b = 0 /\ N > 0 /\ cands[1] = s[1] /\ it.oleft = NoID
        BY <1>5, <1>9, <1>10, <2>1, <3>2
      <4>2. o.oleft = NoID
        BY <4>1 DEF Viewer, Tidy
      <4>3. QED
        BY <4>1, <4>2 DEF originClock
    <3>3. CASE left # Nil
      <4>1. b \in 1 .. N - 1 /\ s[b] = left /\ it.oleft # NoID
        BY <1>5, <1>9, <2>1, <3>3
      <4>2. d.heap[left].id = it.oleft /\ it.oleft \in IdType
        BY <1>3, <1>4, <4>1, ItemFields
      <4>3. originClock(it) = d.heap[left].id.clock + 1 /\ originClock(it) \in Nat
        BY <4>1, <4>2 DEF originClock, IdType
      <4>4. originClock(o) <= d.heap[left].id.clock + 1
        BY <2>1, <4>1 DEF Viewer, Tidy
      <4>5. QED
        BY <3>1, <4>3, <4>4
    <3>4. QED
      BY <3>2, <3>3
  <2>5. originClock(it) # originClock(o) => originClock(it) > originClock(o)
    BY <2>4
  <2>6. QED
    BY <2>3, <2>5 DEF lssIsBefore
<1>11. prev = 0
  <2>1. CASE Len(cands) > 0
    <3>1. 1 \in 1 .. Len(cands) /\ lssIsBefore(it, d.heap[cands[1]])
      BY <1>9, <1>10, <2>1
    <3>2. ~(at = 0 \/ 1 < at)
      BY <1>6, <3>1
    <3>3. at = 1
      BY <1>6, <1>9, <3>2
    <3>4. QED
      BY <1>6, <3>3 DEF Slot
  <2>2. CASE ~(Len(cands) > 0)
    <3>1. at = 0 /\ Len(cands) = 0
      BY <1>6, <1>9, <2>2
    <3>2. QED
      BY <1>6, <3>1 DEF Slot
  <2>3. QED
    BY <2>1, <2>2
<1>12. IsSlot(s, b, from, to)
  <2>1. IsSlot(s, b + prev, from, to)
    BY <1>1, <1>6, <1>8, SlotOfRest
  <2>2. b + prev = b
    BY <1>9, <1>11
  <2>3. QED
    BY <2>1, <2>2
<1>13. PutIn(s, Row(e, Text), b, Len(d.heap) + 1)
  BY <1>1, <1>5, <1>6, <1>12, LinkedRow
<1>14. Grows(d, e, x)
  BY <1>6 DEF Linked
<1>15. IF b = 0 THEN x.oleft = NoID ELSE x.oleft # NoID /\ x.oleft = d.heap[s[b]].id
  BY <1>2, <1>4, <1>5, <1>9
<1>16. PutsAfter(d, e, x, b)
  BY <1>2, <1>5, <1>13, <1>14, <1>15 DEF PutsAfter
<1>17. QED
  BY <1>2, <1>16

\* It stays a viewer's document.
LEMMA ViewerTakes ==
  ASSUME NEW w \in Client, NEW W, Sound(W), NEW spot, Weaves(spot, W, w), NEW d, Viewer(spot, d, w),
         NEW it, Brings(W, w, it), NEW e, Sound(e), NEW x, Puts(d, e, it, x)
  PROVE  Viewer(spot, e, w)
<1>1. PICK b : PutsAfter(d, e, x, b)
  BY PutsRight
<1>2. x.id = it.id /\ x.oleft = it.oleft
  BY PutsRight
<1> DEFINE s == Row(d, Text)
           t == Row(e, Text)
           N == Len(s)
           n == Len(d.heap) + 1
           m == Len(d.store[w])
<1>3. /\ Sound(d) /\ Whole(d) /\ Text \in List /\ m \in Nat
      /\ \A k \in Refs(d) : /\ d.heap[k].id \in IdType /\ d.heap[k].id.clock \in Nat
                            /\ d.heap[k].oleft \in IdType \cup {NoID} /\ d.heap[k].id.clock < m
  <2>1. Sound(d) /\ Whole(d) /\ d \in Docs /\ Text \in List
    BY TextAssumption DEF Viewer, Sound, Whole
  <2>2. ASSUME NEW k \in Refs(d)
        PROVE  /\ d.heap[k].id \in IdType /\ d.heap[k].id.clock \in Nat
               /\ d.heap[k].oleft \in IdType \cup {NoID} /\ d.heap[k].id.clock < m
    <3>1. d.heap[k].id.client = w /\ d.heap[k].id.clock < Len(d.store[d.heap[k].id.client])
      BY <2>1 DEF Viewer, Solely, Whole
    <3>2. QED
      BY <2>1, <3>1, DocFields, ItemFields
  <2>3. QED
    BY <2>1, <2>2, DocFields
<1>4. /\ s \in Seq(Refs(d)) /\ N \in Nat /\ (\A i \in 1 .. N : s[i] \in Refs(d)) /\ t \in Seq(Refs(e))
  BY <1>3, RowFollows
<1>5. /\ Refs(e) = Refs(d) \cup {n} /\ n \notin Refs(d)
      /\ \A k \in Refs(d) : /\ e.heap[k].id = d.heap[k].id /\ e.heap[k].oleft = d.heap[k].oleft
                            /\ e.heap[k].list = d.heap[k].list
      /\ e.heap[n].id = x.id /\ e.heap[n].oleft = x.oleft /\ e.heap[n].list = Text
  <2>1. /\ Len(e.heap) = n /\ SameItem(e.heap[n], x) /\ x.list = Text
        /\ \A k \in Refs(d) : SameItem(e.heap[k], d.heap[k])
    BY <1>1 DEF PutsAfter, Grows
  <2>2. Len(d.heap) \in Nat
    BY <1>3, DocFields DEF Whole
  <2>3. QED
    BY <2>1, <2>2 DEF Refs, SameItem
<1>6. /\ x.id.client = w /\ x.id.clock = m
      /\ x.oleft # NoID => x.oleft.client = w /\ x.oleft.clock < m /\ x.oleft.clock \in Nat
      /\ x.oleft = Letter(W, w, m).oleft
      /\ m \in 0 .. Len(W.store[w]) - 1
      /\ x.oleft \in IdType \cup {NoID}
  <2>1. x.id.client = w /\ x.id.clock = Len(d.store[x.id.client]) /\ x \in ItemType
    BY <1>1, <1>2 DEF PutsAfter, Fits, Brings
  <2>2. x.oleft \in IdType \cup {NoID}
    BY <2>1, ItemFields
  <2>3. m < Len(W.store[w]) /\ x.oleft = Letter(W, w, m).oleft
        /\ (x.oleft # NoID => x.oleft.client = w /\ x.oleft.clock < m)
    BY <1>2, <2>1 DEF Brings
  <2>4. Len(W.store[w]) \in Nat
    BY DocFields DEF Sound, Whole
  <2>5. QED
    BY <1>3, <2>1, <2>2, <2>3, <2>4 DEF IdType
<1>7. /\ PutIn(s, t, b, n) /\ b \in 0 .. N /\ Len(t) = N + 1 /\ t[b + 1] = n
      /\ (\A i \in 1 .. b : t[i] = s[i]) /\ (\A i \in b + 1 .. N : t[i + 1] = s[i])
      /\ IF b = 0 THEN x.oleft = NoID ELSE x.oleft # NoID /\ x.oleft = d.heap[s[b]].id
  BY <1>1 DEF PutsAfter, PutIn
<1> HIDE DEF s, t, N, n, m
<1>8. Solely(e, w)
  <2>1. ASSUME NEW k \in Refs(e)
        PROVE  LET y == e.heap[k]
               IN  /\ y.id.client = w /\ y.list = Text
                   /\ y.oleft # NoID => y.oleft.client = w /\ y.oleft.clock < y.id.clock
    <3>1. CASE k \in Refs(d)
      BY <1>5, <3>1 DEF Viewer, Solely
    <3>2. CASE k = n
      BY <1>5, <1>6, <3>2
    <3>3. QED
      BY <1>5, <3>1, <3>2
  <2>2. QED
    BY <2>1 DEF Solely
<1>9. ASSUME NEW k \in Refs(e) PROVE Has(t, k)
  <2>1. s \in Seq(Refs(e))
    BY <1>4, <1>5
  <2>2. Has(t, n) /\ \A j : Has(s, j) => Has(t, j)
    <3>1. Widens(s, t) /\ Has(t, n)
      BY <1>4, <1>7, <2>1, PutInKeeps
    <3>2. QED
      BY <1>4, <2>1, <3>1, WidensLeads
  <2>3. k \in Refs(d) => Has(s, k)
    BY DEF Viewer, Tidy, s
  <2>4. QED
    BY <1>5, <2>2, <2>3
<1>10. Tidy(e)
  <2>1. e.heap[t[1]].oleft = NoID
    <3>1. CASE b = 0
      BY <1>5, <1>7, <3>1
    <3>2. CASE b # 0
      <4>1. 1 \in 1 .. b /\ N > 0 /\ 1 \in 1 .. N
        BY <1>4, <1>7, <3>2
      <4>2. d.heap[s[1]].oleft = NoID
        BY <4>1 DEF Viewer, Tidy, s, N
      <4>3. QED
        BY <1>4, <1>5, <1>7, <4>1, <4>2
    <3>3. QED
      BY <3>1, <3>2
  <2>2. ASSUME NEW i \in 1 .. N PROVE originClock(e.heap[t[i + 1]]) <= e.heap[t[i]].id.clock + 1
    <3>1. CASE i < b
      <4>1. i \in 1 .. b /\ i + 1 \in 1 .. b /\ i \in 1 .. N - 1 /\ i + 1 \in 1 .. N
        BY <1>4, <1>7, <3>1
      <4>2. originClock(d.heap[s[i + 1]]) <= d.heap[s[i]].id.clock + 1
        BY <4>1 DEF Viewer, Tidy, s, N
      <4>3. QED
        BY <1>4, <1>5, <1>7, <4>1, <4>2 DEF originClock
    <3>2. CASE i = b
      <4>1. b # 0 /\ t[i + 1] = n /\ t[i] = s[b] /\ s[b] \in Refs(d)
        BY <1>4, <1>7, <3>2
      <4>2. originClock(e.heap[n]) = d.heap[s[b]].id.clock + 1
        BY <1>5, <1>7, <4>1 DEF originClock
      <4>3. QED
        BY <1>3, <1>5, <4>1, <4>2
    <3>3. CASE i = b + 1
      <4>1. i \in b + 1 .. N /\ t[i + 1] = s[i] /\ s[i] \in Refs(d) /\ t[i] = n
        BY <1>4, <1>7, <3>3
      <4>2. originClock(d.heap[s[i]]) <= d.heap[s[i]].id.clock /\ originClock(d.heap[s[i]]) \in Nat
        <5>1. d.heap[s[i]].oleft # NoID => d.heap[s[i]].oleft.clock < d.heap[s[i]].id.clock
          BY <4>1 DEF Viewer, Solely
        <5>2. d.heap[s[i]].oleft # NoID => d.heap[s[i]].oleft.clock \in Nat
          BY <1>3, <4>1 DEF IdType
        <5>3. QED
          BY <1>3, <4>1, <5>1, <5>2 DEF originClock
      <4>3. originClock(e.heap[t[i + 1]]) = originClock(d.heap[s[i]])
        BY <1>5, <4>1 DEF originClock
      <4>4. e.heap[t[i]].id.clock = m /\ d.heap[s[i]].id.clock < m /\ d.heap[s[i]].id.clock \in Nat
        BY <1>3, <1>5, <1>6, <4>1
      <4>5. QED
        BY <1>3, <4>2, <4>3, <4>4
    <3>4. CASE i > b + 1
      <4>1. i - 1 \in b + 1 .. N /\ i \in b + 1 .. N /\ i - 1 \in 1 .. N - 1 /\ (i - 1) + 1 = i
        BY <1>4, <1>7, <3>4
      <4>2. t[i] = s[i - 1] /\ s[i - 1] \in Refs(d) /\ t[i + 1] = s[i] /\ s[i] \in Refs(d)
        BY <1>4, <1>7, <4>1
      <4>3. originClock(d.heap[s[i]]) <= d.heap[s[i - 1]].id.clock + 1
        BY <4>1 DEF Viewer, Tidy, s, N
      <4>4. QED
        BY <1>5, <4>2, <4>3 DEF originClock
    <3>5. QED
      BY <1>4, <1>7, <3>1, <3>2, <3>3, <3>4
  <2>3. QED
    BY <1>4, <1>7, <1>9, <2>1, <2>2 DEF Tidy, t
<1>11. /\ spot \in [Nat -> Nat] /\ Ascends(spot, d, s)
       /\ \A a \in 0 .. m - 1 : IF x.oleft = NoID \/ spot[x.oleft.clock] < spot[a]
                                THEN spot[m] < spot[a] ELSE spot[a] < spot[m]
  BY <1>6 DEF Weaves, Viewer, Lined, s
<1>12. Ascends(spot, e, t)
  <2>1. Ascends(spot, e, s)
    BY <1>4, <1>5, <1>11 DEF Ascends, N
  <2>2. Grafted(s, t, b, 0, Len(d.heap), 1)
    <3>1. \A i \in 1 .. 1 : t[b + i] = Len(d.heap) + i
      BY <1>7 DEF n
    <3>2. b + 0 = b /\ N - 0 + 1 = N + 1 /\ \A i \in b + 1 .. N : i - 0 + 1 = i + 1
      BY <1>4, <1>7
    <3>3. QED
      BY <1>4, <1>7, <3>1, <3>2 DEF Grafted, N
  <2>3. \A k \in Refs(d) : e.heap[k].id.clock \in Nat /\ e.heap[k].id.clock \in 0 .. m - 1
    BY <1>3, <1>5
  <2>4. e.heap[n].id.clock = m
    BY <1>5, <1>6
  <2>5. ASSUME NEW i \in 1 .. b PROVE spot[e.heap[s[i]].id.clock] < spot[m]
    <3>1. b # 0 /\ i \in 1 .. N /\ b \in 1 .. N /\ s[i] \in Refs(d) /\ s[b] \in Refs(d)
      BY <1>4, <1>7
    <3>2. x.oleft # NoID /\ x.oleft.clock = e.heap[s[b]].id.clock
      BY <1>5, <1>7, <3>1
    <3>3. i = b \/ spot[e.heap[s[i]].id.clock] < spot[e.heap[s[b]].id.clock]
      BY <1>7, <2>1, <3>1 DEF Ascends, N
    <3>4. ~(spot[x.oleft.clock] < spot[e.heap[s[i]].id.clock])
      BY <1>11, <2>3, <3>1, <3>2, <3>3
    <3>5. QED
      BY <1>11, <2>3, <3>1, <3>2, <3>4
  <2>6. ASSUME NEW i \in b + 1 .. N PROVE spot[m] < spot[e.heap[s[i]].id.clock]
    <3>1. i \in 1 .. N /\ s[i] \in Refs(d)
      BY <1>4, <1>7
    <3>2. CASE b = 0
      BY <1>7, <1>11, <2>3, <3>1, <3>2
    <3>3. CASE b # 0
      <4>1. b \in 1 .. N /\ s[b] \in Refs(d) /\ b < i
        BY <1>4, <1>7, <3>3
      <4>2. x.oleft.clock = e.heap[s[b]].id.clock
        BY <1>5, <1>7, <3>3, <4>1
      <4>3. spot[x.oleft.clock] < spot[e.heap[s[i]].id.clock]
        BY <2>1, <3>1, <4>1, <4>2 DEF Ascends, N
      <4>4. QED
        BY <1>11, <2>3, <3>1, <4>3
    <3>4. QED
      BY <3>2, <3>3
  <2> DEFINE a == Len(d.heap)
  <2>7. \A i \in 1 .. b : spot[e.heap[s[i]].id.clock] < spot[e.heap[a + 1].id.clock]
    BY <2>4, <2>5 DEF n
  <2>8. \A i \in b + 0 + 1 .. Len(s) : spot[e.heap[a + 1].id.clock] < spot[e.heap[s[i]].id.clock]
    <3>1. b + 0 = b
      BY <1>7
    <3>2. QED
      BY <2>4, <2>6, <3>1 DEF n, N
  <2>9. e.heap[a + 1].id.clock \in Nat
    BY <1>3, <2>4 DEF n
  <2> DEFINE g == 0
  <2>10. Grafted(s, t, b, g, a, 1) /\ \A i \in b + g + 1 .. Len(s) : spot[e.heap[a + 1].id.clock] < spot[e.heap[s[i]].id.clock]
    BY <2>2, <2>8
  <2> HIDE DEF a, g
  <2>11. QED
    BY <1>4, <1>11, <2>1, <2>3, <2>7, <2>9, <2>10, AscendsGrafted
<1>13. Lined(spot, e)
  BY <1>9, <1>12 DEF Lined, Alive, t
<1>14. QED
  BY <1>8, <1>10, <1>13 DEF Viewer

\* The items that w typed come in one after the other.
LEMMA LoopTakes ==
  ASSUME NEW w \in Client, NEW W, Sound(W), NEW spot, Weaves(spot, W, w), NEW d, Viewer(spot, d, w),
         NEW u \in Seq(ItemType), Readable(d, u), \A j \in 1 .. Len(u) : Brings(W, w, u[j])
  PROVE  Viewer(spot, Loop(integrateItem, d, u), w)
<1>0. Sound(d)
  BY DEF Viewer
<1>1. PICK h : Turns(h, d, u) /\ Loop(integrateItem, d, u) = h[Len(u)]
  BY <1>0, integrateTurns
<1> DEFINE N == Len(u)
           Taken == { n \in Nat : n <= N => Viewer(spot, h[n], w) }
<1>2. N \in Nat
  OBVIOUS
<1>3. 0 \in Taken
  BY <1>1 DEF Turns
<1>4. ASSUME NEW n \in Nat, n \in Taken PROVE n + 1 \in Taken
  <2>1. SUFFICES ASSUME n + 1 <= N PROVE Viewer(spot, h[n + 1], w)
    OBVIOUS
  <2>2. n \in 0 .. N /\ n + 1 \in 1 .. N /\ (n + 1) - 1 = n
    BY <1>2, <2>1
  <2> DEFINE e == h[n]
             it == u[n + 1]
             f == integrateItem(e, it)
  <2>3. Viewer(spot, e, w) /\ Sound(e)
    BY <1>4, <2>2 DEF Viewer
  <2>4. Merged(d, e, u, n) /\ h[n + 1] = f /\ Brings(W, w, it)
    BY <1>1, <2>2 DEF Turns
  <2>5. Wire(it) /\ it.id.clock <= Len(e.store[it.id.client])
    <3> HIDE DEF e
    <3> QED BY <1>0, <2>1, <2>4, NextFits
  <2> HIDE DEF e, it
  <2>6. CASE Held(e, it.id)
    BY <2>3, <2>4, <2>5, <2>6, integrateItemSound
  <2>7. CASE ~Held(e, it.id)
    <3>1. Sound(f) /\ \E x : Puts(e, f, it, x)
      BY <2>3, <2>5, <2>7, integrateItemSound
    <3> HIDE DEF f
    <3>2. Viewer(spot, f, w)
      BY <2>3, <2>4, <3>1, ViewerTakes
    <3>3. QED
      BY <2>4, <3>2
  <2>8. QED
    BY <2>6, <2>7
<1>5. N \in Taken
  <2> HIDE DEF Taken, N
  <2>1. \A n \in Nat : n \in Taken
    BY <1>3, <1>4, Induction
  <2>2. QED
    BY <1>2, <2>1
<1>6. QED
  BY <1>1, <1>2, <1>5

\* Nothing comes in of what is held.
LEMMA LoopOfHeld ==
  ASSUME NEW d, Sound(d), NEW u \in Seq(ItemType), Readable(d, u), \A j \in 1 .. Len(u) : Held(d, u[j].id)
  PROVE  Loop(integrateItem, d, u) = d
<1>1. PICK h : Turns(h, d, u) /\ Loop(integrateItem, d, u) = h[Len(u)]
  BY integrateTurns
<1> DEFINE N == Len(u)
           Same == { n \in Nat : n <= N => h[n] = d }
<1>2. N \in Nat
  OBVIOUS
<1>3. 0 \in Same
  BY <1>1 DEF Turns
<1>4. ASSUME NEW n \in Nat, n \in Same PROVE n + 1 \in Same
  <2>1. SUFFICES ASSUME n + 1 <= N PROVE h[n + 1] = d
    OBVIOUS
  <2>2. n \in 0 .. N /\ n + 1 \in 1 .. N /\ (n + 1) - 1 = n
    BY <1>2, <2>1
  <2>3. h[n] = d
    BY <1>4, <2>2
  <2>4. Merged(d, d, u, n) /\ h[n + 1] = integrateItem(d, u[n + 1]) /\ Held(d, u[n + 1].id)
    BY <1>1, <2>2, <2>3 DEF Turns
  <2>5. Wire(u[n + 1]) /\ u[n + 1].id.clock <= Len(d.store[u[n + 1].id.client])
    BY <2>1, <2>4, NextFits
  <2> DEFINE it == u[n + 1]
  <2>6. Held(d, it.id) /\ Wire(it) /\ it.id.clock <= Len(d.store[it.id.client])
    BY <2>4, <2>5
  <2> HIDE DEF it
  <2>7. integrateItem(d, it) = d
    BY <2>6, integrateItemSound
  <2>8. QED
    BY <2>4, <2>7 DEF it
<1>5. N \in Same
  <2> HIDE DEF Same, N
  <2>1. \A n \in Nat : n \in Same
    BY <1>3, <1>4, Induction
  <2>2. QED
    BY <1>2, <2>1
<1>6. QED
  BY <1>1, <1>2, <1>5

\* e is d, and maybe more is deleted.
Fades(d, e) ==
    /\ Sound(d) /\ Sound(e) /\ Len(e.heap) = Len(d.heap) /\ e.start = d.start /\ e.store = d.store
    /\ \A k \in Refs(d) : /\ SameItem(e.heap[k], d.heap[k]) /\ e.heap[k].right = d.heap[k].right
                          /\ d.heap[k].deleted => e.heap[k].deleted

\* What is deleted keeps its place.
LEMMA FadesKeeps ==
  ASSUME NEW d, NEW e, Fades(d, e), NEW w, NEW spot
  PROVE  /\ Row(e, Text) = Row(d, Text)
         /\ Solely(d, w) => Solely(e, w)
         /\ Solely(d, w) /\ Lined(spot, d) => Lined(spot, e)
         /\ Tidy(d) => Tidy(e)
<1> DEFINE s == Row(d, Text)
<1>1. /\ Refs(e) = Refs(d)
      /\ \A k \in Refs(d) : /\ e.heap[k].id = d.heap[k].id /\ e.heap[k].oleft = d.heap[k].oleft
                            /\ e.heap[k].list = d.heap[k].list
                            /\ d.heap[k].deleted => e.heap[k].deleted
                            /\ e.heap[k].right = d.heap[k].right
  BY DEF Fades, Refs, SameItem
<1>2. Row(e, Text) = s
  <2>1. Text \in List /\ \A k \in OfList(d, Text) : k \in Refs(d)
    BY TextAssumption DEF OfList
  <2>2. QED
    BY <1>1, <2>1, SameRow DEF Fades
<1>3. Len(s) \in Nat /\ \A i \in 1 .. Len(s) : s[i] \in Refs(d)
  BY TextAssumption, RowFollows DEF Fades
<1> HIDE DEF s
<1>4. Solely(d, w) => Solely(e, w)
  BY <1>1 DEF Solely
<1>5. Lined(spot, d) => Lined(spot, e)
  <2>1. Alive(e) \subseteq Alive(d)
    BY <1>1 DEF Alive
  <2>2. Ascends(spot, d, s) => Ascends(spot, e, s)
    BY <1>1, <1>3 DEF Ascends
  <2>3. QED
    BY <1>2, <2>1, <2>2 DEF Lined, s
<1>6. Tidy(d) => Tidy(e)
  <2>1. SUFFICES ASSUME Tidy(d) PROVE Tidy(e)
    OBVIOUS
  <2>2. /\ \A k \in Refs(d) : Has(s, k)
        /\ Len(s) > 0 => d.heap[s[1]].oleft = NoID
        /\ \A i \in 1 .. Len(s) - 1 : originClock(d.heap[s[i + 1]]) <= d.heap[s[i]].id.clock + 1
    BY <2>1 DEF Tidy, s
  <2>3. \A i \in 1 .. Len(s) - 1 : i \in 1 .. Len(s) /\ i + 1 \in 1 .. Len(s)
    BY <1>3
  <2>4. Len(s) > 0 => 1 \in 1 .. Len(s)
    BY <1>3
  <2>5. \A i \in 1 .. Len(s) - 1 : originClock(e.heap[s[i + 1]]) <= e.heap[s[i]].id.clock + 1
    BY <1>1, <1>3, <2>2, <2>3 DEF originClock
  <2>6. Len(s) > 0 => e.heap[s[1]].oleft = NoID
    BY <1>1, <1>3, <2>2, <2>4
  <2>7. QED
    BY <1>1, <1>2, <2>2, <2>5, <2>6 DEF Tidy
<1>7. QED
  BY <1>2, <1>4, <1>5, <1>6 DEF s

\* What w typed.
Carries(W, w, u) == \A j \in 1 .. Len(u.items) : Brings(W, w, u.items[j])

\* An update of w comes in, or one of which everything is held (ApplyUpdate).
LEMMA UpdateTakes ==
  ASSUME NEW w \in Client, NEW d, Sound(d),
         NEW u, u.items \in Seq(ItemType), u.dels \in Seq(Ranges), Readable(d, u.items)
  PROVE  /\ \A W, spot :
               Sound(W) /\ Weaves(spot, W, w) /\ Viewer(spot, d, w) /\ Carries(W, w, u)
                   => Viewer(spot, ApplyUpdate(d, u), w)
         /\ (\A j \in 1 .. Len(u.items) : Held(d, u.items[j].id)) => Fades(d, ApplyUpdate(d, u))
<1> DEFINE e == ApplyUpdate(d, u)
<1>1. PICK a, b : Stages(d, a, b, e, u)
  BY ApplyUpdateStages
<1> HIDE DEF e
<1>2. /\ Sound(a) /\ a.heap = d.heap /\ a.store = d.store /\ a.start = d.start
      /\ Readable(a, u.items) /\ b = Loop(integrateItem, a, u.items)
      /\ Swept(b, e, b.ds, Len(b.ds)) /\ Sound(b)
  BY <1>1 DEF Stages, Merged
<1>3. Fades(d, a)
  BY <1>2 DEF Fades, SameItem
<1>4. Fades(b, e)
  BY <1>2 DEF Fades, Swept
<1>5. ASSUME NEW W, NEW spot, Sound(W), Weaves(spot, W, w), Viewer(spot, d, w), Carries(W, w, u)
      PROVE  Viewer(spot, e, w)
  <2>1. Viewer(spot, a, w)
    BY <1>2, <1>3, <1>5, FadesKeeps DEF Viewer
  <2>2. Viewer(spot, b, w)
    BY <1>2, <1>5, <2>1, LoopTakes DEF Carries
  <2>3. QED
    BY <1>4, <2>2, FadesKeeps DEF Viewer, Fades
<1>6. ASSUME \A j \in 1 .. Len(u.items) : Held(d, u.items[j].id) PROVE Fades(d, e)
  <2>1. \A j \in 1 .. Len(u.items) : Held(a, u.items[j].id)
    BY <1>2, <1>6 DEF Held
  <2>2. b = a
    BY <1>2, <2>1, LoopOfHeld
  <2>3. QED
    BY <1>3, <1>4, <2>2 DEF Fades, Refs, SameItem
<1>7. QED
  BY <1>5, <1>6 DEF e

-----------------------------------------------------------------------------
(***************************************************************************)
(* The document of the writer.                                             *)
(***************************************************************************)
\* new gives the first m clocks the order they have in spot.
Keeps(spot, new, m) ==
    new \in [Nat -> Nat] /\ \A a, b \in 0 .. m - 1 : spot[a] < spot[b] <=> new[a] < new[b]

\* The places after the clock m took the one after that of o, or the first one.
Shifted(spot, m, base) ==
    [a \in Nat |-> IF a = m THEN base ELSE IF base <= spot[a] THEN spot[a] + 1 ELSE spot[a]]

\* e is d with a new character of w, the item n with the clock m, in the row in place of
\* g deleted items after the first p.
Writes(d, e, w, p, g, n, m) ==
    /\ n = Len(d.heap) + 1 /\ m = Len(d.store[w])
    /\ Grafted(Row(d, Text), Row(e, Text), p, g, Len(d.heap), 1)
    /\ \A k \in Alive(d) : \A i \in 1 .. Len(Row(d, Text)) : Row(d, Text)[i] = k => i <= p \/ p + g < i
    /\ Refs(e) = Refs(d) \cup {n}
    /\ \A k \in Refs(d) : SameItem(e.heap[k], d.heap[k]) /\ e.heap[k].deleted = d.heap[k].deleted
    /\ e.heap[n].id = [client |-> w, clock |-> m] /\ e.heap[n].list = Text
    /\ e.heap[n].oleft = IF p = 0 THEN NoID ELSE d.heap[Row(d, Text)[p]].id
    /\ Len(e.store[w]) = m + 1 /\ e.store[w][m + 1] = n

LEMMA InsertWrites ==
  ASSUME NEW w \in Client, NEW d, Sound(d), NEW index \in Nat, NEW u \in 1 .. MaxChars,
         NEW e, e = Insert(d, w, Text, index, <<u>>)
  PROVE  Sound(e) /\ Extends(d, e) /\ \E p, g, n, m : Writes(d, e, w, p, g, n, m)
<1> DEFINE s == live(d, Text)
           k == Capped(index, Len(s))
           n == Len(d.heap) + 1
           m == Len(d.store[w])
           r == Row(d, Text)
<1>0. Text \in List
  BY TextAssumption
<1>1. Typed(d, e, w, 1) /\ \E left, right : IsSlot(s, k, left, right) /\ Laid(d, e, w, Text, left, right, u)
  BY <1>0, InsertTypes
<1>2. PICK left, right : IsSlot(s, k, left, right) /\ Laid(d, e, w, Text, left, right, u)
  BY <1>1
<1>3. PICK x : /\ Fits(d, x)
               /\ x.id = [client |-> w, clock |-> m] /\ x.list = Text /\ ~x.deleted
               /\ x.oleft = IF left = Nil THEN NoID ELSE d.heap[left].id
               /\ Linked(d, e, x, left, right)
  BY <1>2 DEF Laid
<1>4. Sound(e) /\ Extends(d, e) /\ d \in Docs /\ Len(d.heap) \in Nat /\ Len(e.heap) = Len(d.heap) + 1
  BY <1>1, DocFields DEF Typed, Sound, Whole
<1>5. PICK p, g : Spans(r, p, g, left, right) /\ Gap(d, Text, p, g, k)
  BY <1>0, <1>2, LiveSpans
<1>6. Grafted(r, Row(e, Text), p, g, Len(d.heap), 1)
  BY <1>0, <1>3, <1>4, <1>5, LinkedOver
<1>7. /\ Refs(e) = Refs(d) \cup {n}
      /\ \A j \in Refs(d) : SameItem(e.heap[j], d.heap[j]) /\ e.heap[j].deleted = d.heap[j].deleted
      /\ e.heap[n].id = x.id /\ e.heap[n].list = Text /\ e.heap[n].oleft = x.oleft
      /\ e.store[w] = Append(d.store[w], n)
  <2>1. Grows(d, e, x)
    BY <1>3 DEF Linked
  <2>2. w \in DOMAIN d.store
    BY <1>4, DocFields
  <2>3. Refs(e) = Refs(d) \cup {n}
    BY <1>4 DEF Refs
  <2>4. e.store = [d.store EXCEPT ![w] = Append(@, n)]
    BY <1>3, <2>1 DEF Grows
  <2>5. QED
    BY <1>3, <2>1, <2>2, <2>3, <2>4 DEF Grows, SameItem
<1>8. Len(e.store[w]) = m + 1 /\ e.store[w][m + 1] = n
  <2>1. d.store[w] \in Seq(Nat) /\ n \in Nat
    BY <1>4, DocFields
  <2>2. QED
    BY <1>7, <2>1
<1>9. e.heap[n].oleft = IF p = 0 THEN NoID ELSE d.heap[r[p]].id
  <2>1. left = IF p = 0 THEN Nil ELSE r[p]
    BY <1>5 DEF Spans
  <2>2. p # 0 => r[p] \in Refs(d)
    <3>1. Len(r) \in Nat /\ \A i \in 1 .. Len(r) : r[i] \in Refs(d)
      BY <1>0, RowFollows
    <3>2. QED
      BY <1>5, <3>1 DEF Spans
  <2>3. QED
    BY <1>3, <1>7, <2>1, <2>2, NilIsNoRef
<1>10. ASSUME NEW j \in Alive(d), NEW i \in 1 .. Len(r), r[i] = j PROVE i <= p \/ p + g < i
  <2>1. PICK q : Picks(r, s, q, Alive(d)) /\ Parted(s, q, p, g, k)
    BY <1>5 DEF Gap
  <2>2. PICK a \in 1 .. Len(s) : q[a] = i
    BY <1>10, <2>1 DEF Picks
  <2>3. QED
    BY <2>1, <2>2 DEF Parted
<1>11. Writes(d, e, w, p, g, n, m)
  BY <1>3, <1>6, <1>7, <1>8, <1>9, <1>10 DEF Writes
<1>12. QED
  BY <1>4, <1>11

\* What shifting does to the order of the places.
LEMMA ShiftedKeeps ==
  ASSUME NEW spot \in [Nat -> Nat], NEW m \in Nat, NEW base \in Nat
  PROVE  LET new == Shifted(spot, m, base)
         IN  /\ Keeps(spot, new, m)
             /\ new[m] = base
             /\ \A a \in 0 .. m - 1 : IF base <= spot[a] THEN base < new[a] ELSE new[a] = spot[a]
<1> DEFINE new == Shifted(spot, m, base)
<1>1. new \in [Nat -> Nat] /\ new[m] = base
  BY DEF Shifted
<1>2. ASSUME NEW a \in 0 .. m - 1
      PROVE  /\ spot[a] \in Nat
             /\ new[a] = IF base <= spot[a] THEN spot[a] + 1 ELSE spot[a]
  BY DEF Shifted
<1> HIDE DEF new
<1>3. \A a \in 0 .. m - 1 : IF base <= spot[a] THEN base < new[a] ELSE new[a] = spot[a]
  BY <1>2
<1>4. \A a, b \in 0 .. m - 1 : spot[a] < spot[b] <=> new[a] < new[b]
  BY <1>2
<1>5. QED
  BY <1>1, <1>3, <1>4 DEF Keeps, new

\* The document of w, all of whose items are its own.
Author(spot, W, w) == Sound(W) /\ Weaves(spot, W, w) /\ Solely(W, w) /\ Lined(spot, W)

\* The writer types: its document keeps the order, with new places for the clocks
\* (Text.Insert).
LEMMA AuthorTypes ==
  ASSUME NEW w \in Client, NEW spot, NEW d, Author(spot, d, w),
         NEW index \in Nat, NEW u \in 1 .. MaxChars, NEW e, e = Insert(d, w, Text, index, <<u>>)
  PROVE  \E new : Author(new, e, w) /\ Keeps(spot, new, Len(d.store[w]))
<1> DEFINE s == Row(d, Text)
           t == Row(e, Text)
           N == Len(s)
<1>1. Sound(d) /\ Whole(d) /\ d \in Docs /\ spot \in [Nat -> Nat] /\ Text \in List
  BY TextAssumption DEF Author, Sound, Whole, Weaves
<1>2. /\ Sound(e) /\ Whole(e) /\ e \in Docs /\ Extends(d, e)
      /\ \E p, g, n, m : Writes(d, e, w, p, g, n, m)
  <2>1. Sound(e) /\ Extends(d, e) /\ \E p, g, n, m : Writes(d, e, w, p, g, n, m)
    BY <1>1, InsertWrites
  <2>2. Whole(e) /\ e \in Docs
    BY <2>1 DEF Sound, Whole
  <2>3. QED
    BY <2>1, <2>2
<1>3. PICK p, g, n, m : Writes(d, e, w, p, g, n, m)
  BY <1>2
<1>4. /\ n = Len(d.heap) + 1 /\ m = Len(d.store[w]) /\ m \in Nat
      /\ Grafted(s, t, p, g, Len(d.heap), 1)
      /\ \A k \in Alive(d) : \A i \in 1 .. N : s[i] = k => i <= p \/ p + g < i
      /\ Refs(e) = Refs(d) \cup {n}
      /\ \A k \in Refs(d) : /\ e.heap[k].id = d.heap[k].id /\ e.heap[k].oleft = d.heap[k].oleft
                            /\ e.heap[k].list = d.heap[k].list /\ e.heap[k].deleted = d.heap[k].deleted
      /\ e.heap[n].id = [client |-> w, clock |-> m] /\ e.heap[n].list = Text
      /\ e.heap[n].oleft = IF p = 0 THEN NoID ELSE d.heap[s[p]].id
      /\ Len(e.store[w]) = m + 1 /\ e.store[w][m + 1] = n
  BY <1>1, <1>3, DocFields DEF Writes, SameItem
<1>5. \A k \in Refs(d) : /\ d.heap[k].id.client = w /\ d.heap[k].list = Text
                         /\ d.heap[k].id \in IdType /\ d.heap[k].id.clock \in 0 .. m - 1
                         /\ d.heap[k].id # NoID
                         /\ d.heap[k].oleft # NoID => /\ d.heap[k].oleft.client = w
                                                      /\ d.heap[k].oleft.clock \in Nat
                                                      /\ d.heap[k].oleft.clock < d.heap[k].id.clock
  <2> TAKE k \in Refs(d)
  <2>1. d.heap[k] \in ItemType /\ d.heap[k].id \in IdType /\ d.heap[k].oleft \in IdType \cup {NoID}
    BY <1>1, DocFields, ItemFields
  <2>2. /\ d.heap[k].id.client = w /\ d.heap[k].list = Text
        /\ d.heap[k].oleft # NoID => d.heap[k].oleft.client = w /\ d.heap[k].oleft.clock < d.heap[k].id.clock
    BY DEF Author, Solely
  <2>3. d.heap[k].id.clock < Len(d.store[d.heap[k].id.client])
    BY <1>1 DEF Whole
  <2>4. d.heap[k].id # NoID
    BY <2>1, ClientAssumption DEF IdType, NoID
  <2>5. d.heap[k].id.clock \in Nat /\ (d.heap[k].oleft # NoID => d.heap[k].oleft.clock \in Nat)
    BY <2>1 DEF IdType
  <2>6. d.heap[k].id.clock \in 0 .. m - 1
    BY <1>4, <2>2, <2>3, <2>5
  <2>7. QED
    BY <2>1, <2>2, <2>4, <2>5, <2>6
<1>6. /\ s \in Seq(Refs(d)) /\ N \in Nat /\ (\A i \in 1 .. N : s[i] \in Refs(d))
      /\ t \in Seq(Refs(e)) /\ Len(t) \in Nat
  BY <1>1, <1>2, RowFollows
<1> HIDE DEF s, t, N
<1>7. /\ p \in 0 .. N /\ g \in Nat /\ p + g <= N /\ Len(t) = N - g + 1
      /\ \A i \in 1 .. p : t[i] = s[i]
      /\ t[p + 1] = n
      /\ \A i \in p + g + 1 .. N : t[i - g + 1] = s[i]
  <2> DEFINE a == Len(d.heap)
  <2>1. /\ p \in 0 .. N /\ g \in Nat /\ p + g <= N /\ Len(t) = N - g + 1
        /\ \A i \in 1 .. p : t[i] = s[i]
        /\ \A i \in 1 .. 1 : t[p + i] = a + i
        /\ \A i \in p + g + 1 .. N : t[i - g + 1] = s[i]
    BY <1>4 DEF Grafted, N
  <2> HIDE DEF a
  <2>2. 1 \in 1 .. 1
    OBVIOUS
  <2>3. t[p + 1] = a + 1
    BY <2>1, <2>2
  <2>4. n = a + 1
    BY <1>4 DEF a
  <2>5. QED
    BY <2>1, <2>3, <2>4
<1> DEFINE o == d.heap[s[p]].id.clock
           base == IF p = 0 THEN 0 ELSE spot[o] + 1
           new == Shifted(spot, m, base)
<1>8. p # 0 => p \in 1 .. N /\ s[p] \in Refs(d) /\ o \in 0 .. m - 1 /\ o \in Nat
  BY <1>5, <1>6, <1>7
<1>9. base \in Nat
  BY <1>1, <1>8
<1> HIDE DEF o
<1>10. /\ Keeps(spot, new, m)
       /\ new[m] = base
       /\ \A a \in 0 .. m - 1 : IF base <= spot[a] THEN base < new[a] ELSE new[a] = spot[a]
  <2> HIDE DEF base
  <2> QED BY <1>1, <1>4, <1>9, ShiftedKeeps
<1> HIDE DEF new
<1>11. new \in [Nat -> Nat] /\ \A a, b \in 0 .. m - 1 : spot[a] < spot[b] <=> new[a] < new[b]
  BY <1>10 DEF Keeps
<1>12. \A a \in 0 .. m - 1 : a \in Nat /\ spot[a] \in Nat /\ new[a] \in Nat
  <2> TAKE a \in 0 .. m - 1
  <2>1. a \in Nat
    OBVIOUS
  <2>2. spot[a] \in Nat
    BY <1>1, <2>1
  <2>3. new[a] \in Nat
    BY <1>11, <2>1
  <2>4. QED
    BY <2>1, <2>2, <2>3
<1>13. \A a \in 0 .. m - 1 : IF p = 0 \/ spot[o] < spot[a] THEN new[m] < new[a] ELSE new[a] < new[m]
  <2> TAKE a \in 0 .. m - 1
  <2>1. p # 0 => spot[o] \in Nat
    BY <1>8, <1>12
  <2>2. QED
    BY <1>9, <1>10, <1>12, <2>1
<1>14. Weaves(new, e, w)
  <2>1. ASSUME NEW c \in 0 .. m - 1
        PROVE  /\ Letter(e, w, c).oleft = Letter(d, w, c).oleft
               /\ Letter(d, w, c).oleft # NoID => Letter(d, w, c).oleft.clock \in 0 .. c - 1
    <3> DEFINE id == [client |-> w, clock |-> c]
    <3>1. id \in IdType /\ id.client = w /\ id.clock = c
      BY DEF IdType
    <3>2. Held(d, id)
      BY <1>4, <3>1 DEF Held
    <3> HIDE DEF id
    <3>3. RefOf(e, id) = RefOf(d, id)
      BY <1>1, <1>2, <3>1, <3>2, ExtendsKeeps
    <3>4. RefOf(d, id) \in Refs(d) /\ d.heap[RefOf(d, id)].id = id
      BY <1>1, <3>1, <3>2, getItemFinds
    <3>5. e.heap[RefOf(d, id)].oleft = d.heap[RefOf(d, id)].oleft
      BY <1>4, <3>4
    <3>6. d.heap[RefOf(d, id)].oleft # NoID => d.heap[RefOf(d, id)].oleft.clock \in 0 .. c - 1
      BY <1>5, <3>1, <3>4
    <3>7. QED
      BY <3>3, <3>5, <3>6 DEF Letter, id
  <2>2. Letter(e, w, m) = e.heap[n]
    BY <1>4 DEF Letter, RefOf
  <2>3. ASSUME NEW c \in 0 .. m - 1, NEW a \in 0 .. c - 1
        PROVE  LET x == Letter(e, w, c).oleft
               IN  IF x = NoID \/ new[x.clock] < new[a] THEN new[c] < new[a] ELSE new[a] < new[c]
    <3> DEFINE x == Letter(d, w, c).oleft
    <3>1. IF x = NoID \/ spot[x.clock] < spot[a] THEN spot[c] < spot[a] ELSE spot[a] < spot[c]
      BY <1>4 DEF Author, Weaves
    <3>2. a \in 0 .. m - 1 /\ (x # NoID => x.clock \in 0 .. m - 1)
      BY <1>4, <2>1
    <3>3. Letter(e, w, c).oleft = x
      BY <2>1
    <3> HIDE DEF x
    <3>4. QED
      BY <1>11, <3>1, <3>2, <3>3
  <2>4. ASSUME NEW a \in 0 .. m - 1
        PROVE  LET x == e.heap[n].oleft
               IN  IF x = NoID \/ new[x.clock] < new[a] THEN new[m] < new[a] ELSE new[a] < new[m]
    <3> DEFINE x == e.heap[n].oleft
    <3>1. CASE p = 0
      BY <1>4, <1>13, <3>1
    <3>2. CASE p # 0
      <4>1. x # NoID /\ x.clock = o /\ o \in 0 .. m - 1
        BY <1>4, <1>5, <1>8, <3>2 DEF o
      <4>2. new[o] < new[a] <=> spot[o] < spot[a]
        BY <1>11, <4>1
      <4>3. QED
        BY <1>13, <3>2, <4>1, <4>2
    <3>3. QED
      BY <3>1, <3>2
  <2>5. ASSUME NEW c \in 0 .. Len(e.store[w]) - 1, NEW a \in 0 .. c - 1
        PROVE  LET x == Letter(e, w, c).oleft
               IN  IF x = NoID \/ new[x.clock] < new[a] THEN new[c] < new[a] ELSE new[a] < new[c]
    <3>1. CASE c = m
      BY <2>2, <2>4, <3>1
    <3>2. CASE c # m
      <4>1. c \in 0 .. m - 1
        BY <1>4, <3>2
      <4>2. QED
        BY <2>3, <4>1
    <3>3. QED
      BY <3>1, <3>2
  <2>6. QED
    BY <1>11, <2>5 DEF Weaves
<1>15. Solely(e, w)
  <2>1. ASSUME NEW k \in Refs(e)
        PROVE  LET y == e.heap[k]
               IN  /\ y.id.client = w /\ y.list = Text
                   /\ y.oleft # NoID => y.oleft.client = w /\ y.oleft.clock < y.id.clock
    <3>1. CASE k \in Refs(d)
      BY <1>4, <1>5, <3>1
    <3>2. CASE k = n
      <4>1. CASE p = 0
        BY <1>4, <3>2, <4>1
      <4>2. CASE p # 0
        <5>1. s[p] \in Refs(d) /\ e.heap[n].oleft = d.heap[s[p]].id
          BY <1>4, <1>8, <4>2
        <5>2. d.heap[s[p]].id.client = w /\ d.heap[s[p]].id.clock \in 0 .. m - 1
          BY <1>5, <5>1
        <5>3. m \in Nat
          BY <1>4
        <5>4. \A c \in 0 .. m - 1 : c < m
          BY <5>3
        <5>5. e.heap[n].oleft.client = w /\ e.heap[n].oleft.clock < m
          BY <5>1, <5>2, <5>4
        <5>6. QED
          BY <1>4, <3>2, <5>5
      <4>3. QED
        BY <4>1, <4>2
    <3>3. QED
      BY <1>4, <3>1, <3>2
  <2>2. QED
    BY <2>1 DEF Solely
<1>16. \A i, j \in 1 .. N : i < j => spot[d.heap[s[i]].id.clock] < spot[d.heap[s[j]].id.clock]
  BY DEF Author, Lined, Ascends, s, N
<1>17. Ascends(new, e, t)
  <2>1. \A k \in Refs(d) : e.heap[k].id.clock = d.heap[k].id.clock /\ e.heap[k].id.clock \in 0 .. m - 1
    BY <1>4, <1>5
  <2>2. Ascends(new, e, s)
    BY <1>6, <1>11, <1>16, <2>1 DEF Ascends, N
  <2>3. e.heap[n].id.clock = m
    BY <1>4
  <2>4. ASSUME NEW i \in 1 .. p PROVE new[e.heap[s[i]].id.clock] < new[m]
    <3>1. p # 0 /\ i \in 1 .. N /\ p \in 1 .. N /\ s[i] \in Refs(d) /\ s[p] \in Refs(d)
      BY <1>6, <1>7
    <3>2. i = p \/ i < p
      BY <1>7
    <3>3. s[i] = s[p] \/ spot[d.heap[s[i]].id.clock] < spot[o]
      BY <1>16, <3>1, <3>2 DEF o
    <3>4. ~(spot[o] < spot[d.heap[s[i]].id.clock])
      BY <1>5, <1>8, <1>12, <3>1, <3>3 DEF o
    <3>5. QED
      BY <1>5, <1>13, <2>1, <3>1, <3>4
  <2>5. ASSUME NEW i \in p + g + 1 .. N PROVE new[m] < new[e.heap[s[i]].id.clock]
    <3>1. i \in 1 .. N /\ s[i] \in Refs(d) /\ p < i
      BY <1>6, <1>7
    <3>2. p # 0 => spot[o] < spot[d.heap[s[i]].id.clock]
      BY <1>8, <1>16, <3>1 DEF o
    <3>3. QED
      BY <1>5, <1>13, <2>1, <3>1, <3>2
  <2> DEFINE a == Len(d.heap)
  <2>6. \A i \in 1 .. p : new[e.heap[s[i]].id.clock] < new[e.heap[a + 1].id.clock]
    BY <1>4, <2>3, <2>4
  <2>7. \A i \in p + g + 1 .. Len(s) : new[e.heap[a + 1].id.clock] < new[e.heap[s[i]].id.clock]
    BY <1>4, <2>3, <2>5 DEF N
  <2>8. Grafted(s, t, p, g, a, 1) /\ e.heap[a + 1].id.clock \in Nat /\ \A k \in Refs(d) : e.heap[k].id.clock \in Nat
    BY <1>4, <2>1, <2>3
  <2> HIDE DEF a
  <2>9. QED
    BY <1>6, <1>11, <2>2, <2>6, <2>7, <2>8, AscendsGrafted
<1>18. ASSUME NEW k \in Alive(e) PROVE Has(t, k)
  <2>1. CASE k = n
    <3>1. p + 1 \in 1 .. Len(t)
      BY <1>6, <1>7
    <3>2. QED
      BY <1>7, <2>1, <3>1 DEF Has
  <2>2. CASE k # n
    <3>1. k \in Alive(d)
      BY <1>4, <2>2 DEF Alive
    <3>2. PICK i \in 1 .. N : s[i] = k
      BY <3>1 DEF Author, Lined, Has, s, N
    <3>3. CASE i <= p
      <4>1. i \in 1 .. p /\ i \in 1 .. Len(t)
        BY <1>6, <1>7, <3>3
      <4>2. QED
        BY <1>7, <3>2, <4>1 DEF Has
    <3>4. CASE p + g < i
      <4>1. i \in p + g + 1 .. N /\ i - g + 1 \in 1 .. Len(t)
        BY <1>6, <1>7, <3>4
      <4>2. QED
        BY <1>7, <3>2, <4>1 DEF Has
    <3>5. QED
      BY <1>4, <3>1, <3>2, <3>3, <3>4
  <2>3. QED
    BY <2>1, <2>2
<1>19. Lined(new, e)
  BY <1>17, <1>18 DEF Lined, t
<1>20. QED
  BY <1>2, <1>4, <1>10, <1>14, <1>15, <1>19 DEF Author

-----------------------------------------------------------------------------
(***************************************************************************)
(* What a document of one writer shows.                                    *)
(***************************************************************************)
\* text is the letters that w typed with the clocks S, in the order of their places.
Spelt(text, S, spot, W, w) ==
    \E s \in Seq(Nat) :
        /\ \A i, j \in 1 .. Len(s) : i < j => spot[s[i]] < spot[s[j]]
        /\ \A c : c \in S <=> Has(s, c)
        /\ text = [i \in 1 .. Len(s) |-> Letter(W, w, s[i]).str[1]]

\* There is one such text.
LEMMA SpeltOnce ==
  ASSUME NEW spot \in [Nat -> Nat], NEW W, NEW w, NEW S, NEW t, NEW u,
         Spelt(t, S, spot, W, w), Spelt(u, S, spot, W, w)
  PROVE  t = u
<1>1. PICK a \in Seq(Nat) :
        /\ \A i, j \in 1 .. Len(a) : i < j => spot[a[i]] < spot[a[j]]
        /\ \A c : c \in S <=> Has(a, c)
        /\ t = [i \in 1 .. Len(a) |-> Letter(W, w, a[i]).str[1]]
  BY DEF Spelt
<1>2. PICK b \in Seq(Nat) :
        /\ \A i, j \in 1 .. Len(b) : i < j => spot[b[i]] < spot[b[j]]
        /\ \A c : c \in S <=> Has(b, c)
        /\ u = [i \in 1 .. Len(b) |-> Letter(W, w, b[i]).str[1]]
  BY DEF Spelt
<1> DEFINE rank == [c \in Nat |-> 0 - spot[c]]
<1>3. \A c \in Nat : rank[c] \in Int /\ rank[c] = 0 - spot[c] /\ spot[c] \in Nat
  OBVIOUS
<1> HIDE DEF rank
<1>4. /\ \A i \in 1 .. Len(a) : a[i] \in Nat
      /\ \A i \in 1 .. Len(b) : b[i] \in Nat
  BY SeqElements
<1>5. ASSUME NEW i \in 1 .. Len(a), NEW j \in 1 .. Len(a), i < j
      PROVE  rank[a[j]] < rank[a[i]]
  <2>1. a[i] \in Nat /\ a[j] \in Nat /\ spot[a[i]] < spot[a[j]]
    BY <1>1, <1>4, <1>5
  <2>2. \A c, k \in Nat : spot[c] < spot[k] => rank[k] < rank[c]
    BY <1>3
  <2>3. QED
    BY <2>1, <2>2
<1>6. ASSUME NEW i \in 1 .. Len(b), NEW j \in 1 .. Len(b), i < j
      PROVE  rank[b[j]] < rank[b[i]]
  <2>1. b[i] \in Nat /\ b[j] \in Nat /\ spot[b[i]] < spot[b[j]]
    BY <1>2, <1>4, <1>6
  <2>2. \A c, k \in Nat : spot[c] < spot[k] => rank[k] < rank[c]
    BY <1>3
  <2>3. QED
    BY <2>1, <2>2
<1>7. \A i \in 1 .. Len(a) : Has(b, a[i])
  BY <1>1, <1>2 DEF Has
<1>8. \A i \in 1 .. Len(b) : Has(a, b[i])
  BY <1>1, <1>2 DEF Has
<1>9. \A k \in Nat : rank[k] \in Int
  BY <1>3
<1>10. a = b
  BY <1>5, <1>6, <1>7, <1>8, <1>9, OrderOnce
<1>11. QED
  BY <1>1, <1>2, <1>10

\* The letters keep their order.
LEMMA SpeltStays ==
  ASSUME NEW spot, NEW new, NEW m \in Nat, Keeps(spot, new, m), NEW S, S \subseteq 0 .. m - 1,
         NEW W, NEW V, NEW w, \A c \in S : Letter(V, w, c).str = Letter(W, w, c).str,
         NEW t, Spelt(t, S, spot, W, w)
  PROVE  Spelt(t, S, new, V, w)
<1>1. PICK s \in Seq(Nat) :
        /\ \A i, j \in 1 .. Len(s) : i < j => spot[s[i]] < spot[s[j]]
        /\ \A c : c \in S <=> Has(s, c)
        /\ t = [i \in 1 .. Len(s) |-> Letter(W, w, s[i]).str[1]]
  BY DEF Spelt
<1>2. \A i \in 1 .. Len(s) : s[i] \in S
  BY <1>1 DEF Has
<1>3. \A i, j \in 1 .. Len(s) : i < j => new[s[i]] < new[s[j]]
  BY <1>1, <1>2 DEF Keeps
<1>4. t = [i \in 1 .. Len(s) |-> Letter(V, w, s[i]).str[1]]
  BY <1>1, <1>2
<1>5. QED
  BY <1>1, <1>3, <1>4 DEF Spelt

\* The clocks of the items that are not deleted.
Clocks(d) == { d.heap[k].id.clock : k \in Alive(d) }

\* What a document shows are their letters.
LEMMA LinedSpells ==
  ASSUME NEW w, NEW W, NEW spot, NEW d, Sound(d), Lined(spot, d),
         \A k \in Refs(d) : d.heap[k].str = Letter(W, w, d.heap[k].id.clock).str
  PROVE  Spelt(visible(d, Text), Clocks(d), spot, W, w)
<1> DEFINE r == Row(d, Text)
           a == live(d, Text)
           N == Len(a)
           s == [i \in 1 .. N |-> d.heap[a[i]].id.clock]
<1>1. /\ Text \in List /\ N \in Nat /\ \A i \in 1 .. N : a[i] \in Refs(d)
      /\ visible(d, Text) = [i \in 1 .. N |-> d.heap[a[i]].str[1]]
      /\ \A k \in Refs(d) : d.heap[k].id.clock \in Nat
  <2>1. Text \in List
    BY TextAssumption
  <2>2. a \in Seq(Refs(d)) /\ visible(d, Text) = [i \in 1 .. N |-> d.heap[a[i]].str[1]]
    BY <2>1, liveIs, visibleSpells
  <2>3. \A k \in Refs(d) : d.heap[k].id.clock \in Nat
    BY DocFields, ItemFields DEF Sound, Whole
  <2>4. N \in Nat /\ \A i \in 1 .. N : a[i] \in Refs(d)
    <3> HIDE DEF a
    <3> QED BY <2>2, SeqElements
  <2>5. QED
    BY <2>1, <2>2, <2>3, <2>4
<1>2. PICK q : Picks(r, a, q, Alive(d))
  BY <1>1, liveIs
<1>3. Ascends(spot, d, r) /\ \A k \in Alive(d) : Has(r, k)
  BY DEF Lined
<1> HIDE DEF r, a, N
<1>4. s \in Seq(Nat) /\ Len(s) = N /\ \A i \in 1 .. N : s[i] = d.heap[a[i]].id.clock
  <2>1. s \in [1 .. N -> Nat]
    BY <1>1
  <2>2. QED
    BY <1>1, <2>1
<1> HIDE DEF s
<1>5. /\ q \in [1 .. N -> 1 .. Len(r)]
      /\ \A i, j \in 1 .. N : i < j => q[i] < q[j]
      /\ \A i \in 1 .. N : a[i] = r[q[i]]
      /\ \A k \in 1 .. Len(r) : r[k] \in Alive(d) <=> \E i \in 1 .. N : q[i] = k
  BY <1>2 DEF Picks, N
<1>6. \A i, j \in 1 .. Len(s) : i < j => spot[s[i]] < spot[s[j]]
  <2>1. ASSUME NEW i \in 1 .. N, NEW j \in 1 .. N, i < j PROVE spot[s[i]] < spot[s[j]]
    <3>1. q[i] \in 1 .. Len(r) /\ q[j] \in 1 .. Len(r) /\ q[i] < q[j]
      BY <1>5, <2>1
    <3>2. spot[d.heap[r[q[i]]].id.clock] < spot[d.heap[r[q[j]]].id.clock]
      BY <1>3, <3>1 DEF Ascends
    <3>3. QED
      BY <1>4, <1>5, <3>2
  <2>2. QED
    BY <1>4, <2>1
<1>7. ASSUME NEW c PROVE c \in Clocks(d) <=> Has(s, c)
  <2>1. ASSUME NEW k \in Alive(d), c = d.heap[k].id.clock PROVE Has(s, c)
    <3>1. PICK j \in 1 .. Len(r) : r[j] = k
      BY <1>3 DEF Has
    <3>2. PICK i \in 1 .. N : q[i] = j
      BY <1>5, <3>1
    <3>3. s[i] = c
      BY <1>4, <1>5, <2>1, <3>1, <3>2
    <3>4. QED
      BY <1>4, <3>3 DEF Has
  <2>2. ASSUME NEW i \in 1 .. N, s[i] = c PROVE c \in Clocks(d)
    <3>1. r[q[i]] \in Alive(d) /\ c = d.heap[r[q[i]]].id.clock
      BY <1>4, <1>5, <2>2
    <3>2. QED
      BY <3>1 DEF Clocks
  <2>3. QED
    BY <1>4, <2>1, <2>2 DEF Clocks, Has
<1>8. visible(d, Text) = [i \in 1 .. Len(s) |-> Letter(W, w, s[i]).str[1]]
  BY <1>1, <1>4
<1>9. QED
  BY <1>4, <1>6, <1>7, <1>8 DEF Spelt

\* And nothing else.
OnlyText(t) == [l \in List |-> IF l = Text THEN t ELSE <<>>]

LEMMA ShownIsText ==
  ASSUME NEW d, Sound(d), NEW w, Solely(d, w)
  PROVE  shown(d) = OnlyText(visible(d, Text))
<1>1. Text \in List /\ Text \notin Key /\ Listed(d)
  BY TextAssumption DEF Sound
<1>2. ASSUME NEW l \in List, l # Text PROVE d.start[l] = Nil
  BY <1>1, <1>2 DEF Listed, Solely
<1>3. ASSUME NEW l \in List, l # Text PROVE visible(d, l) = <<>>
  <2> DEFINE a == live(d, l)
             N == Len(a)
  <2>1. a \in Seq(OfList(d, l)) /\ a \in Seq(Refs(d))
    BY chainOfList, liveIs
  <2>2. OfList(d, l) = {}
    BY <1>3 DEF OfList, Solely
  <2>3. visible(d, l) = [i \in 1 .. N |-> d.heap[a[i]].str[1]]
    BY visibleSpells
  <2> HIDE DEF a
  <2>4. a = <<>>
    BY <2>1, <2>2
  <2>5. N = 0
    BY <2>4
  <2> HIDE DEF N
  <2>6. QED
    BY <2>3, <2>5
<1>4. ASSUME NEW l \in List
      PROVE  (IF l \in Key THEN Get(d, l) ELSE visible(d, l)) = IF l = Text THEN visible(d, Text) ELSE <<>>
  <2>1. CASE l = Text
    BY <1>1, <2>1
  <2>2. CASE l # Text /\ l \in Key
    BY <1>2, <2>2 DEF Get
  <2>3. CASE l # Text /\ l \notin Key
    BY <1>3, <2>3
  <2>4. QED
    BY <2>1, <2>2, <2>3
<1>5. QED
  BY <1>4 DEF shown, OnlyText

-----------------------------------------------------------------------------
(***************************************************************************)
(* Peers one of which is the only one to edit.                             *)
(***************************************************************************)
\* Nobody but w inserts, deletes or announces anything.
Solo(T, A, w) == \A r \in Client \ {w} : A[r] = <<>> /\ T[r].items = <<>> /\ T[r].dels = <<>>

\* The clocks that the first n updates of w insert and do not delete.
Left(A, w, n) ==
    { c \in Nat : LET id == [client |-> w, clock |-> c]
                  IN  /\ \E h \in 1 .. n : id \in ItemIds(A[w][h].update)
                      /\ \A h \in 1 .. n : id \notin DelIds(A[w][h].update) }

\* An item without an origin names the Text.
Named(u) == \A j \in 1 .. Len(u.items) : u.items[j].oleft = NoID => u.items[j].list = Text

\* The documents have the items of w, in one order.
Woven(spot, D, A, w) ==
    /\ Weaves(spot, D[w], w)
    /\ \A r \in Client : Solely(D[r], w) /\ Lined(spot, D[r]) /\ (r # w => Tidy(D[r]))
    /\ \A h \in 1 .. Len(A[w]) : Named(A[w][h].update)

\* With each update w showed the letters that the updates up to it leave, in that order.
Told(spot, D, A, w) ==
    \A n \in 1 .. Len(A[w]) :
        \E t : A[w][n].shown = OnlyText(t) /\ Spelt(t, Left(A, w, n), spot, D[w], w)

Versed(spot, D, A, y, w) == Woven(spot, D, A, w) /\ (y = 0 => Told(spot, D, A, w))

\* What is alive at a peer is what the updates leave that it has of w.
LEMMA AliveClocks ==
  ASSUME NEW D, NEW T, NEW A, NEW G, Consistent(D, T, A, G, 0), NEW w \in Client,
         \A q \in Client \ {w} : A[q] = <<>>,
         NEW r \in Client, T[r].items = <<>>, T[r].dels = <<>>, NEW n \in Nat, G[r][w] = 1 .. n,
         Solely(D[r], w)
  PROVE  Clocks(D[r]) = Left(A, w, n)
<1> DEFINE d == D[r]
<1>1. /\ Received(D, A, G, r) /\ Remembers(D, A, G, r) /\ Erased(D, T, A, G, r) /\ Complete(D, T, A, G, r)
      /\ Whole(d) /\ d \in Docs
  BY SettledSound DEF Consistent, Settled
<1>2. \A s \in Client : \A h \in G[r][s] : s = w /\ h \in 1 .. n
  <2>1. ASSUME NEW s \in Client, s # w PROVE G[r][s] = {}
    <3>1. A[s] = <<>> /\ G[r][s] \subseteq 1 .. Len(A[s])
      BY <1>1, <2>1 DEF Received
    <3>2. QED
      BY <3>1
  <2>2. QED
    BY <2>1
<1>3. 1 .. Len(T[r].items) = {} /\ 1 .. Len(T[r].dels) = {}
  OBVIOUS
<1>4. \A k \in Refs(d) : /\ d.heap[k].id = [client |-> w, clock |-> d.heap[k].id.clock]
                         /\ d.heap[k].id.clock \in Nat /\ d.heap[k].id \in IdType
                         /\ d.heap[k].list \notin Key /\ RefOf(d, d.heap[k].id) = k
  <2> TAKE k \in Refs(d)
  <2>1. d.heap[k].id \in IdType
    BY <1>1, DocFields, ItemFields
  <2>2. d.heap[k].id.client = w /\ d.heap[k].list = Text
    BY DEF Solely
  <2>3. RefOf(d, d.heap[k].id) = k
    BY <1>1 DEF Whole, RefOf
  <2>4. QED
    BY <2>1, <2>2, <2>3, TextAssumption DEF IdType
<1>5. ASSUME NEW c \in Clocks(d) PROVE c \in Left(A, w, n)
  <2>1. PICK k \in Refs(d) : ~d.heap[k].deleted /\ d.heap[k].id.clock = c
    BY DEF Clocks, Alive
  <2> DEFINE id == [client |-> w, clock |-> c]
  <2>2. d.heap[k].id = id /\ c \in Nat /\ id \in IdType /\ RefOf(d, id) = k
    BY <1>4, <2>1
  <2> HIDE DEF id
  <2>3. \E h \in 1 .. n : id \in ItemIds(A[w][h].update)
    <3>1. PICK s \in Client : \E h \in G[r][s] : id \in ItemIds(A[s][h].update)
      BY <1>1, <1>3, <2>2 DEF Complete
    <3>2. QED
      BY <1>2, <3>1
  <2>4. ASSUME NEW h \in 1 .. n, id \in DelIds(A[w][h].update) PROVE FALSE
    <3>1. CASE r = w
      BY <1>1, <2>1, <2>2, <2>4, <3>1 DEF Erased
    <3>2. CASE r # w
      <4>1. id \in Foreign(A, G, r)
        BY <2>2, <2>4, <3>2 DEF Foreign
      <4>2. isDeleted(d, id)
        BY <1>1, <2>2, <4>1 DEF Remembers
      <4>3. QED
        BY <1>1, <2>1, <2>2, <4>2 DEF Remembers
    <3>3. QED
      BY <3>1, <3>2
  <2>5. QED
    BY <2>2, <2>3, <2>4 DEF Left, id
<1>6. ASSUME NEW c \in Left(A, w, n) PROVE c \in Clocks(d)
  <2> DEFINE id == [client |-> w, clock |-> c]
  <2>1. id \in IdType /\ id.client = w /\ id.clock = c
    BY DEF Left, IdType
  <2>2. PICK h \in 1 .. n : id \in ItemIds(A[w][h].update)
    BY DEF Left
  <2>3. \A g \in 1 .. n : id \notin DelIds(A[w][g].update)
    BY DEF Left
  <2> HIDE DEF id
  <2>4. Held(d, id)
    BY <1>1, <2>2 DEF Received
  <2> DEFINE k == RefOf(d, id)
  <2>5. k \in Refs(d) /\ d.heap[k].id = id
    BY <1>1, <2>1, <2>4, getItemFinds
  <2> HIDE DEF k
  <2>6. ~d.heap[k].deleted
    <3>1. ASSUME d.heap[k].deleted PROVE FALSE
      <4>1. PICK s \in Client : \E g \in G[r][s] : id \in DelIds(A[s][g].update)
        BY <1>1, <1>3, <1>4, <2>5, <3>1 DEF Erased
      <4>2. QED
        BY <1>2, <2>3, <4>1
    <3>2. QED
      BY <3>1
  <2>7. QED
    BY <2>1, <2>5, <2>6 DEF Clocks, Alive
<1>7. QED
  BY <1>5, <1>6

\* The items of a document are letters of w.
LEMMA LettersOf ==
  ASSUME NEW D, NEW T, NEW A, NEW G, NEW y, Consistent(D, T, A, G, y), NEW w \in Client,
         NEW r \in Client, Solely(D[r], w), NEW k \in Refs(D[r])
  PROVE  LET it == D[r].heap[k]
             c == it.id.clock
         IN  /\ c \in 0 .. Len(D[w].store[w]) - 1
             /\ it.str = Letter(D[w], w, c).str /\ it.oleft = Letter(D[w], w, c).oleft
<1> DEFINE it == D[r].heap[k]
           W == D[w]
<1>1. Authored(D, it) /\ it.id \in IdType /\ Len(W.store[w]) \in Nat
  BY SettledSound DEF Consistent, Settled, Agrees
<1>2. it.id = [client |-> w, clock |-> it.id.clock] /\ it.id.clock \in Nat
  <2>1. it.id.client = w
    BY DEF Solely
  <2>2. QED
    BY <1>1, <2>1 DEF IdType
<1>3. it.id.clock < Len(W.store[w]) /\ Says(it, W.heap[RefOf(W, it.id)])
  <2>1. it.id.client = w
    BY <1>2
  <2>2. QED
    BY <1>1, <2>1 DEF Authored, Held
<1>4. Letter(W, w, it.id.clock) = W.heap[RefOf(W, it.id)]
  BY <1>2 DEF Letter
<1> HIDE DEF it, W
<1>5. it.id.clock \in 0 .. Len(W.store[w]) - 1
  BY <1>1, <1>2, <1>3
<1>6. QED
  BY <1>3, <1>4, <1>5 DEF Says, it, W

\* What its updates leave, w has typed.
LEMMA LeftTyped ==
  ASSUME NEW D, NEW T, NEW A, NEW G, NEW y, Consistent(D, T, A, G, y), NEW w \in Client,
         NEW n \in 0 .. Len(A[w])
  PROVE  Left(A, w, n) \subseteq 0 .. Len(D[w].store[w]) - 1
<1> SUFFICES ASSUME NEW c \in Left(A, w, n) PROVE c \in 0 .. Len(D[w].store[w]) - 1
  OBVIOUS
<1> DEFINE id == [client |-> w, clock |-> c]
<1>1. c \in Nat /\ \E h \in 1 .. n : id \in ItemIds(A[w][h].update)
  BY DEF Left
<1>2. PICK h \in 1 .. n : id \in ItemIds(A[w][h].update)
  BY <1>1
<1>3. Sent(D, A[w], h)
  BY DEF Consistent, Settled
<1>4. PICK j \in 1 .. Len(A[w][h].update.items) : A[w][h].update.items[j].id = id
  BY <1>2 DEF ItemIds
<1>5. Held(D[w], id)
  <2> DEFINE it == A[w][h].update.items[j]
  <2>1. Authored(D, it)
    BY <1>3 DEF Sent
  <2>2. it.id = id /\ id.client = w
    BY <1>4
  <2> HIDE DEF it, id
  <2>3. QED
    BY <2>1, <2>2 DEF Authored
<1>6. c < Len(D[w].store[w]) /\ Len(D[w].store[w]) \in Nat
  BY <1>5, SettledSound DEF Held
<1>7. QED
  BY <1>1, <1>6

\* It stays what it was when documents grow.
LEMMA ToldStays ==
  ASSUME NEW D, NEW T, NEW A, NEW G, NEW y, Consistent(D, T, A, G, y), NEW w \in Client,
         NEW spot, NEW new, Keeps(spot, new, Len(D[w].store[w])), Told(spot, D, A, w),
         NEW E, Grown(D, E)
  PROVE  Told(new, E, A, w)
<1> SUFFICES ASSUME NEW n \in 1 .. Len(A[w])
             PROVE  \E t : A[w][n].shown = OnlyText(t) /\ Spelt(t, Left(A, w, n), new, E[w], w)
  BY DEF Told
<1>1. PICK t : A[w][n].shown = OnlyText(t) /\ Spelt(t, Left(A, w, n), spot, D[w], w)
  BY DEF Told
<1> DEFINE S == Left(A, w, n)
           m == Len(D[w].store[w])
<1>2. S \subseteq 0 .. m - 1 /\ m \in Nat
  <2>1. n \in 0 .. Len(A[w])
    OBVIOUS
  <2>2. QED
    BY <2>1, LeftTyped, SettledSound
<1>3. ASSUME NEW c \in S PROVE Letter(E[w], w, c).str = Letter(D[w], w, c).str
  <2> DEFINE id == [client |-> w, clock |-> c]
  <2>1. id \in IdType /\ id.client = w /\ id.clock = c
    BY <1>2 DEF IdType
  <2>2. Held(D[w], id)
    BY <1>2, <2>1 DEF Held
  <2> HIDE DEF id
  <2>3. /\ RefOf(E[w], id) = RefOf(D[w], id)
        /\ SameItem(E[w].heap[RefOf(D[w], id)], D[w].heap[RefOf(D[w], id)])
    BY <2>1, <2>2, HeldStays
  <2>4. QED
    BY <2>3 DEF Letter, SameItem, id
<1> HIDE DEF S, m
<1>4. Keeps(spot, new, m) /\ Spelt(t, S, spot, D[w], w)
  BY <1>1 DEF m, S
<1>5. Spelt(t, S, new, E[w], w)
  BY <1>2, <1>3, <1>4, SpeltStays
<1>6. QED
  BY <1>1, <1>5 DEF S

\* So does the order of the writer, as long as it types nothing.
LEMMA WeavesStays ==
  ASSUME NEW w \in Client, NEW spot, NEW d, Sound(d), Weaves(spot, d, w),
         NEW e, Sound(e), Extends(d, e), Len(e.store[w]) = Len(d.store[w])
  PROVE  Weaves(spot, e, w)
<1> DEFINE m == Len(d.store[w])
<1>1. m \in Nat /\ Whole(d) /\ Whole(e)
  BY DocFields DEF Sound, Whole
<1>2. ASSUME NEW c \in 0 .. m - 1 PROVE Letter(e, w, c).oleft = Letter(d, w, c).oleft
  <2> DEFINE id == [client |-> w, clock |-> c]
  <2>1. id \in IdType /\ id.client = w /\ id.clock = c
    BY DEF IdType
  <2>2. Held(d, id)
    BY <1>1, <2>1 DEF Held
  <2> HIDE DEF id
  <2>3. RefOf(e, id) = RefOf(d, id)
    BY <1>1, <2>1, <2>2, ExtendsKeeps
  <2>4. RefOf(d, id) \in Refs(d)
    BY <1>1, <2>1, <2>2, getItemFinds
  <2>5. QED
    BY <2>3, <2>4 DEF Letter, Extends, SameItem, id
<1> HIDE DEF m
<1>3. /\ spot \in [Nat -> Nat]
      /\ \A c \in 0 .. m - 1 : \A a \in 0 .. c - 1 :
            LET o == Letter(d, w, c).oleft
            IN  IF o = NoID \/ spot[o.clock] < spot[a] THEN spot[c] < spot[a] ELSE spot[a] < spot[c]
  BY DEF Weaves, m
<1>4. \A c \in 0 .. m - 1 : \A a \in 0 .. c - 1 :
            LET o == Letter(e, w, c).oleft
            IN  IF o = NoID \/ spot[o.clock] < spot[a] THEN spot[c] < spot[a] ELSE spot[a] < spot[c]
  BY <1>2, <1>3
<1>5. Len(e.store[w]) = m
  BY DEF m
<1>6. QED
  BY <1>3, <1>4, <1>5 DEF Weaves

\* New places do not change a row.
LEMMA LinedKeeps ==
  ASSUME NEW d, Sound(d), NEW spot, Lined(spot, d), NEW m, NEW new, Keeps(spot, new, m),
         \A k \in Refs(d) : d.heap[k].id.clock \in 0 .. m - 1
  PROVE  Lined(new, d)
<1> DEFINE s == Row(d, Text)
<1>1. \A i \in 1 .. Len(s) : s[i] \in Refs(d)
  BY TextAssumption, RowFollows
<1> HIDE DEF s
<1>2. \A i, j \in 1 .. Len(s) : i < j => spot[d.heap[s[i]].id.clock] < spot[d.heap[s[j]].id.clock]
  BY DEF Lined, Ascends, s
<1>3. ASSUME NEW i \in 1 .. Len(s), NEW j \in 1 .. Len(s), i < j
      PROVE  new[d.heap[s[i]].id.clock] < new[d.heap[s[j]].id.clock]
  BY <1>1, <1>2, <1>3 DEF Keeps
<1>4. Ascends(new, d, s)
  BY <1>3 DEF Ascends
<1>5. QED
  BY <1>4 DEF Lined, s

\* One document changes and keeps the order.
LEMMA ReplacedVersed ==
  ASSUME NEW D, NEW T, NEW A, NEW G, NEW y, Consistent(D, T, A, G, y), NEW w \in Client,
         NEW spot, Versed(spot, D, A, y, w), NEW r \in Client, NEW e, NEW E, Replaces(D, E, r, e), Grown(D, E),
         Solely(e, w), Lined(spot, e), r # w => Tidy(e), r = w => Len(e.store[w]) = Len(D[w].store[w]),
         NEW z, z = 0 => y = 0
  PROVE  Versed(spot, E, A, z, w)
<1>1. Woven(spot, D, A, w) /\ (y = 0 => Told(spot, D, A, w))
  BY DEF Versed
<1>2. E[r] = e /\ \A q \in Client : q # r => E[q] = D[q]
  BY DEF Replaces
<1>3. Weaves(spot, E[w], w)
  <2>1. Weaves(spot, D[w], w) /\ Sound(D[w]) /\ Sound(E[w]) /\ Extends(D[w], E[w])
    BY <1>1 DEF Woven, Grown
  <2>2. Len(E[w].store[w]) = Len(D[w].store[w])
    BY <1>2
  <2>3. QED
    BY <2>1, <2>2, WeavesStays
<1>4. ASSUME NEW q \in Client PROVE Solely(E[q], w) /\ Lined(spot, E[q]) /\ (q # w => Tidy(E[q]))
  BY <1>1, <1>2 DEF Woven
<1>5. Woven(spot, E, A, w)
  BY <1>1, <1>3, <1>4 DEF Woven
<1>6. ASSUME z = 0 PROVE Told(spot, E, A, w)
  <2>1. Keeps(spot, spot, Len(D[w].store[w]))
    BY <1>1 DEF Woven, Weaves, Keeps
  <2>2. Told(spot, D, A, w)
    BY <1>1, <1>6
  <2>3. QED
    BY <2>1, <2>2, ToldStays
<1>7. QED
  BY <1>5, <1>6 DEF Versed

\* More is deleted in it.
LEMMA FadedVersed ==
  ASSUME NEW D, NEW T, NEW A, NEW G, NEW y, Consistent(D, T, A, G, y), NEW w \in Client,
         NEW spot, Versed(spot, D, A, y, w), NEW r \in Client, NEW e, Fades(D[r], e),
         NEW E, Replaces(D, E, r, e), NEW z, z = 0 => y = 0
  PROVE  Versed(spot, E, A, z, w)
<1> DEFINE d == D[r]
<1>1. Fades(d, e) /\ Solely(d, w) /\ Lined(spot, d) /\ (r # w => Tidy(d))
  BY DEF Versed, Woven
<1>2. Sound(e) /\ Extends(d, e) /\ e.store = d.store
  <2>1. Len(d.heap) \in Nat
    BY SettledSound
  <2>2. QED
    BY <1>1, <2>1 DEF Fades, Extends
<1>3. Grown(D, E)
  BY <1>2, ReplacesGrows
<1> HIDE DEF d
<1>4. Solely(e, w) /\ Lined(spot, e) /\ (r # w => Tidy(e))
  BY <1>1, FadesKeeps
<1>5. r = w => Len(e.store[w]) = Len(D[w].store[w])
  BY <1>2 DEF d
<1>6. QED
  BY <1>3, <1>4, <1>5, ReplacedVersed

\* An update comes in.
LEMMA JoinedVersed ==
  ASSUME NEW D, NEW T, NEW A, NEW G, NEW y, Consistent(D, T, A, G, y), NEW w \in Client,
         NEW spot, Versed(spot, D, A, y, w), NEW r \in Client,
         NEW u, Meant(D, u), Readable(D[r], u.items), Named(u),
         NEW E, Replaces(D, E, r, ApplyUpdate(D[r], u)), NEW z, z = 0 => y = 0
  PROVE  Versed(spot, E, A, z, w)
<1> DEFINE d == D[r]
           e == ApplyUpdate(d, u)
           W == D[w]
<1>1. /\ u.items \in Seq(ItemType) /\ u.dels \in Seq(Ranges) /\ Sound(d) /\ Sound(W) /\ Whole(W)
      /\ Woven(spot, D, A, w) /\ Solely(W, w) /\ Weaves(spot, W, w) /\ spot \in [Nat -> Nat]
  BY SettledSound DEF Meant, Versed, Woven, Weaves
<1>2. ASSUME NEW j \in 1 .. Len(u.items) PROVE Brings(W, w, u.items[j]) /\ Held(W, u.items[j].id)
  <2> DEFINE it == u.items[j]
             q == it.id.client
             k == RefOf(D[q], it.id)
  <2>1. Wire(it) /\ it \in ItemType /\ it.id \in IdType /\ q \in Client /\ Authored(D, it)
    <3>1. Wire(it)
      BY DEF Readable
    <3>2. it \in ItemType
      BY <3>1 DEF Wire
    <3>3. Authored(D, it)
      BY DEF Meant
    <3> HIDE DEF it
    <3>4. QED
      BY <3>1, <3>2, <3>3, ItemFields
  <2> HIDE DEF it
  <2>2. Held(D[q], it.id) /\ Says(it, D[q].heap[k])
    BY <2>1 DEF Authored
  <2>3. Whole(D[q]) /\ Solely(D[q], w)
    BY <1>1, <2>1, SettledSound DEF Woven
  <2>4. k \in Refs(D[q]) /\ D[q].heap[k].id = it.id
    BY <2>1, <2>2, <2>3, getItemFinds
  <2> HIDE DEF k
  <2>5. q = w
    BY <2>3, <2>4 DEF Solely
  <2>6. it.id = [client |-> w, clock |-> it.id.clock]
    BY <2>1, <2>5 DEF IdType
  <2>7. W.heap[k] = Letter(W, w, it.id.clock)
    BY <2>5, <2>6 DEF Letter, k
  <2>8. it.oleft = Letter(W, w, it.id.clock).oleft /\ Held(W, it.id)
    BY <2>2, <2>5, <2>7 DEF Says
  <2>9. it.oleft # NoID => it.oleft.client = w /\ it.oleft.clock < it.id.clock
    BY <2>3, <2>4, <2>5, <2>7, <2>8 DEF Solely
  <2>10. it.oleft = NoID => it.list = Text
    BY DEF Named, it
  <2>11. Brings(W, w, it)
    BY <2>1, <2>5, <2>8, <2>9, <2>10 DEF Brings, Held
  <2>12. QED
    BY <2>8, <2>11 DEF it
<1>3. Updated(d, e, u)
  <2> HIDE DEF d
  <2>1. Readable(d, u.items)
    BY DEF d
  <2>2. QED
    BY <1>1, <2>1, ApplyUpdateSound
<1>4. CASE r = w
  <2>1. \A j \in 1 .. Len(u.items) : Held(d, u.items[j].id)
    BY <1>2, <1>4
  <2>2. Fades(d, e)
    <3> HIDE DEF d
    <3>1. Readable(d, u.items)
      BY DEF d
    <3>2. QED
      BY <1>1, <2>1, <3>1, UpdateTakes
  <2> HIDE DEF e
  <2>3. Replaces(D, E, r, e) /\ Fades(D[r], e)
    BY <2>2 DEF e
  <2>4. QED
    BY <2>3, FadedVersed
<1>5. CASE r # w
  <2>1. Viewer(spot, d, w) /\ Carries(W, w, u) /\ Readable(d, u.items)
    BY <1>1, <1>2, <1>5 DEF Woven, Viewer, Carries
  <2> HIDE DEF d, W
  <2>2. Viewer(spot, e, w)
    BY <1>1, <2>1, UpdateTakes
  <2> HIDE DEF e
  <2>3. Replaces(D, E, r, e) /\ Sound(e) /\ Extends(D[r], e)
    BY <1>3 DEF e, d, Updated
  <2>4. Grown(D, E)
    BY <2>3, ReplacesGrows
  <2>5. Solely(e, w) /\ Lined(spot, e) /\ Tidy(e)
    BY <2>2 DEF Viewer
  <2>6. QED
    BY <1>5, <2>3, <2>4, <2>5, ReplacedVersed
<1>6. QED
  BY <1>4, <1>5

\* A step after which w is the only one to edit: it was before, and the order goes on.
GoesOn(w) ==
    Solo(tx', announced', w) =>
        /\ Solo(tx, announced, w)
        /\ \A spot : Versed(spot, doc, announced, syncs, w) =>
               \E new : Versed(new, doc', announced', syncs', w)

\* The writer types.
LEMMA InsertGoesOn ==
  ASSUME Inv, NEW r \in Client, NEW i \in Indexes(r), TextInsert(r, i, 1), NEW w \in Client
  PROVE  GoesOn(w)
<1> SUFFICES ASSUME Solo(tx', announced', w)
             PROVE  /\ Solo(tx, announced, w)
                    /\ \A spot : Versed(spot, doc, announced, syncs, w) =>
                           \E new : Versed(new, doc', announced', syncs', w)
  BY DEF GoesOn
<1> DEFINE v == typed + 1
           d == doc[r]
           e == Insert(d, r, Text, i, <<v>>)
           refs == LastRefs(d, 1)
<1>1. v \in 1 .. MaxChars /\ Typed(d, e, r, 1) /\ Inserts(r, e, refs, 1) /\ i \in Nat /\ Sound(d)
  BY TextInsertMeans, IndexesAreNat, SettledSound DEF Inv
<1> HIDE DEF v
<1>2. /\ doc'[r] = e /\ announced' = announced
      /\ \A q \in Client \ {r} : doc'[q] = doc[q] /\ tx'[q] = tx[q]
  BY <1>1, InsertsLeaves
<1>3. Replaces(doc, doc', r, e) /\ syncs' = syncs
  BY <1>1, <1>2 DEF Replaces, Inserts
<1>4. r = w
  <2>1. tx'[r].items = tx[r].items \o refs
    BY <1>1 DEF Inserts, Inv, Shape
  <2>2. tx[r].items \in Seq(Nat) /\ refs \in Seq(Nat) /\ Len(refs) = 1
    <3> DEFINE a == Len(d.heap)
    <3>1. a \in Nat /\ refs = [j \in 1 .. 1 |-> a + j]
      BY <1>1, DocFields DEF LastRefs, Sound, Whole
    <3> HIDE DEF a, refs
    <3>2. refs \in [1 .. 1 -> Nat]
      BY <3>1
    <3>3. refs \in Seq(Nat) /\ Len(refs) = 1
      BY <3>2
    <3>4. QED
      BY <3>3, TxFields DEF Inv
  <2>3. tx'[r].items # <<>>
    <3> DEFINE a == tx[r].items
               b == refs
               ab == tx'[r].items
    <3>1. a \in Seq(Nat) /\ b \in Seq(Nat) /\ Len(b) = 1 /\ ab = a \o b
      BY <2>1, <2>2
    <3> HIDE DEF a, b, ab
    <3> DEFINE R == Nat
    <3>10. a \in Seq(R) /\ b \in Seq(R) /\ ab = a \o b
      BY <3>1
    <3> HIDE DEF R
    <3>2. Len(ab) = Len(a) + Len(b) /\ Len(a) \in Nat
      BY <3>10
    <3>3. Len(ab) # 0
      BY <3>1, <3>2
    <3>4. ab # <<>>
      BY <3>3
    <3>5. QED
      BY <3>4 DEF ab
  <2>4. QED
    BY <2>3 DEF Solo
<1>5. Solo(tx, announced, w)
  BY <1>2, <1>4 DEF Solo
<1>6. ASSUME NEW spot, Versed(spot, doc, announced, syncs, w)
      PROVE  \E new : Versed(new, doc', announced', syncs', w)
  <2> DEFINE m == Len(doc[w].store[w])
  <2>1. Woven(spot, doc, announced, w) /\ (syncs = 0 => Told(spot, doc, announced, w))
    BY <1>6 DEF Versed
  <2>2. Author(spot, d, w)
    BY <1>1, <1>4, <2>1 DEF Woven, Author
  <2>3. \E new : Author(new, e, w) /\ Keeps(spot, new, Len(d.store[w]))
    <3> HIDE DEF d
    <3>1. e = Insert(d, w, Text, i, <<v>>)
      BY <1>4
    <3> HIDE DEF e
    <3>2. QED
      BY <1>1, <2>2, <3>1, AuthorTypes
  <2>4. PICK new : Author(new, e, w) /\ Keeps(spot, new, m)
    BY <1>4, <2>3
  <2>5. Grown(doc, doc')
    <3> HIDE DEF e
    <3>1. Sound(e) /\ Extends(doc[r], e)
      BY <1>1 DEF Typed
    <3>2. QED
      BY <1>3, <3>1, ReplacesGrows DEF Inv
  <2>6. ASSUME NEW q \in Client
        PROVE  Solely(doc'[q], w) /\ Lined(new, doc'[q]) /\ (q # w => Tidy(doc'[q]))
    <3>1. CASE q = w
      BY <1>2, <1>4, <2>4, <3>1 DEF Author
    <3>2. CASE q # w
      <4>1. doc'[q] = doc[q] /\ Solely(doc[q], w) /\ Lined(spot, doc[q]) /\ Tidy(doc[q]) /\ Sound(doc[q])
        BY <1>2, <1>4, <2>1, <3>2, SettledSound DEF Woven, Inv
      <4>2. \A k \in Refs(doc[q]) : doc[q].heap[k].id.clock \in 0 .. m - 1
        BY <4>1, LettersOf DEF Inv
      <4> HIDE DEF m
      <4>3. Lined(new, doc[q])
        BY <2>4, <4>1, <4>2, LinedKeeps
      <4>4. QED
        BY <4>1, <4>3, <3>2
    <3>3. QED
      BY <3>1, <3>2
  <2>7. Weaves(new, doc'[w], w)
    BY <1>2, <1>4, <2>4 DEF Author
  <2>8. Woven(new, doc', announced', w)
    BY <1>2, <2>1, <2>6, <2>7 DEF Woven
  <2>9. syncs' = 0 => Told(new, doc', announced', w)
    BY <1>2, <1>3, <2>1, <2>4, <2>5, ToldStays DEF Inv
  <2>10. QED
    BY <2>8, <2>9 DEF Versed
<1>7. QED
  BY <1>5, <1>6

\* A deletion.
LEMMA DeleteGoesOn ==
  ASSUME Inv, NEW r \in Client, NEW result, Cuts(doc[r], result), Deletes(r, result), NEW w \in Client
  PROVE  GoesOn(w)
<1> SUFFICES ASSUME Solo(tx', announced', w)
             PROVE  /\ Solo(tx, announced, w)
                    /\ \A spot : Versed(spot, doc, announced, syncs, w) =>
                           \E new : Versed(new, doc', announced', syncs', w)
  BY DEF GoesOn
<1>1. /\ doc'[r] = result.doc /\ announced' = announced /\ tx'[r].dels = tx[r].dels \o result.dels
      /\ \A q \in Client \ {r} : doc'[q] = doc[q] /\ tx'[q] = tx[q]
  BY DeletesAdds
<1>2. Replaces(doc, doc', r, result.doc) /\ syncs' = syncs
  BY <1>1 DEF Replaces, Deletes
<1>3. tx'[r].items = tx[r].items
  <2> DEFINE old == tx[r]
             dels == old.dels \o result.dels
  <2>1. tx'[r] = [old EXCEPT !.open = TRUE, !.ops = @ + 1, !.dels = dels]
    BY DEF Deletes, Inv, Shape
  <2>2. old \in TxType
    BY TxFields DEF Inv
  <2> HIDE DEF old, dels
  <2>3. tx'[r].items = old.items
    BY <2>1, <2>2 DEF TxType
  <2>4. QED
    BY <2>3 DEF old
<1>4. tx'[r].dels = <<>> => tx[r].dels = <<>>
  <2>1. result.dels \in Seq(Refs(doc[r])) /\ tx[r].dels \in Seq(Refs(doc[r]))
    BY DEF Cuts, Inv, Consistent, Settled, Opened
  <2> DEFINE a == tx[r].dels
             b == result.dels
             ab == tx'[r].dels
             R == Refs(doc[r])
  <2>2. a \in Seq(R) /\ b \in Seq(R) /\ ab = a \o b
    BY <1>1, <2>1
  <2> HIDE DEF a, b, ab, R
  <2>3. Len(ab) = Len(a) + Len(b) /\ Len(a) \in Nat /\ Len(b) \in Nat
    BY <2>2
  <2>4. ASSUME ab = <<>> PROVE a = <<>>
    <3>1. Len(ab) = 0
      BY <2>4
    <3>2. Len(a) = 0
      BY <2>3, <3>1
    <3>3. QED
      BY <2>2, <3>2, EmptySeq
  <2>5. QED
    BY <2>4 DEF a, ab
<1>5. Solo(tx, announced, w)
  <2>1. ASSUME NEW q \in Client \ {w}
        PROVE  announced[q] = <<>> /\ tx[q].items = <<>> /\ tx[q].dels = <<>>
    <3>1. announced[q] = <<>> /\ tx'[q].items = <<>> /\ tx'[q].dels = <<>>
      BY <1>1 DEF Solo
    <3>2. QED
      BY <1>1, <1>3, <1>4, <3>1
  <2>2. QED
    BY <2>1 DEF Solo
<1>6. Fades(doc[r], result.doc)
  BY SettledSound DEF Inv, Cuts, Fades
<1>7. ASSUME NEW spot, Versed(spot, doc, announced, syncs, w)
      PROVE  Versed(spot, doc', announced', syncs', w)
  BY <1>1, <1>2, <1>6, <1>7, FadedVersed DEF Inv
<1>8. QED
  BY <1>5, <1>7

\* The end of a transaction: what the writer shows are the letters its updates leave.
LEMMA CommitGoesOn ==
  ASSUME WideChar = {}, Inv, Inv', NEW r \in Client, Commit(r), NEW w \in Client
  PROVE  GoesOn(w)
<1> SUFFICES ASSUME Solo(tx', announced', w)
             PROVE  /\ Solo(tx, announced, w)
                    /\ \A spot : Versed(spot, doc, announced, syncs, w) =>
                           \E new : Versed(new, doc', announced', syncs', w)
  BY DEF GoesOn
<1>1. doc' = doc /\ syncs' = syncs
  BY DEF Commit
<1>2. Ending(tx, tx', r)
  BY DEF Commit, EndOfTx, Inv, Shape, Ending, NoTx
<1>3. CASE tx[r].items = <<>> /\ tx[r].dels = <<>>
  <2>1. announced' = announced
    BY <1>3 DEF Commit
  <2>2. Solo(tx, announced, w)
    BY <1>2, <1>3, <2>1 DEF Solo, Ending
  <2>3. QED
    BY <1>1, <2>1, <2>2
<1>4. CASE ~(tx[r].items = <<>> /\ tx[r].dels = <<>>)
  <2>1. PICK u : Commits(r, u)
    BY <1>4, CommitAnnounces
  <2> DEFINE n == Len(announced[r])
             A == announced
             B == announced'
             d == doc[w]
  <2>2. /\ n \in Nat /\ Len(B[r]) = n + 1 /\ (\A k \in 1 .. n : B[r][k] = A[r][k])
        /\ B[r][n + 1].update = u
        /\ \A q \in Client \ {r} : B[q] = A[q]
        /\ Announces(doc[r], u, tx[r].items, tx[r].dels)
    BY <2>1 DEF Commits, Announcing
  <2>3. r = w
    <3>1. B[r] # <<>>
      BY <2>2
    <3>2. QED
      BY <3>1 DEF Solo
  <2>4. Solo(tx, announced, w)
    BY <1>2, <2>2, <2>3 DEF Solo, Ending
  <2>5. B[r][n + 1].shown = shown(doc[r])
    <3> DEFINE x == [update |-> encodeUpdateV1(doc[r], tx[r].items, tx[r].dels),
                     shown  |-> shown(doc[r]),
                     seen   |-> got[r]]
               old == A[r]
    <3>1. B[r] = Append(old, x)
      BY <1>4 DEF Commit, Inv, Shape
    <3>2. \E S : old \in Seq(S)
      BY DEF Inv, Shape
    <3>3. x.shown = shown(doc[r])
      OBVIOUS
    <3> HIDE DEF x, old
    <3>4. B[r][Len(old) + 1] = x
      BY <3>1, <3>2
    <3>5. QED
      BY <3>3, <3>4 DEF old
  <2>6. ASSUME NEW spot, Versed(spot, doc, A, syncs, w) PROVE Versed(spot, doc, B, syncs, w)
    <3>1. Woven(spot, doc, A, w) /\ (syncs = 0 => Told(spot, doc, A, w)) /\ Solely(d, w) /\ Sound(d)
          /\ Lined(spot, d)
      BY <2>6, SettledSound DEF Versed, Woven, Inv
    <3> HIDE DEF n, A, B
    <3>2. Named(u)
      <4>1. ASSUME NEW j \in 1 .. Len(u.items), u.items[j].oleft = NoID PROVE u.items[j].list = Text
        <5>1. PICK i \in 1 .. Len(tx[w].items) : Spells(u.items[j], d.heap[tx[w].items[i]])
          BY <2>2, <2>3 DEF Announces
        <5>2. tx[w].items[i] \in Refs(d)
          <6> DEFINE a == tx[w].items
                     R == Refs(d)
          <6>1. a \in Seq(R) /\ i \in 1 .. Len(a)
            BY DEF Inv, Consistent, Settled, Opened
          <6> HIDE DEF a, R
          <6>2. a[i] \in R
            BY <6>1
          <6>3. QED
            BY <6>2 DEF a, R
        <5>3. QED
          BY <3>1, <4>1, <5>1, <5>2 DEF Spells, Says, Solely
      <4>2. QED
        BY <4>1 DEF Named
    <3>3. \A h \in 1 .. n + 1 : h \in 1 .. n \/ h = n + 1
      BY <2>2
    <3>4. \A h \in 1 .. Len(B[w]) : Named(B[w][h].update)
      BY <2>2, <2>3, <3>1, <3>2, <3>3 DEF Woven, n, A
    <3>5. Woven(spot, doc, B, w)
      BY <3>1, <3>4 DEF Woven
    <3>6. ASSUME syncs = 0 PROVE Told(spot, doc, B, w)
      <4>1. ASSUME NEW k \in 1 .. n
            PROVE  \E t : B[w][k].shown = OnlyText(t) /\ Spelt(t, Left(B, w, k), spot, d, w)
        <5>1. PICK t : A[w][k].shown = OnlyText(t) /\ Spelt(t, Left(A, w, k), spot, d, w)
          BY <2>3, <3>1, <3>6 DEF Told, n, A
        <5>2. B[w][k] = A[w][k] /\ \A h \in 1 .. k : B[w][h] = A[w][h]
          BY <2>2, <2>3
        <5>3. Left(B, w, k) = Left(A, w, k)
          BY <5>2 DEF Left
        <5>4. QED
          BY <5>1, <5>2, <5>3
      <4>2. Clocks(d) = Left(B, w, n + 1)
        <5>1. Consistent(doc', tx', B, got', 0)
          BY <1>1, <3>6 DEF Inv, B
        <5>2. \A q \in Client \ {w} : B[q] = <<>>
          BY DEF Solo, B
        <5>3. tx'[w].items = <<>> /\ tx'[w].dels = <<>>
          BY <1>2, <2>3 DEF Ending
        <5>4. got'[w][w] = 1 .. Len(B[w])
          BY <5>1 DEF Consistent, Settled, Received
        <5>5. got'[w][w] = 1 .. (n + 1) /\ n + 1 \in Nat
          BY <2>2, <2>3, <5>4
        <5>6. Solely(doc'[w], w) /\ doc'[w] = d
          BY <1>1, <3>1
        <5> HIDE DEF d
        <5>7. Clocks(doc'[w]) = Left(B, w, n + 1)
          BY <5>1, <5>2, <5>3, <5>5, <5>6, AliveClocks
        <5>8. QED
          BY <5>6, <5>7
      <4>3. Spelt(visible(d, Text), Clocks(d), spot, d, w)
        <5>1. \A k \in Refs(d) : d.heap[k].str = Letter(d, w, d.heap[k].id.clock).str
          BY <3>1, LettersOf DEF Inv
        <5> HIDE DEF d
        <5>2. QED
          BY <3>1, <5>1, LinedSpells
      <4>4. B[w][n + 1].shown = OnlyText(visible(d, Text))
        <5>1. B[w][n + 1].shown = shown(d)
          BY <2>3, <2>5
        <5> HIDE DEF d
        <5>2. QED
          BY <3>1, <5>1, ShownIsText
      <4>5. ASSUME NEW k \in 1 .. n + 1
            PROVE  \E t : B[w][k].shown = OnlyText(t) /\ Spelt(t, Left(B, w, k), spot, d, w)
        <5>1. CASE k \in 1 .. n
          BY <4>1, <5>1
        <5>2. CASE k = n + 1
          BY <4>2, <4>3, <4>4, <5>2
        <5>3. QED
          BY <3>3, <5>1, <5>2
      <4>6. QED
        BY <2>2, <2>3, <4>5 DEF Told
    <3>7. QED
      BY <3>5, <3>6 DEF Versed
  <2>7. QED
    BY <1>1, <2>4, <2>6
<1>5. QED
  BY <1>3, <1>4

\* An update comes.
LEMMA DeliverGoesOn ==
  ASSUME Inv, NEW r \in Client, NEW s \in Client, NEW k \in DOMAIN announced[s], Deliver(r, s, k),
         NEW w \in Client
  PROVE  GoesOn(w)
<1> DEFINE u == announced[s][k].update
<1>1. k \in 1 .. Len(announced[s]) /\ Meant(doc, u)
  BY AnnouncedMeans
<1>2. Readable(doc[r], u.items)
  BY <1>1, SentReadable DEF Inv, Deliver, HandOver
<1>3. Replaces(doc, doc', r, ApplyUpdate(doc[r], u)) /\ announced' = announced /\ tx' = tx /\ syncs' = syncs
  BY DEF Deliver, Inv, Shape, Replaces
<1>4. ASSUME NEW spot, Solo(tx, announced, w), Versed(spot, doc, announced, syncs, w)
      PROVE  Versed(spot, doc', announced, syncs, w)
  <2>1. s = w
    <3>1. announced[s] # <<>>
      BY <1>1
    <3>2. QED
      BY <1>4, <3>1 DEF Solo
  <2>2. Named(u)
    BY <1>1, <1>4, <2>1 DEF Versed, Woven
  <2> HIDE DEF u
  <2>3. QED
    BY <1>1, <1>2, <1>3, <1>4, <2>2, JoinedVersed DEF Inv
<1>5. QED
  BY <1>3, <1>4 DEF GoesOn

\* An exchange of states.
LEMMA SyncGoesOn ==
  ASSUME WideChar = {}, Inv, NEW r \in Client, NEW s \in Client, Sync(r, s), NEW w \in Client
  PROVE  GoesOn(w)
<1> DEFINE u == EncodeStateAsUpdate(doc[s], stateVector(doc[r]))
<1>1. /\ Replaces(doc, doc', r, ApplyUpdate(doc[r], u)) /\ announced' = announced /\ tx' = tx
      /\ syncs' = syncs + 1 /\ syncs \in Nat
  BY DEF Sync, Inv, Shape, Replaces
<1>2. u = EncodeStateAsUpdate(doc[s], stateVector(doc[r]))
  OBVIOUS
<1> HIDE DEF u
<1>3. /\ Meant(doc, u) /\ Readable(doc[r], u.items)
      /\ \A j \in 1 .. Len(u.items) : \E k \in Refs(doc[s]) : Spells(u.items[j], doc[s].heap[k])
  BY <1>2, SyncUpdates DEF Inv
<1>4. ASSUME NEW spot, Versed(spot, doc, announced, syncs, w)
      PROVE  Versed(spot, doc', announced, syncs', w)
  <2>1. Named(u)
    BY <1>3, <1>4 DEF Named, Versed, Woven, Solely, Spells, Says
  <2>2. syncs' = 0 => syncs = 0
    BY <1>1
  <2>3. QED
    BY <1>1, <1>3, <1>4, <2>1, <2>2, JoinedVersed DEF Inv
<1>5. QED
  BY <1>1, <1>4 DEF GoesOn

\* Every step.
LEMMA StepGoesOn ==
  ASSUME OneCharacter, Inv, [Next]_vars, NEW w \in Client
  PROVE  GoesOn(w)
<1>0. Inv' /\ WideChar = {}
  BY StepInv DEF OneCharacter
<1>1. ASSUME NEW r \in Client, NEW n \in InsertLen, NEW i \in Indexes(r), TextInsert(r, i, n) PROVE GoesOn(w)
  <2>1. TextInsert(r, i, 1)
    BY <1>1 DEF OneCharacter
  <2>2. QED
    BY <2>1, InsertGoesOn
<1>2. ASSUME NEW r \in Client, NEW n \in DeleteLen, NEW i \in Indexes(r), TextDelete(r, i, n) PROVE GoesOn(w)
  BY <1>2, TextDeleteMeans, DeleteGoesOn
<1>3. ASSUME NEW r \in Client, Commit(r) PROVE GoesOn(w)
  BY <1>0, <1>3, CommitGoesOn
<1>4. ASSUME NEW r \in Client, NEW s \in Client, NEW k \in DOMAIN announced[s], Deliver(r, s, k) PROVE GoesOn(w)
  BY <1>4, DeliverGoesOn
<1>5. ASSUME NEW r \in Client, NEW s \in Client, Sync(r, s) PROVE GoesOn(w)
  BY <1>0, <1>5, SyncGoesOn
<1>6. CASE UNCHANGED vars
  BY <1>6 DEF vars, GoesOn
<1>7. QED
  BY <1>1, <1>2, <1>3, <1>4, <1>5, <1>6 DEF Next, Exchange

\* An empty document is one that w may type in or send to.
LEMMA EmptyViews ==
  ASSUME NEW w, NEW spot
  PROVE  Viewer(spot, EmptyDoc, w)
<1> DEFINE d == EmptyDoc
           s == Row(d, Text)
           R == Refs(d)
<1>1. Sound(d) /\ R = {} /\ Text \in List
  BY EmptySound, TextAssumption
<1> HIDE DEF d
<1>2. Len(s) \in Nat /\ \A i \in 1 .. Len(s) : s[i] \in R
  BY <1>1, RowFollows
<1>3. Len(s) = 0
  BY <1>1, <1>2
<1> HIDE DEF s
<1>4. Ascends(spot, d, s)
  BY <1>3 DEF Ascends
<1>5. Solely(d, w)
  BY <1>1 DEF Solely
<1>6. Alive(d) = {}
  BY <1>1 DEF Alive
<1>7. Lined(spot, d)
  BY <1>4, <1>6 DEF Lined, s
<1>8. Tidy(d)
  BY <1>1, <1>3 DEF Tidy, s
<1>9. QED
  BY <1>1, <1>5, <1>7, <1>8 DEF Viewer, d

-----------------------------------------------------------------------------
(***************************************************************************)
(* What goes on as long as w is the only one to edit.                      *)
(***************************************************************************)
\* A transaction without edits has no items; updates come in the order they were sent.
Simple ==
    /\ \A r \in Client : tx[r].ops = 0 => tx[r].items = <<>> /\ tx[r].dels = <<>>
    /\ \A r, s \in Client : r # s => \A k \in got[r][s] : 1 .. k - 1 \subseteq got[r][s]

Version ==
    /\ Simple
    /\ \A w \in Client : Solo(tx, announced, w) => \E spot : Versed(spot, doc, announced, syncs, w)

LEMMA InitVersion == Init => Version
<1> SUFFICES ASSUME Init PROVE Version
  OBVIOUS
<1>1. Simple
  BY DEF Init, NoTx, Simple
<1>2. ASSUME NEW w \in Client PROVE \E spot : Versed(spot, doc, announced, syncs, w)
  <2> DEFINE spot == [a \in Nat |-> 0]
  <2>1. \A r \in Client : doc[r] = EmptyDoc /\ announced[r] = <<>>
    BY DEF Init
  <2>2. spot \in [Nat -> Nat]
    OBVIOUS
  <2> HIDE DEF spot
  <2>3. \A r \in Client : Solely(doc[r], w) /\ Lined(spot, doc[r]) /\ Tidy(doc[r])
    BY <2>1, EmptyViews DEF Viewer
  <2>4. Len(doc[w].store[w]) = 0 /\ Len(announced[w]) = 0
    BY <2>1, EmptySound
  <2>5. Weaves(spot, doc[w], w)
    BY <2>2, <2>4 DEF Weaves
  <2>6. Woven(spot, doc, announced, w)
    BY <2>3, <2>4, <2>5 DEF Woven
  <2>7. Told(spot, doc, announced, w)
    BY <2>4 DEF Told
  <2>8. QED
    BY <2>6, <2>7 DEF Versed
<1>3. QED
  BY <1>1, <1>2 DEF Version

LEMMA StepSimple ==
  ASSUME OneCharacter
  PROVE  Inv /\ Simple /\ [Next]_vars => Simple'
<1> SUFFICES ASSUME Inv, Simple, [Next]_vars PROVE Simple'
  OBVIOUS
<1>1. ASSUME NEW r \in Client, NEW n \in Nat, NEW d, NEW refs, Inserts(r, d, refs, n) PROVE Simple'
  <2>1. got' = got
    BY <1>1 DEF Inserts
  <2>2. tx'[r].ops = tx[r].ops + 1 /\ \A q \in Client \ {r} : tx'[q] = tx[q]
    <3> DEFINE old == tx[r]
               new == old.items \o refs
    <3>1. tx'[r] = [old EXCEPT !.open = TRUE, !.ops = @ + 1, !.items = new]
          /\ \A q \in Client \ {r} : tx'[q] = tx[q]
      BY <1>1 DEF Inserts, Inv, Shape
    <3>2. old \in TxType
      BY TxFields DEF Inv
    <3> HIDE DEF old, new
    <3>3. tx'[r].ops = old.ops + 1
      BY <3>1, <3>2 DEF TxType
    <3>4. QED
      BY <3>1, <3>3 DEF old
  <2>3. tx[r].ops + 1 # 0
    BY TxFields, BoundAssumption DEF Inv
  <2>4. QED
    BY <2>1, <2>2, <2>3 DEF Simple
<1>2. ASSUME NEW r \in Client, NEW result, Deletes(r, result) PROVE Simple'
  <2>1. got' = got
    BY <1>2 DEF Deletes
  <2>2. tx'[r].ops = tx[r].ops + 1 /\ \A q \in Client \ {r} : tx'[q] = tx[q]
    <3> DEFINE old == tx[r]
               new == old.dels \o result.dels
    <3>1. tx'[r] = [old EXCEPT !.open = TRUE, !.ops = @ + 1, !.dels = new]
          /\ \A q \in Client \ {r} : tx'[q] = tx[q]
      BY <1>2 DEF Deletes, Inv, Shape
    <3>2. old \in TxType
      BY TxFields DEF Inv
    <3> HIDE DEF old, new
    <3>3. tx'[r].ops = old.ops + 1
      BY <3>1, <3>2 DEF TxType
    <3>4. QED
      BY <3>1, <3>3 DEF old
  <2>3. tx[r].ops + 1 # 0
    BY TxFields, BoundAssumption DEF Inv
  <2>4. QED
    BY <2>1, <2>2, <2>3 DEF Simple
<1>3. ASSUME NEW r \in Client, Commit(r) PROVE Simple'
  <2>1. tx'[r].items = <<>> /\ tx'[r].dels = <<>> /\ \A q \in Client \ {r} : tx'[q] = tx[q]
    BY <1>3 DEF Commit, EndOfTx, Inv, Shape, NoTx
  <2>2. \A q, s \in Client : q # s => got'[q][s] = got[q][s]
    <3>1. CASE got' = got
      BY <3>1
    <3>2. ASSUME NEW new, got' = [got EXCEPT ![r][r] = new]
          PROVE  \A q, s \in Client : q # s => got'[q][s] = got[q][s]
      BY <3>2 DEF Inv, Shape
    <3>3. QED
      BY <1>3, <3>1, <3>2 DEF Commit
  <2>3. QED
    BY <2>1, <2>2 DEF Simple
<1>4. ASSUME NEW r \in Client, NEW s \in Client, NEW k \in DOMAIN announced[s], Deliver(r, s, k) PROVE Simple'
  <2>1. tx' = tx /\ r # s /\ 1 .. k - 1 \subseteq got[r][s] /\ got' = [got EXCEPT ![r][s] = @ \cup {k}]
    BY <1>4 DEF Deliver, HandOver
  <2>2. got'[r][s] = got[r][s] \cup {k}
    BY <2>1 DEF Inv, Shape
  <2>3. \A p, q \in Client : p # r \/ q # s => got'[p][q] = got[p][q]
    BY <2>1 DEF Inv, Shape
  <2>4. QED
    BY <2>1, <2>2, <2>3 DEF Simple
<1>5. ASSUME NEW r \in Client, NEW s \in Client, Sync(r, s) PROVE Simple'
  BY <1>5 DEF Sync, Simple
<1>6. CASE UNCHANGED vars
  BY <1>6 DEF vars, Simple
<1>7. ASSUME NEW r \in Client, NEW n \in InsertLen, NEW i \in Indexes(r), TextInsert(r, i, n) PROVE Simple'
  <2>1. TextInsert(r, i, 1)
    BY <1>7 DEF OneCharacter
  <2>2. QED
    BY <1>1, <2>1, TextInsertMeans
<1>8. ASSUME NEW r \in Client, NEW n \in DeleteLen, NEW i \in Indexes(r), TextDelete(r, i, n) PROVE Simple'
  BY <1>2, <1>8 DEF TextDelete
<1>9. QED
  BY <1>3, <1>4, <1>5, <1>6, <1>7, <1>8 DEF Next, Exchange

\* As long as the others do not edit, there is such an order of places.
LEMMA SpecVersion ==
  ASSUME OneCharacter
  PROVE  Spec => [](Inv /\ Version)
<1>1. Init => Inv /\ Version
  BY InitInv, InitVersion
<1>2. Inv /\ Version /\ [Next]_vars => Inv' /\ Version'
  <2> SUFFICES ASSUME Inv, Version, [Next]_vars PROVE Inv' /\ Version'
    OBVIOUS
  <2>1. Inv' /\ Simple'
    BY StepInv, StepSimple DEF Version
  <2>2. ASSUME NEW w \in Client, Solo(tx', announced', w)
        PROVE  \E spot : Versed(spot, doc', announced', syncs', w)
    BY <2>2, StepGoesOn DEF Version, GoesOn
  <2>3. QED
    BY <2>1, <2>2 DEF Version
<1>3. QED
  BY <1>1, <1>2, PTL DEF Spec

-----------------------------------------------------------------------------
(***************************************************************************)
(* What viewers and snapshots show.                                        *)
(***************************************************************************)
\* Numbers that come with all that are lower are the first ones.
LEMMA FirstOnes ==
  ASSUME NEW N \in Nat, NEW S, S \subseteq 1 .. N, \A k \in S : 1 .. k - 1 \subseteq S
  PROVE  Cardinality(S) \in 0 .. N /\ S = 1 .. Cardinality(S)
<1> DEFINE Missing == { m \in Nat : m + 1 \notin S }
           n == Min(Missing)
<1>1. N \in Missing /\ Missing \subseteq Nat
  OBVIOUS
<1>2. n \in Missing /\ \A x \in Missing : n <= x
  <2> HIDE DEF Missing
  <2> QED BY <1>1, LeastOf
<1>3. n \in Nat /\ n + 1 \notin S /\ n <= N
  BY <1>1, <1>2
<1>4. \A m \in Nat : m < n => m + 1 \in S
  <2> HIDE DEF n
  <2> QED BY <1>2, <1>3
<1> HIDE DEF n, Missing
<1>5. ASSUME NEW k \in 1 .. n PROVE k \in S
  <2>1. k - 1 \in Nat /\ k - 1 < n /\ (k - 1) + 1 = k
    BY <1>3
  <2>2. QED
    BY <1>4, <2>1
<1>6. ASSUME NEW k \in S PROVE k \in 1 .. n
  <2>1. k \in 1 .. N
    OBVIOUS
  <2>2. CASE k <= n
    BY <1>3, <2>1, <2>2
  <2>3. CASE k = n + 1
    BY <1>3, <2>3
  <2>4. CASE n + 1 < k
    <3>1. n + 1 \in 1 .. k - 1
      BY <1>3, <2>1, <2>4
    <3>2. QED
      BY <1>3, <3>1
  <2>5. QED
    BY <1>3, <2>1, <2>2, <2>3, <2>4
<1>7. S = 1 .. n
  BY <1>5, <1>6
<1>8. Cardinality(1 .. n) = n
  BY <1>3, FS_Interval
<1>9. QED
  BY <1>3, <1>7, <1>8

\* A viewer that has the first n updates of w shows the letters they leave.
LEMMA ViewerShows ==
  ASSUME Inv, syncs = 0, NEW w \in Client, Solo(tx, announced, w),
         NEW spot, Versed(spot, doc, announced, syncs, w),
         NEW v \in Client \ {w}, NEW n \in 0 .. Len(announced[w]), got[v][w] = 1 .. n
  PROVE  shown(doc[v]) = IF n = 0 THEN [l \in List |-> <<>>] ELSE announced[w][n].shown
<1> DEFINE d == doc[v]
           W == doc[w]
<1>1. /\ Sound(d) /\ Solely(d, w) /\ Lined(spot, d) /\ Weaves(spot, W, w)
      /\ Told(spot, doc, announced, w)
  BY SettledSound DEF Inv, Versed, Woven
<1>2. Clocks(d) = Left(announced, w, n)
  <2>1. /\ Consistent(doc, tx, announced, got, 0) /\ tx[v].items = <<>> /\ tx[v].dels = <<>>
        /\ (\A q \in Client \ {w} : announced[q] = <<>>) /\ n \in Nat
    BY DEF Inv, Solo
  <2>2. Solely(doc[v], w)
    BY <1>1
  <2>3. Clocks(doc[v]) = Left(announced, w, n)
    BY <2>1, <2>2, AliveClocks
  <2>4. QED
    BY <2>3
<1>3. \A k \in Refs(d) : d.heap[k].str = Letter(W, w, d.heap[k].id.clock).str
  BY <1>1, LettersOf DEF Inv
<1> HIDE DEF d, W
<1> DEFINE t == visible(d, Text)
<1>4. Spelt(t, Clocks(d), spot, W, w)
  BY <1>1, <1>3, LinedSpells
<1>5. shown(d) = OnlyText(t)
  BY <1>1, ShownIsText
<1> HIDE DEF t
<1>6. CASE n = 0
  <2>1. Left(announced, w, n) = {}
    BY <1>6 DEF Left
  <2>2. PICK s \in Seq(Nat) : /\ \A c : c \in Clocks(d) <=> Has(s, c)
                              /\ t = [i \in 1 .. Len(s) |-> Letter(W, w, s[i]).str[1]]
    BY <1>4 DEF Spelt
  <2>3. Len(s) = 0
    <3>1. Len(s) \in Nat
      BY <2>2
    <3>2. \A i \in 1 .. Len(s) : Has(s, s[i])
      BY DEF Has
    <3>3. QED
      BY <1>2, <2>1, <2>2, <3>1, <3>2
  <2>4. t = <<>>
    BY <2>2, <2>3
  <2>5. OnlyText(t) = [l \in List |-> <<>>]
    BY <2>4 DEF OnlyText
  <2>6. QED
    BY <1>5, <1>6, <2>5 DEF d
<1>7. CASE n # 0
  <2>1. n \in 1 .. Len(announced[w])
    BY <1>7
  <2>2. PICK u : announced[w][n].shown = OnlyText(u) /\ Spelt(u, Left(announced, w, n), spot, W, w)
    BY <1>1, <2>1 DEF Told, W
  <2>3. spot \in [Nat -> Nat]
    BY <1>1 DEF Weaves
  <2>4. t = u
    BY <1>2, <1>4, <2>2, <2>3, SpeltOnce
  <2>5. QED
    BY <1>5, <1>7, <2>2, <2>4 DEF d
<1>8. QED
  BY <1>6, <1>7

\* Every peer shows what the only one that announces updates showed with the last update
\* that came: integration puts the items where they were typed, and applies no deletion
\* before its time or again.
THEOREM TextViewers ==
  ASSUME OneCharacter
  PROVE  Spec => []ViewersShowAVersion
<1>1. Inv /\ Version => ViewersShowAVersion
  <2> SUFFICES ASSUME Inv, Version, syncs = 0, NEW w \in Writer,
                      \A r \in Client \ {w} : announced[r] = <<>> /\ tx[r].ops = 0,
                      NEW v \in Client \ {w}
               PROVE  LET n == Cardinality(got[v][w])
                      IN  shown(doc[v]) = IF n = 0 THEN [l \in List |-> <<>>]
                                          ELSE announced[w][n].shown
    BY DEF ViewersShowAVersion
  <2>1. w \in Client
    BY ReplicaAssumption
  <2>2. Solo(tx, announced, w)
    BY DEF Version, Simple, Solo
  <2>3. PICK spot : Versed(spot, doc, announced, syncs, w)
    BY <2>1, <2>2 DEF Version
  <2> DEFINE S == got[v][w]
             N == Len(announced[w])
             n == Cardinality(S)
  <2>4. N \in Nat
    BY <2>1 DEF Inv, Shape
  <2>5. S \subseteq 1 .. N
    BY <2>1 DEF Inv, Consistent, Settled, Received
  <2>6. \A k \in S : 1 .. k - 1 \subseteq S
    BY <2>1 DEF Version, Simple
  <2>7. n \in 0 .. N /\ S = 1 .. n
    <3> HIDE DEF S, N
    <3> QED BY <2>4, <2>5, <2>6, FirstOnes
  <2>8. QED
    BY <2>1, <2>2, <2>3, <2>7, ViewerShows
<1>2. QED
  BY <1>1, SpecVersion, PTL

\* u holds all items of d and deletes nothing, and e is what it makes of an empty document.
Restores(d, e, u) ==
    /\ u.items \in Seq(ItemType) /\ u.dels = <<>> /\ Readable(EmptyDoc, u.items)
    /\ e = ApplyUpdate(EmptyDoc, u) /\ Updated(EmptyDoc, e, u)
    /\ \A j \in 1 .. Len(u.items) : \E k \in Refs(d) : Spells(u.items[j], d.heap[k])
    /\ \A k \in Refs(d) : \E j \in 1 .. Len(u.items) : u.items[j].id = d.heap[k].id

\* A document made of the state of another one, which sends all it has and no deletions.
LEMMA RestoredIs ==
  ASSUME WideChar = {}, Client # {}, NEW d, Sound(d), NEW e, e = RestoreDoc(Snapshot(d))
  PROVE  \E u : Restores(d, e, u)
<1> DEFINE u == EncodeStateAsUpdate(d, stateVector(EmptyDoc))
<1>1. stateVector(EmptyDoc) = [c \in Client |-> 0]
  BY EmptySound DEF stateVector, getState
<1>2. e = ApplyUpdate(EmptyDoc, u)
  BY <1>1 DEF RestoreDoc, Snapshot
<1>3. u = EncodeStateAsUpdate(d, stateVector(EmptyDoc))
  OBVIOUS
<1> HIDE DEF u
<1>4. Whole(d) /\ Whole(EmptyDoc) /\ Sound(EmptyDoc)
  BY EmptySound DEF Sound
<1>5. /\ u.items \in Seq(ItemType) /\ u.dels = <<>>
      /\ Readable(EmptyDoc, u.items)
      /\ \A j \in 1 .. Len(u.items) : \E k \in Refs(d) : Spells(u.items[j], d.heap[k])
      /\ \A k \in Refs(d) :
            Held(EmptyDoc, d.heap[k].id) \/ \E j \in 1 .. Len(u.items) : u.items[j].id = d.heap[k].id
  BY <1>3, <1>4, EncodeStateAnswers
<1>6. \A k \in Refs(d) : ~Held(EmptyDoc, d.heap[k].id)
  <2> TAKE k \in Refs(d)
  <2>1. d.heap[k].id.client \in Client /\ d.heap[k].id.clock \in Nat
    BY <1>4, DocFields, ItemFields DEF Whole
  <2>2. Len(EmptyDoc.store[d.heap[k].id.client]) = 0
    BY <2>1, EmptySound
  <2>3. QED
    BY <2>1, <2>2 DEF Held
<1>7. u.dels \in Seq(Ranges)
  BY <1>5
<1>8. Updated(EmptyDoc, e, u)
  BY <1>2, <1>4, <1>5, <1>7, ApplyUpdateSound
<1>9. QED
  BY <1>2, <1>5, <1>6, <1>8 DEF Restores

\* As long as only w edits and nothing is deleted, the document restored from a snapshot
\* shows the same text.
LEMMA RestoredShows ==
  ASSUME WideChar = {}, Inv, NEW w \in Client, NEW spot, Woven(spot, doc, announced, w),
         NEW r \in Client, \A k \in Refs(doc[r]) : ~doc[r].heap[k].deleted
  PROVE  visible(RestoreDoc(Snapshot(doc[r])), Text) = visible(doc[r], Text)
<1> DEFINE d == doc[r]
           W == doc[w]
           e == RestoreDoc(Snapshot(d))
<1>1. /\ Sound(d) /\ Solely(d, w) /\ Lined(spot, d) /\ Sound(W) /\ Weaves(spot, W, w)
      /\ spot \in [Nat -> Nat]
  BY SettledSound DEF Inv, Woven, Weaves
<1>2. ASSUME NEW k \in Refs(d)
      PROVE  LET it == d.heap[k]
                 c == it.id.clock
             IN  /\ c \in 0 .. Len(W.store[w]) - 1
                 /\ it.str = Letter(W, w, c).str /\ it.oleft = Letter(W, w, c).oleft
  BY <1>1, LettersOf DEF Inv
<1>3. /\ e = RestoreDoc(Snapshot(d)) /\ Len(W.store[w]) \in Nat /\ Client # {}
      /\ \A k \in Refs(d) : ~d.heap[k].deleted
  BY SettledSound DEF Inv
<1> HIDE DEF d, e, W
<1>4. PICK u : Restores(d, e, u)
  BY <1>1, <1>3, RestoredIs
<1>5. ASSUME NEW j \in 1 .. Len(u.items) PROVE Brings(W, w, u.items[j])
  <2> DEFINE it == u.items[j]
  <2>1. PICK k \in Refs(d) : Spells(it, d.heap[k])
    BY <1>4 DEF Restores
  <2>2. Wire(it)
    BY <1>4 DEF Restores, Readable
  <2>3. it.id = d.heap[k].id /\ it.oleft = d.heap[k].oleft /\ (it.oleft = NoID => it.list = d.heap[k].list)
    BY <2>1 DEF Spells, Says
  <2>4. /\ it.id.client = w /\ d.heap[k].list = Text
        /\ it.oleft # NoID => it.oleft.client = w /\ it.oleft.clock < it.id.clock
    BY <1>1, <2>3 DEF Solely
  <2>5. it.id.clock < Len(W.store[w]) /\ it.oleft = Letter(W, w, it.id.clock).oleft
    BY <1>2, <1>3, <2>3
  <2> HIDE DEF it
  <2>6. Brings(W, w, it)
    BY <2>2, <2>3, <2>4, <2>5 DEF Brings
  <2>7. QED
    BY <2>6 DEF it
<1>6. Viewer(spot, e, w)
  <2>1. Carries(W, w, u)
    BY <1>5 DEF Carries
  <2>2. Viewer(spot, EmptyDoc, w) /\ Sound(EmptyDoc)
    BY EmptyViews, EmptySound
  <2>3. u.dels \in Seq(Ranges)
    BY <1>4 DEF Restores
  <2>4. QED
    BY <1>1, <1>4, <2>1, <2>2, <2>3, UpdateTakes DEF Restores
<1>7. Sound(e) /\ Whole(e) /\ Lined(spot, e)
  BY <1>6 DEF Viewer, Sound
<1>8. ASSUME NEW k \in Refs(e)
      PROVE  /\ ~e.heap[k].deleted
             /\ \E j \in Refs(d) : e.heap[k].id = d.heap[j].id /\ e.heap[k].str = d.heap[j].str
  <2>1. k \notin Refs(EmptyDoc)
    BY EmptySound
  <2>2. PICK j \in 1 .. Len(u.items) : e.heap[k].id = u.items[j].id /\ e.heap[k].str = u.items[j].str
    BY <1>4, <2>1 DEF Restores, Updated
  <2>3. \E h \in Refs(d) : e.heap[k].id = d.heap[h].id /\ e.heap[k].str = d.heap[h].str
    BY <1>4, <2>2 DEF Restores, Spells, Says
  <2>4. e.ds = <<>>
    BY <1>4, EmptySound DEF Restores, Updated
  <2>5. ~isDeleted(e, e.heap[k].id)
    BY <2>4 DEF isDeleted
  <2>6. ~e.heap[k].deleted
    BY <1>4, <2>1, <2>5 DEF Restores, Updated
  <2>7. QED
    BY <2>3, <2>6
<1>9. ASSUME NEW j \in Refs(d) PROVE \E k \in Refs(e) : e.heap[k].id = d.heap[j].id
  <2>1. Held(e, d.heap[j].id)
    BY <1>4 DEF Restores, Updated
  <2>2. d.heap[j].id \in IdType
    BY <1>1, DocFields, ItemFields DEF Sound, Whole
  <2>3. QED
    BY <1>7, <2>1, <2>2, getItemFinds
<1>10. Clocks(e) = Clocks(d)
  <2>1. Alive(e) = Refs(e) /\ Alive(d) = Refs(d)
    BY <1>3, <1>8 DEF Alive
  <2>2. ASSUME NEW c PROVE c \in Clocks(e) <=> c \in Clocks(d)
    BY <1>8, <1>9, <2>1 DEF Clocks
  <2>3. QED
    BY <2>2
<1>11. \A k \in Refs(e) : e.heap[k].str = Letter(W, w, e.heap[k].id.clock).str
  BY <1>2, <1>8
<1> DEFINE t == visible(d, Text)
           v == visible(e, Text)
<1>12. Spelt(t, Clocks(d), spot, W, w) /\ Spelt(v, Clocks(d), spot, W, w)
  <2>1. \A k \in Refs(d) : d.heap[k].str = Letter(W, w, d.heap[k].id.clock).str
    BY <1>2
  <2>2. Spelt(t, Clocks(d), spot, W, w)
    BY <1>1, <2>1, LinedSpells
  <2>3. Spelt(v, Clocks(e), spot, W, w)
    BY <1>7, <1>11, LinedSpells
  <2>4. QED
    BY <1>10, <2>2, <2>3
<1> HIDE DEF t, v
<1>13. v = t
  BY <1>1, <1>12, SpeltOnce
<1>14. QED
  BY <1>13 DEF t, v, e, d

\* Only w edits.
LEMMA StepAlone ==
  ASSUME OneCharacter, NEW w \in Client, Writer \subseteq {w}
  PROVE  Inv /\ Solo(tx, announced, w) /\ [Next]_vars => Solo(tx', announced', w)
<1> SUFFICES ASSUME Inv, Solo(tx, announced, w), [Next]_vars PROVE Solo(tx', announced', w)
  OBVIOUS
<1>1. ASSUME NEW r \in Client, NEW n \in Nat, NEW d, NEW refs, Inserts(r, d, refs, n)
      PROVE  Solo(tx', announced', w)
  <2>1. r = w
    BY <1>1 DEF Inserts, Editing
  <2>2. announced' = announced /\ \A q \in Client \ {w} : tx'[q] = tx[q]
    BY <1>1, <2>1 DEF Inserts, Inv, Shape
  <2>3. QED
    BY <2>2 DEF Solo
<1>2. ASSUME NEW r \in Client, NEW result, Deletes(r, result) PROVE Solo(tx', announced', w)
  <2>1. r = w
    BY <1>2 DEF Deletes, Editing
  <2>2. announced' = announced /\ \A q \in Client \ {w} : tx'[q] = tx[q]
    BY <1>2, <2>1 DEF Deletes, Inv, Shape
  <2>3. QED
    BY <2>2 DEF Solo
<1>3. ASSUME NEW r \in Client, Commit(r) PROVE Solo(tx', announced', w)
  <2>1. tx'[r].items = <<>> /\ tx'[r].dels = <<>> /\ \A q \in Client \ {r} : tx'[q] = tx[q]
    BY <1>3 DEF Commit, EndOfTx, Inv, Shape, NoTx
  <2>2. \A q \in Client \ {w} : announced'[q] = announced[q]
    <3>1. CASE r = w
      BY <1>3, <3>1 DEF Commit, Inv, Shape
    <3>2. CASE r # w
      BY <1>3, <3>2 DEF Commit, Solo
    <3>3. QED
      BY <3>1, <3>2
  <2>3. QED
    BY <2>1, <2>2 DEF Solo
<1>4. ASSUME NEW r \in Client, NEW s \in Client, NEW k \in DOMAIN announced[s], Deliver(r, s, k)
      PROVE  Solo(tx', announced', w)
  BY <1>4 DEF Deliver
<1>5. ASSUME NEW r \in Client, NEW s \in Client, Sync(r, s) PROVE Solo(tx', announced', w)
  BY <1>5 DEF Sync
<1>6. CASE UNCHANGED vars
  BY <1>6 DEF vars
<1>7. ASSUME NEW r \in Client, NEW n \in InsertLen, NEW i \in Indexes(r), TextInsert(r, i, n)
      PROVE  Solo(tx', announced', w)
  <2>1. TextInsert(r, i, 1)
    BY <1>7 DEF OneCharacter
  <2>2. QED
    BY <1>1, <2>1, TextInsertMeans
<1>8. ASSUME NEW r \in Client, NEW n \in DeleteLen, NEW i \in Indexes(r), TextDelete(r, i, n)
      PROVE  Solo(tx', announced', w)
  BY <1>2, <1>8 DEF TextDelete
<1>9. QED
  BY <1>3, <1>4, <1>5, <1>6, <1>7, <1>8 DEF Next, Exchange

\* With one writer, a snapshot keeps a text in which nothing was deleted: restoring it
\* puts every item where it was typed.
THEOREM TextSnapshot ==
  ASSUME OneCharacter, NEW w \in Client, Writer \subseteq {w}
  PROVE  Spec => []SnapshotKeepsInsertions
<1> DEFINE Alone == Solo(tx, announced, w)
<1>1. Init => Quiet /\ Alone
  <2>1. Init => Alone
    BY DEF Init, NoTx, Solo
  <2>2. QED
    BY <2>1, InitQuiet
<1>2. Inv /\ Quiet /\ Alone /\ [Next]_vars => Quiet' /\ Alone'
  BY StepQuiet, StepAlone
<1>3. Inv /\ Version /\ Quiet /\ Alone => SnapshotKeepsInsertions
  <2> SUFFICES ASSUME Inv, Version, Quiet, Alone, deletes = 0, NEW r \in Client
               PROVE  visible(RestoreDoc(Snapshot(doc[r])), Text) = TextOf(r)
    BY DEF SnapshotKeepsInsertions
  <2>1. \A k \in Refs(doc[r]) : ~doc[r].heap[k].deleted
    BY NothingDeleted DEF Quiet
  <2>2. PICK spot : Versed(spot, doc, announced, syncs, w)
    BY DEF Version
  <2>3. Woven(spot, doc, announced, w) /\ WideChar = {}
    BY <2>2 DEF Versed, OneCharacter
  <2>4. QED
    BY <2>1, <2>3, RestoredShows DEF TextOf
<1> HIDE DEF Alone
<1>4. QED
  BY <1>1, <1>2, <1>3, SpecVersion, PTL DEF Spec
===============================================================================
