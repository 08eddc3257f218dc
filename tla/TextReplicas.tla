---------------------------- MODULE TextReplicas ----------------------------
(***************************************************************************)
(* Peers that edit one shared Text.                                        *)
(***************************************************************************)
EXTENDS Replicas

CONSTANTS Text,    \* the root Text that is edited
          Slack    \* how far beyond the end of the text an index may lie

ASSUME TextAssumption == Text \in List \ Key /\ Slack \in Nat

TextOf(r) == visible(doc[r], Text)

TextInsert(r, i, n) ==
    LET d == Insert(doc[r], r, Text, i, [k \in 1 .. n |-> typed + k])
    IN  Inserts(r, d, IF d.panic THEN <<>> ELSE <<Len(d.heap)>>, n)

TextDelete(r, i, n) == Deletes(r, Delete(doc[r], Text, i, n))

Indexes(r) == 0 .. textLen(doc[r], Text) + Slack

Next ==
    \/ \E r \in Client, n \in InsertLen : \E i \in Indexes(r) : TextInsert(r, i, n)
    \/ \E r \in Client, n \in DeleteLen : \E i \in Indexes(r) : TextDelete(r, i, n)
    \/ Exchange

Spec == Init /\ [][Next]_vars

FairSpec == Spec /\ Fairness

(***************************************************************************)
(* One peer and its user.                                                  *)
(***************************************************************************)
Buffer(r) == INSTANCE StringBuffer
             WITH text <- TextOf(r), MaxLen <- Max(InsertLen \cup DeleteLen)

\* Text.Insert and Text.Delete splice and cut the visible string at the index
\* they are given, wherever it falls in items of several characters and however
\* many tombstones and split items the chain holds.
EditsHitTheirIndex ==
    [][\A r \in Client : \A i \in Indexes(r) :
          /\ \A n \in InsertLen : TextInsert(r, i, n) =>
                Buffer(r)!InsertAt(i, [k \in 1 .. n |-> typed + k])
          /\ \A n \in DeleteLen : TextDelete(r, i, n) => Buffer(r)!CutAt(i, n)]_vars

\* The clocks an item takes are the characters it holds, so that Text.Len counts
\* what Text.String returns, through every split (splitItemAt, splitAtClock).
LenIsTheText ==
    \A r \in Client :
        /\ textLen(doc[r], Text) = Len(TextOf(r))
        /\ \A k \in DOMAIN doc[r].heap : doc[r].heap[k].len > 0

(***************************************************************************)
(* Several writers.                                                        *)
(***************************************************************************)
\* Where updates come in causal order and nothing is deleted, integration loses
\* no item from the text and links none twice (integrateItem and Text.Insert
\* relink the same chain).
NoItemLost ==
    causal /\ deletes = 0 /\ syncs = 0 =>
        \A r \in Client :
            LET refs == chain(doc[r], doc[r].start[Text])
            IN  /\ IsInjective(refs)
                /\ Range(refs) = DOMAIN doc[r].heap

\* README: peers "converge to the same state when they exchange updates": those
\* that applied the same updates show the same text (lssIsBefore).
Converged ==
    \A r, s \in Client :
        got[r] = got[s] /\ ~tx[r].open /\ ~tx[s].open => TextOf(r) = TextOf(s)

(***************************************************************************)
(* One writer and its viewers.                                             *)
(***************************************************************************)
\* A restored snapshot of a document in which nothing was deleted shows the text
\* of the document (Doc.Snapshot, RestoreDoc).
SnapshotKeepsInsertions ==
    deletes = 0 => \A r \in Client : visible(RestoreDoc(Snapshot(doc[r])), Text) = TextOf(r)

\* Once the writer stops, every viewer comes to show its text and keeps to it.
ViewersCatchUp ==
    <>[](\A v \in Client \ Writer, w \in Writer : TextOf(v) = TextOf(w))

\* doc.go: "Pass the result to RestoreDoc to reconstruct a Doc with the same
\* state."
SnapshotKeepsTheText ==
    \A r \in Client : visible(RestoreDoc(Snapshot(doc[r])), Text) = TextOf(r)
=============================================================================
