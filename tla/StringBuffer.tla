---------------------------- MODULE StringBuffer ----------------------------
(***************************************************************************)
(* What a Text promises to the program that edits it: a string, into which *)
(* a string is spliced and from which a run of characters is cut.          *)
(***************************************************************************)
EXTENDS Integers, Sequences

CONSTANT MaxLen     \* bound: the longest string spliced in or cut out

VARIABLE text

Least(a, b) == IF a < b THEN a ELSE b

\* An index beyond the end is the end.
InsertAt(i, s) ==
    LET at == Least(i, Len(text))
    IN  text' = SubSeq(text, 1, at) \o s \o SubSeq(text, at + 1, Len(text))

\* Cutting stops at the end.
CutAt(i, n) ==
    text' = SubSeq(text, 1, Least(i, Len(text))) \o SubSeq(text, i + n + 1, Len(text))

Init == text = <<>>

\* Some n characters, those that text' has there, are spliced in at i.
Splice ==
    \E n \in 1 .. MaxLen :
        /\ Len(text') = Len(text) + n
        /\ \E i \in 0 .. Len(text) : InsertAt(i, SubSeq(text', i + 1, i + n))

Cut == \E i \in 0 .. Len(text), n \in 1 .. MaxLen : CutAt(i, n)

Next == Splice \/ Cut

Spec == Init /\ [][Next]_text
=============================================================================
