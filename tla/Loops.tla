-------------------------------- MODULE Loops --------------------------------
(***************************************************************************)
(* Loops over a slice, as recursive functions, which the proofs unfold.    *)
(***************************************************************************)
EXTENDS Integers, Sequences

\* What a loop makes of acc that takes a turn for each element of seq.
Loop(Turn(_, _), acc, seq) ==
    LET after[n \in 0 .. Len(seq)] ==
            IF n = 0 THEN acc ELSE Turn(after[n - 1], seq[n])
    IN  after[Len(seq)]

\* The elements of seq that are in S, in the order of seq.
Among(seq, S) ==
    LET taken[n \in 0 .. Len(seq)] ==
            IF n = 0 THEN <<>>
            ELSE IF seq[n] \in S THEN Append(taken[n - 1], seq[n]) ELSE taken[n - 1]
    IN  taken[Len(seq)]
=============================================================================
