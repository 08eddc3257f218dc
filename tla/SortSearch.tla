----------------------------- MODULE SortSearch -----------------------------
(***************************************************************************)
(* sort.Search, for the predicate that holds of the indices in found: the  *)
(* bisection itself, because the code also calls it on slices that are not *)
(* sorted.  One turn of its loop takes the interval i .. j to a half.      *)
(***************************************************************************)
EXTENDS Integers

Halve(b, found) ==
    LET h == (b.i + b.j) \div 2
    IN  IF b.i >= b.j THEN b
        ELSE IF h \in found THEN [b EXCEPT !.j = h] ELSE [b EXCEPT !.i = h + 1]

\* The loop has come to its end after n turns at the latest.
Search(n, found) ==
    LET turns[t \in Nat] == IF t = 0 THEN [i |-> 0, j |-> n] ELSE Halve(turns[t - 1], found)
    IN  turns[n].i
=============================================================================
