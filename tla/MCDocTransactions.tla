------------------------- MODULE MCDocTransactions -------------------------
(***************************************************************************)
(* Instances of DocTransactions for TLC: the goroutines, calls and         *)
(* handlers are model values.                                              *)
(***************************************************************************)
EXTENDS DocTransactions

CONSTANTS g1, g2, t1, t2, a1, h1
=============================================================================
