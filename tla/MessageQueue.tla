---------------------------- MODULE MessageQueue ----------------------------
(***************************************************************************)
(* What a stream of sync messages promises: the messages come out whole,   *)
(* in the order in which they went in.                                     *)
(***************************************************************************)
EXTENDS Naturals, Sequences

VARIABLES sent, got

Init == sent = <<>> /\ got = <<>>

Send ==
    /\ Len(sent') = Len(sent) + 1
    /\ SubSeq(sent', 1, Len(sent)) = sent
    /\ UNCHANGED got

Receive ==
    /\ Len(got) < Len(sent)
    /\ got' = Append(got, sent[Len(got) + 1])
    /\ UNCHANGED sent

Spec == Init /\ [][Send \/ Receive]_<<sent, got>>
=============================================================================
