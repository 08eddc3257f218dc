---------------------------- MODULE MCAwareness -----------------------------
(***************************************************************************)
(* Instances of Awareness for TLC.                                         *)
(***************************************************************************)
EXTENDS Awareness
=============================================================================
