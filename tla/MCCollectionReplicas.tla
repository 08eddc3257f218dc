------------------------ MODULE MCCollectionReplicas ------------------------
(***************************************************************************)
(* Instances of CollectionReplicas for TLC.                                *)
(***************************************************************************)
EXTENDS CollectionReplicas
=============================================================================
