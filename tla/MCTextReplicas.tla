--------------------------- MODULE MCTextReplicas ---------------------------
(***************************************************************************)
(* Instances of TextReplicas for TLC.                                      *)
(***************************************************************************)
EXTENDS TextReplicas

\* The peer of an instance with one peer.
Peer == CHOOSE r \in Client : TRUE

PeersBuffer == INSTANCE StringBuffer
               WITH text <- TextOf(Peer), MaxLen <- Max(InsertLen \cup DeleteLen)

\* A Text without remote peers implements a string buffer: nothing but a splice
\* or a cut ever changes what Text.String returns, neither the end of a
\* transaction nor the split of an item.
ImplementsBuffer == PeersBuffer!Spec
=============================================================================
