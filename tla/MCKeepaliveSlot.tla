-------------------------- MODULE MCKeepaliveSlot --------------------------
(* Model-checking instance of KeepaliveSlot.                               *)
EXTENDS KeepaliveSlot

=============================================================================
