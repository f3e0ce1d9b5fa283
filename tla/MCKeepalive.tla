---------------------------- MODULE MCKeepalive ----------------------------
(* Model-checking instance of Keepalive: a slot of three ticks, a second  *)
(* of one tick, and two stop signals.                                     *)
EXTENDS Keepalive

=============================================================================
