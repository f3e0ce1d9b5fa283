------------------------------ MODULE MCDaemon ------------------------------
(* Model-checking instance of Daemon.                                      *)
EXTENDS Daemon

=============================================================================
