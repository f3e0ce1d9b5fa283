-------------------------- MODULE MCNotifyAddress --------------------------
(* Model-checking instance of NotifyAddress: a five-byte sun_path.        *)
EXTENDS NotifyAddress

=============================================================================
