----------------------------- MODULE MCReadLoop -----------------------------
(* Model-checking instance of ReadLoop: small interval, few signals.       *)
EXTENDS ReadLoop

\* 2-bit stand-in for the width of `int loop'; the passing runs deliver
\* fewer stop signals than it takes to wrap it.
MCLoopMod == 4

=============================================================================
