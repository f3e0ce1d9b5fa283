---------------------------- MODULE LoopAbstract ----------------------------
(***************************************************************************)
(* What the interval scheduler promises its caller and the signal          *)
(* controller (spec 4.1, 4.2), without time: reads run one at a time; a   *)
(* stop request, once made, stays made; no read starts after it; the loop *)
(* then returns 0 -- unless the sleep failed and it returned -1 first.    *)
(***************************************************************************)

VARIABLES
    state,  \* "wait" (between reads), "read", "done" (0), "failed" (-1)
    stop    \* stopRequested

vars == <<state, stop>>

Init == state = "wait" /\ stop = FALSE

StartRead == state = "wait" /\ ~stop /\ state' = "read" /\ UNCHANGED stop

EndRead == state = "read" /\ state' = "wait" /\ UNCHANGED stop

Return == state = "wait" /\ stop /\ state' = "done" /\ UNCHANGED stop

Fail == state = "wait" /\ state' = "failed" /\ UNCHANGED stop

RequestStop == stop' = TRUE /\ UNCHANGED state

Next == StartRead \/ EndRead \/ Return \/ Fail \/ RequestStop

\* A read in progress ends; between reads the loop either reads again or,
\* once stopped, returns.
Spec == Init /\ [][Next]_vars
          /\ WF_vars(StartRead) /\ WF_vars(EndRead) /\ WF_vars(Return)

=============================================================================
