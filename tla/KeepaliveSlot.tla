---------------------------- MODULE KeepaliveSlot ----------------------------
(***************************************************************************)
(* The choice of the keepalive wakeup slot in the HAVE_KEEPALIVE_GLIB      *)
(* branch of main() (src/daemon/collectd.c): the default interval, less    *)
(* one second, is compared with "<" against the fixed frequencies of the  *)
(* keepalive library, the comment saying that the subtraction lets "<"    *)
(* stand for "<=" -- the slot chosen is the shortest one that is not      *)
(* shorter than the interval.  Times are counted in ticks, Res ticks to   *)
(* the second; cdtime_t has a resolution far finer than a tick.           *)
(***************************************************************************)
EXTENDS Integers, FiniteSetsExt

CONSTANTS
    Res,           \* ticks per second
    MaxInterval    \* bound: the largest interval tried, in ticks

\* BACKGROUND_ACTIVITY_FREQUENCY_*, in seconds.
Frequencies == {30, 150, 300, 600, 900, 1800, 3600}

\* default_interval = CDTIME_T_TO_DOUBLE (cf_get_default_interval ()) - 1,
\* then the chain of "<" tests; the last "else" takes one hour.
SlotFor(interval) ==
    LET defaultInterval == interval - Res
        below == {f \in Frequencies \ {3600} : defaultInterval < f * Res}
    IN  IF below # {} THEN Min(below) ELSE 3600

\* What the comment promises: the shortest frequency that is not shorter
\* than the interval, or the longest one there is.
ReferenceSlot(interval) ==
    LET fit == {f \in Frequencies : interval <= f * Res}
    IN  IF fit # {} THEN Min(fit) ELSE 3600

VARIABLES
    interval,   \* cf_get_default_interval (), in ticks
    slot        \* the slot chosen, 0 before the choice

vars == <<interval, slot>>

Init ==
    /\ interval \in 1..MaxInterval
    /\ slot = 0

\* The slot is chosen and passed to background_activity_set_wakeup_slot.
Select ==
    /\ slot = 0
    /\ slot' = SlotFor(interval)
    /\ UNCHANGED interval

Spec == Init /\ [][Select]_vars

\* The wakeup slot follows the interval as the comment at the slot choice
\* says: never shorter than the interval unless the interval is longer
\* than an hour, and never a longer slot than needed.
SlotMatchesInterval == slot # 0 => slot = ReferenceSlot(interval)

=============================================================================
