--------------------------- MODULE KeepaliveProofs ---------------------------
(***************************************************************************)
(* Proofs about the keepalive branch of main() (module Keepalive), for     *)
(* every slot, debounce and bound on signals and clock steps.              *)
(*   - TypeCorrect: the type invariant.  It is not inductive as it stands: *)
(*     since may go below zero only by clock steps back, so the bound on   *)
(*     since is strengthened to SinceBound, -(MaxStep * steps) <= since,   *)
(*     which each step back keeps by counting itself in steps.             *)
(*   - NoShotAfterStopThm: after a stop inside the loop no do_shot is      *)
(*     dispatched again, through StopInv: the loop handle is live while    *)
(*     the loop can run, so glib_stop's g_main_loop_quit clears is_running *)
(*     for good, and only a wakeup with is_running set starts do_shot.     *)
(***************************************************************************)
EXTENDS Keepalive, TLAPS

-----------------------------------------------------------------------------
(* Typing.                                                                 *)

\* The Boolean-valued variables, which Zenon handles, and the rest, for SMT.
TypeBool ==
    /\ running \in BOOLEAN /\ bus \in BOOLEAN
    /\ stopReq \in BOOLEAN /\ stopInRun \in BOOLEAN /\ uaf \in BOOLEAN

\* Every clock step moves since by at most MaxStep, and since starts at
\* SinceCap, so since is never below -(MaxStep * steps).
SinceBound == since >= -(MaxStep * steps)

TypeData ==
    /\ pc \in PCs
    /\ loopH \in {"null", "live", "freed"}
    /\ act \in {"null", "stopped", "waiting", "running", "freed"}
    /\ cb \in {"idle", "check", "read"}
    /\ wake \in 0..Slot
    /\ since \in Int /\ since <= SinceCap /\ SinceBound
    /\ sigs \in 0..MaxSignals
    /\ steps \in 0..MaxClockSteps

TypeInv == TypeBool /\ TypeData

\* SinceCap is at least one second, and every bound is a natural number.
LEMMA CapFacts ==
    /\ SinceCap \in Nat /\ SinceCap >= Debounce /\ Debounce >= 1
    /\ MaxStep \in Nat /\ MaxStep >= 1 /\ MaxClockSteps \in Nat
    /\ Slot \in Nat /\ MaxSignals \in Nat
  BY KeepaliveAssumption DEF SinceCap

\* Capping a value never raises it above SinceCap nor lowers it below a
\* bound that SinceCap itself respects.
LEMMA CapRange ==
    ASSUME NEW x \in Int, NEW lo \in Int, lo <= SinceCap, lo <= x
    PROVE  Cap(x) \in Int /\ lo <= Cap(x) /\ Cap(x) <= SinceCap
  BY CapFacts DEF Cap

LEMMA TypeSplit == TypeInv => TypeOK
<1> SUFFICES ASSUME TypeInv PROVE TypeOK
  OBVIOUS
<1>1. steps \in Nat /\ MaxStep * steps <= MaxStep * MaxClockSteps
  BY CapFacts DEF TypeInv, TypeData
<1>2. since \in (-(MaxStep * MaxClockSteps))..SinceCap
  BY <1>1, CapFacts DEF TypeInv, TypeData, SinceBound
<1>3. QED
  BY <1>2, Zenon DEF TypeInv, TypeBool, TypeData, TypeOK

LEMMA TypeInit == Init => TypeInv
<1> SUFFICES ASSUME Init PROVE TypeInv
  OBVIOUS
<1>1. TypeBool
  BY Zenon DEF Init, TypeBool
<1>2. TypeData
  BY CapFacts DEF Init, TypeData, SinceBound, PCs
<1>3. QED
  BY <1>1, <1>2 DEF TypeInv

\* Only RunEnter, Stop, ConnectBus and Cleanup set a Boolean, to a Boolean.
LEMMA BoolStep == TypeBool /\ [Next]_vars => TypeBool'
<1> SUFFICES ASSUME TypeBool, [Next]_vars PROVE TypeBool'
  OBVIOUS
<1> USE DEF TypeBool
<1>1. CASE LoopNew \/ ConnectBus \/ ActivityNew \/ Setup
  BY <1>1, Zenon DEF LoopNew, ConnectBus, ActivityNew, Setup, Fail
<1>2. CASE RunEnter \/ RunExit \/ Cleanup \/ Finish
  BY <1>2, Zenon DEF RunEnter, RunExit, Cleanup, Finish
<1>3. CASE Wakeup \/ ShotCheck \/ ShotRead \/ Tick \/ ClockStep
  BY <1>3, Zenon DEF Wakeup, ShotCheck, ShotRead, Tick, ClockStep
<1>4. CASE Stop
  BY <1>4, Zenon DEF Stop
<1>5. CASE UNCHANGED vars
  BY <1>5, Zenon DEF vars
<1>6. QED
  BY <1>1, <1>2, <1>3, <1>4, <1>5 DEF Next, MainStep

\* The timer counts down only while positive and is re-armed to Slot; since
\* grows by capped ticks and moves by at most MaxStep per counted step.
LEMMA DataStep == TypeData /\ [Next]_vars => TypeData'
<1> SUFFICES ASSUME TypeData, [Next]_vars PROVE TypeData'
  OBVIOUS
<1> USE CapFacts DEF TypeData, PCs
<1>1. CASE LoopNew \/ ConnectBus \/ ActivityNew
  BY <1>1 DEF LoopNew, ConnectBus, ActivityNew, Fail, SinceBound
<1>2. CASE Setup \/ RunEnter \/ RunExit \/ Cleanup \/ Finish
  BY <1>2 DEF Setup, RunEnter, RunExit, Cleanup, Finish, SinceBound
<1>3. CASE Wakeup \/ ShotRead
  BY <1>3 DEF Wakeup, ShotRead, SinceBound
<1>4. CASE ShotCheck
  BY <1>4 DEF ShotCheck, SinceBound
<1>5. CASE Tick
  <2>1. -(MaxStep * steps) <= SinceCap
    BY DEF SinceBound
  <2>2. since' \in Int /\ since' <= SinceCap /\ since' >= -(MaxStep * steps)
    BY <1>5, <2>1, CapRange DEF Tick, SinceBound
  <2>3. wake' \in 0..Slot
    BY <1>5 DEF Tick
  <2>4. QED
    BY <1>5, <2>2, <2>3 DEF Tick, SinceBound
<1>6. CASE ClockStep
  <2>1. PICK d \in StepSizes : since' = Cap(since + d)
    BY <1>6 DEF ClockStep
  <2>2. d \in Int /\ d >= -MaxStep
    BY DEF StepSizes
  <2>3. /\ steps' = steps + 1 /\ steps' \in 0..MaxClockSteps
        /\ -(MaxStep * steps') = -(MaxStep * steps) - MaxStep
    BY <1>6 DEF ClockStep
  <2>4. -(MaxStep * steps') <= since + d /\ -(MaxStep * steps') <= SinceCap
    BY <2>2, <2>3 DEF SinceBound
  <2>5. since' \in Int /\ since' <= SinceCap /\ since' >= -(MaxStep * steps')
    BY <2>1, <2>2, <2>3, <2>4, CapRange
  <2>6. QED
    BY <1>6, <2>3, <2>5 DEF ClockStep, SinceBound
<1>7. CASE Stop
  BY <1>7 DEF Stop, SinceBound
<1>8. CASE UNCHANGED vars
  BY <1>8 DEF vars, SinceBound
<1>9. QED
  BY <1>1, <1>2, <1>3, <1>4, <1>5, <1>6, <1>7, <1>8 DEF Next, MainStep

LEMMA TypeStep == TypeInv /\ [Next]_vars => TypeInv'
  BY BoolStep, DataStep DEF TypeInv

\* Every state the keepalive branch reaches is well typed, for every bound
\* on clock steps: in particular since stays within the range the debounce
\* test of do_shot is evaluated on, and the keepalive timer within 0..Slot.
THEOREM TypeCorrect == Spec => []TypeOK
<1>1. QED
  BY TypeSplit, TypeInit, TypeStep, PTL DEF Spec

-----------------------------------------------------------------------------
(* Stopping.                                                               *)

\* The loop handle is live from g_main_loop_new until the cleanup after the
\* loop; a stop delivered inside g_main_loop_run has cleared is_running
\* through g_main_loop_quit, and main() never enters the loop again.
StopInv ==
    /\ pc \in {"bus", "bga", "setup", "run0", "run", "cleanup"} => loopH = "live"
    /\ stopInRun => pc \in {"run", "cleanup", "done", "exited"} /\ ~running

LEMMA StopInit == Init => StopInv
  BY DEF Init, StopInv

\* Only LoopNew, RunEnter, Cleanup, Fail and Stop touch loopH, running, pc
\* or stopInRun; RunEnter starts from "run0", which a stop in the loop has
\* left behind, and Stop clears is_running whenever it marks stopInRun.
LEMMA StopStep == StopInv /\ [Next]_vars => StopInv'
<1> SUFFICES ASSUME StopInv, [Next]_vars PROVE StopInv'
  OBVIOUS
<1> USE DEF StopInv
<1>1. CASE LoopNew \/ ConnectBus \/ ActivityNew \/ Setup
  BY <1>1 DEF LoopNew, ConnectBus, ActivityNew, Setup, Fail
<1>2. CASE RunEnter \/ RunExit \/ Cleanup \/ Finish
  BY <1>2 DEF RunEnter, RunExit, Cleanup, Finish
<1>3. CASE Wakeup \/ ShotCheck \/ ShotRead \/ Tick \/ ClockStep
  BY <1>3 DEF Wakeup, ShotCheck, ShotRead, Tick, ClockStep
<1>4. CASE Stop
  BY <1>4 DEF Stop
<1>5. CASE UNCHANGED vars
  BY <1>5 DEF vars
<1>6. QED
  BY <1>1, <1>2, <1>3, <1>4, <1>5 DEF Next, MainStep

\* Only Wakeup starts do_shot, and it needs is_running.
LEMMA NoShotStep ==
    StopInv /\ [Next]_vars => [stopInRun => ~(cb = "idle" /\ cb' = "check")]_vars
<1> SUFFICES ASSUME StopInv, [Next]_vars, stopInRun, cb = "idle"
             PROVE  cb' # "check"
  OBVIOUS
<1>1. ~running
  BY DEF StopInv
<1>2. CASE Wakeup
  BY <1>1, <1>2 DEF Wakeup
<1>3. CASE LoopNew \/ ConnectBus \/ ActivityNew \/ Setup
  BY <1>3 DEF LoopNew, ConnectBus, ActivityNew, Setup, Fail
<1>4. CASE RunEnter \/ RunExit \/ Cleanup \/ Finish
  BY <1>4 DEF RunEnter, RunExit, Cleanup, Finish
<1>5. CASE ShotCheck \/ ShotRead \/ Tick \/ ClockStep \/ Stop
  BY <1>5 DEF ShotCheck, ShotRead, Tick, ClockStep, Stop
<1>6. CASE UNCHANGED vars
  BY <1>6 DEF vars
<1>7. QED
  BY <1>2, <1>3, <1>4, <1>5, <1>6 DEF Next, MainStep

\* For every slot and every bound: once a SIGINT or SIGTERM has reached
\* glib_stop inside g_main_loop_run, the main loop never dispatches do_shot
\* again, even after a do_shot in progress re-arms the activity.
THEOREM NoShotAfterStopThm == Spec => NoShotAfterStop
<1>1. QED
  BY StopInit, StopStep, NoShotStep, PTL DEF Spec, NoShotAfterStop

====
