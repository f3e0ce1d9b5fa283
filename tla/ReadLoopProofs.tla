--------------------------- MODULE ReadLoopProofs ---------------------------
(***************************************************************************)
(* Proofs about the interval scheduler of ReadLoop, for every value of    *)
(* its constants.                                                          *)
(***************************************************************************)
EXTENDS ReadLoop, TLAPS

\* TypeOK without its one Boolean conjunct: the SMT backend proves the
\* arithmetic part, Zenon the Boolean one.
TypeNum ==
    /\ pc \in PCs
    /\ loop \in 0..(LoopMod - 1)
    /\ due \in Int
    /\ rem \in Nat
    /\ grid \in 0..(Interval - 1)
    /\ sigs \in 0..MaxSignals
    /\ usr1s \in 0..MaxUsr1
    /\ flushers \in Nat
    /\ spawned \in Nat
    /\ steps \in 0..MaxClockSteps

LEMMA TypeSplit == TypeOK <=> TypeNum /\ intr \in BOOLEAN
  BY DEF TypeOK, TypeNum

\* The main thread's steps and the handlers never set intr to a
\* non-Boolean value.
LEMMA IntrBoolean == intr \in BOOLEAN /\ [Next]_vars => intr' \in BOOLEAN
  BY Zenon DEF Next, MainStep, LoopTop, ReadDone, SleepCheck, SleepEnd,
               SleepInterrupted, SleepFailed, Tick, ClockStep, SigInt,
               SigTerm, Stop, Interrupts, SigUsr1, FlushDone, vars

\* do_loop, the handlers and time keep every variable in its type.
LEMMA TypeCorrect == Spec => []TypeOK
<1> USE ReadLoopAssumption DEF TypeNum, PCs, Running
<1>1. Init => TypeOK
  <2>1. Init => TypeNum
    BY DEF Init
  <2>2. Init => intr \in BOOLEAN
    BY DEF Init
  <2>3. QED
    BY <2>1, <2>2, TypeSplit
<1>2. TypeOK /\ [Next]_vars => TypeOK'
  <2> SUFFICES ASSUME TypeNum, intr \in BOOLEAN, [Next]_vars
               PROVE TypeNum' /\ intr' \in BOOLEAN
    BY Zenon DEF TypeOK
  <2>1. intr' \in BOOLEAN
    BY IntrBoolean
  <2>2. TypeNum'
    <3>1. CASE LoopTop
      BY <3>1 DEF LoopTop
    <3>2. CASE ReadDone
      BY <3>2 DEF ReadDone
    <3>3. CASE SleepCheck
      BY <3>3 DEF SleepCheck
    <3>4. CASE SleepEnd
      BY <3>4 DEF SleepEnd
    <3>5. CASE SleepInterrupted
      BY <3>5 DEF SleepInterrupted
    <3>6. CASE SleepFailed
      BY <3>6 DEF SleepFailed
    <3>7. CASE Tick
      BY <3>7 DEF Tick
    <3>8. CASE ClockStep
      BY <3>8 DEF ClockStep
    <3>9. CASE SigInt \/ SigTerm
      BY <3>9 DEF SigInt, SigTerm, Stop
    <3>10. CASE SigUsr1
      BY <3>10 DEF SigUsr1
    <3>11. CASE FlushDone
      BY <3>11 DEF FlushDone
    <3>12. CASE UNCHANGED vars
      BY <3>12 DEF vars
    <3>13. QED
      BY <3>1, <3>2, <3>3, <3>4, <3>5, <3>6, <3>7, <3>8, <3>9, <3>10,
         <3>11, <3>12 DEF Next, MainStep
  <2>3. QED
    BY <2>1, <2>2
<1>3. QED
  BY <1>1, <1>2, PTL DEF Spec

-----------------------------------------------------------------------------
(* No oversleeping.  With a monotone clock and a stop counter that cannot *)
(* wrap, do_loop never sleeps for more than one interval.  NoOversleep is *)
(* not inductive by itself: a read starts with due <= Interval only        *)
(* because a sleep ends one interval before the deadline it set, so the    *)
(* invariant also relates rem and due during the sleep; and the outer loop *)
(* is re-entered with the deadline still ahead only after a stop request, *)
(* so it needs loop = sigs (no wrap) to know that loop stays non-zero.    *)

\* The hypotheses under which NoOversleep holds: no clock steps, and
\* fewer stop signals than it takes to wrap `loop'.
NoOversleepHyp == ~ClockSteps /\ MaxSignals < LoopMod

OversleepBounds ==
    /\ loop = sigs
    /\ pc = "read" => due <= Interval
    /\ (pc = "top" /\ loop = 0) => due <= Interval
    /\ pc \in {"sleepcheck", "sleep"} => /\ rem <= Interval
                                         /\ due <= rem + Interval

OversleepInv == TypeOK /\ OversleepBounds

\* A stop count below the modulus is its own remainder.
LEMMA ModSmall == ASSUME NEW x \in Nat, NEW m \in Nat \ {0}, x < m
                  PROVE x % m = x
  OBVIOUS

LEMMA OversleepInit == Init => OversleepBounds
  BY ReadLoopAssumption DEF Init, OversleepBounds

LEMMA OversleepStep ==
    ASSUME NoOversleepHyp
    PROVE  TypeOK /\ OversleepBounds /\ [Next]_vars => OversleepBounds'
<1> SUFFICES ASSUME TypeNum, OversleepBounds, [Next]_vars
             PROVE  OversleepBounds'
  BY TypeSplit
<1> USE ReadLoopAssumption DEF NoOversleepHyp, TypeNum, PCs, OversleepBounds
<1>1. CASE LoopTop
  BY <1>1 DEF LoopTop
<1>2. CASE ReadDone
  BY <1>2 DEF ReadDone
<1>3. CASE SleepCheck
  BY <1>3 DEF SleepCheck
<1>4. CASE SleepEnd
  BY <1>4 DEF SleepEnd
<1>5. CASE SleepInterrupted
  BY <1>5 DEF SleepInterrupted
<1>6. CASE SleepFailed
  BY <1>6 DEF SleepFailed
<1>7. CASE Tick
  BY <1>7 DEF Tick, Running
<1>8. CASE ClockStep
  BY <1>8 DEF ClockStep
<1>9. CASE SigInt \/ SigTerm
  <2>1. PICK hit \in BOOLEAN : Stop(hit)
    BY <1>9 DEF SigInt, SigTerm
  <2>2. sigs + 1 < LoopMod
    BY <2>1 DEF Stop
  <2>3. loop' = sigs'
    BY <2>1, <2>2, ModSmall DEF Stop
  <2>4. QED
    BY <2>1, <2>3 DEF Stop
<1>10. CASE SigUsr1
  BY <1>10 DEF SigUsr1
<1>11. CASE FlushDone
  BY <1>11 DEF FlushDone
<1>12. CASE UNCHANGED vars
  BY <1>12 DEF vars
<1>13. QED
  BY <1>1, <1>2, <1>3, <1>4, <1>5, <1>6, <1>7, <1>8, <1>9, <1>10, <1>11,
     <1>12 DEF Next, MainStep

\* With a monotone clock and no wrap of `loop', do_loop never sleeps longer
\* than one interval and never starts a read with its deadline more than
\* an interval ahead.
THEOREM NoOversleepThm ==
    ASSUME NoOversleepHyp
    PROVE  Spec => []NoOversleep
<1>1. OversleepBounds => NoOversleep
  BY DEF OversleepBounds, NoOversleep
<1>2. TypeOK /\ OversleepBounds /\ [Next]_vars => OversleepBounds'
  BY OversleepStep
<1>3. QED
  BY <1>1, <1>2, OversleepInit, TypeCorrect, PTL DEF Spec

-----------------------------------------------------------------------------
(* Fixed cadence.  The proof carries GridMultiple (due + grid is a        *)
(* multiple of the interval) rather than the remainder: every step that  *)
(* moves the clock moves due and grid by opposite amounts, a sleep moves *)
(* the deadline by exactly one interval, and an overrun moves the grid's *)
(* base to now.  It needs no hypothesis: clock steps and wraps of `loop' *)
(* do not disturb it.                                                     *)

\* The part of ReadLoopAssumption that the arithmetic below needs.
LEMMA IntervalPos == Interval \in Nat \ {0}
  BY ReadLoopAssumption

\* x % Interval in terms of integer division.
LEMMA ModDiv ==
    ASSUME NEW x \in Int
    PROVE  /\ x \div Interval \in Int
           /\ x % Interval = x - (x \div Interval) * Interval
  BY IntervalPos

\* A multiple of Interval leaves no remainder.
LEMMA MultipleMod ==
    ASSUME NEW k \in Int
    PROVE  (k * Interval) % Interval = 0
  BY IntervalPos

\* The inductive form of DeadlineOnGrid: due + grid is a multiple of the
\* interval.  Unlike the remainder, the multiple is moved by linear steps.
GridMultiple == \E k \in Int : due + grid = k * Interval

\* Moving the clock by s, with grid + s wrapping j times, keeps due + grid
\* a multiple of the interval.
LEMMA GridShift ==
    ASSUME NEW s \in Int, NEW j \in Int, NEW k \in Int,
           due \in Int, grid \in Int, due + grid = k * Interval,
           due' = due - s, grid' = (grid + s) - j * Interval
    PROVE  GridMultiple'
<1>1. due' + grid' = k * Interval - j * Interval
  BY IntervalPos
<1>2. k * Interval - j * Interval = (k - j) * Interval
  BY IntervalPos
<1>3. QED
  BY <1>1, <1>2 DEF GridMultiple

\* The same for grid' = (grid + s) % Interval.
LEMMA GridShiftMod ==
    ASSUME NEW s \in Int, TypeNum, GridMultiple,
           due' = due - s, grid' = (grid + s) % Interval
    PROVE  GridMultiple'
<1>1. due \in Int /\ grid \in Int
  BY IntervalPos DEF TypeNum
<1>2. PICK k \in Int : due + grid = k * Interval
  BY DEF GridMultiple
<1>3. (grid + s) \div Interval \in Int
      /\ (grid + s) % Interval
           = (grid + s) - ((grid + s) \div Interval) * Interval
  BY <1>1, ModDiv
<1>4. QED
  BY <1>1, <1>2, <1>3, GridShift

LEMMA GridStep ==
    TypeOK /\ GridMultiple /\ [Next]_vars => GridMultiple'
<1> SUFFICES ASSUME TypeNum, GridMultiple, [Next]_vars
             PROVE  GridMultiple'
  BY TypeSplit
<1> USE IntervalPos DEF TypeNum
<1>1. CASE ReadDone
  <2>1. PICK k \in Int : due + grid = k * Interval
    BY DEF GridMultiple
  <2>2. CASE due <= 0
    <3>1. due' + grid' = 1 * Interval
      BY <1>1, <2>2 DEF ReadDone
    <3>2. QED
      BY <3>1 DEF GridMultiple
  <2>3. CASE ~(due <= 0)
    <3>1. due' + grid' = (k + 1) * Interval
      BY <1>1, <2>1, <2>3 DEF ReadDone
    <3>2. QED
      BY <3>1 DEF GridMultiple
  <2>4. QED
    BY <2>2, <2>3
<1>2. CASE Tick
  BY <1>2, GridShiftMod DEF Tick
<1>3. CASE ClockStep
  <2>1. PICK d \in (-MaxStep..MaxStep) \ {0} :
            due' = due - d /\ grid' = (grid + d) % Interval
    BY <1>3 DEF ClockStep
  <2>2. d \in Int
    BY ReadLoopAssumption
  <2>3. QED
    BY <2>1, <2>2, GridShiftMod
<1>4. CASE UNCHANGED <<due, grid>>
  BY <1>4 DEF GridMultiple
<1>5. QED
  BY <1>1, <1>2, <1>3, <1>4
     DEF Next, MainStep, LoopTop, SleepCheck, SleepEnd, SleepInterrupted,
         SleepFailed, SigInt, SigTerm, Stop, SigUsr1, FlushDone, vars

\* do_loop keeps a fixed cadence: the pending deadline always lies a whole
\* number of intervals after the last resynchronisation point, for every
\* interval, read duration and clock step.
THEOREM DeadlineOnGridThm == Spec => []DeadlineOnGrid
<1>1. Init => GridMultiple
  <2> SUFFICES ASSUME Init PROVE due + grid = 1 * Interval
    BY IntervalPos DEF GridMultiple
  <2> QED
    BY IntervalPos DEF Init
<1>2. GridMultiple => DeadlineOnGrid
  BY MultipleMod DEF GridMultiple, DeadlineOnGrid
<1>3. QED
  BY <1>1, <1>2, GridStep, TypeCorrect, PTL DEF Spec

-----------------------------------------------------------------------------
(* Refinement.  do_loop implements the safety part of LoopAbstract under  *)
(* the mapping AbsState, loop # 0.  The mapping of stop is only right     *)
(* while `loop' cannot wrap: LoopCount says that loop counts the stop     *)
(* signals, so that a signal always leaves loop non-zero.                 *)

\* Fewer stop signals than it takes to wrap `loop'.
NoWrapHyp == MaxSignals < LoopMod

LoopCount == loop = sigs

LEMMA LoopCountStep ==
    ASSUME NoWrapHyp
    PROVE  TypeOK /\ LoopCount /\ [Next]_vars => LoopCount'
<1> SUFFICES ASSUME TypeNum, LoopCount, [Next]_vars
             PROVE  LoopCount'
  BY TypeSplit
<1> USE ReadLoopAssumption DEF NoWrapHyp, TypeNum, LoopCount
<1>1. CASE SigInt \/ SigTerm
  <2>1. PICK hit \in BOOLEAN : Stop(hit)
    BY <1>1 DEF SigInt, SigTerm
  <2>2. sigs + 1 < LoopMod
    BY <2>1 DEF Stop
  <2>3. QED
    BY <2>1, <2>2, ModSmall DEF Stop
<1>2. CASE ~(SigInt \/ SigTerm)
  BY <1>2 DEF Next, MainStep, LoopTop, ReadDone, SleepCheck, SleepEnd,
              SleepInterrupted, SleepFailed, Tick, ClockStep, SigUsr1,
              FlushDone, vars
<1>3. QED
  BY <1>1, <1>2

\* Every step of do_loop, of time and of the handlers is a step of the
\* abstract scheduler or leaves its state alone.
LEMMA RefinementStep ==
    ASSUME NoWrapHyp
    PROVE  TypeOK /\ LoopCount /\ [Next]_vars => [Abs!Next]_Abs!vars
<1> SUFFICES ASSUME TypeNum, LoopCount, [Next]_vars
             PROVE  [Abs!Next]_Abs!vars
  BY TypeSplit
<1> USE ReadLoopAssumption DEF NoWrapHyp, TypeNum, LoopCount, PCs
<1>1. CASE LoopTop
  <2>1. CASE loop = 0
    BY <1>1, <2>1 DEF LoopTop, Abs!Next, Abs!StartRead, AbsState
  <2>2. CASE loop # 0
    BY <1>1, <2>2 DEF LoopTop, Abs!Next, Abs!Return, AbsState
  <2>3. QED
    BY <2>1, <2>2
<1>2. CASE ReadDone
  BY <1>2 DEF ReadDone, Abs!Next, Abs!EndRead, AbsState
<1>3. CASE SleepFailed
  BY <1>3 DEF SleepFailed, Abs!Next, Abs!Fail, AbsState
<1>4. CASE SigInt \/ SigTerm
  <2>1. PICK hit \in BOOLEAN : Stop(hit)
    BY <1>4 DEF SigInt, SigTerm
  <2>2. loop' = loop + 1
    BY <2>1, ModSmall DEF Stop
  <2>3. QED
    BY <2>1, <2>2 DEF Stop, Abs!Next, Abs!RequestStop, AbsState
<1>5. CASE SleepCheck \/ SleepEnd \/ SleepInterrupted
  BY <1>5 DEF SleepCheck, SleepEnd, SleepInterrupted, Abs!vars, AbsState
<1>6. CASE Tick \/ ClockStep \/ SigUsr1 \/ FlushDone \/ UNCHANGED vars
  BY <1>6 DEF Tick, ClockStep, SigUsr1, FlushDone, vars, Abs!vars, AbsState
<1>7. QED
  BY <1>1, <1>2, <1>3, <1>4, <1>5, <1>6 DEF Next, MainStep

\* As long as `loop' cannot wrap, do_loop with its handlers implements the
\* abstract scheduler: no read starts once a stop was requested, a stop
\* request is never withdrawn, and the loop returns 0 only after one.
THEOREM LoopRefinement ==
    ASSUME NoWrapHyp
    PROVE  Spec => Abs!Init /\ [][Abs!Next]_Abs!vars
<1>1. Init => Abs!Init
  BY DEF Init, Abs!Init, AbsState
<1>2. Init => LoopCount
  BY DEF Init, LoopCount
<1>3. QED
  BY <1>1, <1>2, LoopCountStep, RefinementStep, TypeCorrect, PTL DEF Spec

-----------------------------------------------------------------------------
(* Oversleeping under clock steps.  cdtime() reads the realtime clock and  *)
(* wait_until is absolute, but nanosleep takes the relative ts_wait: a     *)
(* step back of the clock makes ts_wait longer by the step.  The bounds of *)
(* OversleepBounds hold with the total size of the steps so far added as  *)
(* slack; a step forward only brings the deadline closer.                  *)

\* What the clock steps so far may have added to a sleep.
Slack == MaxStep * steps

StepBounds ==
    /\ loop = sigs
    /\ pc = "read" => due <= Interval + Slack
    /\ (pc = "top" /\ loop = 0) => due <= Interval + Slack
    /\ pc \in {"sleepcheck", "sleep"} => /\ rem <= Interval + Slack
                                         /\ due <= rem + Interval + Slack

LEMMA StepBoundsInit == Init => StepBounds
  BY ReadLoopAssumption DEF Init, StepBounds, Slack

\* A clock step moves the deadline by at most MaxStep and raises the slack
\* by exactly MaxStep; nanosleep's rem does not move.
LEMMA StepBoundsClock ==
    ASSUME TypeNum, StepBounds, ClockStep
    PROVE  StepBounds'
<1> USE ReadLoopAssumption DEF TypeNum, StepBounds
<1>1. PICK d \in (-MaxStep..MaxStep) \ {0} : due' = due - d
  BY DEF ClockStep
<1>2. Slack' = Slack + MaxStep /\ Slack \in Nat
  BY DEF ClockStep, Slack
<1>3. due' <= due + MaxStep
  BY <1>1
<1>4. QED
  BY <1>2, <1>3 DEF ClockStep

LEMMA StepBoundsStep ==
    ASSUME NoWrapHyp
    PROVE  TypeOK /\ StepBounds /\ [Next]_vars => StepBounds'
<1> SUFFICES ASSUME TypeNum, StepBounds, [Next]_vars
             PROVE  StepBounds'
  BY TypeSplit
<1> USE ReadLoopAssumption DEF NoWrapHyp, TypeNum, PCs, StepBounds
<1>0. Slack \in Nat
  BY DEF Slack
<1>1. CASE LoopTop
  BY <1>1 DEF LoopTop, Slack
<1>2. CASE ReadDone
  BY <1>0, <1>2 DEF ReadDone, Slack
<1>3. CASE SleepCheck
  BY <1>3 DEF SleepCheck, Slack
<1>4. CASE SleepEnd
  BY <1>4 DEF SleepEnd, Slack
<1>5. CASE SleepInterrupted
  BY <1>5 DEF SleepInterrupted, Slack
<1>6. CASE SleepFailed
  BY <1>6 DEF SleepFailed, Slack
<1>7. CASE Tick
  BY <1>7 DEF Tick, Running, Slack
<1>8. CASE ClockStep
  BY <1>8, StepBoundsClock
<1>9. CASE SigInt \/ SigTerm
  <2>1. PICK hit \in BOOLEAN : Stop(hit)
    BY <1>9 DEF SigInt, SigTerm
  <2>2. sigs + 1 < LoopMod
    BY <2>1 DEF Stop
  <2>3. loop' = sigs'
    BY <2>1, <2>2, ModSmall DEF Stop
  <2>4. QED
    BY <2>1, <2>3 DEF Stop, Slack
<1>10. CASE SigUsr1
  BY <1>10 DEF SigUsr1, Slack
<1>11. CASE FlushDone
  BY <1>11 DEF FlushDone, Slack
<1>12. CASE UNCHANGED vars
  BY <1>12 DEF vars, Slack
<1>13. QED
  BY <1>1, <1>2, <1>3, <1>4, <1>5, <1>6, <1>7, <1>8, <1>9, <1>10, <1>11,
     <1>12 DEF Next, MainStep

\* For every interval and every bound on clock steps, as long as `loop'
\* cannot wrap: a step of the realtime clock between two cdtime() readings
\* of do_loop lengthens a sleep, and the deadline a read starts with, by at
\* most the size of the steps so far, never by more.
THEOREM OversleepWithinStepThm ==
    ASSUME NoWrapHyp
    PROVE  Spec => []OversleepWithinStep
<1>1. StepBounds => OversleepWithinStep
  BY DEF StepBounds, OversleepWithinStep, Slack
<1>2. TypeOK /\ StepBounds /\ [Next]_vars => StepBounds'
  BY StepBoundsStep
<1>3. QED
  BY <1>1, <1>2, StepBoundsInit, TypeCorrect, PTL DEF Spec

====
