------------------------------ MODULE ReadLoop ------------------------------
(***************************************************************************)
(* The interval scheduler of src/daemon/collectd.c: do_loop() together    *)
(* with the asynchronous signal handlers that run while it does            *)
(* (sig_int_handler, sig_term_handler, sig_usr1_handler) and the detached *)
(* flush threads the last one spawns (do_flush).                           *)
(*                                                                         *)
(* Time is kept relative to the main thread: the model does not store    *)
(* cdtime() and wait_until but their difference                          *)
(*     due = wait_until - now                                              *)
(* which is all the loop branches on (now >= wait_until  <=>  due <= 0)   *)
(* and all it sleeps for (ts_wait = wait_until - now).  One Tick is one   *)
(* unit of cdtime_t; Interval is interval_g in those units.  The realtime *)
(* clock behind cdtime() may be stepped (ClockStep), while nanosleep()    *)
(* counts down the remaining duration rem regardless of such steps.       *)
(***************************************************************************)
EXTENDS Integers

CONSTANTS
    Interval,       \* cf_get_default_interval(), in clock ticks
    MaxOverrun,     \* bound: how far a read may run past its deadline
    LoopMod,        \* 2^w: the values the `int loop' counter can hold
    MaxSignals,     \* bound: SIGINT/SIGTERM deliveries in one behaviour
    MaxUsr1,        \* bound: SIGUSR1 deliveries in one behaviour
    ClockSteps,     \* whether the realtime clock may be stepped
    MaxClockSteps,  \* bound: number of clock steps
    MaxStep         \* bound: size of one clock step, in ticks

ASSUME ReadLoopAssumption ==
    /\ Interval \in Nat \ {0}
    /\ MaxOverrun \in Nat
    /\ LoopMod \in Nat \ {0, 1}
    /\ MaxSignals \in Nat
    /\ MaxUsr1 \in Nat
    /\ ClockSteps \in BOOLEAN
    /\ MaxClockSteps \in Nat
    /\ MaxStep \in Nat \ {0}

VARIABLES
    pc,        \* where the main thread is in do_loop()
    loop,      \* the global `static int loop'
    due,       \* wait_until - cdtime()
    rem,       \* ts_wait: what nanosleep() still has to sleep
    intr,      \* a handler ran while nanosleep() was blocked in the kernel
    grid,      \* ghost: (now - base) % Interval, base = last resync point
    sigs,      \* ghost: SIGINT/SIGTERM deliveries so far
    usr1s,     \* ghost: SIGUSR1 deliveries so far
    flushers,  \* detached do_flush threads still running
    spawned,   \* ghost: do_flush threads created so far
    steps      \* ghost: clock steps so far

vars == <<pc, loop, due, rem, intr, grid, sigs, usr1s, flushers, spawned,
          steps>>

\* Program points of the main thread.  "top" is the outer while condition,
\* "read" is update_kstat()/plugin_read_all() in progress, "sleepcheck" the
\* inner while condition, "sleep" a blocked nanosleep(), "done" the
\* `return (0)' and "failed" the `return (-1)' of do_loop().
PCs == {"top", "read", "sleepcheck", "sleep", "done", "failed"}

Running == pc \notin {"done", "failed"}

-----------------------------------------------------------------------------
(* The main thread: do_loop().                                             *)

\* cdtime_t interval = ...; wait_until = cdtime () + interval;
Init ==
    /\ pc = "top"
    /\ loop = 0
    /\ due = Interval
    /\ rem = 0
    /\ intr = FALSE
    /\ grid = 0
    /\ sigs = 0
    /\ usr1s = 0
    /\ flushers = 0
    /\ spawned = 0
    /\ steps = 0

\* Mutant: `while (1)', the stop flag is never looked at.
LoopTopNoCheck ==
    /\ pc = "top"
    /\ pc' = "read"
    /\ UNCHANGED <<loop, due, rem, intr, grid, sigs, usr1s, flushers,
                   spawned, steps>>

\* Mutant: the exit test never leaves the loop head once loop != 0 (the
\* `return (0)' path missing).
LoopTopSpin ==
    /\ pc = "top"
    /\ pc' = IF loop = 0 THEN "read" ELSE "top"
    /\ UNCHANGED <<loop, due, rem, intr, grid, sigs, usr1s, flushers,
                   spawned, steps>>

\* while (loop == 0): enter the body (update_kstat, plugin_read_all) or leave.
LoopTop ==
    /\ pc = "top"
    /\ pc' = IF loop = 0 THEN "read" ELSE "done"
    /\ UNCHANGED <<loop, due, rem, intr, grid, sigs, usr1s, flushers,
                   spawned, steps>>

\* Mutant: the deadline is advanced before ts_wait is computed from it.
ReadDoneLateAdvance ==
    /\ pc = "read"
    /\ IF due <= 0
         THEN /\ pc' = "top"
              /\ due' = Interval
              /\ grid' = 0
              /\ UNCHANGED rem
         ELSE /\ pc' = "sleepcheck"
              /\ rem' = due + Interval
              /\ due' = due + Interval
              /\ UNCHANGED grid
    /\ UNCHANGED <<loop, intr, sigs, usr1s, flushers, spawned, steps>>

\* plugin_read_all() returns; now = cdtime ().  On an overrun the deadline is
\* reset to now + interval and the loop continues without sleeping (the new
\* base of the schedule is now); otherwise ts_wait = wait_until - now and
\* wait_until advances by one interval from the old deadline.
ReadDone ==
    /\ pc = "read"
    /\ IF due <= 0
         THEN /\ pc' = "top"
              /\ due' = Interval
              /\ grid' = 0
              /\ UNCHANGED rem
         ELSE /\ pc' = "sleepcheck"
              /\ rem' = due
              /\ due' = due + Interval
              /\ UNCHANGED grid
    /\ UNCHANGED <<loop, intr, sigs, usr1s, flushers, spawned, steps>>

\* while ((loop == 0) && (nanosleep (&ts_wait, &ts_wait) != 0)): the
\* condition is read; nanosleep is entered only while loop is still 0.
SleepCheck ==
    /\ pc = "sleepcheck"
    /\ pc' = IF loop = 0 THEN "sleep" ELSE "top"
    /\ intr' = FALSE
    /\ UNCHANGED <<loop, due, rem, grid, sigs, usr1s, flushers, spawned,
                   steps>>

\* Mutant: fixed delay, wait_until = cdtime () + interval after waking.
SleepEndFixedDelay ==
    /\ pc = "sleep"
    /\ rem = 0
    /\ pc' = "top"
    /\ due' = Interval
    /\ UNCHANGED <<loop, rem, intr, grid, sigs, usr1s, flushers, spawned,
                   steps>>

\* nanosleep returns 0: the whole duration has elapsed.
SleepEnd ==
    /\ pc = "sleep"
    /\ rem = 0
    /\ pc' = "top"
    /\ UNCHANGED <<loop, due, rem, intr, grid, sigs, usr1s, flushers,
                   spawned, steps>>

\* nanosleep returns -1 with errno == EINTR: ts_wait holds what is left,
\* and the inner while condition is evaluated again.
SleepInterrupted ==
    /\ pc = "sleep"
    /\ intr
    /\ pc' = "sleepcheck"
    /\ intr' = FALSE
    /\ UNCHANGED <<loop, due, rem, grid, sigs, usr1s, flushers, spawned,
                   steps>>

\* nanosleep returns -1 with another errno: ERROR (...); return (-1).
SleepFailed ==
    /\ pc = "sleep"
    /\ pc' = "failed"
    /\ UNCHANGED <<loop, due, rem, intr, grid, sigs, usr1s, flushers,
                   spawned, steps>>

-----------------------------------------------------------------------------
(* The environment: time, the clock, and signal delivery.                  *)

\* One tick of time passes.  A blocked nanosleep counts it down; anywhere
\* else it is time spent running (a read, or preemption between two lines).
Tick ==
    /\ Running
    /\ IF pc = "sleep" THEN rem > 0 ELSE due > -MaxOverrun
    /\ due' = due - 1
    /\ rem' = IF pc = "sleep" THEN rem - 1 ELSE rem
    /\ grid' = (grid + 1) % Interval
    /\ UNCHANGED <<pc, loop, intr, sigs, usr1s, flushers, spawned, steps>>

\* The realtime clock behind cdtime() is stepped by d ticks (d > 0 forward).
\* wait_until does not move, so due moves by -d; nanosleep is unaffected.
ClockStep ==
    /\ ClockSteps
    /\ steps < MaxClockSteps
    /\ \E d \in (-MaxStep..MaxStep) \ {0} :
          /\ due' = due - d
          /\ grid' = (grid + d) % Interval
    /\ steps' = steps + 1
    /\ UNCHANGED <<pc, loop, rem, intr, sigs, usr1s, flushers, spawned>>

\* A handled signal may interrupt the main thread's nanosleep.  It need not:
\* it may run on a flush thread, or between the loop check and the
\* nanosleep call, in which case the sleep runs to its end.
Interrupts(hit) == intr' = (intr \/ (pc = "sleep" /\ hit))

\* sig_int_handler / sig_term_handler: loop++ on a plain int.
Stop(hit) ==
    /\ sigs < MaxSignals
    /\ loop' = (loop + 1) % LoopMod
    /\ Interrupts(hit)
    /\ sigs' = sigs + 1
    /\ UNCHANGED <<pc, due, rem, grid, usr1s, flushers, spawned, steps>>

SigInt == \E hit \in BOOLEAN : Stop(hit)

SigTerm == \E hit \in BOOLEAN : Stop(hit)

\* sig_usr1_handler: pthread_create (..., do_flush, NULL) of a detached
\* thread; its result is not checked, so a failed create is silent.
SigUsr1 ==
    /\ usr1s < MaxUsr1
    /\ \E hit \in BOOLEAN, created \in BOOLEAN :
          /\ Interrupts(hit)
          /\ flushers' = IF created THEN flushers + 1 ELSE flushers
          /\ spawned' = IF created THEN spawned + 1 ELSE spawned
    /\ usr1s' = usr1s + 1
    /\ UNCHANGED <<pc, loop, due, rem, grid, sigs, steps>>

\* Mutant: a thread exit is counted without a thread to exit.
FlushDoneUnguarded ==
    /\ flushers' = flushers - 1
    /\ UNCHANGED <<pc, loop, due, rem, intr, grid, sigs, usr1s, spawned,
                   steps>>

\* do_flush: plugin_flush (NULL, 0, NULL); pthread_exit (NULL).
FlushDone ==
    /\ flushers > 0
    /\ flushers' = flushers - 1
    /\ UNCHANGED <<pc, loop, due, rem, intr, grid, sigs, usr1s, spawned,
                   steps>>

-----------------------------------------------------------------------------

MainStep == LoopTop \/ ReadDone \/ SleepCheck \/ SleepEnd
                \/ SleepInterrupted \/ SleepFailed

Next == MainStep \/ Tick \/ ClockStep \/ SigInt \/ SigTerm \/ SigUsr1
            \/ FlushDone

\* The main thread is never starved (it is one thread of a running
\* process), time passes, and a started flush thread finishes.
Fairness ==
    /\ WF_vars(LoopTop) /\ WF_vars(ReadDone) /\ WF_vars(SleepCheck)
    /\ WF_vars(SleepEnd) /\ WF_vars(SleepInterrupted)
    /\ WF_vars(Tick) /\ WF_vars(FlushDone)

Spec == Init /\ [][Next]_vars /\ Fairness

-----------------------------------------------------------------------------
(* Properties.                                                             *)

TypeOK ==
    /\ pc \in PCs
    /\ loop \in 0..(LoopMod - 1)
    /\ due \in Int
    /\ rem \in Nat
    /\ intr \in BOOLEAN
    /\ grid \in 0..(Interval - 1)
    /\ sigs \in 0..MaxSignals
    /\ usr1s \in 0..MaxUsr1
    /\ flushers \in Nat
    /\ spawned \in Nat
    /\ steps \in 0..MaxClockSteps

\* Fixed cadence, not fixed delay (spec 4.1 steps 3-4, 8): the pending
\* deadline wait_until always lies a whole number of intervals after the
\* last resynchronisation point (the start of do_loop or the last overrun),
\* however long reads, sleeps and preemptions took, and across clock steps.
DeadlineOnGrid == (due + grid) % Interval = 0

\* With a monotone clock, do_loop never sleeps longer than one interval,
\* and a read never starts with its deadline more than an interval ahead:
\* the deadline is anchored to the previous one, not pushed by slow reads.
NoOversleep ==
    /\ pc \in {"sleepcheck", "sleep"} => rem <= Interval
    /\ pc = "read" => due <= Interval

\* With the realtime clock stepped (wait_until is an absolute cdtime() value,
\* ts_wait a relative duration computed from a stale reading), a sleep of
\* do_loop, and the deadline a read starts with, exceed one interval by at
\* most the total size of the clock steps so far: a step back lengthens the
\* next sleep by the step and no more, and the long sleep absorbs it, so
\* the lateness does not pile up across later intervals.
OversleepWithinStep ==
    /\ pc \in {"sleepcheck", "sleep"} => rem <= Interval + MaxStep * steps
    /\ pc = "read" => due <= Interval + MaxStep * steps

\* A stop request (SIGINT or SIGTERM) is honoured: do_loop returns, at the
\* latest after the read and the sleep in progress.
StopHonored == (loop # 0) ~> ~Running

\* The refinement mapping to LoopAbstract: the main thread is reading, or
\* has returned 0 or -1, or is between reads; stopRequested is loop != 0.
AbsState ==
    CASE pc = "read"   -> "read"
      [] pc = "done"   -> "done"
      [] pc = "failed" -> "failed"
      [] OTHER         -> "wait"

Abs == INSTANCE LoopAbstract WITH state <- AbsState, stop <- (loop # 0)

\* do_loop with its handlers implements the abstract scheduler: reads one
\* at a time, none started once a stop was requested, and a return once
\* one was -- a read in progress and the sleep after it finish first.
LoopSpecImplemented == Abs!Spec

\* One flush per flush signal (spec 8): every SIGUSR1 handled so far has
\* started its do_flush thread.
FlushPerSignal == spawned = usr1s

=============================================================================
