------------------------------ MODULE Keepalive ------------------------------
(***************************************************************************)
(* The HAVE_KEEPALIVE_GLIB build of src/daemon/collectd.c: instead of      *)
(* do_loop(), main() creates a GLib main loop, connects to the system bus, *)
(* creates a keepalive background activity whose wakeups call do_shot(),   *)
(* and runs the main loop until sig_int_handler / sig_term_handler call    *)
(* glib_stop().                                                            *)
(*                                                                         *)
(* The model starts where main() reaches this branch: the handlers are     *)
(* installed and do_init() is done.  GLib and the keepalive library are    *)
(* modelled by the behaviour collectd relies on:                           *)
(*   - g_main_loop_run sets the loop's is_running flag on entry and returns *)
(*     once g_main_loop_quit has cleared it and no dispatch is in progress; *)
(*   - a background activity is created stopped; background_activity_wait *)
(*     arms one wakeup after the slot, which moves it to running and calls *)
(*     the running callback from the main loop; background_activity_stop   *)
(*     disarms it; after background_activity_unref the object is freed.    *)
(* Time: since = cdtime () - last_call, in ticks of Debounce per second,   *)
(* capped at SinceCap, above which no comparison of the code changes.      *)
(* wake is the keepalive timer, which a realtime clock step does not move. *)
(***************************************************************************)
EXTENDS Integers

CONSTANTS
    Slot,           \* the wakeup slot, in ticks
    Debounce,       \* one second, in ticks
    MaxSignals,     \* bound: SIGINT/SIGTERM deliveries
    BackSteps,      \* whether the realtime clock may be stepped back
    MaxClockSteps,  \* bound: number of clock steps
    MaxStep         \* bound: size of one clock step, in ticks

ASSUME KeepaliveAssumption ==
    /\ Debounce \in Nat \ {0}
    /\ Slot \in Nat
    /\ Debounce <= Slot
    /\ MaxSignals \in Nat
    /\ BackSteps \in BOOLEAN
    /\ MaxClockSteps \in Nat
    /\ MaxStep \in Nat \ {0}

\* A value of since at or above which every comparison in do_shot comes out
\* the same whatever clock steps are still to come.
SinceCap == Debounce + MaxStep * MaxClockSteps

Cap(x) == IF x > SinceCap THEN SinceCap ELSE x

VARIABLES
    pc,        \* where main() is in the keepalive branch
    loopH,     \* glib_mainloop_handle: "null", "live" or "freed"
    running,   \* the main loop's is_running flag
    bus,       \* glib_system_bus is connected
    act,       \* glib_background_activity: "null", "stopped", "waiting",
               \* "running" or "freed"
    cb,        \* do_shot: "idle", "check" (debounce test), "read"
    wake,      \* ticks until the armed wakeup fires
    since,     \* cdtime () - last_call, capped
    stopReq,   \* ghost: a stop signal was delivered
    stopInRun, \* ghost: a stop signal was delivered inside g_main_loop_run
    uaf,       \* ghost: a handler touched a freed object
    sigs,      \* ghost: signal deliveries so far
    steps      \* ghost: clock steps so far

vars == <<pc, loopH, running, bus, act, cb, wake, since, stopReq, stopInRun,
          uaf, sigs, steps>>

\* "new" .. "run" follow lines 853-895; "cleanup" is lines 898-900, "done"
\* the rest of main (do_shutdown, pidfile_remove) and "exited" its end.
PCs == {"new", "bus", "bga", "setup", "run0", "run", "cleanup", "done",
        "exited"}

Alive == pc # "exited"

Init ==
    /\ pc = "new"
    /\ loopH = "null"
    /\ running = FALSE
    /\ bus = FALSE
    /\ act = "null"
    /\ cb = "idle"
    /\ wake = 0
    /\ since = SinceCap
    /\ stopReq = FALSE
    /\ stopInRun = FALSE
    /\ uaf = FALSE
    /\ sigs = 0
    /\ steps = 0

-----------------------------------------------------------------------------
(* main(): the keepalive branch.                                          *)

\* A failed setup step returns (1) from main on the spot.
Fail == pc' = "exited"

\* glib_mainloop_handle = g_main_loop_new (0, 0); NULL returns 1.
LoopNew ==
    /\ pc = "new"
    /\ \E ok \in BOOLEAN :
          IF ok THEN pc' = "bus" /\ loopH' = "live" ELSE Fail /\ UNCHANGED loopH
    /\ UNCHANGED <<running, bus, act, cb, wake, since, stopReq, stopInRun,
                   uaf, sigs, steps>>

\* connect_to_system_bus: dbus_bus_get, dbus_connection_setup_with_g_main.
ConnectBus ==
    /\ pc = "bus"
    /\ \E ok \in BOOLEAN :
          IF ok THEN pc' = "bga" /\ bus' = TRUE ELSE Fail /\ UNCHANGED bus
    /\ UNCHANGED <<loopH, running, act, cb, wake, since, stopReq, stopInRun,
                   uaf, sigs, steps>>

\* glib_background_activity = background_activity_new (); NULL returns 1.
ActivityNew ==
    /\ pc = "bga"
    /\ \E ok \in BOOLEAN :
          IF ok THEN pc' = "setup" /\ act' = "stopped" ELSE Fail /\ UNCHANGED act
    /\ UNCHANGED <<loopH, running, bus, cb, wake, since, stopReq, stopInRun,
                   uaf, sigs, steps>>

\* set_running_callback (do_shot), the slot, background_activity_wait.
Setup ==
    /\ pc = "setup"
    /\ act' = "waiting"
    /\ wake' = Slot
    /\ pc' = "run0"
    /\ UNCHANGED <<loopH, running, bus, cb, since, stopReq, stopInRun, uaf,
                   sigs, steps>>

\* g_main_loop_run: is_running = TRUE on entry.
RunEnter ==
    /\ pc = "run0"
    /\ running' = TRUE
    /\ pc' = "run"
    /\ UNCHANGED <<loopH, bus, act, cb, wake, since, stopReq, stopInRun, uaf,
                   sigs, steps>>

\* g_main_loop_run returns once quit and no callback is being dispatched.
RunExit ==
    /\ pc = "run"
    /\ ~running
    /\ cb = "idle"
    /\ pc' = "cleanup"
    /\ UNCHANGED <<loopH, running, bus, act, cb, wake, since, stopReq,
                   stopInRun, uaf, sigs, steps>>

\* background_activity_unref, disconnect_from_systembus, g_main_loop_unref;
\* the two global pointers keep their (now dangling) values.
Cleanup ==
    /\ pc = "cleanup"
    /\ act' = "freed"
    /\ bus' = FALSE
    /\ loopH' = "freed"
    /\ pc' = "done"
    /\ UNCHANGED <<running, cb, wake, since, stopReq, stopInRun, uaf, sigs,
                   steps>>

\* do_shutdown, pidfile_remove, return (exit_status).
Finish ==
    /\ pc = "done"
    /\ pc' = "exited"
    /\ UNCHANGED <<loopH, running, bus, act, cb, wake, since, stopReq,
                   stopInRun, uaf, sigs, steps>>

-----------------------------------------------------------------------------
(* The running callback do_shot(), dispatched by the main loop.           *)

\* The armed wakeup fires: the activity is running and do_shot is called.
Wakeup ==
    /\ pc = "run"
    /\ running
    /\ cb = "idle"
    /\ act = "waiting"
    /\ wake = 0
    /\ act' = "running"
    /\ cb' = "check"
    /\ UNCHANGED <<pc, loopH, running, bus, wake, since, stopReq, stopInRun,
                   uaf, sigs, steps>>

\* if (now <= last_call || now - last_call < 1.0) return; -- without
\* background_activity_wait.  Otherwise now is kept for last_call.
ShotCheck ==
    /\ cb = "check"
    /\ IF since <= 0 \/ since < Debounce
         THEN cb' = "idle" /\ UNCHANGED since
         ELSE cb' = "read" /\ since' = 0
    /\ UNCHANGED <<pc, loopH, running, bus, act, wake, stopReq, stopInRun,
                   uaf, sigs, steps>>

\* Mutant: the activity is not re-armed after the read.
ShotReadNoWait ==
    /\ cb = "read"
    /\ cb' = "idle"
    /\ UNCHANGED <<pc, loopH, running, bus, act, wake, since, stopReq,
                   stopInRun, uaf, sigs, steps>>

\* plugin_read_all (); background_activity_wait (); last_call = now.
ShotRead ==
    /\ cb = "read"
    /\ cb' = "idle"
    /\ act' = "waiting"
    /\ wake' = Slot
    /\ UNCHANGED <<pc, loopH, running, bus, since, stopReq, stopInRun, uaf,
                   sigs, steps>>

-----------------------------------------------------------------------------
(* The environment: time, the clock, and the stop signals.                *)

\* Mutant: the wakeup timer is counted down past zero.
TickUnguarded ==
    /\ Alive
    /\ since' = Cap(since + 1)
    /\ wake' = IF act = "waiting" THEN wake - 1 ELSE wake
    /\ UNCHANGED <<pc, loopH, running, bus, act, cb, stopReq, stopInRun, uaf,
                   sigs, steps>>

\* One tick passes: cdtime () advances and an armed wakeup comes closer.
Tick ==
    /\ Alive
    /\ since' = Cap(since + 1)
    /\ wake' = IF act = "waiting" /\ wake > 0 THEN wake - 1 ELSE wake
    /\ UNCHANGED <<pc, loopH, running, bus, act, cb, stopReq, stopInRun, uaf,
                   sigs, steps>>

\* The realtime clock is stepped by d ticks (forward only, unless
\* BackSteps); the keepalive timer is not.
StepSizes == IF BackSteps THEN (-MaxStep..MaxStep) \ {0} ELSE 1..MaxStep

ClockStep ==
    /\ Alive
    /\ steps < MaxClockSteps
    /\ \E d \in StepSizes : since' = Cap(since + d)
    /\ steps' = steps + 1
    /\ UNCHANGED <<pc, loopH, running, bus, act, cb, wake, stopReq,
                   stopInRun, uaf, sigs>>

\* Mutant: glib_stop stops the activity but does not quit the main loop.
StopNoQuit ==
    /\ Alive
    /\ sigs < MaxSignals
    /\ sigs' = sigs + 1
    /\ stopReq' = TRUE
    /\ stopInRun' = (stopInRun \/ pc = "run")
    /\ act' = IF act \in {"stopped", "waiting", "running"} THEN "stopped"
              ELSE act
    /\ uaf' = (uaf \/ act = "freed" \/ loopH = "freed")
    /\ UNCHANGED <<pc, loopH, running, bus, cb, wake, since, steps>>

\* sig_int_handler / sig_term_handler: glib_stop (): each global pointer
\* that is not NULL is used, whether or not it still points to a live
\* object.
Stop ==
    /\ Alive
    /\ sigs < MaxSignals
    /\ sigs' = sigs + 1
    /\ stopReq' = TRUE
    /\ stopInRun' = (stopInRun \/ pc = "run")
    /\ act' = IF act \in {"stopped", "waiting", "running"} THEN "stopped"
              ELSE act
    /\ running' = IF loopH = "live" THEN FALSE ELSE running
    /\ uaf' = (uaf \/ act = "freed" \/ loopH = "freed")
    /\ UNCHANGED <<pc, loopH, bus, cb, wake, since, steps>>

-----------------------------------------------------------------------------

MainStep == LoopNew \/ ConnectBus \/ ActivityNew \/ Setup \/ RunEnter
                \/ RunExit \/ Cleanup \/ Finish

Next == MainStep \/ Wakeup \/ ShotCheck \/ ShotRead \/ Tick \/ ClockStep
            \/ Stop

\* main() and the main loop are never starved, time passes, and the
\* keepalive service delivers an armed wakeup once it is due.
Fairness ==
    /\ WF_vars(MainStep) /\ WF_vars(Wakeup) /\ WF_vars(ShotCheck)
    /\ WF_vars(ShotRead) /\ WF_vars(Tick)

Spec == Init /\ [][Next]_vars /\ Fairness

-----------------------------------------------------------------------------
(* Properties.                                                             *)

TypeOK ==
    /\ pc \in PCs
    /\ loopH \in {"null", "live", "freed"}
    /\ running \in BOOLEAN
    /\ bus \in BOOLEAN
    /\ act \in {"null", "stopped", "waiting", "running", "freed"}
    /\ cb \in {"idle", "check", "read"}
    /\ wake \in 0..Slot
    /\ since \in (-(MaxStep * MaxClockSteps))..SinceCap
    /\ stopReq \in BOOLEAN /\ stopInRun \in BOOLEAN /\ uaf \in BOOLEAN
    /\ sigs \in 0..MaxSignals
    /\ steps \in 0..MaxClockSteps

\* glib_stop ends the dispatching of do_shot: once a SIGINT or SIGTERM has
\* arrived inside g_main_loop_run, no wakeup calls do_shot again -- even
\* though a do_shot that was running when the signal came re-arms the
\* activity with background_activity_wait.
NoShotAfterStop == [][stopInRun => ~(cb = "idle" /\ cb' = "check")]_vars

\* Reads go on (spec 5, the event-loop variant "skips a cycle" when called
\* again within a second): at every point while the main loop runs, do_shot
\* will read again, unless the activity is stopped or the loop ends.
ReadsContinue ==
    (pc = "run") ~> (cb = "read" \/ act = "stopped" \/ pc # "run")

\* A SIGINT or SIGTERM that arrives while g_main_loop_run is running ends
\* the process: glib_stop quits the loop and main returns.
StopWhileRunningHonored == stopInRun ~> ~Alive

\* A stop request is honoured (spec 4.2, 4.1 Exit) whenever it arrives
\* after the handlers are installed: the process ends.
StopHonored == stopReq ~> ~Alive

\* A signal handler never touches a freed object: glib_stop after
\* background_activity_unref / g_main_loop_unref uses dangling pointers.
NoUseAfterFree == ~uaf

=============================================================================
