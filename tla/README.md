# TLA+ models of the collectd daemon core

This directory holds TLA+ specifications of `src/src/daemon/collectd.c`, the process that drives collectd. Each specification is model-checked with TLC on small instances, and part of it is proved with TLAPS for every value of its constants. `PROJECT.json` lists the components, the runs, the mutants, the mapping from every TLA+ definition to the C lines it models, the findings and the hazards.

## The system

`collectd.c` is one C file (921 lines). Its parts interact as follows.

- **Process orchestrator** (`main`, 614-922). In order, main:
  1. parses the options (`-t`, `-T`, `-f`, `-C`, `-P`);
  2. reads the configuration (`cf_read`, `change_basedir`, `init_global_variables`);
  3. runs the readiness handshake;
  4. daemonizes (fork, setsid, PID file, standard descriptors);
  5. installs the SIGINT, SIGTERM and SIGUSR1 handlers;
  6. initialises the plugins (`do_init`);
  7. runs either one read (`-T`) or the read loop;
  8. shuts the plugins down, removes the PID file and returns `exit_status`.
- **Readiness notifier** (`notify_upstart` 444-462, `notify_systemd` 464-531). Under upstart (`UPSTART_JOB=collectd`) the process raises SIGSTOP. Under systemd (`NOTIFY_SOCKET`) it sends `READY=1`. When either function answers 1, main does not fork.
- **PID file manager** (`pidfile_create` 414-431, `pidfile_remove` 433-440).
- **Interval scheduler** (`do_loop` 358-404). It calls `plugin_read_all` once per interval on a fixed grid. An overrun resynchronises the grid to the current time. The sleep is a `nanosleep` that is retried on EINTR.
- **Signal controller**:
  - `sig_int_handler` and `sig_term_handler` (93-101) do `loop++`, and `do_loop` polls `loop`.
  - `sig_usr1_handler` (104-115) starts a detached `do_flush` thread (81-90).
- **Plugin lifecycle glue** (`do_init` 318-354, `do_shutdown` 408-411, `update_kstat` 262-284).
- **Host and global configuration** (`init_hostname`, `init_global_variables`, `change_basedir`, 117-259).
- **GLib keepalive variant** (`HAVE_KEEPALIVE_GLIB`: `connect_to_system_bus` 547-559, `glib_stop` 562-569, the handlers 572-580, `do_shot` 584-610, the keepalive branch of main 851-904). This is an alternative build: a GLib main loop replaces `do_loop`, and background-activity wakeups call `do_shot`, which debounces and reads. The wakeup slot is chosen from the default interval (876-893).
- **Usage output** (`exit_usage`).

## Modules

| module | models | state | actions |
|---|---|---|---|
| `ReadLoop` | `do_loop`, the three handlers, `do_flush` | `pc`, `loop`, `due = wait_until - now`, `rem` (the `ts_wait` still to sleep), `intr` (EINTR pending), `flushers`; ghosts `grid`, `sigs`, `usr1s`, `spawned`, `steps` | `LoopTop`, `ReadDone`, `SleepCheck`, `SleepEnd`, `SleepInterrupted`, `SleepFailed` (main thread); `Tick`, `ClockStep` (time and the realtime clock); `SigInt`, `SigTerm`, `SigUsr1`, `FlushDone` |
| `LoopAbstract` | what `do_loop` promises (spec 4.1) | `state` (`wait`, `read`, `done`, `failed`), `stop` | `StartRead` (only without a stop), `EndRead`, `Return` (only after a stop), `Fail`, `RequestStop` |
| `Daemon` | `main` with `notify_*`, `pidfile_*`, `do_init`, `do_shutdown`, the handlers | `pc` of main, the flags `daemonize`, `testConfig` and `testReadall`, the two environment variables, `ready` (handshakes sent), `forked`, `pidfile` (`absent`, `ours` or `foreign`), `handlers` installed, `stopFlag`, `plugins`, `flushers`, `exitStatus`, `exitCode`; ghosts `failures`, `sigs` | one action per step of main, each with its failure branch; `Terminate(sig)`, `Flush` and `FlushDone` at any point |
| `Keepalive` | the `HAVE_KEEPALIVE_GLIB` branch: main loop, bus, activity, `do_shot`, `glib_stop` | `pc` of main, `loopH` and `act` (the two global pointers: null, live or freed, and the activity's state), `running` (the loop's `is_running`), `bus`, `cb` (where `do_shot` is), `wake` (ticks to the armed wakeup), `since = cdtime() - last_call`; ghosts `stopReq`, `stopInRun`, `uaf`, `sigs`, `steps` | `LoopNew`, `ConnectBus`, `ActivityNew` (each may fail and return 1), `Setup`, `RunEnter`, `RunExit`, `Cleanup`, `Finish`; `Wakeup`, `ShotCheck`, `ShotRead` (the callback); `Tick`, `ClockStep`, `Stop` (the handlers) |
| `KeepaliveSlot` | the slot choice (876-893) as the operator `SlotFor` | `interval` (in ticks of `1/Res` s), `slot` | `Select` |
| `NotifyAddress` | the `sockaddr_un` of `notify_systemd` (472-519) | `name` (`NOTIFY_SOCKET` as a sequence of characters), `sent` (the address the kernel reads) | `Send`, built from `SunPathOf`, `SizeOf`, `KernelAddress` |
| `ReadLoopProofs`, `DaemonProofs`, `KeepaliveProofs`, `KeepaliveSlotProofs`, `NotifyAddressProofs` | theorems | | |
| `MCReadLoop`, `MCDaemon`, `MCKeepalive`, `MCKeepaliveSlot`, `MCNotifyAddress` | TLC instances | | |

### How the models correspond to the code

- **Relative time.** `ReadLoop` does not store `cdtime()` and `wait_until`. It stores their difference `due`, which is all the code branches on (`now >= wait_until` is `due <= 0`) and all it sleeps for.
  - A `Tick` is one unit of `cdtime_t`.
  - A `ClockStep` moves the realtime clock by up to `MaxStep` units in either direction. It changes `due` but not the `nanosleep` countdown `rem`, as on Linux.
- **Counter width.** `loop` is kept modulo `LoopMod` (2^w for an int of w bits).
- **Signal delivery.** A signal may or may not interrupt the main thread's sleep. It may run on a flush thread, or between the loop test and the `nanosleep` call.
- **Daemon's view of `do_loop`.** `Daemon` follows the process that goes on to run the loop: the child after a fork. It abstracts `do_loop` to what main sees of it:
  - reads;
  - `return (0)` once the stop flag is set;
  - `return (-1)`.
- **Failure points.** Every call that can fail (`cf_read`, `fork`, `fopen`, `open`, `dup`, `sigaction`, `socket`, `sendto`, `unlink`, plugin init, read and shutdown) has both outcomes, chosen with `\E ok \in BOOLEAN`.
- **Signals before their handler.** A signal that arrives before its handler is installed kills the process by the default action.
- **Refinement mapping.** `ReadLoop` maps to `LoopAbstract` by `AbsState` (`read` while `pc = "read"`, `done` and `failed` at the two returns, `wait` elsewhere) and `stop <- loop # 0`. Sleeping, waking, the signal handlers and the clock are stutters of the abstract scheduler.
- **GLib and the keepalive library.** `Keepalive` models them by what collectd relies on:
  - `g_main_loop_run` sets `is_running` on entry, so a `g_main_loop_quit` before it is undone;
  - the loop returns once `is_running` is clear and no callback is being dispatched;
  - a new activity is stopped; `background_activity_wait` arms one wakeup `Slot` ticks ahead; the wakeup makes it running and calls `do_shot`; `background_activity_stop` disarms it;
  - after the unref calls the objects are freed, but the globals keep their values.
- **Debounce time.** `since` is `cdtime() - last_call`, capped at a value above which no comparison changes. A realtime clock step moves `since` but not the keepalive timer `wake`.
- **Strings.** `NotifyAddress` keeps `NOTIFY_SOCKET` as a sequence over four characters (`@`, `/` and two ordinary ones) and NUL. `sstrncpy` copies at most `SunPath - 1` characters and ends `sun_path` with NUL; the kernel reads `su_size - 2` bytes, and a path up to its first NUL.

## Runs

| run | cfg | checks | result |
|---|---|---|---|
| readloop_monotone | `ReadLoop_monotone.cfg` | TypeOK, DeadlineOnGrid, NoOversleep, StopHonored | pass |
| readloop_clocksteps | `ReadLoop_clocksteps.cfg` | OversleepWithinStep, StopHonored, LoopSpecImplemented, with clock steps | pass |
| daemon_lifecycle | `Daemon_lifecycle.cfg` | TypeOK, ReadinessProtocol, StopLeadsToExit | pass |
| daemon_pidremove | `Daemon_pidremove.cfg` | PidFileRemovedOnlyByOwner | violation: a foreign PID file is unlinked |
| daemon_stalepid | `Daemon_stalepid.cfg` | PidFileReleasedOnExit | violation: early exits leave the PID file |
| daemon_exitstatus | `Daemon_exitstatus.cfg` | ExitStatusReportsFailures | violation: failures (a logged loop failure, an unchecked unlink) exit 0 |
| keepalive_monotone | `Keepalive_monotone.cfg` | TypeOK, ReadsContinue, StopWhileRunningHonored, NoShotAfterStop, with forward clock steps | pass |
| keepalive_stall | `Keepalive_stall.cfg` | ReadsContinue | violation: reads stop for good after a backward clock step |
| keepalive_stoplost | `Keepalive_stoplost.cfg` | StopHonored | violation: a stop before `g_main_loop_run` is lost |
| keepalive_uaf | `Keepalive_uaf.cfg` | NoUseAfterFree | violation: `glib_stop` after the cleanup uses freed objects |
| keepaliveslot_fraction | `KeepaliveSlot_fraction.cfg` | SlotMatchesInterval | violation: a 30.1 s interval gets the 30 s slot |
| notifyaddress_long | `NotifyAddress_long.cfg` | AddressIsNamed | violation: a name as long as `sun_path` is truncated |

Three more cfgs are kept beside these for the reader. `ReadLoop_flushdrop.cfg` (FlushPerSignal: a failed `pthread_create` drops a flush request) finds a violation. `KeepaliveSlot_seconds.cfg` (every whole-second interval up to 4000 s gets the right slot) and `NotifyAddress_fits.cfg` (every name shorter than `sun_path` is addressed correctly) pass.

What the properties say:

- **DeadlineOnGrid.** `(due + grid) % Interval = 0`: the pending deadline is a whole number of intervals after the last resynchronisation. This is the fixed-cadence, no-drift promise. The ghost `grid` moves with every clock step, so the steps cannot change it; it is checked on the monotone run only.
- **NoOversleep.** With a monotone clock, no sleep is longer than one interval, and no read starts more than an interval before its deadline.
- **StopHonored** (ReadLoop). `loop # 0 ~> do_loop returned`. This includes a signal that lands between the loop test and `nanosleep`.
- **OversleepWithinStep.** With the realtime clock stepped, a sleep, and the deadline a read starts with, exceed one interval by at most the total size of the clock steps so far. `wait_until` is absolute and `ts_wait` relative, so a step back lengthens the next sleep by the step (hazard at 375). The long sleep absorbs the step, so the lateness does not pile up.
- **LoopSpecImplemented.** `Abs!Spec`: the behaviours of `do_loop` with its handlers are behaviours of `LoopAbstract` under the mapping, fairness included. No read starts once `loop # 0`, the stop is never withdrawn, and `do_loop` returns 0 only after one.
- **ReadinessProtocol.** At most one handshake is sent, and there is no fork after a handshake.
- **StopLeadsToExit.** A stop flag, set at any point of main, leads to the end of the process.
- **NoShotAfterStop.** Once a stop signal has reached `glib_stop` inside `g_main_loop_run`, no wakeup starts `do_shot` again. This holds although a `do_shot` that was interrupted by the signal re-arms the activity (607).
- **ReadsContinue.** While the GLib loop runs, `do_shot` reads again unless the activity was stopped or the loop ends.
- **StopWhileRunningHonored / StopHonored** (Keepalive). A stop signal inside `g_main_loop_run`, or at any point of the branch, ends the process.
- **NoUseAfterFree.** `glib_stop` never reaches a freed activity or main loop.
- **SlotMatchesInterval.** The slot is the shortest keepalive frequency not shorter than the interval, as the comment at 878-881 intends.
- **AddressIsNamed.** `READY=1` goes to the socket `NOTIFY_SOCKET` names.

The violation runs are the findings in `PROJECT.json`:

1. `daemon_pidremove`: under a supervisor `daemonize` stays 1. The process never writes a PID file, yet it unlinks whatever file is at that path.
2. `daemon_stalepid`: the return paths after `pidfile_create`, and signals that arrive before `sigaction`, leave the PID file behind.
3. `daemon_exitstatus`: main exits 0 after a logged failure. The failure can come from `do_loop`, `unlink` or the notify path.
4. `keepalive_stall`: after the realtime clock steps back, `now <= last_call` makes `do_shot` return before `background_activity_wait` (596). The activity stays running with no wakeup armed, and no plugin is read again. The spec's event-loop variant only skips one cycle.
5. `keepalive_stoplost`: `glib_stop` does nothing while `glib_mainloop_handle` is NULL (567). A quit between `g_main_loop_new` and `g_main_loop_run` is undone when run sets `is_running`. Either way the daemon ignores the SIGINT or SIGTERM.
6. `keepalive_uaf`: the globals are not reset after the unref calls (901-903). A signal during the later `do_shutdown` makes `glib_stop` use freed objects (undefined behaviour).
7. `keepaliveslot_fraction`: `default_interval = interval - 1` followed by `<` turns `<` into `<=` only for whole seconds. An interval strictly between 30 s and 31 s (or just above any other frequency) gets a slot shorter than itself.
8. `notifyaddress_long`: `sstrncpy` keeps at most `sizeof (sun_path) - 1` characters. A path of 108 characters or more is truncated. For an abstract name, `su_size` then also covers the terminating NUL. `NotifyAddressProofs` proves that every shorter name is addressed correctly.

### Bounds

- **`Interval = 3` with `MaxOverrun = 2`.** This is enough for both branches of the overrun test (`due <= 0` with `due < 0` reachable), for sleeps interrupted part of the way through, and for a deadline of up to two intervals ahead.
- **Stop signals: two in the monotone run, fewer than `LoopMod = 4`.** This covers a second signal after the first has already stopped the loop, without a wrap.
- **Flush signals: two.** This covers two flush threads alive at once.
- **Clock steps: two, of up to ±2 units, in `readloop_clocksteps`.** These cover steps both backwards and forwards across a deadline.
- **Daemon: `MaxSignals = 2`.** This is enough for a signal before and after each installation point.
- **Keepalive: `Slot = 3` ticks, `Debounce = 1` tick (one second).** The slot is longer than the debounce, as every real slot (30 s and up) is longer than one second. Two stop signals cover a stop before and after the cleanup. The passing run allows one forward step of up to 2 ticks; `keepalive_stall` allows one step of up to ±3 ticks, enough to put `now` before `last_call`.
- **KeepaliveSlot: `Res = 10`, intervals up to 40 s.** Tenths of a second reach the interval between 30 s and 31 s. `KeepaliveSlot_seconds.cfg` covers every whole second up to 4000 s, past the last frequency.
- **NotifyAddress: `SunPath = 5`.** The cut-off is the same at any size, and `AddressFitsThm` proves the correct side of it for every `SunPath`. Names up to 4 characters fit; `notifyaddress_long` tries 6.

Every action and every branch fires in the passing runs. In particular, `SleepFailed` and `LoopFail` are reachable even though they are not fair.

### Fairness

- **`ReadLoop`:** weak fairness on the main thread's steps, on `Tick` (time passes) and on `FlushDone` (a started thread finishes).
  - Not on `SleepFailed`: nanosleep failing with something other than EINTR is an error, not a scheduling choice.
  - Not on the signals or clock steps, which are environment inputs.
- **`Daemon`:** weak fairness on every step of main except `LoopRead` and `LoopFail`. The loop returns once the flag is set, which is what `StopHonored` establishes in `ReadLoop`.

- **`Keepalive`:** weak fairness on main's steps, on the callback steps (the GLib loop dispatches a ready source), on `Tick`, and on `Wakeup`: the keepalive service delivers an armed wakeup once it is due, which is the service's contract. There is none on `Stop` or `ClockStep`, which are environment inputs.
- **`LoopAbstract`:** weak fairness on `StartRead`, `EndRead` and `Return`, which `ReadLoop`'s fairness on the main thread provides.

Every passing cfg sets `CHECK_DEADLOCK FALSE`, because do_loop, main and the keepalive branch all terminate.

### Mutants

Each property of a passing run is broken by a plausible bug in the code it is about. The mutant operators are defined just before the definitions they replace:

| property | mutant | the bug |
|---|---|---|
| TypeOK | `FlushDoneUnguarded` | a thread exit without a thread |
| DeadlineOnGrid | `SleepEndFixedDelay` | fixed delay: `wait_until = cdtime() + interval` after waking |
| OversleepWithinStep | `ReadDoneLateAdvance` | the same ordering bug, caught on the stepping clock |
| NoOversleep | `ReadDoneLateAdvance` | the deadline is advanced before `ts_wait` is computed |
| StopHonored | `LoopTopSpin` | the loop head never returns |
| ReadinessProtocol | `NotifyForkAfterReady` | `notify_systemd` returns 0 after sending READY |
| StopLeadsToExit | `LoopReturnNever` | `do_loop` never returns normally |
| LoopSpecImplemented | `LoopTopNoCheck` | the loop head reads without testing `loop` |
| TypeOK (Keepalive) | `TickUnguarded` | the wakeup countdown goes below zero |
| ReadsContinue | `ShotReadNoWait` | `do_shot` reads without `background_activity_wait` |
| StopWhileRunningHonored | `StopNoQuit` | `glib_stop` stops the activity but does not quit the loop |
| NoShotAfterStop | `StopNoQuit` | the same: the re-armed activity fires into a loop that was never quit |

## Proofs (checked by `tlapm`)

### `ReadLoopProofs`

The constants are assumed only as in `ReadLoopAssumption`: `Interval > 0`, `LoopMod >= 2`, and naturals for the bounds.

- **`TypeCorrect`: `Spec => []TypeOK`.** The type invariant is split into its numeric part `TypeNum`, proved with SMT, and `intr \in BOOLEAN`, proved with Zenon.
- **`DeadlineOnGridThm`: `Spec => []DeadlineOnGrid`.** The invariant as stated, with `%`, is not preserved in a form the provers handle. The proof uses the stronger `GridMultiple == \E k \in Int : due + grid = k * Interval`, which is linear once the witness is picked:
  - Init gives `k = 1`.
  - `ReadDone` gives `1` on an overrun and `k + 1` otherwise.
  - `Tick` and `ClockStep` shift `due` and `grid` by opposite amounts, up to the modulo. The lemma `GridShiftMod` handles that modulo through `x % I = x - (x \div I) * I`.
  - `GridMultiple` implies `DeadlineOnGrid` by `MultipleMod`.
- **`NoOversleepThm`: `ASSUME ~ClockSteps /\ MaxSignals < LoopMod PROVE Spec => []NoOversleep`.**
  - Why the hypotheses: a clock step backwards breaks the bound (`OversleepWithinStepThm` gives the bound with clock steps). A wrapped `loop` would let the loop go on after a stop. Wrapping `int loop` takes 2^31 signals, so `MaxSignals < LoopMod` holds of any real run.
  - The inductive invariant `OversleepBounds` adds `loop = sigs`, so the counter never wraps, and `due <= Interval` at the loop head while `loop = 0`. It also adds `due <= rem + Interval` while sleeping, which ties the advanced deadline to the remaining sleep. TLC checked it as an invariant of the monotone run before it was proved.

- **`LoopRefinement`: `ASSUME MaxSignals < LoopMod PROVE Spec => Abs!Init /\ [][Abs!Next]_Abs!vars`.** This is the safety part of `LoopSpecImplemented`, for every interval, counter width and bound. The proof has the usual two parts:
  - `Init` maps to `Abs!Init`;
  - every step maps to an abstract step or a stutter (`RefinementStep`, one case per action). `LoopTop` is `StartRead` when `loop = 0` and `Return` otherwise; `ReadDone` is `EndRead`; `SleepFailed` is `Fail`; a stop signal is `RequestStop`; everything else leaves `AbsState` and `loop # 0` alone.
  - The stop signal is the only delicate case: `loop # 0` must hold afterwards, which needs `LoopCount == loop = sigs`. With fewer signals than `LoopMod`, `loop + 1` does not wrap (`ModSmall`). `LoopCountStep` proves `LoopCount` inductive, clock steps included.

- **`OversleepWithinStepThm`: `ASSUME MaxSignals < LoopMod PROVE Spec => []OversleepWithinStep`.** This is `NoOversleepThm` with clock steps.
  - The inductive invariant `StepBounds` is `OversleepBounds` with `Slack == MaxStep * steps` added to each bound.
  - A `ClockStep` moves `due` by at most `MaxStep` and raises `Slack` by exactly `MaxStep` (`StepBoundsClock`). `rem`, the relative `nanosleep` countdown, does not move.
  - The other steps keep the bounds as in `OversleepStep`: the slack is unchanged and never negative.
  - TLC checks the property on `readloop_clocksteps`. With each bound lowered by one it finds a violation, so the bound is reached.

### `DaemonProofs`

- **`TypeCorrect`: `Spec => []TypeOK`**, for every `MaxSignals`. `TypeOK` alone is not inductive: `flushers \in 0..MaxSignals` needs `flushers <= sigs`, since each thread is created by a delivered signal; `sigs` counts signals of every kind, so this bounds the threads by all signals, not by SIGUSR1 alone. The invariant is split into its Boolean part (Zenon) and the rest (SMT).
- **`ReadinessThm`: `Spec => []ReadinessProtocol`.** `ReadyInv` places the handshake and the fork on the path of main:
  - no handshake before `fork` is left;
  - no fork before `fork` is reached;
  - `ready` is empty or one of the two handshakes;
  - a handshake excludes a fork, because `Notify` goes straight to `sigint` after sending one.
  `ReadyCard` turns the third conjunct into `Cardinality(ready) <= 1`.

### `NotifyAddressProofs`

- **`AddressFitsThm`.** For every `SunPath`, every name that passes the check of `notify_systemd` and is shorter than `sun_path` is sent to exactly the address it names: `KernelAddress(SunPathOf(nm), SizeOf(nm)) = Intended(nm)`. There is one lemma per branch.
  - `AbstractFits`: `su_size` is not clamped, and the bytes it covers are NUL followed by the name without its `@`.
  - `PathFits`: the first NUL of `sun_path` is the one right after the name, found through `SelectInSeq` and `Min`.
  - The proof rests on `SubSeqProperties`, `ConcatProperties` and `SeqEqual` of the library.

### `KeepaliveProofs`

`KeepaliveAssumption` gives what the proofs use: `Debounce >= 1`, `Debounce <= Slot`, and naturals for the bounds.

- **`TypeCorrect`: `Spec => []TypeOK`.** `TypeOK` is not inductive, because its lower bound on `since` (`-(MaxStep * MaxClockSteps)`) is not preserved by a step taken from a state where `since` is already at that bound but clock steps remain: a further step back leaves the range. The inductive form `SinceBound == since >= -(MaxStep * steps)` ties the bound to the clock steps taken so far. `Tick` and `ClockStep` keep it through the lemma `CapRange` on the capped sum. `wake` stays in `0..Slot` because `Tick` counts down only while it is positive. As in `DaemonProofs`, the Booleans go to Zenon and the rest to SMT.
- **`NoShotAfterStopThm`: `Spec => NoShotAfterStop`,** an action property. It is proved through `StopInv`:
  - the loop handle is live from `g_main_loop_new` until the cleanup;
  - once a stop came inside the loop, `pc` has passed `run0`, and `is_running` is FALSE.

  `g_main_loop_quit` in `glib_stop` therefore clears `is_running`, and nothing sets it again. `Wakeup`, the only step that starts `do_shot`, needs it set. TLC checked `StopInv` on an instance with clock steps both ways before the proof.

### `KeepaliveSlotProofs`

These results hold for every interval, not only the 4000 s that `KeepaliveSlot_seconds.cfg` enumerates.

- **`WholeSeconds`** (lemma). At every resolution, an interval of `k` whole seconds gets `ReferenceSlot`. Subtracting one second and testing `<` is the same as testing `<=` when both sides are multiples of a second (`WholeSecondsSets`). Dropping one hour from the set of fitting frequencies keeps the smallest (`MinWithoutHour`).
- **`SlotSecondsThm`: `ASSUME Res = 1 PROVE Spec => []SlotMatchesInterval`.** This is `SlotMatchesInterval` when the interval is counted in seconds.
- **`SlotTooShortThm`.** For every resolution and every frequency `f` below one hour, an interval strictly between `f` and `f + 1` seconds gets slot `f`, shorter than the interval. This is finding 7 for every frequency, where `keepaliveslot_fraction` shows one instance.

### What only TLC checks

- **Liveness** (`StopHonored`, `StopLeadsToExit`, `ReadsContinue`, `StopWhileRunningHonored`, and the fairness part of `LoopSpecImplemented`). TLAPS in this version does not handle the ENABLED reasoning that weak fairness needs.
- **The violation runs.** Their counterexamples are particular behaviours on small instances. Only `SlotTooShortThm` generalises one of them, finding 7, to every frequency and resolution.

## Not modelled

- **Host and global configuration.** `init_hostname`, `init_global_variables` and `change_basedir` are reduced to one success-or-failure step in `Daemon.Configure`. They are sequential calls with no shared state, and their only effect main sees is the return value.
- **Option parsing.** `getopt` is reduced to its outcome flags, and `exit_usage` is output only.
- **What plugins do.** `plugin_read_all`, `plugin_flush` and `plugin_shutdown_all` live in other files. Because of this, the question whether a `do_flush` thread may still be inside `plugin_flush` when `plugin_shutdown_all` runs (910) is left open. `Daemon` counts the threads, but the spec says nothing of flushes against shutdown.
- **The keepalive build's effect on the PID file.** The early `return (1)` paths of the keepalive branch skip `pidfile_remove`. `Daemon` models the `do_loop` build, where this branch is not compiled.

## Next steps

1. A proof that `Daemon`'s step relation keeps a PID-file invariant that holds in the supervisor-free configuration (where `daemon_pidremove` cannot happen).
2. The flush-versus-shutdown question, once the plugin side of `plugin_flush` and `plugin_shutdown_all` is modelled.
3. Larger instances of `ReadLoop` (a longer interval, more overruns) and of `Daemon` (more signals).
