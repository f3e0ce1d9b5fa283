------------------------------- MODULE Daemon -------------------------------
(***************************************************************************)
(* The process orchestrator of src/daemon/collectd.c: main() from the     *)
(* command line to its return, with the readiness handshakes              *)
(* (notify_upstart, notify_systemd), daemonization (fork, setsid, the     *)
(* standard descriptors), the PID file (pidfile_create, pidfile_remove),  *)
(* the installation of the signal handlers, plugin init and shutdown, and *)
(* the signals that may arrive at any point of it.                        *)
(*                                                                         *)
(* The process followed is the one that goes on to run the loop: after a *)
(* fork that is the child (the parent returns 0 at once).  do_loop() is   *)
(* abstracted to what main() sees of it: reads happen until the stop flag *)
(* is set, then it returns 0, or it fails and returns -1 (ReadLoop models *)
(* it in detail).  The file system holds at most the one PID file path.   *)
(***************************************************************************)
EXTENDS Naturals, FiniteSets

CONSTANTS
    MaxSignals      \* bound: signal deliveries in one behaviour

ASSUME DaemonAssumption == MaxSignals \in Nat

\* Values of UPSTART_JOB: unset, "collectd", or some other job name.
UpstartEnvs == {"unset", "collectd", "other"}

\* Values of NOTIFY_SOCKET: unset, rejected by the check of its first
\* character and length, or an absolute path / abstract socket name.
NotifyEnvs == {"unset", "invalid", "valid"}

\* The three signals main() installs handlers for.
Signals == {"INT", "TERM", "USR1"}

VARIABLES
    pc,           \* where main() is
    daemonize,    \* the `daemonize' local: 1 unless -f or -T
    testConfig,   \* -t
    testReadall,  \* -T
    upstartEnv,   \* getenv ("UPSTART_JOB")
    notifyEnv,    \* getenv ("NOTIFY_SOCKET")
    ready,        \* handshakes a supervisor has received
    forked,       \* this process is the child of the daemonizing fork
    pidfile,      \* the PID file on disk: "absent", "ours" or "foreign"
    handlers,     \* signals whose handler has been installed
    stopFlag,     \* loop != 0
    plugins,      \* plugin subsystem: "loaded", "initialized", "shutdown"
    reads,        \* plugin_read_all has been called
    flushers,     \* detached do_flush threads running
    sigs,         \* ghost: signal deliveries so far
    failures,     \* ghost: steps of main() that failed
    exitStatus,   \* the `exit_status' local
    exitCode      \* the process' exit code, once it has exited

vars == <<pc, daemonize, testConfig, testReadall, upstartEnv, notifyEnv,
          ready, forked, pidfile, handlers, stopFlag, plugins, reads,
          flushers, sigs, failures, exitStatus, exitCode>>

\* Program points of main().  "exited" is a return or exit(); "killed" is
\* termination by the default action of a signal without a handler.
PCs == {"config", "notify", "fork", "pidfile", "stdio", "sigint", "sigterm",
        "sigusr1", "init", "loop", "shutdown", "rmpid", "exited", "killed"}

Alive == pc \notin {"exited", "killed"}

\* The process returns from main() (or calls exit) with status s.
Exit(s) == pc' = "exited" /\ exitCode' = s

-----------------------------------------------------------------------------

\* Options from getopt (-T forces daemonize = 0), the environment and the
\* file system as they are when the process starts.
Init ==
    /\ pc = "config"
    /\ testReadall \in BOOLEAN
    /\ daemonize \in IF testReadall THEN {FALSE} ELSE BOOLEAN
    /\ testConfig \in BOOLEAN
    /\ upstartEnv \in UpstartEnvs
    /\ notifyEnv \in NotifyEnvs
    /\ ready = {}
    /\ forked = FALSE
    /\ pidfile \in {"absent", "foreign"}
    /\ handlers = {}
    /\ stopFlag = FALSE
    /\ plugins = "loaded"
    /\ reads = FALSE
    /\ flushers = 0
    /\ sigs = 0
    /\ failures = {}
    /\ exitStatus = 0
    /\ exitCode = 0

\* cf_read, global_option_get ("BaseDir"), change_basedir and
\* init_global_variables: any failure returns 1; -t returns 0 afterwards.
Configure ==
    /\ pc = "config"
    /\ \E ok \in BOOLEAN :
          IF ~ok THEN Exit(1)
          ELSE IF testConfig THEN Exit(0)
          ELSE pc' = "notify" /\ UNCHANGED exitCode
    /\ UNCHANGED <<daemonize, testConfig, testReadall, upstartEnv, notifyEnv,
                   ready, forked, pidfile, handlers, stopFlag, plugins, reads,
                   flushers, sigs, failures, exitStatus>>

\* Mutant: notify_systemd returns 0 after READY=1 was sent.
NotifyForkAfterReady ==
    /\ pc = "notify"
    /\ IF ~daemonize
         THEN /\ pc' = "sigint"
              /\ UNCHANGED <<upstartEnv, notifyEnv, ready, failures>>
       ELSE IF upstartEnv = "collectd"
         THEN /\ ready' = ready \cup {"upstart"}
              /\ upstartEnv' = "unset"
              /\ pc' = "sigint"
              /\ UNCHANGED <<notifyEnv, failures>>
       ELSE IF notifyEnv = "valid"
         THEN /\ notifyEnv' = "unset"
              /\ \E sent \in BOOLEAN :
                   IF sent
                     THEN /\ ready' = ready \cup {"systemd"}
                          /\ pc' = "fork"
                          /\ UNCHANGED failures
                     ELSE /\ failures' = failures \cup {"notify"}
                          /\ pc' = "fork"
                          /\ UNCHANGED ready
              /\ UNCHANGED upstartEnv
         ELSE /\ pc' = "fork"
              /\ failures' = IF notifyEnv = "invalid"
                               THEN failures \cup {"notify"} ELSE failures
              /\ UNCHANGED <<upstartEnv, notifyEnv, ready>>
    /\ UNCHANGED <<daemonize, testConfig, testReadall, forked, pidfile,
                   handlers, stopFlag, plugins, reads, flushers, sigs,
                   exitStatus, exitCode>>

\* SIGCHLD is ignored; then, when daemonizing,
\*   notify_upstart() == 0 && notify_systemd() == 0
\* decides whether to fork.  notify_upstart: UPSTART_JOB=collectd raises
\* SIGSTOP (the handshake) and unsets the variable; another value is only
\* warned about.  notify_systemd (tried only if upstart did not answer 1):
\* a valid NOTIFY_SOCKET is unset before the socket is created, and either
\* READY=1 is sent or socket/sendto fails and 0 is returned.
Notify ==
    /\ pc = "notify"
    /\ IF ~daemonize
         THEN /\ pc' = "sigint"
              /\ UNCHANGED <<upstartEnv, notifyEnv, ready, failures>>
       ELSE IF upstartEnv = "collectd"
         THEN /\ ready' = ready \cup {"upstart"}
              /\ upstartEnv' = "unset"
              /\ pc' = "sigint"
              /\ UNCHANGED <<notifyEnv, failures>>
       ELSE IF notifyEnv = "valid"
         THEN /\ notifyEnv' = "unset"
              /\ \E sent \in BOOLEAN :
                   IF sent
                     THEN /\ ready' = ready \cup {"systemd"}
                          /\ pc' = "sigint"
                          /\ UNCHANGED failures
                     ELSE /\ failures' = failures \cup {"notify"}
                          /\ pc' = "fork"
                          /\ UNCHANGED ready
              /\ UNCHANGED upstartEnv
         ELSE /\ pc' = "fork"
              /\ failures' = IF notifyEnv = "invalid"
                               THEN failures \cup {"notify"} ELSE failures
              /\ UNCHANGED <<upstartEnv, notifyEnv, ready>>
    /\ UNCHANGED <<daemonize, testConfig, testReadall, forked, pidfile,
                   handlers, stopFlag, plugins, reads, flushers, sigs,
                   exitStatus, exitCode>>

\* fork (): -1 returns 1; the parent returns 0 and the child, followed
\* here, goes on with setsid ().
Fork ==
    /\ pc = "fork"
    /\ \E ok \in BOOLEAN :
          IF ok THEN pc' = "pidfile" /\ forked' = TRUE /\ UNCHANGED exitCode
                ELSE Exit(1) /\ UNCHANGED forked
    /\ UNCHANGED <<daemonize, testConfig, testReadall, upstartEnv, notifyEnv,
                   ready, pidfile, handlers, stopFlag, plugins, reads,
                   flushers, sigs, failures, exitStatus>>

\* pidfile_create: fopen (file, "w") truncates whatever is there and the
\* child's pid is written; if fopen fails, exit (2).
PidfileCreate ==
    /\ pc = "pidfile"
    /\ \E ok \in BOOLEAN :
          IF ok THEN pc' = "stdio" /\ pidfile' = "ours" /\ UNCHANGED exitCode
                ELSE Exit(2) /\ UNCHANGED pidfile
    /\ UNCHANGED <<daemonize, testConfig, testReadall, upstartEnv, notifyEnv,
                   ready, forked, handlers, stopFlag, plugins, reads,
                   flushers, sigs, failures, exitStatus>>

\* close (2), close (1), close (0); open ("/dev/null") must return 0 and
\* dup (0) must return 1 and then 2; any other result returns 1.
RedirectStdio ==
    /\ pc = "stdio"
    /\ \E ok \in BOOLEAN :
          IF ok THEN pc' = "sigint" /\ UNCHANGED exitCode ELSE Exit(1)
    /\ UNCHANGED <<daemonize, testConfig, testReadall, upstartEnv, notifyEnv,
                   ready, forked, pidfile, handlers, stopFlag, plugins, reads,
                   flushers, sigs, failures, exitStatus>>

\* sigaction (sig, ...) for one handler; a failure returns 1.  SIGPIPE is
\* set to SIG_IGN just before the first of them.
Install(sig, next) ==
    /\ \E ok \in BOOLEAN :
          IF ok THEN /\ pc' = next
                     /\ handlers' = handlers \cup {sig}
                     /\ UNCHANGED exitCode
                ELSE Exit(1) /\ UNCHANGED handlers
    /\ UNCHANGED <<daemonize, testConfig, testReadall, upstartEnv, notifyEnv,
                   ready, forked, pidfile, stopFlag, plugins, reads,
                   flushers, sigs, failures, exitStatus>>

InstallInt == pc = "sigint" /\ Install("INT", "sigterm")

InstallTerm == pc = "sigterm" /\ Install("TERM", "sigusr1")

InstallUsr1 == pc = "sigusr1" /\ Install("USR1", "init")

\* do_init: setlocale, update_kstat, sg_init, plugin_init_all; a failure
\* only sets exit_status = 1.
DoInit ==
    /\ pc = "init"
    /\ plugins' = "initialized"
    /\ pc' = "loop"
    /\ \E ok \in BOOLEAN :
          /\ exitStatus' = IF ok THEN exitStatus ELSE 1
          /\ failures' = IF ok THEN failures ELSE failures \cup {"init"}
    /\ UNCHANGED <<daemonize, testConfig, testReadall, upstartEnv, notifyEnv,
                   ready, forked, pidfile, handlers, stopFlag, reads,
                   flushers, sigs, exitCode>>

\* -T: plugin_read_all_once; a failure sets exit_status = 1.
ReadOnce ==
    /\ pc = "loop"
    /\ testReadall
    /\ reads' = TRUE
    /\ pc' = "shutdown"
    /\ \E ok \in BOOLEAN :
          /\ exitStatus' = IF ok THEN exitStatus ELSE 1
          /\ failures' = IF ok THEN failures ELSE failures \cup {"read"}
    /\ UNCHANGED <<daemonize, testConfig, testReadall, upstartEnv, notifyEnv,
                   ready, forked, pidfile, handlers, stopFlag, plugins,
                   flushers, sigs, exitCode>>

\* do_loop (), seen from main(): a read while loop == 0 ...
LoopRead ==
    /\ pc = "loop"
    /\ ~testReadall
    /\ ~stopFlag
    /\ ~reads
    /\ reads' = TRUE
    /\ UNCHANGED <<pc, daemonize, testConfig, testReadall, upstartEnv,
                   notifyEnv, ready, forked, pidfile, handlers, stopFlag,
                   plugins, flushers, sigs, failures, exitStatus, exitCode>>

\* Mutant: do_loop never returns normally (`while (1)').
LoopReturnNever ==
    /\ FALSE
    /\ UNCHANGED vars

\* ... the return (0) once loop != 0 ...
LoopReturn ==
    /\ pc = "loop"
    /\ ~testReadall
    /\ stopFlag
    /\ pc' = "shutdown"
    /\ UNCHANGED <<daemonize, testConfig, testReadall, upstartEnv, notifyEnv,
                   ready, forked, pidfile, handlers, stopFlag, plugins, reads,
                   flushers, sigs, failures, exitStatus, exitCode>>

\* ... or the return (-1) after a failed nanosleep, which main() ignores.
LoopFail ==
    /\ pc = "loop"
    /\ ~testReadall
    /\ pc' = "shutdown"
    /\ failures' = failures \cup {"loop"}
    /\ UNCHANGED <<daemonize, testConfig, testReadall, upstartEnv, notifyEnv,
                   ready, forked, pidfile, handlers, stopFlag, plugins, reads,
                   flushers, sigs, exitStatus, exitCode>>

\* do_shutdown: plugin_shutdown_all; a failure sets exit_status = 1.
DoShutdown ==
    /\ pc = "shutdown"
    /\ plugins' = "shutdown"
    /\ pc' = "rmpid"
    /\ \E ok \in BOOLEAN :
          /\ exitStatus' = IF ok THEN exitStatus ELSE 1
          /\ failures' = IF ok THEN failures ELSE failures \cup {"shutdown"}
    /\ UNCHANGED <<daemonize, testConfig, testReadall, upstartEnv, notifyEnv,
                   ready, forked, pidfile, handlers, stopFlag, reads,
                   flushers, sigs, exitCode>>

\* if (daemonize) pidfile_remove (): unlink (file), whose result is
\* ignored; then return (exit_status).
PidfileRemove ==
    /\ pc = "rmpid"
    /\ IF daemonize
         THEN \E ok \in BOOLEAN :
                 /\ pidfile' = IF ok THEN "absent" ELSE pidfile
                 /\ failures' = IF ok /\ pidfile # "absent" THEN failures
                                ELSE failures \cup {"rmpid"}
         ELSE UNCHANGED <<pidfile, failures>>
    /\ Exit(exitStatus)
    /\ UNCHANGED <<daemonize, testConfig, testReadall, upstartEnv, notifyEnv,
                   ready, forked, handlers, stopFlag, plugins, reads,
                   flushers, sigs, exitStatus>>

-----------------------------------------------------------------------------
(* Signals, delivered at any point while the process is alive.             *)

\* SIGINT or SIGTERM: with its handler installed, loop++; before that the
\* default action terminates the process on the spot.
Terminate(sig) ==
    /\ Alive
    /\ sigs < MaxSignals
    /\ sigs' = sigs + 1
    /\ IF sig \in handlers
         THEN stopFlag' = TRUE /\ UNCHANGED <<pc, exitCode>>
         ELSE pc' = "killed" /\ UNCHANGED <<stopFlag, exitCode>>
    /\ UNCHANGED <<daemonize, testConfig, testReadall, upstartEnv, notifyEnv,
                   ready, forked, pidfile, handlers, plugins, reads,
                   flushers, failures, exitStatus>>

\* SIGUSR1: with its handler installed, a detached do_flush thread is
\* created (a failed pthread_create is silent); before that the default
\* action terminates the process.
Flush ==
    /\ Alive
    /\ sigs < MaxSignals
    /\ sigs' = sigs + 1
    /\ IF "USR1" \in handlers
         THEN /\ \E created \in BOOLEAN :
                   flushers' = IF created THEN flushers + 1 ELSE flushers
              /\ UNCHANGED pc
         ELSE pc' = "killed" /\ UNCHANGED flushers
    /\ UNCHANGED <<daemonize, testConfig, testReadall, upstartEnv, notifyEnv,
                   ready, forked, pidfile, handlers, stopFlag, plugins, reads,
                   failures, exitStatus, exitCode>>

\* Mutant: a thread exit is counted without a thread to exit.
FlushDoneUnguarded ==
    /\ Alive
    /\ flushers' = flushers - 1
    /\ UNCHANGED <<pc, daemonize, testConfig, testReadall, upstartEnv,
                   notifyEnv, ready, forked, pidfile, handlers, stopFlag,
                   plugins, reads, sigs, failures, exitStatus, exitCode>>

\* do_flush returns (plugin_flush done); threads die with the process.
FlushDone ==
    /\ Alive
    /\ flushers > 0
    /\ flushers' = flushers - 1
    /\ UNCHANGED <<pc, daemonize, testConfig, testReadall, upstartEnv,
                   notifyEnv, ready, forked, pidfile, handlers, stopFlag,
                   plugins, reads, sigs, failures, exitStatus, exitCode>>

-----------------------------------------------------------------------------

MainStep ==
    \/ Configure \/ Notify \/ Fork \/ PidfileCreate \/ RedirectStdio
    \/ InstallInt \/ InstallTerm \/ InstallUsr1 \/ DoInit \/ ReadOnce
    \/ LoopRead \/ LoopReturn \/ LoopFail \/ DoShutdown \/ PidfileRemove

Next ==
    \/ MainStep
    \/ Terminate("INT") \/ Terminate("TERM") \/ Flush
    \/ FlushDone

\* main() is never starved; do_loop returns once the flag is set (what
\* ReadLoop shows of it), which is not the failing return.
Fairness ==
    /\ WF_vars(Configure) /\ WF_vars(Notify) /\ WF_vars(Fork)
    /\ WF_vars(PidfileCreate) /\ WF_vars(RedirectStdio)
    /\ WF_vars(InstallInt) /\ WF_vars(InstallTerm) /\ WF_vars(InstallUsr1)
    /\ WF_vars(DoInit) /\ WF_vars(ReadOnce) /\ WF_vars(LoopReturn)
    /\ WF_vars(DoShutdown) /\ WF_vars(PidfileRemove) /\ WF_vars(FlushDone)

Spec == Init /\ [][Next]_vars /\ Fairness

-----------------------------------------------------------------------------
(* Properties.                                                             *)

TypeOK ==
    /\ pc \in PCs
    /\ daemonize \in BOOLEAN /\ testConfig \in BOOLEAN
    /\ testReadall \in BOOLEAN
    /\ upstartEnv \in UpstartEnvs /\ notifyEnv \in NotifyEnvs
    /\ ready \subseteq {"upstart", "systemd"}
    /\ forked \in BOOLEAN
    /\ pidfile \in {"absent", "ours", "foreign"}
    /\ handlers \subseteq Signals
    /\ stopFlag \in BOOLEAN
    /\ plugins \in {"loaded", "initialized", "shutdown"}
    /\ reads \in BOOLEAN
    /\ flushers \in 0..MaxSignals
    /\ sigs \in 0..MaxSignals
    /\ failures \subseteq {"notify", "init", "read", "loop", "shutdown",
                            "rmpid"}
    /\ exitStatus \in {0, 1}
    /\ exitCode \in {0, 1, 2}

\* The readiness handshake (spec 4.5): a supervisor hears at most one of
\* the two handshakes, and a process that has told a supervisor it is
\* ready never forks afterwards (the supervisor goes on watching the pid
\* it was told about).
ReadinessProtocol ==
    /\ Cardinality(ready) <= 1
    /\ ready # {} => ~forked

\* A stop request is honoured: once SIGINT or SIGTERM has set the flag,
\* the process ends, whatever point of main() it was at.
StopLeadsToExit == stopFlag ~> ~Alive

\* The PID file is removed only by the process that created it (spec 3,
\* 4.6): the daemon never unlinks a PID file it did not write.
PidFileRemovedOnlyByOwner ==
    [][pidfile' = "absent" => pidfile \in {"absent", "ours"}]_pidfile

\* The PID file is released on every exit path (spec 5, 3): a process that
\* wrote it leaves none behind once it is gone.
PidFileReleasedOnExit == ~Alive => pidfile # "ours"

\* Failures flag the exit status (spec 7): a process that returns from
\* main() after a step failed (readiness notification, plugin init, read,
\* loop or shutdown, each logged, or the unlink of the PID file, whose
\* result is neither checked nor logged) exits non-zero.
ExitStatusReportsFailures ==
    (pc = "exited" /\ failures # {}) => exitCode # 0

=============================================================================
