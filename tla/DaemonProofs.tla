---------------------------- MODULE DaemonProofs ----------------------------
(***************************************************************************)
(* Proofs about main() (module Daemon), for every bound on the signals.    *)
(*   - TypeCorrect: the type invariant, through flushers <= sigs: each    *)
(*     flush thread is created by a delivered signal, so there are never  *)
(*     more of them than signals (of any kind) delivered so far.          *)
(*   - ReadinessThm: at most one handshake, and no fork after one, through *)
(*     ReadyInv, which places the handshake and the fork on the path of    *)
(*     main(): both happen at most once, the handshake before "fork" is    *)
(*     left, and the fork only from "fork", which a handshake skips.       *)
(***************************************************************************)
EXTENDS Daemon, FiniteSetTheorems, TLAPS

-----------------------------------------------------------------------------
(* Typing.                                                                 *)

\* The Boolean-valued variables, which Zenon handles, and the rest, for SMT.
TypeBool ==
    /\ daemonize \in BOOLEAN /\ testConfig \in BOOLEAN
    /\ testReadall \in BOOLEAN /\ forked \in BOOLEAN
    /\ stopFlag \in BOOLEAN /\ reads \in BOOLEAN

TypeData ==
    /\ pc \in PCs
    /\ upstartEnv \in UpstartEnvs /\ notifyEnv \in NotifyEnvs
    /\ ready \subseteq {"upstart", "systemd"}
    /\ pidfile \in {"absent", "ours", "foreign"}
    /\ handlers \subseteq Signals
    /\ plugins \in {"loaded", "initialized", "shutdown"}
    /\ flushers \in 0..MaxSignals
    /\ sigs \in 0..MaxSignals
    /\ failures \subseteq {"notify", "init", "read", "loop", "shutdown",
                            "rmpid"}
    /\ exitStatus \in {0, 1}
    /\ exitCode \in {0, 1, 2}
    /\ flushers <= sigs

\* TypeOK with the bound that keeps flushers in range.
TypeInv == TypeBool /\ TypeData

LEMMA TypeSplit == TypeInv => TypeOK
  BY DEF TypeInv, TypeBool, TypeData, TypeOK

LEMMA TypeInit == Init => TypeInv
<1> SUFFICES ASSUME Init PROVE TypeInv
  OBVIOUS
<1>1. TypeBool
  BY Zenon DEF Init, TypeBool
<1>2. TypeData
  BY DaemonAssumption DEF Init, TypeData, PCs, UpstartEnvs, NotifyEnvs
<1>3. QED
  BY <1>1, <1>2 DEF TypeInv

\* Only Fork, Terminate and the loop steps set a Boolean, and to TRUE.
LEMMA BoolStep == TypeBool /\ [Next]_vars => TypeBool'
<1> SUFFICES ASSUME TypeBool, [Next]_vars PROVE TypeBool'
  OBVIOUS
<1> USE DEF TypeBool
<1>1. CASE Configure \/ Notify \/ Fork \/ PidfileCreate \/ RedirectStdio
  BY <1>1, Zenon DEF Configure, Notify, Fork, PidfileCreate, RedirectStdio,
                     Exit
<1>2. CASE InstallInt \/ InstallTerm \/ InstallUsr1
  BY <1>2, Zenon DEF InstallInt, InstallTerm, InstallUsr1, Install, Exit
<1>3. CASE DoInit \/ ReadOnce \/ LoopRead \/ LoopReturn \/ LoopFail
  BY <1>3, Zenon DEF DoInit, ReadOnce, LoopRead, LoopReturn, LoopFail
<1>4. CASE DoShutdown \/ PidfileRemove
  BY <1>4, Zenon DEF DoShutdown, PidfileRemove, Exit
<1>5. CASE Terminate("INT") \/ Terminate("TERM") \/ Flush \/ FlushDone
  BY <1>5, Zenon DEF Terminate, Flush, FlushDone
<1>6. CASE UNCHANGED vars
  BY <1>6, Zenon DEF vars
<1>7. QED
  BY <1>1, <1>2, <1>3, <1>4, <1>5, <1>6 DEF Next, MainStep

\* A flush thread is created only by a delivered SIGUSR1, and exit codes
\* come from exit_status or the constants 0, 1 and 2.
LEMMA DataStep == TypeBool /\ TypeData /\ [Next]_vars => TypeData'
<1> SUFFICES ASSUME TypeBool, TypeData, [Next]_vars PROVE TypeData'
  OBVIOUS
<1> USE DaemonAssumption DEF TypeBool, TypeData, PCs, Signals, UpstartEnvs,
                             NotifyEnvs
<1>1. CASE Configure
  BY <1>1 DEF Configure, Exit
<1>2. CASE Notify
  <2>1. UNCHANGED <<pidfile, handlers, plugins, flushers, sigs, exitStatus,
                    exitCode>> /\ pc = "notify"
    BY <1>2 DEF Notify
  <2>2. CASE ~daemonize
    <3>1. pc' = "sigint" /\ UNCHANGED <<upstartEnv, notifyEnv, ready, failures>>
      BY <1>2, <2>2, Zenon DEF Notify
    <3>2. QED
      BY <2>1, <3>1
  <2>3. CASE daemonize /\ upstartEnv = "collectd"
    <3>1. /\ ready' = ready \cup {"upstart"} /\ upstartEnv' = "unset"
          /\ pc' = "sigint" /\ UNCHANGED <<notifyEnv, failures>>
      BY <1>2, <2>3, Zenon DEF Notify
    <3>2. QED
      BY <2>1, <3>1
  <2>4. CASE daemonize /\ upstartEnv # "collectd" /\ notifyEnv = "valid"
    <3>1. /\ notifyEnv' = "unset" /\ UNCHANGED upstartEnv
          /\ \/ ready' = ready \cup {"systemd"} /\ pc' = "sigint"
                /\ UNCHANGED failures
             \/ failures' = failures \cup {"notify"} /\ pc' = "fork"
                /\ UNCHANGED ready
      BY <1>2, <2>4, Zenon DEF Notify
    <3>2. QED
      BY <2>1, <3>1
  <2>5. CASE daemonize /\ upstartEnv # "collectd" /\ notifyEnv # "valid"
    <3>1. /\ pc' = "fork" /\ UNCHANGED <<upstartEnv, notifyEnv, ready>>
          /\ failures' \in {failures, failures \cup {"notify"}}
      BY <1>2, <2>5, Zenon DEF Notify
    <3>2. QED
      BY <2>1, <3>1
  <2>6. QED
    BY <2>2, <2>3, <2>4, <2>5
<1>3. CASE Fork
  BY <1>3 DEF Fork, Exit
<1>14. CASE PidfileCreate
  BY <1>14 DEF PidfileCreate, Exit
<1>15. CASE RedirectStdio
  BY <1>15 DEF RedirectStdio, Exit
<1>4. ASSUME NEW sig \in Signals, NEW next \in PCs, Install(sig, next)
      PROVE  TypeData'
  <2>1. PICK ok \in BOOLEAN :
          IF ok THEN /\ pc' = next
                     /\ handlers' = handlers \cup {sig}
                     /\ UNCHANGED exitCode
                ELSE Exit(1) /\ UNCHANGED handlers
    BY <1>4 DEF Install
  <2>2. UNCHANGED <<upstartEnv, notifyEnv, ready, pidfile, plugins, flushers,
                    sigs, failures, exitStatus>>
    BY <1>4 DEF Install
  <2>3. CASE ok
    <3>1. pc' = next /\ handlers' = handlers \cup {sig} /\ exitCode' = exitCode
      BY <2>1, <2>3, Zenon
    <3>2. QED
      BY <2>2, <3>1
  <2>4. CASE ~ok
    <3>1. pc' = "exited" /\ exitCode' = 1 /\ handlers' = handlers
      BY <2>1, <2>4, Zenon DEF Exit
    <3>2. QED
      BY <2>2, <3>1
  <2>5. QED
    BY <2>3, <2>4
<1>16. CASE InstallInt \/ InstallTerm \/ InstallUsr1
  BY <1>16, <1>4 DEF InstallInt, InstallTerm, InstallUsr1
<1>5. CASE DoInit
  BY <1>5 DEF DoInit
<1>11. CASE ReadOnce
  BY <1>11 DEF ReadOnce
<1>12. CASE LoopRead
  BY <1>12 DEF LoopRead
<1>17. CASE LoopReturn
  BY <1>17 DEF LoopReturn
<1>18. CASE LoopFail
  BY <1>18 DEF LoopFail
<1>6. CASE DoShutdown
  BY <1>6 DEF DoShutdown, Exit
<1>19. CASE PidfileRemove
  BY <1>19 DEF PidfileRemove, Exit
<1>7. ASSUME NEW sig, Terminate(sig) PROVE TypeData'
  <2>1. sigs' = sigs + 1 /\ sigs < MaxSignals /\ flushers' = flushers
    BY <1>7 DEF Terminate
  <2>2. pc' \in PCs /\ exitCode' = exitCode
    BY <1>7 DEF Terminate
  <2>3. UNCHANGED <<upstartEnv, notifyEnv, ready, pidfile, handlers, plugins,
                    failures, exitStatus>>
    BY <1>7 DEF Terminate
  <2>4. QED
    BY <2>1, <2>2, <2>3
<1>8. CASE Flush
  BY <1>8 DEF Flush
<1>13. CASE FlushDone
  BY <1>13 DEF FlushDone
<1>9. CASE UNCHANGED vars
  BY <1>9 DEF vars
<1>10. QED
  BY <1>1, <1>2, <1>3, <1>14, <1>15, <1>16, <1>5, <1>11, <1>12, <1>17,
     <1>18, <1>6, <1>19, <1>7, <1>8, <1>13, <1>9 DEF Next, MainStep

LEMMA TypeStep == TypeInv /\ [Next]_vars => TypeInv'
  BY BoolStep, DataStep DEF TypeInv

\* Every state main() reaches, with its signals and flush threads, is well
\* typed: in particular never more flush threads than SIGUSR1 deliveries.
THEOREM TypeCorrect == Spec => []TypeOK
<1>1. QED
  BY TypeSplit, TypeInit, TypeStep, PTL DEF Spec

-----------------------------------------------------------------------------
(* The readiness handshake.                                                *)

\* Before "fork" is left no handshake has been sent; before it is reached
\* no fork has happened; a handshake is one of the two, and excludes a fork.
ReadyInv ==
    /\ pc \in {"config", "notify", "fork"} => ready = {}
    /\ pc \in {"config", "notify"} => ~forked
    /\ ready \in {{}, {"upstart"}, {"systemd"}}
    /\ ready # {} => ~forked

LEMMA ReadyInit == Init => ReadyInv
  BY DEF Init, ReadyInv

\* Only Notify and Fork touch ready or forked; every other step keeps both
\* and moves pc forward along main() or to its end.
LEMMA ReadyStep == TypeOK /\ ReadyInv /\ [Next]_vars => ReadyInv'
<1> SUFFICES ASSUME TypeOK, ReadyInv, [Next]_vars PROVE ReadyInv'
  OBVIOUS
<1> USE DEF ReadyInv
<1>1. CASE Notify
  BY <1>1 DEF Notify
<1>2. CASE Fork
  BY <1>2 DEF Fork, Exit
<1>3. CASE Configure
  BY <1>3 DEF Configure, Exit
<1>4. CASE PidfileCreate \/ RedirectStdio
  BY <1>4 DEF PidfileCreate, RedirectStdio, Exit
<1>5. CASE InstallInt \/ InstallTerm \/ InstallUsr1
  BY <1>5 DEF InstallInt, InstallTerm, InstallUsr1, Install, Exit
<1>6. CASE DoInit \/ ReadOnce \/ LoopRead \/ LoopReturn \/ LoopFail
  BY <1>6 DEF DoInit, ReadOnce, LoopRead, LoopReturn, LoopFail
<1>7. CASE DoShutdown \/ PidfileRemove
  BY <1>7 DEF DoShutdown, PidfileRemove, Exit
<1>8. CASE Terminate("INT") \/ Terminate("TERM") \/ Flush \/ FlushDone
  BY <1>8 DEF Terminate, Flush, FlushDone
<1>9. CASE UNCHANGED vars
  BY <1>9 DEF vars
<1>10. QED
  BY <1>1, <1>2, <1>3, <1>4, <1>5, <1>6, <1>7, <1>8, <1>9 DEF Next, MainStep

\* The sets ReadyInv allows hold at most one handshake.
LEMMA ReadyCard ==
    ASSUME NEW r \in {{}, {"upstart"}, {"systemd"}}
    PROVE  Cardinality(r) <= 1
<1>1. CASE r = {}
  BY <1>1, FS_EmptySet
<1>2. CASE r # {}
  <2>1. \E x : r = {x}
    BY <1>2
  <2>2. QED
    BY <2>1, FS_Singleton
<1>3. QED
  BY <1>1, <1>2

\* For every bound on the signals: a supervisor hears at most one readiness
\* handshake, and a process that sent one never forks (main() decides not
\* to daemonize from notify_upstart / notify_systemd answering 1).
THEOREM ReadinessThm == Spec => []ReadinessProtocol
<1>1. ReadyInv => ReadinessProtocol
  BY ReadyCard DEF ReadyInv, ReadinessProtocol
<1>2. QED
  BY <1>1, ReadyInit, ReadyStep, TypeCorrect, PTL DEF Spec

=============================================================================
