------------------------ MODULE UpstreamLifecycleProofs ------------------------
(***************************************************************************)
(* Proofs about what decides whether an upstream server can be called.     *)
(* First UpstreamLifecycle, for any number of configurations, operators,   *)
(* calls and health tasks, any thresholds and any number of reloads.  Then *)
(* CircuitBreaker, for any finite set of concurrent calls, any thresholds  *)
(* and any number of resets.                                               *)
(***************************************************************************)
EXTENDS UpstreamLifecycle, CircuitBreaker, FiniteSetTheorems, TLAPS

\* TypeOK in two parts: the Boolean variables, and the others.
Flags ==
    /\ alive \in BOOLEAN /\ slot \in BOOLEAN
    /\ late \in BOOLEAN /\ readded \in BOOLEAN

Shapes ==
    /\ config \in Configs \cup {Absent}
    /\ up \in Configs \cup {Absent}
    /\ health \in {"none", "Healthy", "Degraded", "Failed", "AuthRequired"}
    /\ streak \in 0..FailAt
    /\ starter \in [Starters -> [at : StarterPcs, cfg : Configs \cup {Absent}]]
    /\ reload \in [at : ReloadPcs, new : Configs \cup {Absent}]
    /\ reloads \in Nat
    /\ healthGen \in Nat
    /\ task \in [HealthTasks -> [at : {"off", "sleep", "probe"}, gen : Nat, seen : Nat]]

LEMMA TypeParts == TypeOK <=> Flags /\ Shapes
  BY Zenon DEF TypeOK, Flags, Shapes

\* Every step of every actor keeps the types.
LEMMA TypeStep == Flags /\ Shapes /\ [Next]_vars => Flags' /\ Shapes'
<1>. SUFFICES ASSUME Flags, Shapes, [Next]_vars PROVE Flags' /\ Shapes'
  OBVIOUS
<1>. USE LifecycleAssumption DEF Starters
<1>1. ASSUME NEW c \in Configs \cup {Absent}, ReloadBegin(c) PROVE Flags' /\ Shapes'
  BY <1>1
     DEF ReloadBegin, Locked, Flags, Shapes, StarterPcs, ReloadPcs, server,
         health_tasks, history
<1>2. CASE ReloadStop
  <2>1. Flags'
    BY <1>2, Zenon
       DEF ReloadStop, StopServer, Flags, server, health_tasks, history
  <2>2. Shapes'
    BY <1>2
       DEF ReloadStop, StopServer, Shapes, StarterPcs, ReloadPcs, server,
           health_tasks, history
  <2>. QED
    BY <2>1, <2>2
<1>3. CASE ReloadForget
  BY <1>3
     DEF ReloadForget, Flags, Shapes, StarterPcs, ReloadPcs, server,
         health_tasks, history
<1>4. CASE ReloadStarts
  BY <1>4
     DEF ReloadStarts, RegisterStarted, Flags, Shapes, StarterPcs, ReloadPcs,
         server, health_tasks, history
<1>5. CASE ReloadStartFails
  BY <1>5
     DEF ReloadStartFails, SetFailed, SetAuthRequired, Flags, Shapes,
         StarterPcs, ReloadPcs, server, health_tasks, history
<1>6. CASE ReloadSkipsStart
  BY <1>6
     DEF ReloadSkipsStart, Flags, Shapes, StarterPcs, ReloadPcs, server,
         health_tasks, history
<1>7. CASE StoreConfig
  BY <1>7
     DEF StoreConfig, IdleReload, Flags, Shapes, StarterPcs, ReloadPcs,
         server, health_tasks, history
<1>8. ASSUME NEW t \in HealthTasks, SpawnHealthCheck(t) PROVE Flags' /\ Shapes'
  BY <1>8
     DEF SpawnHealthCheck, Sleeping, IdleReload, Flags, Shapes, StarterPcs,
         ReloadPcs, server, health_tasks, history
<1>9. ASSUME NEW s \in Starters, RestartLoad(s) PROVE Flags' /\ Shapes'
  BY <1>9
     DEF RestartLoad, Flags, Shapes, StarterPcs, ReloadPcs, server,
         health_tasks, history
<1>10. ASSUME NEW s \in Starters, CallStarts(s) PROVE Flags' /\ Shapes'
  BY <1>10
     DEF CallStarts, Goto, Flags, Shapes, StarterPcs, ReloadPcs, server,
         health_tasks, history
<1>11. ASSUME NEW s \in Starters, CallReturns(s) PROVE Flags' /\ Shapes'
  BY <1>11
     DEF CallReturns, Goto, Flags, Shapes, StarterPcs, ReloadPcs, server,
         health_tasks, history
<1>12. ASSUME NEW s \in Starters, CallLosesSession(s) PROVE Flags' /\ Shapes'
  BY <1>12
     DEF CallLosesSession, Goto, Flags, Shapes, StarterPcs, ReloadPcs, server,
         health_tasks, history
<1>13. ASSUME NEW s \in Starters, Claim(s) PROVE Flags' /\ Shapes'
  <2>1. Flags'
    BY <1>13, Zenon
       DEF Claim, Goto, IdleStarter, Flags, server, health_tasks, history
  <2>2. Shapes'
    BY <1>13
       DEF Claim, Goto, IdleStarter, Shapes, StarterPcs, ReloadPcs, server,
           health_tasks, history
  <2>. QED
    BY <2>1, <2>2
<1>14. ASSUME NEW s \in Starters, Snapshot(s) PROVE Flags' /\ Shapes'
  <2>1. Flags'
    BY <1>14, Zenon
       DEF Snapshot, EndStart, IdleStarter, Flags, server, health_tasks,
           history
  <2>2. Shapes'
    BY <1>14
       DEF Snapshot, EndStart, IdleStarter, Shapes, StarterPcs, ReloadPcs,
           server, health_tasks, history
  <2>. QED
    BY <2>1, <2>2
<1>15. ASSUME NEW s \in Starters, CheckCurrent(s) PROVE Flags' /\ Shapes'
  <2>1. Flags'
    BY <1>15, Zenon
       DEF CheckCurrent, Goto, EndStart, IdleStarter, Flags, server,
           health_tasks, history
  <2>2. Shapes'
    BY <1>15
       DEF CheckCurrent, Goto, EndStart, IdleStarter, Shapes, StarterPcs,
           ReloadPcs, server, health_tasks, history
  <2>. QED
    BY <2>1, <2>2
<1>16. ASSUME NEW s \in Starters, Dials(s) PROVE Flags' /\ Shapes'
  BY <1>16
     DEF Dials, Goto, Flags, Shapes, StarterPcs, ReloadPcs, server,
         health_tasks, history
<1>17. ASSUME NEW s \in Starters, DialFails(s) PROVE Flags' /\ Shapes'
  <2>1. Flags'
    BY <1>17, Zenon
       DEF DialFails, Goto, EndStart, IdleStarter, Flags, server,
           health_tasks, history
  <2>2. Shapes'
    BY <1>17
       DEF DialFails, Goto, EndStart, IdleStarter, Shapes, StarterPcs,
           ReloadPcs, server, health_tasks, history
  <2>. QED
    BY <2>1, <2>2
<1>18. ASSUME NEW s \in Starters, Commit(s) PROVE Flags' /\ Shapes'
  BY <1>18
     DEF Commit, Goto, ReplaceServer, Locked, Flags, Shapes, StarterPcs,
         ReloadPcs, server, health_tasks, history
<1>19. ASSUME NEW s \in Starters, Discard(s) PROVE Flags' /\ Shapes'
  BY <1>19
     DEF Discard, EndStart, IdleStarter, Locked, Flags, Shapes, StarterPcs,
         ReloadPcs, server, health_tasks, history
<1>20. ASSUME NEW s \in Starters, Refreshed(s) PROVE Flags' /\ Shapes'
  BY <1>20
     DEF Refreshed, EndStart, IdleStarter, Flags, Shapes, StarterPcs,
         ReloadPcs, server, health_tasks, history
<1>21. CASE RecoveryResumes
  BY <1>21
     DEF RecoveryResumes, Goto, Flags, Shapes, StarterPcs, ReloadPcs, server,
         health_tasks, history
<1>22. CASE RecoveryGivesUp
  BY <1>22
     DEF RecoveryGivesUp, Goto, Flags, Shapes, StarterPcs, ReloadPcs, server,
         health_tasks, history
<1>23. ASSUME NEW t \in HealthTasks, TickEnds(t) PROVE Flags' /\ Shapes'
  BY <1>23
     DEF TickEnds, NoTask, Flags, Shapes, StarterPcs, ReloadPcs, server,
         health_tasks, history
<1>24. ASSUME NEW t \in HealthTasks, TickMissing(t) PROVE Flags' /\ Shapes'
  BY <1>24
     DEF TickMissing, Ticks, TriggerRecovery, Flags, Shapes, StarterPcs,
         ReloadPcs, server, health_tasks, history
<1>25. ASSUME NEW t \in HealthTasks, TickEnded(t) PROVE Flags' /\ Shapes'
  BY <1>25
     DEF TickEnded, Ticks, TriggerRecovery, SetFailed, Flags, Shapes,
         StarterPcs, ReloadPcs, server, health_tasks, history
<1>26. ASSUME NEW t \in HealthTasks, TickProbes(t) PROVE Flags' /\ Shapes'
  BY <1>26
     DEF TickProbes, Ticks, Flags, Shapes, StarterPcs, ReloadPcs, server,
         health_tasks, history
<1>27. ASSUME NEW t \in HealthTasks, ProbeEnds(t) PROVE Flags' /\ Shapes'
  <2>1. Flags'
    BY <1>27, Zenon DEF ProbeEnds, Flags
  <2>2. health' \in {"none", "Healthy", "Degraded", "Failed", "AuthRequired"}
        /\ streak' \in 0..FailAt
    <3>1. CASE RecordSuccess
      BY <3>1 DEF RecordSuccess, Shapes
    <3>2. CASE RecordFailure
      BY <3>2 DEF RecordFailure, Shapes
    <3>3. CASE UNCHANGED <<health, streak>>
      BY <3>3 DEF Shapes
    <3>. QED
      BY <1>27, <3>1, <3>2, <3>3 DEF ProbeEnds
  <2>3. starter' = starter \/ TriggerRecovery
    BY <1>27 DEF ProbeEnds
  <2>4. starter' \in [Starters -> [at : StarterPcs, cfg : Configs \cup {Absent}]]
    BY <2>3 DEF TriggerRecovery, Shapes, StarterPcs
  <2>5. task' \in [HealthTasks -> [at : {"off", "sleep", "probe"}, gen : Nat, seen : Nat]]
    BY <1>27 DEF ProbeEnds, Shapes
  <2>6. UNCHANGED <<config, up, reload, reloads, healthGen>>
    BY <1>27 DEF ProbeEnds
  <2>. QED
    BY <2>1, <2>2, <2>4, <2>5, <2>6 DEF Shapes, ReloadPcs
<1>28. CASE ConnectionEnds
  BY <1>28
     DEF ConnectionEnds, Flags, Shapes, StarterPcs, ReloadPcs, server,
         health_tasks, history
<1>29. CASE TokenDue
  BY <1>29
     DEF TokenDue, Goto, Flags, Shapes, StarterPcs, ReloadPcs, server,
         health_tasks, history
<1>30. CASE TokenKept
  BY <1>30
     DEF TokenKept, Goto, Flags, Shapes, StarterPcs, ReloadPcs, server,
         health_tasks, history
<1>31. CASE TokenGranted
  <2>1. Flags'
    BY <1>31, Zenon
       DEF TokenGranted, Goto, Flags, server, health_tasks, history
  <2>2. Shapes'
    BY <1>31
       DEF TokenGranted, Goto, Shapes, StarterPcs, ReloadPcs, server,
           health_tasks, history
  <2>. QED
    BY <2>1, <2>2
<1>32. CASE TokenRejected
  <2>1. Flags'
    BY <1>32, Zenon
       DEF TokenRejected, Goto, EndStart, IdleStarter, SetAuthRequired,
           Intended, Locked, Flags, server, health_tasks, history
  <2>2. Shapes'
    BY <1>32
       DEF TokenRejected, Goto, EndStart, IdleStarter, SetAuthRequired,
           Intended, Locked, Shapes, StarterPcs, ReloadPcs, server,
           health_tasks, history
  <2>. QED
    BY <2>1, <2>2
<1>33. CASE UNCHANGED vars
  BY <1>33
     DEF Flags, Shapes, StarterPcs, ReloadPcs, vars, server, health_tasks,
         history
<1>. QED
  BY <1>1, <1>2, <1>3, <1>4, <1>5, <1>6, <1>7, <1>8, <1>9, <1>10, <1>11,
     <1>12, <1>13, <1>14, <1>15, <1>16, <1>17, <1>18, <1>19, <1>20, <1>21,
     <1>22, <1>23, <1>24, <1>25, <1>26, <1>27, <1>28, <1>29, <1>30, <1>31,
     <1>32, <1>33
     DEF Next, ReloadStep, StarterStep, RecoveryStep, HealthStep

-----------------------------------------------------------------------------
(* The inductive invariant, in parts. *)

\* What the upstream may be at each step of a reload.
InstallInv ==
    /\ reload.at \in {"idle", "stop", "spawn"} => up \in {Absent, config}
    /\ reload.at \in {"forget", "start"} => up = Absent
    /\ reload.at = "store" => up \in {Absent, reload.new}
    /\ reload.at \in {"stop", "forget"} => config # Absent
    /\ reload.at = "spawn" => config = reload.new /\ config \in On

\* A probe whose connection no reload has stopped finds it still installed.
ProbeInv ==
    \A t \in HealthTasks : task[t].at = "probe" =>
        task[t].seen <= reloads /\ (task[t].seen = reloads => up # Absent)

\* Whoever is to be running and is not has failed or awaits a sign-in.
FailedInv ==
    ~late /\ up = Absent
        /\ \/ reload.at = "idle" /\ config \in On
           \/ reload.at \in {"store", "spawn"} /\ reload.new \in On
    => health \in {"Failed", "AuthRequired"}

WatchedInv ==
    reload.at = "idle" /\ config \in On =>
        \E t \in HealthTasks : task[t].at # "off" /\ task[t].gen = healthGen

\* Whoever is not to be configured has no health entry.
ForgottenInv ==
    ~late
        /\ \/ reload.at = "idle" /\ config = Absent
           \/ reload.at \in {"forget", "start", "store"} /\ reload.new = Absent
    => health = "none"

\* Until a removed server is configured again, no task is ahead of the current
\* generation, or the generations have been cleared for good.
GenInv ==
    /\ \A t \in HealthTasks : task[t].at # "off" => task[t].gen >= 1
    /\ reload.at = "forget" => reloads > 0
    /\ reload.at \in {"start", "store"} /\ reload.new = Absent => healthGen = 0
    /\ ~readded /\ config = Absent => healthGen = 0
    /\ ~readded /\ config = Absent /\ reload.at \in {"start", "store"} => reloads = 0
    /\ ~readded =>
         \/ \A t \in HealthTasks : task[t].at # "off" => task[t].gen <= healthGen
         \/ /\ healthGen = 0 /\ reloads > 0
            /\ config = Absent \/ (reload.new = Absent /\ reload.at \in {"start", "store"})


\* The steps that touch the server, its health or its health tasks ...
ServerStep ==
    \/ ReloadStop \/ ReloadForget \/ ReloadStarts \/ ReloadStartFails \/
           ReloadSkipsStart \/ StoreConfig \/ TokenRejected
    \/ \E c \in Configs \cup {Absent} : ReloadBegin(c)
    \/ \E s \in Starters : Commit(s)
    \/ \E t \in HealthTasks : SpawnHealthCheck(t) \/ TickEnds(t) \/ TickEnded(t) \/
           TickProbes(t) \/ ProbeEnds(t)

serverView == <<config, up, health, reload, reloads, healthGen, task, late, readded>>

\* ... and no other step does: dialling, claiming and waiting leave them alone.
LEMMA ServerSteps == [Next]_vars => ServerStep \/ UNCHANGED serverView
  BY DEF Next, ReloadStep, StarterStep, RecoveryStep, HealthStep, ServerStep,
         serverView, vars, server, health_tasks, history, RestartLoad,
         CallStarts, CallReturns, CallLosesSession, Claim, Snapshot,
         CheckCurrent, Dials, DialFails, Discard, Refreshed, RecoveryResumes,
         RecoveryGivesUp, TickMissing, ConnectionEnds, TokenDue, TokenKept,
         TokenGranted

\* The steps that touch the slot or a starter ...
StartStep ==
    \/ RecoveryResumes \/ RecoveryGivesUp \/ TokenDue \/ TokenKept \/ TokenGranted \/
           TokenRejected
    \/ \E s \in Starters : RestartLoad(s) \/ CallStarts(s) \/ CallReturns(s) \/
           CallLosesSession(s) \/ Claim(s) \/ Snapshot(s) \/ CheckCurrent(s) \/ Dials(s)
           \/ DialFails(s) \/ Commit(s) \/ Discard(s) \/ Refreshed(s)
    \/ \E t \in HealthTasks : TickMissing(t) \/ TickEnded(t) \/ ProbeEnds(t)

startView == <<slot, starter>>

\* ... and no other step does.
LEMMA StartSteps == [Next]_vars => StartStep \/ UNCHANGED startView
  BY DEF Next, ReloadStep, StarterStep, RecoveryStep, HealthStep, StartStep,
         startView, vars, server, health_tasks, history, ReloadBegin,
         ReloadStop, ReloadForget, ReloadStarts, ReloadStartFails,
         ReloadSkipsStart, StoreConfig, SpawnHealthCheck, TickEnds,
         TickProbes, ConnectionEnds

\* A start takes the slot only when it is free, and releases it only if it owns it.
LEMMA OneStartStep == Shapes /\ OneStartAtATime /\ [Next]_vars => OneStartAtATime'
<1>. SUFFICES ASSUME Shapes, OneStartAtATime, [Next]_vars PROVE OneStartAtATime'
  OBVIOUS
<1>. USE LifecycleAssumption DEF Starters
<1>1. ASSUME NEW s \in Starters, RestartLoad(s) PROVE OneStartAtATime'
  BY <1>1
     DEF RestartLoad, OneStartAtATime, SlotPcs, Shapes, server, health_tasks,
         history
<1>2. ASSUME NEW s \in Starters, CallStarts(s) PROVE OneStartAtATime'
  BY <1>2
     DEF CallStarts, Goto, OneStartAtATime, SlotPcs, Shapes, server,
         health_tasks, history
<1>3. ASSUME NEW s \in Starters, CallReturns(s) PROVE OneStartAtATime'
  BY <1>3
     DEF CallReturns, Goto, OneStartAtATime, SlotPcs, Shapes, server,
         health_tasks, history
<1>4. ASSUME NEW s \in Starters, CallLosesSession(s) PROVE OneStartAtATime'
  BY <1>4
     DEF CallLosesSession, Goto, OneStartAtATime, SlotPcs, Shapes, server,
         health_tasks, history
<1>5. ASSUME NEW s \in Starters, Claim(s) PROVE OneStartAtATime'
  BY <1>5
     DEF Claim, Goto, IdleStarter, OneStartAtATime, SlotPcs, Shapes, server,
         health_tasks, history
<1>6. ASSUME NEW s \in Starters, Snapshot(s) PROVE OneStartAtATime'
  BY <1>6
     DEF Snapshot, EndStart, IdleStarter, OneStartAtATime, SlotPcs, Shapes,
         server, health_tasks, history
<1>7. ASSUME NEW s \in Starters, CheckCurrent(s) PROVE OneStartAtATime'
  BY <1>7
     DEF CheckCurrent, Goto, EndStart, IdleStarter, OneStartAtATime, SlotPcs,
         Shapes, server, health_tasks, history
<1>8. ASSUME NEW s \in Starters, Dials(s) PROVE OneStartAtATime'
  BY <1>8
     DEF Dials, Goto, OneStartAtATime, SlotPcs, Shapes, server, health_tasks,
         history
<1>9. ASSUME NEW s \in Starters, DialFails(s) PROVE OneStartAtATime'
  BY <1>9
     DEF DialFails, Goto, EndStart, IdleStarter, OneStartAtATime, SlotPcs,
         Shapes, server, health_tasks, history
<1>10. ASSUME NEW s \in Starters, Commit(s) PROVE OneStartAtATime'
  BY <1>10
     DEF Commit, Goto, ReplaceServer, Locked, OneStartAtATime, SlotPcs,
         Shapes, server, health_tasks, history
<1>11. ASSUME NEW s \in Starters, Discard(s) PROVE OneStartAtATime'
  BY <1>11
     DEF Discard, EndStart, IdleStarter, Locked, OneStartAtATime, SlotPcs,
         Shapes, server, health_tasks, history
<1>12. ASSUME NEW s \in Starters, Refreshed(s) PROVE OneStartAtATime'
  BY <1>12
     DEF Refreshed, EndStart, IdleStarter, OneStartAtATime, SlotPcs, Shapes,
         server, health_tasks, history
<1>13. CASE RecoveryResumes
  BY <1>13
     DEF RecoveryResumes, Goto, OneStartAtATime, SlotPcs, Shapes, server,
         health_tasks, history
<1>14. CASE RecoveryGivesUp
  BY <1>14
     DEF RecoveryGivesUp, Goto, OneStartAtATime, SlotPcs, Shapes, server,
         health_tasks, history
<1>15. ASSUME NEW t \in HealthTasks, TickMissing(t) PROVE OneStartAtATime'
  BY <1>15
     DEF TickMissing, Ticks, TriggerRecovery, OneStartAtATime, SlotPcs,
         Shapes, server, health_tasks, history
<1>16. ASSUME NEW t \in HealthTasks, TickEnded(t) PROVE OneStartAtATime'
  BY <1>16
     DEF TickEnded, Ticks, TriggerRecovery, SetFailed, OneStartAtATime,
         SlotPcs, Shapes, server, health_tasks, history
<1>17. ASSUME NEW t \in HealthTasks, ProbeEnds(t) PROVE OneStartAtATime'
  BY <1>17
     DEF ProbeEnds, RecordSuccess, RecordFailure, TriggerRecovery,
         SupervisionDue, OneStartAtATime, SlotPcs, Shapes, server,
         health_tasks, history
<1>18. CASE TokenDue
  BY <1>18
     DEF TokenDue, Goto, OneStartAtATime, SlotPcs, Shapes, server,
         health_tasks, history
<1>19. CASE TokenKept
  BY <1>19
     DEF TokenKept, Goto, OneStartAtATime, SlotPcs, Shapes, server,
         health_tasks, history
<1>20. CASE TokenGranted
  BY <1>20
     DEF TokenGranted, Goto, OneStartAtATime, SlotPcs, Shapes, server,
         health_tasks, history
<1>21. CASE TokenRejected
  BY <1>21
     DEF TokenRejected, Goto, EndStart, IdleStarter, SetAuthRequired,
         Intended, Locked, OneStartAtATime, SlotPcs, Shapes, server,
         health_tasks, history
<1>22. CASE UNCHANGED startView
  BY <1>22
     DEF startView, OneStartAtATime, SlotPcs, Shapes
<1>. QED
  BY <1>1, <1>2, <1>3, <1>4, <1>5, <1>6, <1>7, <1>8, <1>9, <1>10, <1>11,
     <1>12, <1>13, <1>14, <1>15, <1>16, <1>17, <1>18, <1>19, <1>20, <1>21,
     <1>22, StartSteps
     DEF StartStep

\* Reloads and commits exclude each other, so a commit sees the config in force.
LEMMA InstallStep == Shapes /\ InstallInv /\ [Next]_vars => InstallInv'
<1>. SUFFICES ASSUME Shapes, InstallInv, [Next]_vars PROVE InstallInv'
  OBVIOUS
<1>. USE LifecycleAssumption
<1>1. ASSUME NEW c \in Configs \cup {Absent}, ReloadBegin(c) PROVE InstallInv'
  BY <1>1
     DEF ReloadBegin, Locked, InstallInv, Shapes, server, health_tasks,
         history
<1>2. CASE ReloadStop
  BY <1>2
     DEF ReloadStop, StopServer, InstallInv, Shapes, server, health_tasks,
         history
<1>3. CASE ReloadForget
  BY <1>3
     DEF ReloadForget, InstallInv, Shapes, server, health_tasks, history
<1>4. CASE ReloadStarts
  BY <1>4
     DEF ReloadStarts, RegisterStarted, InstallInv, Shapes, server,
         health_tasks, history
<1>5. CASE ReloadStartFails
  BY <1>5
     DEF ReloadStartFails, SetFailed, SetAuthRequired, InstallInv, Shapes,
         server, health_tasks, history
<1>6. CASE ReloadSkipsStart
  BY <1>6
     DEF ReloadSkipsStart, InstallInv, Shapes, server, health_tasks, history
<1>7. CASE StoreConfig
  BY <1>7
     DEF StoreConfig, IdleReload, InstallInv, Shapes, server, health_tasks,
         history
<1>8. ASSUME NEW t \in HealthTasks, SpawnHealthCheck(t) PROVE InstallInv'
  BY <1>8
     DEF SpawnHealthCheck, Sleeping, IdleReload, InstallInv, Shapes, server,
         health_tasks, history
<1>9. ASSUME NEW s \in Starters, Commit(s) PROVE InstallInv'
  BY <1>9
     DEF Commit, Goto, ReplaceServer, Locked, InstallInv, Shapes, server,
         health_tasks, history
<1>10. ASSUME NEW t \in HealthTasks, TickEnds(t) PROVE InstallInv'
  BY <1>10
     DEF TickEnds, NoTask, InstallInv, Shapes, server, health_tasks, history
<1>11. ASSUME NEW t \in HealthTasks, TickEnded(t) PROVE InstallInv'
  BY <1>11
     DEF TickEnded, Ticks, TriggerRecovery, SetFailed, InstallInv, Shapes,
         server, health_tasks, history
<1>12. ASSUME NEW t \in HealthTasks, TickProbes(t) PROVE InstallInv'
  BY <1>12
     DEF TickProbes, Ticks, InstallInv, Shapes, server, health_tasks, history
<1>13. ASSUME NEW t \in HealthTasks, ProbeEnds(t) PROVE InstallInv'
  BY <1>13
     DEF ProbeEnds, RecordSuccess, RecordFailure, TriggerRecovery,
         SupervisionDue, InstallInv, Shapes, server, health_tasks, history
<1>14. CASE TokenRejected
  BY <1>14
     DEF TokenRejected, Goto, EndStart, IdleStarter, SetAuthRequired,
         Intended, Locked, InstallInv, Shapes, server, health_tasks, history
<1>15. CASE UNCHANGED serverView
  BY <1>15
     DEF serverView, InstallInv, Shapes
<1>. QED
  BY <1>1, <1>2, <1>3, <1>4, <1>5, <1>6, <1>7, <1>8, <1>9, <1>10, <1>11,
     <1>12, <1>13, <1>14, <1>15, ServerSteps
     DEF ServerStep

\* Only a reload's stop takes an upstream away, and it is counted.
LEMMA ProbeStep == Shapes /\ InstallInv /\ ProbeInv /\ [Next]_vars => ProbeInv'
<1>. SUFFICES ASSUME Shapes, InstallInv, ProbeInv, [Next]_vars PROVE ProbeInv'
  OBVIOUS
<1>. USE LifecycleAssumption
<1>1. ASSUME NEW c \in Configs \cup {Absent}, ReloadBegin(c) PROVE ProbeInv'
  BY <1>1
     DEF ReloadBegin, Locked, ProbeInv, Shapes, InstallInv, server,
         health_tasks, history
<1>2. CASE ReloadStop
  BY <1>2
     DEF ReloadStop, StopServer, ProbeInv, Shapes, InstallInv, server,
         health_tasks, history
<1>3. CASE ReloadForget
  BY <1>3
     DEF ReloadForget, ProbeInv, Shapes, InstallInv, server, health_tasks,
         history
<1>4. CASE ReloadStarts
  BY <1>4
     DEF ReloadStarts, RegisterStarted, ProbeInv, Shapes, InstallInv, server,
         health_tasks, history
<1>5. CASE ReloadStartFails
  BY <1>5
     DEF ReloadStartFails, SetFailed, SetAuthRequired, ProbeInv, Shapes,
         InstallInv, server, health_tasks, history
<1>6. CASE ReloadSkipsStart
  BY <1>6
     DEF ReloadSkipsStart, ProbeInv, Shapes, InstallInv, server, health_tasks,
         history
<1>7. CASE StoreConfig
  BY <1>7
     DEF StoreConfig, IdleReload, ProbeInv, Shapes, InstallInv, server,
         health_tasks, history
<1>8. ASSUME NEW t \in HealthTasks, SpawnHealthCheck(t) PROVE ProbeInv'
  BY <1>8
     DEF SpawnHealthCheck, Sleeping, IdleReload, ProbeInv, Shapes, InstallInv,
         server, health_tasks, history
<1>9. ASSUME NEW s \in Starters, Commit(s) PROVE ProbeInv'
  BY <1>9
     DEF Commit, Goto, ReplaceServer, Locked, ProbeInv, Shapes, InstallInv,
         server, health_tasks, history
<1>10. ASSUME NEW t \in HealthTasks, TickEnds(t) PROVE ProbeInv'
  BY <1>10
     DEF TickEnds, NoTask, ProbeInv, Shapes, InstallInv, server, health_tasks,
         history
<1>11. ASSUME NEW t \in HealthTasks, TickEnded(t) PROVE ProbeInv'
  BY <1>11
     DEF TickEnded, Ticks, TriggerRecovery, SetFailed, ProbeInv, Shapes,
         InstallInv, server, health_tasks, history
<1>12. ASSUME NEW t \in HealthTasks, TickProbes(t) PROVE ProbeInv'
  BY <1>12
     DEF TickProbes, Ticks, ProbeInv, Shapes, InstallInv, server,
         health_tasks, history
<1>13. ASSUME NEW t \in HealthTasks, ProbeEnds(t) PROVE ProbeInv'
  BY <1>13
     DEF ProbeEnds, RecordSuccess, RecordFailure, TriggerRecovery,
         SupervisionDue, ProbeInv, Shapes, InstallInv, server, health_tasks,
         history
<1>14. CASE TokenRejected
  BY <1>14
     DEF TokenRejected, Goto, EndStart, IdleStarter, SetAuthRequired,
         Intended, Locked, ProbeInv, Shapes, InstallInv, server, health_tasks,
         history
<1>15. CASE UNCHANGED serverView
  BY <1>15
     DEF serverView, ProbeInv, Shapes, InstallInv
<1>. QED
  BY <1>1, <1>2, <1>3, <1>4, <1>5, <1>6, <1>7, <1>8, <1>9, <1>10, <1>11,
     <1>12, <1>13, <1>14, <1>15, ServerSteps
     DEF ServerStep

\* A failed start is recorded and only a late probe can rewrite the record.
LEMMA FailedStep == Shapes /\ InstallInv /\ ProbeInv /\ FailedInv /\ [Next]_vars => FailedInv'
<1>. SUFFICES ASSUME Shapes, InstallInv, ProbeInv, FailedInv, [Next]_vars PROVE FailedInv'
  OBVIOUS
<1>. USE LifecycleAssumption
<1>1. ASSUME NEW c \in Configs \cup {Absent}, ReloadBegin(c) PROVE FailedInv'
  BY <1>1
     DEF ReloadBegin, Locked, FailedInv, Shapes, InstallInv, ProbeInv, server,
         health_tasks, history
<1>2. CASE ReloadStop
  BY <1>2
     DEF ReloadStop, StopServer, FailedInv, Shapes, InstallInv, ProbeInv,
         server, health_tasks, history
<1>3. CASE ReloadForget
  BY <1>3
     DEF ReloadForget, FailedInv, Shapes, InstallInv, ProbeInv, server,
         health_tasks, history
<1>4. CASE ReloadStarts
  BY <1>4
     DEF ReloadStarts, RegisterStarted, FailedInv, Shapes, InstallInv,
         ProbeInv, server, health_tasks, history
<1>5. CASE ReloadStartFails
  BY <1>5
     DEF ReloadStartFails, SetFailed, SetAuthRequired, FailedInv, Shapes,
         InstallInv, ProbeInv, server, health_tasks, history
<1>6. CASE ReloadSkipsStart
  BY <1>6
     DEF ReloadSkipsStart, FailedInv, Shapes, InstallInv, ProbeInv, server,
         health_tasks, history
<1>7. CASE StoreConfig
  BY <1>7
     DEF StoreConfig, IdleReload, FailedInv, Shapes, InstallInv, ProbeInv,
         server, health_tasks, history
<1>8. ASSUME NEW t \in HealthTasks, SpawnHealthCheck(t) PROVE FailedInv'
  BY <1>8
     DEF SpawnHealthCheck, Sleeping, IdleReload, FailedInv, Shapes,
         InstallInv, ProbeInv, server, health_tasks, history
<1>9. ASSUME NEW s \in Starters, Commit(s) PROVE FailedInv'
  BY <1>9
     DEF Commit, Goto, ReplaceServer, Locked, FailedInv, Shapes, InstallInv,
         ProbeInv, server, health_tasks, history
<1>10. ASSUME NEW t \in HealthTasks, TickEnds(t) PROVE FailedInv'
  BY <1>10
     DEF TickEnds, NoTask, FailedInv, Shapes, InstallInv, ProbeInv, server,
         health_tasks, history
<1>11. ASSUME NEW t \in HealthTasks, TickEnded(t) PROVE FailedInv'
  BY <1>11
     DEF TickEnded, Ticks, TriggerRecovery, SetFailed, FailedInv, Shapes,
         InstallInv, ProbeInv, server, health_tasks, history
<1>12. ASSUME NEW t \in HealthTasks, TickProbes(t) PROVE FailedInv'
  BY <1>12
     DEF TickProbes, Ticks, FailedInv, Shapes, InstallInv, ProbeInv, server,
         health_tasks, history
<1>13. ASSUME NEW t \in HealthTasks, ProbeEnds(t) PROVE FailedInv'
  BY <1>13
     DEF ProbeEnds, RecordSuccess, RecordFailure, TriggerRecovery,
         SupervisionDue, FailedInv, Shapes, InstallInv, ProbeInv, server,
         health_tasks, history
<1>14. CASE TokenRejected
  BY <1>14
     DEF TokenRejected, Goto, EndStart, IdleStarter, SetAuthRequired,
         Intended, Locked, FailedInv, Shapes, InstallInv, ProbeInv, server,
         health_tasks, history
<1>15. CASE UNCHANGED serverView
  BY <1>15
     DEF serverView, FailedInv, Shapes, InstallInv, ProbeInv
<1>. QED
  BY <1>1, <1>2, <1>3, <1>4, <1>5, <1>6, <1>7, <1>8, <1>9, <1>10, <1>11,
     <1>12, <1>13, <1>14, <1>15, ServerSteps
     DEF ServerStep

\* The current health task of an enabled server is superseded, never ended.
LEMMA WatchedStep == Shapes /\ InstallInv /\ WatchedInv /\ [Next]_vars => WatchedInv'
<1>. SUFFICES ASSUME Shapes, InstallInv, WatchedInv, [Next]_vars PROVE WatchedInv'
  OBVIOUS
<1>. USE LifecycleAssumption
<1>1. ASSUME NEW c \in Configs \cup {Absent}, ReloadBegin(c) PROVE WatchedInv'
  BY <1>1
     DEF ReloadBegin, Locked, WatchedInv, Shapes, InstallInv, server,
         health_tasks, history
<1>2. CASE ReloadStop
  BY <1>2
     DEF ReloadStop, StopServer, WatchedInv, Shapes, InstallInv, server,
         health_tasks, history
<1>3. CASE ReloadForget
  BY <1>3
     DEF ReloadForget, WatchedInv, Shapes, InstallInv, server, health_tasks,
         history
<1>4. CASE ReloadStarts
  BY <1>4
     DEF ReloadStarts, RegisterStarted, WatchedInv, Shapes, InstallInv,
         server, health_tasks, history
<1>5. CASE ReloadStartFails
  BY <1>5
     DEF ReloadStartFails, SetFailed, SetAuthRequired, WatchedInv, Shapes,
         InstallInv, server, health_tasks, history
<1>6. CASE ReloadSkipsStart
  BY <1>6
     DEF ReloadSkipsStart, WatchedInv, Shapes, InstallInv, server,
         health_tasks, history
<1>7. CASE StoreConfig
  BY <1>7
     DEF StoreConfig, IdleReload, WatchedInv, Shapes, InstallInv, server,
         health_tasks, history
<1>8. ASSUME NEW t \in HealthTasks, SpawnHealthCheck(t) PROVE WatchedInv'
  BY <1>8
     DEF SpawnHealthCheck, Sleeping, IdleReload, WatchedInv, Shapes,
         InstallInv, server, health_tasks, history
<1>9. ASSUME NEW s \in Starters, Commit(s) PROVE WatchedInv'
  BY <1>9
     DEF Commit, Goto, ReplaceServer, Locked, WatchedInv, Shapes, InstallInv,
         server, health_tasks, history
<1>10. ASSUME NEW t \in HealthTasks, TickEnds(t) PROVE WatchedInv'
  BY <1>10
     DEF TickEnds, NoTask, WatchedInv, Shapes, InstallInv, server,
         health_tasks, history
<1>11. ASSUME NEW t \in HealthTasks, TickEnded(t) PROVE WatchedInv'
  BY <1>11
     DEF TickEnded, Ticks, TriggerRecovery, SetFailed, WatchedInv, Shapes,
         InstallInv, server, health_tasks, history
<1>12. ASSUME NEW t \in HealthTasks, TickProbes(t) PROVE WatchedInv'
  BY <1>12
     DEF TickProbes, Ticks, WatchedInv, Shapes, InstallInv, server,
         health_tasks, history
<1>13. ASSUME NEW t \in HealthTasks, ProbeEnds(t) PROVE WatchedInv'
  BY <1>13
     DEF ProbeEnds, RecordSuccess, RecordFailure, TriggerRecovery,
         SupervisionDue, WatchedInv, Shapes, InstallInv, server, health_tasks,
         history
<1>14. CASE TokenRejected
  BY <1>14
     DEF TokenRejected, Goto, EndStart, IdleStarter, SetAuthRequired,
         Intended, Locked, WatchedInv, Shapes, InstallInv, server,
         health_tasks, history
<1>15. CASE UNCHANGED serverView
  BY <1>15
     DEF serverView, WatchedInv, Shapes, InstallInv
<1>. QED
  BY <1>1, <1>2, <1>3, <1>4, <1>5, <1>6, <1>7, <1>8, <1>9, <1>10, <1>11,
     <1>12, <1>13, <1>14, <1>15, ServerSteps
     DEF ServerStep

\* A removed server gets a health entry only from a late result.
LEMMA ForgottenStep == Shapes /\ InstallInv /\ ProbeInv /\ ForgottenInv /\ [Next]_vars => ForgottenInv'
<1>. SUFFICES ASSUME Shapes, InstallInv, ProbeInv, ForgottenInv, [Next]_vars PROVE ForgottenInv'
  OBVIOUS
<1>. USE LifecycleAssumption
<1>1. ASSUME NEW c \in Configs \cup {Absent}, ReloadBegin(c) PROVE ForgottenInv'
  BY <1>1
     DEF ReloadBegin, Locked, ForgottenInv, Shapes, InstallInv, ProbeInv,
         server, health_tasks, history
<1>2. CASE ReloadStop
  BY <1>2
     DEF ReloadStop, StopServer, ForgottenInv, Shapes, InstallInv, ProbeInv,
         server, health_tasks, history
<1>3. CASE ReloadForget
  BY <1>3
     DEF ReloadForget, ForgottenInv, Shapes, InstallInv, ProbeInv, server,
         health_tasks, history
<1>4. CASE ReloadStarts
  BY <1>4
     DEF ReloadStarts, RegisterStarted, ForgottenInv, Shapes, InstallInv,
         ProbeInv, server, health_tasks, history
<1>5. CASE ReloadStartFails
  BY <1>5
     DEF ReloadStartFails, SetFailed, SetAuthRequired, ForgottenInv, Shapes,
         InstallInv, ProbeInv, server, health_tasks, history
<1>6. CASE ReloadSkipsStart
  BY <1>6
     DEF ReloadSkipsStart, ForgottenInv, Shapes, InstallInv, ProbeInv, server,
         health_tasks, history
<1>7. CASE StoreConfig
  BY <1>7
     DEF StoreConfig, IdleReload, ForgottenInv, Shapes, InstallInv, ProbeInv,
         server, health_tasks, history
<1>8. ASSUME NEW t \in HealthTasks, SpawnHealthCheck(t) PROVE ForgottenInv'
  BY <1>8
     DEF SpawnHealthCheck, Sleeping, IdleReload, ForgottenInv, Shapes,
         InstallInv, ProbeInv, server, health_tasks, history
<1>9. ASSUME NEW s \in Starters, Commit(s) PROVE ForgottenInv'
  BY <1>9
     DEF Commit, Goto, ReplaceServer, Locked, ForgottenInv, Shapes,
         InstallInv, ProbeInv, server, health_tasks, history
<1>10. ASSUME NEW t \in HealthTasks, TickEnds(t) PROVE ForgottenInv'
  BY <1>10
     DEF TickEnds, NoTask, ForgottenInv, Shapes, InstallInv, ProbeInv, server,
         health_tasks, history
<1>11. ASSUME NEW t \in HealthTasks, TickEnded(t) PROVE ForgottenInv'
  BY <1>11
     DEF TickEnded, Ticks, TriggerRecovery, SetFailed, ForgottenInv, Shapes,
         InstallInv, ProbeInv, server, health_tasks, history
<1>12. ASSUME NEW t \in HealthTasks, TickProbes(t) PROVE ForgottenInv'
  BY <1>12
     DEF TickProbes, Ticks, ForgottenInv, Shapes, InstallInv, ProbeInv,
         server, health_tasks, history
<1>13. ASSUME NEW t \in HealthTasks, ProbeEnds(t) PROVE ForgottenInv'
  BY <1>13
     DEF ProbeEnds, RecordSuccess, RecordFailure, TriggerRecovery,
         SupervisionDue, ForgottenInv, Shapes, InstallInv, ProbeInv, server,
         health_tasks, history
<1>14. CASE TokenRejected
  <2>1. ~late' => ~late /\ Intended \in On
    BY <1>14, Zenon DEF TokenRejected
  <2>2. UNCHANGED <<config, reload>>
    BY <1>14 DEF TokenRejected
  <2>. QED
    BY <2>1, <2>2 DEF ForgottenInv, Intended, Locked, Shapes, ReloadPcs
<1>15. CASE UNCHANGED serverView
  BY <1>15
     DEF serverView, ForgottenInv, Shapes, InstallInv, ProbeInv
<1>. QED
  BY <1>1, <1>2, <1>3, <1>4, <1>5, <1>6, <1>7, <1>8, <1>9, <1>10, <1>11,
     <1>12, <1>13, <1>14, <1>15, ServerSteps
     DEF ServerStep

\* Generations only grow until the server is removed.
LEMMA GenStep == Shapes /\ InstallInv /\ GenInv /\ [Next]_vars => GenInv'
<1>. SUFFICES ASSUME Shapes, InstallInv, GenInv, [Next]_vars PROVE GenInv'
  OBVIOUS
<1>. USE LifecycleAssumption
<1>1. ASSUME NEW c \in Configs \cup {Absent}, ReloadBegin(c) PROVE GenInv'
  <2>1. reload.at = "idle" /\ c # config /\ UNCHANGED <<config, reloads, healthGen, task>>
    BY <1>1 DEF ReloadBegin, Locked, health_tasks
  <2>2. ~readded' => ~readded /\ (config = Absent => ~(reloads > 0))
    BY <1>1, Zenon DEF ReloadBegin
  <2>3. reload' = [at |-> IF config = Absent THEN "start" ELSE "stop", new |-> c]
    BY <1>1 DEF ReloadBegin
  <2>. QED
    BY <2>1, <2>2, <2>3 DEF GenInv, Shapes
<1>2. CASE ReloadStop
  BY <1>2
     DEF ReloadStop, StopServer, GenInv, Shapes, InstallInv, server,
         health_tasks, history
<1>3. CASE ReloadForget
  BY <1>3
     DEF ReloadForget, GenInv, Shapes, InstallInv, server, health_tasks,
         history
<1>4. CASE ReloadStarts
  BY <1>4
     DEF ReloadStarts, RegisterStarted, GenInv, Shapes, InstallInv, server,
         health_tasks, history
<1>5. CASE ReloadStartFails
  BY <1>5
     DEF ReloadStartFails, SetFailed, SetAuthRequired, GenInv, Shapes,
         InstallInv, server, health_tasks, history
<1>6. CASE ReloadSkipsStart
  BY <1>6
     DEF ReloadSkipsStart, GenInv, Shapes, InstallInv, server, health_tasks,
         history
<1>7. CASE StoreConfig
  BY <1>7
     DEF StoreConfig, IdleReload, GenInv, Shapes, InstallInv, server,
         health_tasks, history
<1>8. ASSUME NEW t \in HealthTasks, SpawnHealthCheck(t) PROVE GenInv'
  BY <1>8
     DEF SpawnHealthCheck, Sleeping, IdleReload, GenInv, Shapes, InstallInv,
         server, health_tasks, history
<1>9. ASSUME NEW s \in Starters, Commit(s) PROVE GenInv'
  BY <1>9
     DEF Commit, Goto, ReplaceServer, Locked, GenInv, Shapes, InstallInv,
         server, health_tasks, history
<1>10. ASSUME NEW t \in HealthTasks, TickEnds(t) PROVE GenInv'
  BY <1>10
     DEF TickEnds, NoTask, GenInv, Shapes, InstallInv, server, health_tasks,
         history
<1>11. ASSUME NEW t \in HealthTasks, TickEnded(t) PROVE GenInv'
  BY <1>11
     DEF TickEnded, Ticks, TriggerRecovery, SetFailed, GenInv, Shapes,
         InstallInv, server, health_tasks, history
<1>12. ASSUME NEW t \in HealthTasks, TickProbes(t) PROVE GenInv'
  BY <1>12
     DEF TickProbes, Ticks, GenInv, Shapes, InstallInv, server, health_tasks,
         history
<1>13. ASSUME NEW t \in HealthTasks, ProbeEnds(t) PROVE GenInv'
  BY <1>13
     DEF ProbeEnds, RecordSuccess, RecordFailure, TriggerRecovery,
         SupervisionDue, GenInv, Shapes, InstallInv, server, health_tasks,
         history
<1>14. CASE TokenRejected
  BY <1>14
     DEF TokenRejected, Goto, EndStart, IdleStarter, SetAuthRequired,
         Intended, Locked, GenInv, Shapes, InstallInv, server, health_tasks,
         history
<1>15. CASE UNCHANGED serverView
  BY <1>15
     DEF serverView, GenInv, Shapes, InstallInv
<1>. QED
  BY <1>1, <1>2, <1>3, <1>4, <1>5, <1>6, <1>7, <1>8, <1>9, <1>10, <1>11,
     <1>12, <1>13, <1>14, <1>15, ServerSteps
     DEF ServerStep

\* A new generation is ahead of every task that is still alive.
LEMMA CurrentStep == Shapes /\ InstallInv /\ GenInv /\ OneCurrentHealthTask /\ [Next]_vars => OneCurrentHealthTask'
<1>. SUFFICES ASSUME Shapes, InstallInv, GenInv, OneCurrentHealthTask, [Next]_vars PROVE OneCurrentHealthTask'
  OBVIOUS
<1>. USE LifecycleAssumption
<1>1. ASSUME NEW c \in Configs \cup {Absent}, ReloadBegin(c) PROVE OneCurrentHealthTask'
  BY <1>1, Zenon
     DEF ReloadBegin, OneCurrentHealthTask, health_tasks
<1>2. CASE ReloadStop
  BY <1>2
     DEF ReloadStop, StopServer, OneCurrentHealthTask, Shapes, InstallInv,
         GenInv, server, health_tasks, history
<1>3. CASE ReloadForget
  BY <1>3
     DEF ReloadForget, OneCurrentHealthTask, Shapes, InstallInv, GenInv,
         server, health_tasks, history
<1>4. CASE ReloadStarts
  BY <1>4
     DEF ReloadStarts, RegisterStarted, OneCurrentHealthTask, Shapes,
         InstallInv, GenInv, server, health_tasks, history
<1>5. CASE ReloadStartFails
  BY <1>5
     DEF ReloadStartFails, SetFailed, SetAuthRequired, OneCurrentHealthTask,
         Shapes, InstallInv, GenInv, server, health_tasks, history
<1>6. CASE ReloadSkipsStart
  BY <1>6
     DEF ReloadSkipsStart, OneCurrentHealthTask, Shapes, InstallInv, GenInv,
         server, health_tasks, history
<1>7. CASE StoreConfig
  BY <1>7
     DEF StoreConfig, IdleReload, OneCurrentHealthTask, Shapes, InstallInv,
         GenInv, server, health_tasks, history
<1>8. ASSUME NEW t \in HealthTasks, SpawnHealthCheck(t) PROVE OneCurrentHealthTask'
  BY <1>8
     DEF SpawnHealthCheck, Sleeping, IdleReload, OneCurrentHealthTask, Shapes,
         InstallInv, GenInv, server, health_tasks, history
<1>9. ASSUME NEW s \in Starters, Commit(s) PROVE OneCurrentHealthTask'
  BY <1>9
     DEF Commit, Goto, ReplaceServer, Locked, OneCurrentHealthTask, Shapes,
         InstallInv, GenInv, server, health_tasks, history
<1>10. ASSUME NEW t \in HealthTasks, TickEnds(t) PROVE OneCurrentHealthTask'
  BY <1>10
     DEF TickEnds, NoTask, OneCurrentHealthTask, Shapes, InstallInv, GenInv,
         server, health_tasks, history
<1>11. ASSUME NEW t \in HealthTasks, TickEnded(t) PROVE OneCurrentHealthTask'
  BY <1>11
     DEF TickEnded, Ticks, TriggerRecovery, SetFailed, OneCurrentHealthTask,
         Shapes, InstallInv, GenInv, server, health_tasks, history
<1>12. ASSUME NEW t \in HealthTasks, TickProbes(t) PROVE OneCurrentHealthTask'
  BY <1>12
     DEF TickProbes, Ticks, OneCurrentHealthTask, Shapes, InstallInv, GenInv,
         server, health_tasks, history
<1>13. ASSUME NEW t \in HealthTasks, ProbeEnds(t) PROVE OneCurrentHealthTask'
  BY <1>13
     DEF ProbeEnds, RecordSuccess, RecordFailure, TriggerRecovery,
         SupervisionDue, OneCurrentHealthTask, Shapes, InstallInv, GenInv,
         server, health_tasks, history
<1>14. CASE TokenRejected
  BY <1>14
     DEF TokenRejected, Goto, EndStart, IdleStarter, SetAuthRequired,
         Intended, Locked, OneCurrentHealthTask, Shapes, InstallInv, GenInv,
         server, health_tasks, history
<1>15. CASE UNCHANGED serverView
  BY <1>15
     DEF serverView, OneCurrentHealthTask, Shapes, InstallInv, GenInv
<1>. QED
  BY <1>1, <1>2, <1>3, <1>4, <1>5, <1>6, <1>7, <1>8, <1>9, <1>10, <1>11,
     <1>12, <1>13, <1>14, <1>15, ServerSteps
     DEF ServerStep

LifecycleInv ==
    /\ Flags /\ Shapes
    /\ OneStartAtATime /\ InstallInv /\ ProbeInv /\ FailedInv /\ WatchedInv
    /\ ForgottenInv /\ GenInv /\ OneCurrentHealthTask

LEMMA LifecycleInit == Init => LifecycleInv
<1>. SUFFICES ASSUME Init PROVE LifecycleInv
  OBVIOUS
<1>. USE LifecycleAssumption
<1>1. Flags
  <2>1. alive = (up # Absent) /\ slot = FALSE
        /\ late = FALSE /\ readded = FALSE
    BY DEF Init
  <2>. QED
    BY <2>1, Zenon DEF Flags
<1>2. Shapes
  BY DEF Init, Shapes, IdleStarter, IdleReload, NoTask, Sleeping, StarterPcs, ReloadPcs
<1>3. OneStartAtATime
  BY DEF Init, OneStartAtATime, SlotPcs, IdleStarter
<1>4. InstallInv /\ FailedInv /\ ForgottenInv
  BY DEF Init, InstallInv, FailedInv, ForgottenInv, IdleReload
<1>5. ProbeInv
  BY DEF Init, ProbeInv, NoTask, Sleeping
<1>6. WatchedInv
  <2>1. FirstTask \in HealthTasks
    BY DEF FirstTask
  <2>. QED
    BY <2>1 DEF Init, WatchedInv, Sleeping
<1>7. GenInv /\ OneCurrentHealthTask
  BY DEF Init, GenInv, OneCurrentHealthTask, NoTask, Sleeping, IdleReload
<1>. QED
  BY <1>1, <1>2, <1>3, <1>4, <1>5, <1>6, <1>7 DEF LifecycleInv

\* The engine keeps the invariant for ever, whatever reloads, restarts, reconnects,
\* recoveries and probes overlap.
THEOREM LifecycleInvariant == Spec => []LifecycleInv
<1>1. LifecycleInv /\ [Next]_vars => LifecycleInv'
  BY TypeStep, OneStartStep, InstallStep, ProbeStep, FailedStep, WatchedStep,
     ForgottenStep, GenStep, CurrentStep
     DEF LifecycleInv
<1>. QED
  BY LifecycleInit, <1>1, PTL DEF Spec

-----------------------------------------------------------------------------
(* The properties. *)

\* The types of UpstreamLifecycle.
THEOREM LifecycleTypes == Spec => []TypeOK
<1>1. LifecycleInv => TypeOK
  BY TypeParts DEF LifecycleInv
<1>. QED
  BY LifecycleInvariant, <1>1, PTL

\* restart_server, reconnect_server and recovery start the server one at a time,
\* and the slot they share is taken exactly while one of them does.
THEOREM StartsExclude == Spec => []OneStartAtATime
<1>1. LifecycleInv => OneStartAtATime
  BY DEF LifecycleInv
<1>. QED
  BY LifecycleInvariant, <1>1, PTL

\* commit_replacement never leaves an upstream installed that was dialled with
\* another configuration than the one in force when no reload runs.
THEOREM InstalledConfig == Spec => []InstalledIsConfigured
<1>1. LifecycleInv => InstalledIsConfigured
  BY DEF LifecycleInv, InstallInv, InstalledIsConfigured, Locked
<1>. QED
  BY LifecycleInvariant, <1>1, PTL

\* An enabled server always has a current health task, and if it has no upstream
\* its next tick recovers it or it awaits a sign-in, late probes aside.
THEOREM DownServersWatched == Spec => []DownIsWatched
<1>1. LifecycleInv => DownIsWatched
  BY DEF LifecycleInv, FailedInv, WatchedInv, DownIsWatched, Locked
<1>. QED
  BY LifecycleInvariant, <1>1, PTL

\* A server that is not configured has no health entry, late results aside.
THEOREM RemovedForgotten == Spec => []RemovedIsForgotten
<1>1. LifecycleInv => RemovedIsForgotten
  BY DEF LifecycleInv, ForgottenInv, RemovedIsForgotten, Locked
<1>. QED
  BY LifecycleInvariant, <1>1, PTL

\* Health tasks supersede each other until a removed server is configured again.
THEOREM HealthTasksSupersede == Spec => []OneCurrentHealthTask
<1>1. LifecycleInv => OneCurrentHealthTask
  BY DEF LifecycleInv
<1>. QED
  BY LifecycleInvariant, <1>1, PTL

-----------------------------------------------------------------------------
(* The circuit breaker of the server, a specification of its own: the two  *)
(* models share no variable.                                               *)

\* TypeOK in two parts: the Boolean variables, and the others.
BreakerFlags == silent \in BOOLEAN /\ raced \in BOOLEAN

BreakerShapes ==
    /\ state \in {"Closed", "Open", "HalfOpen"}
    /\ failures \in 0..Threshold
    /\ openAge \in {Never} \cup 0..OpenDuration
    /\ permits \in Nat
    /\ pc \in [Calls -> Pcs]
    /\ resetPc \in {"idle", "failures", "clock"} /\ resets \in 0..MaxResets

LEMMA BreakerTypeParts == BreakerTypeOK <=> BreakerFlags /\ BreakerShapes
  BY Zenon DEF BreakerTypeOK, BreakerFlags, BreakerShapes

-----------------------------------------------------------------------------
(* The invariant. *)

\* The winners of half-open transitions that have drained and will add permits.
Adders == {c \in Calls : pc[c] = "add"}

\* A winner adds one set of permits for itself, and only after it has seen the
\* semaphore empty: what is there, what the drain loops hold for a turn and what is
\* still to come are together one set per call at most.
PermitInv ==
    permits + Cardinality(Givers) + ProbeCount * Cardinality(Adders)
        <= ProbeCount * Cardinality(Calls)

\* Unless the circuit tripped in the window that `raced` stands for, whoever clears
\* the open time does so while the circuit is not open, and an open circuit has
\* its open time or a call that is about to store it.
ClockInv ==
    ~raced => /\ ClockBeingCleared => state # "Open"
              /\ state = "Open" => openAge # Never \/ \E c \in Calls : pc[c] = "setClock"

BreakerInv == BreakerFlags /\ BreakerShapes /\ PermitInv /\ ClockInv

-----------------------------------------------------------------------------
(* Types. *)

LEMMA BreakerTypeStep == BreakerFlags /\ BreakerShapes /\ [BreakerNext]_breakerVars => BreakerFlags' /\ BreakerShapes'
<1>. SUFFICES ASSUME BreakerFlags, BreakerShapes, [BreakerNext]_breakerVars PROVE BreakerFlags' /\ BreakerShapes'
  OBVIOUS
<1>. USE BreakerAssumption DEF Goes, fields, notes, Pcs, Never
<1>1. CASE Tick
  BY <1>1 DEF Tick, BreakerFlags, BreakerShapes
<1>2. CASE Resets
  BY <1>2 DEF Resets, ResetState, ResetFailures, ResetClock, BreakerFlags, BreakerShapes
<1>3. ASSUME NEW c \in Calls, LoadForCall(c) PROVE BreakerFlags' /\ BreakerShapes'
  BY <1>3 DEF LoadForCall, BreakerFlags, BreakerShapes
<1>4. ASSUME NEW c \in Calls, CheckClock(c) PROVE BreakerFlags' /\ BreakerShapes'
  BY <1>4 DEF CheckClock, BreakerFlags, BreakerShapes
<1>5. ASSUME NEW c \in Calls, CasHalfOpen(c) PROVE BreakerFlags' /\ BreakerShapes'
  BY <1>5 DEF CasHalfOpen, BreakerFlags, BreakerShapes
<1>6. ASSUME NEW c \in Calls, DrainTries(c) \/ DrainGivesBack(c) PROVE BreakerFlags' /\ BreakerShapes'
  BY <1>6 DEF DrainTries, DrainGivesBack, BreakerFlags, BreakerShapes
<1>7. ASSUME NEW c \in Calls, AddPermits(c) PROVE BreakerFlags' /\ BreakerShapes'
  BY <1>7 DEF AddPermits, BreakerFlags, BreakerShapes
<1>8. ASSUME NEW c \in Calls, AcquireProbe(c) PROVE BreakerFlags' /\ BreakerShapes'
  BY <1>8 DEF AcquireProbe, BreakerFlags, BreakerShapes
<1>9. ASSUME NEW c \in Calls, LoadForSuccess(c) PROVE BreakerFlags' /\ BreakerShapes'
  BY <1>9 DEF LoadForSuccess, BreakerFlags, BreakerShapes
<1>10. ASSUME NEW c \in Calls, ClearFailures(c) PROVE BreakerFlags' /\ BreakerShapes'
  BY <1>10 DEF ClearFailures, BreakerFlags, BreakerShapes
<1>11. ASSUME NEW c \in Calls, CasClosed(c) PROVE BreakerFlags' /\ BreakerShapes'
  BY <1>11 DEF CasClosed, BreakerFlags, BreakerShapes
<1>12. ASSUME NEW c \in Calls, ClearClock(c) PROVE BreakerFlags' /\ BreakerShapes'
  BY <1>12 DEF ClearClock, BreakerFlags, BreakerShapes
<1>13. ASSUME NEW c \in Calls, LoadForFailure(c) PROVE BreakerFlags' /\ BreakerShapes'
  BY <1>13 DEF LoadForFailure, BreakerFlags, BreakerShapes
<1>14. ASSUME NEW c \in Calls, CountFailure(c) PROVE BreakerFlags' /\ BreakerShapes'
  BY <1>14 DEF CountFailure, BreakerFlags, BreakerShapes
<1>15. ASSUME NEW c \in Calls, NEW at, NEW from, CasOpen(c, at, from) PROVE BreakerFlags' /\ BreakerShapes'
  <2>1. BreakerFlags'
    BY <1>15, Zenon DEF CasOpen, BreakerFlags, ClockBeingCleared
  <2>2. BreakerShapes'
    BY <1>15 DEF CasOpen, BreakerShapes
  <2>. QED
    BY <2>1, <2>2
<1>16. ASSUME NEW c \in Calls, SetClock(c) PROVE BreakerFlags' /\ BreakerShapes'
  BY <1>16 DEF SetClock, BreakerFlags, BreakerShapes
<1>17. ASSUME NEW c \in Calls, EndUnreported(c) PROVE BreakerFlags' /\ BreakerShapes'
  BY <1>17 DEF EndUnreported, BreakerFlags, BreakerShapes
<1>18. CASE UNCHANGED breakerVars
  BY <1>18 DEF breakerVars, BreakerFlags, BreakerShapes
<1>. QED
  BY <1>1, <1>2, <1>3, <1>4, <1>5, <1>6, <1>7, <1>8, <1>9, <1>10, <1>11, <1>12, <1>13,
     <1>14, <1>15, <1>16, <1>17, <1>18
     DEF BreakerNext, CallStep

-----------------------------------------------------------------------------
(* Permits. *)

LEMMA DisjointSizes ==
  ASSUME NEW S, IsFiniteSet(S), NEW T, IsFiniteSet(T), S \cap T = {}
  PROVE  Cardinality(S \cup T) = Cardinality(S) + Cardinality(T)
<1>1. Cardinality(S \cup T) = Cardinality(S) + Cardinality(T) - Cardinality(S \cap T)
  BY FS_Union, Zenon
<1>2. Cardinality(S \cap T) = 0
  BY FS_EmptySet, Zenon
<1>3. Cardinality(S) \in Nat /\ Cardinality(T) \in Nat
  BY FS_CardinalityType
<1>. QED
  BY <1>1, <1>2, <1>3

LEMMA AddersFinite ==
    /\ IsFiniteSet(Adders) /\ Cardinality(Adders) \in Nat
    /\ IsFiniteSet(Givers) /\ Cardinality(Givers) \in Nat
    /\ Cardinality(Calls) \in Nat
    /\ Cardinality(Givers) + Cardinality(Adders) <= Cardinality(Calls)
<1>1. Adders \in SUBSET Calls /\ Givers \in SUBSET Calls /\ Givers \cup Adders \in SUBSET Calls
  BY DEF Adders, Givers
<1>2. Givers \cap Adders = {}
  BY DEF Adders, Givers
<1>3. /\ IsFiniteSet(Adders) /\ IsFiniteSet(Givers)
      /\ Cardinality(Adders) \in Nat /\ Cardinality(Givers) \in Nat /\ Cardinality(Calls) \in Nat
      /\ Cardinality(Givers \cup Adders) <= Cardinality(Calls)
  BY <1>1, FS_Subset, FS_CardinalityType, BreakerAssumption
<1>4. Cardinality(Givers \cup Adders) = Cardinality(Givers) + Cardinality(Adders)
  BY <1>2, <1>3, DisjointSizes
<1>. QED
  BY <1>3, <1>4

\* Sets of permits for two disjoint groups of calls.
LEMMA SetsOfPermits ==
  ASSUME NEW n \in Nat \ {0}, NEW g \in Nat, NEW a \in Nat, NEW all \in Nat, g + a <= all
  PROVE  g + n * a <= n * all
<1>1. n * (g + a) = n * g + n * a /\ n * g \in Nat /\ n * a \in Nat /\ n * all \in Nat
  OBVIOUS
<1>2. g <= n * g
  <2>1. (n - 1) * g = n * g - g /\ (n - 1) * g >= 0
    OBVIOUS
  <2>. QED
    BY <1>1, <2>1
<1>3. n * (g + a) <= n * all
  OBVIOUS
<1>. QED
  BY <1>1, <1>2, <1>3

\* A step that moves one call, and neither to nor from the drain.
LEMMA AddersSame ==
  ASSUME NEW c \in Calls, NEW p, p \notin {"add", "giveBack"}, pc[c] \notin {"add", "giveBack"},
         BreakerShapes, pc' = [pc EXCEPT ![c] = p]
  PROVE  Adders' = Adders /\ Givers' = Givers
  BY DEF Adders, Givers, BreakerShapes

LEMMA PermitStep == BreakerFlags /\ BreakerShapes /\ PermitInv /\ [BreakerNext]_breakerVars => PermitInv'
<1>. SUFFICES ASSUME BreakerFlags, BreakerShapes, PermitInv, [BreakerNext]_breakerVars PROVE PermitInv'
  OBVIOUS
<1>. USE BreakerAssumption DEF Goes, fields, notes
<1>0. ASSUME Adders' = Adders, Givers' = Givers, permits' = permits PROVE PermitInv'
  BY <1>0 DEF PermitInv
<1>1. CASE Tick \/ Resets \/ UNCHANGED breakerVars
  BY <1>1, <1>0 DEF Tick, Resets, ResetState, ResetFailures, ResetClock, breakerVars, Adders, Givers
<1>2. ASSUME NEW c \in Calls, CallStep(c) \/ EndUnreported(c), ~DrainTries(c),
             ~DrainGivesBack(c), ~AddPermits(c), ~AcquireProbe(c)
      PROVE  PermitInv'
  <2>1. permits' = permits
    BY <1>2 DEF CallStep, EndUnreported, LoadForCall, CheckClock, CasHalfOpen,
         LoadForSuccess, ClearFailures, CasClosed, ClearClock, LoadForFailure, CountFailure,
         CasOpen, SetClock
  <2>2. PICK p : /\ p \notin {"add", "giveBack"} /\ pc[c] \notin {"add", "giveBack"}
                 /\ pc' = [pc EXCEPT ![c] = p]
    BY <1>2 DEF CallStep, EndUnreported, LoadForCall, CheckClock, CasHalfOpen,
         LoadForSuccess, ClearFailures, CasClosed, ClearClock, LoadForFailure, CountFailure,
         CasOpen, SetClock
  <2>. QED
    BY <2>1, <2>2, AddersSame, <1>0
<1>3. ASSUME NEW c \in Calls, DrainTries(c) PROVE PermitInv'
  <2>1. CASE permits > 0
    <3>1. Adders' = Adders /\ Givers' = Givers \cup {c} /\ c \notin Givers
      BY <1>3, <2>1 DEF DrainTries, Adders, Givers, BreakerShapes
    <3>2. Cardinality(Givers') = Cardinality(Givers) + 1
      BY <3>1, AddersFinite, FS_AddElement
    <3>. QED
      BY <1>3, <2>1, <3>1, <3>2, AddersFinite DEF DrainTries, PermitInv, BreakerShapes
  <2>2. CASE permits = 0
    <3>1. permits' = 0
      BY <1>3, <2>2 DEF DrainTries
    <3>2. Givers' = Givers /\ Adders' = Adders \cup {c} /\ c \notin Adders
      BY <1>3, <2>2 DEF DrainTries, Adders, Givers, BreakerShapes
    <3>3. Cardinality(Adders') = Cardinality(Adders) + 1
      BY <3>2, AddersFinite, FS_AddElement
    <3>4. Cardinality(Givers) + Cardinality(Adders') <= Cardinality(Calls)
      <4>1. Givers \cup Adders' \in SUBSET Calls /\ Givers \cap Adders' = {}
        BY <1>3, <3>2 DEF DrainTries, Adders, Givers
      <4>2. IsFiniteSet(Adders')
        BY <3>2, AddersFinite, FS_AddElement
      <4>3. Cardinality(Givers \cup Adders') = Cardinality(Givers) + Cardinality(Adders')
        BY <4>1, <4>2, AddersFinite, DisjointSizes
      <4>. QED
        BY <4>1, <4>3, FS_Subset
    <3>. QED
      BY <3>1, <3>2, <3>3, <3>4, AddersFinite, SetsOfPermits DEF PermitInv
  <2>. QED
    BY <2>1, <2>2 DEF BreakerShapes
<1>6. ASSUME NEW c \in Calls, DrainGivesBack(c) PROVE PermitInv'
  <2>1. Adders' = Adders /\ Givers' = Givers \ {c} /\ c \in Givers
    BY <1>6 DEF DrainGivesBack, Adders, Givers, BreakerShapes
  <2>2. Cardinality(Givers') = Cardinality(Givers) - 1
    BY <2>1, AddersFinite, FS_RemoveElement
  <2>. QED
    BY <1>6, <2>1, <2>2, AddersFinite DEF DrainGivesBack, PermitInv, BreakerShapes
<1>4. ASSUME NEW c \in Calls, AddPermits(c) PROVE PermitInv'
  <2>1. c \in Adders /\ Adders' = Adders \ {c} /\ Givers' = Givers
    BY <1>4 DEF AddPermits, Adders, Givers, BreakerShapes
  <2>2. Cardinality(Adders') = Cardinality(Adders) - 1
    BY <2>1, AddersFinite, FS_RemoveElement
  <2>3. ProbeCount * (Cardinality(Adders) - 1) = ProbeCount * Cardinality(Adders) - ProbeCount
    BY AddersFinite
  <2>4. permits' = permits + ProbeCount
    BY <1>4 DEF AddPermits
  <2>. QED
    BY <2>1, <2>2, <2>3, <2>4, AddersFinite DEF PermitInv, BreakerShapes
<1>5. ASSUME NEW c \in Calls, AcquireProbe(c) PROVE PermitInv'
  <2>1. Adders' = Adders /\ Givers' = Givers
    BY <1>5, AddersSame DEF AcquireProbe
  <2>. QED
    BY <1>5, <2>1, AddersFinite DEF AcquireProbe, PermitInv, BreakerShapes
<1>. QED
  BY <1>1, <1>2, <1>3, <1>4, <1>5, <1>6 DEF BreakerNext

-----------------------------------------------------------------------------
(* The open time. *)

LEMMA BreakerClockStep == BreakerFlags /\ BreakerShapes /\ ClockInv /\ [BreakerNext]_breakerVars => ClockInv'
<1>. SUFFICES ASSUME BreakerFlags, BreakerShapes, ClockInv, [BreakerNext]_breakerVars, ~raced' PROVE ClockInv'
  BY DEF ClockInv
<1>. USE BreakerAssumption DEF Goes, fields, notes, ClockInv, ClockBeingCleared, BreakerShapes, Never
<1>0. ~raced
  BY Zenon DEF BreakerNext, CallStep, Tick, Resets, ResetState, ResetFailures, ResetClock,
       LoadForCall, CheckClock, CasHalfOpen, DrainTries, DrainGivesBack, AddPermits, AcquireProbe,
       LoadForSuccess, ClearFailures, CasClosed, ClearClock, LoadForFailure, CountFailure,
       CasOpen, SetClock, EndUnreported, breakerVars, BreakerFlags
<1>1. CASE Tick
  BY <1>1, <1>0 DEF Tick
<1>2. CASE Resets
  BY <1>2, <1>0 DEF Resets, ResetState, ResetFailures, ResetClock
<1>3. ASSUME NEW c \in Calls, LoadForCall(c) PROVE ClockInv'
  BY <1>3, <1>0 DEF LoadForCall
<1>4. ASSUME NEW c \in Calls, CheckClock(c) PROVE ClockInv'
  BY <1>4, <1>0 DEF CheckClock
<1>5. ASSUME NEW c \in Calls, CasHalfOpen(c) PROVE ClockInv'
  BY <1>5, <1>0 DEF CasHalfOpen
<1>6. ASSUME NEW c \in Calls, DrainTries(c) \/ DrainGivesBack(c) \/ AddPermits(c) \/ AcquireProbe(c)
      PROVE  ClockInv'
  BY <1>6, <1>0 DEF DrainTries, DrainGivesBack, AddPermits, AcquireProbe
<1>7. ASSUME NEW c \in Calls, LoadForSuccess(c) PROVE ClockInv'
  BY <1>7, <1>0 DEF LoadForSuccess
<1>8. ASSUME NEW c \in Calls, ClearFailures(c) PROVE ClockInv'
  BY <1>8, <1>0 DEF ClearFailures
<1>9. ASSUME NEW c \in Calls, CasClosed(c) PROVE ClockInv'
  BY <1>9, <1>0 DEF CasClosed
<1>10. ASSUME NEW c \in Calls, ClearClock(c) PROVE ClockInv'
  BY <1>10, <1>0 DEF ClearClock
<1>11. ASSUME NEW c \in Calls, LoadForFailure(c) PROVE ClockInv'
  BY <1>11, <1>0 DEF LoadForFailure
<1>12. ASSUME NEW c \in Calls, CountFailure(c) PROVE ClockInv'
  BY <1>12, <1>0 DEF CountFailure
<1>13. ASSUME NEW c \in Calls, NEW at, NEW from, from # "Open", CasOpen(c, at, from),
              at \in {"trip", "reopen"}
       PROVE  ClockInv'
  <2>1. CASE state = from /\ state' = "Open" /\ pc' = [pc EXCEPT ![c] = "setClock"]
    <3>1. ~ClockBeingCleared
      BY <1>13, <1>0, <2>1, Zenon DEF CasOpen, BreakerFlags
    <3>. QED
      BY <1>13, <2>1, <3>1 DEF CasOpen
  <2>2. CASE state' = state /\ pc' = [pc EXCEPT ![c] = "idle"]
    BY <1>13, <2>2, <1>0 DEF CasOpen
  <2>. QED
    BY <1>13, <2>1, <2>2 DEF CasOpen
<1>14. ASSUME NEW c \in Calls, SetClock(c) PROVE ClockInv'
  BY <1>14, <1>0 DEF SetClock
<1>15. ASSUME NEW c \in Calls, EndUnreported(c) PROVE ClockInv'
  BY <1>15, <1>0 DEF EndUnreported
<1>16. CASE UNCHANGED breakerVars
  BY <1>16, <1>0 DEF breakerVars
<1>. QED
  BY <1>1, <1>2, <1>3, <1>4, <1>5, <1>6, <1>7, <1>8, <1>9, <1>10, <1>11, <1>12, <1>13,
     <1>14, <1>15, <1>16
     DEF BreakerNext, CallStep

-----------------------------------------------------------------------------
(* The theorems. *)

LEMMA BreakerStarts == BreakerInit => BreakerInv
<1>. SUFFICES ASSUME BreakerInit PROVE BreakerInv
  OBVIOUS
<1>. USE BreakerAssumption
<1>1. BreakerFlags
  BY Zenon DEF BreakerInit, BreakerFlags
<1>4. BreakerShapes
  BY DEF BreakerInit, BreakerShapes, Never, Pcs
<1>2. PermitInv
  <2>1. Cardinality(Givers) + ProbeCount * Cardinality(Adders) <= ProbeCount * Cardinality(Calls)
    BY AddersFinite, SetsOfPermits
  <2>2. permits = 0
    BY DEF BreakerInit
  <2>. QED
    BY <2>1, <2>2, AddersFinite DEF PermitInv
<1>3. ClockInv
  BY DEF BreakerInit, ClockInv, ClockBeingCleared
<1>. QED
  BY <1>1, <1>2, <1>3, <1>4 DEF BreakerInv

\* The breaker keeps its invariant however calls and resets interleave at their
\* atomic instructions.
THEOREM BreakerInvariant == BreakerSpec => []BreakerInv
<1>1. BreakerInv /\ [BreakerNext]_breakerVars => BreakerInv'
  BY BreakerTypeStep, PermitStep, BreakerClockStep DEF BreakerInv
<1>. QED
  BY BreakerStarts, <1>1, PTL DEF BreakerSpec

\* The semaphore of circuit.rs never holds more than one set of permits per call,
\* those in the hands of a drain loop included, although its drain gives back what it
\* takes and two winners of half-open transitions may drain and add at once.
THEOREM PermitsBounded == BreakerSpec => []PermitsDoNotAccumulate
<1>1. BreakerInv => PermitsDoNotAccumulate
  <2>. SUFFICES ASSUME BreakerInv PROVE PermitsDoNotAccumulate
    OBVIOUS
  <2>1. ProbeCount * Cardinality(Adders) >= 0
    BY AddersFinite, BreakerAssumption
  <2>2. permits + Cardinality(Givers) <= ProbeCount * Cardinality(Calls)
    BY <2>1, AddersFinite, BreakerAssumption DEF BreakerInv, PermitInv, BreakerShapes
  <2>. QED
    BY <2>2, BreakerTypeParts DEF BreakerInv, PermitsDoNotAccumulate
<1>. QED
  BY BreakerInvariant, <1>1, PTL

\* An open circuit has its open time, and so opens for a probe some time, unless it
\* was tripped between the stores of a success or a reset.
THEOREM OpenTimed == BreakerSpec => []OpenIsTimed
<1>1. BreakerInv => OpenIsTimed
  BY DEF BreakerInv, ClockInv, OpenIsTimed, Settled
<1>. QED
  BY BreakerInvariant, <1>1, PTL

================================================================================
