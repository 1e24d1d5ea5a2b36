--------------------------- MODULE UpstreamLifecycle ---------------------------
(***************************************************************************)
(* The life of one upstream server: Engine (plug-core/src/engine.rs), its  *)
(* config reload (reload.rs), its health tasks and recovery (health.rs)    *)
(* and the ServerManager's maps (server/mod.rs).                           *)
(*                                                                         *)
(* Four kinds of actor move the same server.  A reload stops it and starts *)
(* it again under reload_lock; an operator restarts it; a failed call or a *)
(* refreshed token reconnects it; a health task probes it and starts a     *)
(* recovery.  The last three dial without the lock, one at a time thanks   *)
(* to the `reconnecting` slot, and commit under the lock.  Everything      *)
(* between two awaits is one action, but for config snapshots, which are   *)
(* kept across awaits and so are actions of their own.                     *)
(***************************************************************************)
EXTENDS Integers, FiniteSets

CONSTANTS
    Configs,        \* materially different configurations of the server
    On,             \* the ones with enabled = true
    Absent,         \* the server is not configured
    Operators,      \* concurrent restart_server calls
    Reconnectors,   \* concurrent tool calls, which may reconnect
    TokenLoop,      \* the OAuth refresh loop of the server
    Recovery,       \* the recovery task; recovery_task_flags allows one
    HealthTasks,    \* slots for spawned health tasks
    DegradeAt,      \* consecutive failures that make a server Degraded
    FailAt,         \* consecutive failures that make it Failed
    SuperviseAt,    \* degraded_restart_threshold
    MaxReloads      \* bound: reloads that stop the server

Starters == Operators \cup Reconnectors \cup {Recovery, TokenLoop}

ASSUME LifecycleAssumption ==
    /\ On \subseteq Configs /\ Absent \notin Configs
    /\ Recovery # TokenLoop
    /\ {Recovery, TokenLoop} \cap (Operators \cup Reconnectors) = {}
    /\ Operators \cap Reconnectors = {}
    /\ DegradeAt \in Nat \ {0} /\ FailAt \in Nat /\ DegradeAt < FailAt
    /\ SuperviseAt \in Nat /\ MaxReloads \in Nat
    /\ HealthTasks # {}

VARIABLES
    config,         \* the server's entry in engine.config, or Absent
    up,             \* configuration of the installed upstream, or Absent
    alive,          \* its transport has not closed
    health,         \* its health entry, "none" if there is none
    streak,         \* consecutive_failures, up to FailAt
    slot,           \* the server's reconnecting flag
    starter,        \* starter -> [at, cfg]: its progress and config snapshot
    reload,         \* [at, new]: progress of the reload that holds reload_lock
    reloads,        \* reloads that have stopped the server, for MaxReloads
    healthGen,      \* health_task_generations entry, 0 for none
    task,           \* health task -> [at, gen, seen]
    late,           \* history: a result was recorded for a connection a reload had ended
    readded         \* history: the server was removed and configured again

server == <<up, alive, health, streak>>
health_tasks == <<healthGen, task>>
history == <<late, readded>>
vars == <<config, server, slot, starter, reload, reloads, health_tasks, history>>

IdleStarter == [at |-> "idle", cfg |-> Absent]
IdleReload == [at |-> "idle", new |-> Absent]
NoTask == [at |-> "off", gen |-> 0, seen |-> 0]
Sleeping(g) == [at |-> "sleep", gen |-> g, seen |-> 0]

\* Engine::start has run: every enabled server was tried once, and has a health
\* entry and a health task whether or not it started.
FirstTask == CHOOSE t \in HealthTasks : TRUE

Init ==
    /\ config \in Configs \cup {Absent}
    /\ \/ /\ config \in On
          /\ \/ up = config /\ health = "Healthy" /\ streak = 0
             \/ up = Absent /\ health = "Failed" /\ streak = FailAt
             \/ up = Absent /\ health = "AuthRequired" /\ streak = 0
          /\ healthGen = 1
          /\ task = [t \in HealthTasks |-> IF t = FirstTask THEN Sleeping(1) ELSE NoTask]
       \/ /\ config \notin On
          /\ up = Absent /\ health = "none" /\ streak = 0
          /\ healthGen = 0 /\ task = [t \in HealthTasks |-> NoTask]
    /\ alive = (up # Absent)
    /\ slot = FALSE
    /\ starter = [s \in Starters |-> IdleStarter]
    /\ reload = IdleReload /\ reloads = 0
    /\ late = FALSE /\ readded = FALSE

Locked == reload.at # "idle"
\* What the server is to be once the reload that is running, if any, is over.
Intended == IF Locked THEN reload.new ELSE config
Goto(s, p) == starter' = [starter EXCEPT ![s].at = p]

-----------------------------------------------------------------------------
(* What the ServerManager does to the server's maps. *)

\* mark_start_failure and mark_auth_required.
SetFailed == health' = "Failed" /\ streak' = FailAt
SetAuthRequired == health' = "AuthRequired" /\ streak' = 0

\* Mutant: only a server that is connected loses its health entry.
StopServerIfConnected ==
    /\ up' = Absent /\ alive' = FALSE
    /\ health' = IF up = Absent THEN health ELSE "none"
    /\ streak' = IF up = Absent THEN streak ELSE 0

\* stop_server: the health entry goes first, then the upstream.
StopServer == up' = Absent /\ alive' = FALSE /\ health' = "none" /\ streak' = 0

\* register_started: a new upstream with a clean health entry.
RegisterStarted(c) == up' = c /\ alive' = TRUE /\ health' = "Healthy" /\ streak' = 0

\* replace_server: a new upstream; an existing health entry is made clean.
ReplaceServer(c) ==
    /\ up' = c /\ alive' = TRUE
    /\ health' = IF health = "none" THEN "none" ELSE "Healthy"
    /\ streak' = 0

\* Mutant: a success takes one failure off the streak instead of clearing it.
RecordSuccessDecays ==
    /\ streak' = streak - 1
    /\ health' = CASE health \in {"none", "Degraded"} -> "Healthy"
                   [] health = "Failed" -> "Degraded"
                   [] OTHER -> health

\* HealthState::record_success and record_failure; entry().or_default() makes a
\* Healthy entry where there is none.
RecordSuccess ==
    /\ streak' = 0
    /\ health' = CASE health \in {"none", "Degraded"} -> "Healthy"
                   [] health = "Failed" -> "Degraded"
                   [] OTHER -> health

RecordFailure ==
    /\ streak' = IF streak < FailAt THEN streak + 1 ELSE streak
    /\ health' = CASE health \in {"none", "Healthy"} ->
                        IF streak + 1 >= DegradeAt THEN "Degraded" ELSE "Healthy"
                   [] health = "Degraded" ->
                        IF streak + 1 >= FailAt THEN "Failed" ELSE "Degraded"
                   [] OTHER -> health

-----------------------------------------------------------------------------
(* reload_config and apply_reload, holding reload_lock throughout. *)

\* The diff: the server is added, removed or changed.
ReloadBegin(c) ==
    /\ ~Locked /\ reloads < MaxReloads
    /\ c # config
    /\ reload' = [at |-> IF config = Absent THEN "start" ELSE "stop", new |-> c]
    /\ readded' = (readded \/ (config = Absent /\ reloads > 0))
    /\ UNCHANGED <<config, server, slot, starter, reloads, health_tasks, late>>

\* The old connection is retired; that is awaited.
ReloadStop ==
    /\ reload.at = "stop"
    /\ StopServer
    /\ reloads' = reloads + 1
    /\ reload' = [reload EXCEPT !.at = "forget"]
    /\ UNCHANGED <<config, slot, starter, health_tasks, history>>

\* A removed server's task generations are cleared.
ReloadForget ==
    /\ reload.at = "forget"
    /\ healthGen' = IF reload.new = Absent THEN 0 ELSE healthGen
    /\ reload' = [reload EXCEPT !.at = "start"]
    /\ UNCHANGED <<config, server, slot, starter, reloads, task, history>>

\* start_and_register for an enabled server; one that is off is not started.
ReloadStarts ==
    /\ reload.at = "start" /\ reload.new \in On
    /\ RegisterStarted(reload.new)
    /\ reload' = [reload EXCEPT !.at = "store"]
    /\ UNCHANGED <<config, slot, starter, reloads, health_tasks, history>>

\* Mutant: a failed start during a reload is reported but not recorded.
ReloadStartFailsUnrecorded ==
    /\ reload.at = "start" /\ reload.new \in On
    /\ reload' = [reload EXCEPT !.at = "store"]
    /\ UNCHANGED <<config, server, slot, starter, reloads, health_tasks, history>>

ReloadStartFails ==
    /\ reload.at = "start" /\ reload.new \in On
    /\ SetFailed \/ SetAuthRequired
    /\ reload' = [reload EXCEPT !.at = "store"]
    /\ UNCHANGED <<config, up, alive, slot, starter, reloads, health_tasks, history>>

ReloadSkipsStart ==
    /\ reload.at = "start" /\ reload.new \notin On
    /\ reload' = [reload EXCEPT !.at = "store"]
    /\ UNCHANGED <<config, server, slot, starter, reloads, health_tasks, history>>

StoreConfig ==
    /\ reload.at = "store"
    /\ config' = reload.new
    /\ reload' = IF reload.new \in On THEN [reload EXCEPT !.at = "spawn"] ELSE IdleReload
    /\ UNCHANGED <<server, slot, starter, reloads, health_tasks, history>>

\* Task slots are alike: any free one will do.
NextTask == CHOOSE t \in HealthTasks : task[t].at = "off"

\* Mutant: a generation that exists is used again.
SpawnSameGeneration(t) ==
    /\ reload.at = "spawn" /\ task[t].at = "off" /\ t = NextTask
    /\ healthGen' = IF healthGen = 0 THEN 1 ELSE healthGen
    /\ task' = [task EXCEPT ![t] = Sleeping(healthGen')]
    /\ reload' = IdleReload
    /\ UNCHANGED <<config, server, slot, starter, reloads, history>>

\* spawn_background_tasks_for_server: a new generation supersedes older tasks.
SpawnHealthCheck(t) ==
    /\ reload.at = "spawn" /\ task[t].at = "off" /\ t = NextTask
    /\ healthGen' = healthGen + 1
    /\ task' = [task EXCEPT ![t] = Sleeping(healthGen + 1)]
    /\ reload' = IdleReload
    /\ UNCHANGED <<config, server, slot, starter, reloads, history>>

-----------------------------------------------------------------------------
(* restart_server, reconnect_server and the recovery task. *)

\* An operator's restart keeps the config it saw before it claims the slot.
RestartLoad(s) ==
    /\ s \in Operators /\ starter[s].at = "idle"
    /\ config \in On
    /\ starter' = [starter EXCEPT ![s] = [at |-> "claim", cfg |-> config]]
    /\ UNCHANGED <<config, server, slot, reload, reloads, health_tasks, history>>

\* A tool call is routed to the installed upstream, and returns ...
CallStarts(s) ==
    /\ s \in Reconnectors /\ starter[s].at = "idle" /\ up # Absent
    /\ Goto(s, "call")
    /\ UNCHANGED <<config, server, slot, reload, reloads, health_tasks, history>>

CallReturns(s) ==
    /\ starter[s].at = "call"
    /\ Goto(s, "idle")
    /\ UNCHANGED <<config, server, slot, reload, reloads, health_tasks, history>>

\* ... or loses its session, or times out on a stdio server: it reconnects.
CallLosesSession(s) ==
    /\ starter[s].at = "call"
    /\ Goto(s, "claim")
    /\ UNCHANGED <<config, server, slot, reload, reloads, health_tasks, history>>

\* Mutant: an operator's restart does not look at the slot.
ClaimUnlessOperator(s) ==
    /\ starter[s].at = "claim"
    /\ \/ /\ ~slot \/ s \in Operators
          /\ slot' = TRUE
          /\ Goto(s, IF s \in Operators THEN "dial" ELSE "snapshot")
       \/ slot /\ UNCHANGED slot /\ starter' = [starter EXCEPT ![s] = IdleStarter]
    /\ UNCHANGED <<config, server, reload, reloads, health_tasks, history>>

\* try_claim_upstream_start; whoever finds the slot taken returns Ok, which
\* ends a recovery episode too.
Claim(s) ==
    /\ starter[s].at = "claim"
    /\ \/ ~slot /\ slot' = TRUE /\ Goto(s, IF s \in Operators THEN "dial" ELSE "snapshot")
       \/ slot /\ UNCHANGED slot /\ starter' = [starter EXCEPT ![s] = IdleStarter]
    /\ UNCHANGED <<config, server, reload, reloads, health_tasks, history>>

\* UpstreamStartGuard releases the slot.  A recovery attempt that failed waits
\* and tries again; everybody else is done.
EndStart(s, ok) ==
    /\ slot' = FALSE
    /\ starter' = [starter EXCEPT ![s] =
            [IdleStarter EXCEPT !.at = IF s = Recovery /\ ~ok THEN "backoff" ELSE "idle"]]

\* do_reconnect: the config is snapshotted once ...
Snapshot(s) ==
    /\ starter[s].at = "snapshot"
    /\ \/ /\ config # Absent
          /\ starter' = [starter EXCEPT ![s] = [at |-> "check", cfg |-> config]]
          /\ UNCHANGED slot
       \/ /\ config = Absent
          /\ EndStart(s, FALSE)
    /\ UNCHANGED <<config, server, reload, reloads, health_tasks, history>>

\* ... and compared again before every dial.
CheckCurrent(s) ==
    /\ starter[s].at = "check"
    /\ \/ config = starter[s].cfg /\ Goto(s, "dial") /\ UNCHANGED slot
       \/ config # starter[s].cfg /\ EndStart(s, TRUE)
    /\ UNCHANGED <<config, server, reload, reloads, health_tasks, history>>

Dials(s) ==
    /\ starter[s].at = "dial"
    /\ Goto(s, "commit")
    /\ UNCHANGED <<config, server, slot, reload, reloads, health_tasks, history>>

\* Only reconnect_server retries inside one start.
DialFails(s) ==
    /\ starter[s].at = "dial"
    /\ \/ EndStart(s, FALSE)
       \/ s \in Reconnectors \cup {TokenLoop} /\ Goto(s, "check") /\ UNCHANGED slot
    /\ UNCHANGED <<config, server, reload, reloads, health_tasks, history>>

\* Mutant: the lock is taken but the config is not compared again.
CommitUnchecked(s) ==
    /\ starter[s].at = "commit" /\ ~Locked
    /\ ReplaceServer(starter[s].cfg)
    /\ Goto(s, "refresh")
    /\ UNCHANGED <<config, slot, reload, reloads, health_tasks, history>>

\* commit_replacement, under reload_lock: install if the config has not changed ...
Commit(s) ==
    /\ starter[s].at = "commit" /\ ~Locked
    /\ config = starter[s].cfg
    /\ ReplaceServer(starter[s].cfg)
    /\ Goto(s, "refresh")
    /\ UNCHANGED <<config, slot, reload, reloads, health_tasks, history>>

\* ... and discard the fresh connection if it has.
Discard(s) ==
    /\ starter[s].at = "commit" /\ ~Locked
    /\ config # starter[s].cfg
    /\ EndStart(s, TRUE)
    /\ UNCHANGED <<config, server, reload, reloads, health_tasks, history>>

\* The catalog refresh that follows a commit is awaited with the slot held.
Refreshed(s) ==
    /\ starter[s].at = "refresh"
    /\ EndStart(s, TRUE)
    /\ UNCHANGED <<config, server, reload, reloads, health_tasks, history>>

\* recovery_still_needed, after the backoff; an open circuit also needs it.
RecoveryResumes ==
    /\ starter[Recovery].at = "backoff"
    /\ config \in On /\ health # "AuthRequired"
    /\ Goto(Recovery, "claim")
    /\ UNCHANGED <<config, server, slot, reload, reloads, health_tasks, history>>

RecoveryGivesUp ==
    /\ starter[Recovery].at = "backoff"
    /\ \/ config \notin On
       \/ health = "AuthRequired"
       \/ up # Absent /\ health = "Healthy"
    /\ Goto(Recovery, "idle")
    /\ UNCHANGED <<config, server, slot, reload, reloads, health_tasks, history>>

-----------------------------------------------------------------------------
(* The health tasks: spawn_health_check. *)

\* trigger_recovery: at most one recovery episode at a time.
TriggerRecovery ==
    starter' = IF starter[Recovery].at = "idle"
               THEN [starter EXCEPT ![Recovery].at = "claim"] ELSE starter

\* A tick of a superseded task, or for a server that is gone or off, ends it.
TickEnds(t) ==
    /\ task[t].at = "sleep"
    /\ healthGen # task[t].gen \/ config \notin On
    /\ healthGen' = IF healthGen = task[t].gen /\ config = Absent THEN 0 ELSE healthGen
    /\ task' = [task EXCEPT ![t] = NoTask]
    /\ UNCHANGED <<config, server, slot, starter, reload, reloads, history>>

\* A tick that goes on; a server that needs a sign-in is skipped.
Ticks(t) ==
    /\ task[t].at = "sleep" /\ task[t].gen = healthGen
    /\ config \in On /\ health # "AuthRequired"

\* Mutant: only a server that was connected before is recovered.
TickMissingIfDegraded(t) ==
    /\ Ticks(t)
    /\ up = Absent
    /\ health = "Degraded" /\ streak >= SuperviseAt
    /\ TriggerRecovery
    /\ UNCHANGED <<config, server, slot, reload, reloads, health_tasks, history>>

\* A server without an upstream has nothing to probe: it is recovered if its start
\* failed or supervision is due, and left alone otherwise.
TickMissing(t) ==
    /\ Ticks(t)
    /\ up = Absent
    /\ health = "Failed" \/ (health = "Degraded" /\ streak >= SuperviseAt)
    /\ TriggerRecovery
    /\ UNCHANGED <<config, server, slot, reload, reloads, health_tasks, history>>

TickEnded(t) ==
    /\ Ticks(t)
    /\ up # Absent /\ ~alive
    /\ SetFailed
    /\ TriggerRecovery
    /\ UNCHANGED <<config, up, alive, slot, reload, reloads, health_tasks, history>>

\* health_check_server sends the probe and awaits its answer for ten seconds.
TickProbes(t) ==
    /\ Ticks(t)
    /\ up # Absent /\ alive
    /\ task' = [task EXCEPT ![t].at = "probe", ![t].seen = reloads]
    /\ UNCHANGED <<config, server, slot, starter, reload, reloads, healthGen, history>>

\* should_restart, once its backoff has elapsed: a sustained streak or an open
\* circuit, which only a server that has been connected can have.
SupervisionDue ==
    \/ health' \in {"Degraded", "Failed"} /\ streak' >= SuperviseAt
    \/ up # Absent

\* The answer, the failure, or the silence of a busy server, which is not
\* counted; a server that has just failed is recovered, one that stays degraded
\* may be restarted.
ProbeEnds(t) ==
    /\ task[t].at = "probe"
    /\ RecordSuccess \/ RecordFailure \/ UNCHANGED <<health, streak>>
    /\ late' = (late \/ (task[t].seen # reloads
                             /\ <<health, streak>> # <<health', streak'>>))
    /\ \/ health # "Failed" /\ health' = "Failed" /\ TriggerRecovery
       \/ SupervisionDue /\ TriggerRecovery
       \/ ~(health # "Failed" /\ health' = "Failed") /\ UNCHANGED starter
    /\ task' = [task EXCEPT ![t].at = "sleep", ![t].seen = 0]
    /\ UNCHANGED <<config, up, alive, slot, reload, reloads, healthGen, readded>>

-----------------------------------------------------------------------------
(* The connection and the token. *)

ConnectionEnds ==
    /\ alive /\ alive' = FALSE
    /\ UNCHANGED <<config, up, health, streak, slot, starter, reload, reloads,
                   health_tasks, history>>

\* run_refresh_loop: the config is looked at, then the exchange is awaited.
TokenDue ==
    /\ starter[TokenLoop].at = "idle" /\ config \in On
    /\ Goto(TokenLoop, "exchange")
    /\ UNCHANGED <<config, server, slot, reload, reloads, health_tasks, history>>

\* A transient failure, or a token that was injected: the loop tries again later.
TokenKept ==
    /\ starter[TokenLoop].at = "exchange"
    /\ Goto(TokenLoop, "idle")
    /\ UNCHANGED <<config, server, slot, reload, reloads, health_tasks, history>>

\* A granted token is followed by a reconnect ...
TokenGranted ==
    /\ starter[TokenLoop].at = "exchange"
    /\ Goto(TokenLoop, "claim")
    /\ UNCHANGED <<config, server, slot, reload, reloads, health_tasks, history>>

\* ... and a rejected one by mark_auth_required, as is a fresh token that the
\* reconnect finds refused.
TokenRejected ==
    /\ \/ starter[TokenLoop].at = "exchange" /\ Goto(TokenLoop, "idle") /\ UNCHANGED slot
       \/ starter[TokenLoop].at = "dial" /\ EndStart(TokenLoop, FALSE)
    /\ SetAuthRequired
    /\ late' = (late \/ Intended \notin On)
    /\ UNCHANGED <<config, up, alive, reload, reloads, health_tasks, readded>>

-----------------------------------------------------------------------------
ReloadStep ==
    \/ ReloadStop \/ ReloadForget \/ ReloadStarts \/ ReloadStartFails \/ ReloadSkipsStart
    \/ StoreConfig \/ \E t \in HealthTasks : SpawnHealthCheck(t)

StarterStep(s) ==
    \/ Claim(s) \/ Snapshot(s) \/ CheckCurrent(s) \/ Dials(s) \/ DialFails(s)
    \/ Commit(s) \/ Discard(s) \/ Refreshed(s)

RecoveryStep == RecoveryResumes \/ RecoveryGivesUp

HealthStep(t) ==
    TickEnds(t) \/ TickMissing(t) \/ TickEnded(t) \/ TickProbes(t) \/ ProbeEnds(t)

Next ==
    \/ \E c \in Configs \cup {Absent} : ReloadBegin(c)
    \/ ReloadStep
    \/ \E s \in Starters : RestartLoad(s) \/ StarterStep(s)
           \/ CallStarts(s) \/ CallReturns(s) \/ CallLosesSession(s)
    \/ RecoveryStep
    \/ \E t \in HealthTasks : HealthStep(t)
    \/ ConnectionEnds \/ TokenDue \/ TokenKept \/ TokenGranted \/ TokenRejected

Spec == Init /\ [][Next]_vars

\* A reload that began is carried through, tasks are polled until they end, a
\* dial ends (it is bounded by timeout_secs) and a health interval elapses.
FairSpec ==
    /\ Spec
    /\ WF_vars(ReloadStep)
    /\ WF_vars(RecoveryStep \/ StarterStep(Recovery))
    /\ \A s \in Starters \ {Recovery} : WF_vars(StarterStep(s))
    /\ WF_vars(\E t \in HealthTasks : HealthStep(t))

-----------------------------------------------------------------------------
(* Properties *)

StarterPcs == {"idle", "call", "exchange", "claim", "snapshot", "check", "dial",
               "commit", "refresh", "backoff"}
ReloadPcs == {"idle", "stop", "forget", "start", "store", "spawn"}

\* Types of the engine's maps and of the actors that share them.
TypeOK ==
    /\ config \in Configs \cup {Absent}
    /\ up \in Configs \cup {Absent} /\ alive \in BOOLEAN
    /\ health \in {"none", "Healthy", "Degraded", "Failed", "AuthRequired"}
    /\ streak \in 0..FailAt
    /\ slot \in BOOLEAN
    /\ starter \in [Starters -> [at : StarterPcs, cfg : Configs \cup {Absent}]]
    /\ reload \in [at : ReloadPcs, new : Configs \cup {Absent}]
    /\ reloads \in Nat
    /\ healthGen \in Nat
    /\ task \in [HealthTasks -> [at : {"off", "sleep", "probe"}, gen : Nat, seen : Nat]]
    /\ late \in BOOLEAN /\ readded \in BOOLEAN

\* Where a starter owns the reconnecting slot.
SlotPcs == {"snapshot", "check", "dial", "commit", "refresh"}

\* "A supervised or operator restart must not open a second handshake while
\* recovery is already dialing the same upstream": restart_server,
\* reconnect_server and recovery own the slot one at a time, and the slot is
\* never left taken by nobody.
OneStartAtATime ==
    /\ \A s, u \in Starters :
         starter[s].at \in SlotPcs /\ starter[u].at \in SlotPcs => s = u
    /\ slot <=> \E s \in Starters : starter[s].at \in SlotPcs

\* "There is no torn middle to observe": whenever no reload is running, the
\* installed upstream was dialled with the configuration that is in force, even
\* though dials and commits overlap reloads.
InstalledIsConfigured == ~Locked => up \in {Absent, config}

\* "Either way the server gets its health task, so one that could not start
\* during the reload is retried": an enabled server without an upstream is one
\* the next tick of a live health task recovers, or one that awaits a sign-in;
\* but for a late probe that rewrote its health.
DownIsWatched ==
    ~Locked /\ config \in On =>
        /\ \E t \in HealthTasks : task[t].at # "off" /\ task[t].gen = healthGen
        /\ up = Absent /\ ~late => health \in {"Failed", "AuthRequired"}

\* "Forget it too, or a removed server stays in the list": a server that is not
\* configured has no health entry, but for a late result.
RemovedIsForgotten == ~Locked /\ config = Absent /\ ~late => health = "none"

\* A new health task supersedes the older ones: at most one is current, unless
\* the server was removed and configured again, which restarts the generations.
OneCurrentHealthTask ==
    ~readded => \A t, u \in HealthTasks :
        task[t].at # "off" /\ task[u].at # "off"
            /\ task[t].gen = healthGen /\ task[u].gen = healthGen => t = u

Dialling == \E s \in Starters : starter[s].at = "dial"

\* An enabled server that is down, or whose connection ended, is dialled again and
\* again until it is back, needs a sign-in or is turned off.
DownIsRetried ==
    (config \in On /\ (up = Absent \/ ~alive)) ~>
        (Dialling \/ alive \/ config \notin On \/ health = "AuthRequired" \/ late)

-----------------------------------------------------------------------------
(* What a comment says and the code does not keep: TLC finds it violated     *)
(* (README, section 4).                                                      *)

\* "A server that is off is stopped with the rest and stays stopped" (reload.rs).
OffStaysOff == ~Locked /\ config \notin On => up = Absent
=============================================================================
