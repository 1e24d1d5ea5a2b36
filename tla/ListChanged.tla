------------------------------ MODULE ListChanged ------------------------------
(***************************************************************************)
(* ToolRouter::schedule_list_changed_refresh (plug-core/src/proxy/mod.rs): *)
(* upstream handlers announce that a catalog changed; one background task  *)
(* debounces the announcements, refreshes the merged catalog and fans the  *)
(* list_changed notifications out to downstream clients.                   *)
(*                                                                         *)
(* The handlers and the task share five SeqCst atomics and no lock, so     *)
(* every load, store, swap and compare-exchange is a step of its own.      *)
(* refresh_tools is used through RefreshContract, which CatalogRefresh is  *)
(* shown to keep.  A pass finds the tools in the connection's cached list, *)
(* which the tools handler replaces before it announces anything, and asks *)
(* the upstream for the other kinds; these upstreams answer.               *)
(***************************************************************************)
EXTENDS Integers, Sequences, FiniteSets

CONSTANTS
    Kinds,          \* kinds of list: tools, resources, prompts
    KindOrder,      \* the order in which the task looks at their flags
    Relisted,       \* kinds whose handler lists before it announces: tools
    Handlers,       \* concurrent upstream notification handlers
    Tasks,          \* slots for spawned refresh tasks
    MaxVersion,     \* bound: catalog changes explored
    MaxTimeouts,    \* bound: times the refresh backstop fires
    MaxAborts       \* bound: times a task ends abnormally

\* The task looks at the flag of every kind.
ASSUME KindsAssumption ==
    /\ Kinds # {} /\ KindOrder \in Seq(Kinds)
    /\ \A k \in Kinds : \E i \in 1..Len(KindOrder) : KindOrder[i] = k
    /\ Relisted \subseteq Kinds
    /\ MaxVersion \in Nat /\ MaxTimeouts \in Nat /\ MaxAborts \in Nat

VARIABLES
    upstream,       \* version of the lists as a refresh pass finds them
    published,      \* kind -> version in the published catalog
    call,           \* task -> state of its refresh_tools call (RefreshContract)
    asked,          \* task -> upstream version when that call began
    pendingKind,    \* kind -> pending_{tool,resource,prompt}_list_changed
    pending,        \* notification_refresh_pending
    inProgress,     \* notification_refresh_in_progress
    handler,        \* handler -> [at, kind]: its progress through the function
    task,           \* task -> [at, todo]: its progress through the loop
    timeouts,       \* times the backstop fired
    aborts,         \* abnormal exits so far
    changedAt,      \* history: kind -> version of its latest announced change
    cut,            \* history: kind -> latest version that a listing, refresh or
                    \* task that came to nothing may have left out
    stolen          \* history: a task that had let go took the pending flag from
                    \* under the task that now works

flags == <<pendingKind, pending, inProgress>>
bounds == <<timeouts, aborts>>
history == <<changedAt, cut, stolen>>
vars == <<upstream, published, call, asked, flags, handler, task, bounds, history>>

Refresh == INSTANCE RefreshContract
    WITH Callers <- Tasks, Families <- Kinds, carried <- {}

\* An idle handler announces nothing; the kind it last announced is immaterial.
Idle == [at |-> "idle", kind |-> CHOOSE k \in Kinds : TRUE]
Off == [at |-> "off", todo |-> << >>]
At(p) == [at |-> p, todo |-> << >>]

Init ==
    /\ Refresh!Init
    /\ pendingKind = [k \in Kinds |-> FALSE]
    /\ pending = FALSE /\ inProgress = FALSE
    /\ handler = [h \in Handlers |-> Idle]
    /\ task = [t \in Tasks |-> Off]
    /\ timeouts = 0 /\ aborts = 0
    /\ changedAt = [k \in Kinds |-> 0] /\ cut = [k \in Kinds |-> 0]
    /\ stolen = FALSE

\* Where a task owns the in-progress flag.
Holding == {"clear", "debounce", "refresh", "swap", "release"}
Holders == {t \in Tasks : task[t].at \in Holding}

-----------------------------------------------------------------------------
(* A handler: on_{tool,resource,prompt}_list_changed, then the schedule call. *)

Relisting == {h \in Handlers : handler[h].at = "relist"}

\* The bound on changes leaves every listing under way its version.
Room == upstream + Cardinality(Relisting) < MaxVersion

\* on_resource_list_changed, on_prompt_list_changed: schedule at once.
Announce(h, k) ==
    /\ handler[h].at = "idle" /\ k \notin Relisted /\ Room
    /\ Refresh!Change
    /\ handler' = [handler EXCEPT ![h] = [at |-> "kind", kind |-> k]]
    /\ changedAt' = [changedAt EXCEPT ![k] = upstream']
    /\ UNCHANGED <<flags, task, bounds, cut, stolen>>

\* on_tool_list_changed: list first.
AskForList(h, k) ==
    /\ handler[h].at = "idle" /\ k \in Relisted /\ Room
    /\ handler' = [handler EXCEPT ![h] = [at |-> "relist", kind |-> k]]
    /\ cut' = [cut EXCEPT ![k] = IF @ > upstream THEN upstream ELSE @]
    /\ UNCHANGED <<upstream, published, call, asked, flags, task, bounds, changedAt, stolen>>

\* The new list is stored where the refresh pass finds it.
StoreList(h) ==
    /\ handler[h].at = "relist"
    /\ Refresh!Change
    /\ handler' = [handler EXCEPT ![h].at = "kind"]
    /\ changedAt' = [changedAt EXCEPT ![handler[h].kind] = upstream']
    /\ UNCHANGED <<flags, task, bounds, cut, stolen>>

\* The listing fails or list_timeout elapses: nothing is stored and nothing
\* scheduled; the change waits for the next announcement.
ListingFails(h) ==
    /\ handler[h].at = "relist"
    /\ handler' = [handler EXCEPT ![h] = Idle]
    /\ cut' = [cut EXCEPT ![handler[h].kind] = upstream + 1]
    /\ UNCHANGED <<upstream, published, call, asked, flags, task, bounds, changedAt, stolen>>

SetKind(h) ==
    /\ handler[h].at = "kind"
    /\ pendingKind' = [pendingKind EXCEPT ![handler[h].kind] = TRUE]
    /\ handler' = [handler EXCEPT ![h].at = "pending"]
    /\ UNCHANGED <<upstream, published, call, asked, pending, inProgress,
                   task, bounds, history>>

SetPending(h) ==
    /\ handler[h].at = "pending"
    /\ pending' = TRUE
    /\ handler' = [handler EXCEPT ![h].at = "claim"]
    /\ UNCHANGED <<upstream, published, call, asked, pendingKind, inProgress,
                   task, bounds, history>>

\* compare_exchange(false, true) on the in-progress flag; the winner spawns.
ClaimLost(h) ==
    /\ handler[h].at = "claim" /\ inProgress
    /\ handler' = [handler EXCEPT ![h] = Idle]
    /\ UNCHANGED <<upstream, published, call, asked, flags, task, bounds, history>>

ClaimWon(h, t) ==
    /\ handler[h].at = "claim" /\ ~inProgress
    /\ task[t].at = "off"
    /\ inProgress' = TRUE
    /\ task' = [task EXCEPT ![t] = At("clear")]
    /\ handler' = [handler EXCEPT ![h] = Idle]
    /\ UNCHANGED <<upstream, published, call, asked, pendingKind, pending,
                   bounds, history>>

-----------------------------------------------------------------------------
(* The spawned task. *)

\* Top of the loop: forget earlier announcements, then debounce.
ClearPending(t) ==
    /\ task[t].at = "clear"
    /\ pending' = FALSE
    /\ task' = [task EXCEPT ![t] = At("debounce")]
    /\ UNCHANGED <<upstream, published, call, asked, pendingKind, inProgress,
                   handler, bounds, history>>

StartRefresh(t) ==
    /\ task[t].at = "debounce"
    /\ Refresh!Ask(t)
    /\ task' = [task EXCEPT ![t] = At("refresh")]
    /\ UNCHANGED <<flags, handler, bounds, history>>

\* Mutant: the pending flag is cleared after the refresh, not before it.
RefreshReturnsClearing(t) ==
    /\ task[t].at = "refresh"
    /\ Refresh!Return(t)
    /\ pending' = FALSE
    /\ task' = [task EXCEPT ![t] = [at |-> "swap", todo |-> KindOrder]]
    /\ UNCHANGED <<pendingKind, inProgress, handler, bounds, history>>

RefreshReturns(t) ==
    /\ task[t].at = "refresh"
    /\ Refresh!Return(t)
    /\ task' = [task EXCEPT ![t] = [at |-> "swap", todo |-> KindOrder]]
    /\ UNCHANGED <<flags, handler, bounds, history>>

\* A refresh that came to nothing leaves out at most what there was by then.
CutShort == cut' = [k \in Kinds |-> IF cut[k] > upstream THEN cut[k] ELSE upstream]

\* LIST_CHANGED_REFRESH_MAX elapses: the refresh is dropped, the loop goes on.
RefreshTimesOut(t) ==
    /\ task[t].at = "refresh" /\ timeouts < MaxTimeouts
    /\ Refresh!Cancel(t)
    /\ timeouts' = timeouts + 1 /\ CutShort
    /\ task' = [task EXCEPT ![t] = [at |-> "swap", todo |-> KindOrder]]
    /\ UNCHANGED <<flags, handler, aborts, changedAt, stolen>>

\* Mutant: the flag is loaded, not swapped.
FanOutKeepsFlag(t) ==
    /\ task[t].at = "swap" /\ task[t].todo # << >>
    /\ task' = [task EXCEPT ![t].todo = Tail(@)]
    /\ UNCHANGED <<upstream, published, call, asked, flags, handler, bounds, history>>

\* Swap one kind's flag; if it was set, fan its notification out.
FanOut(t) ==
    /\ task[t].at = "swap" /\ task[t].todo # << >>
    /\ pendingKind' = [pendingKind EXCEPT ![Head(task[t].todo)] = FALSE]
    /\ task' = [task EXCEPT ![t].todo = Tail(@)]
    /\ UNCHANGED <<upstream, published, call, asked, pending, inProgress,
                   handler, bounds, history>>

\* Swap the pending flag: announced meanwhile, so go round again; or let go.
LoopAgain(t) ==
    /\ task[t].at = "swap" /\ task[t].todo = << >> /\ pending
    /\ pending' = FALSE
    /\ task' = [task EXCEPT ![t] = At("clear")]
    /\ UNCHANGED <<upstream, published, call, asked, pendingKind, inProgress,
                   handler, bounds, history>>

LoopEnds(t) ==
    /\ task[t].at = "swap" /\ task[t].todo = << >> /\ ~pending
    /\ task' = [task EXCEPT ![t] = At("release")]
    /\ UNCHANGED <<upstream, published, call, asked, flags, handler, bounds, history>>

\* Mutant: the task ends as soon as it has let go, without a second look.
ReleaseAndEnd(t) ==
    /\ task[t].at = "release"
    /\ inProgress' = FALSE
    /\ task' = [task EXCEPT ![t] = Off]
    /\ UNCHANGED <<upstream, published, call, asked, pendingKind, pending,
                   handler, bounds, history>>

Release(t) ==
    /\ task[t].at = "release"
    /\ inProgress' = FALSE
    /\ task' = [task EXCEPT ![t] = At("recheck")]
    /\ UNCHANGED <<upstream, published, call, asked, pendingKind, pending,
                   handler, bounds, history>>

\* A handler that announced before the release lost its claim to this task, so
\* the task looks once more after letting go.
RecheckNothing(t) ==
    /\ task[t].at = "recheck" /\ ~pending
    /\ task' = [task EXCEPT ![t] = Off]
    /\ UNCHANGED <<upstream, published, call, asked, flags, handler, bounds, history>>

RecheckPending(t) ==
    /\ task[t].at = "recheck" /\ pending
    /\ pending' = FALSE
    /\ \/ Holders = {} /\ UNCHANGED <<cut, stolen>>
       \/ Holders # {} /\ CutShort /\ stolen' = TRUE
    /\ task' = [task EXCEPT ![t] = At("reclaim")]
    /\ UNCHANGED <<upstream, published, call, asked, pendingKind, inProgress,
                   handler, bounds, changedAt>>

ReclaimWon(t) ==
    /\ task[t].at = "reclaim" /\ ~inProgress
    /\ inProgress' = TRUE
    /\ task' = [task EXCEPT ![t] = At("clear")]
    /\ UNCHANGED <<upstream, published, call, asked, pendingKind, pending,
                   handler, bounds, history>>

ReclaimLost(t) ==
    /\ task[t].at = "reclaim" /\ inProgress
    /\ task' = [task EXCEPT ![t] = Off]
    /\ UNCHANGED <<upstream, published, call, asked, flags, handler, bounds, history>>

\* Mutant: no guard, so an abnormal exit leaves the flag set.
AbortKeepsFlag(t) ==
    /\ task[t].at \in {"debounce", "refresh"} /\ aborts < MaxAborts
    /\ aborts' = aborts + 1
    /\ call' = [call EXCEPT ![t] = "idle"]
    /\ task' = [task EXCEPT ![t] = Off]
    /\ UNCHANGED <<upstream, published, asked, flags, handler, timeouts, history>>

\* A panic or a cancellation unwinds the task at an await; RefreshGuard's Drop
\* releases the flag it still holds.
Abort(t) ==
    /\ task[t].at \in {"debounce", "refresh"} /\ aborts < MaxAborts
    /\ aborts' = aborts + 1 /\ CutShort
    /\ inProgress' = FALSE
    /\ call' = [call EXCEPT ![t] = "idle"]
    /\ task' = [task EXCEPT ![t] = Off]
    /\ UNCHANGED <<upstream, published, asked, pendingKind, pending, handler,
                   timeouts, changedAt, stolen>>

-----------------------------------------------------------------------------
(* Snapshots are published by the pass this task awaits or by any other. *)

PublishFor(t) ==
    /\ task[t].at = "refresh"
    /\ Refresh!Publish
    /\ published # published'
    /\ \A k \in Kinds : published'[k] >= asked[t]
    /\ UNCHANGED <<flags, handler, task, bounds, history>>

PublishOther ==
    /\ Refresh!Publish
    /\ published # published'
    /\ UNCHANGED <<flags, handler, task, bounds, history>>

HandlerStep(h) ==
    \/ StoreList(h) \/ ListingFails(h) \/ SetKind(h) \/ SetPending(h) \/ ClaimLost(h)
    \/ \E t \in Tasks : ClaimWon(h, t)

TaskStep(t) ==
    \/ ClearPending(t) \/ StartRefresh(t) \/ RefreshReturns(t) \/ FanOut(t)
    \/ LoopAgain(t) \/ LoopEnds(t) \/ Release(t) \/ RecheckNothing(t)
    \/ RecheckPending(t) \/ ReclaimWon(t) \/ ReclaimLost(t)

Next ==
    \/ \E h \in Handlers : 
          HandlerStep(h) \/ \E k \in Kinds : Announce(h, k) \/ AskForList(h, k)
    \/ \E t \in Tasks : TaskStep(t) \/ RefreshTimesOut(t) \/ Abort(t) \/ PublishFor(t)
    \/ PublishOther

Spec == Init /\ [][Next]_vars

\* Spawned tasks are polled until they end, and an awaited refresh publishes
\* (EveryCallEnds of CatalogRefresh).
Fairness ==
    /\ \A h \in Handlers : WF_vars(HandlerStep(h))
    /\ \A t \in Tasks : WF_vars(TaskStep(t)) /\ WF_vars(PublishFor(t))

FairSpec == Spec /\ Fairness

-----------------------------------------------------------------------------
(* Properties *)

TaskPcs == Holding \cup {"off", "recheck", "reclaim"}

\* Types of the flags and of the two kinds of actor; a task's refresh_tools call
\* is open exactly while the task awaits it.
TypeOK ==
    /\ upstream \in 0..MaxVersion
    /\ published \in [Kinds -> 0..upstream]
    /\ call \in [Tasks -> {"idle", "asked", "done"}]
    /\ asked \in [Tasks -> 0..upstream]
    /\ pendingKind \in [Kinds -> BOOLEAN]
    /\ pending \in BOOLEAN /\ inProgress \in BOOLEAN
    /\ handler \in [Handlers -> [at : {"idle", "relist", "kind", "pending", "claim"},
                                 kind : Kinds]]
    /\ task \in [Tasks -> [at : TaskPcs, todo : Seq(Kinds)]]
    /\ \A t \in Tasks : call[t] = "asked" <=> task[t].at = "refresh"
    /\ timeouts \in 0..MaxTimeouts /\ aborts \in 0..MaxAborts
    /\ changedAt \in [Kinds -> 0..upstream] /\ cut \in [Kinds -> 0..(upstream + 1)]
    /\ stolen \in BOOLEAN

\* "A wedged flag would silently drop every future refresh": the in-progress
\* flag is set exactly while one task works, through hand-overs, lost claims
\* and abnormal exits.
FlagMeansOneWorker ==
    /\ TypeOK
    /\ inProgress <=> Holders # {}
    /\ \A t, u \in Holders : t = u

\* The kinds announced so far that no handler is still announcing have an owner:
\* a task that will still look at them.
Owned ==
    (\A h \in Handlers : handler[h].at \in {"idle", "relist"}) /\ (\E k \in Kinds : pendingKind[k]) =>
        \/ Holders # {}
        \/ \E t \in Tasks : task[t].at = "recheck" /\ pending
        \/ \E t \in Tasks : task[t].at = "reclaim"

\* An announcement is forgotten in two ways only: the task that would have fanned
\* it out ends abnormally (the next announcement repairs it), or a task that had
\* let go takes the pending flag from under its successor.
LostOnlyByTheft == aborts = 0 /\ ~stolen => Owned

\* Every announced change reaches the published catalog: a refresh starts after
\* the announcement, and after the new list of tools was stored.  A listing that
\* fails, a refresh cut short, a task that ends abnormally and a stolen flag each
\* leave out only what had been announced by then: the next announcement is
\* followed up (on_tool_list_changed, schedule_list_changed_refresh).
ChangeReachesCatalog ==
    \A v \in 1..MaxVersion :
        /\ \A k \in Kinds : (changedAt[k] = v) ~> (published[k] >= v \/ cut[k] >= v)
        /\ \A k \in Relisted : (upstream = v - 1 /\ \E h \in Relisting : handler[h].kind = k)
              ~> (published[k] >= v \/ cut[k] >= v)

\* Every announced kind is fanned out to the clients.
AnnouncementIsFannedOut ==
    \A k \in Kinds : pendingKind[k] ~> (~pendingKind[k] \/ aborts > 0 \/ stolen)

=============================================================================
