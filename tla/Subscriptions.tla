---------------------------- MODULE Subscriptions ----------------------------
(***************************************************************************)
(* The registry of resource subscriptions (plug-core proxy/subscriptions.rs)*)
(* and the refresh pass, sweep and heals that move subscriptions between   *)
(* upstream servers (proxy/mod.rs).                                        *)
(*                                                                         *)
(* One resource is modelled: nothing is shared between two but the code.   *)
(* Downstream clients join and leave the entry under the map's guard; the  *)
(* upstream calls are made by detached transition tasks, one at a time     *)
(* under the resource's transition lock, which they may reach in any order.*)
(* A transition whose generation is no longer the entry's leaves the entry *)
(* alone.                                                                  *)
(***************************************************************************)
EXTENDS Integers, FiniteSets

CONSTANTS
    Clients,        \* caller targets
    Servers,        \* upstream servers the resource may be routed to
    None,           \* no server, no route
    MaxGen,         \* bound: generations handed out
    MaxPasses,      \* bound: refresh passes
    MaxDials        \* bound: connections made or lost

ASSUME SubscriptionsAssumption ==
    /\ None \notin Servers
    /\ MaxGen \in Nat /\ MaxPasses \in Nat /\ MaxDials \in Nat

VARIABLES
    entry,          \* the resource's Entry; state "absent" when there is none
    nextGen,        \* next_generation
    queued,         \* transition tasks that wait for the transition lock
    running,        \* the one that holds it; pc "free" when nobody does
    heals,          \* owners whose post-confirm hook has been spawned, not run
    caller,         \* client -> its subscribe_resource call
    route,          \* the resource's server in the published snapshot
    pass,           \* the refresh pass
    sweep,          \* the detached post-publish sweep
    passes,         \* passes so far, for MaxPasses
    conn,           \* server -> generation of its connection, 0 for none
    dials,          \* connections made or lost so far
    held,           \* servers whose connection has the subscription
    stuck,          \* history: servers that answered a call with an error and kept
                    \* it, confirmed one that nobody waited for any more, were
                    \* left to a subscribe that a later transition superseded,
                    \* or passed over by a resubscribe, which releases nobody
    undone          \* history: servers told to unsubscribe by a transition that a
                    \* later one had overtaken on the way to the lock

registry == <<entry, nextGen, queued, running, heals>>
refresh == <<route, pass, sweep, passes>>
upstreams == <<conn, dials, held, stuck, undone>>
subscriptionVars == <<registry, caller, refresh, upstreams>>

Absent == [state |-> "absent", gen |-> 0, members |-> {}, intended |-> None,
           owner |-> None, ownerConn |-> 0, prior |-> None]
Free == [pc |-> "free", kind |-> "none", gen |-> 0, to |-> None, toConn |-> 0,
         old |-> None, oldConn |-> 0, displaced |-> None, release |-> FALSE,
         late |-> FALSE, callee |-> None, calleeConn |-> 0]
NoWait == [gen |-> 0, kinds |-> {}]
NoCall == [pc |-> "idle", to |-> None, toConn |-> 0, wait |-> NoWait]
Looking == [NoCall EXCEPT !.pc = "look"]
NoItem == [kind |-> "none", old |-> None, to |-> None]
AtRest == [pc |-> "idle", new |-> None, item |-> NoItem, wait |-> NoWait]

SubscriptionsInit ==
    /\ entry = Absent /\ nextGen = 1
    /\ queued = {} /\ running = Free /\ heals = {}
    /\ caller = [c \in Clients |-> NoCall]
    /\ route \in Servers
    /\ pass = AtRest /\ sweep = AtRest /\ passes = 0
    /\ conn = [s \in Servers |-> 1] /\ dials = 0
    /\ held = {} /\ stuck = {} /\ undone = {}

-----------------------------------------------------------------------------
(* The registry's synchronous steps *)

\* Entry::owner_to_release
OwnerToRelease ==
    IF entry.owner # None THEN entry.owner
    ELSE IF entry.state = "pending" THEN entry.intended ELSE None

MarkDraining == [entry EXCEPT !.state = "draining", !.prior = OwnerToRelease,
                              !.intended = None]

Pending(e, to) == [e EXCEPT !.state = "pending", !.gen = nextGen,
                            !.intended = to, !.prior = None]

\* spawn_detached
Spawn(t) == queued' = queued \cup {t}

DrainTask(g, fallback) ==
    [Free EXCEPT !.pc = "queued", !.kind = "drain", !.gen = g, !.old = fallback,
                 !.oldConn = IF fallback = None THEN 0 ELSE conn[fallback]]

\* The member set of unsubscribe and cleanup_target: the last one to leave
\* a live entry starts its drain.
LeaveEntry(c) ==
    LET rest == entry.members \ {c} IN
    IF rest = {} /\ entry.state \in {"pending", "active"}
    THEN /\ entry' = [MarkDraining EXCEPT !.members = {}]
         /\ Spawn(DrainTask(entry.gen, route))
    ELSE /\ entry' = [entry EXCEPT !.members = rest]
         /\ UNCHANGED queued

\* SubscriptionRegistry::migrate up to its await; what it waits for is `wait'.
NoMigration == entry.state = "absent" /\ UNCHANGED <<entry, nextGen, queued>>

MigratePiggybacks(to) ==
    /\ entry.state = "pending" /\ entry.members # {} /\ entry.intended = to
    /\ UNCHANGED <<entry, nextGen, queued>>

MigrateDrainsEmpty(old) ==
    /\ entry.state # "absent" /\ entry.members = {}
    /\ nextGen <= MaxGen /\ nextGen' = nextGen + 1
    /\ entry' = [MarkDraining EXCEPT !.gen = nextGen]
    /\ Spawn(DrainTask(nextGen, old))

MigrateStarts(old, to, release) ==
    /\ entry.state # "absent" /\ entry.members # {}
    /\ ~(entry.state = "pending" /\ entry.intended = to)
    /\ nextGen <= MaxGen /\ nextGen' = nextGen + 1
    /\ entry' = Pending(entry, to)
    /\ Spawn([Free EXCEPT !.pc = "queued", !.kind = "rebind", !.gen = nextGen,
                          !.to = to, !.toConn = conn[to], !.release = release,
                          !.old = old,
                          !.oldConn = IF old = None THEN 0 ELSE conn[old]])

Migrate(old, to, release) ==
    \/ NoMigration
    \/ MigratePiggybacks(to)
    \/ MigrateDrainsEmpty(old)
    \/ MigrateStarts(old, to, release)

\* The channels of a generation: the one its Pending state holds, and its drain's.
StartWait(g) == [gen |-> g, kinds |-> {"sub", "rebind"}]
DrainWait(g) == [gen |-> g, kinds |-> {"drain"}]

\* The transition a migrate that has just run awaits.
MigrateWait ==
    CASE entry'.state = "absent" -> NoWait
      [] entry'.state = "pending" -> StartWait(entry'.gen)
      [] OTHER -> DrainWait(entry'.gen)

Resolved(w) == \A t \in queued \cup {running} : ~(t.gen = w.gen /\ t.kind \in w.kinds)

-----------------------------------------------------------------------------
(* subscribe_resource, unsubscribe_resource and disconnects *)

\* Resolve the route and its upstream handle.
Resolve(c) ==
    /\ caller[c].pc = "idle"
    /\ route # None /\ conn[route] # 0
    /\ caller' = [caller EXCEPT ![c] = [NoCall EXCEPT !.pc = "join",
                      !.to = route, !.toConn = conn[route]]]
    /\ UNCHANGED <<registry, refresh, upstreams>>

\* registry.subscribe, under the guard of the entry.
StartSubscribe(c, base, displaced) ==
    LET to == caller[c].to IN
    /\ nextGen <= MaxGen /\ nextGen' = nextGen + 1
    /\ entry' = Pending([base EXCEPT !.members = @ \cup {c}], to)
    /\ Spawn([Free EXCEPT !.pc = "queued", !.kind = "sub", !.gen = nextGen,
                          !.to = to, !.toConn = caller[c].toConn,
                          !.displaced = displaced])
    /\ caller' = [caller EXCEPT ![c] = [NoCall EXCEPT !.pc = "wait", !.wait = StartWait(nextGen)]]

OwnerConnectionReplaced(c) ==
    /\ entry.owner = caller[c].to
    /\ entry.ownerConn # 0 /\ entry.ownerConn # caller[c].toConn

JoinVacant(c) == entry.state = "absent" /\ StartSubscribe(c, Absent, None)

JoinActive(c) ==
    /\ entry.state = "active" /\ ~OwnerConnectionReplaced(c)
    /\ entry' = [entry EXCEPT !.members = @ \cup {c}]
    /\ caller' = [caller EXCEPT ![c] = Looking]
    /\ UNCHANGED <<nextGen, queued>>

JoinDeadConnection(c) ==
    /\ entry.state = "active" /\ OwnerConnectionReplaced(c)
    /\ StartSubscribe(c, [entry EXCEPT !.owner = None, !.ownerConn = 0], None)

JoinPending(c) ==
    /\ entry.state = "pending"
    /\ entry' = [entry EXCEPT !.members = @ \cup {c}]
    /\ caller' = [caller EXCEPT ![c] = [NoCall EXCEPT !.pc = "wait", !.wait = StartWait(entry.gen)]]
    /\ UNCHANGED <<nextGen, queued>>

\* Mutant: the drain's work is forgotten.
JoinDrainingAnew(c) ==
    /\ entry.state = "draining"
    /\ StartSubscribe(c, Absent, None)

\* The drain will find its generation replaced; what it was to release is
\* handed to the new transition.
JoinDraining(c) ==
    /\ entry.state = "draining"
    /\ StartSubscribe(c, Absent, entry.prior)

Join(c) ==
    /\ caller[c].pc = "join"
    /\ \/ JoinVacant(c) \/ JoinActive(c) \/ JoinDeadConnection(c)
       \/ JoinPending(c) \/ JoinDraining(c)
    /\ UNCHANGED <<running, heals, refresh, upstreams>>

\* The self-check after the subscribe: rebind if the owner is not the route's.
LookDrifted(c) ==
    /\ caller[c].pc = "look"
    /\ entry.state # "absent" /\ entry.owner # None
    /\ route # None /\ entry.owner # route
    /\ Migrate(entry.owner, route, TRUE)
    /\ caller' = [caller EXCEPT ![c].pc = "heal", ![c].wait = MigrateWait]
    /\ UNCHANGED <<running, heals, refresh, upstreams>>

LookSettled(c) ==
    /\ caller[c].pc = "look"
    /\ entry.owner = None \/ route = None \/ entry.owner = route
    /\ caller' = [caller EXCEPT ![c] = NoCall]
    /\ UNCHANGED <<registry, refresh, upstreams>>

\* What is left of the call reads the entry and words the answer.
HealEnds(c) ==
    /\ caller[c].pc = "heal" /\ Resolved(caller[c].wait)
    /\ caller' = [caller EXCEPT ![c] = NoCall]
    /\ UNCHANGED <<registry, refresh, upstreams>>

\* unsubscribe_resource, or cleanup_subscriptions_for_target while a subscribe
\* of the same client may still be waiting.
Leave(c) ==
    /\ c \in entry.members /\ caller[c].pc \in {"idle", "wait", "heal"}
    /\ LeaveEntry(c)
    /\ UNCHANGED <<nextGen, running, heals, caller, refresh, upstreams>>

\* Mutant: transitions belong to the request and die with it.
DropCallAborts(c) ==
    /\ caller[c].pc \in {"wait", "heal"}
    /\ caller' = [caller EXCEPT ![c] = NoCall]
    /\ queued' = {t \in queued : ~(t.gen = caller[c].wait.gen /\ t.kind \in caller[c].wait.kinds)}
    /\ UNCHANGED <<entry, nextGen, running, heals, refresh, upstreams>>

\* The request's future is dropped; its transition goes on.
DropCall(c) ==
    /\ caller[c].pc \in {"wait", "heal"}
    /\ caller' = [caller EXCEPT ![c] = NoCall]
    /\ UNCHANGED <<registry, refresh, upstreams>>

-----------------------------------------------------------------------------
(* The transition tasks *)

Current == entry.state # "absent" /\ entry.gen = running.gen

\* Generations grow, and a drain is spawned after the transition it ends.
SpawnedBefore(t, u) ==
    t.gen < u.gen \/ (t.gen = u.gen /\ t.kind # "drain" /\ u.kind = "drain")

\* The transition lock goes to any waiter: detached tasks reach it in any
\* order, and one that was spawned earlier may come later.
Acquire ==
    /\ running = Free
    /\ \E t \in queued :
        /\ queued' = {[u EXCEPT !.late = @ \/ SpawnedBefore(u, t)] : u \in queued \ {t}}
        /\ running' = [t EXCEPT !.pc = "locked"]
    /\ UNCHANGED <<entry, nextGen, heals, caller, refresh, upstreams>>

\* The guard is dropped and the channel's sender goes away.
Finish == running' = Free

\* An entry of a later generation is another's.
RemoveIfCurrent == entry' = IF Current THEN Absent ELSE entry

\* tx.send: those who joined this generation go on.
Deliver(g, ok) ==
    LET told == {c \in Clients : caller[c].pc = "wait" /\ caller[c].wait = StartWait(g)} IN
    /\ caller' = [c \in Clients |->
           IF c \notin told THEN caller[c]
           ELSE IF ok THEN Looking ELSE NoCall]

\* An unsubscribe call is sent to s on connection h.
SendRelease(s, h) ==
    running' = [running EXCEPT !.pc = "release", !.callee = s, !.calleeConn = h]

\* ... and answered.  A connection that was replaced has nothing to say about
\* the one that replaced it.
Released(ok) ==
    LET s == running.callee
        live == conn[s] = running.calleeConn IN
    /\ held' = IF ok /\ live THEN held \ {s} ELSE held
    /\ stuck' = IF ~live THEN stuck ELSE IF ok THEN stuck \ {s} ELSE stuck \cup {s}
    /\ undone' = IF ok /\ live /\ running.late THEN undone \cup {s} ELSE undone
    /\ UNCHANGED <<conn, dials>>

\* drain_handle: the recorded owner's connection, else the caller's handle.
HandleServer == IF entry.owner # None THEN entry.owner ELSE running.old
HandleConn == IF entry.owner # None THEN conn[entry.owner] ELSE running.oldConn

\* run_subscribe_transition
SubDisplaces ==
    running.displaced \notin {None, running.to} /\ conn[running.displaced] # 0

SubReleases ==
    /\ running.kind = "sub" /\ running.pc = "locked" /\ SubDisplaces
    /\ SendRelease(running.displaced, conn[running.displaced])
    /\ UNCHANGED <<entry, nextGen, queued, heals, caller, refresh, upstreams>>

SubReleased(ok) ==
    /\ running.kind = "sub" /\ running.pc = "release"
    /\ Released(ok)
    /\ running' = [running EXCEPT !.pc = "released"]
    /\ UNCHANGED <<entry, nextGen, queued, heals, caller, refresh>>

SubReady ==
    /\ running.kind = "sub"
    /\ running.pc = "released" \/ (running.pc = "locked" /\ ~SubDisplaces)

SubSuperseded ==
    /\ SubReady /\ ~Current
    /\ Finish /\ Deliver(running.gen, FALSE)
    /\ stuck' = stuck \cup ({running.to} \cap held)
    /\ UNCHANGED <<entry, nextGen, queued, heals, refresh, conn, dials, held, undone>>

SubCalls ==
    /\ SubReady /\ Current
    /\ running' = [running EXCEPT !.pc = "call"]
    /\ UNCHANGED <<entry, nextGen, queued, heals, caller, refresh, upstreams>>

\* run_rebind_transition
RebindSuperseded ==
    /\ running.kind = "rebind" /\ running.pc = "locked" /\ ~Current
    /\ Finish /\ Deliver(running.gen, TRUE)
    /\ UNCHANGED <<entry, nextGen, queued, heals, refresh, upstreams>>

RebindReleases ==
    /\ running.kind = "rebind" /\ running.pc = "locked" /\ Current
    /\ running.release /\ HandleConn # 0
    /\ SendRelease(HandleServer, HandleConn)
    /\ UNCHANGED <<entry, nextGen, queued, heals, caller, refresh, upstreams>>

RebindReady ==
    /\ running.kind = "rebind"
    /\ \/ running.pc = "released"
       \/ running.pc = "locked" /\ Current /\ ~(running.release /\ HandleConn # 0)

\* A resubscribe releases no owner, wherever the entry has moved since.
Unreleased == IF running.release THEN {} ELSE {entry.owner} \cap held

RebindFails ==
    /\ RemoveIfCurrent
    /\ Finish /\ Deliver(running.gen, FALSE)

RebindReleased ==
    /\ running.kind = "rebind" /\ running.pc = "release"
    /\ Released(TRUE)
    /\ running' = [running EXCEPT !.pc = "released"]
    /\ UNCHANGED <<entry, nextGen, queued, heals, caller, refresh>>

RebindRefused ==
    /\ running.kind = "rebind" /\ running.pc = "release"
    /\ Released(FALSE)
    /\ RebindFails
    /\ UNCHANGED <<nextGen, queued, heals, refresh>>

RebindNoOwner ==
    /\ RebindReady /\ running.toConn = 0
    /\ RebindFails
    /\ stuck' = stuck \cup Unreleased
    /\ UNCHANGED <<nextGen, queued, heals, refresh, conn, dials, held, undone>>

RebindCalls ==
    /\ RebindReady /\ running.toConn # 0
    /\ running' = [running EXCEPT !.pc = "call"]
    /\ stuck' = stuck \cup (Unreleased \ {running.to})
    /\ UNCHANGED <<entry, nextGen, queued, heals, caller, refresh, conn, dials, held, undone>>

\* The subscribe call of either transition is answered.  The owner is recorded
\* even on an entry that has been marked Draining; only Pending becomes Active.
Confirm ==
    [entry EXCEPT !.owner = running.to, !.ownerConn = running.toConn,
                  !.state = IF @ = "pending" THEN "active" ELSE @,
                  !.intended = None]

CallSucceeds ==
    /\ running.pc = "call"
    /\ held' = IF conn[running.to] = running.toConn THEN held \cup {running.to} ELSE held
    /\ entry' = IF Current THEN Confirm ELSE entry
    /\ heals' = IF Current /\ running.kind = "sub" THEN heals \cup {running.to} ELSE heals
    /\ Finish /\ Deliver(running.gen, TRUE)
    /\ stuck' = IF Current /\ entry.state = "pending" THEN stuck
                ELSE stuck \cup ({running.to} \cap held')
    /\ undone' = undone \ held'
    /\ UNCHANGED <<nextGen, queued, refresh, conn, dials>>

CallFails ==
    /\ running.pc = "call"
    /\ RemoveIfCurrent
    /\ Finish /\ Deliver(running.gen, FALSE)
    /\ stuck' = stuck \cup ({running.to} \cap held)
    /\ UNCHANGED <<nextGen, queued, heals, refresh, conn, dials, held, undone>>

\* run_drain_transition
DrainReleases ==
    /\ running.kind = "drain" /\ running.pc = "locked" /\ Current /\ HandleConn # 0
    /\ SendRelease(HandleServer, HandleConn)
    /\ UNCHANGED <<entry, nextGen, queued, heals, caller, refresh, upstreams>>

DrainReleased(ok) ==
    /\ running.kind = "drain" /\ running.pc = "release"
    /\ Released(ok)
    /\ RemoveIfCurrent /\ Finish
    /\ UNCHANGED <<nextGen, queued, heals, caller, refresh>>

DrainNothing ==
    /\ running.kind = "drain" /\ running.pc = "locked"
    /\ ~Current \/ HandleConn = 0
    /\ RemoveIfCurrent /\ Finish
    /\ UNCHANGED <<nextGen, queued, heals, caller, refresh, upstreams>>

\* The post-confirm hook's task: rebind if the route is not the confirmed owner's.
HealRuns(s) ==
    /\ s \in heals
    /\ heals' = heals \ {s}
    /\ IF route \notin {None, s} THEN Migrate(s, route, TRUE)
                                 ELSE UNCHANGED <<entry, nextGen, queued>>
    /\ UNCHANGED <<running, caller, refresh, upstreams>>

-----------------------------------------------------------------------------
(* The refresh pass and its sweep *)

\* owner_connection_is_stale
OwnerConnectionIsStale(s) ==
    /\ entry.state = "active" /\ entry.owner = s /\ entry.ownerConn # 0
    /\ conn[s] # 0 /\ conn[s] # entry.ownerConn

\* classify_route_changes
Classification(oldRoute, newRoute) ==
    LET old == IF entry.owner # None THEN entry.owner ELSE oldRoute IN
    CASE entry.state = "absent" -> NoItem
      [] entry.state # "absent" /\ newRoute = None ->
            [kind |-> "prune", old |-> oldRoute, to |-> None]
      [] entry.state # "absent" /\ newRoute # None /\ old \notin {None, newRoute} ->
            [kind |-> "rebind", old |-> old, to |-> newRoute]
      [] OTHER ->
            IF OwnerConnectionIsStale(newRoute)
            THEN [kind |-> "resubscribe", old |-> None, to |-> newRoute] ELSE NoItem

\* A pass has built the new routes; it classifies before it touches anything.
Classify(new) ==
    /\ pass.pc = "idle" /\ passes < MaxPasses
    /\ passes' = passes + 1
    /\ pass' = [AtRest EXCEPT !.pc = "prune", !.new = new,
                              !.item = Classification(route, new)]
    /\ UNCHANGED <<registry, caller, route, sweep, upstreams>>

Prune ==
    /\ pass.pc = "prune"
    /\ IF pass.item.kind = "prune" /\ entry.state # "absent"
       THEN /\ entry' = MarkDraining
            /\ Spawn(DrainTask(entry.gen, pass.item.old))
            /\ pass' = [pass EXCEPT !.pc = "publish", !.wait = DrainWait(entry.gen)]
       ELSE /\ pass' = [pass EXCEPT !.pc = "publish"]
            /\ UNCHANGED <<entry, queued>>
    /\ UNCHANGED <<nextGen, running, heals, caller, route, sweep, passes, upstreams>>

Publish ==
    /\ pass.pc = "publish" /\ Resolved(pass.wait)
    /\ route' = pass.new
    /\ pass' = [pass EXCEPT !.pc = "rebind", !.wait = NoWait]
    /\ UNCHANGED <<registry, caller, sweep, passes, upstreams>>

\* rebind_reconciled_routes: rebind and resubscribe items, each awaited.
Reconcile(item) ==
    IF item.kind \in {"rebind", "resubscribe"}
    THEN Migrate(item.old, item.to, item.kind = "rebind")
    ELSE UNCHANGED <<entry, nextGen, queued>>

ReconcileWait(item) ==
    IF item.kind \in {"rebind", "resubscribe"} THEN MigrateWait ELSE NoWait

Rebind ==
    /\ pass.pc = "rebind"
    /\ Reconcile(pass.item)
    /\ pass' = [pass EXCEPT !.pc = "rebound", !.wait = ReconcileWait(pass.item)]
    /\ UNCHANGED <<running, heals, caller, route, sweep, passes, upstreams>>

\* The sweep is spawned detached and classifies against the published snapshot.
\* The pass awaits it, or is dropped there, which nothing can tell apart.
SweepClassify ==
    /\ pass.pc = "rebound" /\ Resolved(pass.wait) /\ sweep.pc = "idle"
    /\ sweep' = [AtRest EXCEPT !.pc = "rebind", !.item = Classification(route, route)]
    /\ pass' = AtRest
    /\ UNCHANGED <<registry, caller, route, passes, upstreams>>

SweepRebind ==
    /\ sweep.pc = "rebind"
    /\ Reconcile(sweep.item)
    /\ sweep' = [sweep EXCEPT !.pc = "rebound", !.wait = ReconcileWait(sweep.item)]
    /\ UNCHANGED <<running, heals, caller, route, pass, passes, upstreams>>

SweepEnds ==
    /\ sweep.pc = "rebound" /\ Resolved(sweep.wait)
    /\ sweep' = AtRest
    /\ UNCHANGED <<registry, caller, route, pass, passes, upstreams>>

\* The pass's future is dropped at an await; drains, rebinds and the sweep go on.
DropPass ==
    /\ pass.pc \in {"publish", "rebound"} /\ ~Resolved(pass.wait)
    /\ pass' = AtRest
    /\ UNCHANGED <<registry, caller, route, sweep, passes, upstreams>>

-----------------------------------------------------------------------------
(* Upstream connections: a subscription dies with its connection. *)

Connect(s) ==
    /\ dials < MaxDials
    /\ dials' = dials + 1
    /\ conn' = [conn EXCEPT ![s] = dials + 2]
    /\ held' = held \ {s} /\ stuck' = stuck \ {s}
    /\ undone' = undone \ {s}
    /\ UNCHANGED <<entry, nextGen, queued, running, heals, caller, refresh>>

Disconnect(s) ==
    /\ conn[s] # 0 /\ dials < MaxDials
    /\ dials' = dials + 1
    /\ conn' = [conn EXCEPT ![s] = 0]
    /\ held' = held \ {s} /\ stuck' = stuck \ {s}
    /\ undone' = undone \ {s}
    /\ UNCHANGED <<entry, nextGen, queued, running, heals, caller, refresh>>

-----------------------------------------------------------------------------
Transition ==
    \/ Acquire
    \/ SubReleases \/ SubSuperseded \/ SubCalls
    \/ RebindSuperseded \/ RebindReleases \/ RebindReleased \/ RebindRefused
    \/ RebindNoOwner \/ RebindCalls
    \/ CallSucceeds \/ CallFails
    \/ DrainReleases \/ DrainNothing
    \/ \E ok \in BOOLEAN : SubReleased(ok) \/ DrainReleased(ok)

Request(c) == Join(c) \/ LookDrifted(c) \/ LookSettled(c) \/ HealEnds(c)

PassStep == Prune \/ Publish \/ Rebind \/ SweepClassify
SweepStep == SweepRebind \/ SweepEnds

SubscriptionsNext ==
    \/ \E c \in Clients : Resolve(c) \/ Request(c) \/ Leave(c) \/ DropCall(c)
    \/ Transition
    \/ \E s \in Servers : HealRuns(s) \/ Connect(s) \/ Disconnect(s)
    \/ \E new \in Servers \cup {None} : Classify(new)
    \/ PassStep \/ SweepStep \/ DropPass

SubscriptionsSpec == SubscriptionsInit /\ [][SubscriptionsNext]_subscriptionVars

-----------------------------------------------------------------------------
(* Properties *)

MaybeServer == Servers \cup {None}
Gens == 0..MaxGen
Waits == [gen : Gens, kinds : {{}, {"sub", "rebind"}, {"drain"}}]
Items == [kind : {"none", "prune", "rebind", "resubscribe"},
          old : MaybeServer, to : MaybeServer]
Passes == [pc : {"idle", "prune", "publish", "rebind", "rebound"}, new : MaybeServer,
           item : Items, wait : Waits]
Transitions ==
    [pc : {"free", "queued", "locked", "release", "released", "call"},
     kind : {"none", "sub", "rebind", "drain"}, gen : Gens,
     to : MaybeServer, toConn : Nat, old : MaybeServer, oldConn : Nat,
     displaced : MaybeServer, release : BOOLEAN,
     late : BOOLEAN, callee : MaybeServer, calleeConn : Nat]

\* The types of the registry's and the router's state: an entry names an
\* intended owner exactly while it is Pending, and only Draining a prior one.
SubscriptionsTypeOK ==
    /\ entry \in [state : {"absent", "pending", "active", "draining"}, gen : Gens,
                  members : SUBSET Clients, intended : MaybeServer,
                  owner : MaybeServer, ownerConn : Nat, prior : MaybeServer]
    /\ (entry.intended # None) <=> (entry.state = "pending")
    /\ entry.prior # None => entry.state = "draining"
    /\ entry.state = "active" => entry.owner # None
    /\ nextGen \in 1..(MaxGen + 1)
    /\ queued \subseteq Transitions /\ running \in Transitions
    /\ heals \subseteq Servers
    /\ caller \in [Clients -> [pc : {"idle", "join", "wait", "look", "heal"},
                               to : MaybeServer, toConn : Nat, wait : Waits]]
    /\ route \in MaybeServer
    /\ pass \in Passes /\ sweep \in Passes /\ passes \in 0..MaxPasses
    /\ conn \in [Servers -> Nat] /\ dials \in 0..MaxDials
    /\ held \subseteq Servers /\ stuck \subseteq Servers
    /\ undone \subseteq Servers

\* What an entry says is true.  A member is guaranteed the outcome of the generation
\* it joined (the registry's documented invariant): a Pending entry has the task
\* that will confirm or remove it and a Draining one the drain that will remove it,
\* however callers leave, are dropped and passes prune and rebind.  One that is
\* Active on the connection its server has now is subscribed there: no drain,
\* displaced release or refused rebind leaves an entry that joins would share
\* although nothing sends updates for it, unless a transition releases its
\* displaced owner after a later one has subscribed there.
EntryIsBacked ==
    LET at_work(kinds) == \E t \in queued \cup {running} :
                              t.gen = entry.gen /\ t.kind \in kinds IN
    /\ SubscriptionsTypeOK
    /\ entry.state = "pending" => at_work({"sub", "rebind"})
    /\ entry.state = "draining" => at_work({"drain"})
    /\ entry.state = "active" /\ conn[entry.owner] = entry.ownerConn =>
          entry.owner \in held \cup undone

\* Subscriptions an upstream holds that no entry with a subscriber stands for.
Orphans ==
    {s \in held : ~(entry.state = "active" /\ entry.owner = s /\ entry.members # {})}

\* Nothing is at work on the resource.
Quiet == heals = {} /\ queued = {} /\ running = Free

\* A server keeps a subscription nobody stands for only when it refused a
\* call, confirmed one after the entry had been drained or given a new
\* generation, was to be taken over by a subscribe that was superseded before
\* it made its call, or owned the entry when a resubscribe moved it: whatever
\* else a join, a migration or a drain displaces is released
\* (owner_to_release, run_subscribe_transition).
OrphanedOnlyLate == Quiet => Orphans \subseteq stuck

-----------------------------------------------------------------------------
(* What a comment says and the code does not keep: TLC finds it violated     *)
(* with one client, three generations and two passes.                        *)

\* resubscribe releases no owner because "the subscription is gone, so there is
\* nothing to unsubscribe" (resubscribe, its comment).  It resolves its target from
\* a decision made before it waited: when the entry has moved in between, the owner
\* it replaces is another server, whose subscription is there and stays.
NothingToUnsubscribe ==
    \A t \in queued \cup {running} :
        t.kind = "rebind" /\ ~t.release /\ entry.state = "pending" /\ t.gen = entry.gen
            => entry.owner \notin held \ {t.to}

=============================================================================
