# A TLA+ verification of plug

plug is a multiplexer for the Model Context Protocol: a daemon connects to any
number of *upstream* MCP servers, merges their tools, resources and prompts into
one catalog and serves it to any number of *downstream* clients. The Rust crate
`plug-core` holds the engine; `plug` is the daemon and its command line;
`PlugApp` is a Mac application that talks to the daemon.

This directory models the parts in which several tasks, processes or requests move
the same state: catalog refresh, list-changed scheduling, the circuit breaker, the
life of an upstream server, resource subscriptions, the authorization server for
downstream clients, operator changes with the configuration file and stored keys,
HTTP sessions and their event streams, background tasks, calls in several rounds and
the daemon's client registry. TLC checks small instances; TLAPS proves the
safety properties of every one of these models for every value of the constants.

## 1. Inventory

| Component | State | Operations | Hard behaviour |
|---|---|---|---|
| Refresh coordinator (`proxy/mod.rs`, `refresh_tools`) | completed and running generation, trailing flag, a `Notify`; published snapshot; last-known-good listings and availability (`server/mod.rs`) | ask, lead a pass, wait, take over, cancel | at most one pass; waiters and lost wake-ups; cancelled leaders; stale reads |
| List-changed scheduler (`proxy/mod.rs`, `schedule_list_changed_refresh`) | five atomic flags | announce, claim, debounce, refresh, fan out, let go | lock-free hand-over between tasks; panics; timeouts |
| Circuit breaker (`circuit.rs`) | state, failure count, open time, probe semaphore | `call_allowed`, `on_success`, `on_failure`, `reset` | four atomics without a lock; calls that never report |
| Upstream lifecycle (`engine.rs`, `reload.rs`, `health.rs`, `server/mod.rs`) | config, upstream map, health entries, reconnecting slot, recovery flag, task generations | reload, restart, reconnect, token refresh, health tick, recovery | dials that outlive the config they were for; late probes; starts that must exclude each other; a server that must not be forgotten |
| Operator changes, watcher, keys (`engine.rs`, `operator.rs`, `watcher.rs`, `secrets/mod.rs`, `commands/`) | config file, config in memory, key store, watcher channel | change, reload, watch, save from the command line | load-then-lock; a key stored before its change is refused; another process rewriting the file; crashes |
| Resource subscriptions (`proxy/subscriptions.rs`) | one entry per resource: members, state, generation, owner | subscribe, unsubscribe, prune, migrate, drain, heal | an upstream call in flight while the last subscriber leaves, the route moves or the connection is replaced |
| Downstream OAuth (`downstream_oauth/`) | clients, consents, codes, tokens; state file; lifecycles and leases in memory | register, authorize, approve, exchange, rotate, revoke, validate | one-use records against failing or uncertain saves and restarts; revocation during a fetch |
| HTTP sessions (`session/`, `http/`) | sessions, closed ids, expiry channel; what the daemon holds under a session's id | initialize, use, stream, delete, expire, evict, reopen, tear down | expiry against use; teardown against reopening; two-phase sends; replay |
| Tool calls (`proxy/mod.rs`, `proxy/handler.rs`) | active calls, semaphores, metrics | route, call, retry, cancel | double execution; a connection that changes while a call waits |
| Tasks (`proxy/tasks.rs`, `tasks.rs`) | task records, create guards and tombstones, futures | create, run, poll, cancel, expire, tear down | creates against teardown; late answers; a lost connection with the call already run |
| Continuations (`proxy/continuations.rs`, `proxy/mod.rs`) | parked rounds, owners' ledger, generations | reserve, park, consume, expire, revoke, publish | one-use tokens; routes, connection and sign-in that change between a check and its use |
| Daemon, IPC and proxy (`plug/src/daemon`, `ipc_proxy.rs`, `runtime.rs`) | registered clients, mappings, a count channel, grace timer | register, dispatch, deregister, shut down, reconnect | connections of one client that replace each other; a wake-up taken for another |
| Events (`events/`, `slack_events/`) | watches, deliveries | open, deliver, acknowledge | duplicates and gaps |
| Catalog building, OpenAPI, import/export, doctor, CLI, app | none that is shared | pure conversions and I/O | none that a model checker reaches better than a test |

How they interact. Upstream notification handlers call the list-changed
scheduler; the scheduler, reloads, commits of a reconnect and the refresh loop
call `refresh_tools`. A refresh pass classifies subscriptions against the routes it
is about to publish, prunes before and rebinds after publishing. Tool calls ask the
breaker for admission and, when they lose their session, call
`Engine::reconnect_server`; health tasks start recoveries, which call it too.
Reloads and operator changes hold `reload_lock`; commits take it. The session store
reports the ids it drops over a channel to one listener, which tears down
subscriptions, bridge and tasks; sessions are bound to a sign-in of the OAuth
manager and end with it. A teardown also ends the owner's tasks and continuations; a
publication of routes ends the continuations of the routes it replaces. The client
registry is what a task create asks whether its owner is still there.

What makes each correct: passes do not overlap and a caller gets a catalog as
new as its call; every announced change is refreshed and fanned out; the breaker
neither leaks permits nor gets stuck; the installed connection is the configured
one, starts exclude each other, and a server that is down keeps being retried; an
active subscription is really held upstream and one nobody wants is released; what
was spent is never current again and what was revoked stays out, across failures and restarts; memory follows the
file and a reference finds the key last accepted; a session in use stays, one that
goes leaves nothing behind, and its client misses no event without a reason; no task
outlives its owner and each run at a server has someone to stop it; a parked round is
resumed once, by its owner, where it was parked; the daemon counts its clients right
and stops when nobody is left.

## 2. Modules

| Module | Models |
|---|---|
| `RefreshContract` | abstract: what `refresh_tools` promises its callers |
| `CatalogRefresh` | the coordinator, its waiters and `refresh_tools_once`; shown to implement `RefreshContract` |
| `ListChanged` | the list-changed scheduler, using `RefreshContract` for the refresh it awaits |
| `CircuitBreaker` | the breaker at the level of its atomics, and the calls around it |
| `UpstreamLifecycle` | one upstream server under reload, restart, reconnect, token refresh, health checks and recovery |
| `Subscriptions` | the subscription registry for one resource, with the refresh pass, sweep and heals that move it |
| `DownstreamOAuth` | the authorization server: registrations, sign-ins, codes, token families, revocation, saves and restarts |
| `OperatorConfig` | operator changes, reloads, the file watcher and the command line over one configuration file and the key store |
| `SseDelivery` | what one client is told over its event streams |
| `SessionLifecycle` | the session store, requests against it and the teardown of what hangs on a session |
| `Tasks` | background tool calls of one owner: creation, the futures, requests about them, teardown |
| `Continuations` | calls in several rounds, the registry that parks them, and the resend of ordinary calls |
| `DaemonClients` | the daemon's client registry, its connections and the grace task |
| `CatalogRefreshProofs` | the inductive invariant and the theorems of `CatalogRefresh` |
| `UpstreamLifecycleProofs` | those of `UpstreamLifecycle` and `CircuitBreaker` |
| `RoutingProofs` | those of `ListChanged` and `Subscriptions` |
| `SessionLifecycleProofs` | those of `SessionLifecycle` and `DaemonClients` |
| `SseDeliveryProofs`, `TasksProofs`, `ContinuationsProofs` | those of the module they are named after |
| `StoredStateProofs` | those of `DownstreamOAuth` and `OperatorConfig` |
| `MC...` | finite sets and symmetries for TLC |

In every module an action is what the code does between two awaits, or under one
lock, or in one atomic instruction where there is no lock. Operators whose comment
begins with "Mutant:" are deliberate bugs. They are not part of any specification;
each shows that a property would notice the bug. Variables marked "history" are read by
properties only. Of two models that share a module of proofs, the second has its own
prefix on the names both would use (`Breaker`, `Subscriptions`, `Registry`, `Config`).

### CatalogRefresh

`coord` is `RefreshCoordinatorState`; `pc[c]` is where caller `c`'s future is:
`read`, `prune`, `sweep` are the awaits of `refresh_tools_once`, `notify` is the
gap between releasing the mutex and `notify_waiters`, `arm`, `check`, `park` are
the waiter's loop. `Ask`, `Complete` and `Check*` are the three critical sections.
Catalogs are version numbers: a listing reads the version of its moment, or the
last-known-good one if the upstream does not answer. (A pass finds the tools in the
copy that the notification handler keeps, the other families at the upstream; the version
is of the lists as a pass finds them.) The upstream is routable
throughout (one that is not is `Absent`, whatever its listings did). `CancelLeader`
and `CancelWaiter` drop a future at an await, as the scheduler's backstop does.

### ListChanged

One action per atomic instruction; handlers and tasks interleave freely. The handler of
resources and prompts schedules at once (`Announce`). The one of tools, the kinds in
`Relisted`, lists them first (`AskForList`): it stores the list and schedules
(`StoreList`), or the listing fails or times out and nothing is scheduled
(`ListingFails`). `cut[k]` is the latest change of a kind that such a failure, or a
refresh that was cut short, may have left out. `task[t]` walks the loop `clear, debounce, refresh, swap, release, recheck, reclaim`;
`Holding` is where it owns the in-progress flag.

### CircuitBreaker

`openAge` stands for `open_since_nanos` and the clock: how long ago it was stored,
up to `open_duration`. The drain of the semaphore is `DrainTries` and `DrainGivesBack`:
`while self.probe_semaphore.try_acquire().is_ok() {}` drops each permit in the same turn,
which returns it, so the loop ends only when it finds the semaphore empty, and a permit
in its hand (`Givers`) is hidden from others for a moment. The failure count stops at the threshold, past which it
tells nothing more. `EndUnreported` covers the ends of a call in which `finish` is
given no outcome for the breaker, and callers that go away.

### UpstreamLifecycle

`config` is the server's entry in the configuration; two configurations are
different if `server_config_changed` says so. `reload` is the reload that holds
`reload_lock`: `stop`, `forget`, `start`, `store`, `spawn`. `starter[s]` is one
`restart_server`, tool call, refresh loop or recovery task; `SlotPcs` are the steps
in which it owns the `reconnecting` flag. `task[t]` is a health task; a new
one takes the first free slot, slots being interchangeable. `late` records
that a probe's or a refresh's result was written for a connection a reload had
ended; `readded` that a removed server was configured again, which restarts its
task generations at 1.

Abstracted: an open circuit is a free choice for a server that is connected, and
supervision's backoff is assumed to have elapsed (so it restarts at least as often
as the code); the protocol gate and changed health intervals are left out; the
refresh loop is there whenever the server is on; the catalog refresh that ends a
reload and follows a commit is `CatalogRefresh`'s subject.

### Subscriptions

`entry` is the registry's `Entry` for one resource (nothing is shared between two):
`pending`, `active` or `draining`, with generation, members, intended, recorded and
prior owner. The upstream calls are made by detached tasks in `queued`, one at a
time under the transition lock (`running`). tokio gives no order between spawned
tasks, so any of them may get the lock next; `late` on a task records that a later
one got it first. `conn[s]` numbers the connections of a server: a subscription dies
with its connection (`held`). `pass` and `sweep` are the refresh pass around the
publication of new routes and its detached sweep; either can be dropped at an await
(`DropPass`). Callers can be dropped (`DropCall`), and leave while they still wait.

### DownstreamOAuth

Every handler changes a copy of the state under one mutex and commits it: `live` is
the state in memory and in the file, `disk` what a power loss would leave. A commit
may fail, or rename the file and fail to sync its directory (`degraded`); every
operation first tries to settle that. `life` is `principal_lifecycles`, `leases` what
admitted work holds. Requests that fetch a client's metadata document are two
critical sections apart (`req`). Lifetimes end at any moment (`past`). Consent, code
and token family share the number of their flow; a pair is an access and a refresh
token. Signatures, PKCE, URLs and pages are not modelled.

### OperatorConfig

`file` is `config.toml` (or `Torn` while the command line is writing it), `mem` what
the engine runs with, `store` the key store. `job` is the holder of `reload_lock` and
`queue` its waiters in order (tokio's mutex is fair). A change goes through `stage`,
`read`, `persist`, `load`, `apply`, `forget`, or `refused` and `undo`; a reload brings
the configuration it loaded *before* it waited. The watcher has a debouncer
(`dirty`), a bounded channel shared with other files of the directory, and takes one
event at a time. The command line is another process without a lock. A crash loses
everything but file, store and the command line's own progress. A server is
abstracted to its credential: a key reference, typed text or none; `misc` stands for
all other settings.

### SseDelivery

`sess` is one `SessionState` with its two queues, `conn` the client's latest stream
with its channel. A targeted send is two actions, `SendTargeted` and `SendAgain`,
because the code takes the session's lock twice; `flight` is what lies between. The
client has one stream at a time, reads events in order, remembers the last id, and may
break off before the server notices. Losing and reopening the session starts its
numbers over.

### SessionLifecycle

`store` is the session map with an age of three steps (used within a minute, quiet,
past the timeout). `held[s]` is what the daemon keeps under the id, in the three parts
`teardown_session` releases with awaits between them. Requests go `admit` (with
`evict` while `make_room` is between its look and its removal), `bind`, `wire`,
`validate`, `effect`; where `validate` finds the session expired or its sign-in over, the
request lets go of the entry and drops the session in a step of its own (`expire` looks
again, `end` does not). A session is bound to the sign-in of its time (`lease`), and a
client whose sign-in is over may sign in again. `ending` are the other calls of `end` that have chosen
their session: a send that found its sign-in over, and `end_sessions_of`, which an
operator's removal of the client calls whether it succeeded or not. A DELETE goes `remove`, `record`, then the teardown. The
expiry listener runs one teardown at a time. `stray` records what no teardown will
find: put there by a request that had validated its session before it went, left by
a DELETE whose client hung up, or by a reopening that failed. Requests come from the
session's own client (`session_is_the_callers`).

### Tasks

`owner` is an HTTP session or an IPC client, which may register again under its id
(`owner.kind`, chosen at the start); the client of either may hang up on a request;
`down[l]` is the teardown after its `l`-th life: it looks, drains the records and then
stops what it drained. `torn` is the tombstone of `OwnerLifecycleState`. `call[c]`
walks `enqueue_tool_task`: guard, probe of the owner, record; then either a future of
plug's own (`exec[c]`: send, record the request, wait, perhaps reconnect and replay) or
a native task at the server with its deadline and reaper. `op` is a request about a
task: cancel marks the record under the lock and tells the server after it; the two
that ask the server apply the answer later. `run[<<c, n>>]` is the `n`-th copy of a call as
the server sees it; a connection may drop before the server had it, with it running, or
with its answer under way. Under a native create that leaves nobody who knows the task
(`NativeLost`), which `excused` records. A server that is told to cancel may do so, or may not have heard:
`Tell` is the attempt.

Abstracted: quotas, results and progress; tasks that a principal owns; the id that a
request has on its connection. The last matters once: `TaskUpstreamRef::Request` keeps
a number that is only unique per connection, so a cancel sent after a reconnect may name
another request. Sending and replaying a local task has no deadline of its own in the
code, so the model assumes none.

### Continuations

`call[c]` walks `call_tool_round_with_context`: capture the route with the registry's
generation, look at the sign-in, `reserve` (purge and lease, then both mutexes) or
`consume` and `resume`; then `call_tool_inner`: the look at a closed connection, the
wait for a permit, the lookup of the connection (`Fetch`), the comparison with the captured
route (`Check`), and the transport's post of the call (`Send`, or `SendRetired` on a
connection replaced meanwhile); and if the server asks, the look at the sign-in, at the route, at the
connection, and `park`. Each is a step of its own because routes, connection and
sign-in change under other locks or none. `owners` is the ledger whose generations
revocation advances and which forgets an owner with its last reservation. `up` has an
identity (the `Arc`) and a generation. The transport can take a new session under the same
object at any time (`SessionReplaced`, which counts `conns`); the generation follows when
`observe_session` sees the new id on a message (`SessionSeen`, `Send`), which is as late as
the post of the very call that was checked. A token is its nonce and the binding sealed
into it. A call that begins with `StartPlain` is an ordinary one: no route to keep, and
the only kind that may be sent again.

Abstracted: the end of a chain and answers that do not match are a refusal at any time;
the server is a modern one; the tool is not one that is safe to repeat; owners without a
sign-in (local clients) differ only in having no sign-in to look at. Their teardown
waits for the connection's own requests. A revoked client does not sign in again within
a behaviour. Dropping revoked entries after the mutexes are
released is one step with the revocation: until then they only hold quota.

### DaemonClients

`conn[k]` is one `handle_ipc_connection` at an operation of the registry: the map of
clients, the map of sessions and the count channel are three structures without a
common lock, so registration and deregistration are three to five actions each. The
cleanup of a replaced session awaits before the connection knows its own session
(`RegisterCleansOld`, then `RegisterWires`); the loop that runs it can be left there when
one of its writes fails (`RegisterDropped`), and the end of the connection then has nothing to deregister.
`count` is the watch channel with its version, `grace` the grace task with the version
it has seen; `changed()` marks and the read of the value is a step after it. A second
`Register` on one connection is left out: the connector registers once per connection
(a second one would leave the first session's bridge behind).

## 3. Runs

| Run | Bounds | Shows | States |
|---|---|---|---|
| `refresh` | two callers, four calls, two families, one catalog change; fairness | `TypeOK`, `OnePassAtATime`, `AvailabilityMatchesSnapshot`, `SomeoneWillNotify`, `EveryCallEnds`, and `KeepsContract` (refinement of `RefreshContract`) | 0.35 M |
| `list_changed` | two handlers, two tasks, two kinds, of which one is listed before it is scheduled, two changes, one timeout, one abnormal exit; fairness | `FlagMeansOneWorker`, `LostOnlyByTheft`, `ChangeReachesCatalog`, `AnnouncementIsFannedOut` | 0.08 M |
| `breaker` | two calls, threshold 2, two probes, two resets; fairness | `PermitsDoNotAccumulate`, `OpenIsTimed`, `HalfOpenEnds` | 0.2 M |
| `lifecycle` | two enabled configurations, one disabled, absent; one reload that stops the server; an operator, a tool call, the refresh loop, the recovery, two health tasks; fairness | `TypeOK`, `OneStartAtATime`, `InstalledIsConfigured`, `DownIsWatched`, `RemovedIsForgotten`, `OneCurrentHealthTask`, `DownIsRetried` | 0.8 M |
| `subscriptions` | two clients, two servers, two generations, one refresh pass, one connection made or lost | `EntryIsBacked`, `OrphanedOnlyLate` | 3.6 M |
| `downstream_oauth` | a self-registered and a metadata client, one flow, three token pairs, one access token per client, one failing save | `SpentStaysSpent`, `RevokedStaysOut`, `AdmissionIsExact` | 2.7 M |
| `operator_config` | a server and its account copy, two keys to type, channel of one; two changes, one reload, one command-line save, one failure or crash, three of these in all; fairness | `KeyIsAccepted`, `MemoryFollowsFile` | 2.6 M |
| `sse_delivery` | pending 2, replay 3, channel 1; four events, three streams, one loss of the session | `LostOnlyInRace`, `NothingStranded` | 6.2 M |
| `session_lifecycle` | two sessions for one place, two requests at a time, three in all, one closed id kept, one sign-in that ends and comes again, one `end` under way at a time | `NothingLeftBehind`, `KeptWhileUsed` | 4.1 M |
| `tasks` | an HTTP session, or a client that comes back once; one call after another; two requests about it at a time, three in all; fairness | `NothingOutlivesOwner`, `Answerable`, `EndedKeepsResult`, `CreateEnds` | 0.3 M |
| `continuations` | one client that may be revoked, two calls, two rounds, quota 2, one token, two connections or sessions, one invalidation | `LedgerIsExact`, `ParkedIsValid`, `SentOnceWhereAsked` | 3.3 M |
| `daemon_clients` | two connections, of one client or of two, and HTTP sessions; fairness | `RegistryIsCurrent`, `StopsUnlessMissed` | 0.09 M |

Every run also checks its module's type invariant, which includes the limits of
queues, permits and sessions: `refresh` and `lifecycle` by name, the others as the
first conjunct of their first invariant.

Why the bounds are enough to be interesting. With four calls over two callers a
cancelled leader asks again while its waiter takes over, and a trailing generation is
waited for; the proofs cover any number of callers. Two tasks are a worker and one
that has let go and not yet looked again, which is what the hand-over is about; of two
changes the second is announced while the first is refreshed, or after its listing failed. Two
calls in the breaker are a winner and a loser of each compare-exchange, and two resets
overlap both. One stopping reload is what it takes for every dial, probe and token
exchange that was under way to come back to another configuration. It takes a second
one to remove a server and add it again while an old task lives: the proofs cover any
number, and the invariants also hold with `MaxReloads = 2` (11.9 M states without
fairness); `DownIsRetried` has been checked with one. Two generations of a
subscription are a transition and the one that supersedes it. Three token pairs are an
exchange, a rotation and a replay of the spent token against its successor. In
`operator_config` three events are enough for a reload that loaded the file before a
change and a save that crosses both; a channel of one overflows. In `sse_delivery`
every queue overflows and a reconnect replays into a channel that is too small. In
`session_lifecycle` one place makes every second session an eviction, and one sign-in that
comes again is what it takes for an `end` to meet another session than it looked at. In `tasks` a
cancel, a poll and a teardown meet one call at every step. In `continuations` the
second connection replaces the one a round was parked on, or its session, and two
calls present one token. Two connections of a client are one that replaces the other
while it closes.

`CHECK_DEADLOCK FALSE` is said where the system may stop: when the bounded number
of calls, changes or reloads is used up and nobody is waiting. `breaker` checks for
deadlock.

### Fairness

`CatalogRefresh`: weak fairness of each caller's own steps. A pass always moves on
because every listing is bounded by `call_timeout_secs`, and tokio polls a woken
task. `ListChanged`: of each handler, whose listing is bounded by `list_timeout`, each task, and of the publication a task
awaits, which is what `EveryCallEnds` shows of the coordinator. `CircuitBreaker`:
of the clock and of each call's steps; calls are bounded by their timeout, and the
property is about a breaker that is used. `UpstreamLifecycle`: of the reload, of
the recovery with its own dial, of each other starter, and of the health tasks taken
together; dials are bounded by `timeout_secs` and a health interval elapses.
`OperatorConfig`: of the holder of the lock, of debouncer and watcher, of a file write that has begun, and of the restart of
a daemon that crashed (a service manager keeps it running). `Tasks`: of a create's own
steps, which end in a bounded time because the native call has a deadline; not of what
the server answers. `DaemonClients`: of the grace task and of registrations and
deregistrations that have begun. `Continuations` states safety only. Nothing is assumed about
operators, the command line starting, catalog changes, cancellations, tokens or what
a dial, a probe or a store answers.

## 4. What the code does not keep

The following say what a comment, a test or the changelog says. They stand at the end of
their modules and are not part of a run, because the code does not keep them: TLC finds
each violated under its module's configuration (`RefusalIsBounded` with two calls,
`NothingToUnsubscribe` with one client, three generations and two passes).

* **`OffStaysOff`** (`UpstreamLifecycle`). `do_reconnect` never looks at `enabled`. A
  call that was in flight when a reload turned the server off loses its session *because*
  of the reload and reconnects in the background; the configuration it compares with is
  the disabled one, so the commit installs it. A refresh loop that looked at `enabled`
  before its token exchange does the same. reload.rs says such a server "stays stopped".
* **`DrainEnds`** (`CircuitBreaker`). "Drain leftover permits from previous half-open
  cycle": the loop takes a permit and drops it, which gives it back. A winner of a half-open
  transition that finds a permit left over keeps a runtime thread busy until other calls have
  used up every permit, and the circuit, half-open meanwhile, gets no new ones.
* **`RevokedHaveEnded`** (`SessionLifecycle`). An operator's removal of a client whose
  earlier save is still in doubt fails at `ensure_durable`, before the grant is touched; the
  caller then ends its sessions all the same, because "The grant stopped working before the
  save was tried". The sign-in holds, and a session in use is gone.
* **`EndsWhatItChecked`** (`SessionLifecycle`). `remove_if_expired` looks again under the lock,
  because checking and removing in two steps cost a client its session. `end` still does
  both in two steps: a request or send that found the sign-in over can take the
  session that the client has opened since, with its new sign-in.
* **`ReopenedStaysWired`** (`SessionLifecycle`). The expiry listener tears a session down
  by its id, whenever it gets to it. A client that opens its expired session again first,
  under the same id, then loses the bridge, subscriptions and tasks of the session it is
  using. The comment at `remove_if_expired` describes exactly this as the harm its
  recheck prevents.
* **`NothingToUnsubscribe`** (`Subscriptions`). `resubscribe` does not release the owner it
  replaces, because the connection that held the subscription is gone. The refresh pass's
  detached sweep decides on it and executes it later. If a heal has moved the entry to
  another server in between, it moves the entry back, and the other server keeps a
  subscription that nobody releases. This takes 22 steps, which the run's bounds do not
  allow; the attempt to prove `OrphanedOnlyLate` led to it.
* **`NotSentTwice`** (`Tasks`). A local task whose connection drops is sent again after a
  reconnect whatever the error was and whatever the tool; `call_tool_inner` stopped doing
  this for synchronous calls (`SentOnceWhereAsked` of `Continuations`), and the changelog
  says a call is no longer sent twice.
* **`TerminalIsFinal`** (`Tasks`). A result that was on its way when its task was
  cancelled makes the cancelled task completed.
* **`ReturningClientKeepsTasks`** (`Tasks`). The teardown of a client's last connection
  decides that the client is gone, and then takes the records of whatever it has under
  its id, also those made after it came back.
* **`RefusalIsBounded`** (`Tasks`). The tombstone stays as long as any create is in
  flight: a client that came back and keeps overlapping creates is refused for ever.
* **`OwnReconnectIsNoRefusal`** (`Continuations`). A round compares itself with the
  connection it captured, after `call_tool_inner` has replaced a closed one: the first
  call of a modern client to a server whose process has exited is refused as an expired
  continuation.
* **`AnswersWhereAsked`** (`Continuations`). The route of a resumed round is compared once,
  "against the connection that will actually receive the resumed call". The transport posts
  the call later and may have taken a new session by then, and even a session replaced
  before the comparison passes it, as the generation follows only with a message that
  carries the new id. The answers then go to a session that never asked.
* **`DisconnectedIsDeregistered`** (`DaemonClients`). "Auto-deregister on disconnect (clean or
  crash)" goes by the session the connection knows. One whose registration was dropped at an
  await, while it cleaned up the session it replaced, knows none: the client stays counted
  and mapped until it comes back, and the daemon stays up.
* **`IdleStops`** (`DaemonClients`). The grace task goes back to waiting for a change on
  any change during its countdown, also one that leaves the count at zero. A client that
  registers and leaves quickly strands the daemon.
* **`OneSessionPerClient`, `LiveIsMapped`** (`DaemonClients`). Registration and
  deregistration work on two maps in separate operations. Two overlapping registrations
  of a client leave both sessions; a deregistration that has looked at the mapping
  removes its successor's.

The passing properties name more races by an exception. Each exception is a
behaviour of the code that TLC finds when the exception is taken out:

* `OpenIsTimed`: a failure between closing the circuit and clearing its open time
  leaves it open until a reset. `HalfOpenEnds` speaks of probes that report:
  `probe_count` probes that time out report nothing, and the circuit stays half-open,
  refusing every call, until the connection is replaced. It also leaves out the time in
  which a winner is caught in its drain (`DrainEnds`).
* `ChangeReachesCatalog`: a listing of tools that fails or times out, a refresh cut short by
  the backstop, a task that dies and a stolen flag leave out what had been announced by then
  (`cut`), and nothing tries again until the next announcement. Each excuses only changes
  up to its own moment.
* `KeptWhileUsed`: an `end` for an operator's removal, and one that looked at an earlier
  session of the id, take whatever is there (`EndsAnother`; `RevokedHaveEnded`,
  `EndsWhatItChecked`).
* `RegistryIsCurrent`: see `DisconnectedIsDeregistered`.
* `SentOnceWhereAsked`: answers go on another session that plug had not noticed when it
  checked (`AnswersWhereAsked`).
* `SpentStaysSpent` says that a rotated refresh token is never the current one again. Within
  the leeway for a client that races itself the code answers a spent token with a new pair
  (`ReuseRefreshToken`), and later ends its family.
* `LostOnlyByTheft`: the pending flag of an announcement is taken by a task that had
  already let go. Also, a change announced *during* a refresh has its kind flag taken
  by the fan-out after that refresh; the pass that brings it in finds no flag, so
  `AnnouncementIsFannedOut` says the announcement is fanned out, not that the catalog
  has the change by then.
* `DownIsWatched`, `DownIsRetried`: a probe answered after a reload stopped its
  connection turns the `Failed` of a failed replacement into `Degraded` with no
  failures and no upstream, which no tick recovers (`late`).
* `EntryIsBacked`: a subscribe releases the owner it displaced without looking at its
  generation, so one that was overtaken on the way to the lock can release what a
  later one has just subscribed (`undone`).
* `OrphanedOnlyLate`: a server that confirms a subscribe after its entry was drained
  or re-marked keeps it (`stuck`): a drain that is marked again forgets the intended
  owner of a subscribe in flight. So does the owner a subscribe was to take over when
  the subscribe is superseded before its call, and the one a resubscribe passes over
  (`NothingToUnsubscribe`).
* `AdmissionIsExact`: a lapsed metadata client that signs in through a save whose
  directory sync stayed uncertain keeps an inactive lifecycle until a restart (`shut`).
* `KeyIsAccepted`: a crash between storing a key and saving the file, and the command
  line saving a file it read before a change, leave a reference to another key
  (`spoiled`, `crossed`). `forget` looks only at the key of the server as memory had
  it, so a key can also outlive its last reference; nothing refers to it then.
* `MemoryFollowsFile`: a write between start-up's load and the armed watch, or one
  whose event the full channel dropped, is not seen (`missed`).
* `LostOnlyInRace`: a send overtaken between its two halves by a reconnect with a
  Last-Event-Id, or by a later event, can be delivered out of order and skipped
  (`raced`). A stream's first event is always numbered 0 (`sse.rs`), so a client that
  breaks off right after it is sent events again that it had read; the property is
  about loss, not repetition. When the session is lost and opened again between the
  halves, the second half puts an event of the old numbering into the new queues, and
  every comparison of ids after it may be wrong (`mixed`).
* `NothingLeftBehind`: see `stray` above.
* `Answerable`: a run at the server is let go (`excused`) when the reaper of a timed-out
  create gives up, when the connection is lost under a native create after the server has
  made the task, when the client of a cancel, over HTTP or IPC, hangs up between the mark and the
  message to the server, and when a future is aborted between its guard and its replay
  or after a resend.
* `StopsUnlessMissed`: see `IdleStops`.

## 5. Proofs

`CatalogRefreshProofs`, for any callers, families, calls and changes:

* `RefreshTypes`, `PassesExclude`, `AvailabilityTruthful`, `WaitersHaveNotifier`:
  the invariants of `refresh`;
* `RefreshKeepsContract`: `Spec => KeepsContract`, the refinement.

The invariant `IInv` adds to the types: `CoordInv`, the running generation is
`completed + 1` and exactly one caller leads it (`OnePassAtATime` alone does not
survive a hand-over); `AvailInv`, a pass past its listings has read every family and
its availability stands; `VersionInv`, published versions are behind the caches and
a pass's reads are not behind what is published, hence snapshots never go back even
when a listing is carried forward; `TargetInv`, an open call waits for the next
generation, or the one after with the trailing flag set; `FreshInv`, what a pass has
read is as new as every call whose generation it is, which makes a return fresh.
Each part is preserved by each action; a step then maps to `Ask`, `Publish`,
`Return`, `Cancel`, `Change` or a stutter of the contract. The only assumption is
`ConstantsAssumption`: `Tools` is a family and the bounds are numbers.

`UpstreamLifecycleProofs`, for any configurations, operators, calls, health tasks,
thresholds and number of reloads: `LifecycleTypes`, `StartsExclude`,
`InstalledConfig`, `DownServersWatched`, `RemovedForgotten`, `HealthTasksSupersede`.
`LifecycleInv` adds: `InstallInv`, what may be installed at each step of a reload
(the property only speaks of the time between reloads); `ProbeInv`, a probe that has
seen no reload finds its connection installed, so only a late one can rewrite the
health of a server that is down; `FailedInv` and `ForgottenInv`, what a reload has
recorded by the time it stores the configuration; `GenInv`, no task is ahead of the
current generation until a removed server comes back. The assumption is
`LifecycleAssumption`: the actors are different, there is a health task slot,
`DegradeAt` is positive and below `FailAt`. `ServerSteps` and `StartSteps` say which actions touch which variables, so
that each part is argued only about the actions that matter to it.

`UpstreamLifecycleProofs`, the breaker, for any finite set of calls, thresholds and number of resets:
`PermitsBounded`, `OpenTimed`. `BreakerInv` adds `PermitInv`: the permits in the
semaphore, those in the hands of drain loops and those the winners of half-open
transitions are about to add are together one set per call at most (the semaphore alone
says nothing while a winner is between its drain and its add, and another's drain can
hide a permit from the look that ends it); and `ClockInv`: outside the window `raced` stands for,
whoever clears the open time does so while the circuit is not open.

`RoutingProofs`, list-changed scheduling, for any kinds, handlers, tasks, changes, timeouts and aborts:
`OneWorker`, `OnlyTheftLoses`. `SchedulerInv` adds `OwnedInv`: as long as no task died
and no flag was stolen, for every kind that is flagged somebody will still come to it
(`Cared`): a handler yet to set the pending flag, someone attentive to it once it is set,
a task whose loop is yet to reach the kind, or a task about to claim with no worker to
lose to. The property only excludes that everyone has gone home. The assumption says
that the worker's order of kinds names every kind.

`RoutingProofs`, subscriptions, for any clients and servers and any number of generations,
passes and connections: `EntriesAreBacked`, `OrphansAreLate`. `RegistryInv` has, beside the
types: `GenInv`, no transition is ahead of the entry; `OneStart`, a generation has one
transition that subscribes, which a pending entry therefore waits for; `LateInv`,
whoever is passed on the way to the lock is late, and once an entry is active all that is
left has been passed, so only a late one can undo what it stands for (`BackedInv`); and
`CoverInv`, the heart of it: every
subscription held upstream belongs to the recorded owner, or is what some transition will
take over or release, or is `stuck`. `OrphanedOnlyLate` speaks of a quiet registry only; in
all other states the transitions under way have to be accounted for. The proof corrected
the model: `stuck` used to leave out the owner of a superseded subscribe and the one a
resubscribe passes over, and TLC's bounds were too small to show that. The assumption
is `SubscriptionsAssumption`: the mark for "no server" is no server, the bounds are numbers.

`SessionLifecycleProofs`, sessions, for any ids, requests and limits: `HeldIsReleased` and
`UsedIsKept`, an action property. `SessionInv` is the types with `StoreInv` and `ReqInv`,
what a session and a request may have at each step; `CountInv`, the asks made so far pay
for the sessions open, the requests that may still open one and the ids in the expiry
channel, so that no id is reported twice for one opening; and `HeldInv`, what is held under an id without a
session is `stray`, or a teardown that will reach that part is to come: in the channel, in
the listener or in a DELETE. `EndInv`: the sign-in on which a pending `end` rests was over
when it was found so, and a sign-in that is over never holds again; hence a session that
such an `end` takes has ended too, or is of a later sign-in, which is what
`KeptWhileUsed` excuses. `NothingLeftBehind` is `HeldInv` with the types; the
other parts are what makes it inductive and what bounds the channel.
The assumption is `SessionAssumption`: "no id" is no id, the limits are positive.

`SessionLifecycleProofs`, the registry of clients, for any finite set of connections and any clients:
`RegistryCurrent`. `RegistryInv` adds `VersionInv` (a connection sends the count twice at
most, hence the bound of the version), `MapInv` (a mapping leads to a connection of that
client whose deregister is to come or whose registration was dropped, and that is in the session map from its
registration to its removal) and `ReplacedInv` (what a registration is about to drop is
mapped no more), which is what keeps one registration from dropping another's session.

`SseDeliveryProofs`, for any limits and any number of sends, reconnects and losses of the
session: `LostInRace`, `Unstranded`. `DeliveryInv` is the types, the bounds of the queues
and, until a send meets a session opened again (`mixed`), six parts. `NumInv`: an id tells
which send it was. `LostInv`: a session that is lost takes its events, its stream and its
numbers with it. `FlightInv`: the newest event between the two halves of its send is newer than what
the client has read and than what is queued for it, and can be replayed. `QueueInv` and `BufInv`: the queues and the stream's channel
are in order but for raced events. `MainInv`: every event the client has not read is
excused, raced or on its way to it (`Safe`), or a reconnect with the client's last id
replays it (`Replayable`); while the stream is up it is `Safe`. An event is
passed over when a later one is read first, so that it stays on its way past every
reconnect needs the order of all queues. `LimitsAssumption` has the limits positive and `PendingLimit <=
ReplayLimit` (32 and 128 in the code).

`ContinuationsProofs`, for any owners, tools, quota, rounds, tokens, connections and
finite set of calls: `LedgerExact`, `ParkedValid`, `SentOnce`. `Inv` has, beside the types:
`CallInv`, what a call holds at each step; `RouteInv`, a captured route is of an older
generation or leads where the published one does, and connections' generations only
grow, up to the number of sessions there have been: a round that finds the generation of
its connection unchanged is on it, and a call posted on a new session moves the generation,
so that such a round is not parked; `HeldInv`, a reservation
of an owner whose sign-in was revoked, once past its last look, is of an older generation than the
ledger's, which is what `insert_reserved` compares; `LedgerInv` and `QuotaInv`, the
ledger counts entries and held reservations; `NonceInv` and `ResumedInv`, a token's
state is in one place, its entry or one call that has taken it. `ContinuationsAssumption`
makes the bounds numbers and the calls finite; `NoneAssumption` says that the mark for
"nothing" is none of the values it stands beside.

`TasksProofs`, for any number of calls, of requests about them and of lives of the owner:
`OutlivesNone`, `AlwaysAnswerable` and `ResultKept`, an action property. `Inv` is `OwnerInv`
and, for each call, `CallInv`. `OwnerInv`: once the last teardown is through there is no
record, and a create that has passed the probe finds the tombstone (without this part
`NothingOutlivesOwner` is lost one step later). `CallInv` says who holds what: until it has
its record a call is known to nobody (`FreshInv`); a local call is sent again only after
the server no longer has it (`ServerInv`); a record that has not ended refers to the run its
future waits for, and one with a pending cancel has ended (`RecInv`); a cancel on its way
told the run before it aborts the future, or the future will find the pending cancel
(`CancelInv`); a poll knows only what the server said for good (`AskInv`); the handle a
teardown took belongs to a future that is not about to replay a cancel, and if it waits the
teardown has its run (`StopInv`); someone can stop every future (`HandleInv`) and sees to
every run (`RunInv`). `SameInv` and `OneCall` reduce a step to the one call it touches; the
two teardown steps touch all.

`StoredStateProofs`, authorization, for any finite set of clients, any requests, limit of access
tokens and number of flows, pairs and faults: `SpentForGood`, `RevokedForGood` and
`AdmissionExact`. The heart of `Inv` is `Sound(st, ...)`, which holds of the state in memory
and of the file a power loss leaves alike, so that a restart from either is harmless:
a flow is in one stage, consent, code or family of tokens (`OneStage`, without which a flow
whose code is spent could still have a consent to make the next one from); what was answered as used is in no
stage before its use (`NotBefore`); a dismissed client is marked revoked and has nothing
left (`Dismissed`). Losing records keeps a file sound (`ShrinkingKeeps`), which settles
eviction, pruning, expiry, revocation and loading at once; new flows and pairs do not
disturb what is there (`GrowingKeeps`); each handler that adds a record has a lemma of its
own; and `CommitKeeps` combines the three ways a commit ends. `Covered` is stronger than the
second half of `AdmissionIsExact`: it also says that an inactive lifecycle has its reason
among the removals that did not become durable, and it holds while durability is in doubt.
`OAuthAssumption` makes the bounds numbers and the clients finite.

`StoredStateProofs`, operator changes, for any servers, account copies, keys, room in the
watcher's channel and number of changes, reloads, saves and failures: `KeysAreAccepted`.
`ConfigInv` is the types and `KeyInv`: each key the file refers to finds the value last
accepted, unless `spoiled` or `crossed` (`FileOk`), and so will each place from which the
file can next be written or the store changed: the save the command line has begun
(`SaveOk`), the draft of the change that holds the lock (`DraftOk`), and the value an undo
would put back (`UndoOk`). `ForgetOk`: what `forget` looks at in memory has the keys of the
file, so it removes no key the file refers to. `ConstantsAssumption`: there is a server,
a copy is of another server, "nothing stored" is no key, the bounds are numbers.

Only model-checked are the liveness properties: `EveryCallEnds`, `ChangeReachesCatalog`,
`AnnouncementIsFannedOut`, `HalfOpenEnds`, `DownIsRetried`, `MemoryFollowsFile`,
`CreateEnds`, `StopsUnlessMissed`. The proof system handles neither fairness nor ENABLED.
Every invariant and action property of the runs is stated by a theorem.

## 6. Plan

1. `ToolCalls`: admission, permits, cancellation and active-call bookkeeping, with
   `CircuitBreaker`.
2. The IPC connection: requests in flight and their limit, reverse requests, and the
   proxy that reconnects to a restarted daemon.
3. Watch events and Slack events: delivery, acknowledgement and access.

## 7. Not modelled, and why

Catalog building (naming, enrichment, icons, OpenAPI) is pure and sequential.
Artifacts, import, export, doctor, installation, most of the command line and the
Mac application are I/O or user interface around the engine. The transports and the
MCP library are external: connections end and dials fail at any time. Restart
cooldowns and backoff delays are clock quantities; the models let the next attempt
come at any time. `set_server_enabled` (`engine.rs`) copies the configuration before it
waits for `reload_lock` and changes memory only, so a reload that was running is undone
by the stale copy until the next one; `OperatorConfig` covers the changes that go to
the file. Of the engine's shutdown only the clearing of continuations is modelled.

About half of the repository's Rust lines are tests inside the source files, and a
large part of the rest is message translation, wording and views. The map therefore
covers a small share of all lines; the share of the code that holds concurrent or
persistent state is much larger.
