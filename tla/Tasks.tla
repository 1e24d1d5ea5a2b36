------------------------------- MODULE Tasks --------------------------------
(***************************************************************************)
(* Background tool calls ("tasks") of one owner                            *)
(* (plug-core/src/tasks.rs, plug-core/src/proxy/tasks.rs)                  *)
(*                                                                         *)
(* A call asks for a task.  Either plug runs the tool in a future of its   *)
(* own (a local task), or the upstream server runs it and plug keeps a     *)
(* record that refers to it (a native one).  Clients cancel and poll; the  *)
(* owner, an HTTP session or an IPC client, goes away and its records with *)
(* it.  Records are only touched under the store's lock; between two locks *)
(* any other step may happen.                                              *)
(*                                                                         *)
(* A local task is sent to the server at most twice, a native one once:    *)
(* <<c, n>> is the n-th run of call c, as the server sees it.              *)
(***************************************************************************)
EXTENDS Integers, FiniteSets

CONSTANTS
    Calls,     \* calls that ask for a task, each names the record it makes
    Ops,       \* requests about tasks served at a time
    MaxLife,   \* bound: times an IPC client registers; an HTTP session that is
               \* opened again is the subject of SessionLifecycle
    MaxOps,    \* bound: requests about tasks
    NoCall     \* no call

ASSUME TasksAssumption ==
    /\ MaxLife \in Nat \ {0} /\ MaxOps \in Nat
    /\ NoCall \notin Calls

VARIABLES
    owner,    \* an HTTP session or an IPC client, whether it is registered, and
              \* how often it was
    down,     \* the teardown that follows each life of the owner
    torn,     \* torn_down of the owner's OwnerLifecycleState
    call,     \* enqueue_tool_task
    rec,      \* the task store
    exec,     \* execute_tool_task, the future of a local task
    run,      \* runs at the upstream server
    op,       \* cancel_task_for_owner and the two that ask the server
    asked,    \* how many requests about tasks were made
    excused,  \* history: calls one of whose runs was let go, see Answerable
    drained   \* history: calls whose record an earlier life's teardown took

vars == <<owner, down, torn, call, rec, exec, run, op, asked, excused, drained>>

Lives == 1..MaxLife
Runs == Calls \X {1, 2}

NoRecord == [on |-> FALSE, status |-> "working", up |-> 0, handle |-> FALSE,
             pend |-> FALSE, result |-> FALSE, life |-> 0]
NoOp == [pc |-> "idle", kind |-> "get", call |-> NoCall,
         up |-> 0, handle |-> FALSE, seen |-> "working"]

is_terminal(status) == status \in {"completed", "failed", "cancelled"}

Live == {c \in Calls : rec[c].on}

\* Calls that hold an OwnerCreateGuard; in_flight_creates is their number.
Guarded == {c \in Calls : call[c].pc \in
               {"probe", "locking", "queueing", "creating", "inserting", "created"}}

Goes(c, pc) == call' = [call EXCEPT ![c].pc = pc]

\* The call ends; with the last guard the owner's entry goes, and the
\* tombstone with it (end_create).
Leaves(c, pc) ==
    /\ Goes(c, pc)
    /\ torn' = (torn /\ Guarded \ {c} # {})

\* The server is told to stop these runs; it can be told only of one it has.  Telling
\* is an attempt: spawn_bounded_upstream_cancellation does nothing for a server that is
\* no longer registered and only logs a cancel that fails or times out, so that a run
\* that was told may go on to its end all the same (ServerEnds).
Tell(rs) == run' = [r \in Runs |->
    IF r \in rs /\ run[r] \in {"asked", "running"} THEN "told" ELSE run[r]]

(***************************************************************************)
(* The owner                                                               *)
(***************************************************************************)

Register ==
    /\ ~owner.on
    /\ owner.life < (IF owner.kind = "ipc" THEN MaxLife ELSE 1)
    /\ owner' = [owner EXCEPT !.on = TRUE, !.life = owner.life + 1]
    /\ UNCHANGED <<down, torn, call, rec, exec, run, op, asked, excused, drained>>

\* The session leaves its store, or the client the registry, first.
Disconnect ==
    /\ owner.on
    /\ owner' = [owner EXCEPT !.on = FALSE]
    /\ down' = [down EXCEPT ![owner.life].pc = "check"]
    /\ UNCHANGED <<torn, call, rec, exec, run, op, asked, excused, drained>>

\* An IPC client that has come back keeps its tasks.
TeardownLooks(l) ==
    /\ down[l].pc = "check"
    /\ down' = [down EXCEPT ![l].pc = IF owner.on THEN "done" ELSE "clean"]
    /\ UNCHANGED <<owner, torn, call, rec, exec, run, op, asked, excused, drained>>

\* tombstone_if_in_flight
Tombstone == torn \/ Guarded # {}

\* cleanup_owner, under the store's lock.
TeardownDrains(l) ==
    /\ down[l].pc = "clean"
    /\ torn' = Tombstone
    /\ rec' = [c \in Calls |-> NoRecord]
    /\ down' = [down EXCEPT ![l] =
           [pc |-> "stop",
            runs |-> {<<c, rec[c].up>> : c \in {d \in Live : rec[d].up # 0}},
            handles |-> {c \in Live : rec[c].handle}]]
    /\ drained' = drained \cup {c \in Live : owner.on /\ rec[c].life > l}
    /\ UNCHANGED <<owner, call, exec, run, op, asked, excused>>

\* Mutant: no guard over the gap between sending and recording.
NoGuard(c) == FALSE

\* A future that is aborted after it sent and before its record has the
\* request is cancelled by UpstreamRequestCancelGuard.
CoveredByGuard(c) == exec[c].pc \in {"sent", "missing"}

Aborted(cs) == exec' = [c \in Calls |->
    IF c \in cs /\ exec[c].pc # "none" THEN [exec[c] EXCEPT !.pc = "dead"] ELSE exec[c]]

\* The futures are aborted, then the server is told.
TeardownStops(l) ==
    /\ down[l].pc = "stop"
    /\ Aborted(down[l].handles)
    /\ Tell(down[l].runs \cup
            {<<c, exec[c].n>> : c \in {d \in down[l].handles : CoveredByGuard(d)}})
    /\ down' = [down EXCEPT ![l] = [pc |-> "done", runs |-> {}, handles |-> {}]]
    /\ UNCHANGED <<owner, torn, call, rec, op, asked, excused, drained>>

(***************************************************************************)
(* enqueue_tool_task                                                       *)
(***************************************************************************)

\* The transport found the owner registered when it took the request.
Arrive(c, path) ==
    /\ call[c].pc = "idle" /\ owner.on
    /\ call' = [call EXCEPT ![c] = [pc |-> "arrived", path |-> path]]
    /\ UNCHANGED <<owner, down, torn, rec, exec, run, op, asked, excused, drained>>

\* Nothing is left of call c: another one may be made in its place.
AnotherCall(c) ==
    /\ call[c].pc = "over"
    /\ ~rec[c].on /\ exec[c].pc \in {"none", "dead"}
    /\ \A n \in {1, 2} : run[<<c, n>>] \notin {"asked", "running"}
    /\ \A o \in Ops : op[o].call # c
    /\ \A l \in Lives : c \notin down[l].handles /\ \A n \in {1, 2} : <<c, n>> \notin down[l].runs
    /\ Goes(c, "idle")
    /\ exec' = [exec EXCEPT ![c] = [pc |-> "none", n |-> 1]]
    /\ run' = [run EXCEPT ![<<c, 1>>] = "none", ![<<c, 2>>] = "none"]
    /\ excused' = excused \ {c}
    /\ UNCHANGED <<owner, down, torn, rec, op, asked, drained>>

\* begin_owner_create, under the store's lock.
BeginCreate(c) ==
    /\ call[c].pc = "arrived"
    /\ Goes(c, "probe")
    /\ UNCHANGED <<owner, down, torn, rec, exec, run, op, asked, excused, drained>>

\* The OwnerLivenessProbe.
OwnerIsLive == owner.on

Probe(c) ==
    /\ call[c].pc = "probe"
    /\ IF OwnerIsLive
       THEN /\ Goes(c, IF call[c].path = "local" THEN "locking" ELSE "queueing")
            /\ UNCHANGED torn
       ELSE Leaves(c, "over")
    /\ UNCHANGED <<owner, down, rec, exec, run, op, asked, excused, drained>>

\* Mutant: a torn-down owner gets its record.
AcceptsAll == TRUE

\* ensure_owner_accepts_creates
AcceptsCreates == ~torn

\* create, spawn and attach_abort_handle in one lock scope.
CreateLocal(c) ==
    /\ call[c].pc = "locking"
    /\ IF AcceptsCreates
       THEN /\ rec' = [rec EXCEPT ![c] =
                   [NoRecord EXCEPT !.on = TRUE, !.handle = TRUE, !.life = owner.life]]
            /\ exec' = [exec EXCEPT ![c] = [pc |-> "ready", n |-> 1]]
            /\ Goes(c, "created")
            /\ UNCHANGED torn
       ELSE Leaves(c, "over") /\ UNCHANGED <<rec, exec>>
    /\ UNCHANGED <<owner, down, run, op, asked, excused, drained>>

\* The guard goes when the function returns.
Return(c) ==
    /\ call[c].pc = "created"
    /\ Leaves(c, "over")
    /\ UNCHANGED <<owner, down, rec, exec, run, op, asked, excused, drained>>

\* The handler is dropped while it waits for the lock: the HTTP client hangs up, or the
\* IPC loop ends with a request in hand.  A native create runs in a task of its own and
\* goes on.
CallerHangsUp(c) ==
    /\ call[c].pc \in {"arrived", "locking"}
    /\ Leaves(c, "over")
    /\ UNCHANGED <<owner, down, rec, exec, run, op, asked, excused, drained>>

\* The request is queued to the server, or cannot be in time.
SendNative(c) ==
    /\ call[c].pc = "queueing"
    /\ \/ /\ Goes(c, "creating")
          /\ run' = [run EXCEPT ![<<c, 1>>] = "asked"]
          /\ UNCHANGED torn
       \/ Leaves(c, "over") /\ UNCHANGED run
    /\ UNCHANGED <<owner, down, rec, exec, op, asked, excused, drained>>

\* The server made the task and says so.
NativeAnswered(c) ==
    /\ call[c].pc = "creating" /\ run[<<c, 1>>] \in {"running", "ended"}
    /\ Goes(c, "inserting")
    /\ UNCHANGED <<owner, down, torn, rec, exec, run, op, asked, excused, drained>>

\* It answers with an error.
NativeRefused(c) ==
    /\ call[c].pc = "creating"
    /\ run[<<c, 1>>] = "asked" /\ run' = [run EXCEPT ![<<c, 1>>] = "ended"]
    /\ Leaves(c, "over")
    /\ UNCHANGED <<owner, down, rec, exec, op, asked, excused, drained>>

\* The connection ends under the create: the call fails at once, with no cancel, record
\* or reaper for a task the server has made or is yet to make.
NativeLost(c) ==
    /\ call[c].pc = "creating"
    /\ Leaves(c, "over")
    /\ excused' = excused \cup {c}
    /\ UNCHANGED <<owner, down, rec, exec, run, op, asked, drained>>

\* The guard ends with the create; the reaper only cancels.
Reaps(c) == Leaves(c, "reaping")

\* Mutant: the wait for the answer has no deadline.
WaitsForever(c) == FALSE /\ UNCHANGED vars

\* The deadline: the request is cancelled, which stops a task not yet made.
NativeTimesOut(c) ==
    /\ call[c].pc = "creating"
    /\ run' = [run EXCEPT ![<<c, 1>>] = IF @ = "asked" THEN "told" ELSE @]
    /\ Reaps(c)
    /\ UNCHANGED <<owner, down, rec, exec, op, asked, excused, drained>>

\* spawn_native_create_reaper: the late answer names the task to cancel.
ReaperCancels(c) ==
    /\ call[c].pc = "reaping" /\ run[<<c, 1>>] \in {"running", "ended"}
    /\ Tell({<<c, 1>>})
    /\ Goes(c, "over")
    /\ UNCHANGED <<owner, down, torn, rec, exec, op, asked, excused, drained>>

\* Its window ends, or the cancelled request resolved the answer first.
ReaperGivesUp(c) ==
    /\ call[c].pc = "reaping"
    /\ Goes(c, "over")
    /\ excused' = excused \cup {c}
    /\ UNCHANGED <<owner, down, torn, rec, exec, run, op, asked, drained>>

\* create_passthrough, under the store's lock.  The record starts with the
\* status the server gave.
CreateNative(c) ==
    /\ call[c].pc = "inserting"
    /\ IF AcceptsCreates
       THEN /\ \E s \in {"working"} \cup (IF run[<<c, 1>>] = "ended" THEN {"completed"} ELSE {}) :
                 rec' = [rec EXCEPT ![c] =
                     [NoRecord EXCEPT !.on = TRUE, !.status = s, !.up = 1, !.life = owner.life]]
            /\ Goes(c, "created")
            /\ UNCHANGED <<torn, run>>
       ELSE /\ Tell({<<c, 1>>})
            /\ Leaves(c, "over")
            /\ UNCHANGED rec
    /\ UNCHANGED <<owner, down, exec, op, asked, excused, drained>>

(***************************************************************************)
(* execute_tool_task                                                       *)
(***************************************************************************)

Steps(c, pc) == exec' = [exec EXCEPT ![c].pc = pc]

\* Mutant: a late end overwrites a cancel.
EndsAlways(c, status) ==
    rec' = [rec EXCEPT ![c] = IF ~@.on THEN @
               ELSE [@ EXCEPT !.status = status, !.result = (status = "completed"),
                              !.handle = FALSE, !.up = 0]]

\* complete and fail: only a record that is there and has not ended changes.
Ends(c, status) ==
    rec' = [rec EXCEPT ![c] = IF ~@.on \/ is_terminal(@.status) THEN @
               ELSE [@ EXCEPT !.status = status, !.result = (status = "completed"),
                              !.handle = FALSE, !.up = 0]]

\* No route, no permit, no server, or the request cannot be sent.
ExecGivesUp(c) ==
    /\ exec[c].pc = "ready"
    /\ Ends(c, "failed") /\ Steps(c, "dead")
    /\ UNCHANGED <<owner, down, torn, call, run, op, asked, excused, drained>>

ExecSends(c) ==
    /\ exec[c].pc = "ready"
    /\ run' = [run EXCEPT ![<<c, exec[c].n>>] = "running"]
    /\ Steps(c, "sent")
    /\ UNCHANGED <<owner, down, torn, call, rec, op, asked, excused, drained>>

\* UpstreamRecordOutcome: what is next once the record was looked up.
AfterRecord(c) ==
    IF ~rec[c].on THEN "missing" ELSE IF rec[c].pend THEN "replay" ELSE "wait"

\* set_upstream_request, under the store's lock.
ExecRecords(c) ==
    /\ exec[c].pc = "sent"
    /\ rec' = [rec EXCEPT ![c] = IF @.on THEN [@ EXCEPT !.up = exec[c].n, !.pend = FALSE] ELSE @]
    /\ Steps(c, AfterRecord(c))
    /\ UNCHANGED <<owner, down, torn, call, run, op, asked, excused, drained>>

\* The record is gone: the future cancels the request itself and returns.
ExecCancelsOwn(c) ==
    /\ exec[c].pc = "missing"
    /\ Tell({<<c, exec[c].n>>}) /\ Steps(c, "dead")
    /\ UNCHANGED <<owner, down, torn, call, rec, op, asked, excused, drained>>

\* A cancel that came before the request had an id is sent now.
ExecReplays(c) ==
    /\ exec[c].pc = "replay"
    /\ Tell({<<c, exec[c].n>>}) /\ Steps(c, "wait")
    /\ UNCHANGED <<owner, down, torn, call, rec, op, asked, excused, drained>>

\* An answer: a result, or an error the server or the cancelled request gives.
ExecAnswered(c) ==
    /\ exec[c].pc = "wait"
    /\ \/ run[<<c, exec[c].n>>] = "ended" /\ \E s \in {"completed", "failed"} : Ends(c, s)
       \/ run[<<c, exec[c].n>>] = "told" /\ Ends(c, "failed")
    /\ Steps(c, "dead")
    /\ UNCHANGED <<owner, down, torn, call, run, op, asked, excused, drained>>

\* The timeout: the request is cancelled before the task fails.
ExecTimesOut(c) ==
    /\ exec[c].pc = "wait"
    /\ Tell({<<c, exec[c].n>>})
    /\ Ends(c, "failed") /\ Steps(c, "dead")
    /\ UNCHANGED <<owner, down, torn, call, op, asked, excused, drained>>

\* A session error: the first one reconnects the server to send again.
ExecLosesSession(c) ==
    /\ exec[c].pc = "wait" /\ run[<<c, exec[c].n>>] \in {"lost", "unsent"}
    /\ IF exec[c].n = 1
       THEN Steps(c, "reconnect") /\ UNCHANGED rec
       ELSE Ends(c, "failed") /\ Steps(c, "dead")
    /\ UNCHANGED <<owner, down, torn, call, run, op, asked, excused, drained>>

ExecReconnects(c) ==
    /\ exec[c].pc = "reconnect"
    /\ \/ exec' = [exec EXCEPT ![c] = [pc |-> "ready", n |-> 2]] /\ UNCHANGED rec
       \/ Ends(c, "failed") /\ Steps(c, "dead")
    /\ UNCHANGED <<owner, down, torn, call, run, op, asked, excused, drained>>

(***************************************************************************)
(* Requests about a task                                                   *)
(***************************************************************************)

\* mark_cancelled, under the store's lock: the cancel takes the reference to
\* the run and the handle, or leaves a pending cancel for the future.
MarkCancelled(o, c) ==
    /\ op[o].pc = "idle" /\ owner.on /\ asked < MaxOps
    /\ rec[c].on /\ ~is_terminal(rec[c].status)
    /\ asked' = asked + 1
    /\ rec' = [rec EXCEPT ![c] =
           [@ EXCEPT !.status = "cancelled", !.result = FALSE, !.up = 0,
                     !.pend = (rec[c].up = 0), !.handle = FALSE]]
    /\ op' = [op EXCEPT ![o] =
           [NoOp EXCEPT !.pc = IF rec[c].up = 0 THEN "abort" ELSE "tell",
                        !.kind = "cancel", !.call = c,
                        !.up = rec[c].up, !.handle = rec[c].handle]]
    /\ UNCHANGED <<owner, down, torn, call, exec, run, excused, drained>>

CancelTells(o) ==
    /\ op[o].pc = "tell"
    /\ Tell({<<op[o].call, op[o].up>>})
    /\ op' = [op EXCEPT ![o].pc = "abort"]
    /\ UNCHANGED <<owner, down, torn, call, rec, exec, asked, excused, drained>>

\* Runs that lose the one who would stop them when c's future is aborted: it
\* was about to replay the cancel, or had sent the call again after it.
LetGo(c) ==
    \/ exec[c].pc = "replay"
    \/ exec[c].pc = "wait" /\ exec[c].n = 2

CancelAborts(o) ==
    LET c == op[o].call IN
    /\ op[o].pc = "abort"
    /\ IF op[o].handle
       THEN /\ Aborted({c})
            /\ Tell(IF CoveredByGuard(c) THEN {<<c, exec[c].n>>} ELSE {})
            /\ excused' = IF LetGo(c) THEN excused \cup {c} ELSE excused
       ELSE UNCHANGED <<exec, run, excused>>
    /\ op' = [op EXCEPT ![o] = NoOp]
    /\ UNCHANGED <<owner, down, torn, call, rec, asked, drained>>

\* The cancel is dropped while it waits for the server: the HTTP client hangs up, or the
\* IPC loop ends with the request in hand.
CancelHangsUp(o) ==
    /\ op[o].pc = "tell"
    /\ op' = [op EXCEPT ![o] = NoOp]
    /\ excused' = excused \cup {op[o].call}
    /\ UNCHANGED <<owner, down, torn, call, rec, exec, run, asked, drained>>

\* get_task_info_for_owner and get_task_result_for_owner read the reference
\* and ask the server about its task.
AskServer(o, c, kind) ==
    /\ op[o].pc = "idle" /\ owner.on /\ asked < MaxOps
    /\ rec[c].on /\ call[c].path = "native" /\ rec[c].up # 0
    /\ asked' = asked + 1
    /\ op' = [op EXCEPT ![o] = [NoOp EXCEPT !.pc = "ask", !.kind = kind, !.call = c]]
    /\ UNCHANGED <<owner, down, torn, call, rec, exec, run, excused, drained>>

\* What the server may say of its task; there is a result once it has ended.
ServerSays(c) ==
    CASE run[<<c, 1>>] = "ended" -> {"completed"}
      [] run[<<c, 1>>] = "told" -> {"cancelled", "working"}
      [] OTHER -> {"working"}

ServerReplies(o) ==
    /\ op[o].pc = "ask"
    /\ \E says \in ServerSays(op[o].call) :
       op' = [op EXCEPT ![o] =
           IF @.kind = "result" /\ says # "completed" THEN NoOp
           ELSE [@ EXCEPT !.pc = "apply", !.seen = says]]
    /\ UNCHANGED <<owner, down, torn, call, rec, exec, run, asked, excused, drained>>

\* sync_from_upstream_for_owner
Synced(r, status) ==
    IF is_terminal(r.status) /\ r.status # status THEN r ELSE [r EXCEPT !.status = status]

\* cache_result_for_owner
Cached(r) == [r EXCEPT !.status = "completed", !.result = TRUE, !.up = 0, !.handle = FALSE]

ApplyReply(o) ==
    /\ op[o].pc = "apply"
    /\ rec' = [rec EXCEPT ![op[o].call] =
           IF ~@.on THEN @
           ELSE IF op[o].kind = "result" THEN Cached(@) ELSE Synced(@, op[o].seen)]
    /\ op' = [op EXCEPT ![o] = NoOp]
    /\ UNCHANGED <<owner, down, torn, call, exec, run, asked, excused, drained>>

\* Any request may find the record of a task that ended long ago and drop it,
\* or drop the oldest of too many (enforce_owner_completed_retention).
Forget(c) ==
    /\ rec[c].on /\ is_terminal(rec[c].status)
    /\ rec' = [rec EXCEPT ![c] = NoRecord]
    /\ UNCHANGED <<owner, down, torn, call, exec, run, op, asked, excused, drained>>

\* prune_expired of a task nobody touched for DEFAULT_STALE_IN_FLIGHT_TTL_MS,
\* then finish_expired_task_cleanup.
Expire(c) ==
    /\ rec[c].on /\ ~is_terminal(rec[c].status)
    /\ rec' = [rec EXCEPT ![c] = NoRecord]
    /\ Aborted(IF rec[c].handle THEN {c} ELSE {})
    /\ Tell({<<c, n>> : n \in {rec[c].up} \cap {1, 2}} \cup
            {<<c, exec[c].n>> : d \in {e \in {c} : rec[e].handle /\ CoveredByGuard(e)}})
    /\ UNCHANGED <<owner, down, torn, call, op, asked, excused, drained>>

(***************************************************************************)
(* The upstream server                                                     *)
(***************************************************************************)

ServerCreates(c) ==
    /\ run[<<c, 1>>] = "asked" /\ call[c].path = "native"
    /\ run' = [run EXCEPT ![<<c, 1>>] = "running"]
    /\ UNCHANGED <<owner, down, torn, call, rec, exec, op, asked, excused, drained>>

\* A run ends, also one the server was told to stop when the cancel did not reach it.
ServerEnds(c, n) ==
    /\ run[<<c, n>>] \in {"running", "told"}
    /\ run' = [run EXCEPT ![<<c, n>>] = "ended"]
    /\ UNCHANGED <<owner, down, torn, call, rec, exec, op, asked, excused, drained>>

\* The connection ends under a call: the server had it ("lost") or not.
ConnectionDrops(c, n, how) ==
    /\ run[<<c, n>>] = "running" /\ call[c].path = "local"
    /\ run' = [run EXCEPT ![<<c, n>>] = how]
    /\ UNCHANGED <<owner, down, torn, call, rec, exec, op, asked, excused, drained>>

Init ==
    /\ owner \in [kind : {"http", "ipc"}, on : {FALSE}, life : {0}]
    /\ down = [l \in Lives |-> [pc |-> "none", runs |-> {}, handles |-> {}]]
    /\ torn = FALSE
    /\ call = [c \in Calls |-> [pc |-> "idle", path |-> "local"]]
    /\ rec = [c \in Calls |-> NoRecord]
    /\ exec = [c \in Calls |-> [pc |-> "none", n |-> 1]]
    /\ run = [r \in Runs |-> "none"]
    /\ op = [o \in Ops |-> NoOp]
    /\ asked = 0
    /\ excused = {} /\ drained = {}

Teardown(l) == TeardownLooks(l) \/ TeardownDrains(l) \/ TeardownStops(l)

Create(c) ==
    \/ BeginCreate(c) \/ Probe(c) \/ CreateLocal(c) \/ Return(c)
    \/ SendNative(c) \/ NativeTimesOut(c) \/ CreateNative(c) \/ ReaperGivesUp(c)

Hears(c) == NativeAnswered(c) \/ NativeRefused(c) \/ NativeLost(c) \/ ReaperCancels(c)

Execute(c) ==
    \/ ExecGivesUp(c) \/ ExecSends(c) \/ ExecRecords(c) \/ ExecCancelsOwn(c)
    \/ ExecReplays(c) \/ ExecAnswered(c) \/ ExecTimesOut(c)
    \/ ExecLosesSession(c) \/ ExecReconnects(c)

Request(o) ==
    \/ CancelTells(o) \/ CancelAborts(o) \/ CancelHangsUp(o)
    \/ ServerReplies(o) \/ ApplyReply(o)

Next ==
    \/ Register \/ Disconnect
    \/ \E l \in Lives : Teardown(l)
    \/ \E c \in Calls :
          \/ \E path \in {"local", "native"} : Arrive(c, path)
          \/ AnotherCall(c) \/ CallerHangsUp(c) \/ Create(c) \/ Hears(c) \/ Execute(c)
          \/ Forget(c) \/ Expire(c) \/ ServerCreates(c)
          \/ \E n \in {1, 2} : ServerEnds(c, n)
          \/ \E n \in {1, 2}, how \in {"lost", "unsent"} : ConnectionDrops(c, n, how)
    \/ \E o \in Ops :
          \/ Request(o)
          \/ \E c \in Calls :
                MarkCancelled(o, c) \/ \E kind \in {"get", "result"} : AskServer(o, c, kind)

\* tokio runs every future that can go on, and each wait of a create has a
\* deadline: for the store's lock, for room to send, for the answer.
Fairness == \A c \in Calls : WF_vars(Create(c))

Spec == Init /\ [][Next]_vars /\ Fairness

(***************************************************************************)
(* Properties                                                              *)
(***************************************************************************)

\* The types of the variables; and a tombstone lasts only as long as a create is in
\* flight (end_create).
TypeOK ==
    /\ owner \in [kind : {"http", "ipc"}, on : BOOLEAN, life : 0..MaxLife]
    /\ down \in [Lives -> [pc : {"none", "check", "clean", "stop", "done"},
                          runs : SUBSET Runs, handles : SUBSET Calls]]
    /\ torn \in BOOLEAN
    /\ call \in [Calls -> [pc : {"idle", "arrived", "probe", "locking", "created", "queueing",
                                "creating", "inserting", "reaping", "over"},
                          path : {"local", "native"}]]
    /\ rec \in [Calls -> [on : BOOLEAN, up : 0..2, handle : BOOLEAN, pend : BOOLEAN,
                         status : {"working", "completed", "failed", "cancelled"},
                         result : BOOLEAN, life : 0..MaxLife]]
    /\ exec \in [Calls -> [pc : {"none", "ready", "sent", "missing", "replay", "wait",
                                "reconnect", "dead"}, n : {1, 2}]]
    /\ run \in [Runs -> {"none", "asked", "running", "ended", "told", "lost", "unsent"}]
    /\ op \in [Ops -> [pc : {"idle", "tell", "abort", "ask", "apply"},
                      kind : {"cancel", "get", "result"}, call : Calls \cup {NoCall}, up : 0..2,
                      handle : BOOLEAN, seen : {"working", "completed", "cancelled"}]]
    /\ asked \in 0..MaxOps
    /\ excused \subseteq Calls /\ drained \subseteq Calls
    /\ torn => Guarded # {}

\* Once an owner is gone and its teardown has run, it has no task: a create
\* that overlapped the teardown is refused, by the probe when the teardown was
\* over before the create was registered and by the tombstone when it was not
\* (enqueue_tool_task's ordering argument, cleanup_owner).
NothingOutlivesOwner ==
    /\ TypeOK
    /\ ~owner.on /\ (\A l \in Lives : down[l].pc \in {"none", "stop", "done"}) => Live = {}

\* Who will stop run n of call c, or hear that it ended.
Answers(c, n) ==
    \/ rec[c].on /\ ~is_terminal(rec[c].status) /\ rec[c].up = n
    \/ exec[c].n = n /\ exec[c].pc \in {"sent", "missing", "replay", "wait"}
    \/ n = 1 /\ call[c].pc \in {"creating", "inserting", "reaping"}
    \/ \E o \in Ops : op[o].pc = "tell" /\ op[o].call = c /\ op[o].up = n
    \/ \E l \in Lives : <<c, n>> \in down[l].runs

\* Nothing runs on unattended.  A run that goes on at the server always has
\* someone who waits for it or is about to cancel it, across teardown, cancel,
\* expiry and every timeout.  Excused: the connection ended under a create, the reaper
\* gave up, a cancel was dropped while it waited for the server, or it aborted the
\* future between taking over the pending cancel and sending it, or after it had sent
\* the call again.  And a future that waits for an answer can still be stopped: its
\* record has its handle, or someone else does.
Answerable ==
    /\ \A r \in Runs : run[r] \in {"asked", "running"} =>
          Answers(r[1], r[2]) \/ r[1] \in excused
    /\ \A c \in Calls : exec[c].pc = "wait" =>
          \/ rec[c].on /\ rec[c].handle
          \/ \E l \in Lives : c \in down[l].handles
          \/ \E o \in Ops : op[o].pc # "idle" /\ op[o].call = c /\ op[o].handle
          \/ c \in excused

\* A task that has ended changes only when a result fetched from the server arrives:
\* not by a late end of its future, not by a late status.  And one that is completed
\* has its result, or the reference to fetch it with: a status that came late never
\* overwrites a cancel that took the reference.
EndedKeepsResult ==
    [][\A c \in Calls : rec'[c].on =>
          /\ rec[c].on /\ is_terminal(rec[c].status) /\ rec'[c].status # rec[c].status
               => rec'[c].status = "completed" /\ rec'[c].result
          /\ rec'[c].status = "completed" => rec'[c].result \/ rec'[c].up # 0]_vars

\* Every create ends and gives its guard back, whatever the server does.
CreateEnds == \A c \in Calls : call[c].pc = "probe" ~> c \notin Guarded

(***************************************************************************)
(* What comments and tests of the repository say and the code does not     *)
(* keep: TLC finds each violated (README, section 4).                      *)
(***************************************************************************)

\* "A bounded spurious refusal as the worst case" for a client that comes back: its
\* tombstone goes.  (With two calls that replace each other.)
RefusalIsBounded == torn ~> ~torn

\* terminal_task_states_are_monotonic: a task that ended keeps its status.
TerminalIsFinal ==
    [][\A c \in Calls : rec[c].on /\ rec'[c].on /\ is_terminal(rec[c].status)
        => rec'[c].status = rec[c].status]_vars

\* A call the server had when the connection dropped is not sent again.
NotSentTwice == \A c \in Calls : run[<<c, 1>>] = "lost" => run[<<c, 2>>] = "none"

\* The worst a client that comes back meets is a refusal: the teardown of its
\* last connection takes none of its new tasks.
ReturningClientKeepsTasks == drained = {}

=============================================================================
