---------------------------- MODULE CatalogRefresh ----------------------------
(***************************************************************************)
(* ToolRouter::refresh_tools (plug-core/src/proxy/mod.rs): the coordinator *)
(* that lets any number of tasks ask for a catalog refresh while at most   *)
(* one pass (refresh_tools_once) runs.  The first caller leads a pass; a   *)
(* caller that finds one running asks for a trailing pass and waits on a   *)
(* Notify; a cancelled leader hands over to whichever waiter wakes first.  *)
(*                                                                         *)
(* One upstream server is modelled.  A catalog is a version number: a pass *)
(* is interesting for how old its reads are, not for what it reads.        *)
(* Every step between two awaits, and every step under the coordinator's   *)
(* mutex, is an action; notify_waiters runs after the mutex is released    *)
(* and is an action of its own.                                            *)
(***************************************************************************)
EXTENDS Integers, FiniteSets

CONSTANTS
    Callers,        \* tasks that call refresh_tools
    Families,       \* catalog families
    Tools,          \* the family read from the list its upstream handle keeps
    MaxVersion,     \* bound: catalog changes explored
    MaxCalls        \* bound: refresh_tools calls explored

ASSUME ConstantsAssumption ==
    /\ Tools \in Families
    /\ MaxVersion \in Nat
    /\ MaxCalls \in Nat

VARIABLES
    upstream,       \* version of the lists as a pass finds them: the tools in the
                    \* upstream's handle, the other families at the server
    lastGood,       \* family -> version in the last-known-good cache
    published,      \* family -> version in the published snapshot
    carried,        \* families of the published snapshot that were carried forward
    availability,   \* what update_availability recorded: "healthy" | "degraded"
    completed,      \* completed_generation
    running,        \* running_generation, 0 for None
    trailing,       \* trailing_requested
    pc,             \* caller -> where its refresh_tools future is
    target,         \* caller -> target_generation
    leading,        \* caller -> leader_generation, 0 for None
    woken,          \* caller -> its Notified future has been notified
    unread,         \* caller -> families its pass has yet to read
    got,            \* caller -> family -> version its pass read
    missed,         \* caller -> families its pass found unavailable
    asked,          \* history: caller -> upstream version when its call began
    calls           \* calls made so far, for MaxCalls

coord == <<completed, running, trailing>>
catalog == <<upstream, lastGood, published, carried, availability>>
pass == <<unread, got, missed>>
vars == <<catalog, coord, pass, pc, target, leading, woken, asked, calls>>

None == 0
\* Where a leader may be while its pass runs; each of them is an await.
PassSteps == {"read", "prune", "sweep"}
NothingRead == [f \in Families |-> 0]

Init ==
    /\ upstream = 0
    /\ lastGood = [f \in Families |-> 0]
    /\ published = [f \in Families |-> 0]
    /\ carried = {}
    /\ availability = "healthy"
    /\ completed = 0 /\ running = None /\ trailing = FALSE
    /\ pc = [c \in Callers |-> "idle"]
    /\ target = [c \in Callers |-> 0]
    /\ leading = [c \in Callers |-> None]
    /\ woken = [c \in Callers |-> FALSE]
    /\ unread = [c \in Callers |-> {}]
    /\ got = [c \in Callers |-> NothingRead]
    /\ missed = [c \in Callers |-> {}]
    /\ asked = [c \in Callers |-> 0]
    /\ calls = 0

-----------------------------------------------------------------------------
\* What a pass would read changes: a list at the server or, for the tools, the copy
\* in the handle, which on_tool_list_changed or a reconnect has stored anew.  (That
\* the copy follows the server is ListChanged's subject.)
Change ==
    /\ upstream < MaxVersion
    /\ upstream' = upstream + 1
    /\ UNCHANGED <<lastGood, published, carried, availability, coord, pass,
                   pc, target, leading, woken, asked, calls>>

\* The locals of refresh_tools_once go away with its future.
DropPass(c) ==
    /\ unread' = [unread EXCEPT ![c] = {}]
    /\ missed' = [missed EXCEPT ![c] = {}]
    /\ got' = [got EXCEPT ![c] = NothingRead]

\* refresh_tools_once begins for generation g: nothing has been read yet.
BeginPass(c, g) ==
    /\ leading' = [leading EXCEPT ![c] = g]
    /\ unread' = [unread EXCEPT ![c] = Families]
    /\ missed' = [missed EXCEPT ![c] = {}]
    /\ got' = [got EXCEPT ![c] = NothingRead]
    /\ pc' = [pc EXCEPT ![c] = "read"]

\* Mutant: the caller is satisfied by the pass that was already running.
AskJoinsRunningPass(c) ==
    /\ running # None
    /\ trailing' = TRUE
    /\ target' = [target EXCEPT ![c] = running]
    /\ pc' = [pc EXCEPT ![c] = "arm"]
    /\ UNCHANGED <<completed, running, leading, pass>>

\* Entry of refresh_tools, under the mutex: join the running pass's successor...
AskWhileRunning(c) ==
    /\ running # None
    /\ trailing' = TRUE
    /\ target' = [target EXCEPT ![c] = running + 1]
    /\ pc' = [pc EXCEPT ![c] = "arm"]
    /\ UNCHANGED <<completed, running, leading, pass>>

\* Mutant: the running generation is not consulted.
AskAlwaysLeads(c) ==
    /\ running' = completed + 1
    /\ target' = [target EXCEPT ![c] = completed + 1]
    /\ BeginPass(c, completed + 1)
    /\ UNCHANGED <<completed, trailing>>

\* ... or lead the next generation.
AskWhileFree(c) ==
    /\ running = None
    /\ running' = completed + 1
    /\ target' = [target EXCEPT ![c] = completed + 1]
    /\ BeginPass(c, completed + 1)
    /\ UNCHANGED <<completed, trailing>>

Ask(c) ==
    /\ pc[c] \in {"idle", "done"}
    /\ calls < MaxCalls
    /\ calls' = calls + 1
    /\ asked' = [asked EXCEPT ![c] = upstream]
    /\ AskWhileRunning(c) \/ AskWhileFree(c)
    /\ UNCHANGED <<catalog, woken>>

\* get_tools reads the tool list the handle keeps, before anything is awaited.
ReadTools(c) ==
    /\ pc[c] = "read" /\ Tools \in unread[c]
    /\ got' = [got EXCEPT ![c][Tools] = upstream]
    /\ unread' = [unread EXCEPT ![c] = @ \ {Tools}]
    /\ UNCHANGED <<catalog, coord, missed, pc, target, leading, woken, asked, calls>>

\* A live listing answers: it is used and becomes the last-known-good.
ListFresh(c, f) ==
    /\ pc[c] = "read" /\ Tools \notin unread[c] /\ f \in unread[c]
    /\ got' = [got EXCEPT ![c][f] = upstream]
    /\ lastGood' = [lastGood EXCEPT ![f] = upstream]
    /\ unread' = [unread EXCEPT ![c] = @ \ {f}]
    /\ UNCHANGED <<upstream, published, carried, availability, coord, missed,
                   pc, target, leading, woken, asked, calls>>

\* A live listing fails or times out: the last-known-good is carried forward.
ListUnavailable(c, f) ==
    /\ pc[c] = "read" /\ Tools \notin unread[c] /\ f \in unread[c]
    /\ got' = [got EXCEPT ![c][f] = lastGood[f]]
    /\ missed' = [missed EXCEPT ![c] = @ \cup {f}]
    /\ unread' = [unread EXCEPT ![c] = @ \ {f}]
    /\ UNCHANGED <<catalog, coord, pc, target, leading, woken, asked, calls>>

\* Mutant: an upstream that answers none of its listings is reported absent.
RecordAbsent(c) ==
    /\ pc[c] = "read" /\ unread[c] = {}
    /\ availability' = IF missed[c] = {} THEN "healthy" ELSE "absent"
    /\ pc' = [pc EXCEPT ![c] = "prune"]
    /\ UNCHANGED <<upstream, lastGood, published, carried, coord, pass,
                   target, leading, woken, asked, calls>>

\* All listings are in: update_availability, then the prunes are awaited.
RecordAvailability(c) ==
    /\ pc[c] = "read" /\ unread[c] = {}
    /\ availability' = IF missed[c] = {} THEN "healthy" ELSE "degraded"
    /\ pc' = [pc EXCEPT ![c] = "prune"]
    /\ UNCHANGED <<upstream, lastGood, published, carried, coord, pass,
                   target, leading, woken, asked, calls>>

\* publish_route_snapshot, then the rebinds and the sweep are awaited.
PublishSnapshot(c) ==
    /\ pc[c] = "prune"
    /\ published' = got[c]
    /\ carried' = missed[c]
    /\ pc' = [pc EXCEPT ![c] = "sweep"]
    /\ UNCHANGED <<upstream, lastGood, availability, coord, pass,
                   target, leading, woken, asked, calls>>

\* The pass is over: under the mutex the leader records it and, if anyone asked
\* meanwhile, keeps the lead for the trailing generation.
Complete(c) ==
    /\ pc[c] = "sweep"
    /\ completed' = leading[c]
    /\ IF trailing
       THEN /\ running' = leading[c] + 1
            /\ leading' = [leading EXCEPT ![c] = leading[c] + 1]
       ELSE /\ running' = None
            /\ leading' = [leading EXCEPT ![c] = None]
    /\ trailing' = FALSE
    /\ DropPass(c)
    /\ pc' = [pc EXCEPT ![c] = "notify"]
    /\ UNCHANGED <<catalog, target, woken, asked, calls>>

\* notify_waiters reaches every Notified future that exists now.
WakeWaiters == woken' = [w \in Callers |-> woken[w] \/ pc[w] \in {"check", "park"}]

NotifyAndLead(c) ==
    /\ pc[c] = "notify" /\ leading[c] # None
    /\ WakeWaiters
    /\ BeginPass(c, leading[c])
    /\ UNCHANGED <<catalog, coord, target, asked, calls>>

NotifyAndReturn(c) ==
    /\ pc[c] = "notify" /\ leading[c] = None
    /\ WakeWaiters
    /\ pc' = [pc EXCEPT ![c] = "done"]
    /\ UNCHANGED <<catalog, coord, pass, target, leading, asked, calls>>

\* A waiter creates its Notified future before it looks at the state.
Arm(c) ==
    /\ pc[c] = "arm"
    /\ woken' = [woken EXCEPT ![c] = FALSE]
    /\ pc' = [pc EXCEPT ![c] = "check"]
    /\ UNCHANGED <<catalog, coord, pass, target, leading, asked, calls>>

CheckSatisfied(c) ==
    /\ pc[c] = "check" /\ completed >= target[c]
    /\ pc' = [pc EXCEPT ![c] = "done"]
    /\ UNCHANGED <<catalog, coord, pass, target, leading, woken, asked, calls>>

\* Mutant: a woken waiter leads without looking whether somebody already does.
CheckTakesOverBlindly(c) ==
    /\ pc[c] = "check" /\ completed < target[c]
    /\ running' = completed + 1
    /\ BeginPass(c, completed + 1)
    /\ UNCHANGED <<catalog, completed, trailing, target, woken, asked, calls>>

\* Nobody leads (the leader was cancelled): this waiter takes over.
CheckTakesOver(c) ==
    /\ pc[c] = "check" /\ completed < target[c] /\ running = None
    /\ running' = completed + 1
    /\ BeginPass(c, completed + 1)
    /\ UNCHANGED <<catalog, completed, trailing, target, woken, asked, calls>>

\* Mutant: the decision to wait is made before the Notified future exists, so
\* what it was made on may have changed.
WaitOnStaleLook(c) ==
    /\ pc[c] = "check"
    /\ pc' = [pc EXCEPT ![c] = "park"]
    /\ UNCHANGED <<catalog, coord, pass, target, leading, woken, asked, calls>>

CheckMustWait(c) ==
    /\ pc[c] = "check" /\ completed < target[c] /\ running # None
    /\ pc' = [pc EXCEPT ![c] = "park"]
    /\ UNCHANGED <<catalog, coord, pass, target, leading, woken, asked, calls>>

Wake(c) ==
    /\ pc[c] = "park" /\ woken[c]
    /\ woken' = [woken EXCEPT ![c] = FALSE]
    /\ pc' = [pc EXCEPT ![c] = "arm"]
    /\ UNCHANGED <<catalog, coord, pass, target, leading, asked, calls>>

\* Mutant: the guard releases the lead but wakes nobody.
CancelLeaderSilently(c) ==
    /\ pc[c] \in PassSteps /\ ~(pc[c] = "read" /\ Tools \in unread[c])
    /\ running' = IF running = leading[c] THEN None ELSE running
    /\ leading' = [leading EXCEPT ![c] = None]
    /\ DropPass(c)
    /\ pc' = [pc EXCEPT ![c] = "idle"]
    /\ UNCHANGED <<catalog, completed, trailing, target, woken, asked, calls>>

\* The future of a leader is dropped at an await: RefreshLeaderGuard releases
\* the lead, then notifies.  A pass in flight is dropped whole.
CancelLeader(c) ==
    /\ pc[c] \in PassSteps /\ ~(pc[c] = "read" /\ Tools \in unread[c])
    /\ running' = IF running = leading[c] THEN None ELSE running
    /\ leading' = [leading EXCEPT ![c] = None]
    /\ DropPass(c)
    /\ pc' = [pc EXCEPT ![c] = "drop"]
    /\ UNCHANGED <<catalog, completed, trailing, target, woken, asked, calls>>

DropNotifies(c) ==
    /\ pc[c] = "drop"
    /\ WakeWaiters
    /\ pc' = [pc EXCEPT ![c] = "idle"]
    /\ UNCHANGED <<catalog, coord, pass, target, leading, asked, calls>>

CancelWaiter(c) ==
    /\ pc[c] = "park"
    /\ pc' = [pc EXCEPT ![c] = "idle"]
    /\ UNCHANGED <<catalog, coord, pass, target, leading, woken, asked, calls>>

-----------------------------------------------------------------------------
\* The steps a caller's future takes on its own once it has asked.
Progress(c) ==
    \/ ReadTools(c)
    \/ \E f \in Families : ListFresh(c, f) \/ ListUnavailable(c, f)
    \/ RecordAvailability(c) \/ PublishSnapshot(c) \/ Complete(c)
    \/ NotifyAndLead(c) \/ NotifyAndReturn(c)
    \/ Arm(c) \/ CheckSatisfied(c) \/ CheckTakesOver(c) \/ CheckMustWait(c)
    \/ Wake(c) \/ DropNotifies(c)

Next ==
    \/ Change
    \/ \E c \in Callers : Ask(c) \/ Progress(c) \/ CancelLeader(c) \/ CancelWaiter(c)

Spec == Init /\ [][Next]_vars

\* Every listing is bounded by call_timeout_secs, so a pass always moves on; a
\* task whose future is not dropped is polled again when it is woken.
FairSpec == Spec /\ \A c \in Callers : WF_vars(Progress(c))

-----------------------------------------------------------------------------
(* Properties *)

PcValues == PassSteps \cup {"idle", "arm", "check", "park", "notify", "drop", "done"}

\* Types of the coordinator's state and of each caller's future.
TypeOK ==
    /\ upstream \in Nat
    /\ lastGood \in [Families -> Nat] /\ published \in [Families -> Nat]
    /\ carried \subseteq Families
    /\ availability \in {"healthy", "degraded"}
    /\ completed \in Nat /\ running \in Nat /\ trailing \in BOOLEAN
    /\ pc \in [Callers -> PcValues]
    /\ target \in [Callers -> Nat] /\ leading \in [Callers -> Nat]
    /\ woken \in [Callers -> BOOLEAN]
    /\ unread \in [Callers -> SUBSET Families]
    /\ missed \in [Callers -> SUBSET Families]
    /\ got \in [Callers -> [Families -> Nat]]
    /\ asked \in [Callers -> Nat]
    /\ calls \in Nat

\* "refresh_coordinator runs one refresh_tools_once at a time, and a cancelled
\* leader's future is dropped whole before a waiter can take over": two passes
\* never overlap, however callers ask, are cancelled and take over.
OnePassAtATime ==
    \A c, d \in Callers : pc[c] \in PassSteps /\ pc[d] \in PassSteps => c = d

\* When the pass that published ends, the availability reported for the upstream
\* describes the published snapshot: degraded exactly when a family of it was
\* carried forward.  An overlapping pass would overwrite one but not the other.
AvailabilityMatchesSnapshot ==
    \A c \in Callers :
        pc[c] = "sweep" => ((availability = "degraded") <=> (carried # {}))

\* A task that waits on the Notify always has somebody who will notify it: a
\* leader whose generation is running, or one that has let go and is about to.
SomeoneWillNotify ==
    \A c \in Callers :
        pc[c] = "park" /\ ~woken[c] =>
            \E d \in Callers \ {c} : pc[d] \in PassSteps \cup {"notify", "drop"}

\* What callers observe: refresh_tools keeps the promise of RefreshContract.
callMap == [c \in Callers |->
    CASE pc[c] = "idle" -> "idle" [] pc[c] = "drop" -> "idle"
      [] pc[c] = "done" -> "done" [] OTHER -> "asked"]

Contract == INSTANCE RefreshContract WITH call <- callMap

\* A caller whose await returns finds a snapshot at least as new as its call,
\* but for the families carried forward; snapshots never go back in time; and a
\* call only ends by such a return or by being dropped.
KeepsContract == Contract!Spec

\* Every call to refresh_tools ends: it returns or its future is dropped.
EveryCallEnds ==
    \A c \in Callers : (pc[c] \notin {"idle", "done"}) ~> (pc[c] \in {"idle", "done"})
=============================================================================
