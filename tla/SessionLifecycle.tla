-------------------------- MODULE SessionLifecycle --------------------------
(***************************************************************************)
(* How downstream HTTP sessions come, go and come back                     *)
(* (plug-core/src/session/stateful.rs, http/server.rs, plug/src/runtime.rs)*)
(*                                                                         *)
(* The store holds the sessions; the daemon holds things under their ids   *)
(* elsewhere: subscriptions, the notification bridge with capabilities and *)
(* reverse requests ("wiring"), and log level, lazy tools and tasks        *)
(* ("tasks").  A session leaves the store when it expires, makes room, its *)
(* sign-in ends or its client deletes it; teardown_session then releases   *)
(* the rest in three parts with awaits between them, run by the DELETE     *)
(* handler or by the one listener that takes ids from the expiry channel.  *)
(* A client that still has the id of a session that was lost opens it     *)
(* again under that id.                                                    *)
(***************************************************************************)
EXTENDS Integers, Sequences, FiniteSets

CONSTANTS
    Ids,          \* session ids
    Reqs,         \* requests served at a time
    MaxSessions,  \* http.max_sessions
    ClosedKept,   \* CLOSED_SESSIONS_KEPT, 512
    MaxAsks,      \* bound: requests made
    MaxSignOuts,  \* bound: sign-ins that end
    MaxEnding,    \* bound: calls of `end` on their way beside the requests'
    NoId          \* no session id

ASSUME SessionAssumption ==
    /\ NoId \notin Ids
    /\ {MaxSessions, ClosedKept, MaxAsks, MaxSignOuts, MaxEnding} \subseteq Nat \ {0}

VARIABLES
    store,      \* sessions, a SessionState for each id
    issued,     \* ids that clients were answered with
    asks,       \* how many requests were made
    signedIn,   \* ids whose client's sign-in holds
    signIn,     \* which sign-in of its client that is, or the last was
    closed,     \* closed, newest last
    held,       \* what the daemon holds under each id
    expiry,     \* the expiry channel
    listener,   \* the teardown the expiry listener runs
    doomed,     \* candidates of the cleanup task
    ending,     \* calls of `end` on their way: the id, and the sign-in found over
    admission,  \* who holds admission_lock across make_room
    reqs,       \* requests
    stray       \* history: held with no teardown to come, see NothingLeftBehind

vars == <<store, issued, asks, signedIn, signIn, ending, closed, held, expiry, listener,
          doomed, admission, reqs, stray>>

Items == {"subs", "wiring", "tasks"}

\* The part of teardown_session that releases an item.
Part(item) == CASE item = "subs" -> 1 [] item = "wiring" -> 2 [] item = "tasks" -> 3

\* Age 0: used in the last minute; 1: quiet; 2: past the session timeout.
Fresh == 0
Quiet == 1
Expired == 2

\* seen: make_room has looked at the session and it was not used since.
\* wired: its bridge was registered.  lease: the sign-in its grant and its
\* access check are of.
Unbound == 0
Gone == [on |-> FALSE, age |-> Fresh, stream |-> FALSE, lease |-> Unbound,
         seen |-> FALSE, wired |-> FALSE]
New == [Gone EXCEPT !.on = TRUE]

\* last_activity is now.
Used(session) == [session EXCEPT !.age = Fresh, !.seen = FALSE]

\* lease: the sign-in the request's token is of; at "end", the session's.
Free == [pc |-> "idle", id |-> NoId, kind |-> "use", victim |-> NoId, lease |-> Unbound]
Resting == [id |-> NoId, part |-> 1]

Open == {s \in Ids : store[s].on}
Old == {s \in Open : store[s].age = Expired}

\* access_ended: the access check was set and no longer holds.
Over(s, lease) == lease < signIn[s] \/ (lease = signIn[s] /\ s \notin signedIn)
Ended(s) == store[s].lease # Unbound /\ Over(s, store[s].lease)

\* Sessions a prune drops and reports, in some order.
Reports(S) == {q \in [1..Cardinality(S) -> S] : \A i, j \in DOMAIN q : q[i] = q[j] => i = j}

Goes(r, pc) == reqs' = [reqs EXCEPT ![r].pc = pc]
Ends(r) == reqs' = [reqs EXCEPT ![r] = Free]

(***************************************************************************)
(* Requests                                                                *)
(***************************************************************************)

\* initialize (creates a session), DELETE, GET, or a POST that leaves an item
\* behind.
Kinds == {"initialize", "delete", "stream"} \cup Items

Ask(r, s, kind) ==
    /\ reqs[r].pc = "idle"
    /\ s \in signedIn
    /\ (kind = "initialize") = (s \notin issued)
    /\ kind = "initialize" => \A q \in Reqs : reqs[q].id # s
    /\ asks < MaxAsks /\ asks' = asks + 1
    /\ reqs' = [reqs EXCEPT ![r] =
           [pc |-> IF kind = "delete" THEN "remove" ELSE "admit",
            id |-> s, kind |-> kind, victim |-> NoId, lease |-> signIn[s]]]
    /\ UNCHANGED <<store, issued, signedIn, signIn, ending, closed, held, expiry,
                   listener, doomed, admission, stray>>

\* Whether there is room beside these sessions.
HasRoom(S) == Cardinality(S) < MaxSessions

\* insert_new, by create_session or reopen_session, with admission_lock.
Insert(s, room) ==
    store' = [t \in Ids |-> IF t = s THEN New ELSE IF t \in room THEN store[t] ELSE Gone]

\* reopen_session finds the session, or finds it closed, once the expired
\* ones are gone.
AdmitFound(r) ==
    LET s == reqs[r].id IN
    /\ reqs[r].pc = "admit" /\ admission = NoId
    /\ reqs[r].kind # "initialize"
    /\ s \in Open \ Old \/ s \in {closed[i] : i \in 1..Len(closed)}
    /\ store' = [t \in Ids |-> IF t \in Old THEN Gone ELSE store[t]]
    /\ \E q \in Reports(Old) : expiry' = expiry \o q
    /\ Goes(r, "validate")
    /\ UNCHANGED <<issued, asks, signedIn, signIn, ending, closed, held, listener, doomed,
                   admission, stray>>

MayOpen(r) ==
    /\ reqs[r].pc = "admit" /\ admission = NoId
    /\ reqs[r].kind # "initialize" =>
          /\ reqs[r].id \notin Open \ Old
          /\ reqs[r].id \notin {closed[i] : i \in 1..Len(closed)}

\* There is room once the expired ones are gone.
AdmitOpens(r) ==
    /\ MayOpen(r)
    /\ HasRoom(Open \ Old)
    /\ Insert(reqs[r].id, Open \ Old)
    /\ \E q \in Reports(Old) : expiry' = expiry \o q
    /\ Goes(r, "bind")
    /\ UNCHANGED <<issued, asks, signedIn, signIn, ending, closed, held, listener, doomed, admission, stray>>

\* make_room looks for the quietest session without a stream.
Droppable == {s \in Open \ Old : store[s].age = Quiet /\ ~store[s].stream}

AdmitLooks(r) ==
    /\ MayOpen(r)
    /\ ~HasRoom(Open \ Old)
    /\ \E q \in Reports(Old) : expiry' = expiry \o q
    /\ \/ /\ Droppable = {}
          /\ store' = [t \in Ids |-> IF t \in Old THEN Gone ELSE store[t]]
          /\ IF reqs[r].kind = "initialize" THEN Ends(r) ELSE Goes(r, "validate")
          /\ UNCHANGED admission
       \/ \E v \in Droppable :
             /\ store' = [t \in Ids |-> IF t \in Old THEN Gone
                            ELSE [store[t] EXCEPT !.seen = t = v]]
             /\ reqs' = [reqs EXCEPT ![r].pc = "evict", ![r].victim = v]
             /\ admission' = reqs[r].id
    /\ UNCHANGED <<issued, asks, signedIn, signIn, ending, closed, held, listener, doomed, stray>>

\* Mutant: whatever it did in between.
EvictBlindly(v) == store[v].on

\* make_room removes it only if it was not used in between.
Evicts(v) == store[v].on /\ store[v].seen

\* Mutant: the listener is not told.
EvictedUnsaid(v) == expiry

\* A session that was evicted is reported to the listener.
Evicted(v) == Append(expiry, v)

AdmitEvicts(r) ==
    LET v == reqs[r].victim
        left == IF Evicts(v) THEN Open \ {v} ELSE Open
    IN
    /\ reqs[r].pc = "evict"
    /\ admission' = NoId
    /\ expiry' = IF Evicts(v) THEN Evicted(v) ELSE expiry
    /\ \/ /\ HasRoom(left)
          /\ Insert(reqs[r].id, left)
          /\ reqs' = [reqs EXCEPT ![r].pc = "bind", ![r].victim = NoId]
       \/ /\ ~HasRoom(left)
          /\ store' = [t \in Ids |-> IF t \in left THEN store[t] ELSE Gone]
          /\ IF reqs[r].kind = "initialize" THEN Ends(r)
             ELSE reqs' = [reqs EXCEPT ![r].pc = "validate", ![r].victim = NoId]
    /\ UNCHANGED <<issued, asks, signedIn, signIn, ending, closed, held, listener, doomed, stray>>

\* bind_session_to_caller.
Bind(r) ==
    LET s == reqs[r].id
        init == reqs[r].kind = "initialize"
    IN
    /\ reqs[r].pc = "bind"
    /\ \/ /\ store[s].on
          /\ store' = [store EXCEPT ![s].lease = reqs[r].lease]
          /\ Goes(r, IF init THEN "effect" ELSE "wire")
       \/ /\ ~store[s].on
          /\ IF init THEN Ends(r) ELSE Goes(r, "unbind")
          /\ UNCHANGED store
    /\ UNCHANGED <<issued, asks, signedIn, signIn, ending, closed, held, expiry, listener,
                   doomed, admission, stray>>

\* push to the list of closed sessions.
RecordClosed(s) ==
    closed' = Append(IF Len(closed) = ClosedKept THEN Tail(closed) ELSE closed, s)

\* What becomes stray when it has, or is put where there is, no session.
StrayOf(s) == {s} \X held[s]

\* reopen_lost_session takes back a session it could not bind.
Unbind(r) ==
    LET s == reqs[r].id IN
    /\ reqs[r].pc = "unbind"
    /\ \/ ~store[s].on /\ UNCHANGED <<store, closed, stray>>
       \/ /\ store[s].on
          /\ store' = [store EXCEPT ![s] = Gone]
          /\ RecordClosed(s)
          /\ stray' = stray \cup StrayOf(s)
    /\ Goes(r, "validate")
    /\ UNCHANGED <<issued, asks, signedIn, signIn, ending, held, expiry, listener, doomed,
                   admission>>

Holds(s, item) ==
    /\ held' = [held EXCEPT ![s] = @ \cup {item}]
    /\ stray' = IF store[s].on THEN stray ELSE stray \cup {<<s, item>>}

\* The reopened session's bridge is registered, without `initialized`.
Wire(r) ==
    LET s == reqs[r].id IN
    /\ reqs[r].pc = "wire"
    /\ Holds(s, "wiring")
    /\ store' = [store EXCEPT ![s].wired = store[s].on]
    /\ Goes(r, "validate")
    /\ UNCHANGED <<issued, asks, signedIn, signIn, ending, closed, expiry, listener, doomed,
                   admission>>

\* Mutant: the recheck under the lock is left out.
StillOn(s) == store[s].on

\* remove_if_expired looks again under the shard's lock.
StillExpired(s) == store[s].on /\ store[s].age = Expired

\* The session is taken out and the expiry listener told.
TakenOut(s) == store' = [store EXCEPT ![s] = Gone] /\ expiry' = Append(expiry, s)

RemoveIfExpired(s) == IF StillExpired(s) THEN TakenOut(s) ELSE UNCHANGED <<store, expiry>>

\* end: whatever session has the id by now.
End(s) == IF store[s].on THEN TakenOut(s) ELSE UNCHANGED <<store, expiry>>

\* with_live_session_mut: it lets go of the entry before an expired or ended
\* session is dropped.
Validate(r) ==
    LET s == reqs[r].id IN
    /\ reqs[r].pc = "validate"
    /\ \/ /\ store[s].on /\ store[s].age # Expired /\ ~Ended(s)
          /\ store' = [store EXCEPT ![s] = Used(@)]
          /\ Goes(r, "effect")
       \/ StillExpired(s) /\ Goes(r, "expire") /\ UNCHANGED store
       \/ /\ store[s].on /\ store[s].age # Expired /\ Ended(s)
          /\ reqs' = [reqs EXCEPT ![r].pc = "end", ![r].lease = store[s].lease]
          /\ UNCHANGED store
       \/ ~store[s].on /\ Ends(r) /\ UNCHANGED store
    /\ UNCHANGED <<issued, asks, signedIn, signIn, ending, closed, held, expiry, listener, doomed,
                   admission, stray>>

DropExpired(r) ==
    /\ reqs[r].pc = "expire"
    /\ RemoveIfExpired(reqs[r].id)
    /\ Ends(r)
    /\ UNCHANGED <<issued, asks, signedIn, signIn, ending, closed, held, listener, doomed,
                   admission, stray>>

DropEnded(r) ==
    /\ reqs[r].pc = "end"
    /\ End(reqs[r].id)
    /\ Ends(r)
    /\ UNCHANGED <<issued, asks, signedIn, signIn, ending, closed, held, listener, doomed,
                   admission, stray>>

\* What the handler does once the session was found: initialize and
\* `initialized` leave capabilities and a bridge, a subscription or a task
\* is recorded, set_sse_sender installs a stream.
Effect(r) ==
    LET s == reqs[r].id
        item == IF reqs[r].kind = "initialize" THEN "wiring" ELSE reqs[r].kind
    IN
    /\ reqs[r].pc = "effect"
    /\ Ends(r)
    /\ issued' = IF reqs[r].kind = "initialize" THEN issued \cup {s} ELSE issued
    /\ \/ /\ reqs[r].kind = "stream"
          /\ store' = IF store[s].on
                      THEN [store EXCEPT ![s] = [Used(@) EXCEPT !.stream = TRUE]]
                      ELSE store
          /\ UNCHANGED <<held, stray>>
       \/ /\ reqs[r].kind # "stream"
          /\ Holds(s, item)
          /\ store' = [store EXCEPT ![s].wired =
                          @ \/ (item = "wiring" /\ store[s].on)]
    /\ UNCHANGED <<asks, signedIn, signIn, ending, closed, expiry, listener, doomed,
                   admission>>

\* DELETE: remove takes the session out and then records it as closed.
Remove(r) ==
    LET s == reqs[r].id IN
    /\ reqs[r].pc = "remove"
    /\ store' = [store EXCEPT ![s] = Gone]
    /\ IF store[s].on THEN Goes(r, "record") ELSE Ends(r)
    /\ UNCHANGED <<issued, asks, signedIn, signIn, ending, closed, held, expiry, listener,
                   doomed, admission, stray>>

Record(r) ==
    /\ reqs[r].pc = "record"
    /\ RecordClosed(reqs[r].id)
    /\ Goes(r, "part1")
    /\ UNCHANGED <<store, issued, asks, signedIn, signIn, ending, held, expiry, listener,
                   doomed, admission, stray>>

(***************************************************************************)
(* Teardown                                                                *)
(***************************************************************************)

PartOf(pc) == CASE pc = "part1" -> 1 [] pc = "part2" -> 2 [] pc = "part3" -> 3 [] OTHER -> 0

PartPc(k) == CASE k = 1 -> "part1" [] k = 2 -> "part2" [] k = 3 -> "part3"

\* One part of teardown_session, up to its next await.
Release(s, k) ==
    /\ held' = [held EXCEPT ![s] = {item \in @ : Part(item) # k}]
    /\ stray' = {x \in stray : ~(x[1] = s /\ Part(x[2]) = k)}

DeleteStep(r) ==
    LET k == PartOf(reqs[r].pc) IN
    /\ k # 0
    /\ Release(reqs[r].id, k)
    /\ IF k = 3 THEN Ends(r) ELSE Goes(r, PartPc(k + 1))
    /\ UNCHANGED <<store, issued, asks, signedIn, signIn, ending, closed, expiry, listener,
                   doomed, admission>>

\* The client of a DELETE hangs up and the handler is dropped at an await.
DeleteDropped(r) ==
    LET s == reqs[r].id IN
    /\ PartOf(reqs[r].pc) > 1
    /\ stray' = stray \cup {x \in StrayOf(s) : ~store[s].on}
    /\ Ends(r)
    /\ UNCHANGED <<store, issued, asks, signedIn, signIn, ending, closed, held, expiry,
                   listener, doomed, admission>>

ListenerTake ==
    /\ listener.id = NoId /\ expiry # <<>>
    /\ listener' = [id |-> Head(expiry), part |-> 1]
    /\ expiry' = Tail(expiry)
    /\ UNCHANGED <<store, issued, asks, signedIn, signIn, ending, closed, held, doomed,
                   admission, reqs, stray>>

ListenerStep ==
    /\ listener.id # NoId
    /\ Release(listener.id, listener.part)
    /\ listener' = IF listener.part = 3 THEN Resting
                   ELSE [listener EXCEPT !.part = @ + 1]
    /\ UNCHANGED <<store, issued, asks, signedIn, signIn, ending, closed, expiry, doomed,
                   admission, reqs>>

(***************************************************************************)
(* Time, sign-ins and the cleanup task                                     *)
(***************************************************************************)

Age(s) ==
    /\ store[s].on /\ store[s].age < Expired
    /\ store' = [store EXCEPT ![s].age = @ + 1]
    /\ UNCHANGED <<issued, asks, signedIn, signIn, ending, closed, held, expiry, listener,
                   doomed, admission, reqs, stray>>

\* The stream's heartbeat validates the session.
Heartbeat(s) ==
    /\ store[s].on /\ store[s].stream /\ store[s].age = Quiet /\ ~Ended(s)
    /\ store' = [store EXCEPT ![s] = Used(@)]
    /\ UNCHANGED <<issued, asks, signedIn, signIn, ending, closed, held, expiry, listener,
                   doomed, admission, reqs, stray>>

StreamCloses(s) ==
    /\ store[s].stream
    /\ store' = [store EXCEPT ![s].stream = FALSE]
    /\ UNCHANGED <<issued, asks, signedIn, signIn, ending, closed, held, expiry, listener,
                   doomed, admission, reqs, stray>>

\* prune_expired_sessions of the cleanup task collects its candidates.
CleanupCollects ==
    /\ doomed = {} /\ Old # {}
    /\ doomed' = Old
    /\ UNCHANGED <<store, issued, asks, signedIn, signIn, ending, closed, held, expiry,
                   listener, admission, reqs, stray>>

\* The cleanup task removes those that are still expired.
CleanupRemoves(s) ==
    /\ s \in doomed
    /\ doomed' = doomed \ {s}
    /\ RemoveIfExpired(s)
    /\ UNCHANGED <<issued, asks, signedIn, signIn, ending, closed, held, listener, admission,
                   reqs, stray>>

SignInEnds(s) ==
    /\ s \in signedIn
    /\ Cardinality({x \in Ids \X (1..MaxSignOuts) : Over(x[1], x[2])}) < MaxSignOuts
    /\ signedIn' = signedIn \ {s}
    /\ UNCHANGED <<store, issued, asks, signIn, ending, closed, held, expiry,
                   listener, doomed, admission, reqs, stray>>

SignInAgain(s) ==
    /\ s \notin signedIn
    /\ signedIn' = signedIn \cup {s}
    /\ signIn' = [signIn EXCEPT ![s] = @ + 1]
    /\ UNCHANGED <<store, issued, asks, ending, closed, held, expiry, listener,
                   doomed, admission, reqs, stray>>

\* A broadcast or a send to the session finds its sign-in over.
SendFindsEnded(s) ==
    /\ store[s].on /\ store[s].age # Expired /\ Ended(s)
    /\ Cardinality(ending) < MaxEnding
    /\ ending' = ending \cup {<<s, store[s].lease>>}
    /\ UNCHANGED <<store, issued, asks, signedIn, signIn, closed, held, expiry,
                   listener, doomed, admission, reqs, stray>>

\* end_sessions_of: an operator removes the client, or fails to, and the
\* sessions with its grant are collected whatever became of the sign-in.
RevokeCollects(s) ==
    /\ store[s].lease # Unbound
    /\ Cardinality(ending) < MaxEnding
    /\ ending' = ending \cup {<<s, Unbound>>}
    /\ UNCHANGED <<store, issued, asks, signedIn, signIn, closed, held, expiry,
                   listener, doomed, admission, reqs, stray>>

EndSession(e) ==
    /\ ending' = ending \ {e}
    /\ End(e[1])
    /\ UNCHANGED <<issued, asks, signedIn, signIn, closed, held, listener, doomed,
                   admission, reqs, stray>>

-----------------------------------------------------------------------------

Init ==
    /\ store = [s \in Ids |-> Gone]
    /\ issued = {} /\ asks = 0 /\ signedIn = Ids /\ signIn = [s \in Ids |-> 1]
    /\ closed = <<>> /\ expiry = <<>>
    /\ held = [s \in Ids |-> {}]
    /\ listener = Resting /\ doomed = {} /\ ending = {} /\ admission = NoId
    /\ reqs = [r \in Reqs |-> Free]
    /\ stray = {}

RequestStep(r) ==
    \/ AdmitFound(r) \/ AdmitOpens(r) \/ AdmitLooks(r) \/ AdmitEvicts(r)
    \/ Bind(r) \/ Unbind(r) \/ Wire(r) \/ Validate(r) \/ DropExpired(r)
    \/ DropEnded(r) \/ Effect(r) \/ Remove(r) \/ Record(r) \/ DeleteStep(r)

Next ==
    \/ \E r \in Reqs, s \in Ids, kind \in Kinds : Ask(r, s, kind)
    \/ \E r \in Reqs : RequestStep(r) \/ DeleteDropped(r)
    \/ ListenerTake \/ ListenerStep
    \/ \E s \in Ids : Age(s) \/ Heartbeat(s) \/ StreamCloses(s)
    \/ CleanupCollects \/ \E s \in Ids : CleanupRemoves(s)
    \/ \E s \in Ids : SignInEnds(s) \/ SignInAgain(s)
    \/ \E s \in Ids : SendFindsEnded(s) \/ RevokeCollects(s)
    \/ \E e \in ending : EndSession(e)

Spec == Init /\ [][Next]_vars

-----------------------------------------------------------------------------

Pcs == {"idle", "admit", "evict", "bind", "unbind", "wire", "validate",
        "expire", "end", "effect", "remove", "record", "part1", "part2", "part3"}

\* The types, the admission limit and the length of the list of closed
\* sessions.
TypeOK ==
    /\ store \in [Ids -> [on : BOOLEAN, age : 0..2, stream : BOOLEAN,
                          lease : Nat, seen : BOOLEAN, wired : BOOLEAN]]
    /\ \A s \in Ids : ~store[s].on => store[s] = Gone
    /\ Cardinality(Open) <= MaxSessions
    /\ issued \subseteq Ids /\ signedIn \subseteq Ids /\ doomed \subseteq Ids
    /\ signIn \in [Ids -> Nat \ {0}] /\ ending \subseteq Ids \X Nat
    /\ asks \in 0..MaxAsks
    /\ closed \in Seq(Ids) /\ Len(closed) <= ClosedKept
    /\ expiry \in Seq(Ids) /\ Len(expiry) <= asks
    /\ held \in [Ids -> SUBSET Items]
    /\ listener \in [id : Ids \cup {NoId}, part : 1..3]
    /\ admission \in Ids \cup {NoId}
    /\ reqs \in [Reqs -> [pc : Pcs, id : Ids \cup {NoId}, kind : Kinds \cup {"use"},
                          victim : Ids \cup {NoId}, lease : Nat]]
    /\ stray \subseteq Ids \X Items

\* The step is an `end` of s that did not ask about the session that is there:
\* an operator removes its client, or the sign-in found over was another.
EndsAnother(s) ==
    \/ \E e \in ending \ ending' : e[1] = s /\ (e[2] = Unbound \/ e[2] # store[s].lease)
    \/ \E r \in Reqs : /\ reqs[r].id = s /\ reqs[r].pc = "end" /\ reqs'[r].pc # "end"
                       /\ reqs[r].lease # store[s].lease

\* A session leaves the store only when it is past its timeout, quiet with no
\* stream open, its sign-in has ended, or a request of its own client removes
\* it: never while a request has just used it (remove_if_expired, make_room).
\* Two ends do not ask what is there when they come to remove it, and can take
\* a session in use: the one of an operator's removal of the client, and the
\* one of a check that found an earlier session of the id ended.
KeptWhileUsed ==
    [][\A s \in Ids : store[s].on /\ ~store'[s].on =>
          \/ store[s].age = Expired
          \/ store[s].age = Quiet /\ ~store[s].stream
          \/ Ended(s)
          \/ \E r \in Reqs : reqs[r].id = s /\ reqs[r].pc \in {"remove", "unbind"}
          \/ EndsAnother(s)
       ]_vars

\* A teardown of s that has its part k still to come.
Coming(s, k) ==
    \/ \E i \in 1..Len(expiry) : expiry[i] = s
    \/ listener.id = s /\ listener.part <= k
    \/ \E r \in Reqs : reqs[r].id = s /\
          (reqs[r].pc = "record" \/ PartOf(reqs[r].pc) \in 1..k)

\* What the daemon holds for a session that has left the store will be
\* released by a teardown, unless a request put it there after the session
\* had gone, the DELETE that was to release it was dropped half-way, or a
\* reopening that failed took the session out (teardown_session).
NothingLeftBehind ==
    /\ TypeOK
    /\ \A s \in Ids : ~store[s].on =>
          \A item \in held[s] : <<s, item>> \in stray \/ Coming(s, Part(item))

(***************************************************************************)
(* What comments and tests of the repository say and the code does not     *)
(* keep: TLC finds each violated (README, section 4).                      *)
(***************************************************************************)

\* A session its client has not closed keeps the bridge it was given: "the
\* session is wired for notifications here" (reopen_lost_session).
ReopenedStaysWired ==
    \A s \in Ids \ {closed[i] : i \in 1..Len(closed)} :
        store[s].wired => "wiring" \in held[s]

\* An operator's removal of a client ends sessions whose sign-in is over, as it
\* is before the save is tried: "The grant stopped working before the save was
\* tried, so its sessions end even though the save failed" (daemon/mod.rs).
RevokedHaveEnded ==
    [][\A s \in Ids : <<s, Unbound>> \in ending \ ending' /\ store[s].on => Ended(s)]_vars

\* No session is removed on what was seen of another: "Checking expiry and
\* removing in two steps let a request that touched the session in between lose
\* its session anyway" (remove_if_expired; end was left as it was).
EndsWhatItChecked ==
    [][\A s \in Ids : store[s].on /\ ~store'[s].on /\ EndsAnother(s) =>
          store[s].lease = Unbound \/ Ended(s) \/ <<s, Unbound>> \in ending]_vars

=============================================================================
