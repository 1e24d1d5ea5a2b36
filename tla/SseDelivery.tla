---------------------------- MODULE SseDelivery ----------------------------
(***************************************************************************)
(* What one HTTP client is told over its event stream                      *)
(* (plug-core/src/session/stateful.rs, http/sse.rs, http/server.rs).       *)
(*                                                                         *)
(* A session numbers its events and keeps the last ones twice: in          *)
(* replay_events, for a client that comes back with a Last-Event-Id, and,  *)
(* while nobody takes them, in pending_notifications, for a client that    *)
(* comes back without.  A targeted send holds the session's lock twice:    *)
(* once to number the event and try the stream, once more to queue it; the *)
(* client may reconnect, or another event be sent, in between.  A stream's *)
(* first event is always numbered 0.                                       *)
(*                                                                         *)
(* An event is [id, uid]: the number the session gave it and, for the      *)
(* properties, which of all sends it is.                                   *)
(***************************************************************************)
EXTENDS Integers, Sequences, FiniteSets

CONSTANTS
    PendingLimit,  \* PENDING_LIMIT, 32
    ReplayLimit,   \* REPLAY_LIMIT, 128
    ChanCap,       \* sse_channel_capacity
    MaxSends,      \* bound: events sent
    MaxConnects,   \* bound: streams opened
    MaxAsked,      \* bound: requests to the client waited for at a time
    MaxLosses      \* bound: times the session is lost and opened again

ASSUME LimitsAssumption ==
    /\ {PendingLimit, ReplayLimit, ChanCap} \subseteq Nat \ {0}
    /\ PendingLimit <= ReplayLimit
    /\ {MaxSends, MaxConnects, MaxAsked, MaxLosses} \subseteq Nat

VARIABLES
    sess,      \* SessionState
    conn,      \* the stream the client opened last, both ends of it
    last,      \* the Last-Event-Id the client would send, -1 for none
    fresh,     \* last was issued by the session as it now is
    flight,    \* targeted sends between their two halves
    sent,      \* how many events were sent
    losses,    \* how often the session was lost
    asked,     \* uids that are requests to the client, still waited for
    got,       \* history: uids the client has read
    raced,     \* history: sends overtaken between their two halves
    mixed,     \* history: a send's second half found the session reopened
    excused    \* history: uids pushed out of a full queue, withdrawn, or not
               \* known to be missing by a client without a valid id

vars == <<sess, conn, last, fresh, flight, sent, losses, asked,
          got, raced, mixed, excused>>

None == -1

Opened(reopened) ==
    [on |-> TRUE, next |-> 1, pending |-> <<>>, replay |-> <<>>,
     stream |-> 0, reopened |-> reopened]

Uids(s) == {s[i].uid : i \in 1..Len(s)}

\* The entries of a queue at these positions, in their order (SelectSeq, by
\* position, so that one can prove about it).
Picked(queue, S) ==
    LET nth(n) == CHOOSE i \in S : Cardinality({k \in S : k <= i}) = n
    IN  [n \in 1..Cardinality(S) |-> queue[nth(n)]]

\* A bounded queue drops its oldest entry.
Pushed(queue, limit, event) ==
    Append(IF Len(queue) >= limit THEN Tail(queue) ELSE queue, event)

Dropped(queue, limit) ==
    IF Len(queue) >= limit THEN {queue[1].uid} ELSE {}

\* Whether the stream the session holds takes one more event: its receiver
\* is there and its channel has room.
Takes == sess.stream = conn.id /\ conn.open /\ Len(conn.buf) < ChanCap

\* next_event, for a new send.
NewEvent == [id |-> sess.next, uid |-> sent + 1]

Numbered ==
    [sess EXCEPT !.next = @ + 1,
                 !.replay = Pushed(@, ReplayLimit, NewEvent)]

\* What a stream takes whose client has left and has no valid id to come
\* back with.
Unseen(event) ==
    IF Takes /\ ~conn.here /\ ~(fresh /\ last # None) THEN {event.uid} ELSE {}

(***************************************************************************)
(* Sending                                                                 *)
(***************************************************************************)

\* try_send_to_session, first half.  A request to the client is sent only
\* when a stream is there (send_http_client_request).
SendTargeted(request) ==
    /\ sess.on /\ sent < MaxSends
    /\ request => sess.stream # 0 /\ Cardinality(asked) < MaxAsked
    /\ sess' = Numbered
    /\ sent' = sent + 1
    /\ asked' = IF request THEN asked \cup {sent + 1} ELSE asked
    /\ excused' = excused \cup Dropped(sess.replay, ReplayLimit)
                          \cup Unseen(NewEvent)
    /\ IF Takes
       THEN /\ conn' = [conn EXCEPT !.buf = Append(@, NewEvent)]
            /\ UNCHANGED flight
       ELSE /\ flight' = flight \cup
                 {[event |-> NewEvent, failed |-> sess.stream,
                  at |-> conn.id, era |-> losses]}
            /\ UNCHANGED conn
    /\ UNCHANGED <<last, fresh, losses, got, raced, mixed>>

Queued(event) ==
    /\ sess' = [sess EXCEPT !.pending = Pushed(@, PendingLimit, event)]
    /\ excused' = excused \cup Dropped(sess.pending, PendingLimit)

\* Second half: clear_sender_if_matching when the stream of the first half
\* failed, enqueue_or_deliver_racy when there was none.
SendAgain(f) ==
    /\ flight' = flight \ {f}
    /\ \/ ~sess.on /\ UNCHANGED <<sess, conn, excused>>
       \/ /\ sess.on /\ f.failed # 0 /\ sess.stream = f.failed
          /\ sess' = [sess EXCEPT !.stream = 0,
                          !.pending = Pushed(@, PendingLimit, f.event)]
          /\ excused' = excused \cup Dropped(sess.pending, PendingLimit)
          /\ UNCHANGED conn
       \/ /\ sess.on /\ (f.failed = 0 \/ sess.stream # f.failed) /\ Takes
          /\ conn' = [conn EXCEPT !.buf = Append(@, f.event)]
          /\ excused' = excused \cup Unseen(f.event)
          /\ UNCHANGED sess
       \/ /\ sess.on /\ (f.failed = 0 \/ sess.stream # f.failed) /\ ~Takes
          /\ Queued(f.event)
          /\ UNCHANGED conn
    /\ raced' = IF sess.next # f.event.id + 1 \/ conn.id # f.at
                THEN raced \cup {f.event.uid} ELSE raced
    /\ mixed' = (mixed \/ (sess.on /\ f.era # losses))
    /\ UNCHANGED <<last, fresh, sent, losses, asked, got>>

\* broadcast_where, for this session, under one hold of its lock.
Broadcast ==
    /\ sess.on /\ sent < MaxSends
    /\ sent' = sent + 1
    /\ IF Takes
       THEN /\ sess' = Numbered
            /\ conn' = [conn EXCEPT !.buf = Append(@, NewEvent)]
            /\ excused' = excused \cup Dropped(sess.replay, ReplayLimit)
                                  \cup Unseen(NewEvent)
       ELSE /\ sess' = [Numbered EXCEPT !.stream = 0,
                            !.pending = Pushed(@, PendingLimit, NewEvent)]
            /\ excused' = excused \cup Dropped(sess.replay, ReplayLimit)
                                  \cup Dropped(sess.pending, PendingLimit)
            /\ UNCHANGED conn
    /\ UNCHANGED <<last, fresh, flight, losses, asked, got, raced, mixed>>

\* remove_replay_events_by_key: the answer came, or nobody waits any more.
Withdraw(u) ==
    LET others(queue) == Picked(queue, {i \in 1..Len(queue) : queue[i].uid # u}) IN
    /\ u \in asked /\ \A f \in flight : f.event.uid # u
    /\ asked' = asked \ {u}
    /\ sess' = [sess EXCEPT !.replay = others(@), !.pending = others(@)]
    /\ excused' = excused \cup {u}
    /\ UNCHANGED <<conn, last, fresh, flight, sent, losses, got, raced, mixed>>

(***************************************************************************)
(* The client                                                              *)
(***************************************************************************)

\* Mutant: an id of the session that was lost is honoured.
KnownIdOfTheLost == IF last >= sess.next THEN None ELSE last

\* An id the session never issued, or remembered from the session that was
\* lost, says nothing.
KnownId ==
    IF sess.reopened \/ last >= sess.next THEN None ELSE last

\* The events of a queue after an id.
Later(queue, id) == Picked(queue, {i \in 1..Len(queue) : queue[i].id > id})

\* What replay_events still has after an id.
After(id) == Later(sess.replay, id)

\* Mutant: what was delivered stays pending.
UnsentAll(queue, through) == queue

\* What the new stream has taken is pending no more.
Unsent(queue, through) == Later(queue, through)

\* set_sse_sender and send_replay_events: the new stream gets what was
\* issued after the id or, without one, what is pending.  A channel that
\* fills up is given up, and what is left stays queued.
SetSseSender ==
    LET events == IF KnownId = None THEN sess.pending ELSE After(KnownId)
        room == IF Len(events) < ChanCap THEN Len(events) ELSE ChanCap
        full == room < Len(events)
        through == IF room = 0 THEN KnownId ELSE events[room].id
        queue == IF KnownId = None
                 THEN IF full THEN SubSeq(events, room + 1, Len(events)) ELSE <<>>
                 ELSE IF full THEN Pushed(sess.pending, PendingLimit, events[room + 1])
                 ELSE sess.pending
    IN
    /\ sess' = [sess EXCEPT !.reopened = FALSE,
                            !.stream = IF full THEN 0 ELSE conn.id + 1,
                            !.pending = Unsent(queue, through)]
    /\ conn' = [id |-> conn.id + 1, buf |-> SubSeq(events, 1, room),
                open |-> TRUE, here |-> TRUE, primed |-> FALSE, stale |-> FALSE]
    /\ excused' = excused
           \cup (IF KnownId # None /\ full
                 THEN Dropped(sess.pending, PendingLimit) ELSE {})
           \cup (IF ~fresh /\ ~sess.reopened /\ KnownId # None THEN 1..sent ELSE {})

Connect ==
    /\ sess.on /\ ~conn.here /\ conn.id < MaxConnects
    /\ SetSseSender
    /\ UNCHANGED <<last, fresh, flight, sent, losses, asked, got, raced, mixed>>

\* The first event of a stream is numbered 0.
ReadFirst ==
    /\ conn.here /\ ~conn.primed
    /\ conn' = [conn EXCEPT !.primed = TRUE]
    /\ last' = 0
    /\ fresh' = ~conn.stale
    /\ UNCHANGED <<sess, flight, sent, losses, asked, got, raced, mixed,
                   excused>>

Read ==
    /\ conn.here /\ conn.primed /\ conn.buf # <<>>
    /\ conn' = [conn EXCEPT !.buf = Tail(@)]
    /\ last' = Head(conn.buf).id
    /\ fresh' = ~conn.stale
    /\ got' = got \cup {Head(conn.buf).uid}
    /\ UNCHANGED <<sess, flight, sent, losses, asked, raced, mixed, excused>>

\* The connection breaks.  A client that has not even read the first event
\* of its stream has no id to come back with, or an old one.
Break ==
    /\ conn.here
    /\ conn' = [conn EXCEPT !.here = FALSE]
    /\ excused' = IF conn.primed \/ (fresh /\ last # None) THEN excused
                  ELSE excused \cup Uids(conn.buf)
    /\ UNCHANGED <<sess, last, fresh, flight, sent, losses, asked, got,
                   raced, mixed>>

\* The server finds out: the receiver is dropped.
Notice ==
    /\ ~conn.here /\ conn.open
    /\ conn' = [conn EXCEPT !.open = FALSE]
    /\ UNCHANGED <<sess, last, fresh, flight, sent, losses, asked, got,
                   raced, mixed, excused>>

\* A stream whose sender is gone ends once the client has read it all.
EndOfStream ==
    /\ conn.here /\ conn.primed /\ conn.buf = <<>> /\ sess.stream # conn.id
    /\ conn' = [conn EXCEPT !.here = FALSE, !.open = FALSE]
    /\ UNCHANGED <<sess, last, fresh, flight, sent, losses, asked, got,
                   raced, mixed, excused>>

(***************************************************************************)
(* The session                                                             *)
(***************************************************************************)

\* It expires, is dropped to make room, or its sign-in ends.
Lose ==
    /\ sess.on /\ losses < MaxLosses
    /\ losses' = losses + 1
    /\ sess' = [Opened(FALSE) EXCEPT !.on = FALSE]
    /\ conn' = [conn EXCEPT !.stale = TRUE]
    /\ fresh' = FALSE
    /\ excused' = 1..sent
    /\ UNCHANGED <<last, flight, sent, asked, got, raced, mixed>>

\* reopen_lost_session: the next request opens it under the same id, with
\* its numbers starting over, and tells the client its lists may be out of
\* date.  One event stands for the three list_changed notifications.
Reopen ==
    /\ ~sess.on /\ sent < MaxSends
    /\ sess' = [Opened(TRUE) EXCEPT !.next = 2, !.replay = <<[id |-> 1, uid |-> sent + 1]>>]
    /\ sent' = sent + 1
    /\ flight' = flight \cup
          {[event |-> [id |-> 1, uid |-> sent + 1], failed |-> 0,
           at |-> conn.id, era |-> losses]}
    /\ UNCHANGED <<conn, last, fresh, losses, asked, got, raced, mixed,
                   excused>>

-----------------------------------------------------------------------------

Init ==
    /\ sess = Opened(FALSE)
    /\ conn = [id |-> 0, buf |-> <<>>, open |-> FALSE, here |-> FALSE,
               primed |-> FALSE, stale |-> FALSE]
    /\ last = None /\ fresh = TRUE
    /\ flight = {} /\ sent = 0 /\ losses = 0 /\ asked = {}
    /\ got = {} /\ raced = {} /\ excused = {}
    /\ mixed = FALSE

Next ==
    \/ \E request \in BOOLEAN : SendTargeted(request)
    \/ \E f \in flight : SendAgain(f)
    \/ Broadcast
    \/ \E u \in asked : Withdraw(u)
    \/ Connect \/ ReadFirst \/ Read \/ Break \/ Notice \/ EndOfStream
    \/ Lose \/ Reopen

Spec == Init /\ [][Next]_vars

-----------------------------------------------------------------------------

Events == [id : 1..MaxSends, uid : 1..MaxSends]

\* The types, the limits of the queues and of the channel.
TypeOK ==
    /\ sess.on \in BOOLEAN /\ sess.reopened \in BOOLEAN
    /\ sess.next \in 1..(MaxSends + 1)
    /\ sess.pending \in Seq(Events) /\ Len(sess.pending) <= PendingLimit
    /\ sess.replay \in Seq(Events) /\ Len(sess.replay) <= ReplayLimit
    /\ sess.stream \in 0..conn.id
    /\ conn.id \in 0..MaxConnects
    /\ conn.buf \in Seq(Events) /\ Len(conn.buf) <= ChanCap
    /\ {conn.open, conn.here, conn.primed, conn.stale, fresh, mixed}
           \subseteq BOOLEAN
    /\ last \in -1..MaxSends
    /\ flight \subseteq [event : Events, failed : 0..conn.id, at : 0..conn.id,
                    era : 0..losses]
    /\ sent \in 0..MaxSends /\ losses \in 0..MaxLosses
    /\ asked \subseteq 1..sent /\ got \subseteq 1..sent
    /\ raced \subseteq 1..sent /\ excused \subseteq 1..sent

\* Where an event the client has not read is still on its way to it: between
\* the halves of its send, pending, in the stream, or in what a reconnect
\* with the client's id replays.
OnItsWay(u) ==
    \/ \E f \in flight : f.event.uid = u
    \/ u \in Uids(sess.pending)
    \/ conn.here /\ u \in Uids(conn.buf)
    \/ /\ fresh /\ last # None
       /\ \E i \in 1..Len(sess.replay) :
              sess.replay[i].uid = u /\ sess.replay[i].id > last

\* However streams break, fill up and are replaced, an event is lost only
\* when its send was overtaken between its two halves, or it was pushed out
\* of a full queue, or the client came back without a valid id
\* (try_send_to_session, send_replay_events).
LostOnlyInRace ==
    /\ TypeOK
    /\ ~mixed =>
          \A u \in 1..sent : u \in got \cup raced \cup excused \/ OnItsWay(u)

\* While a stream is open nothing waits for the next reconnect, but for what
\* a send that was overtaken had to queue (clear_sender_if_matching,
\* enqueue_or_deliver_racy).
NothingStranded ==
    ~mixed /\ sess.stream # 0 => Uids(sess.pending) \subseteq raced

=============================================================================
