---------------------------- MODULE Continuations ---------------------------
(***************************************************************************)
(* Tool calls in several rounds (proxy/continuations.rs, and               *)
(* call_tool_round_with_context and call_tool_inner of proxy/mod.rs).  A   *)
(* modern server may answer a call with questions; plug parks its state,   *)
(* gives the client a token, and the client's next round resumes it.       *)
(*                                                                         *)
(* The registry (entries, global generation) and the owners' ledger are    *)
(* each under a mutex; everything else a round looks at, the published     *)
(* routes, the connection and the client's sign-in, changes under it.      *)
(* A plain call (call_tool_with_context) goes without the checks of a      *)
(* round.                                                                  *)
(***************************************************************************)
EXTENDS Naturals, FiniteSets

CONSTANTS
    Owners,    \* principals, by owner key
    Calls,     \* slots for calls in progress
    Targets,   \* (server, original name) pairs the tool's name can lead to
    Quota,     \* continuations an owner may have
    MaxRounds, \* MRTR_MAX_ROUNDS
    MaxConn,   \* bound: sessions of the server's connections
    MaxGen,    \* bound: invalidations of the registry
    MaxTokens, \* bound: tokens issued
    None

ASSUME ContinuationsAssumption ==
    /\ {Quota, MaxRounds, MaxConn, MaxTokens} \subseteq Nat \ {0}
    /\ MaxGen \in Nat
    /\ None \notin Owners \cup Targets
    /\ IsFiniteSet(Calls)

VARIABLES
    call,      \* the calls and the step each is at
    gen,       \* RegistryState.global_generation
    entries,   \* RegistryState.entries
    owners,    \* the ledger: OwnerState by owner
    tokens,    \* tokens given to clients, with the binding sealed into them
    cache,     \* where the published routes lead the tool's name
    published, \* published_tool_routes
    pass,      \* publish_route_snapshot: the material routes it has read
    up,        \* the server's connection, with the generation plug gives it
    conns,     \* sessions of the server's connections so far; the current one's is
               \* the last, and its generation once plug has noticed it
    life,      \* an owner's sign-in: active, revoked, or revoked and cleaned up
    resumed    \* history: how often a token's state was sent on

vars == <<call, gen, entries, owners, tokens, cache, published, pass, up, conns,
          life, resumed>>
world == <<cache, published, pass, up, conns, life>>

Idle == [pc |-> "idle", owner |-> None, plain |-> FALSE, token |-> 0, route |-> None,
         round |-> 1, resv |-> None, conn |-> None, sentOn |-> 0, askedOn |-> 0,
         seen |-> 0, made |-> 0, retry |-> FALSE]

At(c, pc) == call[c].pc = pc
Go(c, pc) == call' = [call EXCEPT ![c].pc = pc]

(***************************************************************************)
(* The registry                                                            *)
(***************************************************************************)

Count(S, o) == Cardinality({e \in S : e.owner = o})

\* Drop of ContinuationReservation, for the reservations in the entries S: an
\* owner without reservations leaves the ledger.
Released(S) ==
    [o \in Owners |->
        IF owners[o] = None \/ owners[o].reservations = Count(S, o) THEN None
        ELSE [owners[o] EXCEPT !.reservations = @ - Count(S, o)]]

\* Quota leases: a call's from the moment it is taken, then its entry's.
Leases(S, o) ==
    Count(S, o) + Cardinality({c \in Calls : /\ call[c].owner = o
                                             /\ (At(c, "leased") \/ call[c].resv # None)})

\* try_acquire for the owner (the quotas for bytes and for everyone are alike).
HasRoom(S, o) == Leases(S, o) < Quota

Live == {e \in entries : ~e.past}

\* What a call's end gives back.
Own(c) == IF call[c].resv = None THEN {} ELSE {[owner |-> call[c].owner]}

\* The call is over, whatever it was told, and what it held is dropped.
Ends(c) ==
    /\ call' = [call EXCEPT ![c] = Idle]
    /\ owners' = Released(Own(c))

\* What the token is bound to, beside the request's digest.
Binding(c) == [owner |-> call[c].owner, target |-> call[c].route.target,
               gen |-> call[c].route.gen]

\* tool_route_identity, but for a tool or a server that is not there.
Identity == [target |-> cache, gen |-> gen, upgen |-> up.gen]

\* The connection as a call or an entry holds on to it, with the generation it had.
Handle == [id |-> up.id, gen |-> up.gen]

\* ensure_principal_lifecycle_active
SignedIn(c) == life[call[c].owner] = "active"

(***************************************************************************)
(* A round until it is sent                                                *)
(***************************************************************************)

\* A request arrives, admitted under the owner's sign-in, and captures its route
\* together with the registry's generation.  t = 0: no token.
Start(c, o, t) ==
    /\ At(c, "idle") /\ life[o] = "active"
    /\ t # 0 => \E k \in tokens : k.nonce = t
    /\ up # None
    /\ call' = [call EXCEPT ![c] = [Idle EXCEPT
                   !.pc = "captured", !.owner = o, !.token = t, !.route = Identity]]
    /\ UNCHANGED <<gen, entries, owners, tokens, world, resumed>>

StartPlain(c, o) ==
    /\ At(c, "idle") /\ life[o] = "active"
    /\ up # None
    /\ call' = [call EXCEPT ![c] = [Idle EXCEPT
                   !.pc = "closed?", !.owner = o, !.plain = TRUE]]
    /\ UNCHANGED <<gen, entries, owners, tokens, world, resumed>>

\* The sign-in is looked at before the registry is touched.
Admit(c) ==
    /\ At(c, "captured")
    /\ IF SignedIn(c)
       THEN Go(c, IF call[c].token = 0 THEN "reserve" ELSE "consume")
       ELSE call' = [call EXCEPT ![c] = Idle]
    /\ UNCHANGED <<gen, entries, owners, tokens, world, resumed>>

\* reserve_at: expired entries go first, then the quota is asked.
Lease(c) ==
    /\ At(c, "reserve")
    /\ entries' = Live
    /\ owners' = Released(entries \ Live)
    /\ IF HasRoom(Live, call[c].owner)
       THEN Go(c, "leased")
       ELSE call' = [call EXCEPT ![c] = Idle]
    /\ UNCHANGED <<gen, tokens, world, resumed>>

\* reserve_at, under both mutexes: nothing is reserved in another world than the
\* one the route was captured in.
Reserve(c) ==
    LET o == call[c].owner
        state == IF owners[o] = None THEN [generation |-> 0, reservations |-> 0]
                 ELSE owners[o]
    IN  /\ At(c, "leased")
        /\ IF gen = call[c].route.gen
           THEN /\ owners' = [owners EXCEPT ![o] = [state EXCEPT !.reservations = @ + 1]]
                /\ call' = [call EXCEPT ![c] = [@ EXCEPT
                       !.pc = "closed?",
                       !.resv = [gen |-> gen, owner |-> state.generation]]]
           ELSE Ends(c)
        /\ UNCHANGED <<gen, entries, tokens, world, resumed>>

\* entries.remove: the round gets the entry's reservation.
TakesEntry(e) ==
    /\ entries' = entries \ {e}
    /\ owners' = owners

\* consume: the token opens only under the binding it was sealed with; the entry
\* leaves the registry with the check.
Consume(c) ==
    LET mine == {k \in tokens : k.nonce = call[c].token /\ k.binding = Binding(c)}
        found == {e \in entries : mine # {} /\ e.nonce = call[c].token}
    IN  /\ At(c, "consume")
        /\ IF \E e \in found : ~e.past /\ e.binding = Binding(c)
           THEN \E e \in found :
                  /\ TakesEntry(e)
                  /\ call' = [call EXCEPT ![c] = [@ EXCEPT
                         !.pc = "resume", !.resv = e.resv, !.round = e.round + 1,
                         !.conn = e.conn, !.askedOn = e.askedOn]]
           ELSE /\ entries' = entries \ found
                /\ call' = [call EXCEPT ![c] = Idle]
                /\ owners' = Released(found)
        /\ UNCHANGED <<gen, tokens, world, resumed>>

\* The parked route (its generation is in the token, its connection is not), the
\* limit of rounds, the connection as an object, the answers.
Resume(c) ==
    /\ At(c, "resume")
    /\ call[c].round <= MaxRounds
    /\ up # None /\ up.id = call[c].conn.id
    /\ call[c].route.upgen = call[c].conn.gen
    /\ Go(c, "closed?")
    /\ UNCHANGED <<gen, entries, owners, tokens, world, resumed>>

\* One of these fails, the chain is over (five minutes after its first round), or
\* the answers are not those that were asked for.
ResumeRefused(c) ==
    /\ At(c, "resume")
    /\ Ends(c)
    /\ UNCHANGED <<gen, entries, tokens, world, resumed>>

(***************************************************************************)
(* call_tool_inner                                                         *)
(***************************************************************************)

\* A connection of its own; generations come from one counter.
Connected == [id |-> conns + 1, gen |-> conns + 1, closed |-> FALSE]

\* A connection found closed is replaced before the call is sent.
Reopen(c) ==
    /\ At(c, "closed?") /\ ~call[c].retry
    /\ up # None /\ up.closed
    /\ conns < MaxConn
    /\ up' = Connected /\ conns' = conns + 1
    /\ call' = [call EXCEPT ![c] = [@ EXCEPT !.pc = "queued", !.made = conns + 1]]
    /\ UNCHANGED <<gen, entries, owners, tokens, cache, published, pass, life, resumed>>

\* It is open, or the reconnect failed.
Queue(c) ==
    /\ At(c, "closed?")
    /\ Go(c, "queued")
    /\ UNCHANGED <<gen, entries, owners, tokens, world, resumed>>

\* A permit is there: the connection that will be used is looked up only now.
Fetch(c) ==
    /\ At(c, "queued") /\ up # None
    /\ call' = [call EXCEPT ![c] = [@ EXCEPT !.pc = "fetched", !.conn = Handle]]
    /\ UNCHANGED <<gen, entries, owners, tokens, world, resumed>>

\* No permit in time, no connection, no way to send, or the caller is gone.
FetchFails(c) ==
    /\ At(c, "queued") \/ At(c, "handed")
    /\ Ends(c)
    /\ UNCHANGED <<gen, entries, tokens, world, resumed>>

\* Mutant: the route is not compared with the one captured.
AnyRoute(c) == up # None

\* expected_route
RouteHolds(c) == call[c].plain \/ (up # None /\ Identity = call[c].route)

Check(c) ==
    /\ At(c, "fetched") /\ RouteHolds(c)
    /\ call' = [call EXCEPT ![c] = [@ EXCEPT
                   !.pc = "handed", !.seen = IF call[c].plain THEN 0 ELSE up.gen]]
    /\ UNCHANGED <<gen, entries, owners, tokens, world, resumed>>

SendRefused(c) ==
    /\ At(c, "fetched") /\ ~RouteHolds(c)
    /\ Ends(c)
    /\ UNCHANGED <<gen, entries, tokens, world, resumed>>

\* The token's state goes out with the call.
Resumes(t) ==
    resumed' = [k \in DOMAIN resumed |->
                   IF k = t /\ resumed[k] < 2 THEN resumed[k] + 1 ELSE resumed[k]]

\* The connection the call looked up is still the server's.
IsCurrent(c) == up # None /\ up.id = call[c].conn.id

\* The transport has the call now and posts it later, on the session it has by then:
\* observe_session notices one that is new, but the call goes all the same.
Send(c) ==
    /\ At(c, "handed") /\ IsCurrent(c)
    /\ call' = [call EXCEPT ![c] = [@ EXCEPT !.pc = "sent", !.sentOn = conns]]
    /\ up' = [up EXCEPT !.gen = conns]
    /\ Resumes(call[c].token)
    /\ UNCHANGED <<gen, entries, owners, tokens, cache, published, pass, conns, life>>

\* The connection was replaced or given up meanwhile; the call holds on to it.  It is on
\* the session the call found, or on one since that plug never looked at (0).
SendRetired(c) ==
    /\ At(c, "handed") /\ ~IsCurrent(c)
    /\ \E on \in {call[c].conn.gen, 0} :
          call' = [call EXCEPT ![c] = [@ EXCEPT !.pc = "sent", !.sentOn = on]]
    /\ Resumes(call[c].token)
    /\ UNCHANGED <<gen, entries, owners, tokens, world>>

\* A result, an error of the tool, a timeout; or the caller is gone.
Answered(c) ==
    /\ At(c, "sent")
    /\ Ends(c)
    /\ UNCHANGED <<gen, entries, tokens, world, resumed>>

\* Sent again: once, if the error proves that the server never took it, and only
\* what carries neither a route to keep nor a round's state.
MayRepeat(c, proof) == proof /\ ~call[c].retry /\ call[c].plain

\* The connection is lost; the error proves that the server never took the call, or
\* does not.  The tool is not one that is safe to repeat.
Lost(c, proof) ==
    /\ At(c, "sent")
    /\ IF MayRepeat(c, proof) /\ conns < MaxConn
       THEN /\ up' = Connected /\ conns' = conns + 1
            /\ call' = [call EXCEPT ![c] = [@ EXCEPT !.pc = "closed?", !.retry = TRUE]]
            /\ owners' = owners
       ELSE Ends(c) /\ UNCHANGED <<up, conns>>
    /\ UNCHANGED <<gen, entries, tokens, cache, published, pass, life, resumed>>

(***************************************************************************)
(* The server asks for input: parking the round                            *)
(***************************************************************************)

\* A round goes on to the checks; an ordinary call cannot be asked anything.
Asks(c) ==
    /\ At(c, "sent")
    /\ IF call[c].plain THEN Ends(c) ELSE Go(c, "asked") /\ owners' = owners
    /\ UNCHANGED <<gen, entries, tokens, world, resumed>>

\* Mutant: the sign-in is not looked at again.
NotAgain(c) == TRUE

StillSignedIn(c) == SignedIn(c)

AskedSignedIn(c) ==
    /\ At(c, "asked")
    /\ IF StillSignedIn(c) THEN Go(c, "active") /\ owners' = owners ELSE Ends(c)
    /\ UNCHANGED <<gen, entries, tokens, world, resumed>>

\* The route is captured again, and the questions are ones plug can carry.
AskedSameRoute(c) ==
    /\ At(c, "active")
    /\ \/ up # None /\ Identity = call[c].route /\ Go(c, "same") /\ owners' = owners
       \/ Ends(c)
    /\ UNCHANGED <<gen, entries, tokens, world, resumed>>

\* The connection to resume on: the one of the captured generation.
AskedSameConn(c) ==
    /\ At(c, "same")
    /\ IF up # None /\ up.gen = call[c].route.upgen
       THEN /\ call' = [call EXCEPT ![c] = [@ EXCEPT !.pc = "park", !.conn = Handle]]
            /\ owners' = owners
       ELSE Ends(c)
    /\ UNCHANGED <<gen, entries, tokens, world, resumed>>

\* insert_reserved: neither the world nor the owner has moved since.
MayPark(c) ==
    /\ call[c].resv.gen = gen
    /\ owners[call[c].owner] # None
    /\ call[c].resv.owner = owners[call[c].owner].generation

\* insert_reserved: the reservation moves into the entry, the client gets a token.
Park(c) ==
    LET n == Cardinality(tokens) + 1
    IN  /\ At(c, "park")
        /\ IF MayPark(c) /\ n <= MaxTokens
           THEN /\ entries' = entries \cup {[nonce |-> n, owner |-> call[c].owner,
                       binding |-> Binding(c), resv |-> call[c].resv,
                       round |-> call[c].round, conn |-> call[c].conn, past |-> FALSE,
                       askedOn |-> call[c].sentOn]}
                /\ tokens' = tokens \cup {[nonce |-> n, binding |-> Binding(c)]}
                /\ call' = [call EXCEPT ![c] = Idle]
                /\ owners' = owners
           ELSE Ends(c) /\ UNCHANGED <<entries, tokens>>
        /\ UNCHANGED <<gen, world, resumed>>

(***************************************************************************)
(* What moves under them                                                   *)
(***************************************************************************)

Expire(e) ==
    /\ ~e.past
    /\ entries' = (entries \ {e}) \cup {[e EXCEPT !.past = TRUE]}
    /\ UNCHANGED <<call, gen, owners, tokens, world, resumed>>

\* A refresh pass (they exclude each other) resolves the connections its routes
\* lead to, then publishes under the registry's mutex.
PassReads(t) ==
    /\ pass = None
    /\ pass' = [target |-> t, upgen |-> IF up = None THEN 0 ELSE up.gen]
    /\ UNCHANGED <<call, gen, entries, owners, tokens, cache, published, up, conns, life,
                   resumed>>

\* publish_with_invalidation: a material change ends the world of every entry
\* and reservation; one of descriptions only leaves them.
PassPublishes ==
    /\ pass # None
    /\ IF published # pass
       THEN /\ gen < MaxGen /\ gen' = gen + 1
            /\ entries' = {}
            /\ owners' = Released(entries)
       ELSE UNCHANGED <<gen, entries, owners>>
    /\ published' = pass /\ cache' = pass.target /\ pass' = None
    /\ UNCHANGED <<call, tokens, up, conns, life, resumed>>

\* clear: the gate for modern clients closes, or the engine shuts down.
Clear ==
    /\ gen < MaxGen /\ gen' = gen + 1
    /\ entries' = {}
    /\ owners' = Released(entries)
    /\ UNCHANGED <<call, tokens, world, resumed>>

\* A reconnect replaces the connection.
ConnReplaced ==
    /\ conns < MaxConn
    /\ up' = Connected /\ conns' = conns + 1
    /\ UNCHANGED <<call, gen, entries, owners, tokens, cache, published, pass, life, resumed>>

\* The transport takes a new session when the server answers a message with 404; plug's
\* generation for the connection stays what it was...
SessionReplaced ==
    /\ conns < MaxConn /\ up # None
    /\ conns' = conns + 1
    /\ UNCHANGED <<call, gen, entries, owners, tokens, cache, published, pass, up, life,
                   resumed>>

\* ... until observe_session sees an outbound message with the new id.
SessionSeen ==
    /\ up # None /\ up.gen # conns
    /\ up' = [up EXCEPT !.gen = conns]
    /\ UNCHANGED <<call, gen, entries, owners, tokens, cache, published, pass, conns, life,
                   resumed>>

\* The connection ends unnoticed; the server is stopped.
ConnCloses ==
    /\ up # None /\ ~up.closed
    /\ up' = [up EXCEPT !.closed = TRUE]
    /\ UNCHANGED <<call, gen, entries, owners, tokens, cache, published, pass, conns, life,
                   resumed>>

ConnGone ==
    /\ up # None
    /\ up' = None
    /\ UNCHANGED <<call, gen, entries, owners, tokens, cache, published, pass, conns, life,
                   resumed>>

\* revoke_client, for good: its sign-in stops working before what it left behind
\* is cleaned up.
RevokeClient(o) ==
    /\ life[o] = "active"
    /\ life' = [life EXCEPT ![o] = "revoked"]
    /\ UNCHANGED <<call, gen, entries, owners, tokens, cache, published, pass, up, conns,
                   resumed>>

\* Mutant: a revoked owner is taken out of the ledger with its entries.
Forgotten(o) == None

\* The owner's generation after a revocation.
Revoked(o) ==
    IF owners[o] = None THEN None ELSE [owners[o] EXCEPT !.generation = @ + 1]

\* revoke_owner_key, from cleanup_tasks_for_owner: every reservation of the owner
\* loses its generation, and its entries go.
RevokeOwner(o) ==
    LET theirs == {e \in entries : e.owner = o /\ owners[o] # None}
        after == Revoked(o)
    IN  /\ life[o] = "revoked"
        /\ entries' = entries \ theirs
        /\ owners' = [owners EXCEPT ![o] =
               IF after = None \/ after.reservations = Cardinality(theirs) THEN None
               ELSE [after EXCEPT !.reservations = @ - Cardinality(theirs)]]
        /\ life' = [life EXCEPT ![o] = "cleaned"]
        /\ UNCHANGED <<call, gen, tokens, cache, published, pass, up, conns, resumed>>

(***************************************************************************)
(* Specification                                                           *)
(***************************************************************************)

Init ==
    /\ call = [c \in Calls |-> Idle]
    /\ gen = 0 /\ entries = {} /\ tokens = {}
    /\ owners = [o \in Owners |-> None]
    /\ cache \in Targets
    /\ published = [target |-> cache, upgen |-> 1]
    /\ pass = None
    /\ up = [id |-> 1, gen |-> 1, closed |-> FALSE] /\ conns = 1
    /\ life = [o \in Owners |-> "active"]
    /\ resumed = [t \in 1..MaxTokens |-> 0]

Round(c) ==
    \/ \E o \in Owners, t \in 0..MaxTokens : Start(c, o, t)
    \/ \E o \in Owners : StartPlain(c, o)
    \/ Admit(c) \/ Lease(c) \/ Reserve(c) \/ Consume(c) \/ Resume(c) \/ ResumeRefused(c)
    \/ Reopen(c) \/ Queue(c) \/ Fetch(c) \/ FetchFails(c) \/ Check(c) \/ SendRefused(c)
    \/ Send(c) \/ SendRetired(c) \/ Answered(c) \/ Asks(c)
    \/ \E proof \in BOOLEAN : Lost(c, proof)
    \/ AskedSignedIn(c) \/ AskedSameRoute(c) \/ AskedSameConn(c) \/ Park(c)

World ==
    \/ \E e \in entries : Expire(e)
    \/ \E t \in Targets : PassReads(t)
    \/ PassPublishes \/ Clear \/ ConnReplaced \/ SessionReplaced \/ SessionSeen
    \/ ConnCloses \/ ConnGone
    \/ \E o \in Owners : RevokeClient(o) \/ RevokeOwner(o)

Next == World \/ \E c \in Calls : Round(c)

Spec == Init /\ [][Next]_vars

(***************************************************************************)
(* Properties                                                              *)
(***************************************************************************)

Routes == [target : Targets, gen : 0..MaxGen, upgen : 1..MaxConn]
Conns == [id : 1..MaxConn, gen : 1..MaxConn, closed : BOOLEAN]
Handles == [id : 1..MaxConn, gen : 1..MaxConn]
Resvs == [gen : 0..MaxGen, owner : Nat]
Bindings == [owner : Owners, target : Targets, gen : 0..MaxGen]

\* None is none of the records it stands in for.
ASSUME NoneAssumption ==
    None \notin Routes \cup Conns \cup Handles \cup Resvs
                 \cup [generation : Nat, reservations : Nat]
                 \cup [target : Targets, upgen : 0..MaxConn]

Pcs == {"idle", "captured", "reserve", "leased", "consume", "resume", "closed?", "queued",
        "fetched", "handed", "sent", "asked", "active", "same", "park"}

\* The types of the variables; no owner ever has more leases than its quota, and a
\* round is never past the limit once its checks are done (reserve_at;
\* call_tool_round_with_context).
TypeOK ==
    /\ call \in [Calls -> [pc : Pcs, owner : Owners \cup {None}, plain : BOOLEAN,
                   token : 0..MaxTokens, route : Routes \cup {None}, round : 1..(MaxRounds + 1),
                   resv : Resvs \cup {None}, conn : Handles \cup {None}, sentOn : 0..MaxConn,
                   askedOn : 0..MaxConn, seen : 0..MaxConn, made : 0..MaxConn,
                   retry : BOOLEAN]]
    /\ entries \subseteq [nonce : 1..MaxTokens, owner : Owners, binding : Bindings,
                   resv : Resvs, round : 1..MaxRounds, conn : Handles, past : BOOLEAN,
                   askedOn : 1..MaxConn]
    /\ owners \in [Owners -> [generation : Nat, reservations : Nat \ {0}] \cup {None}]
    /\ tokens \subseteq [nonce : 1..MaxTokens, binding : Bindings]
    /\ gen \in 0..MaxGen /\ conns \in 1..MaxConn
    /\ cache \in Targets
    /\ published \in [target : Targets, upgen : 0..MaxConn]
    /\ pass \in [target : Targets, upgen : 0..MaxConn] \cup {None}
    /\ up \in Conns \cup {None}
    /\ life \in [Owners -> {"active", "revoked", "cleaned"}]
    /\ resumed \in [1..MaxTokens -> 0..2]
    /\ \A o \in Owners : Leases(entries, o) <= Quota

\* The ledger has an owner exactly while it has reservations, and as many as its own
\* calls and entries hold (the assertions in Drop for ContinuationReservation): its
\* generation never restarts under a reservation that remembers an older one, and
\* no round goes on with what another owner parked.
LedgerIsExact ==
    /\ TypeOK
    /\ \A o \in Owners :
          (IF owners[o] = None THEN 0 ELSE owners[o].reservations)
            = Count(entries, o)
                + Cardinality({c \in Calls : call[c].owner = o /\ call[c].resv # None})

\* Nothing stale is parked.  No parked round survives a change of the routes it
\* was parked under, neither one that was there nor one that was about to be parked
\* when the routes were published (publish_with_invalidation, insert_reserved).
\* And once a client's revocation is complete nothing it parked is left, nor does
\* a round on its way park anything later, whether it had reserved before the
\* revocation or reserves after it (revoke_owner_key, insert_reserved and the
\* second look at the sign-in).
ParkedIsValid ==
    \A e \in entries :
        /\ e.binding.gen = gen /\ e.binding.target = cache
        /\ life[e.owner] # "cleaned"

\* Answers are sent once and to where they were asked for, as far as plug can know.
\* The answers to a server's questions go out by the connection on which they were
\* asked, and on the session, through every replacement of either while the call waits
\* for a permit (call_tool_inner's expected_route); they go on another session only if
\* plug had not noticed it when it checked the route.  And a token's parked state is
\* sent on at most once, however many requests present it at the same time (consume).
SentOnceWhereAsked ==
    /\ \A c \in Calls : At(c, "sent") /\ call[c].token # 0 =>
          /\ call[c].conn.gen = call[c].askedOn
          /\ call[c].sentOn = call[c].askedOn \/ call[c].sentOn # call[c].seen
    /\ \A t \in 1..MaxTokens : resumed[t] <= 1

(***************************************************************************)
(* What comments of the repository say and the code does not keep: TLC     *)
(* finds each violated (README, section 4).                                *)
(***************************************************************************)

\* "Continuations also need their route checked against the connection that will
\* actually receive the resumed call": it is received on the session that asked.
AnswersWhereAsked ==
    \A c \in Calls : At(c, "sent") /\ call[c].token # 0 => call[c].sentOn = call[c].askedOn

\* "A server whose connection already ended is reconnected before the call is
\* sent": a first round that reconnected its server is not refused on account of
\* the connection it made itself.
OwnReconnectIsNoRefusal ==
    [][\A c \in Calls :
          At(c, "fetched") /\ call'[c].pc = "idle" /\ call[c].token = 0 /\ call[c].made # 0
            => \/ up = None
               \/ up.gen # call[c].made
               \/ cache # call[c].route.target
               \/ gen # call[c].route.gen]_vars

=============================================================================
