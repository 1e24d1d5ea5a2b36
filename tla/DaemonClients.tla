---------------------------- MODULE DaemonClients ---------------------------
(***************************************************************************)
(* The daemon's clients and when it stops by itself                        *)
(* (plug/src/daemon/registry.rs, plug/src/daemon/mod.rs)                   *)
(*                                                                         *)
(* A connector opens a connection and registers its client on it; the      *)
(* session that makes is the connection's.  ClientRegistry keeps two       *)
(* concurrent maps, sessions and client_sessions, and no lock over both:   *)
(* register_hosted and deregister are a step per map operation.  Every     *)
(* change sends the number of sessions through a watch channel to the      *)
(* grace task, which stops the daemon some time after the last client left *)
(* unless HTTP sessions keep it up.                                        *)
(***************************************************************************)
EXTENDS Integers, FiniteSets

CONSTANTS
    Conns,     \* connections, each with the session it registers
    Clients,   \* client ids, stable across a connector's reconnects
    NoConn     \* no connection

ASSUME ClientsAssumption == NoConn \notin Conns /\ IsFiniteSet(Conns) /\ Clients # {}

VARIABLES
    conn,      \* handle_ipc_connection and the registry call it is in
    sessions,  \* ClientRegistry.sessions
    mapped,    \* ClientRegistry.client_sessions
    bridges,   \* sessions with a downstream bridge (and what goes with it)
    count,     \* the watch channel: the last count sent and how many were
    grace,     \* the grace task and the version of the count it has seen
    http,      \* HTTP sessions the daemon has
    stopped    \* the engine's cancellation token

registryVars == <<conn, sessions, mapped, bridges, count, grace, http, stopped>>

Client(k) == conn[k].client

At(k, pc) == conn[k].pc = pc
Go(k, pc) == conn' = [conn EXCEPT ![k].pc = pc]

\* Mutant: clients are counted, not sessions.
CountsClients == Cardinality({c \in Clients : mapped[c] # NoConn})

\* sessions.len(), read inside send_modify.
Counted == Cardinality(sessions)

\* count_tx.send_modify
Publish == count' = [n |-> Counted, version |-> count.version + 1]

(***************************************************************************)
(* Register                                                                *)
(***************************************************************************)

OpenConn(k, c) ==
    /\ At(k, "new") /\ ~stopped
    /\ conn' = [conn EXCEPT ![k] = [pc |-> "mapping", client |-> c, old |-> NoConn]]
    /\ UNCHANGED <<sessions, mapped, bridges, count, grace, http, stopped>>

\* register_hosted: the client's mapping first, which names what it replaces.
RegisterMaps(k) ==
    /\ At(k, "mapping")
    /\ mapped' = [mapped EXCEPT ![Client(k)] = k]
    /\ conn' = [conn EXCEPT ![k].old = mapped[Client(k)],
                            ![k].pc = IF mapped[Client(k)] = NoConn THEN "adding" ELSE "replacing"]
    /\ UNCHANGED <<sessions, bridges, count, grace, http, stopped>>

RegisterDropsOld(k) ==
    /\ At(k, "replacing")
    /\ sessions' = sessions \ {conn[k].old}
    /\ Go(k, "adding")
    /\ UNCHANGED <<mapped, bridges, count, grace, http, stopped>>

RegisterAdds(k) ==
    /\ At(k, "adding")
    /\ sessions' = sessions \cup {k}
    /\ Go(k, "counting")
    /\ UNCHANGED <<mapped, bridges, count, grace, http, stopped>>

RegisterCounts(k) ==
    /\ At(k, "counting")
    /\ Publish
    /\ Go(k, "wiring")
    /\ UNCHANGED <<sessions, mapped, bridges, grace, http, stopped>>

\* What belonged to the replaced session goes: its subscriptions, with an await,
\* its bridge, and then another await if it had roots.
RegisterCleansOld(k) ==
    /\ At(k, "wiring") /\ conn[k].old # NoConn
    /\ bridges' = bridges \ {conn[k].old}
    /\ Go(k, "rooting")
    /\ UNCHANGED <<sessions, mapped, count, grace, http, stopped>>

\* ctx.session_id is set only now, the bridge registered and the client told.
RegisterWires(k) ==
    /\ At(k, "rooting") \/ (At(k, "wiring") /\ conn[k].old = NoConn)
    /\ bridges' = bridges \cup {k}
    /\ Go(k, "live")
    /\ UNCHANGED <<sessions, mapped, count, grace, http, stopped>>

\* A write of the IPC loop fails while the registration is at an await: it is
\* dropped there, and the end of the connection has no session to deregister.
RegisterDropped(k) ==
    /\ At(k, "rooting") \/ (At(k, "wiring") /\ conn[k].old # NoConn)
    /\ Go(k, "dropped")
    /\ UNCHANGED <<sessions, mapped, bridges, count, grace, http, stopped>>

(***************************************************************************)
(* Deregister, and the end of a connection                                 *)
(***************************************************************************)

\* Deregister, end of stream, a read error or the daemon stopping.
Close(k) ==
    /\ At(k, "live")
    /\ Go(k, "removing")
    /\ UNCHANGED <<sessions, mapped, bridges, count, grace, http, stopped>>

\* deregister does nothing for a session that was replaced.
DeregisterRemoves(k) ==
    /\ At(k, "removing")
    /\ sessions' = sessions \ {k}
    /\ Go(k, IF k \in sessions THEN "checking" ELSE "cleaning")
    /\ UNCHANGED <<mapped, bridges, count, grace, http, stopped>>

DeregisterChecks(k) ==
    /\ At(k, "checking")
    /\ Go(k, IF mapped[Client(k)] = k THEN "unmapping" ELSE "uncounting")
    /\ UNCHANGED <<sessions, mapped, bridges, count, grace, http, stopped>>

\* client_sessions.remove, by the client's id.
Unmapped(k) == [mapped EXCEPT ![Client(k)] = NoConn]

DeregisterUnmaps(k) ==
    /\ At(k, "unmapping")
    /\ mapped' = Unmapped(k)
    /\ Go(k, "uncounting")
    /\ UNCHANGED <<sessions, bridges, count, grace, http, stopped>>

DeregisterCounts(k) ==
    /\ At(k, "uncounting")
    /\ Publish
    /\ Go(k, "cleaning")
    /\ UNCHANGED <<sessions, mapped, bridges, grace, http, stopped>>

\* unregister_downstream_bridge
Unwired(k) == bridges \ {k}

\* Subscriptions, bridge, roots, log level and working set of the session; the
\* client's tasks are the subject of Tasks.
CleanUp(k) ==
    /\ At(k, "cleaning")
    /\ bridges' = Unwired(k)
    /\ Go(k, "over")
    /\ UNCHANGED <<sessions, mapped, count, grace, http, stopped>>

(***************************************************************************)
(* spawn_grace_period_task                                                 *)
(***************************************************************************)

Changed == grace.seen # count.version
Seen(pc) == grace' = [pc |-> pc, seen |-> count.version, http |-> 0]
Turns(pc) == grace' = [grace EXCEPT !.pc = pc]

\* changed() of the outer loop.
GraceWakes ==
    /\ grace.pc = "outer" /\ Changed
    /\ Seen("look")
    /\ UNCHANGED <<conn, sessions, mapped, bridges, count, http, stopped>>

\* The value is borrowed after that, and may be newer than the change seen.
GraceLooks ==
    /\ grace.pc = "look"
    /\ Turns(IF count.n = 0 THEN "grace" ELSE "outer")
    /\ UNCHANGED <<conn, sessions, mapped, bridges, count, http, stopped>>

\* changed() during the grace period: back to the outer loop, whatever the
\* count is by now.
GraceIsChanged ==
    /\ grace.pc = "grace" /\ Changed
    /\ Seen("outer")
    /\ UNCHANGED <<conn, sessions, mapped, bridges, count, http, stopped>>

\* The sleep ends: the HTTP sessions are counted first.
GraceExpires ==
    /\ grace.pc = "grace"
    /\ grace' = [grace EXCEPT !.pc = "expired", !.http = http]
    /\ UNCHANGED <<conn, sessions, mapped, bridges, count, http, stopped>>

GraceDecides ==
    /\ grace.pc = "expired"
    /\ stopped' = (stopped \/ (count.n = 0 /\ grace.http = 0))
    /\ Turns(IF count.n # 0 THEN "outer" ELSE IF grace.http = 0 THEN "over" ELSE "recheck")
    /\ UNCHANGED <<conn, sessions, mapped, bridges, count, http>>

\* Mutant: HTTP sessions hold the daemon up until a client changes something.
NoRecheck == FALSE /\ UNCHANGED registryVars

\* The poll of the re-check loop.
GraceRechecks ==
    /\ grace.pc = "recheck"
    /\ stopped' = (stopped \/ (count.n = 0 /\ http = 0))
    /\ Turns(IF count.n # 0 THEN "outer" ELSE IF http = 0 THEN "over" ELSE "recheck")
    /\ UNCHANGED <<conn, sessions, mapped, bridges, count, http>>

RecheckIsChanged ==
    /\ grace.pc = "recheck" /\ Changed
    /\ Seen(IF count.n # 0 THEN "outer" ELSE "recheck")
    /\ UNCHANGED <<conn, sessions, mapped, bridges, count, http, stopped>>

\* The token the accept loop cancels when the daemon stops, which the two
\* selects watch.
GraceCancelled ==
    /\ stopped /\ grace.pc \in {"grace", "recheck"}
    /\ Turns("over")
    /\ UNCHANGED <<conn, sessions, mapped, bridges, count, http, stopped>>

(***************************************************************************)
(* Around it                                                               *)
(***************************************************************************)

HttpOpens ==
    /\ http = 0 /\ ~stopped
    /\ http' = 1
    /\ UNCHANGED <<conn, sessions, mapped, bridges, count, grace, stopped>>

HttpEnds ==
    /\ http = 1
    /\ http' = 0
    /\ UNCHANGED <<conn, sessions, mapped, bridges, count, grace, stopped>>

\* A Shutdown request.
Shutdown ==
    /\ ~stopped
    /\ stopped' = TRUE
    /\ UNCHANGED <<conn, sessions, mapped, bridges, count, grace, http>>

RegistryInit ==
    /\ conn = [k \in Conns |-> [pc |-> "new", client |-> CHOOSE c \in Clients : TRUE, old |-> NoConn]]
    /\ sessions = {} /\ bridges = {}
    /\ mapped = [c \in Clients |-> NoConn]
    /\ count = [n |-> 0, version |-> 0]
    /\ grace = [pc |-> "outer", seen |-> 0, http |-> 0]
    /\ http = 0 /\ stopped = FALSE

Register(k) ==
    \/ RegisterMaps(k) \/ RegisterDropsOld(k) \/ RegisterAdds(k)
    \/ RegisterCounts(k) \/ RegisterCleansOld(k) \/ RegisterWires(k)

Deregister(k) ==
    \/ DeregisterRemoves(k) \/ DeregisterChecks(k) \/ DeregisterUnmaps(k)
    \/ DeregisterCounts(k) \/ CleanUp(k)

GraceTask ==
    \/ GraceWakes \/ GraceLooks \/ GraceIsChanged \/ GraceExpires \/ GraceDecides
    \/ GraceRechecks \/ RecheckIsChanged \/ GraceCancelled

RegistryNext ==
    \/ \E k \in Conns :
          \/ \E c \in Clients : OpenConn(k, c)
          \/ Register(k) \/ RegisterDropped(k) \/ Close(k) \/ Deregister(k)
    \/ GraceTask
    \/ HttpOpens \/ HttpEnds \/ Shutdown

\* tokio runs every task that can go on and its timers fire; when a client
\* leaves and when HTTP sessions end is theirs to say.
Fairness ==
    /\ WF_registryVars(GraceTask)
    /\ \A k \in Conns : WF_registryVars(Register(k)) /\ WF_registryVars(Deregister(k))

RegistrySpec == RegistryInit /\ [][RegistryNext]_registryVars /\ Fairness

(***************************************************************************)
(* Properties                                                              *)
(***************************************************************************)

\* The types of the variables; and no bridge of a session outlives the
\* connection that has to remove it (handle_ipc_connection).
RegistryTypeOK ==
    /\ conn \in [Conns -> [pc : {"new", "mapping", "replacing", "adding", "counting", "wiring",
                                "rooting", "dropped", "live", "removing", "checking",
                                "unmapping", "uncounting", "cleaning", "over"},
                          client : Clients, old : Conns \cup {NoConn}]]
    /\ sessions \subseteq Conns /\ bridges \subseteq Conns
    /\ mapped \in [Clients -> Conns \cup {NoConn}]
    /\ count \in [n : 0..Cardinality(Conns), version : 0..2 * Cardinality(Conns)]
    /\ grace \in [pc : {"outer", "look", "grace", "expired", "recheck", "over"},
                  seen : 0..count.version, http : {0, 1}]
    /\ http \in {0, 1} /\ stopped \in BOOLEAN
    /\ \A k \in bridges : conn[k].pc \in {"live", "removing", "checking", "unmapping",
                                         "uncounting", "cleaning"}

\* A connection that changed sessions and has not sent the count yet.
Unsent == \E k \in Conns : conn[k].pc \in {"adding", "counting", "checking", "unmapping", "uncounting"}

\* Both maps tell the truth.  Whatever order the registrations and their counts
\* come in, the last count sent is the number of sessions: the grace task never
\* acts on a number that stays wrong (send_modify reads the length under the
\* channel's lock).  And the liveness probe of a client's tasks never answers for a
\* client that is gone: a mapping leads to a connection whose deregister is still
\* to come, but for a registration that was dropped half-way, whose session nobody
\* deregisters until its client comes back.
RegistryIsCurrent ==
    /\ RegistryTypeOK
    /\ ~Unsent => count.n = Cardinality(sessions)
    /\ \A c \in Clients : mapped[c] # NoConn =>
          conn[mapped[c]].pc \in {"replacing", "adding", "counting", "wiring", "rooting",
                                  "dropped", "live", "removing", "checking", "unmapping"}

\* The number of sessions stays zero and nothing else keeps the daemon up,
\* after a client has come and gone.
Idle ==
    /\ sessions = {} /\ http = 0 /\ count.version > 0
    /\ \A k \in Conns : conn[k].pc \in {"new", "dropped", "over"}

\* The grace task waits for a change that does not come: it took the last one
\* for the end of its countdown.
Missed == grace.pc = "outer" /\ ~Changed /\ count.n = 0

\* The daemon stops once nobody uses it, unless its grace task missed the
\* last change: HTTP sessions that end, clients that replace each other and
\* counts that overtake each other never strand it.
StopsUnlessMissed == <>[]Idle => <>stopped \/ <>[]Missed

(***************************************************************************)
(* What comments and tests of the repository say and the code does not     *)
(* keep: TLC finds each violated (README, section 4).                      *)
(***************************************************************************)

\* "When the count drops to zero, starts a grace_period_secs countdown": a
\* daemon nobody uses stops.
IdleStops == <>[]Idle => <>stopped

\* "A reconnect with the same stable client ID replaces the prior session".
OneSessionPerClient ==
    \A j, k \in sessions : Client(j) = Client(k) /\ At(j, "live") /\ At(k, "live") => j = k

\* The probe "reports whether the client registry still holds a session for
\* that client id".
LiveIsMapped ==
    \A k \in sessions : At(k, "live") => mapped[Client(k)] # NoConn

\* "Auto-deregister on disconnect (clean or crash)" (handle_ipc_connection).
DisconnectedIsDeregistered == \A k \in sessions : ~At(k, "dropped")

=============================================================================
