------------------------- MODULE ContinuationsProofs -------------------------
(***************************************************************************)
(* Proofs about Continuations, for any owners, tools, quota, limit of      *)
(* rounds and finite number of concurrent calls.                           *)
(***************************************************************************)
EXTENDS Continuations, FiniteSetTheorems, TLAPS

Recs == [pc : Pcs, owner : Owners \cup {None}, plain : BOOLEAN, token : 0..MaxTokens,
         route : Routes \cup {None}, round : 1..(MaxRounds + 1), resv : Resvs \cup {None},
         conn : Handles \cup {None}, sentOn : 0..MaxConn, askedOn : 0..MaxConn,
         seen : 0..MaxConn, made : 0..MaxConn, retry : BOOLEAN]

Entries == [nonce : 1..MaxTokens, owner : Owners, binding : Bindings, resv : Resvs,
            round : 1..MaxRounds, conn : Handles, past : BOOLEAN, askedOn : 1..MaxConn]

OwnerStates == [generation : Nat, reservations : Nat \ {0}]

\* TypeOK in parts: the calls, the registry, and the world around it.
CallTypes == call \in [Calls -> Recs]

RegistryTypes ==
    /\ entries \subseteq Entries
    /\ owners \in [Owners -> OwnerStates \cup {None}]
    /\ tokens \subseteq [nonce : 1..MaxTokens, binding : Bindings]
    /\ gen \in 0..MaxGen

WorldTypes ==
    /\ conns \in 1..MaxConn
    /\ cache \in Targets
    /\ published \in [target : Targets, upgen : 0..MaxConn]
    /\ pass \in [target : Targets, upgen : 0..MaxConn] \cup {None}
    /\ up \in Conns \cup {None}
    /\ life \in [Owners -> {"active", "revoked", "cleaned"}]
    /\ resumed \in [1..MaxTokens -> 0..2]

-----------------------------------------------------------------------------
(* The invariant. *)

Early == {"captured", "reserve", "leased", "consume"}
Going == {"closed?", "queued", "fetched", "handed", "sent"}
Asking == {"asked", "active", "same", "park"}

\* What a call's record holds at each step: from the reservation on a round has one,
\* made in the generation its route was captured in; a plain call has none and carries
\* no token.
CallInv(c) ==
    /\ At(c, "idle") => call[c] = Idle
    /\ ~At(c, "idle") => call[c].owner \in Owners
    /\ call[c].pc \in Early =>
          call[c].plain = FALSE /\ call[c].resv = None /\ call[c].route \in Routes
    /\ call[c].pc \in {"reserve", "leased"} => call[c].token = 0
    /\ call[c].pc = "resume" =>
          /\ call[c].plain = FALSE /\ call[c].resv \in Resvs /\ call[c].route \in Routes
          /\ call[c].conn \in Handles /\ call[c].askedOn = call[c].conn.gen
    /\ call[c].pc \in Going /\ call[c].plain = TRUE =>
          call[c].token = 0 /\ call[c].resv = None /\ call[c].route = None
    /\ call[c].pc \in Going /\ call[c].plain = FALSE =>
          /\ call[c].resv \in Resvs /\ call[c].route \in Routes
          /\ call[c].token # 0 => call[c].askedOn = call[c].route.upgen
    /\ call[c].pc \in {"fetched", "handed", "sent"} => call[c].conn \in Handles
    /\ call[c].pc \in Asking =>
          call[c].plain = FALSE /\ call[c].resv \in Resvs /\ call[c].route \in Routes
    /\ call[c].pc \in Early \cup Going \cup Asking => call[c].round <= MaxRounds
    /\ call[c].resv # None => call[c].resv.gen = call[c].route.gen

\* A generation given no later than the current connection's.
Old(g) == g <= conns /\ (up # None => g <= up.gen)

\* A captured route is out of date or leads where the published routes lead.  The
\* generations of connections only grow, so that the connection of a round that found
\* its generation unchanged is the one it has looked up.  If the round then went on
\* another session, posting it has moved the generation on and it is not parked.
RouteInv(c) ==
    call[c].route # None =>
        /\ call[c].route.gen <= gen
        /\ call[c].route.gen = gen => call[c].route.target = cache
        /\ Old(call[c].route.upgen)
        /\ At(c, "fetched") =>
              call[c].route.upgen <= call[c].conn.gen /\ Old(call[c].conn.gen)
        /\ call[c].pc \in {"fetched", "handed"} =>
              (up # None /\ up.gen = call[c].conn.gen => up.id = call[c].conn.id)
        /\ call[c].pc \in {"handed", "sent"} =>
              call[c].conn.gen = call[c].route.upgen /\ call[c].seen = call[c].route.upgen
        /\ call[c].pc \in {"sent", "asked", "active"} =>
              \/ call[c].sentOn = call[c].route.upgen
              \/ up # None => up.gen # call[c].route.upgen
        /\ call[c].pc \in {"same", "park"} => call[c].sentOn = call[c].route.upgen
        /\ At(c, "park") => call[c].conn \in Handles /\ call[c].conn.gen = call[c].route.upgen

WorldInv ==
    /\ up # None => up.gen <= conns
    /\ published.target = cache

\* The reservations of an owner's entries and calls.
Theirs(S, o) == {e \in S : e.owner = o}
Held(o) == {c \in Calls : call[c].owner = o /\ call[c].resv # None}
Leased(o) == {c \in Calls : call[c].owner = o /\ (At(c, "leased") \/ call[c].resv # None)}
Reservations(o) == IF owners[o] = None THEN 0 ELSE owners[o].reservations

LedgerInv ==
    /\ IsFiniteSet(entries)
    /\ \A o \in Owners : Reservations(o) = Count(entries, o) + Cardinality(Held(o))

QuotaInv == \A o \in Owners : Leases(entries, o) <= Quota

EntryInv(e) ==
    /\ e.binding.owner = e.owner /\ e.resv.gen = e.binding.gen /\ e.askedOn = e.conn.gen
    /\ e.binding.gen = gen /\ e.binding.target = cache
    /\ life[e.owner] # "cleaned"
    /\ e.resv.owner <= owners[e.owner].generation

\* A reservation remembers no later generation of its owner than the ledger's; one
\* that is past the last look at the sign-in of an owner that has been cleaned up
\* remembers an earlier one.
HeldInv(c) ==
    call[c].resv # None =>
        /\ call[c].resv.owner <= owners[call[c].owner].generation
        /\ life[call[c].owner] = "cleaned" /\ call[c].pc \in {"active", "same", "park"} =>
              call[c].resv.owner < owners[call[c].owner].generation

\* Tokens are numbered in the order they are issued, and an entry has one of its own.
NonceInv ==
    /\ IsFiniteSet(tokens)
    /\ \A k \in tokens : k.nonce <= Cardinality(tokens)
    /\ \A e \in entries : e.nonce <= Cardinality(tokens)
    /\ \A e, f \in entries : e.nonce = f.nonce => e = f
    /\ \A c \in Calls : call[c].token <= Cardinality(tokens)

\* The call has taken a token's entry and has yet to send it on.
Waiting(c) == call[c].token # 0 /\ call[c].pc \in {"resume", "closed?", "queued", "fetched", "handed"}

\* A token's state is in one place, its entry or one waiting call, and is not sent on
\* before it leaves that.
ResumedInv ==
    /\ \A t \in 1..MaxTokens : /\ resumed[t] <= 1
                               /\ t > Cardinality(tokens) => resumed[t] = 0
    /\ \A e \in entries : resumed[e.nonce] = 0
    /\ \A c \in Calls : Waiting(c) =>
          /\ resumed[call[c].token] = 0
          /\ \A e \in entries : e.nonce # call[c].token
          /\ \A d \in Calls : Waiting(d) /\ call[d].token = call[c].token => d = c

Inv ==
    /\ CallTypes /\ RegistryTypes /\ WorldTypes /\ WorldInv
    /\ \A c \in Calls : CallInv(c) /\ RouteInv(c) /\ HeldInv(c)
    /\ \A e \in entries : EntryInv(e)
    /\ LedgerInv /\ QuotaInv /\ NonceInv /\ ResumedInv

-----------------------------------------------------------------------------
(* The shapes of the steps. *)

LEMMA Bounds ==
    /\ Quota \in Nat \ {0} /\ MaxRounds \in Nat \ {0} /\ MaxConn \in Nat \ {0}
    /\ MaxTokens \in Nat \ {0} /\ MaxGen \in Nat
BY ContinuationsAssumption

LEMMA NoneIsNothing ==
    /\ None \notin Owners /\ None \notin Targets
    /\ None \notin Routes /\ None \notin Conns /\ None \notin Handles /\ None \notin Resvs
    /\ None \notin [generation : Nat, reservations : Nat]
    /\ None \notin OwnerStates
    /\ None \notin [target : Targets, upgen : 0..MaxConn]
<1>1. OwnerStates \subseteq [generation : Nat, reservations : Nat]
  BY DEF OwnerStates
<1>. QED
  BY <1>1, ContinuationsAssumption, NoneAssumption, Zenon

LEMMA IdleType == Idle \in Recs
BY Bounds DEF Idle, Recs, Pcs

\* The call ends and what it held goes; nothing else happens.
Over(c) == ~At(c, "idle") /\ Ends(c) /\ UNCHANGED <<gen, entries, tokens, world, resumed>>

\* The call goes on; nothing else happens.
Steps(c, from, to) ==
    At(c, from) /\ Go(c, to) /\ UNCHANGED <<gen, entries, owners, tokens, world, resumed>>

\* The call goes out.
Sends(c) == Send(c) \/ SendRetired(c)

\* Lost, when the call is sent again.
Repeats(c) ==
    /\ At(c, "sent") /\ call[c].plain = TRUE
    /\ up' = Connected /\ conns < MaxConn /\ conns' = conns + 1
    /\ call' = [call EXCEPT ![c] = [@ EXCEPT !.pc = "closed?", !.retry = TRUE]]
    /\ UNCHANGED <<gen, entries, owners, tokens, cache, published, pass, life, resumed>>

\* Consume, with and without an entry to take.
Takes(c, e) ==
    /\ At(c, "consume")
    /\ e \in entries /\ e.nonce = call[c].token /\ e.binding = Binding(c)
    /\ entries' = entries \ {e} /\ owners' = owners
    /\ call' = [call EXCEPT ![c] = [@ EXCEPT
           !.pc = "resume", !.resv = e.resv, !.round = e.round + 1,
           !.conn = e.conn, !.askedOn = e.askedOn]]
    /\ UNCHANGED <<gen, tokens, world, resumed>>

TakesNothing(c, S) ==
    /\ At(c, "consume")
    /\ S \subseteq entries
    /\ entries' = entries \ S /\ owners' = Released(S)
    /\ call' = [call EXCEPT ![c] = Idle]
    /\ UNCHANGED <<gen, tokens, world, resumed>>

LEMMA RoundFrame ==
  ASSUME CallTypes, WorldTypes, NEW c \in Calls, Round(c)
  PROVE  /\ UNCHANGED <<gen, cache, published, pass, life>>
         /\ \/ UNCHANGED <<up, conns>>
            \/ up' = Connected /\ conns' = conns + 1 /\ conns < MaxConn
            \/ up # None /\ up' = [up EXCEPT !.gen = conns] /\ conns' = conns
         /\ \A d \in Calls \ {c} : call'[d] = call[d]
<1>. USE DEF CallTypes, WorldTypes, world, Ends, Go
<1>1. CASE \E o \in Owners, t \in 0..MaxTokens : Start(c, o, t)
  BY <1>1 DEF Start
<1>2. CASE \E o \in Owners : StartPlain(c, o)
  BY <1>2 DEF StartPlain
<1>3. CASE Admit(c) \/ Lease(c) \/ Reserve(c)
  BY <1>3 DEF Admit, Lease, Reserve
<1>4. CASE Consume(c)
  BY <1>4 DEF Consume
<1>5. CASE Resume(c) \/ ResumeRefused(c) \/ Reopen(c) \/ Queue(c) \/ Fetch(c) \/ FetchFails(c)
  BY <1>5 DEF Resume, ResumeRefused, Reopen, Queue, Fetch, FetchFails
<1>6. CASE Check(c) \/ Sends(c) \/ SendRefused(c) \/ Answered(c) \/ Asks(c)
  BY <1>6 DEF Check, Sends, Send, SendRetired, IsCurrent, SendRefused, Answered, Asks
<1>7. CASE \E proof \in BOOLEAN : Lost(c, proof)
  BY <1>7 DEF Lost
<1>8. CASE AskedSignedIn(c) \/ AskedSameRoute(c) \/ AskedSameConn(c) \/ Park(c)
  BY <1>8 DEF AskedSignedIn, AskedSameRoute, AskedSameConn, Park
<1>. QED
  BY <1>1, <1>2, <1>3, <1>4, <1>5, <1>6, <1>7, <1>8 DEF Round, Sends

\* The call is handed over, and goes out.
LEMMA SendRecord ==
  ASSUME CallTypes, NEW c \in Calls
  PROVE  /\ Check(c) =>
               /\ call[c].pc = "fetched" /\ UNCHANGED <<entries, owners, tokens>>
               /\ \E n : call'[c] = [call[c] EXCEPT !.pc = "handed", !.seen = n]
         /\ Sends(c) =>
               /\ call[c].pc = "handed" /\ UNCHANGED <<entries, owners, tokens>>
               /\ Resumes(call[c].token)
               /\ \E n : call'[c] = [call[c] EXCEPT !.pc = "sent", !.sentOn = n]
<1>1. ASSUME Check(c)
      PROVE  /\ call[c].pc = "fetched" /\ UNCHANGED <<entries, owners, tokens>>
             /\ \E n : call'[c] = [call[c] EXCEPT !.pc = "handed", !.seen = n]
  <2>1. \E n : call' = [call EXCEPT ![c] = [@ EXCEPT !.pc = "handed", !.seen = n]]
    BY <1>1, Zenon DEF Check
  <2>. QED
    BY <1>1, <2>1 DEF Check, At, CallTypes
<1>2. ASSUME Sends(c)
      PROVE  /\ call[c].pc = "handed" /\ UNCHANGED <<entries, owners, tokens>>
             /\ Resumes(call[c].token)
             /\ \E n : call'[c] = [call[c] EXCEPT !.pc = "sent", !.sentOn = n]
  <2>1. \E n : call' = [call EXCEPT ![c] = [@ EXCEPT !.pc = "sent", !.sentOn = n]]
    BY <1>2, Zenon DEF Sends, Send, SendRetired
  <2>2. call[c].pc = "handed" /\ UNCHANGED <<entries, owners, tokens>> /\ Resumes(call[c].token)
    BY <1>2 DEF Sends, Send, SendRetired, At
  <2>. QED
    BY <2>1, <2>2 DEF CallTypes
<1>. QED
  BY <1>1, <1>2

LEMMA ReleasesNothing ==
  ASSUME RegistryTypes
  PROVE  Released({}) = owners
<1>1. \A o \in Owners : Count({}, o) = 0
  <2>1. \A o \in Owners : {e \in {} : e.owner = o} = {}
    OBVIOUS
  <2>. QED
    BY <2>1, FS_EmptySet DEF Count
<1>2. ASSUME NEW o \in Owners, owners[o] # None
      PROVE  /\ owners[o].reservations # Count({}, o)
             /\ [owners[o] EXCEPT !.reservations = @ - Count({}, o)] = owners[o]
  BY <1>1, <1>2 DEF RegistryTypes, OwnerStates
<1>. QED
  BY <1>2 DEF Released, RegistryTypes

\* Which step a call takes, by what it does to the registry.
LEMMA RoundKinds ==
  ASSUME CallTypes, RegistryTypes, NonceInv, NEW c \in Calls, CallInv(c), Round(c)
  PROVE  \/ \E o \in Owners, t \in 0..MaxTokens : Start(c, o, t)
         \/ \E o \in Owners : StartPlain(c, o)
         \/ Steps(c, "captured", "reserve") /\ call[c].token = 0
         \/ Steps(c, "captured", "consume")
         \/ Lease(c)
         \/ Reserve(c) /\ gen = call[c].route.gen
         \/ \E e \in entries : Takes(c, e)
         \/ \E S \in SUBSET entries : TakesNothing(c, S)
         \/ Resume(c) \/ Reopen(c) \/ Queue(c) \/ Fetch(c) \/ Check(c) \/ Sends(c) \/ Repeats(c)
         \/ Steps(c, "sent", "asked") /\ call[c].plain = FALSE
         \/ Steps(c, "asked", "active") /\ SignedIn(c)
         \/ Steps(c, "active", "same") /\ up # None /\ Identity = call[c].route
         \/ AskedSameConn(c) /\ up # None /\ up.gen = call[c].route.upgen
         \/ Park(c) /\ MayPark(c) /\ Cardinality(tokens) + 1 <= MaxTokens
         \/ Over(c)
<1>. USE DEF At
<1>1. CASE Admit(c)
  <2>1. CASE SignedIn(c)
    BY <1>1, <2>1 DEF Admit, Steps
  <2>2. CASE ~SignedIn(c)
    <3>1. call[c].resv = None
      BY <1>1 DEF Admit, CallInv, Early
    <3>2. Released(Own(c)) = owners
      BY <3>1, ReleasesNothing DEF Own
    <3>. QED
      BY <1>1, <2>2, <3>2 DEF Admit, Over, Ends
  <2>. QED
    BY <2>1, <2>2
<1>2. CASE Reserve(c)
  BY <1>2 DEF Reserve, Over
<1>3. CASE Consume(c)
  <2>. DEFINE mine == {k \in tokens : k.nonce = call[c].token /\ k.binding = Binding(c)}
              found == {e \in entries : mine # {} /\ e.nonce = call[c].token}
  <2>1. CASE \E e \in found : ~e.past /\ e.binding = Binding(c)
    <3>1. PICK f \in found : f.binding = Binding(c)
      BY <2>1
    <3>2. PICK e \in found :
             /\ TakesEntry(e)
             /\ call' = [call EXCEPT ![c] = [@ EXCEPT
                    !.pc = "resume", !.resv = e.resv, !.round = e.round + 1,
                    !.conn = e.conn, !.askedOn = e.askedOn]]
      BY <1>3, <2>1, Zenon DEF Consume
    <3>3. e = f /\ e \in entries /\ e.nonce = call[c].token
      BY <3>1, <3>2 DEF NonceInv
    <3>4. Takes(c, e)
      BY <1>3, <3>1, <3>2, <3>3 DEF Takes, TakesEntry, Consume
    <3>. QED
      BY <3>3, <3>4
  <2>2. CASE ~\E e \in found : ~e.past /\ e.binding = Binding(c)
    <3>1. /\ entries' = entries \ found
          /\ call' = [call EXCEPT ![c] = Idle]
          /\ owners' = Released(found)
      BY <1>3, <2>2, Zenon DEF Consume
    <3>2. found \in SUBSET entries
      OBVIOUS
    <3>3. TakesNothing(c, found)
      BY <1>3, <3>1, <3>2 DEF TakesNothing, Consume
    <3>. QED
      BY <3>2, <3>3
  <2>. QED
    BY <2>1, <2>2
<1>4. CASE ResumeRefused(c) \/ FetchFails(c) \/ SendRefused(c) \/ Answered(c)
  BY <1>4 DEF ResumeRefused, FetchFails, SendRefused, Answered, Over
<1>5. CASE Asks(c)
  <2>1. call[c].plain \in BOOLEAN
    BY DEF CallTypes, Recs
  <2>2. CASE call[c].plain = TRUE
    BY <1>5, <2>2 DEF Asks, Over
  <2>3. CASE call[c].plain = FALSE
    BY <1>5, <2>3 DEF Asks, Steps
  <2>. QED
    BY <2>1, <2>2, <2>3
<1>6. ASSUME NEW proof \in BOOLEAN, Lost(c, proof)
      PROVE  Repeats(c) \/ Over(c)
  <2>1. CASE MayRepeat(c, proof) /\ conns < MaxConn
    <3>1. call[c].plain = TRUE
      <4>1. call[c].plain \in BOOLEAN
        BY DEF CallTypes, Recs
      <4>. QED
        BY <1>6, <2>1, <4>1, Zenon DEF Lost, MayRepeat
    <3>. QED
      BY <1>6, <2>1, <3>1 DEF Lost, Repeats
  <2>2. CASE ~(MayRepeat(c, proof) /\ conns < MaxConn)
    BY <1>6, <2>2 DEF Lost, Over, world
  <2>. QED
    BY <2>1, <2>2
<1>7. CASE AskedSignedIn(c)
  BY <1>7 DEF AskedSignedIn, StillSignedIn, Steps, Over
<1>8. CASE AskedSameRoute(c)
  BY <1>8 DEF AskedSameRoute, Steps, Over
<1>9. CASE AskedSameConn(c)
  BY <1>9 DEF AskedSameConn, Over
<1>10. CASE Park(c)
  BY <1>10 DEF Park, Over
<1>. QED
  BY <1>1, <1>2, <1>3, <1>4, <1>5, <1>6, <1>7, <1>8, <1>9, <1>10 DEF Round, Sends

-----------------------------------------------------------------------------
(* The calls. *)

\* What the calls' invariants need of everything else.
Known ==
    /\ CallTypes /\ RegistryTypes /\ WorldTypes /\ WorldInv
    /\ \A c \in Calls : CallInv(c) /\ RouteInv(c)
    /\ \A e \in entries : EntryInv(e)
    /\ NonceInv

\* The connection and its generation only move on.
Forward ==
    /\ conns' = conns \/ conns' = conns + 1
    /\ up' # None =>
          \/ /\ up # None /\ up'.id = up.id
             /\ up'.gen = up.gen \/ (up'.gen = conns /\ up.gen <= conns)
          \/ up'.gen = conns + 1 /\ conns' = conns + 1

LEMMA OldStays ==
  ASSUME WorldTypes, WorldTypes', Forward, NEW g \in Nat, Old(g)
  PROVE  /\ Old(g)'
         /\ up' # None /\ up'.gen = g => up # None /\ up.gen = g /\ up'.id = up.id
<1>1. /\ conns \in Nat /\ conns' \in Nat
      /\ up # None => up.gen \in Nat
      /\ up' # None => up'.gen \in Nat
  BY Bounds, NoneIsNothing DEF WorldTypes, Conns
<1>. QED
  BY <1>1 DEF Forward, Old

\* A call whose record stays, while the world moves on.
LEMMA RouteStays ==
  ASSUME WorldTypes, WorldTypes', Forward, NEW c \in Calls, call[c] \in Recs,
         CallInv(c), RouteInv(c), call'[c] = call[c], gen \in Nat, gen' \in Nat,
         (gen' = gen /\ cache' = cache) \/ gen' = gen + 1
  PROVE  RouteInv(c)'
<1>. USE NoneIsNothing, Bounds
<1>1. SUFFICES ASSUME call[c].route # None PROVE RouteInv(c)'
  BY DEF RouteInv
<1>2. call[c].route \in Routes /\ call[c].route.upgen \in Nat /\ call[c].route.gen \in Nat
  BY <1>1 DEF Recs, Routes
<1>. DEFINE g == call[c].route.upgen
<1>3. /\ Old(g)'
      /\ up' # None /\ up'.gen = g => up # None /\ up.gen = g /\ up'.id = up.id
  BY <1>1, <1>2, OldStays DEF RouteInv
<1>4. ASSUME call[c].pc \in {"fetched", "handed"}
      PROVE  /\ At(c, "fetched") => Old(call[c].conn.gen)'
             /\ (up' # None /\ up'.gen = call[c].conn.gen => up'.id = call[c].conn.id)
  <2>1. call[c].conn.gen \in Nat
    BY <1>4 DEF CallInv, Handles
  <2>2. Old(call[c].conn.gen)
    BY <1>1, <1>4 DEF RouteInv, At
  <2>. DEFINE h == call[c].conn.gen
  <2>3. /\ h <= conns' /\ (up' # None => h <= up'.gen)
        /\ up' # None /\ up'.gen = h => up # None /\ up.gen = h /\ up'.id = up.id
    BY <2>1, <2>2, OldStays DEF Old
  <2>4. up # None /\ up.gen = h => up.id = call[c].conn.id
    BY <1>1, <1>4 DEF RouteInv
  <2>. QED
    BY <2>3, <2>4 DEF Old
<1>5. /\ call[c].route.gen <= gen'
      /\ call[c].route.gen = gen' => call[c].route.target = cache'
  BY <1>1, <1>2 DEF RouteInv
<1>. QED
  BY <1>1, <1>3, <1>4, <1>5 DEF RouteInv, At

LEMMA CallRecord ==
  ASSUME Known, NEW c \in Calls, Round(c)
  PROVE  CallTypes' /\ CallInv(c)' /\ RouteInv(c)'
<1>. USE Bounds, NoneIsNothing
<1>. USE DEF At, Go, Pcs, Early, Going, Asking
<1>0. /\ CallTypes /\ call[c] \in Recs /\ CallInv(c) /\ RouteInv(c) /\ WorldInv
      /\ gen \in 0..MaxGen /\ conns \in 1..MaxConn /\ cache \in Targets /\ up \in Conns \cup {None}
  BY DEF Known, CallTypes, RegistryTypes, WorldTypes
<1>i. call'[c] = Idle => CallInv(c)' /\ RouteInv(c)'
  BY DEF CallInv, RouteInv, Idle
<1>. DEFINE kept == UNCHANGED <<gen, cache, up, conns>>
<1>. USE DEF Old
<1>1. ASSUME NEW o \in Owners, NEW t \in 0..MaxTokens, Start(c, o, t)
      PROVE  CallTypes' /\ CallInv(c)' /\ RouteInv(c)'
  <2>1. Identity \in Routes
    BY <1>0, <1>1 DEF Start, Identity, Routes, Conns, WorldInv
  <2>2. call' = [call EXCEPT ![c] = [Idle EXCEPT
                   !.pc = "captured", !.owner = o, !.token = t, !.route = Identity]]
    BY <1>1 DEF Start
  <2>3. CallTypes'
    BY <1>0, <2>1, <2>2, IdleType DEF CallTypes, Recs
  <2>4. call'[c] = [Idle EXCEPT
                   !.pc = "captured", !.owner = o, !.token = t, !.route = Identity]
    BY <1>0, <2>2 DEF CallTypes
  <2>5. kept
    BY <1>1 DEF Start, world
  <2>6. CallInv(c)'
    BY <2>1, <2>4 DEF CallInv, Idle
  <2>7. RouteInv(c)'
    BY <1>0, <1>1, <2>4, <2>5 DEF RouteInv, Idle, Identity, WorldInv, Start, Conns
  <2>. QED
    BY <2>3, <2>6, <2>7
<1>2. ASSUME NEW o \in Owners, StartPlain(c, o)
      PROVE  CallTypes' /\ CallInv(c)' /\ RouteInv(c)'
  <2>1. CallTypes'
    BY <1>0, <1>2, IdleType DEF StartPlain, CallTypes, Recs
  <2>2. call'[c] = [Idle EXCEPT !.pc = "closed?", !.owner = o, !.plain = TRUE]
    BY <1>0, <1>2 DEF StartPlain, CallTypes
  <2>. QED
    BY <2>1, <2>2 DEF CallInv, RouteInv, Idle
<1>3. ASSUME NEW from \in Pcs, NEW to \in Pcs, Steps(c, from, to)
      PROVE  /\ CallTypes' /\ call[c].pc = from /\ call'[c] = [call[c] EXCEPT !.pc = to]
             /\ kept
  BY <1>0, <1>3 DEF Steps, CallTypes, Recs, world
<1>4. CASE Steps(c, "captured", "reserve") /\ call[c].token = 0
  BY <1>0, <1>3, <1>4 DEF CallInv, RouteInv, Recs
<1>5. CASE Steps(c, "captured", "consume")
  BY <1>0, <1>3, <1>5 DEF CallInv, RouteInv, Recs
<1>6. CASE Lease(c)
  <2>1. kept
    BY <1>6 DEF Lease, world
  <2>2. CASE Go(c, "leased")
    <3>1. CallTypes' /\ call'[c] = [call[c] EXCEPT !.pc = "leased"] /\ call[c].pc = "reserve"
      BY <1>0, <1>6, <2>2 DEF Lease, CallTypes, Recs
    <3>. QED
      BY <1>0, <2>1, <3>1 DEF CallInv, RouteInv, Recs
  <2>3. CASE call' = [call EXCEPT ![c] = Idle]
    BY <1>0, <1>i, <2>3, IdleType DEF CallTypes
  <2>. QED
    BY <1>6, <2>2, <2>3 DEF Lease
<1>7. CASE Reserve(c) /\ gen = call[c].route.gen
  <2>1. kept
    BY <1>7 DEF Reserve, world
  <2>2. PICK n \in Nat :
           /\ call' = [call EXCEPT ![c] = [@ EXCEPT
                 !.pc = "closed?", !.resv = [gen |-> gen, owner |-> n]]]
    <3>. DEFINE o == call[c].owner
                state == IF owners[o] = None THEN [generation |-> 0, reservations |-> 0]
                         ELSE owners[o]
    <3>1. state.generation \in Nat
      BY <1>0, <1>7 DEF Known, RegistryTypes, OwnerStates, CallInv, Reserve
    <3>2. call' = [call EXCEPT ![c] = [@ EXCEPT
                 !.pc = "closed?", !.resv = [gen |-> gen, owner |-> state.generation]]]
      BY <1>7, Zenon DEF Reserve
    <3>. QED
      BY <3>1, <3>2
  <2>3. [gen |-> gen, owner |-> n] \in Resvs
    BY <1>0 DEF Resvs
  <2>4. CallTypes'
    BY <1>0, <2>2, <2>3 DEF CallTypes, Recs
  <2>5. call'[c] = [call[c] EXCEPT !.pc = "closed?", !.resv = [gen |-> gen, owner |-> n]]
    BY <1>0, <2>2 DEF CallTypes
  <2>6. call[c].pc = "leased"
    BY <1>7 DEF Reserve
  <2>7. CallInv(c)'
    BY <1>0, <1>7, <2>3, <2>5, <2>6 DEF CallInv, Recs
  <2>8. RouteInv(c)'
    BY <1>0, <2>1, <2>5, <2>6 DEF RouteInv, Recs
  <2>. QED
    BY <2>4, <2>7, <2>8
<1>8. ASSUME NEW e \in entries, Takes(c, e) PROVE CallTypes' /\ CallInv(c)' /\ RouteInv(c)'
  <2>1. kept
    BY <1>8 DEF Takes, world
  <2>2. e \in Entries /\ EntryInv(e)
    BY DEF Known, RegistryTypes
  <2>3. CallTypes'
    <3>1. e.round + 1 \in 1..(MaxRounds + 1) /\ e.askedOn \in 0..MaxConn
      BY <2>2 DEF Entries
    <3>2. e.resv \in Resvs /\ e.conn \in Handles
      BY <2>2 DEF Entries
    <3>3. [call[c] EXCEPT !.pc = "resume", !.resv = e.resv, !.round = e.round + 1,
                          !.conn = e.conn, !.askedOn = e.askedOn] \in Recs
      BY <1>0, <3>1, <3>2 DEF Recs
    <3>. QED
      BY <1>0, <1>8, <3>3 DEF Takes, CallTypes
  <2>4. call[c].pc = "consume" /\ call'[c] = [call[c] EXCEPT
           !.pc = "resume", !.resv = e.resv, !.round = e.round + 1,
           !.conn = e.conn, !.askedOn = e.askedOn]
    BY <1>0, <1>8 DEF Takes, CallTypes
  <2>5. e.resv.gen = call[c].route.gen
    BY <1>8, <2>2 DEF Takes, EntryInv, Binding
  <2>6. CallInv(c)'
    BY <1>0, <2>2, <2>4, <2>5 DEF CallInv, Recs, Entries, EntryInv
  <2>7. RouteInv(c)'
    BY <1>0, <2>1, <2>4 DEF RouteInv, Recs
  <2>. QED
    BY <2>3, <2>6, <2>7
<1>9. CASE Over(c) \/ \E S \in SUBSET entries : TakesNothing(c, S)
  BY <1>0, <1>i, <1>9, IdleType DEF Over, Ends, TakesNothing, CallTypes
<1>10. CASE Resume(c)
  <2>1. Steps(c, "resume", "closed?")
    BY <1>10 DEF Resume, Steps
  <2>. QED
    BY <1>0, <1>3, <1>10, <2>1 DEF Resume, CallInv, RouteInv, Recs
<1>11. CASE Reopen(c)
  <2>1. CallTypes'
    <3>1. conns + 1 \in 0..MaxConn
      BY <1>0, <1>11 DEF Reopen
    <3>2. [call[c] EXCEPT !.pc = "queued", !.made = conns + 1] \in Recs
      BY <1>0, <3>1 DEF Recs
    <3>. QED
      BY <1>0, <1>11, <3>2 DEF Reopen, CallTypes
  <2>2. call[c].pc = "closed?" /\ call'[c] = [call[c] EXCEPT !.pc = "queued", !.made = conns + 1]
    BY <1>0, <1>11 DEF Reopen, CallTypes
  <2>3. gen' = gen /\ cache' = cache /\ conns' = conns + 1 /\ up'.gen = conns + 1
    BY <1>11 DEF Reopen, Connected
  <2>4. CallInv(c)'
    BY <1>0, <2>2 DEF CallInv, Recs
  <2>5. RouteInv(c)'
    BY <1>0, <2>2, <2>3 DEF RouteInv, Recs, Routes
  <2>. QED
    BY <2>1, <2>4, <2>5
<1>12. CASE Queue(c)
  <2>1. Steps(c, "closed?", "queued")
    BY <1>12 DEF Queue, Steps
  <2>. QED
    BY <1>0, <1>3, <2>1 DEF CallInv, RouteInv, Recs
<1>13. CASE Fetch(c)
  <2>0. up # None /\ Handle \in Handles /\ Handle.gen = up.gen /\ Handle.id = up.id
    BY <1>0, <1>13 DEF Fetch, Handle, Handles, Conns
  <2>1. CallTypes'
    BY <1>0, <1>13, <2>0 DEF Fetch, CallTypes, Recs
  <2>2. call[c].pc = "queued" /\ call'[c] = [call[c] EXCEPT !.pc = "fetched", !.conn = Handle]
    BY <1>0, <1>13 DEF Fetch, CallTypes
  <2>3. kept
    BY <1>13 DEF Fetch, world
  <2>4. CallInv(c)'
    BY <1>0, <2>0, <2>2 DEF CallInv, Recs
  <2>5. RouteInv(c)'
    BY <1>0, <2>0, <2>2, <2>3 DEF RouteInv, Recs, Routes, WorldInv, Conns
  <2>. QED
    BY <2>1, <2>4, <2>5
<1>14. CASE Check(c)
  <2>. DEFINE n == IF call[c].plain THEN 0 ELSE up.gen
  <2>1. call[c].pc = "fetched" /\ call[c].conn \in Handles /\ call[c].plain \in BOOLEAN
    BY <1>0, <1>14 DEF Check, CallInv, Recs
  <2>2. call[c].plain = FALSE => up # None /\ call[c].route = Identity
    BY <1>14 DEF Check, RouteHolds
  <2>3. n \in 0..MaxConn
    <3>1. call[c].plain = FALSE => up.gen \in 0..MaxConn
      BY <1>0, <2>2 DEF Conns
    <3>. QED
      BY <2>1, <3>1
  <2>4. call' = [call EXCEPT ![c] = [@ EXCEPT !.pc = "handed", !.seen = n]] /\ kept
    BY <1>14 DEF Check, world
  <2>h. call[c].plain = FALSE => n = up.gen
    OBVIOUS
  <2>. HIDE DEF n
  <2>5. CallTypes' /\ call'[c] = [call[c] EXCEPT !.pc = "handed", !.seen = n]
    <3>1. [call[c] EXCEPT !.pc = "handed", !.seen = n] \in Recs
      BY <1>0, <2>3 DEF Recs
    <3>. QED
      BY <1>0, <2>4, <3>1 DEF CallTypes
  <2>6. CallInv(c)'
    BY <1>0, <2>1, <2>5 DEF CallInv, Recs
  <2>7. ASSUME call[c].route # None
        PROVE  n = call[c].route.upgen /\ call[c].conn.gen = call[c].route.upgen
    <3>1. call[c].plain = FALSE
      BY <1>0, <2>1, <2>7 DEF CallInv, Recs
    <3>2. up # None /\ call[c].route.upgen = up.gen /\ n = up.gen
      BY <2>2, <2>h, <3>1 DEF Identity
    <3>. QED
      BY <1>0, <2>1, <2>7, <3>2 DEF RouteInv, Conns, Handles
  <2>8. RouteInv(c)'
    BY <1>0, <2>1, <2>4, <2>5, <2>7 DEF RouteInv, Recs
  <2>. QED
    BY <2>5, <2>6, <2>8
<1>s. CASE Sends(c)
  <2>1. call[c].pc = "handed" /\ call[c].conn \in Handles /\ call[c].conn.gen \in 0..MaxConn
    BY <1>0, <1>s DEF Sends, Send, SendRetired, CallInv, Handles
  <2>2. PICK on \in 0..MaxConn :
           /\ call' = [call EXCEPT ![c] = [@ EXCEPT !.pc = "sent", !.sentOn = on]]
           /\ \/ Send(c) /\ on = conns
              \/ SendRetired(c)
    <3>1. CASE Send(c)
      <4>1. call' = [call EXCEPT ![c] = [@ EXCEPT !.pc = "sent", !.sentOn = conns]]
        BY <3>1 DEF Send
      <4>2. conns \in 0..MaxConn
        BY <1>0
      <4>. QED
        BY <3>1, <4>1, <4>2, Zenon
    <3>2. CASE SendRetired(c)
      <4>1. \E n \in {call[c].conn.gen, 0} :
               call' = [call EXCEPT ![c] = [@ EXCEPT !.pc = "sent", !.sentOn = n]]
        BY <3>2 DEF SendRetired
      <4>2. call[c].conn.gen \in 0..MaxConn /\ 0 \in 0..MaxConn
        BY <2>1
      <4>. QED
        BY <3>2, <4>1, <4>2, Zenon
    <3>. QED
      BY <1>s, <3>1, <3>2 DEF Sends
  <2>3. CallTypes' /\ call'[c] = [call[c] EXCEPT !.pc = "sent", !.sentOn = on]
    <3>1. [call[c] EXCEPT !.pc = "sent", !.sentOn = on] \in Recs
      BY <1>0 DEF Recs
    <3>. QED
      BY <1>0, <2>2, <3>1 DEF CallTypes
  <2>4. CallInv(c)'
    BY <1>0, <2>1, <2>3 DEF CallInv, Recs
  <2>5. CASE Send(c) /\ on = conns
    <3>1. /\ up # None /\ up' = [up EXCEPT !.gen = conns] /\ UNCHANGED <<gen, cache, conns>>
      BY <2>5 DEF Send, IsCurrent
    <3>2. up'.gen = conns
      BY <1>0, <3>1 DEF Conns
    <3>. QED
      BY <1>0, <2>1, <2>3, <2>4, <2>5, <3>1, <3>2 DEF RouteInv, Recs, Routes
  <2>6. CASE SendRetired(c)
    <3>1. kept /\ ~(up # None /\ up.id = call[c].conn.id)
      BY <2>6 DEF SendRetired, IsCurrent, world
    <3>2. call[c].route # None => (up # None => up.gen # call[c].route.upgen)
      BY <1>0, <2>1, <3>1 DEF RouteInv
    <3>. QED
      BY <1>0, <2>1, <2>3, <2>4, <3>1, <3>2 DEF RouteInv, Recs, Routes
  <2>. QED
    BY <2>2, <2>5, <2>6
<1>15. CASE Repeats(c)
  <2>1. CallTypes'
    BY <1>0, <1>15 DEF Repeats, CallTypes, Recs
  <2>2. /\ call[c].pc = "sent" /\ call[c].plain = TRUE
        /\ call'[c] = [call[c] EXCEPT !.pc = "closed?", !.retry = TRUE]
    BY <1>0, <1>15 DEF Repeats, CallTypes
  <2>3. gen' = gen /\ cache' = cache
    BY <1>15 DEF Repeats
  <2>4. CallInv(c)'
    BY <1>0, <2>2 DEF CallInv, Recs
  <2>5. RouteInv(c)'
    BY <1>0, <2>2 DEF RouteInv, CallInv, Recs
  <2>. QED
    BY <2>1, <2>4, <2>5
<1>16. CASE Steps(c, "sent", "asked") /\ call[c].plain = FALSE
  BY <1>0, <1>3, <1>16 DEF CallInv, RouteInv, Recs
<1>17. CASE Steps(c, "asked", "active")
  BY <1>0, <1>3, <1>17 DEF CallInv, RouteInv, Recs
<1>a. CASE Steps(c, "active", "same") /\ up # None /\ Identity = call[c].route
  <2>1. up.gen = call[c].route.upgen
    BY <1>a DEF Identity
  <2>. QED
    BY <1>0, <1>3, <1>a, <2>1 DEF CallInv, RouteInv, Recs
<1>18. CASE AskedSameConn(c) /\ up # None /\ up.gen = call[c].route.upgen
  <2>0. Handle \in Handles /\ Handle.gen = up.gen
    BY <1>0, <1>18 DEF Handle, Handles, Conns
  <2>1. CallTypes'
    <3>1. [call[c] EXCEPT !.pc = "park", !.conn = Handle] \in Recs
      BY <1>0, <2>0 DEF Recs
    <3>. QED
      BY <1>0, <1>18, <3>1 DEF AskedSameConn, CallTypes
  <2>2. call[c].pc = "same" /\ call'[c] = [call[c] EXCEPT !.pc = "park", !.conn = Handle]
    BY <1>0, <1>18 DEF AskedSameConn, CallTypes
  <2>3. kept
    BY <1>18 DEF AskedSameConn, world
  <2>4. CallInv(c)'
    BY <1>0, <2>2 DEF CallInv, Recs
  <2>5. RouteInv(c)'
    BY <1>0, <1>18, <2>0, <2>2, <2>3 DEF RouteInv, Recs
  <2>. QED
    BY <2>1, <2>4, <2>5
<1>19. CASE Park(c) /\ MayPark(c) /\ Cardinality(tokens) + 1 <= MaxTokens
  BY <1>0, <1>i, <1>19, IdleType DEF Park, CallTypes
<1>. QED
  BY <1>0, <1>1, <1>2, <1>4, <1>5, <1>6, <1>7, <1>8, <1>9, <1>10, <1>11, <1>12, <1>13, <1>14,
     <1>s, <1>15, <1>16, <1>17, <1>a, <1>18, <1>19, RoundKinds DEF Known

LEMMA WorldTypesRound ==
  ASSUME Known, NEW c \in Calls, Round(c)
  PROVE  WorldTypes' /\ WorldInv' /\ Forward
<1>1. resumed' \in [1..MaxTokens -> 0..2]
  <2>1. CASE Sends(c)
    BY <2>1 DEF Sends, Send, SendRetired, Resumes, Known, WorldTypes
  <2>2. CASE ~Sends(c)
    <3>1. resumed' = resumed
      BY <2>2 DEF Round, Start, StartPlain, Admit, Lease, Reserve, Consume, Resume, ResumeRefused,
           Reopen, Queue, Fetch, FetchFails, Check, Sends, SendRefused, Answered, Asks, Lost,
           AskedSignedIn, AskedSameRoute, AskedSameConn, Park
    <3>. QED
      BY <3>1 DEF Known, WorldTypes
  <2>. QED
    BY <2>1, <2>2
<1>2. UNCHANGED <<gen, cache, published, pass, life>>
  BY RoundFrame DEF Known
<1>3. CASE UNCHANGED <<up, conns>>
  BY <1>1, <1>2, <1>3 DEF Known, WorldTypes, WorldInv, Forward
<1>4. CASE up' = Connected /\ conns' = conns + 1 /\ conns < MaxConn
  <2>1. conns' \in 1..MaxConn /\ up' \in Conns /\ up'.gen = conns'
    BY <1>4, Bounds DEF Known, WorldTypes, Connected, Conns
  <2>. QED
    BY <1>1, <1>2, <1>4, <2>1 DEF Known, WorldTypes, WorldInv, Forward
<1>5. CASE up # None /\ up' = [up EXCEPT !.gen = conns] /\ conns' = conns
  <2>1. up' \in Conns /\ up'.gen = conns /\ up'.id = up.id /\ up.gen <= conns
    BY <1>5, Bounds DEF Known, WorldTypes, WorldInv, Conns
  <2>. QED
    BY <1>1, <1>2, <1>5, <2>1, Bounds DEF Known, WorldTypes, WorldInv, Forward
<1>. QED
  BY <1>3, <1>4, <1>5, RoundFrame DEF Known

\* A step leaves the other calls' records alone, and the world only moves on.
LEMMA OtherCall ==
  ASSUME Known, NEW c \in Calls, Round(c), NEW d \in Calls, d # c
  PROVE  CallInv(d)' /\ RouteInv(d)'
<1>1. call'[d] = call[d] /\ gen' = gen /\ cache' = cache
  BY RoundFrame DEF Known
<1>2. CallInv(d) /\ RouteInv(d) /\ call[d] \in Recs /\ gen \in Nat
  BY Bounds DEF Known, CallTypes, RegistryTypes
<1>3. CallInv(d)'
  BY <1>1, <1>2 DEF CallInv, At
<1>4. WorldTypes /\ WorldTypes' /\ Forward
  BY WorldTypesRound DEF Known
<1>5. RouteInv(d)'
  BY <1>1, <1>2, <1>4, RouteStays
<1>. QED
  BY <1>3, <1>5

\* The calls, when the world moves.
LEMMA CallsWorld ==
  ASSUME Known, World
  PROVE  /\ CallTypes' /\ WorldTypes' /\ WorldInv'
         /\ \A c \in Calls : CallInv(c)' /\ RouteInv(c)'
<1>. USE Bounds, NoneIsNothing
<1>0. CallTypes /\ WorldTypes /\ WorldInv /\ gen \in 0..MaxGen
  BY DEF Known, RegistryTypes
<1>1. call' = call /\ resumed' = resumed
  BY DEF World, Expire, PassReads, PassPublishes, Clear, ConnReplaced, SessionReplaced, SessionSeen, ConnCloses,
         ConnGone, RevokeClient, RevokeOwner
<1>2. CallTypes' /\ \A c \in Calls : CallInv(c)'
  BY <1>0, <1>1 DEF Known, CallTypes, CallInv, At
<1>3. /\ WorldTypes' /\ WorldInv' /\ Forward
      /\ (gen' = gen /\ cache' = cache) \/ gen' = gen + 1
  <2>1. CASE \E e \in entries : Expire(e)
    BY <1>0, <2>1 DEF Expire, world, WorldTypes, WorldInv, Forward
  <2>2. ASSUME NEW t \in Targets, PassReads(t) PROVE <1>3!:
    <3>1. pass' \in [target : Targets, upgen : 0..MaxConn]
      BY <1>0, <2>2 DEF PassReads, WorldTypes, Conns
    <3>. QED
      BY <1>0, <2>2, <3>1 DEF PassReads, WorldTypes, WorldInv, Forward
  <2>3. CASE PassPublishes
    <3>1. published' = pass /\ cache' = pass.target /\ pass' = None /\ pass # None
          /\ UNCHANGED <<up, conns, life, resumed>>
      BY <2>3 DEF PassPublishes
    <3>2. WorldTypes' /\ WorldInv' /\ Forward
      BY <1>0, <3>1 DEF WorldTypes, WorldInv, Forward
    <3>3. CASE published # pass
      BY <1>0, <2>3, <3>1, <3>2, <3>3 DEF PassPublishes, WorldTypes, Forward
    <3>4. CASE published = pass
      BY <1>0, <2>3, <3>1, <3>2, <3>4 DEF PassPublishes, WorldInv, WorldTypes, Forward
    <3>. QED
      BY <3>3, <3>4
  <2>4. CASE Clear
    BY <1>0, <2>4 DEF Clear, world, WorldTypes, WorldInv, Forward
  <2>5. CASE ConnReplaced
    <3>1. up' \in Conns /\ up'.gen = conns + 1 /\ conns + 1 \in 1..MaxConn
      BY <1>0, <2>5 DEF ConnReplaced, WorldTypes, Connected, Conns
    <3>. QED
      BY <1>0, <2>5, <3>1 DEF ConnReplaced, WorldTypes, WorldInv, Forward
  <2>6. CASE SessionReplaced
    BY <1>0, <2>6 DEF SessionReplaced, WorldTypes, WorldInv, Forward, Conns
  <2>s. CASE SessionSeen
    <3>1. up' \in Conns /\ up'.gen = conns /\ up'.id = up.id /\ up # None /\ up.gen <= conns
      BY <1>0, <2>s DEF SessionSeen, WorldTypes, WorldInv, Conns
    <3>. QED
      BY <1>0, <2>s, <3>1 DEF SessionSeen, WorldTypes, WorldInv, Forward
  <2>7. CASE ConnCloses
    <3>1. up' \in Conns /\ up'.gen = up.gen /\ up'.id = up.id /\ up # None
      BY <1>0, <2>7 DEF ConnCloses, WorldTypes, Conns
    <3>. QED
      BY <1>0, <2>7, <3>1 DEF ConnCloses, WorldTypes, WorldInv, Forward
  <2>8. CASE ConnGone
    BY <1>0, <2>8 DEF ConnGone, WorldTypes, WorldInv, Forward
  <2>9. CASE \E o \in Owners : RevokeClient(o) \/ RevokeOwner(o)
    BY <1>0, <2>9 DEF RevokeClient, RevokeOwner, WorldTypes, WorldInv, Forward
  <2>. QED
    BY <2>1, <2>2, <2>3, <2>4, <2>5, <2>6, <2>s, <2>7, <2>8, <2>9 DEF World
<1>4. ASSUME NEW c \in Calls PROVE RouteInv(c)'
  <2>1. CallInv(c) /\ RouteInv(c) /\ call[c] \in Recs /\ gen \in Nat /\ gen' \in Nat
    BY <1>0, <1>3 DEF Known, CallTypes
  <2>. QED
    BY <1>0, <1>1, <1>3, <2>1, RouteStays
<1>. QED
  BY <1>2, <1>3, <1>4

-----------------------------------------------------------------------------
(* Counting reservations. *)

LEMMA CountFacts ==
  ASSUME NEW S, IsFiniteSet(S), NEW o
  PROVE  /\ Count(S, o) \in Nat
         /\ \A T \in SUBSET S : /\ Count(T, o) \in Nat /\ Count(T, o) <= Count(S, o)
                                /\ Count(S \ T, o) = Count(S, o) - Count(T, o)
         /\ \A e \in S : Count(S \ {e}, o) = Count(S, o) - (IF e.owner = o THEN 1 ELSE 0)
         /\ \A e \in S : e.owner = o => Count(S, o) >= 1
         /\ \A e : e \notin S =>
               Count(S \cup {e}, o) = Count(S, o) + (IF e.owner = o THEN 1 ELSE 0)
<1>1. \A T : T \subseteq S => /\ IsFiniteSet(Theirs(T, o)) /\ Cardinality(Theirs(T, o)) \in Nat
                             /\ Theirs(T, o) \subseteq Theirs(S, o)
                             /\ Theirs(S \ T, o) = Theirs(S, o) \ Theirs(T, o)
  <2>1. \A T : T \subseteq S => Theirs(T, o) \in SUBSET S
    BY DEF Theirs
  <2>2. \A T : T \subseteq S => IsFiniteSet(Theirs(T, o)) /\ Cardinality(Theirs(T, o)) \in Nat
    BY <2>1, FS_Subset, FS_CardinalityType
  <2>. QED
    BY <2>2 DEF Theirs
<1>2. \A T : Count(T, o) = Cardinality(Theirs(T, o))
  BY DEF Count, Theirs
<1>3. Count(S, o) \in Nat
  BY <1>1, <1>2
<1>4. ASSUME NEW T \in SUBSET S
      PROVE  /\ Count(T, o) \in Nat /\ Count(T, o) <= Count(S, o)
             /\ Count(S \ T, o) = Count(S, o) - Count(T, o)
  <2>0. /\ IsFiniteSet(Theirs(S, o)) /\ Cardinality(Theirs(S, o)) \in Nat
        /\ Cardinality(Theirs(T, o)) \in Nat /\ Theirs(T, o) \in SUBSET Theirs(S, o)
        /\ Theirs(S \ T, o) = Theirs(S, o) \ Theirs(T, o)
    BY <1>1
  <2>1. Theirs(S, o) \cap Theirs(T, o) = Theirs(T, o)
    BY <2>0
  <2>2. Cardinality(Theirs(S, o) \ Theirs(T, o)) =
          Cardinality(Theirs(S, o)) - Cardinality(Theirs(S, o) \cap Theirs(T, o))
    BY <2>0, FS_Difference
  <2>3. Cardinality(Theirs(T, o)) <= Cardinality(Theirs(S, o))
    BY <2>0, FS_Subset
  <2>4. /\ Count(T, o) = Cardinality(Theirs(T, o)) /\ Count(S, o) = Cardinality(Theirs(S, o))
        /\ Count(S \ T, o) = Cardinality(Theirs(S \ T, o))
    BY <1>2
  <2>. QED
    BY <2>0, <2>1, <2>2, <2>3, <2>4
<1>5. ASSUME NEW e \in S
      PROVE  /\ Count(S \ {e}, o) = Count(S, o) - (IF e.owner = o THEN 1 ELSE 0)
             /\ e.owner = o => Count(S, o) >= 1
  <2>1. IsFiniteSet(Theirs(S, o)) /\ Cardinality(Theirs(S, o)) \in Nat
    BY <1>1
  <2>2. CASE e.owner = o
    <3>1. e \in Theirs(S, o) /\ Theirs(S \ {e}, o) = Theirs(S, o) \ {e}
      BY <2>2 DEF Theirs
    <3>2. Cardinality(Theirs(S, o) \ {e}) = Cardinality(Theirs(S, o)) - 1
      BY <2>1, <3>1, FS_RemoveElement
    <3>3. Cardinality(Theirs(S, o)) # 0
      BY <2>1, <3>1, FS_EmptySet
    <3>4. /\ Count(S, o) = Cardinality(Theirs(S, o))
          /\ Count(S \ {e}, o) = Cardinality(Theirs(S \ {e}, o))
      BY <1>2
    <3>. QED
      BY <2>1, <2>2, <3>1, <3>2, <3>3, <3>4
  <2>3. CASE e.owner # o
    <3>1. Theirs(S \ {e}, o) = Theirs(S, o)
      BY <2>3 DEF Theirs
    <3>. QED
      BY <1>2, <2>1, <2>3, <3>1
  <2>. QED
    BY <2>2, <2>3
<1>6. ASSUME NEW e, e \notin S
      PROVE  Count(S \cup {e}, o) = Count(S, o) + (IF e.owner = o THEN 1 ELSE 0)
  <2>1. IsFiniteSet(Theirs(S, o)) /\ Cardinality(Theirs(S, o)) \in Nat
    BY <1>1
  <2>2. CASE e.owner = o
    <3>1. e \notin Theirs(S, o) /\ Theirs(S \cup {e}, o) = Theirs(S, o) \cup {e}
      BY <1>6, <2>2 DEF Theirs
    <3>2. Cardinality(Theirs(S, o) \cup {e}) = Cardinality(Theirs(S, o)) + 1
      BY <2>1, <3>1, FS_AddElement
    <3>. QED
      BY <1>2, <2>2, <3>1, <3>2
  <2>3. CASE e.owner # o
    <3>1. Theirs(S \cup {e}, o) = Theirs(S, o)
      BY <2>3 DEF Theirs
    <3>. QED
      BY <1>2, <2>1, <2>3, <3>1
  <2>. QED
    BY <2>2, <2>3
<1>. QED
  BY <1>3, <1>4, <1>5, <1>6

\* Whether a call is counted among its owner's reservations, and its leases.
Holds(c, o) == IF call[c].owner = o /\ call[c].resv # None THEN 1 ELSE 0
Rents(c, o) ==
    IF call[c].owner = o /\ (call[c].pc = "leased" \/ call[c].resv # None) THEN 1 ELSE 0

LEMMA CallCounts ==
  ASSUME NEW o
  PROVE  /\ Cardinality(Held(o)) \in Nat /\ Cardinality(Leased(o)) \in Nat
         /\ Cardinality(Held(o)') \in Nat /\ Cardinality(Leased(o)') \in Nat
         /\ \A c \in Calls : Holds(c, o) \in {0, 1} /\ Holds(c, o) <= Cardinality(Held(o))
<1>1. /\ Held(o) \in SUBSET Calls /\ Leased(o) \in SUBSET Calls
      /\ Held(o)' \in SUBSET Calls /\ Leased(o)' \in SUBSET Calls
  BY DEF Held, Leased
<1>2. IsFiniteSet(Calls)
  BY ContinuationsAssumption
<1>3. /\ IsFiniteSet(Held(o)) /\ IsFiniteSet(Leased(o))
      /\ IsFiniteSet(Held(o)') /\ IsFiniteSet(Leased(o)')
  BY <1>1, <1>2, FS_Subset
<1>4. /\ Cardinality(Held(o)) \in Nat /\ Cardinality(Leased(o)) \in Nat
      /\ Cardinality(Held(o)') \in Nat /\ Cardinality(Leased(o)') \in Nat
  BY <1>3, FS_CardinalityType
<1>5. ASSUME NEW c \in Calls
      PROVE  Holds(c, o) \in {0, 1} /\ Holds(c, o) <= Cardinality(Held(o))
  <2>1. c \in Held(o) => Cardinality(Held(o)) # 0
    BY <1>3, FS_EmptySet
  <2>. QED
    BY <1>4, <2>1 DEF Holds, Held
<1>. QED
  BY <1>4, <1>5

\* What one call's step does to the numbers of its owner's reservations and leases.
LEMMA CallCountChange ==
  ASSUME NEW c \in Calls, \A d \in Calls \ {c} : call'[d] = call[d], NEW o
  PROVE  /\ Cardinality(Held(o)') = Cardinality(Held(o)) - Holds(c, o) + Holds(c, o)'
         /\ Cardinality(Leased(o)') = Cardinality(Leased(o)) - Rents(c, o) + Rents(c, o)'
<1>. DEFINE H == Held(o) \ {c}
            L == Leased(o) \ {c}
<1>0. IsFiniteSet(Held(o)) /\ IsFiniteSet(Leased(o))
  <2>1. Held(o) \in SUBSET Calls /\ Leased(o) \in SUBSET Calls
    BY DEF Held, Leased
  <2>. QED
    BY <2>1, ContinuationsAssumption, FS_Subset
<1>1. /\ IsFiniteSet(H) /\ Cardinality(H) = Cardinality(Held(o)) - Holds(c, o)
      /\ IsFiniteSet(L) /\ Cardinality(L) = Cardinality(Leased(o)) - Rents(c, o)
  <2>1. (c \in Held(o) <=> Holds(c, o) = 1) /\ (c \in Leased(o) <=> Rents(c, o) = 1)
    BY DEF Held, Leased, Holds, Rents, At
  <2>2. Holds(c, o) \in {0, 1} /\ Rents(c, o) \in {0, 1}
    BY DEF Holds, Rents
  <2>3. Cardinality(Held(o)) \in Nat /\ Cardinality(Leased(o)) \in Nat
    BY CallCounts
  <2>4. /\ IsFiniteSet(H)
        /\ Cardinality(H) = IF c \in Held(o) THEN Cardinality(Held(o)) - 1 ELSE Cardinality(Held(o))
    BY <1>0, FS_RemoveElement
  <2>5. /\ IsFiniteSet(L)
        /\ Cardinality(L) = IF c \in Leased(o) THEN Cardinality(Leased(o)) - 1
                            ELSE Cardinality(Leased(o))
    BY <1>0, FS_RemoveElement
  <2>. QED
    BY <2>1, <2>2, <2>3, <2>4, <2>5
<1>2. /\ Held(o)' = IF Holds(c, o)' = 1 THEN H \cup {c} ELSE H
      /\ Leased(o)' = IF Rents(c, o)' = 1 THEN L \cup {c} ELSE L
  BY DEF Held, Leased, Holds, Rents, At
<1>3. /\ Cardinality(H \cup {c}) = Cardinality(H) + 1
      /\ Cardinality(L \cup {c}) = Cardinality(L) + 1
  <2>1. c \notin H /\ c \notin L
    OBVIOUS
  <2>. QED
    BY <1>1, <2>1, FS_AddElement
<1>4. Holds(c, o)' \in {0, 1} /\ Rents(c, o)' \in {0, 1}
  BY DEF Holds, Rents
<1>5. Cardinality(H) \in Nat /\ Cardinality(L) \in Nat
  BY <1>1, FS_CardinalityType
<1>6. Cardinality(Held(o)') = Cardinality(H) + Holds(c, o)'
  BY <1>2, <1>3, <1>4, <1>5
<1>7. Cardinality(Leased(o)') = Cardinality(L) + Rents(c, o)'
  BY <1>2, <1>3, <1>4, <1>5
<1>. QED
  BY <1>1, <1>6, <1>7

\* Drop for the reservations of the entries S.
LEMMA ReleasedEffect ==
  ASSUME RegistryTypes, NEW S, NEW o \in Owners, owners' = Released(S),
         Count(S, o) \in Nat, Count(S, o) <= Reservations(o)
  PROVE  /\ owners'[o] \in OwnerStates \cup {None}
         /\ Reservations(o)' = Reservations(o) - Count(S, o)
         /\ owners'[o] # None =>
               owners[o] # None /\ owners'[o].generation = owners[o].generation
<1>1. owners'[o] = IF owners[o] = None \/ owners[o].reservations = Count(S, o) THEN None
                   ELSE [owners[o] EXCEPT !.reservations = @ - Count(S, o)]
  BY DEF Released
<1>2. CASE owners[o] = None
  BY <1>1, <1>2 DEF Reservations
<1>3. CASE owners[o] # None /\ owners[o].reservations = Count(S, o)
  BY <1>1, <1>3 DEF Reservations
<1>4. CASE owners[o] # None /\ owners[o].reservations # Count(S, o)
  <2>1. owners[o] \in OwnerStates
    BY <1>4 DEF RegistryTypes
  <2>2. owners[o].reservations - Count(S, o) \in Nat \ {0}
    BY <1>4, <2>1 DEF Reservations, OwnerStates
  <2>3. owners'[o] = [owners[o] EXCEPT !.reservations = @ - Count(S, o)]
    BY <1>1, <1>4
  <2>4. /\ owners'[o] \in OwnerStates
        /\ owners'[o].generation = owners[o].generation
        /\ owners'[o].reservations = owners[o].reservations - Count(S, o)
    BY <2>1, <2>2, <2>3 DEF OwnerStates
  <2>. QED
    BY <1>4, <2>4, NoneIsNothing DEF Reservations
<1>. QED
  BY <1>2, <1>3, <1>4

-----------------------------------------------------------------------------
(* The ledger. *)

\* What the ledger's invariant says of one owner after a step, and that a step never
\* turns the generation of an owner in the ledger back.
OwnerAfter(o) ==
    /\ owners'[o] \in OwnerStates \cup {None}
    /\ Reservations(o)' = Count(entries', o) + Cardinality(Held(o)')
    /\ Count(entries', o) + Cardinality(Leased(o)') <= Quota
    /\ owners[o] # None /\ owners'[o] # None => owners'[o].generation >= owners[o].generation

\* The same before it, with the numbers' types.
LEMMA OwnerBefore ==
  ASSUME RegistryTypes, LedgerInv, QuotaInv, NEW o \in Owners
  PROVE  /\ owners[o] \in OwnerStates \cup {None}
         /\ Reservations(o) = Count(entries, o) + Cardinality(Held(o))
         /\ Count(entries, o) + Cardinality(Leased(o)) <= Quota
         /\ Count(entries, o) \in Nat /\ Cardinality(Held(o)) \in Nat
         /\ Cardinality(Leased(o)) \in Nat /\ Reservations(o) \in Nat /\ Quota \in Nat
         /\ owners[o] # None => owners[o].generation \in Nat
<1>1. Leases(entries, o) = Count(entries, o) + Cardinality(Leased(o))
  BY DEF Leases, Leased
<1>2. Count(entries, o) \in Nat
  BY CountFacts DEF LedgerInv
<1>3. /\ owners[o] \in OwnerStates \cup {None}
      /\ Reservations(o) \in Nat
      /\ owners[o] # None => owners[o].generation \in Nat
  BY DEF RegistryTypes, Reservations, OwnerStates
<1>. QED
  BY <1>1, <1>2, <1>3, CallCounts, Bounds DEF LedgerInv, QuotaInv

LEMMA LedgerRound ==
  ASSUME Inv, NEW c \in Calls, Round(c), NEW o \in Owners
  PROVE  IsFiniteSet(entries') /\ OwnerAfter(o)
<1>. USE NoneIsNothing
<1>0. /\ CallTypes /\ RegistryTypes /\ WorldTypes /\ LedgerInv /\ QuotaInv /\ NonceInv
      /\ CallInv(c) /\ call[c] \in Recs /\ IsFiniteSet(entries)
      /\ \A e \in entries : EntryInv(e)
  BY DEF Inv, CallTypes, LedgerInv
<1>b. /\ owners[o] \in OwnerStates \cup {None}
      /\ Reservations(o) = Count(entries, o) + Cardinality(Held(o))
      /\ Count(entries, o) + Cardinality(Leased(o)) <= Quota
      /\ Count(entries, o) \in Nat /\ Cardinality(Held(o)) \in Nat
      /\ Cardinality(Leased(o)) \in Nat /\ Reservations(o) \in Nat /\ Quota \in Nat
      /\ owners[o] # None => owners[o].generation \in Nat
  BY <1>0, OwnerBefore
<1>c. /\ Cardinality(Held(o)') = Cardinality(Held(o)) - Holds(c, o) + Holds(c, o)'
      /\ Cardinality(Leased(o)') = Cardinality(Leased(o)) - Rents(c, o) + Rents(c, o)'
      /\ Holds(c, o) <= Cardinality(Held(o))
      /\ Holds(c, o) \in {0, 1} /\ Holds(c, o)' \in {0, 1}
      /\ Rents(c, o) \in {0, 1} /\ Rents(c, o)' \in {0, 1}
  <2>1. \A d \in Calls \ {c} : call'[d] = call[d]
    BY <1>0, RoundFrame
  <2>2. /\ Cardinality(Held(o)') = Cardinality(Held(o)) - Holds(c, o) + Holds(c, o)'
        /\ Cardinality(Leased(o)') = Cardinality(Leased(o)) - Rents(c, o) + Rents(c, o)'
    BY <2>1, CallCountChange
  <2>3. Holds(c, o) <= Cardinality(Held(o))
    BY CallCounts
  <2>. QED
    BY <2>2, <2>3 DEF Holds, Rents
<1>i. call'[c] = Idle => Holds(c, o)' = 0 /\ Rents(c, o)' = 0
  BY DEF Holds, Rents, Idle
<1>k. ASSUME UNCHANGED <<entries, owners>>, Holds(c, o)' = Holds(c, o), Rents(c, o)' = Rents(c, o)
      PROVE  IsFiniteSet(entries') /\ OwnerAfter(o)
  <2>1. /\ Cardinality(Held(o)') = Cardinality(Held(o))
        /\ Cardinality(Leased(o)') = Cardinality(Leased(o))
    BY <1>b, <1>c, <1>k
  <2>2. Reservations(o)' = Reservations(o)
    BY <1>k DEF Reservations
  <2>. QED
    BY <1>0, <1>b, <1>k, <2>1, <2>2 DEF OwnerAfter
<1>1. ASSUME NEW p \in Owners, NEW t \in 0..MaxTokens, Start(c, p, t) \/ StartPlain(c, p)
      PROVE  IsFiniteSet(entries') /\ OwnerAfter(o)
  <2>1. UNCHANGED <<entries, owners>> /\ call[c] = Idle
    BY <1>0, <1>1 DEF Start, StartPlain, CallInv, At
  <2>2. call'[c].resv = None /\ call'[c].pc # "leased"
    BY <1>0, <1>1 DEF Start, StartPlain, CallTypes, Idle
  <2>3. /\ Holds(c, o)' = 0 /\ Holds(c, o) = 0
        /\ Rents(c, o)' = 0 /\ Rents(c, o) = 0
    BY <2>1, <2>2 DEF Holds, Rents, Idle
  <2>. QED
    BY <1>k, <2>1, <2>3
<1>2. ASSUME UNCHANGED <<entries, owners>>, call'[c].owner = call[c].owner,
             call'[c].resv = call[c].resv, call[c].pc # "leased", call'[c].pc # "leased"
      PROVE  IsFiniteSet(entries') /\ OwnerAfter(o)
  BY <1>2, <1>k DEF Holds, Rents
<1>3. ASSUME NEW from, NEW to, Steps(c, from, to), from # "leased", to # "leased"
      PROVE  IsFiniteSet(entries') /\ OwnerAfter(o)
  <2>1. /\ UNCHANGED <<entries, owners>> /\ call'[c].owner = call[c].owner
        /\ call'[c].resv = call[c].resv /\ call[c].pc = from /\ call'[c].pc = to
    BY <1>0, <1>3 DEF Steps, Go, At, CallTypes, Recs
  <2>. QED
    BY <1>2, <1>3, <2>1
<1>4. CASE Resume(c) \/ Reopen(c) \/ Queue(c) \/ Fetch(c) \/ Check(c) \/ Sends(c) \/ Repeats(c)
           \/ (AskedSameConn(c) /\ up # None /\ up.gen = call[c].route.upgen)
  <2>1. UNCHANGED <<entries, owners>> /\ call[c].pc # "leased"
    BY <1>0, <1>4, SendRecord DEF Resume, Reopen, Queue, Fetch, Repeats, AskedSameConn, At
  <2>2. call'[c].owner = call[c].owner /\ call'[c].resv = call[c].resv /\ call'[c].pc # "leased"
    <3>1. CASE Resume(c) \/ Queue(c)
      BY <1>0, <3>1 DEF Resume, Queue, Go, CallTypes, Recs
    <3>2. CASE Reopen(c) \/ Fetch(c)
      <4>1. \/ call'[c] = [call[c] EXCEPT !.pc = "queued", !.made = conns + 1]
            \/ call'[c] = [call[c] EXCEPT !.pc = "fetched", !.conn = Handle]
        BY <1>0, <3>2 DEF Reopen, Fetch, CallTypes
      <4>. QED
        BY <1>0, <4>1 DEF Recs
    <3>3. CASE Check(c) \/ Sends(c)
      <4>1. \E n : \/ call'[c] = [call[c] EXCEPT !.pc = "handed", !.seen = n]
                   \/ call'[c] = [call[c] EXCEPT !.pc = "sent", !.sentOn = n]
        BY <1>0, <3>3, SendRecord
      <4>. QED
        BY <1>0, <4>1 DEF Recs
    <3>4. CASE Repeats(c)
      BY <1>0, <3>4 DEF Repeats, CallTypes, Recs
    <3>5. CASE AskedSameConn(c) /\ up # None /\ up.gen = call[c].route.upgen
      <4>1. call'[c] = [call[c] EXCEPT !.pc = "park", !.conn = Handle]
        BY <1>0, <3>5 DEF AskedSameConn, CallTypes
      <4>. QED
        BY <1>0, <4>1 DEF Recs
    <3>. QED
      BY <1>4, <3>1, <3>2, <3>3, <3>4, <3>5
  <2>. QED
    BY <1>2, <2>1, <2>2
<1>r. ASSUME NEW S \in SUBSET entries, entries' = entries \ S, owners' = Released(S),
             Holds(c, o)' = Holds(c, o)
      PROVE  /\ IsFiniteSet(entries') /\ Count(entries', o) = Count(entries, o) - Count(S, o)
             /\ Count(S, o) \in Nat /\ Count(S, o) <= Count(entries, o)
             /\ (Count(entries', o) + Cardinality(Leased(o)') <= Quota => OwnerAfter(o))
  <2>1. /\ Count(entries', o) = Count(entries, o) - Count(S, o)
        /\ Count(S, o) \in Nat /\ Count(S, o) <= Count(entries, o)
    BY <1>0, <1>r, CountFacts
  <2>2. IsFiniteSet(entries')
    BY <1>0, <1>r, FS_Difference
  <2>3. Cardinality(Held(o)') = Cardinality(Held(o))
    BY <1>b, <1>c, <1>r
  <2>4. Count(S, o) <= Reservations(o)
    BY <1>b, <2>1
  <2>5. /\ owners'[o] \in OwnerStates \cup {None}
        /\ Reservations(o)' = Reservations(o) - Count(S, o)
        /\ owners'[o] # None =>
              owners[o] # None /\ owners'[o].generation = owners[o].generation
    BY <1>0, <1>r, <2>1, <2>4, ReleasedEffect
  <2>. QED
    BY <1>b, <2>1, <2>2, <2>3, <2>5 DEF OwnerAfter
<1>5. CASE Lease(c)
  <2>1. /\ entries \ Live \in SUBSET entries /\ entries' = entries \ (entries \ Live)
        /\ owners' = Released(entries \ Live) /\ entries' = Live
    BY <1>5 DEF Lease, Live
  <2>2. call[c].resv = None /\ call[c].pc = "reserve"
    BY <1>0, <1>5 DEF Lease, CallInv, At, Early
  <2>3. Holds(c, o) = 0 /\ Rents(c, o) = 0
    BY <2>2 DEF Holds, Rents
  <2>4. Leases(Live, o) = Count(Live, o) + Cardinality(Leased(o))
    BY DEF Leases, Leased
  <2>5. CASE HasRoom(Live, call[c].owner)
    <3>1. /\ call'[c].resv = None /\ call'[c].pc = "leased"
          /\ call'[c].owner = call[c].owner
      BY <1>0, <1>5, <2>2, <2>5 DEF Lease, Go, CallTypes, Recs
    <3>2. Holds(c, o)' = 0 /\ Rents(c, o)' = IF call[c].owner = o THEN 1 ELSE 0
      BY <3>1 DEF Holds, Rents
    <3>3. /\ IsFiniteSet(entries') /\ Count(entries', o) = Count(entries, o) - Count(entries \ Live, o)
          /\ Count(entries \ Live, o) \in Nat /\ Count(entries \ Live, o) <= Count(entries, o)
          /\ (Count(entries', o) + Cardinality(Leased(o)') <= Quota => OwnerAfter(o))
      BY <1>r, <2>1, <2>3, <3>2
    <3>4. CASE call[c].owner = o
      <4>1. Count(entries', o) + Cardinality(Leased(o)) < Quota
        BY <2>1, <2>4, <2>5, <3>4 DEF HasRoom
      <4>. QED
        BY <1>b, <1>c, <2>3, <3>2, <3>3, <3>4, <4>1
    <3>5. CASE call[c].owner # o
      BY <1>b, <1>c, <2>3, <3>2, <3>3, <3>5
    <3>. QED
      BY <3>4, <3>5
  <2>6. CASE ~HasRoom(Live, call[c].owner)
    <3>1. call'[c] = Idle
      BY <1>0, <1>5, <2>6 DEF Lease, CallTypes
    <3>2. /\ IsFiniteSet(entries') /\ Count(entries', o) = Count(entries, o) - Count(entries \ Live, o)
          /\ Count(entries \ Live, o) \in Nat /\ Count(entries \ Live, o) <= Count(entries, o)
          /\ (Count(entries', o) + Cardinality(Leased(o)') <= Quota => OwnerAfter(o))
      BY <1>i, <1>r, <2>1, <2>3, <3>1
    <3>. QED
      BY <1>b, <1>c, <1>i, <2>3, <3>1, <3>2
  <2>. QED
    BY <2>5, <2>6
<1>6. ASSUME NEW S \in SUBSET entries, TakesNothing(c, S)
      PROVE  IsFiniteSet(entries') /\ OwnerAfter(o)
  <2>1. entries' = entries \ S /\ owners' = Released(S) /\ call'[c] = Idle
    BY <1>0, <1>6 DEF TakesNothing, CallTypes
  <2>2. Holds(c, o) = 0 /\ Rents(c, o) = 0
    BY <1>0, <1>6 DEF TakesNothing, CallInv, Holds, Rents, At, Early
  <2>3. /\ IsFiniteSet(entries') /\ Count(entries', o) = Count(entries, o) - Count(S, o)
        /\ Count(S, o) \in Nat /\ Count(S, o) <= Count(entries, o)
        /\ (Count(entries', o) + Cardinality(Leased(o)') <= Quota => OwnerAfter(o))
    BY <1>i, <1>r, <2>1, <2>2
  <2>. QED
    BY <1>b, <1>c, <1>i, <2>1, <2>2, <2>3
<1>7. CASE Reserve(c) /\ gen = call[c].route.gen
  <2>. DEFINE p == call[c].owner
              state == IF owners[p] = None THEN [generation |-> 0, reservations |-> 0]
                       ELSE owners[p]
  <2>1. /\ p \in Owners /\ call[c].resv = None /\ call[c].pc = "leased"
    BY <1>0, <1>7 DEF Reserve, CallInv, At, Early
  <2>2. /\ owners' = [owners EXCEPT ![p] = [state EXCEPT !.reservations = @ + 1]]
        /\ call' = [call EXCEPT ![c] = [@ EXCEPT
               !.pc = "closed?", !.resv = [gen |-> gen, owner |-> state.generation]]]
        /\ entries' = entries
    BY <1>7, Zenon DEF Reserve
  <2>3. state \in [generation : Nat, reservations : Nat]
    BY <1>0, <2>1 DEF RegistryTypes, OwnerStates
  <2>4. /\ call'[c].owner = p
        /\ call'[c].resv = [gen |-> gen, owner |-> state.generation]
    BY <1>0, <2>2 DEF CallTypes, Recs
  <2>5. [gen |-> gen, owner |-> state.generation] \in Resvs
    BY <1>0, <2>3 DEF RegistryTypes, Resvs
  <2>6. /\ Holds(c, o) = 0 /\ Holds(c, o)' = (IF p = o THEN 1 ELSE 0)
        /\ Rents(c, o)' = Rents(c, o)
    BY <2>1, <2>4, <2>5 DEF Holds, Rents
  <2>7. Count(entries', o) + Cardinality(Leased(o)') <= Quota
    BY <1>b, <1>c, <2>2, <2>6
  <2>8. CASE p = o
    <3>1. owners'[o] = [state EXCEPT !.reservations = @ + 1]
      BY <1>0, <2>1, <2>2, <2>8 DEF RegistryTypes
    <3>2. /\ owners'[o] \in OwnerStates
          /\ owners'[o].reservations = state.reservations + 1
          /\ owners'[o].generation = state.generation
      BY <2>3, <3>1 DEF OwnerStates
    <3>3. Reservations(o)' = state.reservations + 1 /\ state.reservations = Reservations(o)
      BY <2>8, <3>2 DEF Reservations
    <3>4. owners[o] # None => state.generation = owners[o].generation
      BY <2>8
    <3>5. Cardinality(Held(o)') = Cardinality(Held(o)) + 1
      BY <1>b, <1>c, <2>6, <2>8
    <3>6. /\ Reservations(o)' = Count(entries', o) + Cardinality(Held(o)')
      BY <1>b, <2>2, <3>3, <3>5
    <3>. QED
      BY <1>0, <1>b, <2>2, <2>3, <2>7, <3>2, <3>4, <3>6 DEF OwnerAfter
  <2>9. CASE p # o
    <3>1. owners'[o] = owners[o]
      BY <1>0, <2>1, <2>2, <2>9 DEF RegistryTypes
    <3>2. Reservations(o)' = Reservations(o) /\ Cardinality(Held(o)') = Cardinality(Held(o))
      BY <1>b, <1>c, <2>6, <2>9, <3>1 DEF Reservations
    <3>. QED
      BY <1>0, <1>b, <2>2, <2>7, <3>1, <3>2 DEF OwnerAfter
  <2>. QED
    BY <2>8, <2>9
<1>8. ASSUME NEW e \in entries, Takes(c, e) PROVE IsFiniteSet(entries') /\ OwnerAfter(o)
  <2>1. e \in Entries /\ EntryInv(e)
    BY <1>0 DEF RegistryTypes
  <2>2. call[c].owner = e.owner
    BY <1>8, <2>1 DEF Takes, Binding, EntryInv
  <2>3. call[c].resv = None /\ call[c].pc = "consume"
    BY <1>0, <1>8 DEF Takes, CallInv, At, Early
  <2>4. call'[c].resv = e.resv /\ call'[c].owner = call[c].owner /\ call'[c].pc = "resume"
    BY <1>0, <1>8 DEF Takes, CallTypes, Recs
  <2>5. e.resv # None
    BY <2>1 DEF Entries
  <2>6. /\ Holds(c, o) = 0 /\ Holds(c, o)' = (IF e.owner = o THEN 1 ELSE 0)
        /\ Rents(c, o) = 0 /\ Rents(c, o)' = (IF e.owner = o THEN 1 ELSE 0)
    BY <2>2, <2>3, <2>4, <2>5 DEF Holds, Rents
  <2>7. entries' = entries \ {e} /\ owners' = owners
    BY <1>8 DEF Takes
  <2>8. /\ IsFiniteSet(entries')
        /\ Count(entries', o) = Count(entries, o) - (IF e.owner = o THEN 1 ELSE 0)
    <3>1. IsFiniteSet(entries \ {e})
      BY <1>0, FS_RemoveElement
    <3>2. \A x \in entries :
             Count(entries \ {x}, o) = Count(entries, o) - (IF x.owner = o THEN 1 ELSE 0)
      BY <1>0, CountFacts
    <3>. QED
      BY <2>7, <3>1, <3>2
  <2>9. Reservations(o)' = Reservations(o)
    BY <2>7 DEF Reservations
  <2>10. /\ Cardinality(Held(o)') = Cardinality(Held(o)) + (IF e.owner = o THEN 1 ELSE 0)
         /\ Cardinality(Leased(o)') = Cardinality(Leased(o)) + (IF e.owner = o THEN 1 ELSE 0)
    BY <1>b, <1>c, <2>6
  <2>. QED
    BY <1>b, <2>7, <2>8, <2>9, <2>10 DEF OwnerAfter
<1>9. CASE Park(c) /\ MayPark(c) /\ Cardinality(tokens) + 1 <= MaxTokens
  <2>. DEFINE n == Cardinality(tokens) + 1
              e == [nonce |-> n, owner |-> call[c].owner, binding |-> Binding(c),
                    resv |-> call[c].resv, round |-> call[c].round, conn |-> call[c].conn,
                    past |-> FALSE, askedOn |-> call[c].sentOn]
  <2>1. entries' = entries \cup {e} /\ owners' = owners /\ call'[c] = Idle
    BY <1>0, <1>9 DEF Park, CallTypes
  <2>2. e \notin entries
    <3>1. Cardinality(tokens) \in Nat
      BY <1>0, FS_CardinalityType DEF NonceInv
    <3>2. e.nonce = Cardinality(tokens) + 1
      OBVIOUS
    <3>. QED
      BY <1>0, <3>1, <3>2 DEF NonceInv
  <2>3. call[c].resv # None
    BY <1>0, <1>9 DEF Park, CallInv, At, Asking
  <2>4. /\ Holds(c, o) = (IF e.owner = o THEN 1 ELSE 0) /\ Holds(c, o)' = 0
        /\ Rents(c, o) = (IF e.owner = o THEN 1 ELSE 0) /\ Rents(c, o)' = 0
    BY <1>i, <2>1, <2>3 DEF Holds, Rents
  <2>. HIDE DEF e
  <2>5. /\ IsFiniteSet(entries')
        /\ Count(entries', o) = Count(entries, o) + (IF e.owner = o THEN 1 ELSE 0)
    <3>1. IsFiniteSet(entries \cup {e})
      BY <1>0, FS_AddElement
    <3>2. \A x : x \notin entries =>
             Count(entries \cup {x}, o) = Count(entries, o) + (IF x.owner = o THEN 1 ELSE 0)
      BY <1>0, CountFacts
    <3>. QED
      BY <2>1, <2>2, <3>1, <3>2
  <2>6. Reservations(o)' = Reservations(o)
    BY <2>1 DEF Reservations
  <2>7. /\ Cardinality(Held(o)') = Cardinality(Held(o)) - (IF e.owner = o THEN 1 ELSE 0)
        /\ Cardinality(Leased(o)') = Cardinality(Leased(o)) - (IF e.owner = o THEN 1 ELSE 0)
    BY <1>b, <1>c, <2>4
  <2>. QED
    BY <1>b, <2>1, <2>5, <2>6, <2>7 DEF OwnerAfter
<1>10. CASE Over(c)
  <2>1. entries' = entries /\ owners' = Released(Own(c)) /\ call'[c] = Idle
    BY <1>0, <1>10 DEF Over, Ends, CallTypes
  <2>2. Count(Own(c), o) = Holds(c, o)
    <3>1. CASE call[c].resv = None
      <4>1. {e \in Own(c) : e.owner = o} = {}
        BY <3>1 DEF Own
      <4>. QED
        BY <3>1, <4>1, FS_EmptySet DEF Count, Holds
    <3>2. CASE call[c].resv # None /\ call[c].owner = o
      <4>1. {e \in Own(c) : e.owner = o} = {[owner |-> call[c].owner]}
        BY <3>2 DEF Own
      <4>. QED
        BY <3>2, <4>1, FS_Singleton DEF Count, Holds
    <3>3. CASE call[c].resv # None /\ call[c].owner # o
      <4>1. {e \in Own(c) : e.owner = o} = {}
        BY <3>3 DEF Own
      <4>. QED
        BY <3>3, <4>1, FS_EmptySet DEF Count, Holds
    <3>. QED
      BY <3>1, <3>2, <3>3
  <2>3. /\ owners'[o] \in OwnerStates \cup {None}
        /\ Reservations(o)' = Reservations(o) - Count(Own(c), o)
        /\ owners'[o] # None =>
              owners[o] # None /\ owners'[o].generation = owners[o].generation
    <3>1. Count(Own(c), o) \in Nat /\ Count(Own(c), o) <= Reservations(o)
      BY <1>b, <1>c, <2>2
    <3>. QED
      BY <1>0, <2>1, <3>1, ReleasedEffect
  <2>4. /\ Cardinality(Held(o)') = Cardinality(Held(o)) - Holds(c, o)
        /\ Cardinality(Leased(o)') <= Cardinality(Leased(o))
        /\ Cardinality(Leased(o)') \in Int
    BY <1>b, <1>c, <1>i, <2>1
  <2>. QED
    BY <1>0, <1>b, <1>c, <2>1, <2>2, <2>3, <2>4 DEF OwnerAfter
<1>. QED
  <2>1. \A from, to \in {"captured", "reserve", "consume", "sent", "asked", "active", "same"} :
           Steps(c, from, to) => IsFiniteSet(entries') /\ OwnerAfter(o)
    BY <1>3
  <2>2. 0 \in 0..MaxTokens
    BY Bounds
  <2>. QED
    BY <1>0, <1>1, <1>4, <1>5, <1>6, <1>7, <1>8, <1>9, <1>10, <2>1, <2>2, RoundKinds

LEMMA LedgerWorld ==
  ASSUME Inv, World, NEW o \in Owners
  PROVE  IsFiniteSet(entries') /\ OwnerAfter(o)
<1>. USE NoneIsNothing
<1>0. /\ RegistryTypes /\ LedgerInv /\ QuotaInv /\ NonceInv /\ IsFiniteSet(entries)
  BY DEF Inv, LedgerInv
<1>b. /\ owners[o] \in OwnerStates \cup {None}
      /\ Reservations(o) = Count(entries, o) + Cardinality(Held(o))
      /\ Count(entries, o) + Cardinality(Leased(o)) <= Quota
      /\ Count(entries, o) \in Nat /\ Cardinality(Held(o)) \in Nat
      /\ Cardinality(Leased(o)) \in Nat /\ Reservations(o) \in Nat /\ Quota \in Nat
      /\ owners[o] # None => owners[o].generation \in Nat
  BY <1>0, OwnerBefore
<1>c. call' = call
  BY DEF World, Expire, PassReads, PassPublishes, Clear, ConnReplaced, SessionReplaced, SessionSeen, ConnCloses,
         ConnGone, RevokeClient, RevokeOwner
<1>h. Held(o)' = Held(o) /\ Leased(o)' = Leased(o)
  BY <1>c DEF Held, Leased, At
<1>k. CASE UNCHANGED <<entries, owners>>
  <2>1. Reservations(o)' = Reservations(o)
    BY <1>k DEF Reservations
  <2>. QED
    BY <1>0, <1>b, <1>h, <1>k, <2>1 DEF OwnerAfter
<1>1. ASSUME NEW e \in entries, Expire(e) PROVE IsFiniteSet(entries') /\ OwnerAfter(o)
  <2>. DEFINE f == [e EXCEPT !.past = TRUE]
  <2>1. e \in Entries /\ e.past # TRUE
    BY <1>0, <1>1 DEF RegistryTypes, Expire
  <2>2. f.nonce = e.nonce /\ f.owner = e.owner /\ f.past = TRUE
    BY <2>1 DEF Entries
  <2>3. f \notin entries \ {e}
    BY <1>0, <2>1, <2>2 DEF NonceInv
  <2>4. entries' = (entries \ {e}) \cup {f} /\ owners' = owners
    BY <1>1 DEF Expire
  <2>. HIDE DEF f
  <2>5. IsFiniteSet(entries \ {e}) /\ IsFiniteSet((entries \ {e}) \cup {f})
    BY <1>0, FS_RemoveElement, FS_AddElement
  <2>6. \A x \in entries :
           Count(entries \ {x}, o) = Count(entries, o) - (IF x.owner = o THEN 1 ELSE 0)
    BY <1>0, CountFacts
  <2>7. \A x : x \notin entries \ {e} =>
           Count((entries \ {e}) \cup {x}, o) =
             Count(entries \ {e}, o) + (IF x.owner = o THEN 1 ELSE 0)
    BY <2>5, CountFacts
  <2>8. Count(entries', o) = Count(entries, o)
    BY <1>b, <2>2, <2>3, <2>4, <2>6, <2>7
  <2>9. Reservations(o)' = Reservations(o)
    BY <2>4 DEF Reservations
  <2>. QED
    BY <1>b, <1>h, <2>4, <2>5, <2>8, <2>9 DEF OwnerAfter
<1>2. ASSUME entries' = {}, owners' = Released(entries)
      PROVE  IsFiniteSet(entries') /\ OwnerAfter(o)
  <2>1. Count(entries', o) = 0 /\ IsFiniteSet(entries')
    <3>1. {e \in {} : e.owner = o} = {}
      OBVIOUS
    <3>. QED
      BY <1>2, <3>1, FS_EmptySet DEF Count
  <2>2. Count(entries, o) <= Reservations(o)
    BY <1>b
  <2>3. /\ owners'[o] \in OwnerStates \cup {None}
        /\ Reservations(o)' = Reservations(o) - Count(entries, o)
        /\ owners'[o] # None =>
              owners[o] # None /\ owners'[o].generation = owners[o].generation
    BY <1>0, <1>2, <1>b, <2>2, ReleasedEffect
  <2>. QED
    BY <1>b, <1>h, <2>1, <2>3 DEF OwnerAfter
<1>3. ASSUME NEW p \in Owners, RevokeOwner(p) PROVE IsFiniteSet(entries') /\ OwnerAfter(o)
  <2>. DEFINE theirs == {e \in entries : e.owner = p /\ owners[p] # None}
              n == Cardinality(theirs)
  <2>1. /\ entries' = entries \ theirs
        /\ owners' = [owners EXCEPT ![p] =
               IF Revoked(p) = None \/ Revoked(p).reservations = n THEN None
               ELSE [Revoked(p) EXCEPT !.reservations = @ - n]]
    BY <1>3 DEF RevokeOwner
  <2>2. theirs \in SUBSET entries
    OBVIOUS
  <2>3. /\ IsFiniteSet(entries') /\ Count(theirs, o) \in Nat /\ Count(theirs, o) <= Count(entries, o)
        /\ Count(entries', o) = Count(entries, o) - Count(theirs, o)
    <3>. HIDE DEF theirs, n
    <3>1. IsFiniteSet(entries)
      BY <1>0
    <3>2. \A T \in SUBSET entries : /\ Count(T, o) \in Nat /\ Count(T, o) <= Count(entries, o)
                                    /\ Count(entries \ T, o) = Count(entries, o) - Count(T, o)
      BY <3>1, CountFacts
    <3>3. IsFiniteSet(entries \ theirs)
      BY <3>1, FS_Difference
    <3>. QED
      BY <2>1, <2>2, <3>2, <3>3
  <2>4. Count(theirs, o) = IF o = p THEN n ELSE 0
    <3>1. CASE o = p
      <4>1. {e \in theirs : e.owner = o} = theirs
        BY <3>1
      <4>. QED
        BY <3>1, <4>1 DEF Count
    <3>2. CASE o # p
      <4>1. {e \in theirs : e.owner = o} = {}
        BY <3>2
      <4>. QED
        BY <3>2, <4>1, FS_EmptySet DEF Count
    <3>. QED
      BY <3>1, <3>2
  <2>. HIDE DEF theirs
  <2>5. CASE o # p
    <3>1. owners'[o] = owners[o]
      BY <1>0, <2>1, <2>5 DEF RegistryTypes
    <3>2. Reservations(o)' = Reservations(o)
      BY <3>1 DEF Reservations
    <3>. QED
      BY <1>b, <1>h, <2>3, <2>4, <2>5, <3>1, <3>2 DEF OwnerAfter
  <2>6. CASE o = p
    <3>1. owners'[o] = IF Revoked(o) = None \/ Revoked(o).reservations = n THEN None
                       ELSE [Revoked(o) EXCEPT !.reservations = @ - n]
      BY <1>0, <2>1, <2>6 DEF RegistryTypes
    <3>2. n \in Nat /\ n <= Reservations(o)
      BY <1>b, <2>3, <2>4, <2>6
    <3>3. CASE owners[o] = None
      <4>1. owners'[o] = None /\ Reservations(o) = 0 /\ Reservations(o)' = 0
        BY <3>1, <3>3 DEF Revoked, Reservations
      <4>. QED
        BY <1>b, <1>h, <2>3, <2>4, <2>6, <4>1 DEF OwnerAfter
    <3>4. CASE owners[o] # None
      <4>1. owners[o] \in OwnerStates /\ Revoked(o) = [owners[o] EXCEPT !.generation = @ + 1]
        BY <1>b, <3>4 DEF Revoked
      <4>2. /\ Revoked(o) \in OwnerStates
            /\ Revoked(o).generation = owners[o].generation + 1
            /\ Revoked(o).reservations = owners[o].reservations
        BY <4>1 DEF OwnerStates
      <4>3. owners[o].reservations = Reservations(o)
        BY <3>4 DEF Reservations
      <4>4. CASE Revoked(o).reservations = n
        <5>1. owners'[o] = None /\ Reservations(o)' = 0
          BY <3>1, <4>4 DEF Reservations
        <5>2. Count(entries', o) = Count(entries, o) - n /\ IsFiniteSet(entries')
          BY <2>3, <2>4, <2>6
        <5>3. /\ Reservations(o)' = Count(entries', o) + Cardinality(Held(o)')
              /\ Count(entries', o) + Cardinality(Leased(o)') <= Quota
          BY <1>b, <1>h, <3>2, <4>2, <4>3, <4>4, <5>1, <5>2
        <5>. QED
          BY <5>1, <5>2, <5>3 DEF OwnerAfter
      <4>5. CASE Revoked(o).reservations # n
        <5>1. owners'[o] = [Revoked(o) EXCEPT !.reservations = @ - n]
          BY <3>1, <4>2, <4>5
        <5>2. /\ owners'[o] \in OwnerStates
              /\ owners'[o].generation = owners[o].generation + 1
              /\ owners'[o].reservations = Reservations(o) - n
          <6>1. Revoked(o).reservations - n \in Nat \ {0}
            BY <1>b, <3>2, <4>2, <4>3, <4>5
          <6>. QED
            BY <4>2, <4>3, <5>1, <6>1 DEF OwnerStates
        <5>3. Reservations(o)' = Reservations(o) - n
          BY <5>2 DEF Reservations
        <5>4. Count(entries', o) = Count(entries, o) - n /\ IsFiniteSet(entries')
          BY <2>3, <2>4, <2>6
        <5>5. /\ Reservations(o)' = Count(entries', o) + Cardinality(Held(o)')
              /\ Count(entries', o) + Cardinality(Leased(o)') <= Quota
          BY <1>b, <1>h, <3>2, <5>3, <5>4
        <5>6. owners'[o].generation >= owners[o].generation
          BY <1>b, <3>4, <5>2
        <5>. QED
          BY <5>2, <5>4, <5>5, <5>6 DEF OwnerAfter
      <4>. QED
        BY <4>4, <4>5
    <3>. QED
      BY <3>3, <3>4
  <2>. QED
    BY <2>5, <2>6
<1>4. CASE PassPublishes
  BY <1>2, <1>4, <1>k DEF PassPublishes
<1>. QED
  BY <1>k, <1>1, <1>2, <1>3, <1>4
     DEF World, PassReads, Clear, ConnReplaced, SessionReplaced, SessionSeen, ConnCloses, ConnGone, RevokeClient

-----------------------------------------------------------------------------
(* The entries and the tokens. *)

\* insert_reserved, when it parks: the entry and the token.
Parked(c) ==
    [nonce |-> Cardinality(tokens) + 1, owner |-> call[c].owner, binding |-> Binding(c),
     resv |-> call[c].resv, round |-> call[c].round, conn |-> call[c].conn, past |-> FALSE,
     askedOn |-> call[c].sentOn]

Parks(c) ==
    /\ At(c, "park") /\ MayPark(c) /\ Cardinality(tokens) + 1 <= MaxTokens
    /\ entries' = entries \cup {Parked(c)}
    /\ tokens' = tokens \cup {[nonce |-> Cardinality(tokens) + 1, binding |-> Binding(c)]}
    /\ call' = [call EXCEPT ![c] = Idle]
    /\ owners' = owners /\ UNCHANGED <<gen, world, resumed>>

LEMMA ParkParks ==
  ASSUME NEW c \in Calls, Park(c), MayPark(c), Cardinality(tokens) + 1 <= MaxTokens
  PROVE  Parks(c)
BY DEF Park, Parks, Parked

\* Only parking adds to the registry.
LEMMA EntriesRound ==
  ASSUME Inv, NEW c \in Calls, Round(c)
  PROVE  (entries' \subseteq entries /\ tokens' = tokens) \/ Parks(c)
<1>0. CallTypes /\ RegistryTypes /\ NonceInv /\ CallInv(c)
  BY DEF Inv
<1>1. CASE \/ \E o \in Owners, t \in 0..MaxTokens : Start(c, o, t)
           \/ \E o \in Owners : StartPlain(c, o)
  BY <1>1 DEF Start, StartPlain
<1>2. ASSUME NEW from, NEW to, Steps(c, from, to) PROVE entries' \subseteq entries /\ tokens' = tokens
  BY <1>2 DEF Steps
<1>3. CASE Lease(c) \/ Reserve(c) \/ Resume(c) \/ Reopen(c) \/ Queue(c) \/ Fetch(c) \/ Check(c)
           \/ Sends(c) \/ Repeats(c) \/ AskedSameConn(c) \/ Over(c)
  BY <1>3 DEF Lease, Live, Reserve, Resume, Reopen, Queue, Fetch, Check, Sends, Send, SendRetired,
              Repeats, AskedSameConn, Over
<1>4. CASE (\E e \in entries : Takes(c, e)) \/ \E S \in SUBSET entries : TakesNothing(c, S)
  BY <1>4 DEF Takes, TakesNothing
<1>. QED
  BY <1>0, <1>1, <1>2, <1>3, <1>4, ParkParks, RoundKinds

LEMMA ParkedFits ==
  ASSUME Inv, NEW c \in Calls, Parks(c)
  PROVE  /\ Parked(c) \in Entries /\ EntryInv(Parked(c))
         /\ Binding(c) \in Bindings /\ Cardinality(tokens) \in Nat
         /\ Cardinality(tokens) + 1 \in 1..MaxTokens
<1>. USE NoneIsNothing, Bounds
<1>0. /\ CallTypes /\ RegistryTypes /\ WorldTypes /\ NonceInv /\ CallInv(c) /\ RouteInv(c)
      /\ HeldInv(c) /\ call[c] \in Recs
  BY DEF Inv, CallTypes
<1>1. /\ call[c].pc = "park" /\ call[c].owner \in Owners
      /\ call[c].resv \in Resvs /\ call[c].route \in Routes /\ call[c].round <= MaxRounds
      /\ call[c].resv.gen = call[c].route.gen
  BY <1>0 DEF Parks, At, CallInv, Asking
<1>2. /\ call[c].route.gen = gen => call[c].route.target = cache
      /\ call[c].sentOn = call[c].route.upgen
      /\ call[c].conn \in Handles /\ call[c].conn.gen = call[c].route.upgen
  BY <1>0, <1>1 DEF RouteInv, At, Asking
<1>3. /\ call[c].resv.gen = gen /\ owners[call[c].owner] # None
      /\ call[c].resv.owner = owners[call[c].owner].generation
  BY DEF Parks, MayPark
<1>4. Cardinality(tokens) \in Nat /\ Cardinality(tokens) + 1 \in 1..MaxTokens
  <2>1. Cardinality(tokens) \in Nat
    BY <1>0, FS_CardinalityType DEF NonceInv
  <2>. QED
    BY <2>1 DEF Parks
<1>5. Binding(c) \in Bindings
  BY <1>1 DEF Binding, Bindings, Routes
<1>6. call[c].sentOn \in 1..MaxConn /\ call[c].round \in 1..MaxRounds
  BY <1>0, <1>1, <1>2 DEF Routes, Recs
<1>7. Parked(c) \in Entries
  BY <1>1, <1>2, <1>4, <1>5, <1>6 DEF Parked, Entries
<1>8. life[call[c].owner] # "cleaned"
  <2>1. owners[call[c].owner].generation \in Nat
    BY <1>0, <1>1, <1>3 DEF RegistryTypes, OwnerStates
  <2>2. life[call[c].owner] = "cleaned" => call[c].resv.owner < owners[call[c].owner].generation
    BY <1>0, <1>1 DEF HeldInv
  <2>. QED
    BY <1>3, <2>1, <2>2
<1>9. EntryInv(Parked(c))
  <2>1. owners[call[c].owner].generation \in Nat
    BY <1>0, <1>1, <1>3 DEF RegistryTypes, OwnerStates
  <2>2. /\ Parked(c).owner = call[c].owner /\ Parked(c).binding = Binding(c)
        /\ Parked(c).resv = call[c].resv /\ Parked(c).conn = call[c].conn
        /\ Parked(c).askedOn = call[c].sentOn
    BY DEF Parked
  <2>3. /\ Binding(c).owner = call[c].owner /\ Binding(c).gen = call[c].route.gen
        /\ Binding(c).target = call[c].route.target
    BY DEF Binding
  <2>4. /\ Parked(c).binding.owner = Parked(c).owner
        /\ Parked(c).resv.gen = Parked(c).binding.gen
        /\ Parked(c).askedOn = Parked(c).conn.gen
    BY <1>1, <1>2, <2>2, <2>3
  <2>5. Parked(c).binding.gen = gen /\ Parked(c).binding.target = cache
    BY <1>1, <1>2, <1>3, <2>2, <2>3
  <2>6. Parked(c).resv.owner <= owners[Parked(c).owner].generation
    BY <1>3, <2>1, <2>2
  <2>. QED
    BY <1>8, <2>2, <2>4, <2>5, <2>6 DEF EntryInv
<1>. QED
  BY <1>4, <1>5, <1>7, <1>9

OwnersShape ==
    \/ owners' = owners
    \/ \E S : owners' = Released(S)
    \/ \E o, v : owners' = [owners EXCEPT ![o] = v]

LEMMA OwnersRound ==
  ASSUME Inv, NEW c \in Calls, Round(c)
  PROVE  OwnersShape
<1>0. CallTypes /\ RegistryTypes /\ NonceInv /\ CallInv(c)
  BY DEF Inv
<1>1. CASE \/ \E o \in Owners, t \in 0..MaxTokens : Start(c, o, t)
           \/ \E o \in Owners : StartPlain(c, o)
  BY <1>1 DEF Start, StartPlain, OwnersShape
<1>2. ASSUME NEW from, NEW to, Steps(c, from, to) PROVE OwnersShape
  BY <1>2 DEF Steps, OwnersShape
<1>3. CASE Lease(c) \/ Over(c) \/ \E S \in SUBSET entries : TakesNothing(c, S)
  BY <1>3, Zenon DEF Lease, Over, Ends, TakesNothing, OwnersShape
<1>4. CASE Reserve(c) /\ gen = call[c].route.gen
  BY <1>4, Zenon DEF Reserve, OwnersShape
<1>5. CASE \/ Resume(c) \/ Reopen(c) \/ Queue(c) \/ Fetch(c) \/ Check(c) \/ Sends(c)
           \/ Repeats(c)
           \/ (AskedSameConn(c) /\ up # None /\ up.gen = call[c].route.upgen)
           \/ Parks(c) \/ \E e \in entries : Takes(c, e)
  BY <1>5 DEF Resume, Reopen, Queue, Fetch, Check, Sends, Send, SendRetired, Repeats,
              AskedSameConn, Parks, Takes, OwnersShape
<1>. QED
  BY <1>0, <1>1, <1>2, <1>3, <1>4, <1>5, ParkParks, RoundKinds

LEMMA OwnersWorld == World => OwnersShape
BY Zenon DEF World, Expire, PassReads, PassPublishes, Clear, ConnReplaced, SessionReplaced, SessionSeen,
   ConnCloses, ConnGone, RevokeClient, RevokeOwner, OwnersShape

LEMMA RegistryTypesStep ==
  ASSUME Inv, Next
  PROVE  RegistryTypes' /\ LedgerInv' /\ QuotaInv'
<1>1. /\ \A o \in Owners : OwnerAfter(o)
      /\ Owners # {} => IsFiniteSet(entries')
  BY LedgerRound, LedgerWorld DEF Next
<1>2. entries' \subseteq Entries /\ tokens' \subseteq [nonce : 1..MaxTokens, binding : Bindings]
      /\ gen' \in 0..MaxGen
  <2>0. RegistryTypes /\ CallTypes /\ WorldTypes
    BY DEF Inv
  <2>1. ASSUME NEW c \in Calls, Round(c) PROVE <1>2!:
    <3>1. gen' = gen
      BY <2>0, <2>1, RoundFrame
    <3>2. CASE entries' \subseteq entries /\ tokens' = tokens
      BY <2>0, <3>1, <3>2 DEF RegistryTypes
    <3>3. CASE Parks(c)
      <4>1. /\ Parked(c) \in Entries
            /\ [nonce |-> Cardinality(tokens) + 1, binding |-> Binding(c)]
                 \in [nonce : 1..MaxTokens, binding : Bindings]
        BY <3>3, ParkedFits
      <4>2. /\ entries' = entries \cup {Parked(c)}
            /\ tokens' = tokens \cup {[nonce |-> Cardinality(tokens) + 1, binding |-> Binding(c)]}
        BY <3>3 DEF Parks
      <4>. QED
        BY <2>0, <3>1, <4>1, <4>2 DEF RegistryTypes
    <3>. QED
      BY <2>1, <3>2, <3>3, EntriesRound
  <2>2. CASE World
    <3>1. tokens' = tokens
      BY <2>2 DEF World, Expire, PassReads, PassPublishes, Clear, ConnReplaced, SessionReplaced, SessionSeen,
           ConnCloses, ConnGone, RevokeClient, RevokeOwner
    <3>2. gen' = gen \/ (gen < MaxGen /\ gen' = gen + 1)
      BY <2>2
         DEF World, Expire, PassReads, PassPublishes, Clear, ConnReplaced, SessionReplaced, SessionSeen,
             ConnCloses, ConnGone, RevokeClient, RevokeOwner, RegistryTypes
    <3>3. entries' \subseteq Entries
      <4>1. ASSUME NEW e \in entries, Expire(e) PROVE entries' \subseteq Entries
        <5>1. [e EXCEPT !.past = TRUE] \in Entries
          BY <2>0 DEF RegistryTypes, Entries
        <5>. QED
          BY <2>0, <4>1, <5>1 DEF Expire, RegistryTypes
      <4>2. CASE ~\E e \in entries : Expire(e)
        BY <2>0, <2>2, <4>2
           DEF World, PassReads, PassPublishes, Clear, ConnReplaced, SessionReplaced, SessionSeen,
               ConnCloses, ConnGone, RevokeClient, RevokeOwner, RegistryTypes
      <4>. QED
        BY <4>1, <4>2
    <3>4. gen' \in 0..MaxGen
      BY <2>0, <3>2, Bounds DEF RegistryTypes
    <3>. QED
      BY <2>0, <3>1, <3>3, <3>4 DEF RegistryTypes
  <2>. QED
    BY <2>1, <2>2 DEF Next
<1>3. IsFiniteSet(entries')
  <2>1. Owners = {} => entries' = {}
    BY <1>2 DEF Entries
  <2>. QED
    BY <1>1, <2>1, FS_EmptySet
<1>4. owners' \in [Owners -> OwnerStates \cup {None}]
  <2>1. ASSUME NEW c \in Calls, Round(c) PROVE OwnersShape
    BY <2>1, OwnersRound
  <2>3. OwnersShape
    BY <2>1, OwnersWorld DEF Next
  <2>4. owners' = [o \in Owners |-> owners'[o]]
    BY <2>3 DEF OwnersShape, Released, Inv, RegistryTypes
  <2>. QED
    BY <1>1, <2>4 DEF OwnerAfter
<1>5. LedgerInv'
  BY <1>1, <1>3 DEF LedgerInv, OwnerAfter
<1>6. QuotaInv'
  <2>1. ASSUME NEW o \in Owners PROVE Leases(entries, o)' = Count(entries', o) + Cardinality(Leased(o)')
    BY DEF Leases, Leased
  <2>. QED
    BY <1>1, <2>1 DEF QuotaInv, OwnerAfter
<1>. QED
  BY <1>2, <1>4, <1>5, <1>6 DEF RegistryTypes

\* Who has a reservation is in the ledger.
Present ==
    /\ \A e \in entries : owners[e.owner] # None /\ owners[e.owner].generation \in Nat
    /\ \A c \in Calls : call[c].resv # None =>
          /\ call[c].owner \in Owners
          /\ owners[call[c].owner] # None /\ owners[call[c].owner].generation \in Nat

Counted == CallTypes /\ RegistryTypes /\ LedgerInv /\ \A c \in Calls : CallInv(c)

LEMMA LedgerPresent == Counted => Present
<1>. USE DEF Counted
<1>. SUFFICES ASSUME CallTypes, RegistryTypes, LedgerInv, \A c \in Calls : CallInv(c)
              PROVE  Present
  OBVIOUS
<1>1. ASSUME NEW o \in Owners, Reservations(o) # 0
      PROVE  owners[o] # None /\ owners[o].generation \in Nat
  BY <1>1 DEF Reservations, RegistryTypes, OwnerStates
<1>2. ASSUME NEW e \in entries PROVE owners[e.owner] # None /\ owners[e.owner].generation \in Nat
  <2>1. e.owner \in Owners
    BY DEF RegistryTypes, Entries
  <2>2. Count(entries, e.owner) \in Nat /\ Count(entries, e.owner) >= 1
    BY CountFacts DEF LedgerInv
  <2>3. Reservations(e.owner) = Count(entries, e.owner) + Cardinality(Held(e.owner))
    BY <2>1 DEF LedgerInv
  <2>4. Cardinality(Held(e.owner)) \in Nat
    BY CallCounts
  <2>. QED
    BY <1>1, <2>1, <2>2, <2>3, <2>4
<1>3. ASSUME NEW c \in Calls, call[c].resv # None
      PROVE  /\ call[c].owner \in Owners
             /\ owners[call[c].owner] # None /\ owners[call[c].owner].generation \in Nat
  <2>1. call[c].owner \in Owners
    BY <1>3 DEF CallInv, Idle, At
  <2>2. Count(entries, call[c].owner) \in Nat
    BY CountFacts DEF LedgerInv
  <2>3. Reservations(call[c].owner) = Count(entries, call[c].owner) + Cardinality(Held(call[c].owner))
    BY <2>1 DEF LedgerInv
  <2>4. Holds(c, call[c].owner) = 1
    BY <1>3 DEF Holds
  <2>5. Cardinality(Held(call[c].owner)) \in Nat /\ Cardinality(Held(call[c].owner)) >= 1
    BY <2>4, CallCounts
  <2>. QED
    BY <1>1, <2>1, <2>2, <2>3, <2>5
<1>. QED
  BY <1>2, <1>3 DEF Present

LEMMA KnownStep ==
  ASSUME Inv, Next
  PROVE  /\ CallTypes' /\ WorldTypes' /\ WorldInv'
         /\ \A c \in Calls : CallInv(c)' /\ RouteInv(c)'
<1>1. Known
  BY DEF Inv, Known
<1>2. ASSUME NEW c \in Calls, Round(c)
      PROVE  /\ CallTypes' /\ WorldTypes' /\ WorldInv'
             /\ \A d \in Calls : CallInv(d)' /\ RouteInv(d)'
  BY <1>1, <1>2, CallRecord, OtherCall, WorldTypesRound
<1>. QED
  BY <1>1, <1>2, CallsWorld DEF Next

\* Everything counted is present before and after a step, and generations only grow.
LEMMA Grows ==
  ASSUME Inv, Next
  PROVE  /\ Present /\ Present'
         /\ \A o \in Owners : owners[o] # None /\ owners'[o] # None =>
               owners'[o].generation >= owners[o].generation
<1>1. Present
  BY LedgerPresent DEF Inv, Counted
<1>2. Counted'
  BY KnownStep, RegistryTypesStep DEF Counted
<1>3. Present'
  BY <1>2, LedgerPresent, PTL
<1>4. \A o \in Owners : OwnerAfter(o)
  BY LedgerRound, LedgerWorld DEF Next
<1>. QED
  BY <1>1, <1>3, <1>4 DEF OwnerAfter

LEMMA HeldStep ==
  ASSUME Inv, Next, NEW d \in Calls
  PROVE  HeldInv(d)'
<1>. USE NoneIsNothing
<1>0. /\ CallTypes /\ RegistryTypes /\ WorldTypes /\ NonceInv /\ CallInv(d) /\ HeldInv(d)
      /\ call[d] \in Recs
  BY DEF Inv, CallTypes
<1>1. ASSUME call'[d].resv = call[d].resv, call'[d].owner = call[d].owner,
             life' = life,
             \/ call'[d].pc \notin {"active", "same", "park"}
             \/ call[d].pc \in {"active", "same", "park"}
             \/ life[call[d].owner] = "active"
      PROVE  HeldInv(d)'
  <2>. SUFFICES ASSUME call[d].resv # None
                PROVE  /\ call[d].resv.owner <= owners'[call[d].owner].generation
                       /\ life[call[d].owner] = "cleaned" /\ call'[d].pc \in {"active", "same", "park"} =>
                             call[d].resv.owner < owners'[call[d].owner].generation
    BY <1>1 DEF HeldInv
  <2>1. /\ call[d].owner \in Owners
        /\ owners[call[d].owner].generation \in Nat /\ owners'[call[d].owner].generation \in Nat
        /\ owners'[call[d].owner].generation >= owners[call[d].owner].generation
    BY <1>1, Grows DEF Present
  <2>2. call[d].resv.owner \in Nat
    BY <1>0 DEF Recs, Resvs
  <2>. QED
    BY <1>0, <1>1, <2>1, <2>2 DEF HeldInv
<1>2. ASSUME NEW c \in Calls, Round(c) PROVE HeldInv(d)'
  <2>0. CallInv(c) /\ HeldInv(c) /\ call[c] \in Recs /\ \A e \in entries : EntryInv(e)
    BY DEF Inv, CallTypes
  <2>1. life' = life /\ \A b \in Calls \ {c} : call'[b] = call[b]
    BY <1>0, <1>2, RoundFrame
  <2>2. CASE d # c
    <3>1. call'[d] = call[d]
      BY <2>1, <2>2
    <3>. QED
      BY <1>1, <2>1, <3>1
  <2>i. call'[c].resv = None => HeldInv(c)'
    BY DEF HeldInv
  <2>3. ASSUME NEW o \in Owners, NEW t \in 0..MaxTokens, Start(c, o, t) \/ StartPlain(c, o)
        PROVE  HeldInv(c)'
    <3>1. call'[c].resv = None
      BY <1>0, <2>3 DEF Start, StartPlain, CallTypes, Idle
    <3>. QED
      BY <2>i, <3>1
  <2>4. ASSUME NEW from, NEW to, Steps(c, from, to), from \in {"active", "same", "park"} \/ to # "active",
               from \in {"active", "same", "park"} \/ to \notin {"same", "park"}, c = d
        PROVE  HeldInv(c)'
    <3>1. /\ call'[c].resv = call[c].resv /\ call'[c].owner = call[c].owner
          /\ call[c].pc = from /\ call'[c].pc = to
      BY <1>0, <2>0, <2>4 DEF Steps, Go, At, CallTypes, Recs
    <3>. QED
      BY <1>1, <2>1, <2>4, <3>1
  <2>5. CASE Steps(c, "asked", "active") /\ SignedIn(c) /\ c = d
    <3>1. /\ call'[c].resv = call[c].resv /\ call'[c].owner = call[c].owner
          /\ life[call[c].owner] = "active"
      BY <1>0, <2>0, <2>5 DEF Steps, Go, At, CallTypes, Recs, SignedIn
    <3>. QED
      BY <1>1, <2>1, <2>5, <3>1
  <2>6. CASE Lease(c) /\ c = d
    <3>1. call[c].resv = None
      BY <2>0, <2>6 DEF Lease, CallInv, At, Early
    <3>2. call'[c].resv = None
      <4>1. CASE Go(c, "leased")
        BY <1>0, <2>0, <3>1, <4>1 DEF Go, CallTypes, Recs
      <4>2. CASE call' = [call EXCEPT ![c] = Idle]
        BY <1>0, <4>2 DEF CallTypes, Idle
      <4>. QED
        BY <2>6, <4>1, <4>2 DEF Lease
    <3>. QED
      BY <2>6, <2>i, <3>2
  <2>7. CASE Over(c) \/ Parks(c) \/ \E S \in SUBSET entries : TakesNothing(c, S)
    <3>1. call'[c] = Idle
      BY <1>0, <2>7 DEF Over, Ends, Parks, TakesNothing, CallTypes
    <3>2. call'[c].resv = None
      BY <3>1 DEF Idle
    <3>. QED
      BY <2>2, <2>i, <3>2
  <2>8. CASE Resume(c) \/ Queue(c)
    <3>1. Steps(c, "resume", "closed?") \/ Steps(c, "closed?", "queued")
      BY <2>8 DEF Resume, Queue, Steps
    <3>. QED
      BY <2>2, <2>4, <3>1
  <2>9. CASE \/ Reopen(c) \/ Fetch(c) \/ Check(c) \/ Sends(c) \/ Repeats(c)
             \/ (AskedSameConn(c) /\ up # None /\ up.gen = call[c].route.upgen)
    <3>1. /\ call'[c].resv = call[c].resv /\ call'[c].owner = call[c].owner
          /\ call'[c].pc \notin {"active", "same", "park"} \/ call[c].pc \in {"active", "same", "park"}
      <4>1. CASE Reopen(c)
        <5>1. call'[c] = [call[c] EXCEPT !.pc = "queued", !.made = conns + 1]
          BY <1>0, <4>1 DEF Reopen, CallTypes
        <5>. QED
          BY <2>0, <5>1 DEF Recs
      <4>2. CASE Fetch(c)
        <5>1. call'[c] = [call[c] EXCEPT !.pc = "fetched", !.conn = Handle]
          BY <1>0, <4>2 DEF Fetch, CallTypes
        <5>. QED
          BY <2>0, <5>1 DEF Recs
      <4>3. CASE Check(c) \/ Sends(c)
        <5>1. \E n : \/ call'[c] = [call[c] EXCEPT !.pc = "handed", !.seen = n]
                     \/ call'[c] = [call[c] EXCEPT !.pc = "sent", !.sentOn = n]
          BY <1>0, <4>3, SendRecord
        <5>. QED
          BY <2>0, <5>1 DEF Recs
      <4>4. CASE Repeats(c)
        <5>1. call'[c] = [call[c] EXCEPT !.pc = "closed?", !.retry = TRUE]
          BY <1>0, <4>4 DEF Repeats, CallTypes
        <5>. QED
          BY <2>0, <5>1 DEF Recs
      <4>5. CASE AskedSameConn(c) /\ up # None /\ up.gen = call[c].route.upgen
        <5>1. call'[c] = [call[c] EXCEPT !.pc = "park", !.conn = Handle] /\ call[c].pc = "same"
          BY <1>0, <4>5 DEF AskedSameConn, CallTypes, At
        <5>. QED
          BY <2>0, <5>1 DEF Recs
      <4>. QED
        BY <2>9, <4>1, <4>2, <4>3, <4>4, <4>5
    <3>. QED
      BY <1>1, <2>1, <2>2, <3>1
  <2>10. CASE Reserve(c) /\ gen = call[c].route.gen
    <3>. DEFINE p == call[c].owner
                state == IF owners[p] = None THEN [generation |-> 0, reservations |-> 0]
                         ELSE owners[p]
    <3>1. p \in Owners
      BY <2>0, <2>10 DEF Reserve, CallInv, At
    <3>2. /\ owners' = [owners EXCEPT ![p] = [state EXCEPT !.reservations = @ + 1]]
          /\ call' = [call EXCEPT ![c] = [@ EXCEPT
                 !.pc = "closed?", !.resv = [gen |-> gen, owner |-> state.generation]]]
      BY <2>10, Zenon DEF Reserve
    <3>3. state \in [generation : Nat, reservations : Nat]
      BY <1>0, <3>1 DEF RegistryTypes, OwnerStates
    <3>4. call'[c].owner = p /\ call'[c].resv.owner = state.generation /\ call'[c].pc = "closed?"
      BY <1>0, <2>0, <3>2 DEF CallTypes, Recs
    <3>5. owners'[p].generation = state.generation
      BY <1>0, <3>1, <3>2, <3>3 DEF RegistryTypes
    <3>6. state.generation \in Nat
      BY <3>3
    <3>7. HeldInv(c)'
      BY <3>4, <3>5, <3>6 DEF HeldInv
    <3>. QED
      BY <2>2, <3>7
  <2>11. ASSUME NEW e \in entries, Takes(c, e) PROVE HeldInv(c)'
    <3>1. e \in Entries /\ EntryInv(e)
      BY <1>0, <2>0 DEF RegistryTypes
    <3>2. call[c].owner = e.owner
      BY <2>11, <3>1 DEF Takes, Binding, EntryInv
    <3>3. call'[c].resv = e.resv /\ call'[c].owner = e.owner /\ call'[c].pc = "resume" /\ owners' = owners
      BY <1>0, <2>0, <2>11, <3>2 DEF Takes, CallTypes, Recs
    <3>. QED
      BY <3>1, <3>3 DEF HeldInv, EntryInv
  <2>12. c = d => HeldInv(c)'
    <3>1. 0 \in 0..MaxTokens
      BY Bounds
    <3>2. ASSUME NEW from \in {"captured", "sent", "active"},
                 NEW to \in {"reserve", "consume", "asked", "same"},
                 Steps(c, from, to), to = "same" => from = "active", c = d
          PROVE  HeldInv(c)'
      BY <2>4, <3>2
    <3>. QED
      BY <1>0, <1>2, <2>0, <2>3, <2>5, <2>6, <2>7, <2>8, <2>9, <2>10, <2>11, <3>1, <3>2,
         ParkParks, RoundKinds
  <2>. QED
    BY <2>2, <2>12
<1>3. CASE World
  <2>0. call' = call
    BY <1>3 DEF World, Expire, PassReads, PassPublishes, Clear, ConnReplaced, SessionReplaced, SessionSeen,
       ConnCloses, ConnGone, RevokeClient, RevokeOwner
  <2>1. CASE life' = life
    BY <1>1, <2>0, <2>1
  <2>2. ASSUME NEW o \in Owners, RevokeClient(o) PROVE HeldInv(d)'
    <3>1. owners' = owners /\ life' = [life EXCEPT ![o] = "revoked"]
      BY <2>2 DEF RevokeClient
    <3>2. call[d].resv # None => (life'[call[d].owner] = "cleaned" => life[call[d].owner] = "cleaned")
      BY <1>0, <3>1, Grows DEF Present, WorldTypes
    <3>. QED
      BY <1>0, <2>0, <3>1, <3>2 DEF HeldInv
  <2>3. ASSUME NEW o \in Owners, RevokeOwner(o) PROVE HeldInv(d)'
    <3>. SUFFICES ASSUME call[d].resv # None
                  PROVE  /\ call[d].resv.owner <= owners'[call[d].owner].generation
                         /\ life'[call[d].owner] = "cleaned" /\ call[d].pc \in {"active", "same", "park"} =>
                               call[d].resv.owner < owners'[call[d].owner].generation
      BY <2>0 DEF HeldInv
    <3>1. /\ call[d].owner \in Owners /\ call[d].resv.owner \in Nat
          /\ owners[call[d].owner] # None /\ owners'[call[d].owner] # None
          /\ owners[call[d].owner].generation \in Nat
      BY <1>0, <2>0, Grows DEF Present, Recs, Resvs
    <3>2. call[d].resv.owner <= owners[call[d].owner].generation
      BY <1>0 DEF HeldInv
    <3>3. CASE call[d].owner # o
      <4>1. owners'[call[d].owner] = owners[call[d].owner] /\ life'[call[d].owner] = life[call[d].owner]
        BY <1>0, <2>3, <3>1, <3>3 DEF RevokeOwner, RegistryTypes, WorldTypes
      <4>. QED
        BY <1>0, <4>1 DEF HeldInv
    <3>4. CASE call[d].owner = o
      <4>1. owners'[o].generation = owners[o].generation + 1
        <5>1. Revoked(o) = [owners[o] EXCEPT !.generation = @ + 1]
          BY <3>1, <3>4 DEF Revoked
        <5>2. owners[o] \in OwnerStates
          BY <1>0, <3>1, <3>4 DEF RegistryTypes
        <5>3. \E n : owners'[o] = [Revoked(o) EXCEPT !.reservations = n]
          BY <1>0, <2>3, <3>1, <3>4 DEF RevokeOwner, RegistryTypes
        <5>4. Revoked(o) \in OwnerStates /\ Revoked(o).generation = owners[o].generation + 1
          BY <5>1, <5>2 DEF OwnerStates
        <5>. QED
          BY <5>3, <5>4 DEF OwnerStates
      <4>. QED
        BY <3>1, <3>2, <3>4, <4>1
    <3>. QED
      BY <3>3, <3>4
  <2>. QED
    BY <1>3, <2>1, <2>2, <2>3 DEF World, Expire, PassReads, PassPublishes, Clear, ConnReplaced,
       SessionReplaced, SessionSeen, ConnCloses, ConnGone, world
<1>. QED
  BY <1>2, <1>3 DEF Next

LEMMA EntryStep ==
  ASSUME Inv, Next
  PROVE  \A e \in entries' : EntryInv(e)'
<1>. USE NoneIsNothing
<1>0. /\ CallTypes /\ RegistryTypes /\ WorldTypes /\ WorldInv /\ \A e \in entries : EntryInv(e)
  BY DEF Inv
<1>1. ASSUME NEW e \in entries, e \in entries', gen' = gen, cache' = cache,
             life'[e.owner] # "cleaned"
      PROVE  EntryInv(e)'
  <2>1. e \in Entries /\ EntryInv(e) /\ e.owner \in Owners /\ e.resv.owner \in Nat
    BY <1>0 DEF RegistryTypes, Entries, Resvs
  <2>2. /\ owners[e.owner].generation \in Nat /\ owners'[e.owner].generation \in Nat
        /\ owners'[e.owner].generation >= owners[e.owner].generation
    BY <1>1, <2>1, Grows DEF Present
  <2>3. e.resv.owner <= owners'[e.owner].generation
    BY <2>1, <2>2 DEF EntryInv
  <2>. QED
    BY <1>1, <2>1, <2>3 DEF EntryInv
<1>2. ASSUME NEW c \in Calls, Round(c) PROVE \A e \in entries' : EntryInv(e)'
  <2>1. UNCHANGED <<gen, cache, life>>
    BY <1>0, <1>2, RoundFrame
  <2>2. ASSUME NEW e \in entries, e \in entries' PROVE EntryInv(e)'
    <3>1. life'[e.owner] # "cleaned"
      BY <1>0, <2>1 DEF EntryInv
    <3>. QED
      BY <1>1, <2>1, <2>2, <3>1
  <2>3. CASE Parks(c)
    <3>1. EntryInv(Parked(c)) /\ owners' = owners /\ entries' = entries \cup {Parked(c)}
      BY <2>3, ParkedFits DEF Parks
    <3>2. ASSUME NEW e, EntryInv(e) PROVE EntryInv(e)'
      BY <2>1, <3>1, <3>2 DEF EntryInv
    <3>. QED
      BY <1>0, <3>1, <3>2
  <2>. QED
    BY <1>2, <2>2, <2>3, EntriesRound
<1>3. ASSUME NEW f \in entries, Expire(f) PROVE \A e \in entries' : EntryInv(e)'
  <2>1. UNCHANGED <<gen, owners, cache, life>> /\ entries' = (entries \ {f}) \cup {[f EXCEPT !.past = TRUE]}
    BY <1>3 DEF Expire, world
  <2>2. ASSUME NEW e, EntryInv(e) PROVE EntryInv(e)'
    BY <2>1, <2>2 DEF EntryInv
  <2>3. EntryInv([f EXCEPT !.past = TRUE])
    <3>1. f \in Entries /\ EntryInv(f)
      BY <1>0 DEF RegistryTypes
    <3>2. /\ [f EXCEPT !.past = TRUE].binding = f.binding /\ [f EXCEPT !.past = TRUE].owner = f.owner
          /\ [f EXCEPT !.past = TRUE].resv = f.resv /\ [f EXCEPT !.past = TRUE].conn = f.conn
          /\ [f EXCEPT !.past = TRUE].askedOn = f.askedOn
      BY <3>1 DEF Entries
    <3>. QED
      BY <3>1, <3>2 DEF EntryInv
  <2>. QED
    BY <1>0, <2>1, <2>2, <2>3
<1>4. CASE PassPublishes \/ Clear
  <2>1. CASE entries' = {}
    BY <2>1
  <2>2. CASE PassPublishes /\ published = pass
    <3>1. /\ UNCHANGED <<gen, entries, owners, life>> /\ cache' = pass.target
      BY <2>2 DEF PassPublishes
    <3>2. cache' = cache
      BY <1>0, <2>2, <3>1 DEF WorldInv
    <3>. QED
      BY <1>0, <1>1, <3>1, <3>2 DEF EntryInv
  <2>. QED
    BY <1>4, <2>1, <2>2 DEF PassPublishes, Clear
<1>5. CASE \/ \E t \in Targets : PassReads(t)
           \/ ConnReplaced \/ SessionReplaced \/ SessionSeen \/ ConnCloses \/ ConnGone
  <2>1. UNCHANGED <<gen, entries, cache, life>>
    BY <1>5 DEF PassReads, ConnReplaced, SessionReplaced, SessionSeen, ConnCloses, ConnGone
  <2>. QED
    BY <1>0, <1>1, <2>1 DEF EntryInv
<1>6. ASSUME NEW o \in Owners, RevokeClient(o) PROVE \A e \in entries' : EntryInv(e)'
  <2>1. UNCHANGED <<gen, entries, cache>> /\ life' = [life EXCEPT ![o] = "revoked"]
    BY <1>6 DEF RevokeClient
  <2>2. ASSUME NEW e \in entries PROVE life'[e.owner] # "cleaned"
    <3>1. e.owner \in Owners /\ life[e.owner] # "cleaned"
      BY <1>0 DEF RegistryTypes, Entries, EntryInv
    <3>. QED
      BY <1>0, <2>1, <3>1 DEF WorldTypes
  <2>. QED
    BY <1>1, <2>1, <2>2
<1>7. ASSUME NEW o \in Owners, RevokeOwner(o) PROVE \A e \in entries' : EntryInv(e)'
  <2>1. /\ UNCHANGED <<gen, cache>> /\ life' = [life EXCEPT ![o] = "cleaned"]
        /\ entries' = entries \ {e \in entries : e.owner = o /\ owners[o] # None}
    BY <1>7 DEF RevokeOwner
  <2>2. ASSUME NEW e \in entries' PROVE e \in entries /\ life'[e.owner] # "cleaned"
    <3>1. e \in entries /\ e.owner \in Owners /\ life[e.owner] # "cleaned"
      BY <1>0, <2>1 DEF RegistryTypes, Entries, EntryInv
    <3>2. owners[e.owner] # None
      BY <3>1, Grows DEF Present
    <3>3. e.owner # o
      BY <2>1, <3>1, <3>2
    <3>. QED
      BY <1>0, <2>1, <3>1, <3>3 DEF WorldTypes
  <2>. QED
    BY <1>1, <2>1, <2>2
<1>. QED
  BY <1>2, <1>3, <1>4, <1>5, <1>6, <1>7 DEF Next, World

\* A call keeps its token, drops it, or starts with one that was issued; and it comes
\* to wait only by taking an entry.
LEMMA TokenAfter ==
  ASSUME Inv, NEW c \in Calls, Round(c)
  PROVE  /\ \/ call'[c].token \in {0, call[c].token}
            \/ \E k \in tokens : k.nonce = call'[c].token
         /\ Waiting(c)' =>
               /\ call'[c].token = call[c].token
               /\ \/ Waiting(c) /\ ~Sends(c)
                  \/ \E e \in entries : Takes(c, e)
<1>. USE NoneIsNothing DEF Waiting
<1>. DEFINE Goal ==
         /\ \/ call'[c].token \in {0, call[c].token}
            \/ \E k \in tokens : k.nonce = call'[c].token
         /\ Waiting(c)' =>
               /\ call'[c].token = call[c].token
               /\ \/ Waiting(c) /\ ~Sends(c)
                  \/ \E e \in entries : Takes(c, e)
<1>. SUFFICES Goal
  OBVIOUS
<1>0. CallTypes /\ RegistryTypes /\ NonceInv /\ CallInv(c) /\ call[c] \in Recs
  BY DEF Inv, CallTypes
<1>i. call'[c].token = 0 => Goal
  OBVIOUS
<1>1. ASSUME NEW o \in Owners, NEW t \in 0..MaxTokens, Start(c, o, t) PROVE Goal
  <2>1. call'[c].token = t /\ call'[c].pc = "captured"
    BY <1>0, <1>1 DEF Start, CallTypes, Idle
  <2>2. t # 0 => \E k \in tokens : k.nonce = t
    BY <1>1 DEF Start
  <2>. QED
    BY <2>1, <2>2
<1>2. ASSUME NEW o \in Owners, StartPlain(c, o) PROVE Goal
  <2>1. call'[c].token = 0
    BY <1>0, <1>2 DEF StartPlain, CallTypes, Idle
  <2>. QED
    BY <1>i, <2>1
<1>3. ASSUME NEW from \in {"captured", "sent", "asked", "active"},
             NEW to \in {"reserve", "consume", "asked", "active", "same"}, Steps(c, from, to)
      PROVE  Goal
  <2>1. call'[c].token = call[c].token /\ call'[c].pc = to
    BY <1>0, <1>3 DEF Steps, Go, CallTypes, Recs
  <2>. QED
    BY <1>3, <2>1
<1>4. CASE \/ Over(c) \/ Parks(c) \/ \E S \in SUBSET entries : TakesNothing(c, S)
  <2>1. call'[c] = Idle
    BY <1>0, <1>4 DEF Over, Ends, Parks, TakesNothing, CallTypes
  <2>2. call'[c].token = 0
    BY <2>1 DEF Idle
  <2>. QED
    BY <1>i, <2>2
<1>5. CASE Lease(c)
  <2>1. call[c].token = 0
    BY <1>0, <1>5 DEF Lease, At, CallInv
  <2>2. call'[c].token = 0
    <3>1. CASE Go(c, "leased")
      BY <1>0, <2>1, <3>1 DEF Go, CallTypes, Recs
    <3>2. CASE call' = [call EXCEPT ![c] = Idle]
      BY <1>0, <3>2 DEF CallTypes, Idle
    <3>. QED
      BY <1>5, <3>1, <3>2 DEF Lease
  <2>. QED
    BY <1>i, <2>2
<1>6. CASE Reserve(c) /\ gen = call[c].route.gen
  <2>1. call[c].token = 0
    BY <1>0, <1>6 DEF Reserve, At, CallInv
  <2>2. \E r : call'[c] = [call[c] EXCEPT !.pc = "closed?", !.resv = r]
    BY <1>0, <1>6 DEF Reserve, CallTypes
  <2>3. call'[c].token = 0
    BY <1>0, <2>1, <2>2 DEF Recs
  <2>. QED
    BY <1>i, <2>3
<1>7. ASSUME NEW e \in entries, Takes(c, e) PROVE Goal
  <2>1. call'[c].token = call[c].token
    BY <1>0, <1>7 DEF Takes, CallTypes, Recs
  <2>. QED
    BY <1>7, <2>1
<1>8. CASE Resume(c) \/ Queue(c)
  <2>1. /\ call'[c].token = call[c].token /\ call[c].pc \in {"resume", "closed?"}
    BY <1>0, <1>8 DEF Resume, Queue, Go, At, CallTypes, Recs
  <2>2. ~Sends(c)
    BY <1>0, <2>1, SendRecord
  <2>. QED
    BY <2>1, <2>2
<1>9. CASE Reopen(c) \/ Fetch(c)
  <2>1. /\ call[c].pc \in {"closed?", "queued"}
        /\ \/ call'[c] = [call[c] EXCEPT !.pc = "queued", !.made = conns + 1]
           \/ call'[c] = [call[c] EXCEPT !.pc = "fetched", !.conn = Handle]
    BY <1>0, <1>9 DEF Reopen, Fetch, At, CallTypes
  <2>2. call'[c].token = call[c].token
    BY <1>0, <2>1 DEF Recs
  <2>3. ~Sends(c)
    BY <1>0, <2>1, SendRecord
  <2>. QED
    BY <2>1, <2>2, <2>3
<1>h. CASE Check(c)
  <2>1. /\ call[c].pc = "fetched"
        /\ \E n : call'[c] = [call[c] EXCEPT !.pc = "handed", !.seen = n]
    BY <1>0, <1>h, SendRecord
  <2>2. call'[c].token = call[c].token
    BY <1>0, <2>1 DEF Recs
  <2>3. ~Sends(c)
    BY <1>0, <2>1, SendRecord
  <2>. QED
    BY <2>1, <2>2, <2>3
<1>10. CASE Sends(c) \/ (AskedSameConn(c) /\ up # None /\ up.gen = call[c].route.upgen)
  <2>1. \/ \E n : call'[c] = [call[c] EXCEPT !.pc = "sent", !.sentOn = n]
        \/ call'[c] = [call[c] EXCEPT !.pc = "park", !.conn = Handle]
    BY <1>0, <1>10, SendRecord DEF AskedSameConn, CallTypes
  <2>2. call'[c].token = call[c].token /\ call'[c].pc \in {"sent", "park"}
    BY <1>0, <2>1 DEF Recs
  <2>. QED
    BY <2>2
<1>11. CASE Repeats(c)
  <2>1. call[c].token = 0
    BY <1>0, <1>11 DEF Repeats, At, CallInv, Going
  <2>2. call'[c].token = 0
    BY <1>0, <1>11, <2>1 DEF Repeats, CallTypes, Recs
  <2>. QED
    BY <1>i, <2>2
<1>. HIDE DEF Goal
<1>p. Park(c) /\ MayPark(c) /\ Cardinality(tokens) + 1 <= MaxTokens => Goal
  BY <1>4, ParkParks
<1>. QED
  BY <1>0, <1>p, <1>1, <1>2, <1>3, <1>4, <1>5, <1>6, <1>7, <1>8, <1>9, <1>h, <1>10, <1>11, RoundKinds, Zenon

\* Parking issues the next token.
LEMMA TokensAfter ==
  ASSUME Inv, NEW c \in Calls, Parks(c)
  PROVE  IsFiniteSet(tokens') /\ Cardinality(tokens') = Cardinality(tokens) + 1
<1>1. Cardinality(tokens) \in Nat /\ tokens \subseteq [nonce : 1..MaxTokens, binding : Bindings]
  BY FS_CardinalityType DEF Inv, NonceInv, RegistryTypes
<1>2. [nonce |-> Cardinality(tokens) + 1, binding |-> Binding(c)] \notin tokens
  BY <1>1 DEF Inv, NonceInv
<1>. QED
  BY <1>2, FS_AddElement DEF Inv, NonceInv, Parks

LEMMA NonceStep ==
  ASSUME Inv, Next
  PROVE  NonceInv'
<1>. USE Bounds
<1>0. /\ CallTypes /\ RegistryTypes /\ NonceInv /\ Cardinality(tokens) \in Nat
      /\ \A c \in Calls : call[c].token \in Nat
      /\ \A e \in entries : e.nonce \in Nat
  BY FS_CardinalityType DEF Inv, NonceInv, CallTypes, RegistryTypes, Recs, Entries
<1>1. ASSUME NEW c \in Calls, Round(c), ~Parks(c) PROVE NonceInv'
  <2>1. entries' \subseteq entries /\ tokens' = tokens
    BY <1>1, EntriesRound
  <2>2. ASSUME NEW d \in Calls PROVE call'[d].token <= Cardinality(tokens)
    <3>1. d # c => call'[d] = call[d]
      BY <1>0, <1>1, RoundFrame DEF Inv
    <3>. QED
      BY <1>0, <1>1, <3>1, TokenAfter DEF NonceInv
  <2>. QED
    BY <1>0, <2>1, <2>2 DEF NonceInv
<1>2. ASSUME NEW c \in Calls, Round(c), Parks(c) PROVE NonceInv'
  <2>. DEFINE n == Cardinality(tokens) + 1
  <2>1. IsFiniteSet(tokens') /\ Cardinality(tokens') = n
    BY <1>2, TokensAfter
  <2>2. /\ entries' = entries \cup {Parked(c)} /\ Parked(c).nonce = n
        /\ tokens' = tokens \cup {[nonce |-> n, binding |-> Binding(c)]}
    BY <1>2 DEF Parks, Parked
  <2>3. \A d \in Calls : call'[d].token <= n
    <3>1. call'[c] = Idle /\ \A d \in Calls \ {c} : call'[d] = call[d]
      BY <1>0, <1>2 DEF Parks, CallTypes
    <3>2. call'[c].token = 0
      BY <3>1 DEF Idle
    <3>. QED
      BY <1>0, <3>1, <3>2 DEF NonceInv
  <2>4. /\ \A k \in tokens' : k.nonce <= n
        /\ \A e \in entries' : e.nonce <= n
        /\ \A e, f \in entries' : e.nonce = f.nonce => e = f
    <3>1. \A k \in tokens : k.nonce \in Nat
      BY <1>0 DEF RegistryTypes
    <3>2. /\ \A k \in tokens : k.nonce < n
          /\ \A e \in entries : e.nonce < n
          /\ \A e, f \in entries : e.nonce = f.nonce => e = f
      BY <1>0, <3>1 DEF NonceInv
    <3>3. [nonce |-> n, binding |-> Binding(c)].nonce = n
      OBVIOUS
    <3>4. n \in Nat
      BY <1>0
    <3>. HIDE DEF n
    <3>5. \A k \in tokens' : k.nonce <= n
      BY <2>2, <3>1, <3>2, <3>3, <3>4
    <3>6. \A e \in entries' : e.nonce <= n
      BY <1>0, <2>2, <3>2, <3>4
    <3>7. \A e, f \in entries' : e.nonce = f.nonce => e = f
      BY <1>0, <2>2, <3>2, <3>4
    <3>. QED
      BY <3>5, <3>6, <3>7
  <2>. HIDE DEF n
  <2>. QED
    BY <2>1, <2>3, <2>4 DEF NonceInv
<1>3. CASE World
  <2>1. call' = call /\ tokens' = tokens
    BY <1>3 DEF World, Expire, PassReads, PassPublishes, Clear, ConnReplaced, SessionReplaced, SessionSeen,
       ConnCloses, ConnGone, RevokeClient, RevokeOwner
  <2>2. CASE \E f \in entries : Expire(f)
    <3>1. PICK f \in entries : entries' = (entries \ {f}) \cup {[f EXCEPT !.past = TRUE]}
      BY <2>2 DEF Expire
    <3>2. [f EXCEPT !.past = TRUE].nonce = f.nonce
      BY <1>0 DEF RegistryTypes, Entries
    <3>. QED
      BY <1>0, <2>1, <3>1, <3>2 DEF NonceInv
  <2>3. CASE entries' \subseteq entries
    BY <1>0, <2>1, <2>3 DEF NonceInv
  <2>. QED
    BY <1>3, <2>2, <2>3 DEF World, PassReads, PassPublishes, Clear, ConnReplaced, SessionReplaced, SessionSeen,
       ConnCloses, ConnGone, RevokeClient, RevokeOwner
<1>. QED
  BY <1>1, <1>2, <1>3 DEF Next

LEMMA ResumedStep ==
  ASSUME Inv, Next
  PROVE  ResumedInv'
<1>. USE Bounds
<1>0. /\ CallTypes /\ RegistryTypes /\ WorldTypes /\ NonceInv /\ ResumedInv
      /\ Cardinality(tokens) \in Nat
      /\ \A c \in Calls : call[c].token \in 0..MaxTokens /\ call[c].token <= Cardinality(tokens)
      /\ \A e \in entries : e.nonce \in 1..MaxTokens /\ e.nonce <= Cardinality(tokens)
      /\ resumed \in [1..MaxTokens -> 0..2]
  BY FS_CardinalityType DEF Inv, NonceInv, CallTypes, RegistryTypes, WorldTypes, Recs, Entries
<1>1. ASSUME NEW c \in Calls, Round(c) PROVE ResumedInv'
  <2>1. ASSUME NEW d \in Calls, d # c
        PROVE  /\ call'[d] = call[d]
               /\ Waiting(d)' <=> Waiting(d)
    BY <1>0, <1>1, <2>1, RoundFrame DEF Waiting
  <2>2. CASE Sends(c)
    <3>1. /\ UNCHANGED <<entries, tokens>>
          /\ At(c, "handed")
          /\ resumed' = [k \in 1..MaxTokens |->
                 IF k = call[c].token /\ resumed[k] < 2 THEN resumed[k] + 1 ELSE resumed[k]]
      BY <1>0, <2>2, SendRecord DEF Resumes, At
    <3>2. ~Waiting(c)'
      <4>1. \E n : call'[c] = [call[c] EXCEPT !.pc = "sent", !.sentOn = n]
        BY <1>0, <2>2, SendRecord
      <4>2. call'[c].pc = "sent"
        BY <1>0, <4>1 DEF CallTypes, Recs
      <4>. QED
        BY <4>2 DEF Waiting
    <3>3. call[c].token # 0 => Waiting(c)
      BY <3>1 DEF Waiting, At
    <3>4. /\ \A k \in 1..MaxTokens : k # call[c].token => resumed'[k] = resumed[k]
          /\ call[c].token # 0 => resumed'[call[c].token] = 1
      BY <1>0, <3>1, <3>3 DEF ResumedInv
    <3>5. \A t \in 1..MaxTokens : resumed'[t] <= 1 /\ (t > Cardinality(tokens) => resumed'[t] = 0)
      BY <1>0, <3>4 DEF ResumedInv
    <3>6. \A e \in entries : resumed'[e.nonce] = 0
      BY <1>0, <3>3, <3>4 DEF ResumedInv
    <3>7. ASSUME NEW d \in Calls, Waiting(d)'
          PROVE  /\ resumed'[call'[d].token] = 0
                 /\ \A e \in entries : e.nonce # call'[d].token
                 /\ \A b \in Calls : Waiting(b)' /\ call'[b].token = call'[d].token => b = d
      <4>1. d # c /\ Waiting(d) /\ call'[d] = call[d]
        BY <2>1, <3>2, <3>7
      <4>2. call[d].token # 0 /\ call[d].token # call[c].token
        BY <1>0, <3>3, <4>1 DEF ResumedInv, Waiting
      <4>3. resumed'[call[d].token] = 0
        BY <1>0, <3>4, <4>1, <4>2 DEF ResumedInv
      <4>. QED
        BY <1>0, <2>1, <3>2, <4>1, <4>3 DEF ResumedInv
    <3>. QED
      BY <3>1, <3>5, <3>6, <3>7 DEF ResumedInv
  <2>3. CASE ~Sends(c)
    <3>1. resumed' = resumed
      BY <1>1, <2>3
         DEF Round, Start, StartPlain, Admit, Lease, Reserve, Consume, Resume, ResumeRefused,
             Reopen, Queue, Fetch, FetchFails, Check, Sends, SendRefused, Answered, Asks, Lost,
             AskedSignedIn, AskedSameRoute, AskedSameConn, Park
    <3>2. CASE ~Parks(c)
      <4>1. entries' \subseteq entries /\ tokens' = tokens
        BY <1>1, <3>2, EntriesRound
      <4>2. CASE \E e \in entries : Takes(c, e)
        <5>1. PICK e \in entries : Takes(c, e)
          BY <4>2
        <5>2. entries' = entries \ {e} /\ e.nonce = call[c].token
          BY <5>1 DEF Takes
        <5>3. \A f \in entries' : f.nonce # call[c].token
          BY <1>0, <5>2 DEF NonceInv
        <5>4. Waiting(c)' => call'[c].token = call[c].token
          BY <1>1, TokenAfter
        <5>5. resumed[call[c].token] = 0 /\ \A d \in Calls : Waiting(d) => call[d].token # call[c].token
          BY <1>0, <5>2 DEF ResumedInv
        <5>. QED
          BY <1>0, <2>1, <3>1, <4>1, <5>3, <5>4, <5>5 DEF ResumedInv
      <4>3. CASE ~\E e \in entries : Takes(c, e)
        <5>1. Waiting(c)' => Waiting(c) /\ call'[c].token = call[c].token
          BY <1>1, <4>3, TokenAfter
        <5>2. \A d \in Calls : Waiting(d)' => Waiting(d) /\ call'[d].token = call[d].token
          BY <2>1, <5>1
        <5>. QED
          BY <1>0, <3>1, <4>1, <5>2 DEF ResumedInv
      <4>. QED
        BY <4>2, <4>3
    <3>3. CASE Parks(c)
      <4>. DEFINE n == Cardinality(tokens) + 1
      <4>1. Cardinality(tokens') = n /\ n \in 1..MaxTokens
        BY <3>3, TokensAfter, ParkedFits
      <4>2. entries' = entries \cup {Parked(c)} /\ Parked(c).nonce = n
        BY <3>3 DEF Parks, Parked
      <4>3. ~Waiting(c)'
        <5>1. call'[c] = Idle
          BY <1>0, <3>3 DEF Parks, CallTypes
        <5>. QED
          BY <5>1 DEF Waiting, Idle
      <4>4. resumed[n] = 0 /\ (\A d \in Calls : call[d].token # n)
        BY <1>0, <4>1 DEF ResumedInv
      <4>5. \A d \in Calls : Waiting(d)' => Waiting(d) /\ call'[d].token = call[d].token
        BY <2>1, <4>3
      <4>6. \A t \in 1..MaxTokens : t > n => t > Cardinality(tokens)
        BY <1>0
      <4>. HIDE DEF n
      <4>7. \A t \in 1..MaxTokens : resumed'[t] <= 1 /\ (t > Cardinality(tokens') => resumed'[t] = 0)
        BY <1>0, <3>1, <4>1, <4>6 DEF ResumedInv
      <4>8. \A e \in entries' : resumed'[e.nonce] = 0
        BY <1>0, <3>1, <4>2, <4>4 DEF ResumedInv
      <4>9. ASSUME NEW d \in Calls, Waiting(d)'
            PROVE  /\ resumed'[call'[d].token] = 0
                   /\ \A e \in entries' : e.nonce # call'[d].token
                   /\ \A b \in Calls : Waiting(b)' /\ call'[b].token = call'[d].token => b = d
        BY <1>0, <3>1, <4>2, <4>4, <4>5, <4>9 DEF ResumedInv
      <4>. QED
        BY <4>7, <4>8, <4>9 DEF ResumedInv
    <3>. QED
      BY <3>2, <3>3
  <2>. QED
    BY <2>2, <2>3
<1>2. CASE World
  <2>1. call' = call /\ tokens' = tokens /\ resumed' = resumed
    BY <1>2 DEF World, Expire, PassReads, PassPublishes, Clear, ConnReplaced, SessionReplaced, SessionSeen,
       ConnCloses, ConnGone, RevokeClient, RevokeOwner
  <2>2. \A c \in Calls : Waiting(c)' <=> Waiting(c)
    BY <2>1 DEF Waiting
  <2>3. \A e \in entries' : \E f \in entries : e.nonce = f.nonce
    <3>1. CASE \E f \in entries : Expire(f)
      <4>1. PICK f \in entries : entries' = (entries \ {f}) \cup {[f EXCEPT !.past = TRUE]}
        BY <3>1 DEF Expire
      <4>2. [f EXCEPT !.past = TRUE].nonce = f.nonce
        BY <1>0 DEF RegistryTypes, Entries
      <4>. QED
        BY <4>1, <4>2
    <3>2. CASE entries' \subseteq entries
      BY <3>2
    <3>. QED
      BY <1>2, <3>1, <3>2 DEF World, PassReads, PassPublishes, Clear, ConnReplaced, SessionReplaced, SessionSeen,
         ConnCloses, ConnGone, RevokeClient, RevokeOwner
  <2>. QED
    BY <1>0, <2>1, <2>2, <2>3 DEF ResumedInv
<1>. QED
  BY <1>1, <1>2 DEF Next

-----------------------------------------------------------------------------
(* The theorems. *)

LEMMA InitInv == Init => Inv
<1>. SUFFICES ASSUME Init PROVE Inv
  OBVIOUS
<1>. USE Bounds, NoneIsNothing DEF Init
<1>1. CallTypes
  BY IdleType DEF CallTypes
<1>2. RegistryTypes
  BY DEF RegistryTypes
<1>3. WorldTypes /\ WorldInv
  BY DEF WorldTypes, WorldInv, Conns
<1>4. ASSUME NEW c \in Calls PROVE CallInv(c) /\ RouteInv(c) /\ HeldInv(c)
  <2>1. call[c] = Idle
    OBVIOUS
  <2>. HIDE DEF Init
  <2>2. /\ Idle.pc = "idle" /\ Idle.owner = None /\ Idle.route = None /\ Idle.resv = None
    BY DEF Idle
  <2>3. CallInv(c)
    BY <2>1, <2>2 DEF CallInv, At, Early, Going, Asking
  <2>4. RouteInv(c) /\ HeldInv(c)
    BY <2>1, <2>2 DEF RouteInv, HeldInv
  <2>. QED
    BY <2>3, <2>4
<1>5. \A e \in entries : EntryInv(e)
  OBVIOUS
<1>6. ASSUME NEW o \in Owners
      PROVE  Held(o) = {} /\ Leased(o) = {} /\ Theirs(entries, o) = {} /\ Reservations(o) = 0
  BY DEF Held, Leased, Theirs, Reservations, Idle, At
<1>7. Cardinality({}) = 0 /\ IsFiniteSet({})
  BY FS_EmptySet
<1>8. ASSUME NEW o \in Owners
      PROVE  /\ Reservations(o) = Count(entries, o) + Cardinality(Held(o))
             /\ Leases(entries, o) <= Quota
  <2>1. Count(entries, o) = 0 /\ Cardinality(Held(o)) = 0 /\ Cardinality(Leased(o)) = 0
    BY <1>6, <1>7 DEF Count, Theirs
  <2>2. Leases(entries, o) = Count(entries, o) + Cardinality(Leased(o))
    BY DEF Leases, Leased
  <2>. HIDE DEF Init
  <2>. QED
    BY <1>6, <2>1, <2>2
<1>9. LedgerInv /\ QuotaInv
  BY <1>7, <1>8 DEF LedgerInv, QuotaInv
<1>10. NonceInv
  BY <1>7 DEF NonceInv, Idle
<1>11. ResumedInv
  BY <1>7 DEF ResumedInv, Waiting, Idle
<1>. QED
  BY <1>1, <1>2, <1>3, <1>4, <1>5, <1>9, <1>10, <1>11 DEF Inv

LEMMA InvStep == Inv /\ [Next]_vars => Inv'
<1>. SUFFICES ASSUME Inv, [Next]_vars PROVE Inv'
  OBVIOUS
<1>1. CASE Next
  BY <1>1, KnownStep, RegistryTypesStep, HeldStep, EntryStep, NonceStep, ResumedStep DEF Inv
<1>2. CASE UNCHANGED vars
  <2>. USE <1>2 DEF vars, Inv
  <2>1. CallTypes' /\ RegistryTypes' /\ WorldTypes' /\ WorldInv'
    BY DEF CallTypes, RegistryTypes, WorldTypes, WorldInv
  <2>2. \A c \in Calls : CallInv(c)' /\ RouteInv(c)' /\ HeldInv(c)'
    BY DEF CallInv, RouteInv, HeldInv, At, Old
  <2>3. \A e \in entries' : EntryInv(e)'
    BY DEF EntryInv
  <2>4. LedgerInv' /\ QuotaInv'
    BY DEF LedgerInv, QuotaInv, Held, Reservations, Leases, At, Count
  <2>5. NonceInv' /\ ResumedInv'
    BY DEF NonceInv, ResumedInv, Waiting
  <2>. QED
    BY <2>1, <2>2, <2>3, <2>4, <2>5
<1>. QED
  BY <1>1, <1>2

\* The inductive invariant: every call's record, the registry, the ledger and the tokens
\* agree after every step of a round (call_tool_round_with_context, call_tool_inner,
\* reserve_at, consume, insert_reserved) and of what moves under it.
THEOREM ContinuationsInvariant == Spec => []Inv
BY InitInv, InvStep, PTL DEF Spec

\* No owner ever has more leases than its quota, and the ledger has exactly the
\* reservations its calls and entries hold (reserve_at, Drop for ContinuationReservation).
THEOREM LedgerExact == Spec => []LedgerIsExact
<1>1. Inv => LedgerIsExact
  <2>. SUFFICES ASSUME Inv PROVE LedgerIsExact
    OBVIOUS
  <2>1. TypeOK
    BY DEF Inv, CallTypes, RegistryTypes, WorldTypes, QuotaInv, TypeOK, Recs, Entries, OwnerStates
  <2>2. \A o \in Owners : Reservations(o) = Count(entries, o) + Cardinality(Held(o))
    BY DEF Inv, LedgerInv
  <2>. QED
    BY <2>1, <2>2 DEF LedgerIsExact, Reservations, Held
<1>. QED
  BY <1>1, ContinuationsInvariant, PTL

\* What is parked was parked under the routes that are published now, and nothing of an
\* owner whose revocation is complete is parked (publish_with_invalidation,
\* revoke_owner_key, insert_reserved).
THEOREM ParkedValid == Spec => []ParkedIsValid
<1>1. Inv => ParkedIsValid
  BY DEF Inv, EntryInv, ParkedIsValid
<1>. QED
  BY <1>1, ContinuationsInvariant, PTL

\* Answers go out by the connection they were asked on, and on the session unless the
\* transport has a new one that plug had not noticed when it checked the route; and a
\* token's state is sent on at most once (call_tool_inner's expected_route, consume).
THEOREM SentOnce == Spec => []SentOnceWhereAsked
<1>1. Inv => SentOnceWhereAsked
  <2>. SUFFICES ASSUME Inv PROVE SentOnceWhereAsked
    OBVIOUS
  <2>1. ASSUME NEW c \in Calls, At(c, "sent"), call[c].token # 0
        PROVE  /\ call[c].conn.gen = call[c].askedOn
               /\ call[c].sentOn = call[c].askedOn \/ call[c].sentOn # call[c].seen
    <3>0. CallInv(c) /\ RouteInv(c) /\ call[c] \in Recs
      BY DEF Inv, CallTypes
    <3>1. call[c].plain = FALSE
      BY <2>1, <3>0 DEF CallInv, Going, At, Recs
    <3>2. call[c].route \in Routes /\ call[c].askedOn = call[c].route.upgen
      BY <2>1, <3>0, <3>1 DEF CallInv, Going, At
    <3>3. call[c].conn.gen = call[c].route.upgen /\ call[c].seen = call[c].route.upgen
      BY <2>1, <3>0, <3>2, NoneIsNothing DEF RouteInv, At
    <3>. QED
      BY <3>2, <3>3
  <2>2. \A t \in 1..MaxTokens : resumed[t] <= 1
    BY DEF Inv, ResumedInv
  <2>. QED
    BY <2>1, <2>2, Zenon DEF SentOnceWhereAsked
<1>. QED
  BY <1>1, ContinuationsInvariant, PTL

=============================================================================
