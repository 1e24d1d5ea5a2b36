--------------------------- MODULE DownstreamOAuth ---------------------------
(***************************************************************************)
(* The authorization server for downstream clients (plug-core              *)
(* downstream_oauth/mod.rs).                                               *)
(*                                                                         *)
(* Every handler works on a copy of the state under one mutex and commits   *)
(* it: the state file is written and renamed, then the copy becomes the     *)
(* live state.  A commit may fail with nothing changed, or rename the file  *)
(* and not be able to make the rename durable; the manager then refuses     *)
(* work until a directory sync succeeds.  A restart loads the file, or,     *)
(* after a power loss, what was durable.                                   *)
(*                                                                         *)
(* A flow is one authorization: consent, code and token family carry its   *)
(* number.  A pair is an access and a refresh token issued together.        *)
(* Requests check the client in one critical section and act in a later    *)
(* one.                                                                    *)
(***************************************************************************)
EXTENDS Integers, FiniteSets, FiniteSetsExt

CONSTANTS
    Clients,        \* client ids
    Dynamic,        \* the ones given out by register_client; others name a document
    Requests,       \* requests that are between two critical sections
    MaxAccess,      \* MAX_ACCESS_TOKENS_PER_CLIENT
    MaxFlows,       \* bound: authorizations begun
    MaxPairs,       \* bound: token pairs issued
    MaxFaults       \* bound: commits that fail or stay uncertain

ASSUME OAuthAssumption ==
    /\ Dynamic \subseteq Clients /\ IsFiniteSet(Clients)
    /\ MaxAccess \in Nat \ {0}
    /\ MaxFlows \in Nat /\ MaxPairs \in Nat /\ MaxFaults \in Nat

VARIABLES
    live,           \* DownstreamOauthState in memory, which is the file's too
    disk,           \* what a power loss would leave of the file
    degraded,       \* durability_degraded
    life,           \* client -> its entry in principal_lifecycles
    seen,           \* families with an entry in family_ended
    ended,          \* ... whose sign-in is marked ended
    leases,         \* leases that are active, as client and family
    req,            \* request -> where it is
    past,           \* records whose lifetime is over
    who,            \* flow -> the client that began it; the flows so far are its domain
    family,         \* pair -> its family; the pairs so far are its domain
    faults,         \* faults so far
    spent,          \* history: one-use records answered as used
    dismissed,      \* history: clients whose revocation was answered with success
    shut            \* history: clients deactivated by a commit that was not durable, and by what

memory == <<life, seen, ended, leases>>
issued == <<who, family>>
history == <<spent, dismissed, shut>>
vars == <<live, disk, degraded, memory, req, past, issued, faults, history>>

Flows == 1..MaxFlows
Pairs == 1..MaxPairs
Fresh == [clients |-> [c \in Clients |-> "none"], revoked |-> {}, pending |-> {},
          ceremony |-> {}, codes |-> {},
          access |-> {}, refresh |-> {}, consumed |-> {}]
NoRequest == [pc |-> "idle", client |-> "nobody"]

\* The owner's passkey is enrolled, and no client has registered.
Init ==
    /\ live = Fresh
    /\ disk = live /\ degraded = FALSE
    /\ life = [c \in Clients |-> "none"]
    /\ seen = {} /\ ended = {} /\ leases = {}
    /\ req = [r \in Requests |-> NoRequest]
    /\ past = {}
    /\ who = << >> /\ family = << >>
    /\ faults = 0
    /\ spent = {} /\ dismissed = {} /\ shut = {}

-----------------------------------------------------------------------------
(* Records and their lifetimes *)

Consent(f) == <<"consent", f>>
Code(f) == <<"code", f>>
Access(p) == <<"access", p>>
Refresh(p) == <<"refresh", p>>
ClientOf(p) == who[family[p]]
PairsOf(c) == {p \in DOMAIN family : ClientOf(p) = c}

Lapsed(st) == {c \in Clients : st.clients[c] = "expired"}

\* evict_expired
Evict(st) ==
    LET gone == Lapsed(st) IN
    [st EXCEPT
        !.clients = [c \in Clients |-> IF c \in gone THEN "none" ELSE @[c]],
        !.pending = {f \in @ : Consent(f) \notin past},
        !.codes = {f \in @ : Code(f) \notin past},
        !.access = {p \in @ : Access(p) \notin past /\ ClientOf(p) \notin gone},
        !.refresh = {p \in @ : Refresh(p) \notin past /\ ClientOf(p) \notin gone},
        !.ceremony = {f \in @ : f \in st.pending /\ Consent(f) \notin past}]

\* evict_expired_owner_records alone, as owner handlers call it.
EvictOwner(st) ==
    [st EXCEPT !.ceremony = @ \cap st.pending]

\* prune_consumed_refresh_tokens: a tombstone lives as long as a refresh token.
Prune(st) == [st EXCEPT !.consumed = {p \in @ : Refresh(p) \notin past}]

\* remove_client_material
Without(st, c) ==
    [st EXCEPT
        !.clients[c] = "none",
        !.pending = {f \in @ : who[f] # c},
        !.codes = {f \in @ : who[f] # c},
        !.access = @ \ PairsOf(c), !.refresh = @ \ PairsOf(c)]

\* issue_token_pair: the oldest access tokens make room.
IssuePair(st, c, f) ==
    LET new == Cardinality(DOMAIN family) + 1
        own == st.access \cap PairsOf(c)
        stays == {p \in own : Cardinality({q \in own : q > p}) < MaxAccess - 1} IN
    /\ new \in Pairs
    /\ family' = [p \in 1..new |-> IF p = new THEN f ELSE family[p]]
    /\ live' = [st EXCEPT !.access = (@ \ own) \cup stays \cup {new}, !.refresh = @ \cup {new}]

-----------------------------------------------------------------------------
(* commit_state: `answer' is what the handler then tells its caller. *)

Answers == {"ok", "uncertain", "failed"}

\* Mutant: success is answered without syncing the directory.
CommittedUnsynced(answer) ==
    /\ faults' = IF answer = "ok" THEN faults ELSE faults + 1
    /\ faults' <= MaxFaults
    /\ answer = "ok" => ~degraded /\ disk' \in {disk, live'} /\ UNCHANGED degraded
    /\ answer = "uncertain" => ~degraded /\ degraded' = TRUE /\ UNCHANGED disk

\* What a commit of live' does to the rest; a failed one must leave live alone.
Committed(answer) ==
    /\ faults' = IF answer = "ok" THEN faults ELSE faults + 1
    /\ faults' <= MaxFaults
    /\ answer = "ok" => ~degraded /\ disk' = live' /\ UNCHANGED degraded
    /\ answer = "uncertain" => ~degraded /\ degraded' = TRUE /\ UNCHANGED disk

Commit(next, answer) ==
    \/ /\ answer # "failed" /\ live' = next
       /\ Committed(answer)
    \/ /\ answer = "failed"
       /\ faults < MaxFaults /\ faults' = faults + 1
       /\ UNCHANGED <<live, disk, degraded>>

\* ensure_durable of a later request.
Resync ==
    /\ degraded
    /\ degraded' = FALSE /\ disk' = live
    /\ UNCHANGED <<live, memory, req, past, issued, faults, history>>

\* The lifecycles of clients a commit evicts are deactivated before it and
\* removed after it; `insert' is put in afterwards unless it is there.
Lifecycles(gone, insert, answer) ==
    LET deactivated == [c \in Clients |-> IF c \in gone /\ life[c] # "none"
                                          THEN "inactive" ELSE life[c]]
        removed == [c \in Clients |-> IF c \in gone THEN "none" ELSE deactivated[c]] IN
    /\ life' = CASE answer # "ok" -> deactivated
                 [] OTHER -> [c \in Clients |->
                        IF c \in insert /\ removed[c] = "none" THEN "active" ELSE removed[c]]
    /\ leases' = {l \in leases : l.client \notin gone}
    /\ shut' = CASE answer = "uncertain" ->
                        shut \cup (gone \X {"eviction"}) \cup (insert \X {"insertion"})
                 [] answer = "failed" -> shut \cup (gone \X {"unsaved"})
                 [] OTHER -> {x \in shut : life'[x[1]] # "active"}

-----------------------------------------------------------------------------
(* Registration and revocation of clients *)

\* A client learns its id from the answer to its registration.
Knows(c) == c \in Dynamic => <<c, "insertion">> \notin shut

RegisterClient(c, answer) ==
    LET next == Evict(live) IN
    /\ c \in Dynamic /\ life[c] = "none" /\ c \notin live.revoked
    /\ live.clients[c] = "none" /\ \A f \in DOMAIN who : who[f] # c
    /\ Commit([next EXCEPT !.clients[c] = "live"], answer)
    /\ Lifecycles(Lapsed(live), {c}, answer)
    /\ UNCHANGED <<seen, ended, req, past, issued, spent, dismissed>>

\* Mutant: the lease is invalidated once the removal is durable.
RevokeClientThenDeactivate(c, answer) ==
    /\ live.clients[c] # "none"
    /\ Commit([Without(live, c) EXCEPT !.revoked = @ \cup {c}], answer)
    /\ life' = [life EXCEPT ![c] = IF answer = "ok" THEN "none" ELSE @]
    /\ leases' = {l \in leases : answer = "ok" => l.client # c}
    /\ dismissed' = IF answer = "ok" THEN dismissed \cup {c} ELSE dismissed
    /\ UNCHANGED <<seen, ended, req, past, issued, spent, shut>>

\* The lease is invalidated before anything is saved.
RevokeClient(c, answer) ==
    /\ live.clients[c] # "none"
    /\ Commit([Without(live, c) EXCEPT !.revoked = @ \cup {c}], answer)
    /\ life' = [life EXCEPT ![c] = IF answer = "ok" \/ @ = "none" THEN "none" ELSE "inactive"]
    /\ leases' = {l \in leases : l.client # c}
    /\ shut' = IF answer = "ok" THEN {x \in shut : x[1] # c} ELSE shut \cup {<<c, "revocation">>}
    /\ dismissed' = IF answer = "ok" THEN dismissed \cup {c} ELSE dismissed
    /\ UNCHANGED <<seen, ended, req, past, issued, spent>>

\* ensure_client before its fetch.
EnsureClient(r, c) ==
    /\ req[r].pc = "idle" /\ Knows(c) /\ c \notin live.revoked
    /\ c \in Dynamic => live.clients[c] = "live"
    /\ req' = [req EXCEPT ![r] = [client |-> c, pc |-> CASE c \in Dynamic -> "begin"
                                       [] c \notin Dynamic /\ live.clients[c] = "live" -> "refetch"
                                       [] OTHER -> "fetch"]]
    /\ UNCHANGED <<live, disk, degraded, memory, past, issued, faults, history>>

Fetching(r) == req[r].pc \in {"fetch", "refetch"}

\* The document could not be fetched; a client that was registered goes on with it.
FetchFails(r) ==
    /\ Fetching(r)
    /\ req' = [req EXCEPT ![r] = IF req[r].pc = "refetch"
                                 THEN [@ EXCEPT !.pc = "begin"] ELSE NoRequest]
    /\ UNCHANGED <<live, disk, degraded, memory, past, issued, faults, history>>

FetchRevoked(r) ==
    /\ Fetching(r) /\ req[r].client \in live.revoked
    /\ req' = [req EXCEPT ![r] = NoRequest]
    /\ UNCHANGED <<live, disk, degraded, memory, past, issued, faults, history>>

\* Mutant: the revocation is not looked at again after the fetch.
FetchedUnchecked(r, answer) ==
    LET c == req[r].client IN
    /\ Fetching(r)
    /\ Commit([Evict(live) EXCEPT !.clients[c] = "live"], answer)
    /\ Lifecycles(Lapsed(live), {c}, answer)
    /\ req' = [req EXCEPT ![r] = IF answer = "ok" THEN [@ EXCEPT !.pc = "begin"] ELSE NoRequest]
    /\ UNCHANGED <<seen, ended, past, issued, spent, dismissed>>

Fetched(r, answer) ==
    LET c == req[r].client IN
    /\ Fetching(r) /\ c \notin live.revoked
    /\ Commit([Evict(live) EXCEPT !.clients[c] = "live"], answer)
    /\ Lifecycles(Lapsed(live), {c}, answer)
    /\ req' = [req EXCEPT ![r] = IF answer = "ok" THEN [@ EXCEPT !.pc = "begin"] ELSE NoRequest]
    /\ UNCHANGED <<seen, ended, past, issued, spent, dismissed>>

-----------------------------------------------------------------------------
(* Consent and code *)

BeginAuthorization(r, answer) ==
    LET c == req[r].client
        f == Cardinality(DOMAIN who) + 1
        next == Evict(live) IN
    /\ req[r].pc = "begin" /\ next.clients[c] = "live" /\ f \in Flows
    /\ Commit([next EXCEPT !.pending = @ \cup {f}], answer)
    /\ who' = [g \in 1..f |-> IF g = f THEN c ELSE who[g]]
    /\ Lifecycles(Lapsed(live), {}, answer)
    /\ req' = [req EXCEPT ![r] = NoRequest]
    /\ UNCHANGED <<seen, ended, past, family, spent, dismissed>>

BeginRefused(r) ==
    /\ req[r].pc = "begin" /\ Evict(live).clients[req[r].client] # "live"
    /\ req' = [req EXCEPT ![r] = NoRequest]
    /\ UNCHANGED <<live, disk, degraded, memory, past, issued, faults, history>>

ConsentOnly == UNCHANGED <<memory, req, past, issued, dismissed, shut>>

\* expire_consent
ExpireConsent(f, answer) ==
    /\ f \in live.pending /\ Consent(f) \in past
    /\ Commit([live EXCEPT !.pending = @ \ {f}, !.ceremony = @ \ {f}], answer)
    /\ ConsentOnly /\ UNCHANGED spent

StartOwnerApproval(f, answer) ==
    /\ f \in live.pending /\ Consent(f) \notin past
    /\ Commit([EvictOwner(live) EXCEPT !.ceremony = @ \cup {f}], answer)
    /\ ConsentOnly /\ UNCHANGED spent

\* finish_owner_approval with an assertion that is not accepted.
RejectOwnerApproval(f, answer) ==
    /\ f \in live.ceremony
    /\ Commit([live EXCEPT !.ceremony = @ \ {f}], answer)
    /\ ConsentOnly /\ UNCHANGED spent

\* issue_code_for_consent, which also renews the registration.
IssueCode(f) ==
    [live EXCEPT !.pending = @ \ {f}, !.ceremony = @ \ {f}, !.codes = @ \cup {f},
                 !.clients[who[f]] = IF @ = "none" THEN @ ELSE "live"]

\* finish_owner_approval with one that is accepted.
FinishOwnerApproval(f, answer) ==
    /\ f \in live.ceremony \cap live.pending /\ Consent(f) \notin past
    /\ Commit(IssueCode(f), answer)
    /\ ConsentOnly
    /\ spent' = IF answer = "ok" THEN spent \cup {Consent(f)} ELSE spent

DenyConsent(f, answer) ==
    /\ f \in live.pending /\ Consent(f) \notin past
    /\ Commit([live EXCEPT !.pending = @ \ {f}, !.ceremony = @ \ {f}], answer)
    /\ ConsentOnly
    /\ spent' = IF answer = "ok" THEN spent \cup {Consent(f)} ELSE spent

-----------------------------------------------------------------------------
(* Tokens *)

\* validate_public_client
ValidateClient(r, c) ==
    /\ req[r].pc = "idle" /\ Knows(c) /\ live.clients[c] = "live"
    /\ req' = [req EXCEPT ![r] = [pc |-> "grant", client |-> c]]
    /\ UNCHANGED <<live, disk, degraded, memory, past, issued, faults, history>>

\* What an exchange that issues a pair does: commit, and answer.
Granting(r, st, f, used, answer) ==
    /\ \/ /\ answer # "failed"
          /\ IssuePair(st, req[r].client, f)
          /\ Committed(answer)
       \/ /\ answer = "failed"
          /\ faults < MaxFaults /\ faults' = faults + 1
          /\ UNCHANGED <<live, disk, degraded, family>>
    /\ spent' = IF answer = "ok" THEN spent \cup used ELSE spent
    /\ req' = [req EXCEPT ![r] = NoRequest]
    /\ UNCHANGED <<memory, past, who, dismissed, shut>>

ExchangeAuthorizationCode(r, f, answer) ==
    /\ req[r].pc = "grant" /\ f \in live.codes /\ Code(f) \notin past
    /\ who[f] = req[r].client
    /\ Granting(r, [live EXCEPT !.codes = @ \ {f}], f, {Code(f)}, answer)

\* exchange_refresh_token: the rotation also renews the registration.
ExchangeRefreshToken(r, p, answer) ==
    LET c == req[r].client IN
    /\ req[r].pc = "grant" /\ p \in live.refresh /\ Refresh(p) \notin past
    /\ ClientOf(p) = c
    /\ Granting(r, [Prune(live) EXCEPT !.refresh = @ \ {p}, !.consumed = @ \cup {p},
                                       !.clients[c] = IF @ = "none" THEN @ ELSE "live"],
                family[p], {Refresh(p)}, answer)

\* A spent token again, while the family has a live one.
Siblings(p) == {q \in live.refresh : family[q] = family[p]}

ReuseRefreshToken(r, p, answer) ==
    /\ req[r].pc = "grant" /\ p \in live.consumed \ live.refresh
    /\ ClientOf(p) = req[r].client /\ Refresh(p) \notin past
    /\ Siblings(p) # {}
    /\ Granting(r, live, family[p], {}, answer)

\* revoke_token_family
WithoutFamily(f) ==
    LET kin == {q \in DOMAIN family : family[q] = f} IN
    [live EXCEPT !.access = @ \ kin, !.refresh = @ \ kin, !.consumed = @ \ kin]

\* ... and otherwise: the sign-in is marked ended and the family revoked.
ReplayRefreshToken(r, p, answer) ==
    LET f == family[p] IN
    /\ req[r].pc = "grant" /\ p \in live.consumed \ live.refresh
    /\ Siblings(p) = {} \/ ClientOf(p) # req[r].client \/ Refresh(p) \in past
    /\ ended' = ended \cup (seen \cap {f})
    /\ leases' = {l \in leases : l.family # f}
    /\ Commit(WithoutFamily(f), answer)
    /\ spent' = IF answer = "ok" THEN spent \cup {<<"family", f>>} ELSE spent
    /\ req' = [req EXCEPT ![r] = NoRequest]
    /\ UNCHANGED <<life, seen, past, issued, dismissed, shut>>

\* Nothing the request names is there any more, or it is another client's.
GrantRefused(r) ==
    /\ req[r].pc = "grant"
    /\ req' = [req EXCEPT ![r] = NoRequest]
    /\ UNCHANGED <<live, disk, degraded, memory, past, issued, faults, history>>

\* validate_access_token_for, when it admits the caller: it takes a lease.
Admits(p) ==
    /\ ~degraded
    /\ p \in live.access /\ Access(p) \notin past
    /\ live.clients[ClientOf(p)] # "none" /\ life[ClientOf(p)] = "active"
    /\ family[p] \notin ended

ValidateAccessToken(p) ==
    /\ Admits(p)
    /\ seen' = seen \cup {family[p]}
    /\ leases' = leases \cup {[client |-> ClientOf(p), family |-> family[p]]}
    /\ UNCHANGED <<live, disk, degraded, life, ended, req, past, issued, faults, history>>

-----------------------------------------------------------------------------
(* Time, restarts *)

\* A sign-in lasts as long as the last refresh token issued under it.
Lasting(l, over) == \E p \in DOMAIN family : family[p] = l.family /\ Refresh(p) \notin over

TimePasses(x) ==
    /\ past' = past \cup {x}
    /\ leases' = {l \in leases : Lasting(l, past')}
    /\ UNCHANGED <<live, disk, degraded, life, seen, ended, req, issued, faults, history>>

\* Only the lifetimes of records that are somewhere matter.
Kept(x, S, T) == x \in S \cup T

ExpireConsentTime(f) ==
    Kept(f, live.pending, disk.pending) /\ Consent(f) \notin past /\ TimePasses(Consent(f))
ExpireCode(f) ==
    Kept(f, live.codes, disk.codes) /\ Code(f) \notin past /\ TimePasses(Code(f))
ExpireAccess(p) ==
    Kept(p, live.access, disk.access) /\ Access(p) \notin past /\ TimePasses(Access(p))
\* An access token does not outlive the refresh token it came with.
ExpireRefresh(p) ==
    /\ Kept(p, live.refresh \cup live.consumed, disk.refresh \cup disk.consumed)
    /\ ~Kept(p, live.access, disk.access) \/ Access(p) \in past
    /\ Refresh(p) \notin past /\ TimePasses(Refresh(p))

\* A registration outlives every code and token issued under it, and one that a
\* document renewed before the consent outlives that too.
ExpireRegistration(c) ==
    /\ live.clients[c] = "live"
    /\ \A p \in PairsOf(c) : Refresh(p) \in past
    /\ \A f \in live.codes \cup disk.codes : who[f] = c => Code(f) \in past
    /\ c \notin Dynamic =>
         \A f \in live.pending \cup disk.pending : who[f] = c => Consent(f) \in past
    /\ live' = [live EXCEPT !.clients[c] = "expired"]
    /\ disk' = [disk EXCEPT !.clients[c] = IF @ = "live" THEN "expired" ELSE @]
    /\ UNCHANGED <<degraded, memory, req, past, issued, faults, history>>

\* load_persisted_state: what is past its lifetime is dropped.
Load(st) == Prune(Evict(st))

Restart ==
    /\ \E st \in {live, disk} : live' = Load(st) /\ disk' = st
    /\ degraded' = FALSE
    /\ life' = [c \in Clients |-> IF live'.clients[c] # "none" THEN "active" ELSE "none"]
    /\ seen' = {} /\ ended' = {} /\ leases' = {}
    /\ req' = [r \in Requests |-> NoRequest]
    /\ shut' = {}
    /\ UNCHANGED <<past, issued, faults, spent, dismissed>>

-----------------------------------------------------------------------------
Owner(answer) ==
    \/ \E f \in DOMAIN who :
        \/ StartOwnerApproval(f, answer) \/ RejectOwnerApproval(f, answer)
        \/ FinishOwnerApproval(f, answer) \/ DenyConsent(f, answer)
        \/ ExpireConsent(f, answer)

Client(answer) ==
    \/ \E c \in Clients : RegisterClient(c, answer) \/ RevokeClient(c, answer)
    \/ \E r \in Requests :
        \/ Fetched(r, answer) \/ BeginAuthorization(r, answer)
        \/ \E f \in DOMAIN who : ExchangeAuthorizationCode(r, f, answer)
        \/ \E p \in DOMAIN family :
            \/ ExchangeRefreshToken(r, p, answer)
            \/ ReuseRefreshToken(r, p, answer) \/ ReplayRefreshToken(r, p, answer)

Time ==
    \/ \E f \in DOMAIN who : ExpireConsentTime(f) \/ ExpireCode(f)
    \/ \E p \in DOMAIN family : ExpireAccess(p) \/ ExpireRefresh(p)
    \/ \E c \in Clients : ExpireRegistration(c)

Next ==
    \/ \E answer \in Answers : Owner(answer) \/ Client(answer)
    \/ \E r \in Requests :
        \/ FetchFails(r) \/ FetchRevoked(r) \/ BeginRefused(r) \/ GrantRefused(r)
        \/ \E c \in Clients : EnsureClient(r, c) \/ ValidateClient(r, c)
    \/ \E p \in DOMAIN family : ValidateAccessToken(p)
    \/ Resync \/ Restart \/ Time

Spec == Init /\ [][Next]_vars

-----------------------------------------------------------------------------
(* Properties *)

Files ==
    [clients : [Clients -> {"none", "live", "expired"}], revoked : SUBSET Clients,
     pending : SUBSET DOMAIN who, ceremony : SUBSET DOMAIN who,
     codes : SUBSET DOMAIN who, access : SUBSET DOMAIN family,
     refresh : SUBSET DOMAIN family, consumed : SUBSET DOMAIN family]
Sequenced(f, n, S) == \E k \in 0..n : f \in [1..k -> S]

\* Types, and: the file is what memory holds unless durability is in doubt,
\* no refresh token is both live and spent, and codes and consents exclude
\* each other.
TypeOK ==
    /\ Sequenced(who, MaxFlows, Clients) /\ Sequenced(family, MaxPairs, DOMAIN who)
    /\ live \in Files /\ disk \in Files
    /\ degraded \in BOOLEAN
    /\ life \in [Clients -> {"none", "active", "inactive"}]
    /\ ended \subseteq seen /\ seen \subseteq DOMAIN who
    /\ leases \subseteq [client : Clients, family : DOMAIN who]
    /\ \A st \in {live, disk} : /\ st.refresh \cap st.consumed = {}
                                /\ st.pending \cap st.codes = {}

\* What a caller was told was used up is not there to be used as it was, in this
\* process or in one started after a power loss: an approved or denied consent is
\* not open, an exchanged code is not held, and of a family that was revoked because
\* a spent token came back no token is left, current or spent.  A rotated refresh
\* token is never again a current one: it cannot be rotated a second time, nor keep
\* its family's sign-in alive.  (It may still get another pair, for as long as its
\* family has a current token and the leeway lasts: ReuseRefreshToken.)
SpentStaysSpent ==
    /\ TypeOK
    /\ \A st \in {live, disk} :
           /\ \A f \in DOMAIN who :
               /\ Consent(f) \in spent => f \notin st.pending
               /\ Code(f) \in spent => f \notin st.codes
               /\ <<"family", f>> \in spent =>
                    \A p \in st.access \cup st.refresh \cup st.consumed : family[p] # f
           /\ \A p \in DOMAIN family : Refresh(p) \in spent => p \notin st.refresh

\* A client whose revocation was answered with success has no registration, no
\* consent, code or token, in memory or on disk, and no open work: not even a
\* metadata fetch or a grant that was under way brings any of it back.
RevokedStaysOut ==
    \A c \in dismissed :
        /\ \A st \in {live, disk} :
            /\ st.clients[c] = "none"
            /\ \A f \in st.pending \cup st.codes : who[f] # c
            /\ (st.access \cup st.refresh) \cap PairsOf(c) = {}
        /\ \A l \in leases : l.client # c

\* Admission is exact.  Work goes on only under a client that is registered and
\* whose lifecycle is the one it was admitted under, and a sign-in that was not
\* revoked, even when the save of the removal failed or stayed uncertain; and a
\* registered client is let in, but for one whose removal did not become durable
\* when it was asked for.
AdmissionIsExact ==
    /\ \A l \in leases :
          /\ live.clients[l.client] # "none" /\ life[l.client] = "active"
          /\ l.family \notin ended
    /\ \A c \in Clients :
          live.clients[c] = "live" /\ ~degraded =>
              life[c] = "active" \/ \E x \in shut : x[1] = c

=============================================================================
