-------------------------- MODULE StoredStateProofs --------------------------
(***************************************************************************)
(* Proofs about the two models of state on disk: DownstreamOAuth, for any  *)
(* finite set of clients, requests, limit of access tokens and number of   *)
(* flows, pairs and faults, and OperatorConfig, for any servers, account   *)
(* copies and keys, any room in the watcher's channel and any number of    *)
(* changes, reloads, saves and failures.                                   *)
(***************************************************************************)
EXTENDS DownstreamOAuth, OperatorConfig, FiniteSetTheorems, TLAPS

(* What a file of the state may hold, whichever process or power loss left it.  The
   world it is read in is a parameter, as a step changes the file and the world. *)

FilesOf(w, fam) ==
    [clients : [Clients -> {"none", "live", "expired"}], revoked : SUBSET Clients,
     pending : SUBSET DOMAIN w, ceremony : SUBSET DOMAIN w,
     codes : SUBSET DOMAIN w, access : SUBSET DOMAIN fam,
     refresh : SUBSET DOMAIN fam, consumed : SUBSET DOMAIN fam]

Tokens(st) == st.access \cup st.refresh \cup st.consumed

\* A flow is in one stage: consent, code, or a family of tokens.
OneStage(st, fam) ==
    /\ st.refresh \cap st.consumed = {}
    /\ st.pending \cap st.codes = {}
    /\ \A p \in Tokens(st) : fam[p] \notin st.pending \cup st.codes

\* Whatever was answered as used is in no stage that is before its use.
NotBefore(st, fam, sp) ==
    /\ \A f : Consent(f) \in sp => f \notin st.pending
    /\ \A f : Code(f) \in sp => f \notin st.pending \cup st.codes
    /\ \A f : <<"family", f>> \in sp =>
          f \notin st.pending \cup st.codes /\ \A p \in Tokens(st) : fam[p] # f
    /\ \A p : Refresh(p) \in sp => p \notin st.refresh

\* A dismissed client is marked revoked, and nothing of it is left to act with.
Dismissed(st, w, fam, di) ==
    \A c \in di :
        /\ c \in st.revoked /\ st.clients[c] = "none"
        /\ \A f \in st.pending \cup st.codes : w[f] # c
        /\ \A p \in st.access \cup st.refresh : w[fam[p]] # c

Sound(st, w, fam, sp, di) ==
    /\ st \in FilesOf(w, fam) /\ OneStage(st, fam)
    /\ NotBefore(st, fam, sp) /\ Dismissed(st, w, fam, di)

\* Flows and pairs are numbered in order, and only what was issued is spent.
World(w, fam, sp, di) ==
    /\ Sequenced(w, MaxFlows, Clients) /\ Sequenced(fam, MaxPairs, DOMAIN w)
    /\ \A f : Consent(f) \in sp \/ Code(f) \in sp \/ <<"family", f>> \in sp => f \in DOMAIN w
    /\ \A p : Refresh(p) \in sp => p \in DOMAIN fam
    /\ di \subseteq Clients

States == {"none", "active", "inactive"}
Leases(w) == [client : Clients, family : DOMAIN w]

\* A lifecycle is inactive, or a registered client has none, only while a removal of
\* the client that did not become durable is remembered.
Covered(st, lf, sh) ==
    \A c \in Clients :
        /\ lf[c] = "inactive" => \E x \in sh : x[1] = c
        /\ st.clients[c] # "none" => lf[c] = "active" \/ \E x \in sh : x[1] = c

Working(st, lf, en, ls) ==
    \A l \in ls : st.clients[l.client] # "none" /\ lf[l.client] = "active" /\ l.family \notin en

MemoryInv ==
    /\ degraded \in BOOLEAN
    /\ life \in [Clients -> States]
    /\ ended \subseteq seen /\ seen \subseteq DOMAIN who
    /\ leases \subseteq Leases(who)
    /\ Working(live, life, ended, leases)
    /\ Covered(live, life, shut)

RequestInv ==
    /\ req \in [Requests -> [pc : {"idle", "fetch", "refetch", "begin", "grant"},
                             client : Clients \cup {"nobody"}]]
    /\ \A r \in Requests : req[r].pc # "idle" => req[r].client \in Clients

Inv ==
    /\ World(who, family, spent, dismissed)
    /\ Sound(live, who, family, spent, dismissed)
    /\ Sound(disk, who, family, spent, dismissed)
    /\ MemoryInv /\ RequestInv

-----------------------------------------------------------------------------
(* Files *)

\* n holds no more than st: nothing that is there came, and no client was registered.
Shrinks(st, n) ==
    /\ \A c \in Clients : st.clients[c] = "none" => n.clients[c] = "none"
    /\ st.revoked \subseteq n.revoked
    /\ n.pending \subseteq st.pending /\ n.codes \subseteq st.codes
    /\ n.access \subseteq st.access /\ n.refresh \subseteq st.refresh
    /\ n.consumed \subseteq st.consumed

\* A file that lost records is sound if it was: dropping a record, for whatever
\* reason, brings back nothing that was used or revoked.
LEMMA ShrinkingKeeps ==
    ASSUME NEW st, NEW n, NEW w, NEW fam, NEW sp, NEW di,
           di \subseteq Clients,
           Sound(st, w, fam, sp, di), n \in FilesOf(w, fam), Shrinks(st, n)
    PROVE  Sound(n, w, fam, sp, di)
<1>1. Tokens(n) \subseteq Tokens(st)  BY DEF Shrinks, Tokens
<1>2. n.pending \subseteq st.pending /\ n.codes \subseteq st.codes
      /\ n.access \subseteq st.access /\ n.refresh \subseteq st.refresh
      /\ n.consumed \subseteq st.consumed
  BY DEF Shrinks
<1>3. OneStage(n, fam)
  BY <1>1, <1>2 DEF Sound, OneStage
<1>4. NotBefore(n, fam, sp)
  BY <1>1, <1>2 DEF Sound, NotBefore
<1>5. Dismissed(n, w, fam, di)
  BY <1>2 DEF Sound, Dismissed, Shrinks
<1> QED  BY <1>3, <1>4, <1>5 DEF Sound

\* A file stays sound when the world goes on around it: new flows and pairs are not in
\* it, and the ones it holds keep their client and family.
LEMMA GrowingKeeps ==
    ASSUME NEW st, NEW w, NEW fam, NEW v, NEW fm, NEW sp, NEW di,
           Sound(st, w, fam, sp, di),
           DOMAIN w \subseteq DOMAIN v, DOMAIN fam \subseteq DOMAIN fm,
           \A p \in DOMAIN fam : fam[p] \in DOMAIN w,
           \A f \in DOMAIN w : v[f] = w[f], \A p \in DOMAIN fam : fm[p] = fam[p]
    PROVE  Sound(st, v, fm, sp, di)
<1>1. st \in FilesOf(v, fm)  BY DEF Sound, FilesOf
<1>2. /\ st.pending \cup st.codes \subseteq DOMAIN w
      /\ Tokens(st) \subseteq DOMAIN fam
      /\ st.access \cup st.refresh \subseteq DOMAIN fam
  BY DEF Sound, FilesOf, Tokens
<1>3. OneStage(st, fm)
  BY <1>2 DEF Sound, OneStage
<1>4. NotBefore(st, fm, sp)
  BY <1>2 DEF Sound, NotBefore
<1>5. Dismissed(st, v, fm, di)
  BY <1>2 DEF Sound, Dismissed
<1> QED  BY <1>1, <1>3, <1>4, <1>5 DEF Sound

\* What eviction leaves of each part of a file.
LEMMA EvictEffect ==
    ASSUME NEW st, st \in FilesOf(who, family)
    PROVE  /\ Evict(st) \in FilesOf(who, family)
           /\ Shrinks(st, Evict(st))
           /\ Evict(st).revoked = st.revoked
           /\ \A c \in Clients : Evict(st).clients[c] =
                                    IF c \in Lapsed(st) THEN "none" ELSE st.clients[c]
<1> DEFINE n == Evict(st)
<1>0. st = [clients |-> st.clients, revoked |-> st.revoked, pending |-> st.pending,
            ceremony |-> st.ceremony, codes |-> st.codes, access |-> st.access,
            refresh |-> st.refresh, consumed |-> st.consumed]
  BY DEF FilesOf
<1> DEFINE cl == [c \in Clients |-> IF c \in Lapsed(st) THEN "none" ELSE st.clients[c]]
           pe == {f \in st.pending : Consent(f) \notin past}
           co == {f \in st.codes : Code(f) \notin past}
           ac == {p \in st.access : Access(p) \notin past /\ ClientOf(p) \notin Lapsed(st)}
           re == {p \in st.refresh : Refresh(p) \notin past /\ ClientOf(p) \notin Lapsed(st)}
           ce == {f \in st.ceremony : f \in st.pending /\ Consent(f) \notin past}
<1>a. n = [st EXCEPT !.clients = cl, !.pending = pe, !.codes = co, !.access = ac,
                     !.refresh = re, !.ceremony = ce]
  BY DEF Evict
<1>b. /\ pe \subseteq st.pending /\ co \subseteq st.codes /\ ac \subseteq st.access
      /\ re \subseteq st.refresh /\ ce \subseteq st.ceremony
  OBVIOUS
<1>c. \A c \in Clients : cl[c] = IF c \in Lapsed(st) THEN "none" ELSE st.clients[c]
  OBVIOUS
<1>d. cl \in [Clients -> {"none", "live", "expired"}]
  BY DEF FilesOf
<1> HIDE DEF n, cl, pe, co, ac, re, ce
<1>1. n = [clients |-> cl, revoked |-> st.revoked, pending |-> pe, ceremony |-> ce,
           codes |-> co, access |-> ac, refresh |-> re, consumed |-> st.consumed]
  BY <1>0, <1>a
<1>2. st.clients \in [Clients -> {"none", "live", "expired"}] /\ st.revoked \in SUBSET Clients
      /\ st.pending \in SUBSET DOMAIN who /\ st.ceremony \in SUBSET DOMAIN who
      /\ st.codes \in SUBSET DOMAIN who /\ st.access \in SUBSET DOMAIN family
      /\ st.refresh \in SUBSET DOMAIN family /\ st.consumed \in SUBSET DOMAIN family
  BY DEF FilesOf
<1>4. n \in FilesOf(who, family)
  BY <1>1, <1>2, <1>b, <1>d DEF FilesOf
<1>5. Shrinks(st, n)
  BY <1>1, <1>2, <1>b, <1>c DEF Shrinks
<1> QED  BY <1>1, <1>4, <1>5, <1>c DEF n

\* The fields of a file, for the provers.
LEMMA FieldsOfFile ==
    ASSUME NEW w, NEW fam, NEW st \in FilesOf(w, fam)
    PROVE  /\ st = [clients |-> st.clients, revoked |-> st.revoked, pending |-> st.pending,
                    ceremony |-> st.ceremony, codes |-> st.codes, access |-> st.access,
                    refresh |-> st.refresh, consumed |-> st.consumed]
           /\ st.clients \in [Clients -> {"none", "live", "expired"}]
           /\ st.revoked \in SUBSET Clients
           /\ st.pending \in SUBSET DOMAIN w /\ st.ceremony \in SUBSET DOMAIN w
           /\ st.codes \in SUBSET DOMAIN w /\ st.access \in SUBSET DOMAIN fam
           /\ st.refresh \in SUBSET DOMAIN fam /\ st.consumed \in SUBSET DOMAIN fam
BY DEF FilesOf

LEMMA PruneEffect ==
    ASSUME NEW w, NEW fam, NEW st \in FilesOf(w, fam)
    PROVE  /\ Prune(st) \in FilesOf(w, fam) /\ Shrinks(st, Prune(st))
           /\ Prune(st).clients = st.clients /\ Prune(st).pending = st.pending
           /\ Prune(st).codes = st.codes /\ Prune(st).access = st.access
           /\ Prune(st).refresh = st.refresh
<1> DEFINE co == {p \in st.consumed : Refresh(p) \notin past}
<1>1. co \subseteq st.consumed  OBVIOUS
<1>2. Prune(st) = [st EXCEPT !.consumed = co]  BY DEF Prune
<1> HIDE DEF co
<1>3. Prune(st) = [clients |-> st.clients, revoked |-> st.revoked, pending |-> st.pending,
                   ceremony |-> st.ceremony, codes |-> st.codes, access |-> st.access,
                   refresh |-> st.refresh, consumed |-> co]
  BY <1>2, FieldsOfFile
<1> QED  BY <1>1, <1>3, FieldsOfFile DEF FilesOf, Shrinks

\* remove_client_material leaves nothing of the client, and what others have.
LEMMA WithoutEffect ==
    ASSUME NEW st, st \in FilesOf(who, family), NEW c \in Clients
    PROVE  /\ Without(st, c) \in FilesOf(who, family) /\ Shrinks(st, Without(st, c))
           /\ Without(st, c).clients = [st.clients EXCEPT ![c] = "none"]
           /\ Without(st, c).revoked = st.revoked
           /\ \A f \in Without(st, c).pending \cup Without(st, c).codes : who[f] # c
           /\ \A p \in Without(st, c).access \cup Without(st, c).refresh : who[family[p]] # c
<1> DEFINE n == Without(st, c)
           cl == [st.clients EXCEPT ![c] = "none"]
           pe == {f \in st.pending : who[f] # c}
           co == {f \in st.codes : who[f] # c}
           ac == st.access \ PairsOf(c)
           re == st.refresh \ PairsOf(c)
<1>1. n = [st EXCEPT !.clients = cl, !.pending = pe, !.codes = co, !.access = ac, !.refresh = re]
  BY FieldsOfFile DEF Without
<1>2. /\ pe \subseteq st.pending /\ co \subseteq st.codes /\ ac \subseteq st.access
      /\ re \subseteq st.refresh /\ \A f \in pe \cup co : who[f] # c
  OBVIOUS
<1>3. \A p \in ac \cup re : who[family[p]] # c
  BY FieldsOfFile DEF PairsOf, ClientOf
<1>4. cl \in [Clients -> {"none", "live", "expired"}] /\ cl[c] = "none"
      /\ \A d \in Clients : st.clients[d] = "none" => cl[d] = "none"
  BY FieldsOfFile
<1> HIDE DEF n, cl, pe, co, ac, re
<1>5. n = [clients |-> cl, revoked |-> st.revoked, pending |-> pe, ceremony |-> st.ceremony,
           codes |-> co, access |-> ac, refresh |-> re, consumed |-> st.consumed]
  <2>1. st = [clients |-> st.clients, revoked |-> st.revoked, pending |-> st.pending,
              ceremony |-> st.ceremony, codes |-> st.codes, access |-> st.access,
              refresh |-> st.refresh, consumed |-> st.consumed]
    BY FieldsOfFile
  <2> QED  BY <1>1, <2>1
<1>6. n \in FilesOf(who, family)
  BY <1>2, <1>4, <1>5, FieldsOfFile DEF FilesOf
<1>7. Shrinks(st, n)  BY <1>2, <1>4, <1>5 DEF Shrinks
<1>8. /\ n.clients = cl /\ n.revoked = st.revoked
      /\ \A f \in n.pending \cup n.codes : who[f] # c
      /\ \A p \in n.access \cup n.refresh : who[family[p]] # c
  BY <1>2, <1>3, <1>5
<1> QED  BY <1>6, <1>7, <1>8 DEF n, cl

\* revoke_token_family leaves no token of the family.
LEMMA WithoutFamilyEffect ==
    ASSUME live \in FilesOf(who, family), NEW f
    PROVE  /\ WithoutFamily(f) \in FilesOf(who, family) /\ Shrinks(live, WithoutFamily(f))
           /\ WithoutFamily(f).clients = live.clients
           /\ WithoutFamily(f).pending = live.pending /\ WithoutFamily(f).codes = live.codes
           /\ \A p \in Tokens(WithoutFamily(f)) : family[p] # f
<1> DEFINE n == WithoutFamily(f)
           kin == {q \in DOMAIN family : family[q] = f}
           ac == live.access \ kin
           re == live.refresh \ kin
           co == live.consumed \ kin
<1>1. n = [live EXCEPT !.access = ac, !.refresh = re, !.consumed = co]
  BY DEF WithoutFamily
<1>2. /\ ac \subseteq live.access /\ re \subseteq live.refresh /\ co \subseteq live.consumed
      /\ \A p \in ac \cup re \cup co : family[p] # f
  BY FieldsOfFile
<1> HIDE DEF n, kin, ac, re, co
<1>3. n = [clients |-> live.clients, revoked |-> live.revoked, pending |-> live.pending,
           ceremony |-> live.ceremony, codes |-> live.codes, access |-> ac,
           refresh |-> re, consumed |-> co]
  <2>1. live = [clients |-> live.clients, revoked |-> live.revoked, pending |-> live.pending,
                ceremony |-> live.ceremony, codes |-> live.codes, access |-> live.access,
                refresh |-> live.refresh, consumed |-> live.consumed]
    BY FieldsOfFile
  <2> QED  BY <1>1, <2>1
<1>4. n \in FilesOf(who, family)
  BY <1>2, <1>3, FieldsOfFile DEF FilesOf
<1>5. Shrinks(live, n)  BY <1>2, <1>3 DEF Shrinks
<1>6. n.clients = live.clients /\ n.pending = live.pending /\ n.codes = live.codes
      /\ \A p \in Tokens(n) : family[p] # f
  BY <1>2, <1>3 DEF Tokens
<1> QED  BY <1>4, <1>5, <1>6 DEF n

\* Registering a client that was not revoked leaves a file sound.
LEMMA RegisterKeeps ==
    ASSUME NEW st, NEW w, NEW fam, NEW sp, NEW di, NEW c \in Clients,
           Sound(st, w, fam, sp, di), c \notin st.revoked
    PROVE  /\ Sound([st EXCEPT !.clients[c] = "live"], w, fam, sp, di)
           /\ [st EXCEPT !.clients[c] = "live"].clients = [st.clients EXCEPT ![c] = "live"]
<1> DEFINE n == [st EXCEPT !.clients[c] = "live"]
           cl == [st.clients EXCEPT ![c] = "live"]
<1>0. st \in FilesOf(w, fam)  BY DEF Sound
<1>1. /\ cl \in [Clients -> {"none", "live", "expired"}]
      /\ \A d \in Clients \ {c} : cl[d] = st.clients[d]
  BY <1>0, FieldsOfFile
<1>2. n = [clients |-> cl, revoked |-> st.revoked, pending |-> st.pending,
           ceremony |-> st.ceremony, codes |-> st.codes, access |-> st.access,
           refresh |-> st.refresh, consumed |-> st.consumed]
  BY <1>0, FieldsOfFile
<1> HIDE DEF n, cl
<1>3. n \in FilesOf(w, fam)
  BY <1>0, <1>1, <1>2, FieldsOfFile DEF FilesOf
<1>4. OneStage(n, fam)
  BY <1>2 DEF Sound, OneStage, Tokens
<1>5. NotBefore(n, fam, sp)
  BY <1>2 DEF Sound, NotBefore, Tokens
<1>6. \A d \in di : d \in Clients \ {c}
  BY <1>0, FieldsOfFile DEF Sound, Dismissed
<1>7. Dismissed(n, w, fam, di)
  BY <1>1, <1>2, <1>6 DEF Sound, Dismissed
<1>8. Sound(n, w, fam, sp, di)
  BY <1>3, <1>4, <1>5, <1>7 DEF Sound
<1>9. n.clients = cl  BY <1>2
<1> QED  BY <1>8, <1>9 DEF n, cl

\* Flows and pairs get the next number, which none has had.
NextOf(s) == Cardinality(DOMAIN s) + 1
Extended(s, x) == [i \in 1..NextOf(s) |-> IF i = NextOf(s) THEN x ELSE s[i]]

LEMMA Extending ==
    ASSUME NEW s, NEW n \in Nat, NEW S, NEW x \in S, Sequenced(s, n, S), NextOf(s) \in 1..n
    PROVE  /\ NextOf(s) \notin DOMAIN s
           /\ DOMAIN Extended(s, x) = DOMAIN s \cup {NextOf(s)}
           /\ Extended(s, x)[NextOf(s)] = x
           /\ \A i \in DOMAIN s : Extended(s, x)[i] = s[i]
           /\ Sequenced(Extended(s, x), n, S)
<1>1. PICK k \in 0..n : s \in [1..k -> S]  BY DEF Sequenced
<1>2. Cardinality(1..k) = k  BY <1>1, FS_Interval
<1>3. NextOf(s) = k + 1 /\ DOMAIN s = 1..k  BY <1>1, <1>2 DEF NextOf
<1>4. /\ NextOf(s) \notin 1..k /\ 1..NextOf(s) = 1..k \cup {NextOf(s)}
      /\ NextOf(s) \in 0..n /\ NextOf(s) \in 1..NextOf(s)
  BY <1>1, <1>3
<1> DEFINE t == Extended(s, x)
<1>5. t \in [1..NextOf(s) -> S] /\ t[NextOf(s)] = x /\ \A i \in 1..k : t[i] = s[i]
  BY <1>1, <1>4 DEF Extended
<1> HIDE DEF t
<1>6. Sequenced(t, n, S)  BY <1>4, <1>5 DEF Sequenced
<1>7. DOMAIN t = 1..k \cup {NextOf(s)}  BY <1>4, <1>5
<1> QED  BY <1>3, <1>4, <1>5, <1>6, <1>7 DEF t

\* A consent for a new flow of a registered client.
LEMMA BeginKeeps ==
    ASSUME NEW st, NEW w, NEW v, NEW fam, NEW sp, NEW di, NEW c \in Clients, NEW f,
           World(w, fam, sp, di), Sound(st, w, fam, sp, di), st.clients[c] # "none",
           f \notin DOMAIN w, DOMAIN v = DOMAIN w \cup {f}, v[f] = c,
           \A g \in DOMAIN w : v[g] = w[g],
           \A p \in DOMAIN fam : fam[p] \in DOMAIN w
    PROVE  /\ Sound([st EXCEPT !.pending = @ \cup {f}], v, fam, sp, di)
           /\ [st EXCEPT !.pending = @ \cup {f}].clients = st.clients
<1> DEFINE n == [st EXCEPT !.pending = @ \cup {f}]
<1>1. Sound(st, v, fam, sp, di)  BY GrowingKeeps
<1>2. st \in FilesOf(v, fam)  BY <1>1 DEF Sound
<1>3. n = [clients |-> st.clients, revoked |-> st.revoked, pending |-> st.pending \cup {f},
           ceremony |-> st.ceremony, codes |-> st.codes, access |-> st.access,
           refresh |-> st.refresh, consumed |-> st.consumed]
  BY <1>2, FieldsOfFile
<1> HIDE DEF n
<1>4. n \in FilesOf(v, fam)
  BY <1>2, <1>3, FieldsOfFile DEF FilesOf
<1>5. f \notin st.codes /\ \A p \in Tokens(st) : fam[p] # f
  BY DEF Sound, FilesOf, Tokens
<1>6. Tokens(n) = Tokens(st)  BY <1>3 DEF Tokens
<1>7. OneStage(n, fam)
  BY <1>1, <1>3, <1>5, <1>6 DEF Sound, OneStage
<1>8. Consent(f) \notin sp /\ Code(f) \notin sp /\ <<"family", f>> \notin sp
  BY DEF World
<1>9. NotBefore(n, fam, sp)
  BY <1>1, <1>3, <1>6, <1>8 DEF Sound, NotBefore
<1>10. c \notin di  BY DEF Sound, Dismissed
<1>11. Dismissed(n, v, fam, di)
  BY <1>1, <1>3, <1>10 DEF Sound, Dismissed
<1>12. Sound(n, v, fam, sp, di) /\ n.clients = st.clients
  BY <1>3, <1>4, <1>7, <1>9, <1>11 DEF Sound
<1> QED  BY <1>12 DEF n

\* A consent becomes a code, and is then used.
LEMMA CodeKeeps ==
    ASSUME World(who, family, spent, dismissed), NEW f \in live.pending,
           Sound(live, who, family, spent, dismissed)
    PROVE  /\ Sound(IssueCode(f), who, family, spent, dismissed)
           /\ Sound(IssueCode(f), who, family, spent \cup {Consent(f)}, dismissed)
           /\ \A c \in Clients : IssueCode(f).clients[c] = "none" <=> live.clients[c] = "none"
<1> DEFINE n == IssueCode(f)
           c == who[f]
           cl == [live.clients EXCEPT ![c] = IF @ = "none" THEN @ ELSE "live"]
<1>0. live \in FilesOf(who, family) /\ f \in DOMAIN who
  BY FieldsOfFile DEF Sound
<1>1. c \in Clients  BY <1>0 DEF World, Sequenced
<1>2. /\ cl \in [Clients -> {"none", "live", "expired"}]
      /\ \A d \in Clients : cl[d] = "none" <=> live.clients[d] = "none"
  BY <1>0, <1>1, FieldsOfFile
<1>3. n = [live EXCEPT !.pending = @ \ {f}, !.ceremony = @ \ {f}, !.codes = @ \cup {f},
                       !.clients = cl]
  BY <1>0, FieldsOfFile DEF IssueCode
<1> HIDE DEF n, cl, c
<1>4. n = [clients |-> cl, revoked |-> live.revoked, pending |-> live.pending \ {f},
           ceremony |-> live.ceremony \ {f}, codes |-> live.codes \cup {f},
           access |-> live.access, refresh |-> live.refresh, consumed |-> live.consumed]
  <2>1. live = [clients |-> live.clients, revoked |-> live.revoked, pending |-> live.pending,
                ceremony |-> live.ceremony, codes |-> live.codes, access |-> live.access,
                refresh |-> live.refresh, consumed |-> live.consumed]
    BY <1>0, FieldsOfFile
  <2> QED  BY <1>3, <2>1
<1>5. n \in FilesOf(who, family)
  BY <1>0, <1>2, <1>4, FieldsOfFile DEF FilesOf
<1>6. Tokens(n) = Tokens(live)  BY <1>4 DEF Tokens
<1>7. OneStage(n, family)
  BY <1>4, <1>6 DEF Sound, OneStage
<1>8. NotBefore(n, family, spent)
  BY <1>4, <1>6 DEF Sound, NotBefore
<1>9. NotBefore(n, family, spent \cup {Consent(f)})
  BY <1>4, <1>6, <1>8 DEF NotBefore, Consent, Code, Refresh
<1>10. Dismissed(n, who, family, dismissed)
  BY <1>2, <1>4 DEF Sound, Dismissed, World
<1>11. \A d \in Clients : n.clients[d] = "none" <=> live.clients[d] = "none"
  BY <1>2, <1>4
<1> QED  BY <1>5, <1>7, <1>8, <1>9, <1>10, <1>11 DEF n, Sound

\* A new pair of a flow that is past its code, of a client that is not dismissed.
LEMMA PairKeeps ==
    ASSUME NEW st, NEW w, NEW fam, NEW fm, NEW sp, NEW di, NEW f \in DOMAIN w, NEW new,
           World(w, fam, sp, di), Sound(st, w, fam, sp, di),
           f \notin st.pending \cup st.codes, <<"family", f>> \notin sp, w[f] \notin di,
           new \notin DOMAIN fam, DOMAIN fm = DOMAIN fam \cup {new}, fm[new] = f,
           \A p \in DOMAIN fam : fm[p] = fam[p],
           NEW A, A \subseteq st.access \cup {new}
    PROVE  /\ Sound([st EXCEPT !.access = A, !.refresh = @ \cup {new}], w, fm, sp, di)
           /\ [st EXCEPT !.access = A, !.refresh = @ \cup {new}].clients = st.clients
<1> DEFINE n == [st EXCEPT !.access = A, !.refresh = @ \cup {new}]
<1>0. \A p \in DOMAIN fam : fam[p] \in DOMAIN w  BY DEF World, Sequenced
<1>1. Sound(st, w, fm, sp, di)  BY <1>0, GrowingKeeps
<1>2. st \in FilesOf(w, fm) /\ new \notin st.consumed  BY <1>1 DEF Sound, FilesOf
<1>3. n = [clients |-> st.clients, revoked |-> st.revoked, pending |-> st.pending,
           ceremony |-> st.ceremony, codes |-> st.codes, access |-> A,
           refresh |-> st.refresh \cup {new}, consumed |-> st.consumed]
  <2>1. st = [clients |-> st.clients, revoked |-> st.revoked, pending |-> st.pending,
              ceremony |-> st.ceremony, codes |-> st.codes, access |-> st.access,
              refresh |-> st.refresh, consumed |-> st.consumed]
    BY <1>2, FieldsOfFile
  <2>2. n = [st EXCEPT !.access = A, !.refresh = st.refresh \cup {new}]
    BY <2>1
  <2> HIDE DEF n
  <2> QED  BY ONLY <2>1, <2>2
<1> HIDE DEF n
<1>4. n \in FilesOf(w, fm)
  BY <1>2, <1>3, FieldsOfFile DEF FilesOf
<1>6. \A p \in Tokens(n) : p \in Tokens(st) \/ p = new  BY <1>3 DEF Tokens
<1>7. OneStage(n, fm)
  <2>1. n.refresh \cap n.consumed = {} /\ n.pending \cap n.codes = {}
    BY <1>1, <1>2, <1>3 DEF Sound, OneStage
  <2>2. \A p \in Tokens(n) : fm[p] \notin n.pending \cup n.codes
    BY <1>1, <1>3, <1>6 DEF Sound, OneStage
  <2> QED  BY <2>1, <2>2 DEF OneStage
<1>8. Refresh(new) \notin sp  BY DEF World
<1>9. NotBefore(n, fm, sp)
  <2>1. \A p : Refresh(p) \in sp => p \notin n.refresh
    BY <1>1, <1>3, <1>8 DEF Sound, NotBefore
  <2>2. \A g : <<"family", g>> \in sp => \A p \in Tokens(n) : fm[p] # g
    BY <1>1, <1>6 DEF Sound, NotBefore
  <2>3. n.pending = st.pending /\ n.codes = st.codes  BY <1>3
  <2> QED  BY <1>1, <2>1, <2>2, <2>3 DEF Sound, NotBefore
<1>11. Dismissed(n, w, fm, di)
  <2>1. \A p \in n.access \cup n.refresh : p \in st.access \cup st.refresh \/ p = new
    BY <1>3
  <2> QED  BY <1>1, <1>3, <2>1 DEF Sound, Dismissed
<1>12. Sound(n, w, fm, sp, di) /\ n.clients = st.clients
  BY <1>3, <1>4, <1>7, <1>9, <1>11 DEF Sound
<1> QED  BY <1>12 DEF n

\* Answering a record as used leaves sound a file in which it is used.
LEMMA ConsentSpent ==
    ASSUME NEW st, NEW w, NEW fam, NEW sp, NEW di, NEW f,
           Sound(st, w, fam, sp, di), f \notin st.pending
    PROVE  Sound(st, w, fam, sp \cup {Consent(f)}, di)
<1>1. NotBefore(st, fam, sp \cup {Consent(f)})
  BY DEF Sound, NotBefore, Consent, Code, Refresh
<1> QED  BY <1>1 DEF Sound

LEMMA CodeSpent ==
    ASSUME NEW st, NEW w, NEW fam, NEW sp, NEW di, NEW f,
           Sound(st, w, fam, sp, di), f \notin st.pending \cup st.codes
    PROVE  Sound(st, w, fam, sp \cup {Code(f)}, di)
<1>1. NotBefore(st, fam, sp \cup {Code(f)})
  BY DEF Sound, NotBefore, Consent, Code, Refresh
<1> QED  BY <1>1 DEF Sound

LEMMA RefreshSpent ==
    ASSUME NEW st, NEW w, NEW fam, NEW sp, NEW di, NEW p,
           Sound(st, w, fam, sp, di), p \notin st.refresh
    PROVE  Sound(st, w, fam, sp \cup {Refresh(p)}, di)
<1>1. NotBefore(st, fam, sp \cup {Refresh(p)})
  BY DEF Sound, NotBefore, Consent, Code, Refresh
<1> QED  BY <1>1 DEF Sound

LEMMA FamilySpent ==
    ASSUME NEW st, NEW w, NEW fam, NEW sp, NEW di, NEW f,
           Sound(st, w, fam, sp, di), f \notin st.pending \cup st.codes,
           \A p \in Tokens(st) : fam[p] # f
    PROVE  Sound(st, w, fam, sp \cup {<<"family", f>>}, di)
<1>1. NotBefore(st, fam, sp \cup {<<"family", f>>})
  BY DEF Sound, NotBefore, Consent, Code, Refresh
<1> QED  BY <1>1 DEF Sound

\* Only what was issued is spent, still.
LEMMA WorldSpent ==
    ASSUME NEW w, NEW fam, NEW sp, NEW di, World(w, fam, sp, di)
    PROVE  /\ \A f \in DOMAIN w : /\ World(w, fam, sp \cup {Consent(f)}, di)
                                  /\ World(w, fam, sp \cup {Code(f)}, di)
                                  /\ World(w, fam, sp \cup {<<"family", f>>}, di)
           /\ \A p \in DOMAIN fam : World(w, fam, sp \cup {Refresh(p)}, di)
<1>1. ASSUME NEW f \in DOMAIN w PROVE World(w, fam, sp \cup {Consent(f)}, di)
  BY <1>1 DEF World, Consent, Code, Refresh
<1>2. ASSUME NEW f \in DOMAIN w PROVE World(w, fam, sp \cup {Code(f)}, di)
  BY <1>2 DEF World, Consent, Code, Refresh
<1>3. ASSUME NEW f \in DOMAIN w PROVE World(w, fam, sp \cup {<<"family", f>>}, di)
  BY <1>3 DEF World, Consent, Code, Refresh
<1>4. ASSUME NEW p \in DOMAIN fam PROVE World(w, fam, sp \cup {Refresh(p)}, di)
  BY <1>4 DEF World, Consent, Code, Refresh
<1> QED  BY <1>1, <1>2, <1>3, <1>4

\* Families are of flows, flows of clients.
LEMMA WorldFacts ==
    ASSUME NEW w, NEW fam, NEW sp, NEW di, World(w, fam, sp, di)
    PROVE  /\ \A f \in DOMAIN w : w[f] \in Clients
           /\ \A p \in DOMAIN fam : fam[p] \in DOMAIN w
           /\ di \subseteq Clients
BY DEF World, Sequenced

-----------------------------------------------------------------------------
(* Commits *)

\* After a commit, memory and what a power loss leaves are each the new state or, when
\* the caller was not told of success, the old one.
LEMMA CommitEffect ==
    ASSUME NEW next, NEW answer \in Answers, Commit(next, answer), degraded \in BOOLEAN
    PROVE  /\ degraded' \in BOOLEAN
           /\ answer = "ok" => live' = next /\ disk' = next
           /\ answer = "uncertain" => live' = next /\ disk' = disk
           /\ answer = "failed" => live' = live /\ disk' = disk
           /\ answer # "failed" => live' = next
BY DEF Commit, Committed, Answers

LEMMA CommitKeeps ==
    ASSUME NEW next, NEW answer \in Answers, Commit(next, answer), degraded \in BOOLEAN,
           NEW w, NEW fam, NEW sp, NEW di,
           Sound(next, w, fam, sp, di),
           answer # "ok" => Sound(live, w, fam, sp, di) /\ Sound(disk, w, fam, sp, di)
    PROVE  Sound(live', w, fam, sp, di) /\ Sound(disk', w, fam, sp, di)
<1>1. CASE answer = "ok"  BY <1>1, CommitEffect
<1>2. CASE answer = "uncertain"
  <2>1. live' = next /\ disk' = disk  BY <1>2, CommitEffect
  <2> QED  BY <1>2, <2>1
<1>3. CASE answer = "failed"
  <2>1. live' = live /\ disk' = disk  BY <1>3, CommitEffect
  <2> QED  BY <1>3, <2>1
<1> QED  BY <1>1, <1>2, <1>3 DEF Answers

-----------------------------------------------------------------------------
(* Lifecycles and leases *)

\* What Lifecycles does to the lifecycle of one client.
LEMMA LifecyclesEffect ==
    ASSUME NEW gone, NEW insert, NEW answer \in Answers, Lifecycles(gone, insert, answer),
           life \in [Clients -> States]
    PROVE  /\ life' \in [Clients -> States]
           /\ leases' = {l \in leases : l.client \notin gone}
           /\ answer # "ok" => \A c \in Clients :
                 life'[c] = IF c \in gone /\ life[c] # "none" THEN "inactive" ELSE life[c]
           /\ answer = "ok" => \A c \in Clients :
                 /\ c \notin gone /\ life[c] # "none" => life'[c] = life[c]
                 /\ c \notin insert => life'[c] = IF c \in gone THEN "none" ELSE life[c]
                 /\ c \in insert /\ (c \in gone \/ life[c] = "none") => life'[c] = "active"
           /\ answer = "uncertain" =>
                 shut' = shut \cup (gone \X {"eviction"}) \cup (insert \X {"insertion"})
           /\ answer = "failed" => shut' = shut \cup (gone \X {"unsaved"})
           /\ answer = "ok" => shut' = {x \in shut : life'[x[1]] # "active"}
<1> DEFINE deactivated == [c \in Clients |-> IF c \in gone /\ life[c] # "none"
                                             THEN "inactive" ELSE life[c]]
           removed == [c \in Clients |-> IF c \in gone THEN "none" ELSE deactivated[c]]
           kept == [c \in Clients |->
                       IF c \in insert /\ removed[c] = "none" THEN "active" ELSE removed[c]]
<1>1. \A c \in Clients : deactivated[c] = IF c \in gone /\ life[c] # "none"
                                          THEN "inactive" ELSE life[c]
  OBVIOUS
<1>2. \A c \in Clients : removed[c] = IF c \in gone THEN "none" ELSE life[c]
  BY <1>1
<1>3. \A c \in Clients : kept[c] = IF c \in insert /\ removed[c] = "none"
                                   THEN "active" ELSE removed[c]
  OBVIOUS
<1>4. DOMAIN deactivated = Clients /\ DOMAIN kept = Clients
      /\ deactivated = [c \in Clients |-> deactivated[c]] /\ kept = [c \in Clients |-> kept[c]]
  OBVIOUS
<1>5. /\ answer # "ok" => life' = deactivated
      /\ answer = "ok" => life' = kept
  BY DEF Lifecycles
<1>6. /\ answer = "uncertain" =>
                 shut' = shut \cup (gone \X {"eviction"}) \cup (insert \X {"insertion"})
      /\ answer = "failed" => shut' = shut \cup (gone \X {"unsaved"})
      /\ answer = "ok" => shut' = {x \in shut : life'[x[1]] # "active"}
      /\ leases' = {l \in leases : l.client \notin gone}
  BY DEF Lifecycles, Answers
<1> HIDE DEF deactivated, removed, kept
<1>7. \A c \in Clients : life[c] \in States  OBVIOUS
<1>8. \A c \in Clients : deactivated[c] \in States /\ kept[c] \in States
  BY <1>1, <1>2, <1>3, <1>7 DEF States
<1>9. deactivated \in [Clients -> States] /\ kept \in [Clients -> States]
  BY <1>4, <1>8
<1>10. life' \in [Clients -> States]  BY <1>5, <1>9
<1>11. answer # "ok" => \A c \in Clients :
          life'[c] = IF c \in gone /\ life[c] # "none" THEN "inactive" ELSE life[c]
  BY <1>1, <1>5
<1>12. answer = "ok" => \A c \in Clients :
          /\ c \notin gone /\ life[c] # "none" => life'[c] = life[c]
          /\ c \notin insert => life'[c] = IF c \in gone THEN "none" ELSE life[c]
          /\ c \in insert /\ (c \in gone \/ life[c] = "none") => life'[c] = "active"
  BY <1>2, <1>3, <1>5
<1> QED  BY <1>6, <1>10, <1>11, <1>12

\* Evicting clients and registering one, as every handler that evicts does, keeps the
\* leases on clients that are there and the lifecycles in step with the registrations.
LEMMA LifecyclesKeep ==
    ASSUME NEW next, NEW insert, NEW answer \in Answers, insert \subseteq Clients,
           Commit(next, answer), Lifecycles(Lapsed(live), insert, answer), MemoryInv,
           \A c \in Clients : next.clients[c] =
               IF c \in insert THEN "live"
               ELSE IF c \in Lapsed(live) THEN "none" ELSE live.clients[c]
    PROVE  /\ life' \in [Clients -> States] /\ leases' \subseteq leases
           /\ Working(live', life', ended, leases') /\ Covered(live', life', shut')
<1> DEFINE gone == Lapsed(live)
<1>1. /\ life' \in [Clients -> States]
      /\ leases' = {l \in leases : l.client \notin gone}
      /\ answer # "ok" => \A c \in Clients :
            life'[c] = IF c \in gone /\ life[c] # "none" THEN "inactive" ELSE life[c]
      /\ answer = "ok" => \A c \in Clients :
            /\ c \notin gone /\ life[c] # "none" => life'[c] = life[c]
            /\ c \notin insert => life'[c] = IF c \in gone THEN "none" ELSE life[c]
            /\ c \in insert /\ (c \in gone \/ life[c] = "none") => life'[c] = "active"
      /\ answer = "uncertain" =>
            shut' = shut \cup (gone \X {"eviction"}) \cup (insert \X {"insertion"})
      /\ answer = "failed" => shut' = shut \cup (gone \X {"unsaved"})
      /\ answer = "ok" => shut' = {x \in shut : life'[x[1]] # "active"}
  <2>1. life \in [Clients -> States]  BY DEF MemoryInv
  <2> QED  BY <2>1, LifecyclesEffect
<1>2. /\ answer # "failed" => live' = next
      /\ answer = "failed" => live' = live
  BY CommitEffect DEF MemoryInv
<1>3. \A c \in gone : c \in Clients  BY DEF Lapsed
<1> HIDE DEF gone
<1>4. \A c \in Clients : /\ c \notin gone /\ live.clients[c] # "none" => live'.clients[c] # "none"
                         /\ answer # "failed" /\ c \in gone \ insert => live'.clients[c] = "none"
                         /\ c \notin insert /\ live'.clients[c] # "none" => live.clients[c] # "none"
  BY <1>2 DEF gone
<1>5. leases' \subseteq leases  BY <1>1
<1>6. Working(live', life', ended, leases')
  <2> SUFFICES ASSUME NEW l \in leases'
               PROVE  live'.clients[l.client] # "none" /\ life'[l.client] = "active"
                      /\ l.family \notin ended
    BY DEF Working
  <2>1. l \in leases /\ l.client \notin gone  BY <1>1
  <2>2. l.client \in Clients  BY <2>1 DEF MemoryInv, Leases
  <2>3. live.clients[l.client] # "none" /\ life[l.client] = "active" /\ l.family \notin ended
    BY <2>1 DEF MemoryInv, Working
  <2>4. live'.clients[l.client] # "none"  BY <1>4, <2>1, <2>2, <2>3
  <2>5. life'[l.client] = "active"  BY <1>1, <2>1, <2>2, <2>3
  <2> QED  BY <2>3, <2>4, <2>5
<1>7. Covered(live', life', shut')
  <2> SUFFICES ASSUME NEW c \in Clients
               PROVE  /\ life'[c] = "inactive" => \E x \in shut' : x[1] = c
                      /\ live'.clients[c] # "none" =>
                            life'[c] = "active" \/ \E x \in shut' : x[1] = c
    BY DEF Covered
  <2>1. /\ life[c] = "inactive" => \E x \in shut : x[1] = c
        /\ live.clients[c] # "none" => life[c] = "active" \/ \E x \in shut : x[1] = c
    BY DEF MemoryInv, Covered
  <2>2. life[c] \in States  BY DEF MemoryInv
  <2>3. CASE answer = "ok"
    <3>1. \A x \in shut : x[1] = c /\ life'[c] # "active" => x \in shut'
      BY <1>1, <2>3
    <3>2. life'[c] = "inactive" => life[c] = "inactive"
      <4>1. c \in insert \/ c \notin insert  OBVIOUS
      <4> QED  BY <1>1, <2>2, <2>3 DEF States
    <3>3. ASSUME live'.clients[c] # "none", life'[c] # "active"
          PROVE  \E x \in shut : x[1] = c
      <4>1. CASE c \in insert
        <5>1. c \notin gone /\ life[c] # "none"  BY <1>1, <2>3, <3>3, <4>1
        <5>2. life[c] = "inactive"  BY <1>1, <2>2, <2>3, <3>3, <5>1 DEF States
        <5> QED  BY <2>1, <5>2
      <4>2. CASE c \notin insert
        <5>1. c \notin gone  BY <1>4, <2>3, <3>3, <4>2
        <5>2. life[c] # "active"  BY <1>1, <2>3, <3>3, <4>2, <5>1
        <5>3. live.clients[c] # "none"  BY <1>4, <3>3, <4>2
        <5> QED  BY <2>1, <5>2, <5>3
      <4> QED  BY <4>1, <4>2
    <3>4. life'[c] = "inactive" => \E x \in shut' : x[1] = c
      BY <2>1, <3>1, <3>2
    <3>5. live'.clients[c] # "none" => life'[c] = "active" \/ \E x \in shut' : x[1] = c
      BY <3>1, <3>3
    <3> QED  BY <3>4, <3>5
  <2>4. CASE answer # "ok"
    <3>0. answer \in {"uncertain", "failed"}  BY <2>4 DEF Answers
    <3>1. shut \subseteq shut'  BY <1>1, <3>0
    <3>2. c \in gone => \E x \in shut' : x[1] = c
      <4>1. ASSUME c \in gone PROVE <<c, "eviction">> \in shut' \/ <<c, "unsaved">> \in shut'
        BY <1>1, <3>0, <4>1
      <4>2. <<c, "eviction">>[1] = c /\ <<c, "unsaved">>[1] = c  OBVIOUS
      <4> QED  BY <4>1, <4>2
    <3>3. c \in insert /\ answer = "uncertain" => \E x \in shut' : x[1] = c
      <4>1. ASSUME c \in insert, answer = "uncertain" PROVE <<c, "insertion">> \in shut'
        BY <1>1, <4>1
      <4>2. <<c, "insertion">>[1] = c  OBVIOUS
      <4> QED  BY <4>1, <4>2
    <3>4. c \notin gone => life'[c] = life[c]  BY <1>1, <2>4
    <3>5. live'.clients[c] # "none" => live.clients[c] # "none"
                                       \/ (c \in insert /\ answer = "uncertain")
      BY <1>2, <1>4, <3>0
    <3> QED  BY <2>1, <3>1, <3>2, <3>3, <3>4, <3>5
  <2> QED  BY <2>3, <2>4
<1> QED  BY <1>1, <1>5, <1>6, <1>7

-----------------------------------------------------------------------------
(* The steps *)

\* The clients that are registered are the same in both files.
SameClients(st, n) == \A c \in Clients : n.clients[c] = "none" <=> st.clients[c] = "none"

\* What files and memory amount to after a step that leaves lifecycles alone.
LEMMA MemoryKept ==
    ASSUME MemoryInv, UNCHANGED <<life, shut>>, degraded' \in BOOLEAN,
           SameClients(live, live'), DOMAIN who \subseteq DOMAIN who',
           ended' \subseteq seen', seen' \subseteq DOMAIN who',
           leases' \subseteq leases, \A l \in leases' : l.family \notin ended'
    PROVE  MemoryInv'
<1>1. leases' \subseteq Leases(who')  BY DEF MemoryInv, Leases
<1>2. Working(live', life', ended', leases')
  <2> SUFFICES ASSUME NEW l \in leases'
               PROVE  live'.clients[l.client] # "none" /\ life'[l.client] = "active"
                      /\ l.family \notin ended'
    BY DEF Working
  <2>1. l.client \in Clients /\ live.clients[l.client] # "none" /\ life[l.client] = "active"
    BY DEF MemoryInv, Leases, Working
  <2> QED  BY <2>1 DEF SameClients
<1>3. Covered(live', life', shut')
  BY DEF MemoryInv, Covered, SameClients
<1>4. life' \in [Clients -> States]  BY DEF MemoryInv
<1> QED  BY <1>1, <1>2, <1>3, <1>4 DEF MemoryInv

LEMMA MemoryUntouched ==
    ASSUME MemoryInv, UNCHANGED <<memory, shut>>, degraded' \in BOOLEAN,
           SameClients(live, live'), DOMAIN who \subseteq DOMAIN who'
    PROVE  MemoryInv'
<1>1. UNCHANGED <<life, shut, seen, ended, leases>>  BY DEF memory
<1>2. ended' \subseteq seen' /\ seen' \subseteq DOMAIN who' /\ leases' \subseteq leases
  BY <1>1 DEF MemoryInv
<1>3. \A l \in leases' : l.family \notin ended'  BY <1>1 DEF MemoryInv, Working
<1> QED  BY <1>1, <1>2, <1>3, MemoryKept

LEMMA SameClientsCommit ==
    ASSUME NEW next, NEW answer \in Answers, Commit(next, answer), degraded \in BOOLEAN,
           SameClients(live, next)
    PROVE  SameClients(live, live')
<1>1. live' = next \/ live' = live  BY CommitEffect DEF Answers
<1>2. SameClients(live, live)  BY DEF SameClients
<1> QED  BY <1>1, <1>2

Request == [pc : {"idle", "fetch", "refetch", "begin", "grant"},
            client : Clients \cup {"nobody"}]

LEMMA RequestMoved ==
    ASSUME RequestInv, NEW r \in Requests, NEW x \in Request,
           x.pc # "idle" => x.client \in Clients, req' = [req EXCEPT ![r] = x]
    PROVE  RequestInv'
BY DEF RequestInv, Request

LEMMA RequestDone ==
    ASSUME RequestInv, NEW r \in Requests, req' = [req EXCEPT ![r] = NoRequest]
    PROVE  RequestInv'
<1>1. NoRequest \in Request /\ NoRequest.pc = "idle"  BY DEF NoRequest, Request
<1> QED  BY <1>1, RequestMoved

\* Steps of the owner's handlers that only drop records.
LEMMA DroppingKeeps ==
    ASSUME Inv, NEW next, NEW answer \in Answers, Commit(next, answer),
           next \in FilesOf(who, family), Shrinks(live, next), SameClients(live, next),
           ConsentOnly, spent' = spent
    PROVE  Inv'
<1>0. UNCHANGED <<memory, req, who, family, dismissed, shut, spent>>
  BY DEF ConsentOnly, issued
<1>1. dismissed \subseteq Clients  BY WorldFacts DEF Inv
<1>2. Sound(next, who, family, spent, dismissed)
  BY <1>1, ShrinkingKeeps DEF Inv
<1>3. degraded \in BOOLEAN  BY DEF Inv, MemoryInv
<1>4. Sound(live', who, family, spent, dismissed) /\ Sound(disk', who, family, spent, dismissed)
  BY <1>2, <1>3, CommitKeeps DEF Inv
<1>5. SameClients(live, live') /\ degraded' \in BOOLEAN
  BY <1>3, SameClientsCommit, CommitEffect
<1>6. MemoryInv'  BY <1>0, <1>5, MemoryUntouched DEF Inv
<1>7. RequestInv'  BY <1>0 DEF Inv, RequestInv
<1> QED  BY <1>0, <1>4, <1>6, <1>7 DEF Inv

LEMMA ExpireConsentKeeps ==
    ASSUME Inv, NEW f, NEW answer \in Answers, ExpireConsent(f, answer)
    PROVE  Inv'
<1> DEFINE next == [live EXCEPT !.pending = @ \ {f}, !.ceremony = @ \ {f}]
<1>1. live \in FilesOf(who, family)  BY DEF Inv, Sound
<1>2. next \in FilesOf(who, family) /\ next.clients = live.clients /\ Shrinks(live, next)
  BY <1>1 DEF FilesOf, Shrinks
<1>3. SameClients(live, next)  BY <1>2 DEF SameClients
<1>4. Commit(next, answer) /\ ConsentOnly /\ spent' = spent  BY DEF ExpireConsent
<1> HIDE DEF next
<1> QED  BY <1>2, <1>3, <1>4, DroppingKeeps

LEMMA StartOwnerApprovalKeeps ==
    ASSUME Inv, NEW f, NEW answer \in Answers, StartOwnerApproval(f, answer)
    PROVE  Inv'
<1> DEFINE next == [EvictOwner(live) EXCEPT !.ceremony = @ \cup {f}]
<1>1. live \in FilesOf(who, family) /\ f \in live.pending  BY DEF Inv, Sound, StartOwnerApproval
<1>2. next \in FilesOf(who, family) /\ next.clients = live.clients /\ Shrinks(live, next)
  BY <1>1 DEF FilesOf, Shrinks, EvictOwner
<1>3. SameClients(live, next)  BY <1>2 DEF SameClients
<1>4. Commit(next, answer) /\ ConsentOnly /\ spent' = spent  BY DEF StartOwnerApproval
<1> HIDE DEF next
<1> QED  BY <1>2, <1>3, <1>4, DroppingKeeps

LEMMA RejectOwnerApprovalKeeps ==
    ASSUME Inv, NEW f, NEW answer \in Answers, RejectOwnerApproval(f, answer)
    PROVE  Inv'
<1> DEFINE next == [live EXCEPT !.ceremony = @ \ {f}]
<1>1. live \in FilesOf(who, family)  BY DEF Inv, Sound
<1>2. next \in FilesOf(who, family) /\ next.clients = live.clients /\ Shrinks(live, next)
  BY <1>1 DEF FilesOf, Shrinks
<1>3. SameClients(live, next)  BY <1>2 DEF SameClients
<1>4. Commit(next, answer) /\ ConsentOnly /\ spent' = spent  BY DEF RejectOwnerApproval
<1> HIDE DEF next
<1> QED  BY <1>2, <1>3, <1>4, DroppingKeeps

\* A consent that is decided: denied, or turned into a code.
LEMMA DecidingKeeps ==
    ASSUME Inv, NEW next, NEW f \in DOMAIN who, NEW answer \in Answers, Commit(next, answer),
           Sound(next, who, family, spent, dismissed), f \notin next.pending,
           SameClients(live, next), ConsentOnly,
           spent' = IF answer = "ok" THEN spent \cup {Consent(f)} ELSE spent
    PROVE  Inv'
<1>0. UNCHANGED <<memory, req, who, family, dismissed, shut>>
  BY DEF ConsentOnly, issued
<1>1. World(who, family, spent', dismissed)
  BY WorldSpent DEF Inv
<1>2. Sound(next, who, family, spent', dismissed)
  BY ConsentSpent DEF Inv
<1>3. degraded \in BOOLEAN  BY DEF Inv, MemoryInv
<1>4. Sound(live', who, family, spent', dismissed) /\ Sound(disk', who, family, spent', dismissed)
  <2>1. answer # "ok" => Sound(live, who, family, spent', dismissed)
                         /\ Sound(disk, who, family, spent', dismissed)
    BY DEF Inv
  <2> QED  BY <1>2, <1>3, <2>1, CommitKeeps
<1>5. SameClients(live, live') /\ degraded' \in BOOLEAN
  BY <1>3, SameClientsCommit, CommitEffect
<1>6. MemoryInv'  BY <1>0, <1>5, MemoryUntouched DEF Inv
<1>7. RequestInv'  BY <1>0 DEF Inv, RequestInv
<1> QED  BY <1>0, <1>1, <1>4, <1>6, <1>7 DEF Inv

LEMMA DenyConsentKeeps ==
    ASSUME Inv, NEW f \in DOMAIN who, NEW answer \in Answers, DenyConsent(f, answer)
    PROVE  Inv'
<1> DEFINE next == [live EXCEPT !.pending = @ \ {f}, !.ceremony = @ \ {f}]
<1>1. live \in FilesOf(who, family)  BY DEF Inv, Sound
<1>2. next \in FilesOf(who, family) /\ next.clients = live.clients /\ Shrinks(live, next)
      /\ f \notin next.pending
  BY <1>1 DEF FilesOf, Shrinks
<1>3. SameClients(live, next)  BY <1>2 DEF SameClients
<1>4. Commit(next, answer) /\ ConsentOnly
      /\ spent' = IF answer = "ok" THEN spent \cup {Consent(f)} ELSE spent
  BY DEF DenyConsent
<1> HIDE DEF next
<1>5. dismissed \subseteq Clients  BY WorldFacts DEF Inv
<1>6. Sound(next, who, family, spent, dismissed)
  BY <1>2, <1>5, ShrinkingKeeps DEF Inv
<1> QED  BY <1>2, <1>3, <1>4, <1>6, DecidingKeeps

LEMMA FinishOwnerApprovalKeeps ==
    ASSUME Inv, NEW f \in DOMAIN who, NEW answer \in Answers, FinishOwnerApproval(f, answer)
    PROVE  Inv'
<1>1. f \in live.pending /\ Commit(IssueCode(f), answer) /\ ConsentOnly
      /\ spent' = IF answer = "ok" THEN spent \cup {Consent(f)} ELSE spent
  BY DEF FinishOwnerApproval
<1>2. /\ Sound(IssueCode(f), who, family, spent, dismissed)
      /\ Sound(IssueCode(f), who, family, spent \cup {Consent(f)}, dismissed)
      /\ SameClients(live, IssueCode(f))
  BY <1>1, CodeKeeps DEF Inv, SameClients
<1>3. f \notin IssueCode(f).pending
  BY <1>2 DEF Sound, NotBefore
<1> QED  BY <1>1, <1>2, <1>3, DecidingKeeps

\* Registering a client, at its own request or from its document, with the eviction
\* that comes before it.
LEMMA InsertingKeeps ==
    ASSUME Inv, NEW c \in Clients, NEW answer \in Answers, c \notin live.revoked,
           Commit([Evict(live) EXCEPT !.clients[c] = "live"], answer),
           Lifecycles(Lapsed(live), {c}, answer), RequestInv',
           UNCHANGED <<seen, ended, who, family, spent, dismissed>>
    PROVE  Inv'
<1> DEFINE next == [Evict(live) EXCEPT !.clients[c] = "live"]
<1>1. live \in FilesOf(who, family) /\ degraded \in BOOLEAN /\ dismissed \subseteq Clients
  BY WorldFacts DEF Inv, Sound, MemoryInv
<1>2. /\ Evict(live) \in FilesOf(who, family) /\ Shrinks(live, Evict(live))
      /\ Evict(live).revoked = live.revoked
      /\ \A d \in Clients : Evict(live).clients[d] =
                              IF d \in Lapsed(live) THEN "none" ELSE live.clients[d]
  BY <1>1, EvictEffect
<1>3. Sound(Evict(live), who, family, spent, dismissed)
  BY <1>1, <1>2, ShrinkingKeeps DEF Inv
<1>4. /\ Sound(next, who, family, spent, dismissed)
      /\ next.clients = [Evict(live).clients EXCEPT ![c] = "live"]
  BY <1>2, <1>3, RegisterKeeps
<1>5. Commit(next, answer)  OBVIOUS
<1> HIDE DEF next
<1>6. \A d \in Clients : next.clients[d] =
          IF d \in {c} THEN "live" ELSE IF d \in Lapsed(live) THEN "none" ELSE live.clients[d]
  <2>1. Evict(live).clients \in [Clients -> {"none", "live", "expired"}]
    BY <1>2, FieldsOfFile
  <2> QED  BY <1>2, <1>4, <2>1
<1>7. Sound(live', who, family, spent, dismissed) /\ Sound(disk', who, family, spent, dismissed)
  BY <1>1, <1>4, <1>5, CommitKeeps DEF Inv
<1>8. MemoryInv /\ {c} \subseteq Clients  BY DEF Inv
<1>9. /\ life' \in [Clients -> States] /\ leases' \subseteq leases
      /\ Working(live', life', ended, leases') /\ Covered(live', life', shut')
  BY <1>5, <1>6, <1>8, LifecyclesKeep
<1>10. degraded' \in BOOLEAN  BY <1>1, <1>5, CommitEffect
<1>11. MemoryInv'
  BY <1>8, <1>9, <1>10 DEF MemoryInv
<1> QED  BY <1>7, <1>11 DEF Inv

LEMMA RegisterClientKeeps ==
    ASSUME Inv, NEW c \in Clients, NEW answer \in Answers, RegisterClient(c, answer)
    PROVE  Inv'
<1>1. /\ c \notin live.revoked
      /\ Commit([Evict(live) EXCEPT !.clients[c] = "live"], answer)
      /\ Lifecycles(Lapsed(live), {c}, answer)
      /\ UNCHANGED <<seen, ended, req, who, family, spent, dismissed>>
  BY DEF RegisterClient, issued
<1>2. RequestInv'  BY <1>1 DEF Inv, RequestInv
<1> QED  BY <1>1, <1>2, InsertingKeeps

LEMMA FetchedKeeps ==
    ASSUME Inv, NEW r \in Requests, NEW answer \in Answers, Fetched(r, answer)
    PROVE  Inv'
<1> DEFINE c == req[r].client
<1>1. c \in Clients /\ req[r] \in Request
  BY DEF Inv, RequestInv, Fetched, Fetching, Request
<1>2. /\ c \notin live.revoked
      /\ Commit([Evict(live) EXCEPT !.clients[c] = "live"], answer)
      /\ Lifecycles(Lapsed(live), {c}, answer)
      /\ UNCHANGED <<seen, ended, who, family, spent, dismissed>>
  BY DEF Fetched, issued
<1>3. RequestInv'
  <2>1. CASE answer = "ok"
    <3>1. req' = [req EXCEPT ![r] = [req[r] EXCEPT !.pc = "begin"]]
      BY <2>1 DEF Fetched, Inv, RequestInv
    <3>2. [req[r] EXCEPT !.pc = "begin"] \in Request /\ [req[r] EXCEPT !.pc = "begin"].client = c
      BY <1>1 DEF Request
    <3> QED  BY <1>1, <3>1, <3>2, RequestMoved DEF Inv
  <2>2. CASE answer # "ok"
    <3>1. req' = [req EXCEPT ![r] = NoRequest]  BY <2>2 DEF Fetched
    <3> QED  BY <3>1, RequestDone DEF Inv
  <2> QED  BY <2>1, <2>2
<1> HIDE DEF c
<1> QED  BY <1>1, <1>2, <1>3, InsertingKeeps

\* Revocation: what is committed is without the client, and its lifecycle does not
\* come back whatever becomes of the commit.
LEMMA RevokeClientKeeps ==
    ASSUME Inv, NEW c \in Clients, NEW answer \in Answers, RevokeClient(c, answer)
    PROVE  Inv'
<1> DEFINE u == Without(live, c)
           next == [u EXCEPT !.revoked = @ \cup {c}]
<1>1. /\ Commit(next, answer)
      /\ life' = [life EXCEPT ![c] = IF answer = "ok" \/ @ = "none" THEN "none" ELSE "inactive"]
      /\ leases' = {l \in leases : l.client # c}
      /\ shut' = IF answer = "ok" THEN {x \in shut : x[1] # c}
                                  ELSE shut \cup {<<c, "revocation">>}
      /\ dismissed' = IF answer = "ok" THEN dismissed \cup {c} ELSE dismissed
      /\ UNCHANGED <<seen, ended, req, who, family, spent>>
  BY DEF RevokeClient, issued
<1>2. live \in FilesOf(who, family) /\ degraded \in BOOLEAN /\ dismissed \subseteq Clients
  BY WorldFacts DEF Inv, Sound, MemoryInv
<1>3. /\ u \in FilesOf(who, family) /\ Shrinks(live, u)
      /\ u.clients = [live.clients EXCEPT ![c] = "none"] /\ u.revoked = live.revoked
      /\ \A f \in u.pending \cup u.codes : who[f] # c
      /\ \A p \in u.access \cup u.refresh : who[family[p]] # c
  BY <1>2, WithoutEffect
<1> HIDE DEF u
<1>4. next = [clients |-> u.clients, revoked |-> u.revoked \cup {c}, pending |-> u.pending,
              ceremony |-> u.ceremony, codes |-> u.codes, access |-> u.access,
              refresh |-> u.refresh, consumed |-> u.consumed]
  <2>1. u = [clients |-> u.clients, revoked |-> u.revoked, pending |-> u.pending,
             ceremony |-> u.ceremony, codes |-> u.codes, access |-> u.access,
             refresh |-> u.refresh, consumed |-> u.consumed]
    BY <1>3, FieldsOfFile
  <2>2. next = [u EXCEPT !.revoked = u.revoked \cup {c}]
    BY <2>1
  <2> HIDE DEF next
  <2> QED  BY ONLY <2>1, <2>2
<1> HIDE DEF next
<1>5. next \in FilesOf(who, family)
  BY <1>3, <1>4, FieldsOfFile DEF FilesOf
<1>6. Shrinks(live, next)  BY <1>3, <1>4 DEF Shrinks
<1>7. Sound(next, who, family, spent, dismissed)
  BY <1>2, <1>5, <1>6, ShrinkingKeeps DEF Inv
<1>8. next.clients \in [Clients -> {"none", "live", "expired"}]
      /\ next.clients[c] = "none" /\ \A d \in Clients \ {c} : next.clients[d] = live.clients[d]
  <2>1. live.clients \in [Clients -> {"none", "live", "expired"}]  BY <1>2, FieldsOfFile
  <2>2. next.clients = [live.clients EXCEPT ![c] = "none"]  BY <1>3, <1>4
  <2> QED  BY <2>1, <2>2
<1>9. Dismissed(next, who, family, dismissed \cup {c})
  BY <1>3, <1>4, <1>7, <1>8 DEF Sound, Dismissed
<1>10. Sound(next, who, family, spent, dismissed')
  BY <1>1, <1>7, <1>9 DEF Sound
<1>11. Sound(live', who, family, spent, dismissed') /\ Sound(disk', who, family, spent, dismissed')
  <2>1. answer # "ok" => Sound(live, who, family, spent, dismissed')
                         /\ Sound(disk, who, family, spent, dismissed')
    BY <1>1 DEF Inv
  <2> QED  BY <1>1, <1>2, <1>10, <2>1, CommitKeeps
<1>12. World(who, family, spent, dismissed')  BY <1>1 DEF Inv, World
<1>13. degraded' \in BOOLEAN /\ (live' = next \/ (live' = live /\ answer # "ok"))
  BY <1>1, <1>2, CommitEffect DEF Answers
<1>14. life \in [Clients -> States]  BY DEF Inv, MemoryInv
<1>15. /\ life' \in [Clients -> States]
       /\ \A d \in Clients \ {c} : life'[d] = life[d]
       /\ answer = "ok" => life'[c] = "none"
       /\ life'[c] # "active"
  BY <1>1, <1>14 DEF States
<1>16. \A d \in Clients \ {c} : live'.clients[d] = live.clients[d]
  BY <1>8, <1>13
<1>17. Working(live', life', ended, leases')
  <2> SUFFICES ASSUME NEW l \in leases'
               PROVE  live'.clients[l.client] # "none" /\ life'[l.client] = "active"
                      /\ l.family \notin ended
    BY DEF Working
  <2>1. l \in leases /\ l.client # c  BY <1>1
  <2>2. l.client \in Clients \ {c}  BY <2>1 DEF Inv, MemoryInv, Leases
  <2>3. live.clients[l.client] # "none" /\ life[l.client] = "active" /\ l.family \notin ended
    BY <2>1 DEF Inv, MemoryInv, Working
  <2> QED  BY <1>15, <1>16, <2>2, <2>3
<1>18. Covered(live', life', shut')
  <2> SUFFICES ASSUME NEW d \in Clients
               PROVE  /\ life'[d] = "inactive" => \E x \in shut' : x[1] = d
                      /\ live'.clients[d] # "none" =>
                            life'[d] = "active" \/ \E x \in shut' : x[1] = d
    BY DEF Covered
  <2>1. CASE d # c
    <3>1. life'[d] = life[d] /\ live'.clients[d] = live.clients[d]  BY <1>15, <1>16, <2>1
    <3>2. \A x \in shut : x[1] = d => x \in shut'  BY <1>1, <2>1
    <3>3. /\ life[d] = "inactive" => \E x \in shut : x[1] = d
          /\ live.clients[d] # "none" => life[d] = "active" \/ \E x \in shut : x[1] = d
      BY DEF Inv, MemoryInv, Covered
    <3> QED  BY <3>1, <3>2, <3>3
  <2>2. CASE d = c /\ answer = "ok"
    BY <1>8, <1>13, <1>15, <2>2
  <2>3. CASE d = c /\ answer # "ok"
    <3>1. <<c, "revocation">> \in shut'  BY <1>1, <2>3
    <3>2. <<c, "revocation">>[1] = d  BY <2>3
    <3> QED  BY <3>1, <3>2
  <2> QED  BY <2>1, <2>2, <2>3
<1>19. MemoryInv'
  <2>1. leases' \subseteq Leases(who')  BY <1>1 DEF Inv, MemoryInv, Leases
  <2>2. ended' \subseteq seen' /\ seen' \subseteq DOMAIN who'  BY <1>1 DEF Inv, MemoryInv
  <2>3. ended' = ended  BY <1>1
  <2> QED  BY <1>13, <1>15, <1>17, <1>18, <2>1, <2>2, <2>3 DEF MemoryInv
<1>20. RequestInv'  BY <1>1 DEF Inv, RequestInv
<1> QED  BY <1>1, <1>11, <1>12, <1>19, <1>20 DEF Inv

LEMMA BeginAuthorizationKeeps ==
    ASSUME Inv, NEW r \in Requests, NEW answer \in Answers, BeginAuthorization(r, answer)
    PROVE  Inv'
<1> DEFINE c == req[r].client
           f == Cardinality(DOMAIN who) + 1
           u == Evict(live)
           next == [u EXCEPT !.pending = @ \cup {f}]
<1>1. /\ u.clients[c] = "live" /\ f \in 1..MaxFlows
      /\ Commit(next, answer)
      /\ who' = [g \in 1..f |-> IF g = f THEN c ELSE who[g]]
      /\ Lifecycles(Lapsed(live), {}, answer)
      /\ req' = [req EXCEPT ![r] = NoRequest]
      /\ UNCHANGED <<seen, ended, family, spent, dismissed>>
  BY DEF BeginAuthorization, Flows
<1>2. c \in Clients
  BY DEF Inv, RequestInv, BeginAuthorization
<1>3. live \in FilesOf(who, family) /\ degraded \in BOOLEAN /\ dismissed \subseteq Clients
      /\ \A p \in DOMAIN family : family[p] \in DOMAIN who
  BY WorldFacts DEF Inv, Sound, MemoryInv
<1>4. /\ u \in FilesOf(who, family) /\ Shrinks(live, u)
      /\ \A d \in Clients : u.clients[d] =
                              IF d \in Lapsed(live) THEN "none" ELSE live.clients[d]
  BY <1>3, EvictEffect
<1> HIDE DEF c, u
<1>5. Sound(u, who, family, spent, dismissed)
  BY <1>3, <1>4, ShrinkingKeeps DEF Inv
<1>6. /\ f \notin DOMAIN who /\ DOMAIN who' = DOMAIN who \cup {f}
      /\ who'[f] = c /\ \A g \in DOMAIN who : who'[g] = who[g]
      /\ Sequenced(who', MaxFlows, Clients)
  <2>1. Sequenced(who, MaxFlows, Clients) /\ MaxFlows \in Nat
    BY OAuthAssumption DEF Inv, World
  <2>2. f = NextOf(who) /\ NextOf(who) \in 1..MaxFlows  BY <1>1 DEF NextOf
  <2>3. who' = Extended(who, c)  BY <1>1 DEF Extended, NextOf
  <2> HIDE DEF next, f
  <2> QED  BY <1>2, <2>1, <2>2, <2>3, Extending
<1>7. World(who', family, spent, dismissed)
  <2>1. Sequenced(family, MaxPairs, DOMAIN who')
    BY <1>6 DEF Inv, World, Sequenced
  <2>2. \A g : Consent(g) \in spent \/ Code(g) \in spent \/ <<"family", g>> \in spent
                 => g \in DOMAIN who'
    BY <1>6 DEF Inv, World
  <2> QED  BY <1>6, <2>1, <2>2 DEF Inv, World
<1> HIDE DEF f
<1>8. World(who, family, spent, dismissed)  BY DEF Inv
<1>9. u.clients[c] # "none"  BY <1>1
<1>10. Sound(next, who', family, spent, dismissed) /\ next.clients = u.clients
  BY <1>2, <1>3, <1>5, <1>6, <1>8, <1>9, BeginKeeps
<1> HIDE DEF next
<1>11. Sound(live, who', family, spent, dismissed) /\ Sound(disk, who', family, spent, dismissed)
  BY <1>3, <1>6, GrowingKeeps DEF Inv
<1>12. Sound(live', who', family, spent, dismissed) /\ Sound(disk', who', family, spent, dismissed)
  BY <1>1, <1>3, <1>10, <1>11, CommitKeeps
<1>13. /\ life' \in [Clients -> States] /\ leases' \subseteq leases
       /\ Working(live', life', ended, leases') /\ Covered(live', life', shut')
  <2>1. MemoryInv /\ {} \subseteq Clients  BY DEF Inv
  <2>2. \A d \in Clients : next.clients[d] =
          IF d \in {} THEN "live" ELSE IF d \in Lapsed(live) THEN "none" ELSE live.clients[d]
    BY <1>4, <1>10
  <2> QED  BY <1>1, <2>1, <2>2, LifecyclesKeep
<1>14. degraded' \in BOOLEAN  BY <1>1, <1>3, CommitEffect
<1>15. MemoryInv'
  <2>1. leases' \subseteq Leases(who')  BY <1>6, <1>13 DEF Inv, MemoryInv, Leases
  <2>2. ended' \subseteq seen' /\ seen' \subseteq DOMAIN who' /\ ended' = ended
    BY <1>1, <1>6 DEF Inv, MemoryInv
  <2> QED  BY <1>13, <1>14, <2>1, <2>2 DEF MemoryInv
<1>16. RequestInv'  BY <1>1, RequestDone DEF Inv
<1> QED  BY <1>1, <1>7, <1>12, <1>15, <1>16 DEF Inv

\* Issuing a pair, in whatever state the exchange made of the file.
LEMMA GrantingKeeps ==
    ASSUME Inv, NEW r \in Requests, NEW st, NEW f \in DOMAIN who, NEW consumed,
           NEW answer \in Answers, Granting(r, st, f, consumed, answer),
           Sound(st, who, family, spent, dismissed),
           Sound(st, who, family, spent \cup consumed, dismissed),
           World(who, family, spent \cup consumed, dismissed),
           f \notin st.pending \cup st.codes, <<"family", f>> \notin spent \cup consumed,
           who[f] \notin dismissed, SameClients(live, st)
    PROVE  Inv'
<1>1. /\ spent' = IF answer = "ok" THEN spent \cup consumed ELSE spent
      /\ req' = [req EXCEPT ![r] = NoRequest]
      /\ UNCHANGED <<memory, who, dismissed, shut>>
  BY DEF Granting
<1>2. RequestInv'  BY <1>1, RequestDone DEF Inv
<1>3. World(who, family, spent, dismissed) /\ degraded \in BOOLEAN /\ MemoryInv
      /\ Sound(live, who, family, spent, dismissed) /\ Sound(disk, who, family, spent, dismissed)
  BY DEF Inv, MemoryInv
<1>4. CASE answer = "failed"
  <2>1. UNCHANGED <<live, disk, degraded, family>>  BY <1>4 DEF Granting
  <2>2. spent' = spent  BY <1>1, <1>4
  <2>3. SameClients(live, live')  BY <2>1 DEF SameClients
  <2>4. degraded' \in BOOLEAN /\ DOMAIN who \subseteq DOMAIN who'  BY <1>1, <1>3, <2>1
  <2>5. MemoryInv'  BY <1>1, <1>3, <2>3, <2>4, MemoryUntouched
  <2> QED  BY <1>1, <1>2, <1>3, <2>1, <2>2, <2>5 DEF Inv
<1>5. CASE answer # "failed"
  <2> DEFINE c == req[r].client
             new == Cardinality(DOMAIN family) + 1
             own == st.access \cap PairsOf(c)
             stays == {p \in own : Cardinality({q \in own : q > p}) < MaxAccess - 1}
             A == (st.access \ own) \cup stays \cup {new}
             n == [st EXCEPT !.access = A, !.refresh = @ \cup {new}]
  <2>1. Committed(answer) /\ IssuePair(st, c, f)  BY <1>5 DEF Granting
  <2>2. /\ new \in 1..MaxPairs
        /\ family' = [p \in 1..new |-> IF p = new THEN f ELSE family[p]]
        /\ live' = n
    BY <2>1 DEF IssuePair, Pairs
  <2>3. A \subseteq st.access \cup {new}  OBVIOUS
  <2> HIDE DEF c, own, stays, A
  <2>4. /\ new \notin DOMAIN family /\ DOMAIN family' = DOMAIN family \cup {new}
        /\ family'[new] = f /\ \A p \in DOMAIN family : family'[p] = family[p]
        /\ Sequenced(family', MaxPairs, DOMAIN who)
    <3>1. Sequenced(family, MaxPairs, DOMAIN who) /\ MaxPairs \in Nat
      BY <1>3, OAuthAssumption DEF World
    <3>2. new = NextOf(family) /\ NextOf(family) \in 1..MaxPairs  BY <2>2 DEF NextOf
    <3>3. family' = Extended(family, f)  BY <2>2 DEF Extended, NextOf
    <3> HIDE DEF n, new
    <3> QED  BY <3>1, <3>2, <3>3, Extending
  <2> HIDE DEF new
  <2>5. Sound(n, who, family', spent, dismissed) /\ n.clients = st.clients
    <3>1. /\ f \in DOMAIN who /\ f \notin st.pending \cup st.codes /\ who[f] \notin dismissed
          /\ Sound(st, who, family, spent, dismissed)
          /\ World(who, family, spent, dismissed)
          /\ <<"family", f>> \notin spent
      BY <1>3
    <3>2. Sound(n, who, family', spent, dismissed)
      BY ONLY <2>3, <2>4, <3>1, PairKeeps
    <3>3. n.clients = st.clients
      <4>1. st \in FilesOf(who, family)  BY <3>1 DEF Sound
      <4> QED  BY ONLY <4>1 DEF FilesOf
    <3> QED  BY <3>2, <3>3
  <2>6. Sound(n, who, family', spent \cup consumed, dismissed)
    <3>1. /\ f \in DOMAIN who /\ f \notin st.pending \cup st.codes /\ who[f] \notin dismissed
          /\ Sound(st, who, family, spent \cup consumed, dismissed)
          /\ World(who, family, spent \cup consumed, dismissed)
          /\ <<"family", f>> \notin spent \cup consumed
      OBVIOUS
    <3> QED  BY ONLY <2>3, <2>4, <3>1, PairKeeps
  <2> HIDE DEF n
  <2>7. /\ World(who, family', spent, dismissed)
        /\ World(who, family', spent \cup consumed, dismissed)
    BY <1>3, <2>4 DEF World
  <2>8. \A p \in DOMAIN family : family[p] \in DOMAIN who  BY <1>3, WorldFacts
  <2>9. Sound(disk, who, family', spent, dismissed)
    BY <1>3, <2>4, <2>8, GrowingKeeps
  <2>10. CASE answer = "ok"
    <3>1. disk' = n /\ degraded' = degraded /\ spent' = spent \cup consumed
      BY <1>1, <2>1, <2>2, <2>10 DEF Committed
    <3>2. SameClients(live, live')  BY <2>2, <2>5 DEF SameClients
    <3>3. MemoryInv'  BY <1>1, <1>3, <3>1, <3>2, MemoryUntouched
    <3> QED  BY <1>1, <1>2, <2>2, <2>6, <2>7, <3>1, <3>3 DEF Inv
  <2>11. CASE answer = "uncertain"
    <3>1. disk' = disk /\ degraded' = TRUE /\ spent' = spent
      BY <1>1, <2>1, <2>11 DEF Committed
    <3>2. SameClients(live, live')  BY <2>2, <2>5 DEF SameClients
    <3>3. MemoryInv'  BY <1>1, <1>3, <3>1, <3>2, MemoryUntouched
    <3> QED  BY <1>1, <1>2, <2>2, <2>5, <2>7, <2>9, <3>1, <3>3 DEF Inv
  <2> QED  BY <1>5, <2>10, <2>11 DEF Answers
<1> QED  BY <1>4, <1>5

LEMMA ExchangeAuthorizationCodeKeeps ==
    ASSUME Inv, NEW r \in Requests, NEW f \in DOMAIN who, NEW answer \in Answers,
           ExchangeAuthorizationCode(r, f, answer)
    PROVE  Inv'
<1> DEFINE st == [live EXCEPT !.codes = @ \ {f}]
<1>1. f \in live.codes /\ Granting(r, st, f, {Code(f)}, answer)
  BY DEF ExchangeAuthorizationCode
<1>2. live \in FilesOf(who, family) /\ dismissed \subseteq Clients
      /\ Sound(live, who, family, spent, dismissed) /\ World(who, family, spent, dismissed)
  BY WorldFacts DEF Inv, Sound
<1>3. st \in FilesOf(who, family) /\ Shrinks(live, st) /\ st.clients = live.clients
      /\ st.pending = live.pending /\ st.codes = live.codes \ {f}
  BY <1>2 DEF FilesOf, Shrinks
<1> HIDE DEF st
<1>4. Sound(st, who, family, spent, dismissed)
  BY <1>2, <1>3, ShrinkingKeeps
<1>5. f \notin st.pending \cup st.codes
  BY <1>1, <1>2, <1>3 DEF Sound, OneStage
<1>6. Sound(st, who, family, spent \cup {Code(f)}, dismissed)
  BY <1>4, <1>5, CodeSpent
<1>7. World(who, family, spent \cup {Code(f)}, dismissed)  BY <1>2, WorldSpent
<1>8. <<"family", f>> \notin spent /\ who[f] \notin dismissed
  BY <1>1, <1>2 DEF Sound, NotBefore, Dismissed
<1>9. <<"family", f>> \notin spent \cup {Code(f)}  BY <1>8 DEF Code
<1>10. SameClients(live, st)  BY <1>3 DEF SameClients
<1> QED  BY <1>1, <1>4, <1>5, <1>6, <1>7, <1>8, <1>9, <1>10, GrantingKeeps

\* What a token says of its family.
LEMMA TokenFacts ==
    ASSUME Inv, NEW p \in Tokens(live)
    PROVE  /\ p \in DOMAIN family /\ family[p] \in DOMAIN who
           /\ family[p] \notin live.pending \cup live.codes
           /\ <<"family", family[p]>> \notin spent
           /\ p \in live.access \cup live.refresh => who[family[p]] \notin dismissed
<1>1. live \in FilesOf(who, family) /\ World(who, family, spent, dismissed)
      /\ Sound(live, who, family, spent, dismissed)
  BY DEF Inv, Sound
<1>2. p \in DOMAIN family  BY <1>1, FieldsOfFile DEF Tokens
<1>3. family[p] \in DOMAIN who  BY <1>1, <1>2, WorldFacts
<1> QED  BY <1>1, <1>2, <1>3 DEF Sound, OneStage, NotBefore, Dismissed

LEMMA ExchangeRefreshTokenKeeps ==
    ASSUME Inv, NEW r \in Requests, NEW p \in DOMAIN family, NEW answer \in Answers,
           ExchangeRefreshToken(r, p, answer)
    PROVE  Inv'
<1> DEFINE c == req[r].client
           u == Prune(live)
           st == [u EXCEPT !.refresh = @ \ {p}, !.consumed = @ \cup {p},
                           !.clients[c] = IF @ = "none" THEN @ ELSE "live"]
           f == family[p]
           cl == [live.clients EXCEPT ![c] = IF @ = "none" THEN @ ELSE "live"]
<1>1. p \in live.refresh /\ Granting(r, st, f, {Refresh(p)}, answer)
  BY DEF ExchangeRefreshToken
<1>2. live \in FilesOf(who, family) /\ dismissed \subseteq Clients
      /\ Sound(live, who, family, spent, dismissed) /\ World(who, family, spent, dismissed)
  BY WorldFacts DEF Inv, Sound
<1>3. c \in Clients
  BY DEF Inv, RequestInv, ExchangeRefreshToken
<1>4. /\ u \in FilesOf(who, family) /\ Shrinks(live, u) /\ u.clients = live.clients
      /\ u.pending = live.pending /\ u.codes = live.codes /\ u.access = live.access
      /\ u.refresh = live.refresh
  BY <1>2, PruneEffect
<1>5. /\ cl \in [Clients -> {"none", "live", "expired"}]
      /\ \A d \in Clients : cl[d] = "none" <=> live.clients[d] = "none"
  BY <1>2, <1>3, FieldsOfFile
<1> HIDE DEF u
<1>6. st = [clients |-> cl, revoked |-> u.revoked, pending |-> u.pending,
            ceremony |-> u.ceremony, codes |-> u.codes, access |-> u.access,
            refresh |-> u.refresh \ {p}, consumed |-> u.consumed \cup {p}]
  <2>1. u = [clients |-> u.clients, revoked |-> u.revoked, pending |-> u.pending,
             ceremony |-> u.ceremony, codes |-> u.codes, access |-> u.access,
             refresh |-> u.refresh, consumed |-> u.consumed]
    BY <1>4, FieldsOfFile
  <2>2. st = [u EXCEPT !.refresh = u.refresh \ {p}, !.consumed = u.consumed \cup {p},
                       !.clients = cl]
    BY <1>4, <2>1
  <2> HIDE DEF st, cl
  <2> QED  BY ONLY <2>1, <2>2
<1>7. f \in DOMAIN who /\ f \notin live.pending \cup live.codes
      /\ <<"family", f>> \notin spent /\ who[f] \notin dismissed
  <2>1. p \in Tokens(live) /\ p \in live.access \cup live.refresh  BY <1>1 DEF Tokens
  <2> QED  BY <2>1, TokenFacts
<1> HIDE DEF st, cl, c
<1>8. st \in FilesOf(who, family)
  BY <1>1, <1>4, <1>5, <1>6, FieldsOfFile DEF FilesOf
<1>9. Sound(u, who, family, spent, dismissed)
  BY <1>2, <1>4, ShrinkingKeeps
<1>10. Tokens(st) \subseteq Tokens(u) \cup {p} /\ p \in Tokens(u)
  BY <1>1, <1>4, <1>6 DEF Tokens
<1>11. st.refresh \cap st.consumed = {}
  BY <1>6, <1>9 DEF Sound, OneStage
<1>12. OneStage(st, family)
  BY <1>6, <1>9, <1>10, <1>11 DEF Sound, OneStage
<1>13. NotBefore(st, family, spent)
  <2>1. st.pending = u.pending /\ st.codes = u.codes /\ st.refresh \subseteq u.refresh
        /\ Tokens(st) \subseteq Tokens(u)
    BY <1>6, <1>10
  <2> QED  BY <1>9, <2>1 DEF Sound, NotBefore
<1>14. Dismissed(st, who, family, dismissed)
  <2>1. /\ st.pending = u.pending /\ st.codes = u.codes /\ st.refresh \subseteq u.refresh
        /\ st.access = u.access /\ st.revoked = u.revoked /\ st.clients = cl
    BY <1>6
  <2> QED  BY <1>2, <1>4, <1>5, <1>9, <2>1 DEF Sound, Dismissed
<1>15. Sound(st, who, family, spent, dismissed)
  BY <1>8, <1>12, <1>13, <1>14 DEF Sound
<1>16. p \notin st.refresh  BY <1>6
<1>17. Sound(st, who, family, spent \cup {Refresh(p)}, dismissed)
  BY <1>15, <1>16, RefreshSpent
<1>18. World(who, family, spent \cup {Refresh(p)}, dismissed)  BY <1>2, WorldSpent
<1>19. f \notin st.pending \cup st.codes  BY <1>4, <1>6, <1>7
<1>20. <<"family", f>> \notin spent \cup {Refresh(p)}  BY <1>7 DEF Refresh
<1>21. SameClients(live, st)  BY <1>5, <1>6 DEF SameClients
<1> HIDE DEF f
<1> QED
  BY <1>1, <1>7, <1>15, <1>17, <1>18, <1>19, <1>20, <1>21, GrantingKeeps

\* A used token within its family's life: its sibling shows that the family is alive.
LEMMA ReuseRefreshTokenKeeps ==
    ASSUME Inv, NEW r \in Requests, NEW p \in DOMAIN family, NEW answer \in Answers,
           ReuseRefreshToken(r, p, answer)
    PROVE  Inv'
<1>1. Granting(r, live, family[p], {}, answer)
  BY DEF ReuseRefreshToken
<1>2. PICK q \in live.refresh : family[q] = family[p]
  BY DEF ReuseRefreshToken, Siblings
<1>3. q \in Tokens(live) /\ q \in live.access \cup live.refresh  BY DEF Tokens
<1>4. /\ family[p] \in DOMAIN who
      /\ family[p] \notin live.pending \cup live.codes
      /\ <<"family", family[p]>> \notin spent
      /\ who[family[p]] \notin dismissed
  BY <1>2, <1>3, TokenFacts
<1>5. spent \cup {} = spent  OBVIOUS
<1>6. Sound(live, who, family, spent, dismissed) /\ World(who, family, spent, dismissed)
  BY DEF Inv
<1>7. SameClients(live, live)  BY DEF SameClients
<1> QED  BY <1>1, <1>4, <1>5, <1>6, <1>7, GrantingKeeps

\* A used token that comes back when the family is dead, late or from another client.
LEMMA ReplayRefreshTokenKeeps ==
    ASSUME Inv, NEW r \in Requests, NEW p \in DOMAIN family, NEW answer \in Answers,
           ReplayRefreshToken(r, p, answer)
    PROVE  Inv'
<1> DEFINE f == family[p]
           next == WithoutFamily(f)
<1>1. /\ p \in live.consumed
      /\ ended' = ended \cup (seen \cap {f})
      /\ leases' = {l \in leases : l.family # f}
      /\ Commit(next, answer)
      /\ spent' = IF answer = "ok" THEN spent \cup {<<"family", f>>} ELSE spent
      /\ req' = [req EXCEPT ![r] = NoRequest]
      /\ UNCHANGED <<life, seen, who, family, dismissed, shut>>
  BY DEF ReplayRefreshToken, issued
<1>2. live \in FilesOf(who, family) /\ dismissed \subseteq Clients /\ degraded \in BOOLEAN
      /\ Sound(live, who, family, spent, dismissed) /\ World(who, family, spent, dismissed)
  BY WorldFacts DEF Inv, Sound, MemoryInv
<1>3. f \in DOMAIN who /\ f \notin live.pending \cup live.codes
  <2>1. p \in Tokens(live)  BY <1>1 DEF Tokens
  <2> QED  BY <2>1, TokenFacts
<1> HIDE DEF f
<1>4. /\ next \in FilesOf(who, family) /\ Shrinks(live, next) /\ next.clients = live.clients
      /\ next.pending = live.pending /\ next.codes = live.codes
      /\ \A q \in Tokens(next) : family[q] # f
  BY <1>2, WithoutFamilyEffect
<1> HIDE DEF next
<1>5. Sound(next, who, family, spent, dismissed)
  BY <1>2, <1>4, ShrinkingKeeps
<1>6. Sound(next, who, family, spent \cup {<<"family", f>>}, dismissed)
  BY <1>3, <1>4, <1>5, FamilySpent
<1>7. World(who, family, spent', dismissed)
  BY <1>1, <1>2, <1>3, WorldSpent
<1>8. Sound(next, who, family, spent', dismissed)  BY <1>1, <1>5, <1>6
<1>9. Sound(live', who, family, spent', dismissed) /\ Sound(disk', who, family, spent', dismissed)
  <2>1. answer # "ok" => Sound(live, who, family, spent', dismissed)
                         /\ Sound(disk, who, family, spent', dismissed)
    BY <1>1 DEF Inv
  <2> QED  BY <1>1, <1>2, <1>8, <2>1, CommitKeeps
<1>10. SameClients(live, next)  BY <1>4 DEF SameClients
<1>11. SameClients(live, live') /\ degraded' \in BOOLEAN
  BY <1>1, <1>2, <1>10, SameClientsCommit, CommitEffect
<1>12. MemoryInv'
  <2>1. MemoryInv  BY DEF Inv
  <2>2. ended' \subseteq seen' /\ seen' \subseteq DOMAIN who' /\ leases' \subseteq leases
    BY <1>1, <2>1 DEF MemoryInv
  <2>3. \A l \in leases' : l.family \notin ended'
    BY <1>1, <2>1 DEF MemoryInv, Working
  <2> QED  BY <1>1, <1>11, <2>1, <2>2, <2>3, MemoryKept
<1>13. RequestInv'  BY <1>1, RequestDone DEF Inv
<1> QED  BY <1>1, <1>7, <1>9, <1>12, <1>13 DEF Inv

\* Steps that only move a request.
LEMMA FilesUnchanged ==
    ASSUME Inv, UNCHANGED <<live, disk, degraded, memory, who, family, spent, dismissed, shut>>,
           RequestInv'
    PROVE  Inv'
<1>1. SameClients(live, live') /\ degraded' \in BOOLEAN /\ MemoryInv
  BY DEF SameClients, Inv, MemoryInv
<1>2. MemoryInv'  BY <1>1, MemoryUntouched
<1> QED  BY <1>2 DEF Inv

LEMMA RequestStepsKeep ==
    ASSUME Inv, NEW r \in Requests,
           \/ FetchFails(r) \/ FetchRevoked(r) \/ BeginRefused(r) \/ GrantRefused(r)
           \/ \E c \in Clients : EnsureClient(r, c) \/ ValidateClient(r, c)
    PROVE  Inv'
<1>0. UNCHANGED <<live, disk, degraded, memory, who, family, spent, dismissed, shut>>
  BY DEF FetchFails, FetchRevoked, BeginRefused, GrantRefused, EnsureClient, ValidateClient,
         issued, history
<1>1. RequestInv  BY DEF Inv
<1>2. req \in [Requests -> Request]  BY <1>1 DEF RequestInv, Request
<1>3. CASE FetchFails(r)
  <2>1. CASE req[r].pc = "refetch"
    <3>1. req' = [req EXCEPT ![r] = [req[r] EXCEPT !.pc = "begin"]]
      BY <1>2, <1>3, <2>1 DEF FetchFails
    <3>2. [req[r] EXCEPT !.pc = "begin"] \in Request
          /\ [req[r] EXCEPT !.pc = "begin"].client = req[r].client
      BY <1>2 DEF Request
    <3>3. req[r].client \in Clients  BY <1>1, <2>1 DEF RequestInv
    <3>4. RequestInv'  BY <1>1, <3>1, <3>2, <3>3, RequestMoved
    <3> QED  BY <1>0, <3>4, FilesUnchanged
  <2>2. CASE req[r].pc # "refetch"
    <3>1. req' = [req EXCEPT ![r] = NoRequest]  BY <1>3, <2>2 DEF FetchFails
    <3> QED  BY <1>0, <1>1, <3>1, RequestDone, FilesUnchanged
  <2> QED  BY <2>1, <2>2
<1>4. CASE FetchRevoked(r) \/ BeginRefused(r) \/ GrantRefused(r)
  <2>1. req' = [req EXCEPT ![r] = NoRequest]
    BY <1>4 DEF FetchRevoked, BeginRefused, GrantRefused
  <2> QED  BY <1>0, <1>1, <2>1, RequestDone, FilesUnchanged
<1>5. ASSUME NEW c \in Clients, EnsureClient(r, c) \/ ValidateClient(r, c) PROVE Inv'
  <2>1. PICK k \in {"fetch", "refetch", "begin", "grant"} :
            req' = [req EXCEPT ![r] = [pc |-> k, client |-> c]]
    <3>1. CASE ValidateClient(r, c)
      <4>1. req' = [req EXCEPT ![r] = [pc |-> "grant", client |-> c]]
        BY <3>1 DEF ValidateClient
      <4> QED  BY <4>1
    <3>2. CASE EnsureClient(r, c)
      <4> DEFINE k == CASE c \in Dynamic -> "begin"
                        [] c \notin Dynamic /\ live.clients[c] = "live" -> "refetch"
                        [] OTHER -> "fetch"
      <4>1. k \in {"fetch", "refetch", "begin", "grant"}  OBVIOUS
      <4>2. req' = [req EXCEPT ![r] = [client |-> c, pc |-> k]]
        BY <3>2 DEF EnsureClient
      <4> HIDE DEF k
      <4>3. [client |-> c, pc |-> k] = [pc |-> k, client |-> c]  OBVIOUS
      <4> QED  BY <4>1, <4>2, <4>3
    <3> QED  BY <1>5, <3>1, <3>2
  <2> DEFINE x == [pc |-> k, client |-> c]
  <2>2. x \in Request /\ x.client \in Clients /\ req' = [req EXCEPT ![r] = x]
    BY <2>1 DEF Request
  <2> HIDE DEF x
  <2>3. RequestInv'  BY <1>1, <2>2, RequestMoved
  <2> QED  BY <1>0, <2>3, FilesUnchanged
<1> QED  BY <1>3, <1>4, <1>5

\* Admission takes a lease on a client that is there, in a sign-in that goes on.
LEMMA ValidateAccessTokenKeeps ==
    ASSUME Inv, NEW p \in DOMAIN family, ValidateAccessToken(p)
    PROVE  Inv'
<1>1. /\ p \in live.access /\ live.clients[who[family[p]]] # "none"
      /\ life[who[family[p]]] = "active" /\ family[p] \notin ended
      /\ seen' = seen \cup {family[p]}
      /\ leases' = leases \cup {[client |-> who[family[p]], family |-> family[p]]}
      /\ UNCHANGED <<live, disk, degraded, life, ended, req, who, family, spent, dismissed, shut>>
  BY DEF ValidateAccessToken, Admits, ClientOf, issued, history
<1>2. family[p] \in DOMAIN who /\ who[family[p]] \in Clients
  BY WorldFacts DEF Inv
<1> DEFINE l == [client |-> who[family[p]], family |-> family[p]]
<1>3. l \in Leases(who) /\ l.client = who[family[p]] /\ l.family = family[p]
  BY <1>2 DEF Leases
<1>4. leases' = leases \cup {l}  BY <1>1
<1> HIDE DEF l
<1>5. Working(live', life', ended', leases')
  BY <1>1, <1>3, <1>4 DEF Inv, MemoryInv, Working
<1>6. Covered(live', life', shut')  BY <1>1 DEF Inv, MemoryInv
<1>7. leases' \subseteq Leases(who')  BY <1>1, <1>3, <1>4 DEF Inv, MemoryInv
<1>8. /\ degraded' \in BOOLEAN /\ life' \in [Clients -> States]
      /\ ended' \subseteq seen' /\ seen' \subseteq DOMAIN who'
  BY <1>1, <1>2 DEF Inv, MemoryInv
<1>9. MemoryInv'  BY <1>5, <1>6, <1>7, <1>8 DEF MemoryInv
<1>10. RequestInv'  BY <1>1 DEF Inv, RequestInv
<1> QED  BY <1>1, <1>9, <1>10 DEF Inv

LEMMA ResyncKeeps ==
    ASSUME Inv, Resync
    PROVE  Inv'
<1>1. /\ degraded' = FALSE /\ disk' = live
      /\ UNCHANGED <<live, memory, req, who, family, spent, dismissed, shut>>
  BY DEF Resync, issued, history
<1>2. SameClients(live, live') /\ MemoryInv  BY <1>1 DEF SameClients, Inv
<1>3. MemoryInv'  BY <1>1, <1>2, MemoryUntouched
<1>4. RequestInv'  BY <1>1 DEF Inv, RequestInv
<1> QED  BY <1>1, <1>3, <1>4 DEF Inv

LEMMA TimePassesKeeps ==
    ASSUME Inv, NEW x, TimePasses(x)
    PROVE  Inv'
<1>1. /\ leases' \subseteq leases
      /\ UNCHANGED <<live, disk, degraded, life, seen, ended, req, who, family,
                     spent, dismissed, shut>>
  BY DEF TimePasses, issued, history
<1>2. SameClients(live, live') /\ MemoryInv  BY <1>1 DEF SameClients, Inv
<1>3. /\ degraded' \in BOOLEAN /\ ended' \subseteq seen' /\ seen' \subseteq DOMAIN who'
      /\ \A l \in leases' : l.family \notin ended'
  BY <1>1, <1>2 DEF MemoryInv, Working
<1>4. MemoryInv'  BY <1>1, <1>2, <1>3, MemoryKept
<1>5. RequestInv'  BY <1>1 DEF Inv, RequestInv
<1> QED  BY <1>1, <1>4, <1>5 DEF Inv

LEMMA ExpireRegistrationKeeps ==
    ASSUME Inv, NEW c \in Clients, ExpireRegistration(c)
    PROVE  Inv'
<1> DEFINE cl(st) == [st.clients EXCEPT ![c] = IF @ = "live" THEN "expired" ELSE @]
           n(st) == [st EXCEPT !.clients = cl(st)]
<1>1. ASSUME NEW st, Sound(st, who, family, spent, dismissed)
      PROVE  Sound(n(st), who, family, spent, dismissed) /\ SameClients(st, n(st))
  <2>1. st \in FilesOf(who, family) /\ dismissed \subseteq Clients
    BY <1>1, WorldFacts DEF Sound, Inv
  <2>2. /\ cl(st) \in [Clients -> {"none", "live", "expired"}]
        /\ \A d \in Clients : cl(st)[d] = "none" <=> st.clients[d] = "none"
    BY <2>1, FieldsOfFile
  <2> HIDE DEF cl
  <2>3. n(st) \in FilesOf(who, family) /\ Shrinks(st, n(st)) /\ n(st).clients = cl(st)
    BY <2>1, <2>2 DEF FilesOf, Shrinks
  <2> HIDE DEF n
  <2>4. Sound(n(st), who, family, spent, dismissed)
    BY <1>1, <2>1, <2>3, ShrinkingKeeps
  <2> QED  BY <2>2, <2>3, <2>4 DEF SameClients
<1>2. live' = n(live) /\ disk' = n(disk)
  <2>1. live \in FilesOf(who, family) /\ disk \in FilesOf(who, family)  BY DEF Inv, Sound
  <2>2. live.clients[c] = "live"  BY DEF ExpireRegistration
  <2>3. [live.clients EXCEPT ![c] = "expired"] = cl(live)  BY <2>2
  <2>4. live' = [live EXCEPT !.clients = [live.clients EXCEPT ![c] = "expired"]]
    BY <2>1 DEF ExpireRegistration, FilesOf
  <2>5. disk' = [disk EXCEPT !.clients = cl(disk)]
    BY <2>1 DEF ExpireRegistration, FilesOf
  <2> QED  BY <2>3, <2>4, <2>5
<1> HIDE DEF n, cl
<1>3. UNCHANGED <<degraded, memory, req, who, family, spent, dismissed, shut>>
  BY DEF ExpireRegistration, issued, history
<1>4. /\ Sound(live', who, family, spent, dismissed) /\ Sound(disk', who, family, spent, dismissed)
      /\ SameClients(live, live')
  BY <1>1, <1>2 DEF Inv
<1>5. MemoryInv /\ degraded' \in BOOLEAN  BY <1>3 DEF Inv, MemoryInv
<1>6. MemoryInv'  BY <1>3, <1>4, <1>5, MemoryUntouched
<1>7. RequestInv'  BY <1>3 DEF Inv, RequestInv
<1> QED  BY <1>3, <1>4, <1>6, <1>7 DEF Inv

\* A restart, from the file in memory's state or from what a power loss left.
LEMMA RestartKeeps ==
    ASSUME Inv, Restart
    PROVE  Inv'
<1>1. PICK st \in {live, disk} : live' = Load(st) /\ disk' = st
  BY DEF Restart
<1>2. /\ degraded' = FALSE /\ seen' = {} /\ ended' = {} /\ leases' = {} /\ shut' = {}
      /\ life' = [c \in Clients |-> IF live'.clients[c] # "none" THEN "active" ELSE "none"]
      /\ req' = [r \in Requests |-> NoRequest]
      /\ UNCHANGED <<who, family, spent, dismissed>>
  BY DEF Restart, issued
<1>3. Sound(st, who, family, spent, dismissed)  BY DEF Inv
<1>4. st \in FilesOf(who, family) /\ dismissed \subseteq Clients
  BY <1>3, WorldFacts DEF Sound, Inv
<1>5. Evict(st) \in FilesOf(who, family) /\ Shrinks(st, Evict(st))
  BY <1>4, EvictEffect
<1>6. Sound(Evict(st), who, family, spent, dismissed)
  BY <1>3, <1>4, <1>5, ShrinkingKeeps
<1>7. Prune(Evict(st)) \in FilesOf(who, family) /\ Shrinks(Evict(st), Prune(Evict(st)))
  BY <1>5, PruneEffect
<1>8. Sound(Prune(Evict(st)), who, family, spent, dismissed)
  BY <1>4, <1>6, <1>7, ShrinkingKeeps
<1>9. Sound(live', who, family, spent, dismissed)  BY <1>1, <1>8 DEF Load
<1>10. life' \in [Clients -> States] /\ Covered(live', life', shut')
  BY <1>2 DEF States, Covered
<1>11. MemoryInv'
  BY <1>2, <1>10 DEF MemoryInv, Working
<1>12. RequestInv'
  BY <1>2 DEF RequestInv, NoRequest
<1> QED  BY <1>1, <1>2, <1>3, <1>9, <1>11, <1>12 DEF Inv

-----------------------------------------------------------------------------
(* The theorems *)

LEMMA InitInv ==
    ASSUME Init
    PROVE  Inv
<1>1. who = << >> /\ family = << >> /\ spent = {} /\ dismissed = {} /\ live = Fresh
      /\ disk = Fresh /\ leases = {} /\ seen = {} /\ ended = {} /\ shut = {}
      /\ degraded = FALSE /\ life = [c \in Clients |-> "none"]
      /\ req = [r \in Requests |-> NoRequest]
  BY DEF Init
<1>2. ASSUME NEW n \in Nat, NEW S PROVE Sequenced(<< >>, n, S)
  <2>1. << >> \in [1..0 -> S] /\ 0 \in 0..n  OBVIOUS
  <2> QED  BY <2>1 DEF Sequenced
<1>3. World(who, family, spent, dismissed)
  BY <1>1, <1>2, OAuthAssumption DEF World
<1>4. Sound(Fresh, who, family, spent, dismissed)
  <2>1. Fresh \in FilesOf(who, family)  BY DEF Fresh, FilesOf
  <2>2. OneStage(Fresh, family) /\ Dismissed(Fresh, who, family, dismissed)
    BY <1>1 DEF Fresh, OneStage, Dismissed, Tokens
  <2>3. NotBefore(Fresh, family, spent)  BY <1>1 DEF NotBefore
  <2> QED  BY <2>1, <2>2, <2>3 DEF Sound
<1>5. life \in [Clients -> States] /\ Covered(live, life, shut)
  BY <1>1 DEF States, Covered, Fresh
<1>6. MemoryInv  BY <1>1, <1>5 DEF MemoryInv, Working
<1>7. RequestInv  BY <1>1 DEF RequestInv, NoRequest
<1> QED  BY <1>1, <1>3, <1>4, <1>6, <1>7 DEF Inv

LEMMA NextInv ==
    ASSUME Inv, [Next]_vars
    PROVE  Inv'
<1>1. ASSUME NEW answer \in Answers, Owner(answer) PROVE Inv'
  <2>1. PICK f \in DOMAIN who :
          \/ StartOwnerApproval(f, answer) \/ RejectOwnerApproval(f, answer)
          \/ FinishOwnerApproval(f, answer) \/ DenyConsent(f, answer)
          \/ ExpireConsent(f, answer)
    BY <1>1 DEF Owner
  <2>2. CASE StartOwnerApproval(f, answer)  BY <2>2, StartOwnerApprovalKeeps
  <2>3. CASE RejectOwnerApproval(f, answer)  BY <2>3, RejectOwnerApprovalKeeps
  <2>4. CASE FinishOwnerApproval(f, answer)  BY <2>4, FinishOwnerApprovalKeeps
  <2>5. CASE DenyConsent(f, answer)  BY <2>5, DenyConsentKeeps
  <2>6. CASE ExpireConsent(f, answer)  BY <2>6, ExpireConsentKeeps
  <2> QED  BY <2>1, <2>2, <2>3, <2>4, <2>5, <2>6
<1>2. ASSUME NEW answer \in Answers, Client(answer) PROVE Inv'
  <2>1. ASSUME NEW c \in Clients, RegisterClient(c, answer) PROVE Inv'
    BY <2>1, RegisterClientKeeps
  <2>2. ASSUME NEW c \in Clients, RevokeClient(c, answer) PROVE Inv'
    BY <2>2, RevokeClientKeeps
  <2>3. ASSUME NEW r \in Requests, Fetched(r, answer) PROVE Inv'
    BY <2>3, FetchedKeeps
  <2>4. ASSUME NEW r \in Requests, BeginAuthorization(r, answer) PROVE Inv'
    BY <2>4, BeginAuthorizationKeeps
  <2>5. ASSUME NEW r \in Requests, NEW f \in DOMAIN who, ExchangeAuthorizationCode(r, f, answer)
        PROVE Inv'
    BY <2>5, ExchangeAuthorizationCodeKeeps
  <2>6. ASSUME NEW r \in Requests, NEW p \in DOMAIN family, ExchangeRefreshToken(r, p, answer)
        PROVE Inv'
    BY <2>6, ExchangeRefreshTokenKeeps
  <2>7. ASSUME NEW r \in Requests, NEW p \in DOMAIN family, ReuseRefreshToken(r, p, answer)
        PROVE Inv'
    BY <2>7, ReuseRefreshTokenKeeps
  <2>8. ASSUME NEW r \in Requests, NEW p \in DOMAIN family, ReplayRefreshToken(r, p, answer)
        PROVE Inv'
    BY <2>8, ReplayRefreshTokenKeeps
  <2> QED  BY <1>2, <2>1, <2>2, <2>3, <2>4, <2>5, <2>6, <2>7, <2>8 DEF Client
<1>3. ASSUME NEW r \in Requests,
             \/ FetchFails(r) \/ FetchRevoked(r) \/ BeginRefused(r) \/ GrantRefused(r)
             \/ \E c \in Clients : EnsureClient(r, c) \/ ValidateClient(r, c)
      PROVE  Inv'
  BY <1>3, RequestStepsKeep
<1>4. ASSUME NEW p \in DOMAIN family, ValidateAccessToken(p) PROVE Inv'
  BY <1>4, ValidateAccessTokenKeeps
<1>5. ASSUME Resync PROVE Inv'  BY <1>5, ResyncKeeps
<1>6. ASSUME Restart PROVE Inv'  BY <1>6, RestartKeeps
<1>7. ASSUME Time PROVE Inv'
  <2>1. \/ \E x : TimePasses(x)
        \/ \E c \in Clients : ExpireRegistration(c)
    BY <1>7 DEF Time, ExpireConsentTime, ExpireCode, ExpireAccess, ExpireRefresh
  <2> QED  BY <2>1, TimePassesKeeps, ExpireRegistrationKeeps
<1>8. ASSUME UNCHANGED vars PROVE Inv'
  <2>1. /\ UNCHANGED <<live, disk, degraded, memory, who, family, spent, dismissed, shut>>
        /\ req' = req
    BY <1>8 DEF vars, issued, history
  <2>2. RequestInv'  BY <2>1 DEF Inv, RequestInv
  <2> QED  BY <2>1, <2>2, FilesUnchanged
<1> QED  BY <1>1, <1>2, <1>3, <1>4, <1>5, <1>6, <1>7, <1>8 DEF Next

\* The invariant: every file a process can be started from is sound, lifecycles follow
\* the registrations but for removals that did not become durable, and requests between
\* two critical sections name a client.
THEOREM OAuthInvariant == Spec => []Inv
<1>1. Init => Inv  BY InitInv
<1>2. Inv /\ [Next]_vars => Inv'  BY NextInv
<1> QED  BY <1>1, <1>2, PTL DEF Spec

\* For any number of clients, requests, flows and faults: a consent or code that was
\* answered as used is gone, a refresh token that was rotated is no current one, and a
\* revoked family has no token left, in memory and in the file a power loss leaves
\* (commit_state writes the file before a handler answers).
THEOREM SpentForGood == Spec => []SpentStaysSpent
<1>1. Inv => SpentStaysSpent
  <2> SUFFICES ASSUME Inv PROVE SpentStaysSpent  OBVIOUS
  <2>0. Files = FilesOf(who, family)  BY DEF Files, FilesOf
  <2>1. TypeOK
    <3>1. Sequenced(who, MaxFlows, Clients) /\ Sequenced(family, MaxPairs, DOMAIN who)
      BY DEF Inv, World
    <3>2. live \in Files /\ disk \in Files  BY <2>0 DEF Inv, Sound
    <3>3. \A st \in {live, disk} : st.refresh \cap st.consumed = {}
                                   /\ st.pending \cap st.codes = {}
      BY DEF Inv, Sound, OneStage
    <3>4. /\ degraded \in BOOLEAN
          /\ life \in [Clients -> {"none", "active", "inactive"}]
          /\ ended \subseteq seen /\ seen \subseteq DOMAIN who
          /\ leases \subseteq [client : Clients, family : DOMAIN who]
      BY DEF Inv, MemoryInv, States, Leases
    <3> QED  BY <3>1, <3>2, <3>3, <3>4 DEF TypeOK
  <2>2. ASSUME NEW st \in {live, disk}
        PROVE  /\ \A f \in DOMAIN who :
                   /\ Consent(f) \in spent => f \notin st.pending
                   /\ Code(f) \in spent => f \notin st.codes
                   /\ <<"family", f>> \in spent =>
                        \A p \in st.access \cup st.refresh \cup st.consumed : family[p] # f
               /\ \A p \in DOMAIN family : Refresh(p) \in spent => p \notin st.refresh
    <3>1. Sound(st, who, family, spent, dismissed)  BY DEF Inv
    <3> QED  BY <3>1 DEF Sound, NotBefore, Tokens
  <2> QED  BY <2>1, <2>2 DEF SpentStaysSpent
<1> QED  BY <1>1, OAuthInvariant, PTL

\* For any number of clients, requests, flows and faults: once revoke_client has answered
\* with success nothing of the client is left, and no fetch or grant that had passed
\* its check of the client brings it back.
THEOREM RevokedForGood == Spec => []RevokedStaysOut
<1>1. Inv => RevokedStaysOut
  <2> SUFFICES ASSUME Inv, NEW c \in dismissed
               PROVE  /\ \A st \in {live, disk} :
                          /\ st.clients[c] = "none"
                          /\ \A f \in st.pending \cup st.codes : who[f] # c
                          /\ (st.access \cup st.refresh) \cap PairsOf(c) = {}
                      /\ \A l \in leases : l.client # c
    BY DEF RevokedStaysOut
  <2>1. ASSUME NEW st \in {live, disk}
        PROVE  /\ st.clients[c] = "none"
               /\ \A f \in st.pending \cup st.codes : who[f] # c
               /\ (st.access \cup st.refresh) \cap PairsOf(c) = {}
    <3>1. Sound(st, who, family, spent, dismissed)  BY DEF Inv
    <3> QED  BY <3>1 DEF Sound, Dismissed, PairsOf, ClientOf
  <2>2. \A l \in leases : l.client # c
    BY <2>1 DEF Inv, MemoryInv, Working
  <2> QED  BY <2>1, <2>2
<1> QED  BY <1>1, OAuthInvariant, PTL

\* For any number of clients, requests, flows and faults: work goes on only under a
\* registered client with a live lifecycle and a sign-in that was not ended, and a
\* registered client has such a lifecycle unless a removal of it stayed in doubt.
THEOREM AdmissionExact == Spec => []AdmissionIsExact
<1>1. Inv => AdmissionIsExact
  BY DEF Inv, MemoryInv, Working, Covered, AdmissionIsExact
<1> QED  BY <1>1, OAuthInvariant, PTL

-----------------------------------------------------------------------------
(***************************************************************************)
(* The configuration and the key store.  That the keys the file refers to  *)
(* are well is not inductive: a change writes a draft, puts a key back and *)
(* forgets keys, and the command line writes what it read long before.  So *)
(* the invariant also says it of the draft, of what would be put back, of  *)
(* what forget compares with, and of the save that is under way.           *)
(***************************************************************************)

Paths == {"config", "other"}

ChangeJobs ==
    [pc : {"stage", "read", "persist", "refused", "undo", "load", "apply",
           "forget"},
     op : {"add", "update", "remove", "account", "toggle"}, name : Servers,
     ref : Refs \cup {Redacted}, seen : Configs \cup {Torn}, was : Refs,
     staged : {<<>>} \cup {<<v>> : v \in Values \cup {Nothing}},
     next : Configs, by : {"change"}]
ReloadJobs == [pc : {"apply"}, next : Configs, by : {"ipc", "watcher"}]
Saves == [pc : {"loaded", "truncated", "torn"}, config : Configs, linked : BOOLEAN]

-----------------------------------------------------------------------------
(* The invariant. *)

\* The types of what is on disk and in memory, with what a change carries: only
\* an update leaves a key untouched, and only an account copy has a base server.
StateTypes ==
    /\ file \in Configs \cup {Torn} /\ mem \in Configs
    /\ store \in [Servers -> Values \cup {Nothing}]
    /\ accepted \in [Servers -> Values \cup {Nothing}]
    /\ job \in ChangeJobs \cup ReloadJobs \cup {Idle}
    /\ cli \in Saves \cup {Idle}
    /\ spoiled \subseteq Servers /\ crossed \subseteq Servers
    /\ job \in ChangeJobs /\ job.ref = Redacted => job.op = "update"
    /\ job \in ChangeJobs /\ job.op = "account" => job.name \in DOMAIN CopyOf

\* The types of the queue, of the watcher and of the bounds.
WatchTypes ==
    /\ queue \in Seq(Waiters)
    /\ daemon \in {"down", "blind", "up"}
    /\ dirty \in BOOLEAN /\ missed \in BOOLEAN
    /\ chan \in Seq(Paths) /\ Len(chan) <= ChanCap
    /\ used \in Counts
    /\ daemon = "down" => job = Idle /\ queue = <<>> /\ chan = <<>> /\ ~dirty

\* The key k is in the store with the value last accepted, or there is an excuse.
WellKept(k) == store[k] # Nothing /\ store[k] = accepted[k]
Excused(k) == k \in spoiled \cup crossed
Ok(k) == Excused(k) \/ k \in InHand \/ WellKept(k)

FileOk == \A k \in FileKeys : Ok(k)

\* What the command line will write refers to such keys; those of a save that a
\* change runs beside are crossed.
SaveOk ==
    MidSave /\ cli.linked =>
        \A k \in KeysOf(cli.config) : Ok(k) /\ (job \in ChangeJobs => k \in crossed)

SeenKeys == IF job.seen = Torn THEN {} ELSE KeysOf(job.seen)

\* What a change is about to write refers to such keys.
DraftOk ==
    /\ job.pc \in {"stage", "read"} =>
          \A k \in Servers : job.ref = Key(k) => Ok(k)
    /\ job.pc = "persist" => \A k \in KeysOf(job.next) : Ok(k)

\* What a change would put back is the accepted value of a key the file had.
UndoOk ==
    /\ job.pc = "stage" => job.staged = <<>>
    /\ job.pc = "stage" /\ job.name \in SeenKeys =>
          Excused(job.name) \/ WellKept(job.name)
    /\ job.pc \in {"read", "persist", "refused", "undo"} /\ job.staged # <<>> =>
          /\ store[job.name] \in Values
          /\ job.name \in SeenKeys =>
                \/ Excused(job.name)
                \/ job.staged[1] # Nothing /\ job.staged[1] = accepted[job.name]
    /\ job.pc = "undo" => FileKeys \subseteq crossed \cup SeenKeys

\* What forget looks at in memory has the keys of the file.
ForgetOk ==
    /\ job.pc = "apply" /\ job \in ChangeJobs =>
          FileKeys \subseteq crossed \cup KeysOf(job.next)
    /\ job.pc = "forget" => FileKeys \subseteq crossed \cup KeysOf(mem)

KeyInv == FileOk /\ SaveOk /\ DraftOk /\ UndoOk /\ ForgetOk
ConfigInv == StateTypes /\ WatchTypes /\ KeyInv

-----------------------------------------------------------------------------
(* References and configurations. *)

\* The kinds of reference differ in their fields.
LEMMA RefKinds ==
    /\ \A k : Key(k) # NoKey /\ Key(k) # Redacted /\ Key(k).key = k
    /\ \A v : Text(v) # NoKey /\ Text(v) # Redacted /\ Text(v).text = v
    /\ \A k, v : Key(k) # Text(v)
    /\ NoKey # Redacted
<1>1. ASSUME NEW k PROVE DOMAIN Key(k) = {"key"} /\ Key(k).key = k
  BY DEF Key
<1>2. ASSUME NEW v PROVE DOMAIN Text(v) = {"text"} /\ Text(v).text = v
  BY DEF Text
<1>3. DOMAIN NoKey = {"none"} /\ DOMAIN Redacted = {"redacted"}
  BY DEF NoKey, Redacted
<1>4. {"key"} # {"text"} /\ {"key"} # {"none"} /\ {"key"} # {"redacted"}
      /\ {"text"} # {"none"} /\ {"text"} # {"redacted"} /\ {"none"} # {"redacted"}
  OBVIOUS
<1> QED  BY <1>1, <1>2, <1>3, <1>4

LEMMA KeyInjective ==
    ASSUME NEW k, NEW l, Key(k) = Key(l) PROVE k = l
<1>1. Key(k).key = k /\ Key(l).key = l
  BY RefKinds
<1> QED  BY <1>1

LEMMA RefTypes ==
    /\ NoKey \in Refs /\ Redacted \notin Refs
    /\ \A k \in Servers : Key(k) \in Refs
    /\ \A v \in Values : Text(v) \in Refs
  BY RefKinds DEF Refs

\* The entries of a configuration are a function on some of the servers.
LEMMA EntryTypes ==
    ASSUME NEW f \in Entries
    PROVE  /\ DOMAIN f \subseteq Servers
           /\ \A t \in DOMAIN f : f[t] \in Refs
           /\ f = [t \in DOMAIN f |-> f[t]]
<1>1. PICK S \in SUBSET Servers : f \in [S -> Refs]
  BY DEF Entries
<1> QED  BY <1>1

LEMMA EntriesOf ==
    ASSUME NEW S \in SUBSET Servers, NEW f \in [S -> Refs] PROVE f \in Entries
  BY DEF Entries

LEMMA ConfigTypes ==
    ASSUME NEW c \in Configs
    PROVE  /\ c.servers \in Entries /\ c.misc \in BOOLEAN /\ c # Torn
           /\ c = [servers |-> c.servers, misc |-> c.misc]
<1>1. DOMAIN c = {"servers", "misc"} /\ DOMAIN Torn = {"torn"}
  BY DEF Configs, Torn
<1>2. {"servers", "misc"} # {"torn"}
  OBVIOUS
<1> QED  BY <1>1, <1>2 DEF Configs

LEMMA DefaultType == Default \in Configs /\ KeysOf(Default) = {}
<1>1. DOMAIN <<>> = {} /\ <<>> \in [{} -> Refs]
  OBVIOUS
<1>2. <<>> \in Entries
  BY <1>1, EntriesOf
<1>3. Default.servers = <<>>
  BY DEF Default
<1> QED  BY <1>1, <1>2, <1>3 DEF Default, Configs, KeysOf

LEMMA FlipType ==
    ASSUME NEW c \in Configs
    PROVE  /\ [c EXCEPT !.misc = ~@] \in Configs
           /\ KeysOf([c EXCEPT !.misc = ~@]) = KeysOf(c)
<1>1. [c EXCEPT !.misc = ~@] = [servers |-> c.servers, misc |-> ~c.misc]
  BY ConfigTypes
<1>2. [c EXCEPT !.misc = ~@].servers = c.servers
  BY <1>1
<1> QED  BY <1>1, <1>2, ConfigTypes DEF Configs, KeysOf

LEMMA WithType ==
    ASSUME NEW c \in Configs, NEW s \in Servers, NEW ref \in Refs
    PROVE  /\ With(c, s, ref) \in Configs
           /\ \A k \in KeysOf(With(c, s, ref)) : k \in KeysOf(c) \/ ref = Key(k)
<1> DEFINE f == [t \in DOMAIN c.servers \cup {s} |->
                    IF t = s THEN ref ELSE c.servers[t]]
<1>1. With(c, s, ref) = [servers |-> f, misc |-> c.misc]
  BY ConfigTypes DEF With
<1>2. f \in [DOMAIN c.servers \cup {s} -> Refs] /\ DOMAIN c.servers \cup {s} \in SUBSET Servers
  BY ConfigTypes, EntryTypes
<1>3. f \in Entries
  BY <1>2, EntriesOf
<1>4. With(c, s, ref).servers = f
  BY <1>1
<1>5. ASSUME NEW k \in KeysOf(With(c, s, ref)) PROVE k \in KeysOf(c) \/ ref = Key(k)
  <2>1. PICK t \in DOMAIN f : f[t] = Key(k)
    BY <1>4, <1>5 DEF KeysOf
  <2>2. CASE t = s
    BY <2>1, <2>2
  <2>3. CASE t # s
    <3>1. t \in DOMAIN c.servers /\ c.servers[t] = Key(k)
      BY <2>1, <2>3
    <3> QED  BY <3>1, <1>5 DEF KeysOf
  <2> QED  BY <2>2, <2>3
<1> QED  BY <1>1, <1>3, <1>5, ConfigTypes DEF Configs

LEMMA WithoutType ==
    ASSUME NEW c \in Configs, NEW s \in Servers
    PROVE  /\ ServersWithout(c, s) \in Configs
           /\ KeysOf(ServersWithout(c, s)) \subseteq KeysOf(c)
<1> DEFINE f == [t \in DOMAIN c.servers \ {s} |-> c.servers[t]]
<1>1. ServersWithout(c, s) = [servers |-> f, misc |-> c.misc]
  BY ConfigTypes DEF ServersWithout
<1>2. f \in [DOMAIN c.servers \ {s} -> Refs] /\ DOMAIN c.servers \ {s} \in SUBSET Servers
  BY ConfigTypes, EntryTypes
<1>3. f \in Entries
  BY <1>2, EntriesOf
<1>4. ServersWithout(c, s).servers = f
  BY <1>1
<1>5. ASSUME NEW k \in KeysOf(ServersWithout(c, s)) PROVE k \in KeysOf(c)
  <2>1. PICK t \in DOMAIN f : f[t] = Key(k)
    BY <1>4, <1>5 DEF KeysOf
  <2>2. t \in DOMAIN c.servers /\ c.servers[t] = Key(k)
    BY <2>1
  <2> QED  BY <2>2, <1>5 DEF KeysOf
<1> QED  BY <1>1, <1>3, <1>5, ConfigTypes DEF Configs

LEMMA RestoredType ==
    ASSUME NEW c \in Configs, NEW s \in Servers, NEW ref \in Refs \cup {Redacted}
    PROVE  /\ Restored(ref, c, s) \in Refs
           /\ \A k \in Servers :
                 Restored(ref, c, s) = Key(k) => ref = Key(k) \/ k \in KeysOf(c)
  BY ConfigTypes, EntryTypes, RefTypes, RefKinds, Zenon DEF Restored, KeysOf

-----------------------------------------------------------------------------
(* Jobs. *)

ChangePcs ==
    {"stage", "read", "persist", "refused", "undo", "load", "apply", "forget"}
Stagings == {<<>>} \cup {<<v>> : v \in Values \cup {Nothing}}

LEMMA ChangeFields ==
    ASSUME NEW j \in ChangeJobs
    PROVE  /\ j.pc \in ChangePcs /\ j.by = "change" /\ j.name \in Servers
           /\ j.op \in {"add", "update", "remove", "account", "toggle"}
           /\ j.ref \in Refs \cup {Redacted} /\ j.was \in Refs
           /\ j.seen \in Configs \cup {Torn} /\ j.next \in Configs
           /\ j.staged \in Stagings /\ j # Idle
  BY DEF ChangeJobs, ChangePcs, Stagings, Idle

LEMMA JobKinds ==
    ASSUME NEW j \in ChangeJobs \cup ReloadJobs \cup {Idle}
    PROVE  /\ j = Idle <=> j.pc = "idle"
           /\ j \in ReloadJobs => j.pc = "apply" /\ j.next \in Configs /\ j.by # "change"
           /\ j.pc \in ChangePcs \ {"apply"} => j \in ChangeJobs
           /\ j.pc = "apply" => j.next \in Configs /\ (j.by = "change" <=> j \in ChangeJobs)
           /\ Idle \notin ChangeJobs
  BY DEF ChangeJobs, ReloadJobs, ChangePcs, Idle

LEMMA Moved ==
    ASSUME NEW j \in ChangeJobs, NEW p \in ChangePcs
    PROVE  LET i == [j EXCEPT !.pc = p]
           IN  /\ i \in ChangeJobs /\ i.pc = p /\ i.op = j.op /\ i.name = j.name
               /\ i.ref = j.ref /\ i.seen = j.seen /\ i.was = j.was
               /\ i.staged = j.staged /\ i.next = j.next /\ i.by = "change"
  BY DEF ChangeJobs, ChangePcs

Staging(j, p, r, st) == [j EXCEPT !.pc = p, !.ref = r, !.staged = st]
Drafting(j, p, n) == [j EXCEPT !.pc = p, !.next = n]

LEMMA MovedStaging ==
    ASSUME NEW j \in ChangeJobs, NEW p \in ChangePcs, NEW r \in Refs, NEW st \in Stagings
    PROVE  LET i == Staging(j, p, r, st)
           IN  /\ i \in ChangeJobs /\ i.pc = p /\ i.op = j.op /\ i.name = j.name
               /\ i.ref = r /\ i.seen = j.seen /\ i.was = j.was
               /\ i.staged = st /\ i.next = j.next /\ i.by = "change"
  BY DEF ChangeJobs, ChangePcs, Stagings, Staging

LEMMA MovedDrafting ==
    ASSUME NEW j \in ChangeJobs, NEW p \in ChangePcs, NEW n \in Configs
    PROVE  LET i == Drafting(j, p, n)
           IN  /\ i \in ChangeJobs /\ i.pc = p /\ i.op = j.op /\ i.name = j.name
               /\ i.ref = j.ref /\ i.seen = j.seen /\ i.was = j.was
               /\ i.staged = j.staged /\ i.next = n /\ i.by = "change"
  BY DEF ChangeJobs, ChangePcs, Drafting

\* A step of the change that only moves on.
Onward(p) ==
    /\ job' \in ChangeJobs /\ job'.pc = p /\ job'.op = job.op /\ job'.name = job.name
    /\ job'.ref = job.ref /\ job'.seen = job.seen /\ job'.was = job.was
    /\ job'.staged = job.staged /\ job'.by = "change"

LEMMA StepEffect ==
    ASSUME job \in ChangeJobs, NEW p \in ChangePcs, Step(p)
    PROVE  Onward(p) /\ job'.next = job.next
  BY Moved, Zenon DEF Step, Onward

LEMMA DraftStep ==
    ASSUME job \in ChangeJobs, NEW p \in ChangePcs, NEW n \in Configs,
           job' = Drafting(job, p, n)
    PROVE  Onward(p) /\ job'.next = n
  BY MovedDrafting DEF Onward

\* The draft of the mutation is a configuration, and refers to no key but those
\* of the file and the one the change brings.
LEMMA Drafted ==
    ASSUME StateTypes, job \in ChangeJobs, NEW c \in Configs, Applies(c)
    PROVE  /\ Mutated(c) \in Configs
           /\ \A k \in KeysOf(Mutated(c)) : k \in KeysOf(c) \/ job.ref = Key(k)
<1> USE ChangeFields
<1>0. /\ job.name \in Servers /\ job.ref \in Refs \cup {Redacted}
      /\ job.op \in {"add", "update", "remove", "account", "toggle"}
  OBVIOUS
<1>1. CASE job.op = "add"
  <2>1. job.ref \in Refs
    BY <1>0, <1>1 DEF StateTypes
  <2>2. Mutated(c) = With(c, job.name, job.ref)
    BY <1>1 DEF Mutated
  <2> QED  BY <1>0, <2>1, <2>2, WithType
<1>2. CASE job.op = "update"
  <2> DEFINE r == Restored(job.ref, c, job.name)
  <2>1. /\ r \in Refs
        /\ \A k \in Servers : r = Key(k) => job.ref = Key(k) \/ k \in KeysOf(c)
    BY <1>0, RestoredType
  <2>2. Mutated(c) = With(c, job.name, r)
    BY <1>2 DEF Mutated
  <2> HIDE DEF r
  <2>3. \A k \in KeysOf(With(c, job.name, r)) : k \in Servers
    BY DEF KeysOf
  <2> QED  BY <1>0, <2>1, <2>2, <2>3, WithType
<1>3. CASE job.op = "remove"
  <2>1. Mutated(c) = ServersWithout(c, job.name)
    BY <1>3 DEF Mutated
  <2> QED  BY <1>0, <2>1, WithoutType
<1>4. CASE job.op = "account"
  <2> DEFINE b == CopyOf[job.name]
  <2>1. b \in DOMAIN c.servers
    BY <1>4 DEF Applies
  <2>2. c.servers[b] \in Refs
    BY <2>1, ConfigTypes, EntryTypes
  <2>3. Mutated(c) = With(c, job.name, c.servers[b])
    BY <1>4 DEF Mutated
  <2>4. ASSUME NEW k \in KeysOf(With(c, job.name, c.servers[b])) PROVE k \in KeysOf(c)
    <3>1. k \in KeysOf(c) \/ c.servers[b] = Key(k)
      BY <1>0, <2>2, <2>4, WithType
    <3> QED  BY <2>1, <2>4, <3>1 DEF KeysOf
  <2> QED  BY <1>0, <2>2, <2>3, <2>4, WithType
<1>5. CASE job.op = "toggle"
  <2>1. Mutated(c) = [c EXCEPT !.misc = ~@]
    BY <1>5 DEF Mutated
  <2> QED  BY <2>1, FlipType
<1> QED  BY <1>0, <1>1, <1>2, <1>3, <1>4, <1>5

-----------------------------------------------------------------------------
(* What each step does to the job. *)

LEMMA MutationTypes ==
    ASSUME NEW m \in Mutations
    PROVE  /\ m.op \in {"add", "update", "remove", "account", "toggle"}
           /\ m.name \in Servers
           /\ (m.ref = Redacted /\ m.op = "update") \/ m.ref = NoKey \/ IsText(m.ref)
           /\ m.op = "account" => m.name \in DOMAIN CopyOf
<1>1. (CHOOSE t \in Servers : TRUE) \in Servers
  BY ConstantsAssumption
<1>2. DOMAIN CopyOf \subseteq Servers
  BY ConstantsAssumption
<1> DEFINE texts == {Text(v) : v \in Values}
<1>3. \/ m \in [op : {"add"}, name : Servers, ref : {NoKey} \cup texts]
      \/ m \in [op : {"update"}, name : Servers, ref : {NoKey, Redacted} \cup texts]
      \/ m \in [op : {"remove"}, name : Servers, ref : {NoKey}]
      \/ m \in [op : {"account"}, name : DOMAIN CopyOf, ref : {NoKey}]
      \/ m \in [op : {"toggle"}, name : {CHOOSE t \in Servers : TRUE}, ref : {NoKey}]
  BY DEF Mutations
<1> HIDE DEF texts
<1>4. \/ m.op = "add" /\ m.name \in Servers /\ m.ref \in {NoKey} \cup texts
      \/ m.op = "update" /\ m.name \in Servers /\ m.ref \in {NoKey, Redacted} \cup texts
      \/ m.op = "remove" /\ m.name \in Servers /\ m.ref = NoKey
      \/ m.op = "account" /\ m.name \in DOMAIN CopyOf /\ m.ref = NoKey
      \/ m.op = "toggle" /\ m.name \in Servers /\ m.ref = NoKey
  BY <1>1, <1>3
<1> QED  BY <1>2, <1>4 DEF texts, IsText

LEMMA TextIsRef == \A r : IsText(r) => r \in Refs /\ r # Redacted /\ \A k : r # Key(k)
  BY RefKinds, Zenon DEF IsText, Refs

\* A change begins with the file as seen and nothing staged; the key it brings,
\* if any, is one the file refers to.
LEMMA BeginEffect ==
    ASSUME StateTypes, NEW m \in Mutations, BeginChange(m)
    PROVE  /\ job = Idle
           /\ job' \in ChangeJobs /\ job'.pc = "stage" /\ job'.seen = file
           /\ job'.staged = <<>>
           /\ job'.ref = Redacted => job'.op = "update"
           /\ job'.op = "account" => job'.name \in DOMAIN CopyOf
           /\ \A k \in Servers : job'.ref = Key(k) => k \in FileKeys
<1> DEFINE ref == IF m.op = "update" /\ file # Torn
                  THEN Restored(m.ref, file, m.name) ELSE m.ref
           was == IF m.op \in {"update", "remove"} /\ m.name \in DOMAIN mem.servers
                  THEN mem.servers[m.name] ELSE NoKey
<1>1. /\ m.op \in {"add", "update", "remove", "account", "toggle"} /\ m.name \in Servers
      /\ m.ref \in Refs \cup {Redacted} /\ (m.ref = Redacted => m.op = "update")
      /\ \A k : m.ref # Key(k)
      /\ m.op = "account" => m.name \in DOMAIN CopyOf
  BY MutationTypes, TextIsRef, RefTypes, RefKinds
<1>2. was \in Refs
  BY RefTypes, ConfigTypes, EntryTypes DEF StateTypes
<1>3. /\ ref \in Refs \cup {Redacted} /\ (ref = Redacted => m.op = "update")
      /\ \A k \in Servers : ref = Key(k) => k \in FileKeys
  <2>1. CASE m.op = "update" /\ file # Torn
    <3>1. file \in Configs
      BY <2>1 DEF StateTypes
    <3>2. /\ Restored(m.ref, file, m.name) \in Refs
          /\ \A k \in Servers : Restored(m.ref, file, m.name) = Key(k) =>
                m.ref = Key(k) \/ k \in KeysOf(file)
      BY <1>1, <3>1, RestoredType
    <3> QED  BY <1>1, <2>1, <3>2 DEF FileKeys
  <2>2. CASE ~(m.op = "update" /\ file # Torn)
    BY <1>1, <2>2
  <2> QED  BY <2>1, <2>2
<1>4. job' = [pc |-> "stage", by |-> "change", op |-> m.op, name |-> m.name,
              ref |-> ref, seen |-> file, was |-> was, staged |-> <<>>, next |-> Default]
  BY DEF BeginChange
<1> HIDE DEF ref, was
<1>5. job' \in ChangeJobs
  BY <1>1, <1>2, <1>3, <1>4, DefaultType DEF ChangeJobs, StateTypes
<1>6. job = Idle
  BY DEF BeginChange
<1> QED  BY <1>1, <1>3, <1>4, <1>5, <1>6

LEMMA BeginReloadEffect ==
    ASSUME StateTypes, WatchTypes, BeginReload
    PROVE  job = Idle /\ job' \in ReloadJobs
<1>1. Head(queue) \in Waiters /\ Head(queue).by # "change"
  BY DEF BeginReload, WatchTypes
<1>2. Head(queue).by \in {"ipc", "watcher"} /\ Head(queue).reload \in Configs
  BY <1>1 DEF Waiters
<1> QED  BY <1>2 DEF BeginReload, ReloadJobs

LEMMA KeepStagedEffect ==
    ASSUME StateTypes, KeepStaged
    PROVE  /\ job \in ChangeJobs /\ job.pc = "stage"
           /\ job' \in ChangeJobs /\ job'.pc = "read" /\ job'.op = job.op
           /\ job'.name = job.name /\ job'.ref = Key(job.name) /\ job'.seen = job.seen
           /\ job'.staged = <<store[job.name]>>
           /\ store' \in [Servers -> Values \cup {Nothing}]
           /\ store'[job.name] \in Values
           /\ \A k \in Servers \ {job.name} : store'[k] = store[k]
<1>1. job \in ChangeJobs
  BY JobKinds DEF StateTypes, KeepStaged, ChangePcs
<1>2. job.name \in Servers
  BY <1>1, ChangeFields
<1>3. PICK v \in Values : job.ref = Text(v)
  BY DEF KeepStaged, IsText
<1>4. job.ref.text = v
  BY <1>3, RefKinds
<1>5. store' = [store EXCEPT ![job.name] = v]
  BY <1>4 DEF KeepStaged
<1>6. /\ store' \in [Servers -> Values \cup {Nothing}] /\ store'[job.name] = v
      /\ \A k \in Servers \ {job.name} : store'[k] = store[k]
  BY <1>2, <1>5 DEF StateTypes
<1>7. Key(job.name) \in Refs /\ <<store[job.name]>> \in Stagings
  BY <1>2, RefTypes DEF StateTypes, Stagings
<1>8. job' = Staging(job, "read", Key(job.name), <<store[job.name]>>)
  BY DEF KeepStaged, Staging
<1>9. "read" \in ChangePcs
  BY DEF ChangePcs
<1>10. /\ job' \in ChangeJobs /\ job'.pc = "read" /\ job'.op = job.op
       /\ job'.name = job.name /\ job'.ref = Key(job.name) /\ job'.seen = job.seen
       /\ job'.staged = <<store[job.name]>>
  BY <1>1, <1>7, <1>8, <1>9, MovedStaging
<1> QED  BY <1>1, <1>6, <1>10 DEF KeepStaged

LEMMA DraftEffect ==
    ASSUME StateTypes, job.pc = "read", file # Torn, Applies(file),
           job' = [job EXCEPT !.pc = "persist", !.next = Mutated(file)]
    PROVE  /\ job \in ChangeJobs /\ Onward("persist")
           /\ \A k \in KeysOf(job'.next) : k \in FileKeys \/ job.ref = Key(k)
<1>1. job \in ChangeJobs /\ file \in Configs /\ "persist" \in ChangePcs
  BY JobKinds DEF StateTypes, ChangePcs
<1>2. /\ Mutated(file) \in Configs
      /\ \A k \in KeysOf(Mutated(file)) : k \in KeysOf(file) \/ job.ref = Key(k)
  BY <1>1, Drafted
<1>3. PICK n \in Configs : n = Mutated(file)
  BY <1>2
<1>4. job' = Drafting(job, "persist", n)
  BY <1>3 DEF Drafting
<1>5. Onward("persist") /\ job'.next = n
  BY <1>1, <1>4, DraftStep, Zenon
<1> QED  BY <1>1, <1>2, <1>3, <1>5 DEF FileKeys

LEMMA LoadEffect ==
    ASSUME StateTypes, LoadConfig, file # Torn
    PROVE  job \in ChangeJobs /\ Onward("apply") /\ job'.next = file
<1>1. job \in ChangeJobs /\ file \in Configs /\ "apply" \in ChangePcs
  BY JobKinds DEF StateTypes, ChangePcs, LoadConfig
<1>2. job' = Drafting(job, "apply", file)
  BY DEF LoadConfig, Drafting
<1> QED  BY <1>1, <1>2, DraftStep, Zenon

-----------------------------------------------------------------------------
(* The command line. *)

LEMMA SaveKinds ==
    ASSUME NEW c \in Saves \cup {Idle}
    PROVE  /\ c = Idle <=> c.pc = "idle"
           /\ c \in Saves => c.config \in Configs /\ c.pc \in {"loaded", "truncated", "torn"}
           /\ c.pc \in {"loaded", "truncated", "torn"} => c \in Saves
  BY DEF Saves, Idle

Opened(c) == [c EXCEPT !.pc = "truncated", !.linked = TRUE]
HalfWritten(c) == [c EXCEPT !.pc = "torn"]
Unlinked(c) == [c EXCEPT !.linked = FALSE]

LEMMA SaveSteps ==
    ASSUME NEW c \in Saves
    PROVE  /\ Opened(c) \in Saves /\ Opened(c).config = c.config
           /\ Opened(c).pc = "truncated"
           /\ HalfWritten(c) \in Saves /\ HalfWritten(c).config = c.config
           /\ HalfWritten(c).pc = "torn" /\ HalfWritten(c).linked = c.linked
           /\ Unlinked(c) \in Saves /\ Unlinked(c).config = c.config
           /\ Unlinked(c).linked = FALSE
  BY DEF Saves, Opened, HalfWritten, Unlinked

LEMMA CliLoadEffect ==
    ASSUME StateTypes, CliLoad
    PROVE  cli' \in Saves /\ cli'.pc = "loaded"
<1>1. file \in Configs
  BY DEF StateTypes, CliLoad
<1>2. PICK c \in Configs : c = [file EXCEPT !.misc = ~@]
  BY <1>1, FlipType
<1>3. cli' = [pc |-> "loaded", config |-> c, linked |-> FALSE]
  BY <1>2 DEF CliLoad
<1> QED  BY <1>3 DEF Saves

\* A rename leaves what the command line still writes to the old file.
LEMMA RenamedEffect ==
    ASSUME StateTypes, NEW c \in Configs, Renamed(c)
    PROVE  /\ file' = c /\ cli' \in Saves \cup {Idle}
           /\ ~(MidSave' /\ cli'.linked)
<1>1. CASE MidSave
  <2>1. cli \in Saves
    BY <1>1, SaveKinds DEF MidSave, StateTypes
  <2>2. cli' = Unlinked(cli)
    BY <1>1 DEF Renamed, Unlinked
  <2>3. cli' \in Saves /\ cli'.linked = FALSE
    BY <2>1, <2>2, SaveSteps
  <2> QED  BY <2>3 DEF Renamed, Written
<1>2. CASE ~MidSave
  <2>1. cli' = cli
    BY <1>2 DEF Renamed
  <2> QED  BY <1>2, <2>1 DEF Renamed, Written, MidSave, StateTypes
<1> QED  BY <1>1, <1>2

-----------------------------------------------------------------------------
(* The types. *)

StateVars == <<file, mem, store, job, cli, accepted, spoiled, crossed>>

LEMMA AcceptTypes ==
    ASSUME StateTypes, job \in ChangeJobs, Accept
    PROVE  /\ accepted' \in [Servers -> Values \cup {Nothing}]
           /\ spoiled' \subseteq Servers /\ crossed' \subseteq Servers
<1>1. job.name \in Servers /\ store[job.name] \in Values \cup {Nothing}
  BY ChangeFields DEF StateTypes
<1> QED  BY <1>1 DEF Accept, StateTypes

LEMMA KeySetTypes == \A c : KeysOf(c) \subseteq Servers
  BY DEF KeysOf

\* The job after a step is one of a change, of a reload, or none.
LEMMA SettledTypes ==
    ASSUME job' = Idle \/ job' \in ReloadJobs
    PROVE  /\ job' \in ChangeJobs \cup ReloadJobs \cup {Idle} /\ job' \notin ChangeJobs
  BY DEF Idle, ChangeJobs, ReloadJobs

LEMMA OnwardTypes ==
    ASSUME StateTypes, job \in ChangeJobs, NEW p \in ChangePcs, Onward(p)
    PROVE  /\ job' \in ChangeJobs \cup ReloadJobs \cup {Idle}
           /\ job' \in ChangeJobs /\ job'.ref = Redacted => job'.op = "update"
           /\ job' \in ChangeJobs /\ job'.op = "account" => job'.name \in DOMAIN CopyOf
  BY DEF StateTypes, Onward

LEMMA ChangeStateTypes ==
    ASSUME StateTypes, WatchTypes, Change PROVE StateTypes'
<1>1. ASSUME NEW m \in Mutations, BeginChange(m) PROVE StateTypes'
  <2>1. /\ job' \in ChangeJobs /\ (job'.ref = Redacted => job'.op = "update")
        /\ job'.op = "account" => job'.name \in DOMAIN CopyOf
    BY <1>1, BeginEffect
  <2>2. crossed' \subseteq Servers
    BY <1>1, KeySetTypes DEF BeginChange, StateTypes
  <2> QED  BY <1>1, <2>1, <2>2 DEF BeginChange, StateTypes
<1>2. CASE BeginReload
  <2>1. job' \in ReloadJobs
    BY <1>2, BeginReloadEffect
  <2> QED  BY <1>2, <2>1, SettledTypes DEF BeginReload, StateTypes
<1>3. CASE Stage
  <2>1. CASE KeepStaged
    <3>1. /\ job \in ChangeJobs /\ job' \in ChangeJobs /\ job'.op = job.op
          /\ job'.name = job.name /\ job'.ref = Key(job.name)
          /\ store' \in [Servers -> Values \cup {Nothing}]
      BY <2>1, KeepStagedEffect
    <3>2. job'.ref # Redacted
      BY <3>1, RefKinds
    <3> QED  BY <1>3, <3>1, <3>2 DEF Stage, StateTypes
  <2>2. CASE StageNothing
    <3>1. job \in ChangeJobs /\ "read" \in ChangePcs
      BY <2>2, JobKinds DEF StageNothing, StateTypes, ChangePcs
    <3>2. Onward("read")
      BY <2>2, <3>1, StepEffect DEF StageNothing
    <3> QED  BY <1>3, <2>2, <3>1, <3>2, OnwardTypes DEF Stage, StageNothing, StateTypes
  <2> QED  BY <1>3, <2>1, <2>2 DEF Stage
<1>4. CASE ReadAndMutate
  <2>1. job \in ChangeJobs /\ "persist" \in ChangePcs /\ "refused" \in ChangePcs
    BY <1>4, JobKinds DEF ReadAndMutate, StateTypes, ChangePcs
  <2>2. Onward("persist") \/ Onward("refused")
    BY <1>4, <2>1, StepEffect, DraftEffect DEF ReadAndMutate
  <2>3. /\ job' \in ChangeJobs \cup ReloadJobs \cup {Idle}
        /\ job' \in ChangeJobs /\ job'.ref = Redacted => job'.op = "update"
        /\ job' \in ChangeJobs /\ job'.op = "account" => job'.name \in DOMAIN CopyOf
    BY <2>1, <2>2, OnwardTypes
  <2> QED  BY <1>4, <2>3 DEF ReadAndMutate, StateTypes
<1>5. CASE PersistConfigAtomic
  <2>1. job \in ChangeJobs /\ "load" \in ChangePcs /\ "refused" \in ChangePcs
    BY <1>5, JobKinds DEF PersistConfigAtomic, StateTypes, ChangePcs
  <2>2. Onward("load") \/ Onward("refused")
    BY <1>5, <2>1, StepEffect DEF PersistConfigAtomic
  <2>3. /\ job' \in ChangeJobs \cup ReloadJobs \cup {Idle}
        /\ job' \in ChangeJobs /\ job'.ref = Redacted => job'.op = "update"
        /\ job' \in ChangeJobs /\ job'.op = "account" => job'.name \in DOMAIN CopyOf
    BY <2>1, <2>2, OnwardTypes
  <2>4. job.next \in Configs
    BY <2>1, ChangeFields
  <2>5. file' \in Configs \cup {Torn} /\ cli' \in Saves \cup {Idle}
    <3>1. CASE Renamed(job.next)
      BY <2>4, <3>1, RenamedEffect
    <3>2. CASE UNCHANGED <<file, cli>>
      BY <3>2 DEF StateTypes
    <3> QED  BY <1>5, <3>1, <3>2 DEF PersistConfigAtomic
  <2>6. /\ accepted' \in [Servers -> Values \cup {Nothing}]
        /\ spoiled' \subseteq Servers /\ crossed' \subseteq Servers
    <3>1. CASE Accept
      BY <2>1, <3>1, AcceptTypes
    <3>2. CASE UNCHANGED <<accepted, spoiled, crossed>>
      BY <3>2 DEF StateTypes
    <3> QED  BY <1>5, <3>1, <3>2 DEF PersistConfigAtomic
  <2> QED  BY <1>5, <2>3, <2>5, <2>6 DEF PersistConfigAtomic, StateTypes
<1>6. CASE Verdict
  <2>1. job \in ChangeJobs /\ "undo" \in ChangePcs /\ job.name \in Servers
    BY <1>6, JobKinds, ChangeFields DEF Verdict, StateTypes, ChangePcs
  <2>2. job' = Idle \/ Onward("undo")
    BY <1>6, <2>1, StepEffect DEF Verdict
  <2>3. /\ job' \in ChangeJobs \cup ReloadJobs \cup {Idle}
        /\ job' \in ChangeJobs /\ job'.ref = Redacted => job'.op = "update"
        /\ job' \in ChangeJobs /\ job'.op = "account" => job'.name \in DOMAIN CopyOf
    BY <2>1, <2>2, OnwardTypes, SettledTypes
  <2>4. /\ accepted' \in [Servers -> Values \cup {Nothing}]
        /\ spoiled' \subseteq Servers /\ crossed' \subseteq Servers
    <3>1. CASE Accept
      BY <2>1, <3>1, AcceptTypes
    <3>2. CASE ~Accept
      BY <1>6, <2>1, <3>2 DEF Verdict, StateTypes
    <3> QED  BY <3>1, <3>2
  <2> QED  BY <1>6, <2>3, <2>4 DEF Verdict, StateTypes
<1>7. CASE PutBack
  <2>1. job \in ChangeJobs
    BY <1>7, JobKinds DEF PutBack, StateTypes, ChangePcs
  <2>2. job.name \in Servers /\ job.staged \in Stagings
    BY <2>1, ChangeFields
  <2>3. job.staged # <<>> => job.staged[1] \in Values \cup {Nothing}
    BY <2>2 DEF Stagings
  <2>4. store' \in [Servers -> Values \cup {Nothing}] /\ spoiled' \subseteq Servers
    BY <1>7, <2>2, <2>3 DEF PutBack, StateTypes
  <2>5. job' = Idle
    BY <1>7 DEF PutBack
  <2> QED  BY <1>7, <2>4, <2>5, SettledTypes DEF PutBack, StateTypes
<1>8. CASE LoadConfig
  <2>1. job \in ChangeJobs /\ "apply" \in ChangePcs
    BY <1>8, JobKinds DEF LoadConfig, StateTypes, ChangePcs
  <2>2. job' = Idle \/ Onward("apply")
    BY <1>8, <2>1, LoadEffect DEF LoadConfig
  <2>3. /\ job' \in ChangeJobs \cup ReloadJobs \cup {Idle}
        /\ job' \in ChangeJobs /\ job'.ref = Redacted => job'.op = "update"
        /\ job' \in ChangeJobs /\ job'.op = "account" => job'.name \in DOMAIN CopyOf
    BY <2>1, <2>2, OnwardTypes, SettledTypes
  <2> QED  BY <1>8, <2>3 DEF LoadConfig, StateTypes
<1>9. CASE ApplyReload
  <2>1. job.next \in Configs /\ (job.by = "change" <=> job \in ChangeJobs)
        /\ "forget" \in ChangePcs
    BY <1>9, JobKinds DEF ApplyReload, StateTypes, ChangePcs
  <2>2. job' = Idle \/ (job \in ChangeJobs /\ Onward("forget"))
    BY <1>9, <2>1, StepEffect DEF ApplyReload
  <2>3. /\ job' \in ChangeJobs \cup ReloadJobs \cup {Idle}
        /\ job' \in ChangeJobs /\ job'.ref = Redacted => job'.op = "update"
        /\ job' \in ChangeJobs /\ job'.op = "account" => job'.name \in DOMAIN CopyOf
    BY <2>1, <2>2, OnwardTypes, SettledTypes
  <2> QED  BY <1>9, <2>1, <2>3 DEF ApplyReload, StateTypes
<1>10. CASE Forget
  <2>1. job' = Idle /\ store' \in [Servers -> Values \cup {Nothing}]
    BY <1>10 DEF Forget, StateTypes
  <2> QED  BY <1>10, <2>1, SettledTypes DEF Forget, StateTypes
<1> QED
  BY <1>1, <1>2, <1>3, <1>4, <1>5, <1>6, <1>7, <1>8, <1>9, <1>10 DEF Change

LEMMA SameStateTypes ==
    ASSUME StateTypes, UNCHANGED StateVars PROVE StateTypes'
  BY DEF StateTypes, StateVars

LEMMA StateTypesKept ==
    ASSUME StateTypes, WatchTypes, ConfigNext PROVE StateTypes'
<1>1. CASE AskChange \/ AskReload \/ Debounce \/ Noise \/ WatcherTake \/ ArmWatch
  BY <1>1, SameStateTypes DEF AskChange, AskReload, Debounce, Noise, WatcherTake,
     ArmWatch, StateVars
<1>2. CASE CliLoad
  BY <1>2, CliLoadEffect DEF CliLoad, StateTypes
<1>3. CASE CliTruncate
  <2>1. cli \in Saves /\ cli' = Opened(cli)
    BY <1>3, SaveKinds DEF CliTruncate, StateTypes, Opened
  <2>2. cli' \in Saves
    BY <2>1, SaveSteps
  <2>3. crossed' \subseteq Servers /\ file' \in Configs
    BY <1>3, KeySetTypes, DefaultType DEF CliTruncate, Written, StateTypes
  <2> QED  BY <1>3, <2>2, <2>3 DEF CliTruncate, StateTypes
<1>4. CASE CliWrite
  <2>1. cli \in Saves /\ cli.config \in Configs
    BY <1>4, SaveKinds DEF CliWrite, MidSave, StateTypes
  <2>2. cli' = Idle \/ cli' = HalfWritten(cli)
    BY <1>4 DEF CliWrite, HalfWritten
  <2>3. cli' \in Saves \cup {Idle}
    BY <2>1, <2>2, SaveSteps
  <2>4. file' \in Configs \cup {Torn}
    BY <1>4, <2>1 DEF CliWrite, Written, StateTypes
  <2> QED  BY <1>4, <2>3, <2>4 DEF CliWrite, StateTypes
<1>5. CASE Crash
  <2>1. job' = Idle /\ mem' \in Configs
    BY <1>5, DefaultType DEF Crash
  <2>2. spoiled' \subseteq Servers
    <3>1. CASE job.pc \in {"read", "persist", "refused", "undo"}
      <4>1. job \in ChangeJobs
        BY <3>1, JobKinds DEF StateTypes, ChangePcs
      <4> QED  BY <1>5, <4>1, ChangeFields DEF Crash, StateTypes
    <3>2. CASE job.pc \notin {"read", "persist", "refused", "undo"}
      BY <1>5, <3>2 DEF Crash, StateTypes
    <3> QED  BY <3>1, <3>2
  <2> QED  BY <1>5, <2>1, <2>2, SettledTypes DEF Crash, StateTypes
<1>6. CASE DaemonRestart
  BY <1>6 DEF DaemonRestart, StateTypes
<1>7. CASE Change
  BY <1>7, ChangeStateTypes
<1> QED  BY <1>1, <1>2, <1>3, <1>4, <1>5, <1>6, <1>7 DEF ConfigNext

LEMMA Spent ==
    ASSUME used \in Counts,
           \/ Spend("changes", MaxChanges) \/ Spend("reloads", MaxReloads)
           \/ Spend("saves", MaxSaves) \/ Spend("trouble", MaxTrouble)
    PROVE  used' \in Counts
<1>1. /\ MaxChanges \in Nat /\ MaxReloads \in Nat /\ MaxSaves \in Nat
      /\ MaxTrouble \in Nat
  BY ConstantsAssumption
<1>2. CASE Spend("changes", MaxChanges)
  BY <1>1, <1>2 DEF Spend, Counts
<1>3. CASE Spend("reloads", MaxReloads)
  BY <1>1, <1>3 DEF Spend, Counts
<1>4. CASE Spend("saves", MaxSaves)
  BY <1>1, <1>4 DEF Spend, Counts
<1>5. CASE Spend("trouble", MaxTrouble)
  BY <1>1, <1>5 DEF Spend, Counts
<1> QED  BY <1>2, <1>3, <1>4, <1>5

LEMMA RecordedTypes ==
    ASSUME chan \in Seq(Paths), Len(chan) <= ChanCap, NEW p \in Paths
    PROVE  Recorded(p) \in Seq(Paths) /\ Len(Recorded(p)) <= ChanCap
<1>1. ChanCap \in Nat /\ Len(chan) \in Nat
  BY ConstantsAssumption
<1>2. Append(chan, p) \in Seq(Paths) /\ Len(Append(chan, p)) = Len(chan) + 1
  OBVIOUS
<1> QED  BY <1>1, <1>2 DEF Recorded

LEMMA ReloadWaits ==
    ASSUME StateTypes, file # Torn
    PROVE  /\ [by |-> "ipc", reload |-> file] \in Waiters
           /\ [by |-> "watcher", reload |-> file] \in Waiters
  BY DEF StateTypes, Waiters

LEMMA ChangeWaits == [by |-> "change"] \in Waiters
  BY DEF Waiters

LEMMA WatchTypesKept ==
    ASSUME StateTypes, WatchTypes, ConfigNext PROVE WatchTypes'
<1>0. /\ queue \in Seq(Waiters) /\ daemon \in {"down", "blind", "up"}
      /\ dirty \in BOOLEAN /\ missed \in BOOLEAN
      /\ chan \in Seq(Paths) /\ Len(chan) <= ChanCap /\ used \in Counts
      /\ daemon = "down" => job = Idle /\ queue = <<>> /\ chan = <<>> /\ ~dirty
  BY DEF WatchTypes
<1>1. CASE AskChange \/ AskReload
  <2>1. PICK w \in Waiters : queue' = Append(queue, w)
    <3>1. CASE AskChange
      BY <3>1, ChangeWaits DEF AskChange
    <3>2. CASE AskReload
      BY <3>2, ReloadWaits DEF AskReload
    <3> QED  BY <1>1, <3>1, <3>2
  <2>2. queue' \in Seq(Waiters)
    BY <1>0, <2>1
  <2>3. used' \in Counts
    BY <1>0, <1>1, Spent DEF AskChange, AskReload
  <2>4. daemon # "down" /\ UNCHANGED <<daemon, dirty, chan, missed>>
    BY <1>1 DEF AskChange, AskReload
  <2> QED  BY <1>0, <2>2, <2>3, <2>4 DEF WatchTypes
<1>2. ASSUME NEW m \in Mutations, BeginChange(m) PROVE WatchTypes'
  <2>1. daemon # "down" /\ queue' \in Seq(Waiters)
    BY <1>0, <1>2 DEF BeginChange
  <2> QED  BY <1>0, <1>2, <2>1 DEF BeginChange, WatchTypes
<1>3. CASE BeginReload
  <2>1. daemon # "down" /\ queue' \in Seq(Waiters)
    BY <1>0, <1>3 DEF BeginReload
  <2> QED  BY <1>0, <1>3, <2>1 DEF BeginReload, WatchTypes
<1>4. CASE Stage \/ ReadAndMutate \/ Verdict \/ PutBack \/ LoadConfig \/ ApplyReload \/ Forget
  <2>1. daemon # "down"
    BY <1>0, <1>4, JobKinds DEF Stage, KeepStaged, StageNothing, ReadAndMutate, Verdict,
       PutBack, LoadConfig, ApplyReload, Forget, StateTypes
  <2>2. used' \in Counts
    BY <1>0, <1>4, Spent DEF Stage, KeepStaged, StageNothing, ReadAndMutate, Verdict,
       PutBack, LoadConfig, ApplyReload, Forget, Trouble
  <2>3. UNCHANGED <<queue, daemon, dirty, chan, missed>>
    BY <1>4 DEF Stage, ReadAndMutate, Verdict, PutBack, LoadConfig, ApplyReload, Forget
  <2> QED  BY <1>0, <2>1, <2>2, <2>3 DEF WatchTypes
<1>5. CASE PersistConfigAtomic
  <2>1. daemon # "down"
    BY <1>0, <1>5, JobKinds DEF PersistConfigAtomic, StateTypes
  <2>2. used' \in Counts
    BY <1>0, <1>5, Spent DEF PersistConfigAtomic, Trouble
  <2>3. UNCHANGED <<queue, daemon, chan>>
    BY <1>5 DEF PersistConfigAtomic
  <2>4. dirty' \in BOOLEAN /\ missed' \in BOOLEAN
    BY <1>0, <1>5 DEF PersistConfigAtomic, Renamed, Written
  <2> QED  BY <1>0, <2>1, <2>2, <2>3, <2>4 DEF WatchTypes
<1>6. CASE Debounce
  <2>1. "config" \in Paths /\ chan' = Recorded("config")
    BY <1>6 DEF Debounce, Paths
  <2>2. chan' \in Seq(Paths) /\ Len(chan') <= ChanCap
    BY <1>0, <2>1, RecordedTypes
  <2>3. missed' \in BOOLEAN /\ dirty' \in BOOLEAN
    BY <1>6, Zenon DEF Debounce
  <2>4. daemon = "up" /\ UNCHANGED <<queue, daemon, used>>
    BY <1>6 DEF Debounce
  <2> QED  BY <1>0, <2>2, <2>3, <2>4 DEF WatchTypes
<1>7. CASE Noise
  <2>1. chan' \in Seq(Paths) /\ Len(chan') <= ChanCap /\ used' \in Counts
    BY <1>0, <1>7, RecordedTypes, Spent DEF Noise, Trouble, Paths
  <2> QED  BY <1>0, <1>7, <2>1 DEF Noise, WatchTypes
<1>8. CASE WatcherTake
  <2>1. chan' \in Seq(Paths) /\ Len(chan') <= ChanCap
    <3>1. Tail(chan) \in Seq(Paths) /\ Len(Tail(chan)) = Len(chan) - 1 /\ Len(chan) \in Nat
      BY <1>0, <1>8 DEF WatcherTake
    <3>2. chan' = Tail(chan) /\ ChanCap \in Nat
      BY <1>8, ConstantsAssumption DEF WatcherTake
    <3> QED  BY <1>0, <3>1, <3>2
  <2>2. queue' \in Seq(Waiters)
    BY <1>0, <1>8, ReloadWaits DEF WatcherTake
  <2> QED  BY <1>0, <1>8, <2>1, <2>2 DEF WatcherTake, WatchTypes
<1>9. CASE CliLoad
  <2>1. used' \in Counts
    BY <1>0, <1>9, Spent DEF CliLoad
  <2> QED  BY <1>0, <1>9, <2>1 DEF CliLoad, WatchTypes
<1>10. CASE CliTruncate \/ CliWrite
  <2>1. /\ dirty' \in BOOLEAN /\ missed' \in BOOLEAN
        /\ daemon = "down" /\ ~dirty => ~dirty'
    BY <1>0, <1>10 DEF CliTruncate, CliWrite, Written
  <2> QED  BY <1>0, <1>10, <2>1 DEF CliTruncate, CliWrite, WatchTypes
<1>11. CASE Crash
  <2>1. <<>> \in Seq(Waiters) /\ <<>> \in Seq(Paths) /\ Len(<<>>) <= ChanCap
    BY ConstantsAssumption
  <2>2. used' \in Counts
    BY <1>0, <1>11, Spent DEF Crash, Trouble
  <2> QED  BY <1>0, <1>11, <2>1, <2>2 DEF Crash, WatchTypes
<1>12. CASE DaemonRestart \/ ArmWatch
  BY <1>0, <1>12 DEF DaemonRestart, ArmWatch, WatchTypes
<1> QED
  BY <1>1, <1>2, <1>3, <1>4, <1>5, <1>6, <1>7, <1>8, <1>9, <1>10, <1>11, <1>12
     DEF ConfigNext, Change

-----------------------------------------------------------------------------
(* The keys. *)

HandPcs == {"read", "persist", "refused", "undo"}

LEMMA EmptyHand ==
    /\ job.pc \notin HandPcs => InHand = {}
    /\ job'.pc \notin HandPcs => InHand' = {}
  BY DEF InHand, HandPcs

LEMMA KeyNames == FileKeys \subseteq Servers /\ FileKeys' \subseteq Servers
  BY DEF FileKeys, KeysOf

\* No key that was well is spoiled by the step.
Keeps == \A k \in Servers : Ok(k) => Ok(k)'

LEMMA SameFiles ==
    ASSUME KeyInv, UNCHANGED <<file, cli>>, Keeps, crossed \subseteq crossed',
           job' \in ChangeJobs => job \in ChangeJobs
    PROVE  FileOk' /\ SaveOk'
<1>1. FileKeys' = FileKeys /\ KeysOf(cli.config)' = KeysOf(cli.config) /\ MidSave' = MidSave
  BY DEF FileKeys, KeysOf, MidSave
<1>2. FileOk'
  BY <1>1, KeyNames DEF KeyInv, FileOk, Keeps
<1>3. ASSUME MidSave', cli'.linked, NEW k \in KeysOf(cli.config)'
      PROVE  Ok(k)' /\ (job' \in ChangeJobs => k \in crossed')
  <2>1. Ok(k) /\ (job \in ChangeJobs => k \in crossed)
    BY <1>1, <1>3 DEF KeyInv, SaveOk
  <2> QED  BY <1>1, <1>3, <2>1, KeySetTypes DEF Keeps
<1> QED  BY <1>2, <1>3 DEF SaveOk

\* Once no change is under way, only what is written matters.
LEMMA Resting ==
    ASSUME job' \in ReloadJobs \cup {Idle}, FileOk', SaveOk' PROVE KeyInv'
<1>1. job'.pc \in {"apply", "idle"} /\ job' \notin ChangeJobs
  BY DEF ReloadJobs, ChangeJobs, Idle
<1> QED  BY <1>1 DEF KeyInv, DraftOk, UndoOk, ForgetOk

LEMMA SameKeys ==
    ASSUME KeyInv, UNCHANGED StateVars PROVE KeyInv'
  BY DEF KeyInv, FileOk, SaveOk, DraftOk, UndoOk, ForgetOk, Ok, WellKept, Excused, InHand,
     FileKeys, KeysOf, SeenKeys, MidSave, StateVars

LEMMA BeginChangeKeys ==
    ASSUME StateTypes, KeyInv, NEW m \in Mutations, BeginChange(m) PROVE KeyInv'
<1>1. /\ job = Idle /\ job' \in ChangeJobs /\ job'.pc = "stage" /\ job'.seen = file
      /\ job'.staged = <<>>
      /\ \A k \in Servers : job'.ref = Key(k) => k \in FileKeys
  BY BeginEffect
<1>2. InHand = {} /\ InHand' = {}
  <2>1. job.pc = "idle"
    BY <1>1 DEF Idle
  <2> QED  BY <1>1, <2>1, EmptyHand DEF HandPcs
<1>3. /\ UNCHANGED <<file, mem, store, cli, accepted, spoiled>>
      /\ crossed' = IF MidSave THEN crossed \cup KeysOf(cli.config) ELSE crossed
  BY DEF BeginChange
<1>4. crossed \subseteq crossed' /\ FileKeys' = FileKeys
  BY <1>3 DEF FileKeys, KeysOf
<1>5. ASSUME NEW k \in Servers, Ok(k) PROVE Excused(k)' \/ WellKept(k)'
  BY <1>2, <1>3, <1>4, <1>5 DEF Ok, Excused, WellKept
<1>6. Keeps
  BY <1>5 DEF Keeps, Ok
<1>7. FileOk'
  BY <1>4, <1>6, KeyNames DEF KeyInv, FileOk, Keeps
<1>8. SaveOk'
  <2>1. ASSUME MidSave', NEW k \in KeysOf(cli.config)' PROVE k \in crossed'
    BY <1>3, <2>1 DEF MidSave, KeysOf
  <2> QED  BY <2>1 DEF SaveOk, Ok, Excused
<1>9. DraftOk'
  BY <1>1, <1>6, KeyNames DEF DraftOk, KeyInv, FileOk, Keeps
<1>10. UndoOk'
  <2>1. SeenKeys' = FileKeys
    BY <1>1 DEF SeenKeys, FileKeys, KeysOf
  <2>2. \A k \in FileKeys : Excused(k)' \/ WellKept(k)'
    BY <1>5, KeyNames DEF KeyInv, FileOk
  <2>3. job'.name \in SeenKeys' => Excused(job.name)' \/ WellKept(job.name)'
    BY <2>1, <2>2 DEF Excused, WellKept
  <2> QED  BY <1>1, <2>3 DEF UndoOk
<1>11. ForgetOk'
  BY <1>1 DEF ForgetOk
<1> QED  BY <1>7, <1>8, <1>9, <1>10, <1>11 DEF KeyInv

LEMMA BeginReloadKeys ==
    ASSUME StateTypes, WatchTypes, KeyInv, BeginReload PROVE KeyInv'
<1>1. job = Idle /\ job' \in ReloadJobs
  BY BeginReloadEffect
<1>2. job.pc = "idle" /\ job'.pc = "apply" /\ job' \notin ChangeJobs
  BY <1>1, SettledTypes DEF Idle, ReloadJobs
<1>3. InHand = {} /\ InHand' = {}
  BY <1>2, EmptyHand DEF HandPcs
<1>4. Keeps
  BY <1>3 DEF BeginReload, Keeps, Ok, WellKept, Excused
<1>5. FileOk' /\ SaveOk'
  BY <1>2, <1>4, SameFiles DEF BeginReload
<1> QED  BY <1>1, <1>5, Resting

LEMMA KeepStagedKeys ==
    ASSUME StateTypes, KeyInv, Stage, KeepStaged PROVE KeyInv'
<1>1. /\ job \in ChangeJobs /\ job.pc = "stage"
      /\ job' \in ChangeJobs /\ job'.pc = "read"
      /\ job'.name = job.name /\ job'.ref = Key(job.name) /\ job'.seen = job.seen
      /\ job'.staged = <<store[job.name]>>
      /\ store'[job.name] \in Values
      /\ \A k \in Servers \ {job.name} : store'[k] = store[k]
  BY KeepStagedEffect
<1>2. UNCHANGED <<file, cli, accepted, spoiled, crossed>>
  BY DEF Stage
<1>3. job'.staged # <<>> /\ job'.staged[1] = store[job.name]
  BY <1>1
<1>4. InHand = {} /\ InHand' = {job.name}
  BY <1>1, <1>3 DEF InHand
<1>5. Keeps
  BY <1>1, <1>2, <1>4 DEF Keeps, Ok, WellKept, Excused
<1>6. FileOk' /\ SaveOk'
  BY <1>1, <1>2, <1>5, SameFiles
<1>7. DraftOk'
  <2>1. ASSUME NEW k \in Servers, job'.ref = Key(k) PROVE Ok(k)'
    <3>1. k = job.name
      BY <1>1, <2>1, KeyInjective
    <3> QED  BY <1>4, <3>1 DEF Ok
  <2> QED  BY <1>1, <2>1 DEF DraftOk
<1>8. UndoOk'
  <2>1. SeenKeys' = SeenKeys
    BY <1>1 DEF SeenKeys, KeysOf
  <2>2. job.name \in SeenKeys => Excused(job.name) \/ WellKept(job.name)
    BY <1>1 DEF KeyInv, UndoOk
  <2>3. job'.name \in SeenKeys' =>
           \/ Excused(job.name)'
           \/ job'.staged[1] # Nothing /\ job'.staged[1] = accepted'[job'.name]
    BY <1>1, <1>2, <1>3, <2>1, <2>2 DEF Excused, WellKept
  <2> QED  BY <1>1, <2>3 DEF UndoOk
<1>9. ForgetOk'
  BY <1>1 DEF ForgetOk
<1> QED  BY <1>6, <1>7, <1>8, <1>9 DEF KeyInv

\* The change goes on with its key in hand and nothing else altered.
LEMMA OnwardKeys ==
    ASSUME KeyInv, job \in ChangeJobs, NEW p \in ChangePcs, Onward(p),
           job.pc \in HandPcs <=> p \in HandPcs,
           UNCHANGED <<store, accepted, spoiled, crossed>>
    PROVE  /\ Keeps /\ InHand' = InHand /\ SeenKeys' = SeenKeys
           /\ \A k : Excused(k)' <=> Excused(k)
           /\ p \in HandPcs /\ job'.staged # <<>> =>
                 /\ store'[job'.name] \in Values
                 /\ job'.name \in SeenKeys' =>
                       \/ Excused(job.name)'
                       \/ job'.staged[1] # Nothing /\ job'.staged[1] = accepted'[job'.name]
<1>1. /\ job' \in ChangeJobs /\ job'.pc = p /\ job'.name = job.name
      /\ job'.seen = job.seen /\ job'.staged = job.staged
  BY DEF Onward
<1>2. InHand' = InHand
  BY <1>1 DEF InHand, HandPcs
<1>3. SeenKeys' = SeenKeys
  BY <1>1 DEF SeenKeys, KeysOf
<1>4. Keeps /\ \A k : Excused(k)' <=> Excused(k)
  BY <1>2 DEF Keeps, Ok, WellKept, Excused
<1>5. ASSUME p \in HandPcs, job'.staged # <<>>
      PROVE  /\ store'[job'.name] \in Values
             /\ job'.name \in SeenKeys' =>
                   \/ Excused(job.name)'
                   \/ job'.staged[1] # Nothing /\ job'.staged[1] = accepted'[job'.name]
  <2>1. /\ store[job.name] \in Values
        /\ job.name \in SeenKeys =>
              \/ Excused(job.name)
              \/ job.staged[1] # Nothing /\ job.staged[1] = accepted[job.name]
    BY <1>1, <1>5 DEF KeyInv, UndoOk, HandPcs
  <2> QED  BY <1>1, <1>3, <2>1 DEF Excused
<1> QED  BY <1>2, <1>3, <1>4, <1>5

LEMMA StageNothingKeys ==
    ASSUME StateTypes, KeyInv, Stage, StageNothing PROVE KeyInv'
<1>1. job \in ChangeJobs /\ job.pc = "stage" /\ "read" \in ChangePcs
  BY JobKinds DEF StageNothing, StateTypes, ChangePcs
<1>2. Onward("read")
  BY <1>1, StepEffect DEF StageNothing
<1>3. UNCHANGED <<file, cli, store, accepted, spoiled, crossed>>
  BY DEF Stage, StageNothing
<1>4. job.staged = <<>>
  BY <1>1 DEF KeyInv, UndoOk
<1>5. /\ job' \in ChangeJobs /\ job'.pc = "read" /\ job'.staged = <<>> /\ job'.ref = job.ref
  BY <1>2, <1>4 DEF Onward
<1>6. InHand = {} /\ InHand' = {}
  BY <1>1, <1>5 DEF InHand
<1>7. Keeps
  BY <1>3, <1>6 DEF Keeps, Ok, WellKept, Excused
<1>8. FileOk' /\ SaveOk'
  BY <1>1, <1>3, <1>7, SameFiles
<1>9. DraftOk'
  BY <1>1, <1>5, <1>7 DEF KeyInv, DraftOk, Keeps
<1>10. UndoOk' /\ ForgetOk'
  BY <1>5 DEF UndoOk, ForgetOk
<1> QED  BY <1>8, <1>9, <1>10 DEF KeyInv

LEMMA ReadAndMutateKeys ==
    ASSUME StateTypes, KeyInv, ReadAndMutate PROVE KeyInv'
<1>1. /\ job \in ChangeJobs /\ job.pc = "read"
      /\ "persist" \in ChangePcs \cap HandPcs /\ "refused" \in ChangePcs \cap HandPcs
  BY JobKinds DEF ReadAndMutate, StateTypes, ChangePcs, HandPcs
<1>2. UNCHANGED <<file, cli, store, accepted, spoiled, crossed>>
  BY DEF ReadAndMutate
<1>3. /\ Onward("persist") \/ Onward("refused")
      /\ job'.pc = "persist" => \A k \in KeysOf(job'.next) : k \in FileKeys \/ job.ref = Key(k)
  <2>1. CASE file # Torn /\ Applies(file)
             /\ job' = [job EXCEPT !.pc = "persist", !.next = Mutated(file)]
    BY <1>1, <2>1, DraftEffect
  <2>2. CASE Step("refused")
    BY <1>1, <2>2, StepEffect DEF Onward
  <2> QED  BY <2>1, <2>2 DEF ReadAndMutate
<1>4. PICK p \in {"persist", "refused"} : Onward(p)
  BY <1>3
<1>5. p \in ChangePcs /\ p \in HandPcs /\ job.pc \in HandPcs
  BY <1>1 DEF HandPcs
<1>6. job' \in ChangeJobs /\ job'.pc = p
  BY <1>4 DEF Onward
<1>7. /\ Keeps
      /\ job'.staged # <<>> =>
             /\ store'[job'.name] \in Values
             /\ job'.name \in SeenKeys' =>
                   \/ Excused(job.name)'
                   \/ job'.staged[1] # Nothing /\ job'.staged[1] = accepted'[job'.name]
  BY <1>1, <1>2, <1>4, <1>5, OnwardKeys
<1>8. job'.name = job.name
  BY <1>4 DEF Onward
<1>9. FileOk' /\ SaveOk'
  BY <1>1, <1>2, <1>7, SameFiles
<1>10. DraftOk'
  <2>1. ASSUME job'.pc = "persist", NEW k \in KeysOf(job.next)' PROVE Ok(k)'
    <3>1. k \in Servers /\ (k \in FileKeys \/ job.ref = Key(k))
      BY <1>3, <2>1 DEF KeysOf
    <3>2. Ok(k)
      BY <1>1, <3>1 DEF KeyInv, FileOk, DraftOk
    <3> QED  BY <1>7, <3>1, <3>2 DEF Keeps
  <2> QED  BY <1>6, <2>1 DEF DraftOk
<1>11. UndoOk'
  BY <1>6, <1>7, <1>8 DEF UndoOk, Excused
<1>12. ForgetOk'
  BY <1>6 DEF ForgetOk
<1> QED  BY <1>9, <1>10, <1>11, <1>12 DEF KeyInv

\* Accepting the key in hand makes it well.
LEMMA AcceptKeys ==
    ASSUME StateTypes, KeyInv, job \in ChangeJobs, job.pc \in HandPcs, Accept,
           store' = store, job'.pc \notin HandPcs
    PROVE  Keeps
<1>1. InHand' = {}
  BY EmptyHand
<1>2. CASE job.staged = <<>>
  <2>1. InHand = {} /\ UNCHANGED <<accepted, spoiled, crossed>>
    BY <1>2 DEF InHand, Accept
  <2> QED  BY <1>1, <2>1 DEF Keeps, Ok, WellKept, Excused
<1>3. CASE job.staged # <<>>
  <2>1. store[job.name] \in Values /\ InHand = {job.name} /\ job.name \in Servers
    BY <1>3, ChangeFields DEF KeyInv, UndoOk, InHand, HandPcs
  <2>2. /\ accepted' = [accepted EXCEPT ![job.name] = store[job.name]]
        /\ spoiled' = spoiled \ {job.name} /\ crossed' = crossed \ {job.name}
    BY <1>3 DEF Accept
  <2>3. ASSUME NEW k \in Servers, k = job.name PROVE Ok(k)'
    <3>1. accepted'[k] = store[k] /\ store[k] # Nothing
      BY <2>1, <2>2, <2>3, ConstantsAssumption DEF StateTypes
    <3> QED  BY <3>1 DEF Ok, WellKept
  <2>4. ASSUME NEW k \in Servers, k # job.name, Ok(k) PROVE Ok(k)'
    <3>1. accepted'[k] = accepted[k]
      BY <2>2, <2>4 DEF StateTypes
    <3> QED  BY <2>1, <2>2, <2>4, <3>1 DEF Ok, WellKept, Excused
  <2> QED  BY <2>3, <2>4 DEF Keeps
<1> QED  BY <1>2, <1>3

LEMMA PersistKeys ==
    ASSUME StateTypes, KeyInv, PersistConfigAtomic PROVE KeyInv'
<1>1. /\ job \in ChangeJobs /\ job.pc = "persist" /\ job.next \in Configs
      /\ "load" \in ChangePcs /\ "refused" \in ChangePcs
  BY JobKinds, ChangeFields DEF PersistConfigAtomic, StateTypes, ChangePcs
<1>2. \A k \in KeysOf(job.next) : Ok(k)
  BY <1>1 DEF KeyInv, DraftOk
<1>3. ASSUME Renamed(job.next), Keeps PROVE FileOk' /\ SaveOk'
  <2>1. file' = job.next /\ ~(MidSave' /\ cli'.linked) /\ job.next # Torn
    BY <1>1, <1>3, RenamedEffect, ConfigTypes
  <2>2. FileKeys' = KeysOf(job.next)
    BY <2>1 DEF FileKeys, KeysOf
  <2> QED  BY <1>2, <1>3, <2>1, <2>2, KeySetTypes DEF FileOk, SaveOk, Keeps
<1>4. CASE Renamed(job.next) /\ Step("load") /\ Accept
  <2>1. Onward("load")
    BY <1>1, <1>4, StepEffect
  <2>2. job'.pc = "load" /\ store' = store
    BY <2>1 DEF Onward, PersistConfigAtomic
  <2>3. Keeps
    BY <1>1, <1>4, <2>2, AcceptKeys DEF HandPcs
  <2> QED  BY <1>3, <1>4, <2>2, <2>3 DEF KeyInv, DraftOk, UndoOk, ForgetOk
<1>5. CASE Step("refused") /\ UNCHANGED <<accepted, spoiled, crossed>>
           /\ (Renamed(job.next) \/ UNCHANGED <<file, cli>>)
  <2>1. Onward("refused")
    BY <1>1, <1>5, StepEffect
  <2>2. job' \in ChangeJobs /\ job'.pc = "refused" /\ store' = store /\ job'.name = job.name
    BY <2>1 DEF Onward, PersistConfigAtomic
  <2>3. job.pc \in HandPcs /\ "refused" \in HandPcs
    BY <1>1 DEF HandPcs
  <2>4. /\ Keeps
        /\ job'.staged # <<>> =>
               /\ store'[job'.name] \in Values
               /\ job'.name \in SeenKeys' =>
                     \/ Excused(job.name)'
                     \/ job'.staged[1] # Nothing /\ job'.staged[1] = accepted'[job'.name]
    BY <1>1, <1>5, <2>1, <2>2, <2>3, OnwardKeys
  <2>5. FileOk' /\ SaveOk'
    <3>1. CASE Renamed(job.next)
      BY <1>3, <2>4, <3>1
    <3>2. CASE UNCHANGED <<file, cli>>
      BY <1>1, <1>5, <2>4, <3>2, SameFiles
    <3> QED  BY <1>5, <3>1, <3>2
  <2>6. UndoOk'
    BY <2>2, <2>4 DEF UndoOk
  <2>7. DraftOk' /\ ForgetOk'
    BY <2>2 DEF DraftOk, ForgetOk
  <2> QED  BY <2>5, <2>6, <2>7 DEF KeyInv
<1> QED  BY <1>4, <1>5 DEF PersistConfigAtomic

LEMMA VerdictKeys ==
    ASSUME StateTypes, KeyInv, Verdict PROVE KeyInv'
<1>1. /\ job \in ChangeJobs /\ job.pc = "refused" /\ job.name \in Servers
      /\ "undo" \in ChangePcs /\ "undo" \in HandPcs /\ job.pc \in HandPcs
  BY JobKinds, ChangeFields DEF Verdict, StateTypes, ChangePcs, HandPcs
<1>2. UNCHANGED <<file, cli, store>>
  BY DEF Verdict
<1>3. CASE file # job.seen
  <2>1. job' = Idle
    BY <1>3 DEF Verdict
  <2>2. job'.pc = "idle" /\ job' \notin ChangeJobs
    BY <2>1, SettledTypes DEF Idle
  <2>3. CASE file = job.next
    <3>1. Accept
      BY <1>3, <2>3 DEF Verdict
    <3>2. Keeps
      BY <1>1, <1>2, <2>2, <3>1, AcceptKeys DEF HandPcs
    <3>3. FileOk'
      <4>1. FileKeys' = FileKeys
        BY <1>2 DEF FileKeys, KeysOf
      <4> QED  BY <3>2, <4>1, KeyNames DEF KeyInv, FileOk, Keeps
    <3>4. SaveOk'
      <4>1. MidSave' = MidSave /\ KeysOf(cli.config)' = KeysOf(cli.config)
        BY <1>2 DEF MidSave, KeysOf
      <4> QED  BY <1>2, <2>2, <3>2, <4>1, KeySetTypes DEF KeyInv, SaveOk, Keeps
    <3> QED  BY <2>1, <3>3, <3>4, Resting
  <2>4. CASE file # job.next
    <3>1. /\ UNCHANGED <<accepted, spoiled>>
          /\ crossed' = IF job.staged = <<>> THEN crossed ELSE crossed \cup {job.name}
      BY <1>3, <2>4 DEF Verdict
    <3>2. InHand' = {} /\ InHand = IF job.staged = <<>> THEN {} ELSE {job.name}
      BY <1>1, <2>2, EmptyHand DEF InHand, HandPcs
    <3>3. Keeps /\ crossed \subseteq crossed'
      BY <1>2, <3>1, <3>2 DEF Keeps, Ok, WellKept, Excused
    <3>4. FileOk' /\ SaveOk'
      BY <1>1, <1>2, <3>3, SameFiles
    <3> QED  BY <2>1, <3>4, Resting
  <2> QED  BY <2>3, <2>4
<1>4. CASE file = job.seen
  <2>1. Step("undo") /\ UNCHANGED <<accepted, spoiled, crossed>>
    BY <1>4 DEF Verdict
  <2>2. Onward("undo")
    BY <1>1, <2>1, StepEffect
  <2>3. job' \in ChangeJobs /\ job'.pc = "undo" /\ job'.name = job.name
    BY <2>2 DEF Onward
  <2>4. /\ Keeps /\ SeenKeys' = SeenKeys
        /\ job'.staged # <<>> =>
               /\ store'[job'.name] \in Values
               /\ job'.name \in SeenKeys' =>
                     \/ Excused(job.name)'
                     \/ job'.staged[1] # Nothing /\ job'.staged[1] = accepted'[job'.name]
    BY <1>1, <1>2, <2>1, <2>2, OnwardKeys
  <2>5. FileOk' /\ SaveOk'
    BY <1>1, <1>2, <2>1, <2>4, SameFiles
  <2>6. FileKeys' = SeenKeys'
    BY <1>2, <1>4, <2>4 DEF FileKeys, SeenKeys, KeysOf
  <2>7. UndoOk'
    BY <2>3, <2>4, <2>6 DEF UndoOk
  <2>8. DraftOk' /\ ForgetOk'
    BY <2>3 DEF DraftOk, ForgetOk
  <2> QED  BY <2>5, <2>7, <2>8 DEF KeyInv
<1> QED  BY <1>3, <1>4

\* The value put back is the accepted one, if the file refers to the key.
LEMMA PutBackKeys ==
    ASSUME StateTypes, KeyInv, PutBack PROVE KeyInv'
<1>1. job \in ChangeJobs /\ job.pc = "undo" /\ job.name \in Servers
  BY JobKinds, ChangeFields DEF PutBack, StateTypes, ChangePcs
<1>2. job' = Idle /\ job'.pc = "idle" /\ job' \notin ChangeJobs
  BY SettledTypes DEF PutBack, Idle
<1>3. InHand' = {} /\ InHand = IF job.staged = <<>> THEN {} ELSE {job.name}
  BY <1>1, <1>2, EmptyHand DEF InHand, HandPcs
<1>4. UNCHANGED <<file, cli, accepted, crossed>> /\ spoiled \subseteq spoiled'
  BY DEF PutBack
<1>5. FileKeys' = FileKeys /\ MidSave' = MidSave /\ KeysOf(cli.config)' = KeysOf(cli.config)
  BY <1>4 DEF FileKeys, MidSave, KeysOf
<1>6. ASSUME NEW k \in Servers, k \notin InHand, Ok(k) PROVE Ok(k)'
  <2>1. store'[k] = store[k]
    BY <1>1, <1>3, <1>6 DEF PutBack, StateTypes
  <2> QED  BY <1>3, <1>4, <1>6, <2>1 DEF Ok, WellKept, Excused
<1>7. ASSUME NEW k \in InHand, k \in crossed \/ k \in SeenKeys PROVE Ok(k)'
  <2>1. job.staged # <<>> /\ k = job.name
    BY <1>3, <1>7
  <2>2. \/ Excused(k)
        \/ job.staged[1] # Nothing /\ job.staged[1] = accepted[k]
    BY <1>1, <1>7, <2>1 DEF KeyInv, UndoOk, Excused
  <2>3. CASE Excused(k)
    BY <1>4, <2>3 DEF Ok, Excused
  <2>4. CASE job.staged[1] # Nothing /\ job.staged[1] = accepted[k]
    <3>1. CASE store' = [store EXCEPT ![job.name] = job.staged[1]]
      BY <1>1, <1>4, <2>1, <2>4, <3>1 DEF Ok, WellKept, StateTypes
    <3>2. CASE spoiled' = spoiled \cup {job.name}
      BY <2>1, <3>2 DEF Ok, Excused
    <3> QED  BY <2>1, <3>1, <3>2 DEF PutBack
  <2> QED  BY <2>2, <2>3, <2>4
<1>8. FileOk'
  <2>1. ASSUME NEW k \in FileKeys PROVE Ok(k)'
    <3>1. k \in Servers /\ Ok(k) /\ (k \in crossed \/ k \in SeenKeys)
      BY <1>1, KeyNames DEF KeyInv, FileOk, UndoOk
    <3> QED  BY <1>6, <1>7, <3>1
  <2> QED  BY <1>5, <2>1 DEF FileOk
<1>9. SaveOk'
  <2>1. ASSUME MidSave, cli.linked, NEW k \in KeysOf(cli.config) PROVE Ok(k)'
    <3>1. k \in Servers /\ Ok(k) /\ k \in crossed
      BY <1>1, <2>1, KeySetTypes DEF KeyInv, SaveOk
    <3> QED  BY <1>6, <1>7, <3>1
  <2> QED  BY <1>2, <1>4, <1>5, <2>1 DEF SaveOk
<1> QED  BY <1>2, <1>8, <1>9, Resting

LEMMA LoadConfigKeys ==
    ASSUME StateTypes, KeyInv, LoadConfig PROVE KeyInv'
<1>1. job \in ChangeJobs /\ job.pc = "load"
  BY JobKinds DEF LoadConfig, StateTypes, ChangePcs
<1>2. UNCHANGED <<file, cli, store, accepted, spoiled, crossed>>
  BY DEF LoadConfig
<1>3. CASE file = Torn
  <2>1. job' = Idle /\ job'.pc = "idle"
    BY <1>3 DEF LoadConfig, Idle
  <2>2. InHand' = {} /\ InHand = {}
    BY <1>1, <2>1, EmptyHand DEF HandPcs
  <2>3. Keeps
    BY <1>2, <2>2 DEF Keeps, Ok, WellKept, Excused
  <2> QED  BY <1>1, <1>2, <2>1, <2>3, SameFiles, Resting
<1>4. CASE file # Torn
  <2>1. Onward("apply") /\ job'.next = file
    BY <1>4, LoadEffect
  <2>2. job' \in ChangeJobs /\ job'.pc = "apply"
    BY <2>1 DEF Onward
  <2>3. InHand' = {} /\ InHand = {}
    BY <1>1, <2>2, EmptyHand DEF HandPcs
  <2>4. Keeps
    BY <1>2, <2>3 DEF Keeps, Ok, WellKept, Excused
  <2>5. FileOk' /\ SaveOk'
    BY <1>1, <1>2, <2>4, SameFiles
  <2>6. FileKeys' = KeysOf(job.next)'
    BY <1>2, <1>4, <2>1 DEF FileKeys, KeysOf
  <2> QED  BY <2>2, <2>5, <2>6 DEF KeyInv, DraftOk, UndoOk, ForgetOk
<1> QED  BY <1>3, <1>4

LEMMA ApplyReloadKeys ==
    ASSUME StateTypes, KeyInv, ApplyReload PROVE KeyInv'
<1>1. job.pc = "apply" /\ (job.by = "change" <=> job \in ChangeJobs) /\ "forget" \in ChangePcs
  BY JobKinds DEF ApplyReload, StateTypes, ChangePcs
<1>2. UNCHANGED <<file, cli, store, accepted, spoiled, crossed>> /\ mem' = job.next
  BY DEF ApplyReload
<1>3. CASE job \notin ChangeJobs
  <2>1. job' = Idle /\ job'.pc = "idle" /\ job' \notin ChangeJobs
    BY <1>1, <1>3, SettledTypes DEF ApplyReload, Idle
  <2>2. InHand' = {} /\ InHand = {}
    BY <1>1, <2>1, EmptyHand DEF HandPcs
  <2>3. Keeps
    BY <1>2, <2>2 DEF Keeps, Ok, WellKept, Excused
  <2> QED  BY <1>2, <2>1, <2>3, SameFiles, Resting
<1>4. CASE job \in ChangeJobs
  <2>1. Onward("forget")
    BY <1>1, <1>4, StepEffect DEF ApplyReload
  <2>2. job' \in ChangeJobs /\ job'.pc = "forget"
    BY <2>1 DEF Onward
  <2>3. InHand' = {} /\ InHand = {}
    BY <1>1, <2>2, EmptyHand DEF HandPcs
  <2>4. Keeps
    BY <1>2, <2>3 DEF Keeps, Ok, WellKept, Excused
  <2>5. FileOk' /\ SaveOk'
    BY <1>2, <1>4, <2>4, SameFiles
  <2>6. FileKeys' \subseteq crossed' \cup KeysOf(mem)'
    <3>1. FileKeys \subseteq crossed \cup KeysOf(job.next)
      BY <1>1, <1>4 DEF KeyInv, ForgetOk
    <3>2. FileKeys' = FileKeys /\ KeysOf(mem)' = KeysOf(job.next)
      BY <1>2 DEF FileKeys, KeysOf
    <3> QED  BY <1>2, <3>1, <3>2
  <2> QED  BY <2>2, <2>5, <2>6 DEF KeyInv, DraftOk, UndoOk, ForgetOk
<1> QED  BY <1>3, <1>4

\* No key the file refers to is forgotten, but crossed ones.
LEMMA ForgetKeys ==
    ASSUME StateTypes, KeyInv, Forget PROVE KeyInv'
<1>1. job \in ChangeJobs /\ job.pc = "forget"
  BY JobKinds DEF Forget, StateTypes, ChangePcs
<1>2. job' = Idle /\ job'.pc = "idle" /\ job' \notin ChangeJobs
  BY SettledTypes DEF Forget, Idle
<1>3. InHand' = {} /\ InHand = {}
  BY <1>1, <1>2, EmptyHand DEF HandPcs
<1>4. UNCHANGED <<file, cli, accepted, spoiled, crossed>>
  BY DEF Forget
<1>5. FileKeys' = FileKeys /\ MidSave' = MidSave /\ KeysOf(cli.config)' = KeysOf(cli.config)
  BY <1>4 DEF FileKeys, MidSave, KeysOf
<1>6. ASSUME NEW k \in Servers, Ok(k), k \in crossed \/ k \in KeysOf(mem) PROVE Ok(k)'
  <2>1. CASE k \in crossed
    BY <1>4, <2>1 DEF Ok, Excused
  <2>2. CASE k \in KeysOf(mem)
    <3>1. store'[k] = store[k]
      BY <2>2 DEF Forget, Forgotten
    <3> QED  BY <1>3, <1>4, <1>6, <3>1 DEF Ok, WellKept, Excused
  <2> QED  BY <1>6, <2>1, <2>2
<1>7. FileOk'
  <2>1. ASSUME NEW k \in FileKeys PROVE Ok(k)'
    <3>1. k \in Servers /\ Ok(k) /\ (k \in crossed \/ k \in KeysOf(mem))
      BY <1>1, KeyNames DEF KeyInv, FileOk, ForgetOk
    <3> QED  BY <1>6, <3>1
  <2> QED  BY <1>5, <2>1 DEF FileOk
<1>8. SaveOk'
  <2>1. ASSUME MidSave, cli.linked, NEW k \in KeysOf(cli.config) PROVE Ok(k)'
    <3>1. k \in Servers /\ Ok(k) /\ k \in crossed
      BY <1>1, <2>1, KeySetTypes DEF KeyInv, SaveOk
    <3> QED  BY <1>6, <3>1
  <2> QED  BY <1>2, <1>4, <1>5, <2>1 DEF SaveOk
<1> QED  BY <1>2, <1>7, <1>8, Resting

\* The command line works beside the job: what it writes over a change is crossed.
LEMMA BesideJob ==
    ASSUME StateTypes, KeyInv, UNCHANGED <<mem, store, job, accepted, spoiled>>,
           crossed \subseteq crossed',
           job \in ChangeJobs => FileKeys' \subseteq FileKeys \cup crossed'
    PROVE  Keeps /\ DraftOk' /\ UndoOk' /\ ForgetOk'
<1>1. InHand' = InHand /\ SeenKeys' = SeenKeys
  BY DEF InHand, SeenKeys, KeysOf
<1>2. Keeps
  BY <1>1 DEF Keeps, Ok, WellKept, Excused
<1>3. KeysOf(job.next)' = KeysOf(job.next) /\ KeysOf(mem)' = KeysOf(mem)
  BY DEF KeysOf
<1>4. job.pc \in {"stage", "read", "persist", "refused", "undo", "forget"} => job \in ChangeJobs
  BY JobKinds DEF StateTypes, ChangePcs
<1>5. DraftOk'
  BY <1>2, <1>3, KeySetTypes DEF KeyInv, DraftOk, Keeps
<1>6. UndoOk'
  BY <1>1, <1>4 DEF KeyInv, UndoOk, Excused, WellKept
<1>7. ForgetOk'
  BY <1>3, <1>4 DEF KeyInv, ForgetOk
<1> QED  BY <1>2, <1>5, <1>6, <1>7

LEMMA CliLoadKeys ==
    ASSUME StateTypes, KeyInv, CliLoad PROVE KeyInv'
<1>1. UNCHANGED <<file, mem, store, job, accepted, spoiled, crossed>>
  BY DEF CliLoad
<1>2. FileKeys' = FileKeys /\ ~MidSave'
  BY <1>1, CliLoadEffect DEF FileKeys, KeysOf, MidSave
<1>3. Keeps /\ DraftOk' /\ UndoOk' /\ ForgetOk'
  BY <1>1, <1>2, BesideJob
<1> QED  BY <1>2, <1>3, KeyNames DEF KeyInv, FileOk, SaveOk, Keeps

LEMMA CliTruncateKeys ==
    ASSUME StateTypes, KeyInv, CliTruncate PROVE KeyInv'
<1>1. cli \in Saves /\ cli.config \in Configs /\ cli' = Opened(cli)
  BY SaveKinds DEF CliTruncate, StateTypes, Opened
<1>2. cli'.config = cli.config /\ cli'.pc = "truncated"
  BY <1>1, SaveSteps
<1>3. UNCHANGED <<mem, store, job, accepted, spoiled>> /\ file' = Default
  BY DEF CliTruncate, Written
<1>4. FileKeys' = {}
  <2>1. Default # Torn
    BY DefaultType, ConfigTypes
  <2> QED  BY <1>3, <2>1, DefaultType DEF FileKeys, KeysOf
<1>5. crossed \subseteq crossed'
  BY DEF CliTruncate
<1>6. Keeps /\ DraftOk' /\ UndoOk' /\ ForgetOk'
  BY <1>3, <1>4, <1>5, BesideJob
<1>7. ASSUME NEW k \in KeysOf(cli.config)
      PROVE  Ok(k)' /\ (job' \in ChangeJobs => k \in crossed')
  <2>1. CASE \/ file # [cli.config EXCEPT !.misc = ~@]
             \/ job # Idle /\ job.by = "change"
    <3>1. k \in crossed'
      BY <1>7, <2>1 DEF CliTruncate
    <3> QED  BY <3>1 DEF Ok, Excused
  <2>2. CASE /\ file = [cli.config EXCEPT !.misc = ~@]
             /\ ~(job # Idle /\ job.by = "change")
    <3>1. job \notin ChangeJobs
      BY <2>2, ChangeFields
    <3>2. file \in Configs /\ KeysOf(file) = KeysOf(cli.config)
      BY <1>1, <2>2, FlipType
    <3>3. k \in FileKeys
      BY <1>7, <3>2, ConfigTypes DEF FileKeys
    <3>4. Ok(k) /\ k \in Servers
      BY <3>3, KeyNames DEF KeyInv, FileOk
    <3> QED  BY <1>3, <1>6, <3>1, <3>4 DEF Keeps
  <2> QED  BY <2>1, <2>2
<1>8. SaveOk'
  <2>1. KeysOf(cli.config)' = KeysOf(cli.config)
    BY <1>2 DEF KeysOf
  <2> QED  BY <1>7, <2>1 DEF SaveOk
<1> QED  BY <1>4, <1>6, <1>8 DEF KeyInv, FileOk

LEMMA CliWriteKeys ==
    ASSUME StateTypes, KeyInv, CliWrite PROVE KeyInv'
<1>1. cli \in Saves /\ cli.config \in Configs /\ MidSave
  BY SaveKinds DEF CliWrite, MidSave, StateTypes
<1>2. UNCHANGED <<mem, store, job, accepted, spoiled, crossed>>
  BY DEF CliWrite
<1>3. \/ /\ cli' = HalfWritten(cli)
         /\ file' = Torn \/ file' = file
      \/ /\ cli' = Idle
         /\ (cli.linked /\ file' = cli.config) \/ file' = file
  BY DEF CliWrite, Written, HalfWritten
<1>4. \/ FileKeys' = FileKeys \/ FileKeys' = {}
      \/ cli.linked /\ FileKeys' = KeysOf(cli.config)
  <2>1. cli.config # Torn
    BY <1>1, ConfigTypes
  <2> QED  BY <1>3, <2>1 DEF FileKeys, KeysOf
<1>5. \A k \in FileKeys' : k \in Servers /\ Ok(k)
  BY <1>1, <1>4, KeyNames DEF KeyInv, FileOk, SaveOk
<1>6. job \in ChangeJobs => FileKeys' \subseteq FileKeys \cup crossed'
  BY <1>1, <1>2, <1>4 DEF KeyInv, SaveOk
<1>7. Keeps /\ DraftOk' /\ UndoOk' /\ ForgetOk'
  BY <1>2, <1>6, BesideJob
<1>8. FileOk'
  BY <1>5, <1>7 DEF FileOk, Keeps
<1>9. SaveOk'
  <2>1. CASE cli' = Idle
    BY <2>1 DEF SaveOk, MidSave, Idle
  <2>2. CASE cli' = HalfWritten(cli)
    <3>1. cli'.config = cli.config /\ cli'.linked = cli.linked
      BY <1>1, <2>2, SaveSteps
    <3>2. KeysOf(cli.config)' = KeysOf(cli.config)
      BY <3>1 DEF KeysOf
    <3>3. ASSUME cli'.linked, NEW k \in KeysOf(cli.config)
          PROVE  Ok(k)' /\ (job' \in ChangeJobs => k \in crossed')
      <4>1. Ok(k) /\ (job \in ChangeJobs => k \in crossed) /\ k \in Servers
        BY <1>1, <3>1, <3>3, KeySetTypes DEF KeyInv, SaveOk
      <4> QED  BY <1>2, <1>7, <4>1 DEF Keeps
    <3> QED  BY <3>2, <3>3 DEF SaveOk
  <2> QED  BY <1>3, <2>1, <2>2
<1> QED  BY <1>7, <1>8, <1>9 DEF KeyInv

LEMMA CrashKeys ==
    ASSUME StateTypes, KeyInv, Crash PROVE KeyInv'
<1>1. job' = Idle /\ job'.pc = "idle" /\ job' \notin ChangeJobs
  BY SettledTypes DEF Crash, Idle
<1>2. UNCHANGED <<file, cli, store, accepted, crossed>> /\ spoiled' = spoiled \cup InHand
  BY DEF Crash, InHand
<1>3. Keeps
  BY <1>2 DEF Keeps, Ok, WellKept, Excused
<1>4. FileOk' /\ SaveOk'
  BY <1>1, <1>2, <1>3, SameFiles
<1> QED  BY <1>1, <1>4, Resting

LEMMA RestartKeys ==
    ASSUME StateTypes, WatchTypes, KeyInv, DaemonRestart PROVE KeyInv'
<1>1. job = Idle /\ UNCHANGED <<file, store, job, cli, accepted, spoiled, crossed>>
  BY DEF DaemonRestart, WatchTypes
<1>2. Keeps
  BY <1>1 DEF Keeps, Ok, WellKept, Excused, InHand
<1>3. FileOk' /\ SaveOk'
  BY <1>1, <1>2, SameFiles
<1> QED  BY <1>1, <1>3, Resting

LEMMA KeysKept ==
    ASSUME StateTypes, WatchTypes, KeyInv, ConfigNext PROVE KeyInv'
<1>1. CASE AskChange \/ AskReload \/ Debounce \/ Noise \/ WatcherTake \/ ArmWatch
  BY <1>1, SameKeys DEF AskChange, AskReload, Debounce, Noise, WatcherTake, ArmWatch,
     StateVars
<1>2. CASE Change
  <2>1. CASE Stage
    BY <2>1, KeepStagedKeys, StageNothingKeys DEF Stage
  <2> QED
    BY <1>2, <2>1, BeginChangeKeys, BeginReloadKeys, ReadAndMutateKeys, PersistKeys,
       VerdictKeys, PutBackKeys, LoadConfigKeys, ApplyReloadKeys, ForgetKeys DEF Change
<1> QED
  BY <1>1, <1>2, CliLoadKeys, CliTruncateKeys, CliWriteKeys, CrashKeys, RestartKeys
     DEF ConfigNext

-----------------------------------------------------------------------------
(* The theorems. *)

LEMMA ConfigInitially == ConfigInit => ConfigInv
<1> SUFFICES ASSUME ConfigInit PROVE ConfigInv
  OBVIOUS
<1> DEFINE owner(s) == IF s \in DOMAIN CopyOf THEN CopyOf[s] ELSE s
           typed == CHOOSE v \in Values : TRUE
<1>1. typed \in Values /\ typed # Nothing
  BY ConstantsAssumption
<1> HIDE DEF typed
<1>2. PICK S \in SUBSET Servers :
         /\ file = [servers |-> [s \in S |-> Key(owner(s))], misc |-> FALSE]
         /\ store = [k \in Servers |->
                        IF k \in {owner(s) : s \in S} THEN typed ELSE Nothing]
  BY DEF ConfigInit, typed
<1>3. \A s \in S : owner(s) \in Servers
  BY ConstantsAssumption
<1> HIDE DEF owner
<1>4. [s \in S |-> Key(owner(s))] \in Entries
  <2>1. [s \in S |-> Key(owner(s))] \in [S -> Refs]
    BY <1>3, RefTypes
  <2> QED  BY <2>1, EntriesOf
<1>5. file \in Configs /\ file.servers = [s \in S |-> Key(owner(s))]
  BY <1>2, <1>4 DEF Configs
<1>6. store \in [Servers -> Values \cup {Nothing}]
  BY <1>1, <1>2
<1>7. accepted = store /\ mem = file /\ job = Idle /\ cli = Idle /\ queue = <<>>
      /\ daemon = "up" /\ dirty = FALSE /\ chan = <<>> /\ spoiled = {} /\ crossed = {}
      /\ missed = FALSE
      /\ used = [changes |-> 0, reloads |-> 0, saves |-> 0, trouble |-> 0]
  BY DEF ConfigInit
<1>8. StateTypes
  BY <1>5, <1>6, <1>7, JobKinds DEF StateTypes
<1>9. WatchTypes
  <2>1. <<>> \in Seq(Waiters) /\ <<>> \in Seq(Paths) /\ Len(<<>>) <= ChanCap
    BY ConstantsAssumption
  <2>2. used \in Counts
    BY <1>7, ConstantsAssumption DEF Counts
  <2> QED  BY <1>7, <2>1, <2>2 DEF WatchTypes
<1>10. FileOk
  <2>1. ASSUME NEW k \in FileKeys PROVE WellKept(k)
    <3>1. file # Torn
      BY <1>5, ConfigTypes
    <3>2. k \in Servers /\ \E t \in S : Key(owner(t)) = Key(k)
      BY <1>5, <3>1 DEF FileKeys, KeysOf
    <3>3. PICK t \in S : owner(t) = k
      BY <3>2, KeyInjective
    <3>4. store[k] = typed
      BY <1>2, <3>2, <3>3
    <3> QED  BY <1>1, <1>7, <3>4 DEF WellKept
  <2> QED  BY <2>1 DEF FileOk, Ok
<1>11. SaveOk
  BY <1>7 DEF SaveOk, MidSave, Idle
<1>12. DraftOk /\ UndoOk /\ ForgetOk
  BY <1>7 DEF DraftOk, UndoOk, ForgetOk, Idle
<1> QED  BY <1>8, <1>9, <1>10, <1>11, <1>12 DEF ConfigInv, KeyInv

\* The invariant of the configuration: everything that is written, or about to be
\* written or put back, by the job or by the command line, refers only to keys that
\* hold their accepted value, are in hand, or are excused.
THEOREM ConfigInvariant == ConfigSpec => []ConfigInv
<1>1. ConfigInit => ConfigInv
  BY ConfigInitially
<1>2. ConfigInv /\ [ConfigNext]_configVars => ConfigInv'
  <2>1. ASSUME ConfigInv, ConfigNext PROVE ConfigInv'
    BY <2>1, StateTypesKept, WatchTypesKept, KeysKept DEF ConfigInv
  <2>2. ASSUME ConfigInv, UNCHANGED configVars PROVE ConfigInv'
    <3>1. UNCHANGED StateVars /\ UNCHANGED <<queue, daemon, dirty, chan, missed, used, job>>
      BY <2>2 DEF configVars, StateVars
    <3>2. StateTypes' /\ KeyInv'
      BY <2>2, <3>1, SameStateTypes, SameKeys DEF ConfigInv
    <3>3. WatchTypes'
      BY <2>2, <3>1 DEF ConfigInv, WatchTypes
    <3> QED  BY <3>2, <3>3 DEF ConfigInv
  <2> QED  BY <2>1, <2>2
<1> QED  BY <1>1, <1>2, PTL DEF ConfigSpec

LEMMA ConfigTyped == StateTypes /\ WatchTypes => ConfigTypeOK
<1> SUFFICES ASSUME StateTypes, WatchTypes PROVE ConfigTypeOK
  OBVIOUS
<1>1. \A i \in 1..Len(queue) : queue[i] \in Waiters
  BY DEF WatchTypes
<1>2. chan \in UNION {[1..n -> {"config", "other"}] : n \in 0..ChanCap}
  <2>1. chan \in [1..Len(chan) -> Paths] /\ Len(chan) \in 0..ChanCap
    BY ConstantsAssumption DEF WatchTypes
  <2> QED  BY <2>1 DEF Paths
<1>3. job \in Jobs \cup {Idle}
  BY DEF StateTypes, Jobs, ChangeJobs, ReloadJobs
<1>4. cli \in [pc : {"loaded", "truncated", "torn"}, config : Configs,
               linked : BOOLEAN] \cup {Idle}
  BY DEF StateTypes, Saves
<1>5. {dirty, missed} \subseteq BOOLEAN
  BY DEF WatchTypes
<1> QED  BY <1>1, <1>2, <1>3, <1>4, <1>5 DEF StateTypes, WatchTypes, ConfigTypeOK

\* A key the file refers to holds the value last accepted for it, whatever changes,
\* reloads, saves by the command line, store and disk failures and crashes meet,
\* unless its undo failed, a change still has it in hand, or the command line saved
\* over a change (apply_operator_mutation_keeping, put_back, forget).
THEOREM KeysAreAccepted == ConfigSpec => []KeyIsAccepted
<1>1. ConfigInv => KeyIsAccepted
  <2> SUFFICES ASSUME ConfigInv PROVE KeyIsAccepted
    OBVIOUS
  <2>1. ConfigTypeOK
    BY ConfigTyped DEF ConfigInv
  <2>2. \A k \in FileKeys \ (spoiled \cup crossed \cup InHand) :
           store[k] # Nothing /\ store[k] = accepted[k]
    BY DEF ConfigInv, KeyInv, FileOk, Ok, Excused, WellKept
  <2> QED  BY <2>1, <2>2 DEF KeyIsAccepted
<1> QED  BY <1>1, ConfigInvariant, PTL

=============================================================================
