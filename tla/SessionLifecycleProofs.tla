----------------------- MODULE SessionLifecycleProofs -----------------------
(***************************************************************************)
(* Proofs about who is connected.  First SessionLifecycle, the sessions of *)
(* HTTP clients, for any session ids and requests and any limits; then     *)
(* DaemonClients, the registry of the IPC clients, for any finite set of   *)
(* connections and any clients.                                            *)
(***************************************************************************)
EXTENDS SessionLifecycle, DaemonClients, FiniteSetTheorems, SequenceTheorems, TLAPS

Sessions == [on : BOOLEAN, age : 0..2, stream : BOOLEAN, lease : Nat, seen : BOOLEAN,
             wired : BOOLEAN]
Requests == [pc : Pcs, id : Ids \cup {NoId}, kind : Kinds \cup {"use"},
             victim : Ids \cup {NoId}, lease : Nat]

-----------------------------------------------------------------------------
(* The invariant. *)

\* TypeOK but for the bounds that take a count.
Shapes ==
    /\ store \in [Ids -> Sessions]
    /\ issued \subseteq Ids /\ signedIn \subseteq Ids /\ doomed \subseteq Ids
    /\ signIn \in [Ids -> Nat \ {0}] /\ ending \subseteq Ids \X Nat
    /\ closed \in Seq(Ids) /\ Len(closed) <= ClosedKept
    /\ expiry \in Seq(Ids)
    /\ held \in [Ids -> SUBSET Items]
    /\ listener \in [id : Ids \cup {NoId}, part : 1..3]
    /\ admission \in Ids \cup {NoId}
    /\ reqs \in [Reqs -> Requests]
    /\ stray \subseteq Ids \X Items

\* Nothing is left in the place of a session that has gone, and a session make_room
\* has looked at and that was not used since is quiet and has no stream.
StoreInv ==
    \A s \in Ids : /\ ~store[s].on => store[s] = Gone
                   /\ store[s].seen => store[s].age # Fresh /\ ~store[s].stream

\* A request has its session's id; only one that admits and validates has an effect.
ReqInv ==
    \A r \in Reqs :
        /\ reqs[r].pc # "idle" => reqs[r].id \in Ids
        /\ reqs[r].pc \in {"admit", "evict", "bind", "unbind", "wire", "validate", "effect"} =>
               reqs[r].kind \in {"initialize", "stream"} \cup Items
        /\ reqs[r].pc = "evict" => reqs[r].victim \in Ids

\* Requests that may still open a session.
Admitting == {r \in Reqs : reqs[r].pc \in {"admit", "evict"}}

\* What was asked for pays for the sessions open, the ones that may be opened and the
\* ones in the expiry channel: no id is in it twice for one opening.
CountInv ==
    /\ IsFiniteSet(Open) /\ Cardinality(Open) <= MaxSessions
    /\ IsFiniteSet(Admitting)
    /\ asks \in 0..MaxAsks
    /\ Len(expiry) + Cardinality(Open) + Cardinality(Admitting) <= asks

\* What is held under the id of a session that has gone is stray or about to be
\* released.
HeldInv ==
    \A s \in Ids : ~store[s].on =>
        \A item \in held[s] : <<s, item>> \in stray \/ Coming(s, Part(item))

\* A sign-in that a check found over stays over, also once the client has signed in
\* again.
EndInv ==
    /\ \A e \in ending : e[2] # Unbound => Over(e[1], e[2])
    /\ \A r \in Reqs : reqs[r].pc = "end" =>
           reqs[r].lease # Unbound /\ Over(reqs[r].id, reqs[r].lease)

SessionInv == Shapes /\ StoreInv /\ ReqInv /\ CountInv /\ HeldInv /\ EndInv

-----------------------------------------------------------------------------
(* The reports of a prune. *)

\* A prune reports each session it drops once.
LEMMA ReportsAll ==
  ASSUME IsFiniteSet(Old), NEW q \in Reports(Old)
  PROVE  /\ q \in Seq(Ids) /\ Len(q) = Cardinality(Old)
         /\ \A s \in Old : \E i \in 1..Len(q) : q[i] = s
<1>. DEFINE n == Cardinality(Old)
<1>1. n \in Nat
  BY FS_CardinalityType
<1>2. q \in [1..n -> Old] /\ \A i, j \in 1..n : q[i] = q[j] => i = j
  BY DEF Reports
<1>3. Old \subseteq Ids
  BY DEF Old, Open
<1>4. q \in Seq(Ids) /\ Len(q) = n
  BY <1>1, <1>2, <1>3
<1>5. q \in Injection(1..n, Old)
  BY <1>2 DEF Injection, IsInjective
<1>6. Cardinality(1..n) = n
  BY <1>1, FS_Interval
<1>7. q \in Surjection(1..n, Old)
  BY <1>5, <1>6, FS_Injection
<1>. QED
  BY <1>4, <1>7 DEF Surjection

LEMMA OldFinite ==
  ASSUME CountInv
  PROVE  /\ IsFiniteSet(Old) /\ Cardinality(Old) \in Nat /\ Old \subseteq Open
         /\ Open \subseteq Ids
<1>1. Old \in SUBSET Open /\ Open \subseteq Ids
  BY DEF Old, Open
<1>. QED
  BY <1>1, FS_Subset, FS_CardinalityType DEF CountInv

\* What a prune puts into the expiry channel.
Pruned ==
    /\ expiry' \in Seq(Ids) /\ Len(expiry') = Len(expiry) + Cardinality(Old)
    /\ \A i \in 1..Len(expiry) : expiry'[i] = expiry[i]
    /\ \A s \in Old : \E i \in 1..Len(expiry') : expiry'[i] = s

LEMMA Prunes ==
  ASSUME Shapes, CountInv, \E q \in Reports(Old) : expiry' = expiry \o q
  PROVE  Pruned
<1>1. PICK q \in Reports(Old) : expiry' = expiry \o q
  OBVIOUS
<1>2. /\ q \in Seq(Ids) /\ Len(q) = Cardinality(Old) /\ Cardinality(Old) \in Nat
      /\ \A s \in Old : \E i \in 1..Len(q) : q[i] = s
  BY ReportsAll, OldFinite
<1>3. expiry \in Seq(Ids) /\ Len(expiry) \in Nat
  BY DEF Shapes
<1>4. /\ expiry' \in Seq(Ids) /\ Len(expiry') = Len(expiry) + Len(q)
      /\ \A i \in 1..(Len(expiry) + Len(q)) :
            expiry'[i] = IF i <= Len(expiry) THEN expiry[i] ELSE q[i - Len(expiry)]
  BY <1>1, <1>2, <1>3, ConcatProperties
<1>5. \A s \in Old : \E i \in 1..Len(expiry') : expiry'[i] = s
  <2>. SUFFICES ASSUME NEW s \in Old PROVE \E i \in 1..Len(expiry') : expiry'[i] = s
    OBVIOUS
  <2>1. PICK i \in 1..Len(q) : q[i] = s
    BY <1>2
  <2>2. Len(expiry) + i \in 1..Len(expiry') /\ expiry'[Len(expiry) + i] = s
    BY <1>2, <1>3, <1>4, <2>1
  <2>. QED
    BY <2>2
<1>. QED
  BY <1>2, <1>3, <1>4, <1>5 DEF Pruned

-----------------------------------------------------------------------------
(* Types. *)

\* The list of closed sessions keeps its length.
LEMMA RecordKeeps ==
  ASSUME closed \in Seq(Ids), Len(closed) <= ClosedKept, NEW s \in Ids, RecordClosed(s)
  PROVE  closed' \in Seq(Ids) /\ Len(closed') <= ClosedKept
<1>. USE SessionAssumption
<1>1. CASE Len(closed) = ClosedKept
  <2>1. closed # <<>>
    BY <1>1
  <2>2. Tail(closed) \in Seq(Ids) /\ Len(Tail(closed)) = Len(closed) - 1
    BY <2>1, HeadTailProperties
  <2>3. closed' = Append(Tail(closed), s)
    BY <1>1 DEF RecordClosed
  <2>. QED
    BY <1>1, <2>2, <2>3
<1>2. CASE Len(closed) # ClosedKept
  <2>1. closed' = Append(closed, s)
    BY <1>2 DEF RecordClosed
  <2>. QED
    BY <1>2, <2>1
<1>. QED
  BY <1>1, <1>2

\* What a step does to the requests.
ReqsKept == reqs' \in [Reqs -> Requests] /\ ReqInv'

LEMMA GoesKeeps ==
  ASSUME Shapes, ReqInv, NEW r \in Reqs, NEW pc \in Pcs, Goes(r, pc),
         reqs[r].pc \in {"admit", "evict", "bind", "unbind", "wire", "validate"} \/
             pc \in {"record", "part1", "part2", "part3"},
         reqs[r].pc # "idle", pc # "evict"
  PROVE  ReqsKept
<1>1. reqs' \in [Reqs -> Requests]
  BY DEF Shapes, Goes, Requests
<1>2. /\ reqs'[r].pc = pc /\ reqs'[r].id = reqs[r].id /\ reqs'[r].kind = reqs[r].kind
      /\ \A q \in Reqs \ {r} : reqs'[q] = reqs[q]
  BY DEF Shapes, Goes, Requests
<1>3. ReqInv'
  BY <1>2 DEF ReqInv, Pcs
<1>. QED
  BY <1>1, <1>3 DEF ReqsKept

LEMMA EndsKeeps ==
  ASSUME Shapes, ReqInv, NEW r \in Reqs, Ends(r)
  PROVE  ReqsKept
BY DEF ReqsKept, Shapes, ReqInv, Ends, Requests, Pcs, Free, Unbound

LEMMA VictimType ==
  ASSUME Shapes, NEW r \in Reqs, NEW pc \in Pcs, NEW v \in Ids \cup {NoId},
         reqs' = [reqs EXCEPT ![r].pc = pc, ![r].victim = v]
  PROVE  reqs' \in [Reqs -> Requests]
<1>1. reqs \in [Reqs -> Requests]
  BY DEF Shapes
<1>2. [reqs[r] EXCEPT !.pc = pc, !.victim = v] \in Requests
  BY <1>1 DEF Requests
<1>3. reqs' = [reqs EXCEPT ![r] = [reqs[r] EXCEPT !.pc = pc, !.victim = v]]
  BY <1>1 DEF Requests
<1>. QED
  BY <1>1, <1>2, <1>3

LEMMA LeaseType ==
  ASSUME Shapes, NEW r \in Reqs, NEW pc \in Pcs, NEW n \in Nat,
         reqs' = [reqs EXCEPT ![r].pc = pc, ![r].lease = n]
  PROVE  reqs' \in [Reqs -> Requests]
<1>1. reqs \in [Reqs -> Requests]
  BY DEF Shapes
<1>2. [reqs[r] EXCEPT !.pc = pc, !.lease = n] \in Requests
  BY <1>1 DEF Requests
<1>3. reqs' = [reqs EXCEPT ![r] = [reqs[r] EXCEPT !.pc = pc, !.lease = n]]
  BY <1>1 DEF Requests
<1>. QED
  BY <1>1, <1>2, <1>3

\* A session with one of its fields set is a session.
LEMMA Fields ==
  ASSUME NEW st \in Sessions, NEW a \in 0..2, NEW b \in BOOLEAN, NEW n \in Nat
  PROVE  /\ [st EXCEPT !.on = b] \in Sessions
         /\ [st EXCEPT !.age = a] \in Sessions
         /\ [st EXCEPT !.stream = b] \in Sessions
         /\ [st EXCEPT !.lease = n] \in Sessions
         /\ [st EXCEPT !.seen = b] \in Sessions
         /\ [st EXCEPT !.wired = b] \in Sessions
         /\ [st EXCEPT !.age = a, !.seen = b] \in Sessions
BY DEF Sessions

LEMMA SeenSame ==
  ASSUME NEW st \in Sessions, NEW b, b = st.seen
  PROVE  [st EXCEPT !.seen = b] = st
BY DEF Sessions

LEMMA WiredSame ==
  ASSUME NEW st \in Sessions, NEW b, b = st.wired
  PROVE  [st EXCEPT !.wired = b] = st
BY DEF Sessions

LEMMA GoneType == Gone \in Sessions /\ ~Gone.on /\ ~Gone.seen
BY DEF Gone, Sessions, Fresh, Unbound

LEMMA NewType == New \in Sessions /\ New.on /\ ~New.seen
<1>1. New \in Sessions
  <2>1. TRUE \in BOOLEAN /\ 0 \in 0..2 /\ 0 \in Nat
    OBVIOUS
  <2>. QED
    BY <2>1, GoneType, Fields DEF New
<1>. QED
  BY <1>1 DEF New, Gone

LEMMA UsedType ==
  ASSUME NEW st \in Sessions
  PROVE  /\ Used(st) \in Sessions /\ Used(st).on = st.on /\ ~Used(st).seen
         /\ Used(st).stream = st.stream
<1>1. Used(st) \in Sessions
  <2>1. FALSE \in BOOLEAN /\ Fresh \in 0..2 /\ 0 \in Nat
    BY DEF Fresh
  <2>. QED
    BY <2>1, Fields DEF Used
<1>. QED
  BY <1>1 DEF Used, Sessions

\* What a step does to the store.
StoreKept == store' \in [Ids -> Sessions] /\ StoreInv'

\* A session as StoreInv has it.
Sane(st) == st \in Sessions /\ (~st.on => st = Gone) /\ (st.seen => st.age # Fresh /\ ~st.stream)

LEMMA SaneStore == Shapes /\ StoreInv => \A t \in Ids : Sane(store[t])
BY DEF Shapes, StoreInv, Sane

LEMMA SaneKinds ==
  /\ Sane(Gone) /\ Sane(New)
  /\ \A st \in Sessions : st.on => Sane(Used(st))
BY GoneType, NewType, UsedType DEF Sane

\* One session changes.
LEMMA OneKeeps ==
  ASSUME Shapes, StoreInv, NEW s \in Ids, NEW st, Sane(st), store' = [store EXCEPT ![s] = st]
  PROVE  StoreKept
<1>1. store' \in [Ids -> Sessions] /\ \A t \in Ids : store'[t] = IF t = s THEN st ELSE store[t]
  BY DEF Shapes, Sane
<1>2. \A t \in Ids : Sane(store'[t])
  BY <1>1, SaneStore
<1>. QED
  BY <1>1, <1>2 DEF StoreKept, StoreInv, Sane

LEMMA PruneKeeps ==
  ASSUME Shapes, StoreInv, NEW S,
         store' = [t \in Ids |-> IF t \in S THEN Gone ELSE store[t]]
  PROVE  StoreKept
<1>1. \A t \in Ids : store'[t] \in {Gone, store[t]}
  OBVIOUS
<1>2. \A t \in Ids : Sane(store'[t])
  BY <1>1, SaneStore, SaneKinds
<1>. QED
  BY <1>2 DEF StoreKept, StoreInv, Sane

LEMMA InsertKeeps ==
  ASSUME Shapes, StoreInv, NEW s, NEW S, Insert(s, S)
  PROVE  StoreKept
<1>1. \A t \in Ids : store'[t] \in {New, Gone, store[t]}
  BY DEF Insert
<1>2. \A t \in Ids : Sane(store'[t])
  BY <1>1, SaneStore, SaneKinds
<1>3. store' = [t \in Ids |-> store'[t]]
  BY DEF Insert
<1>. QED
  BY <1>2, <1>3 DEF StoreKept, StoreInv, Sane

LEMMA ReleaseKeeps ==
  ASSUME Shapes, NEW s \in Ids, NEW k, Release(s, k)
  PROVE  held' \in [Ids -> SUBSET Items] /\ stray' \subseteq Ids \X Items
BY DEF Shapes, Release

LEMMA HoldsKeeps ==
  ASSUME Shapes, NEW s \in Ids, NEW item \in Items, Holds(s, item)
  PROVE  held' \in [Ids -> SUBSET Items] /\ stray' \subseteq Ids \X Items
BY DEF Shapes, Holds

LEMMA ReportKeeps ==
  ASSUME Shapes, NEW s \in Ids, expiry' = Append(expiry, s)
  PROVE  expiry' \in Seq(Ids)
BY DEF Shapes

Typed == Shapes /\ StoreInv /\ ReqInv

\* The variables that only some steps change.
Rest == <<issued, signedIn, signIn, ending, closed, held, listener, doomed, admission, stray>>

LEMMA RestKeeps ==
  ASSUME Shapes, UNCHANGED Rest, StoreKept, ReqsKept, expiry' \in Seq(Ids)
  PROVE  Typed'
BY DEF Typed, Shapes, Rest, StoreKept, ReqsKept

LEMMA AskKeeps ==
  ASSUME Typed, NEW r \in Reqs, NEW s \in Ids, NEW kind \in Kinds, Ask(r, s, kind)
  PROVE  Typed'
<1>. USE DEF Typed
<1>1. ReqsKept
  <2>1. PICK pc \in {"remove", "admit"} :
            /\ pc = "admit" => kind # "delete"
            /\ reqs' = [reqs EXCEPT ![r] = [pc |-> pc, id |-> s, kind |-> kind, victim |-> NoId,
                                        lease |-> signIn[s]]]
    BY DEF Ask
  <2>2. reqs' \in [Reqs -> Requests]
    BY <2>1 DEF Shapes, Requests, Pcs
  <2>3. /\ reqs'[r].pc = pc /\ reqs'[r].id = s /\ reqs'[r].kind = kind
        /\ \A q \in Reqs \ {r} : reqs'[q] = reqs[q]
    BY <2>1 DEF Shapes
  <2>4. ReqInv'
    BY <2>1, <2>3 DEF ReqInv, Kinds
  <2>. QED
    BY <2>2, <2>4 DEF ReqsKept
<1>. QED
  BY <1>1 DEF Ask, Shapes, StoreInv, ReqsKept

LEMMA AdmitFoundKeeps ==
  ASSUME Typed, CountInv, NEW r \in Reqs, AdmitFound(r)
  PROVE  Typed'
<1>. USE DEF Typed
<1>1. ReqsKept
  BY GoesKeeps DEF AdmitFound, Pcs
<1>2. StoreKept
  BY PruneKeeps DEF AdmitFound
<1>3. expiry' \in Seq(Ids)
  BY Prunes DEF AdmitFound, Pruned
<1>. QED
  BY <1>1, <1>2, <1>3, RestKeeps DEF AdmitFound, Rest

LEMMA AdmitOpensKeeps ==
  ASSUME Typed, CountInv, NEW r \in Reqs, AdmitOpens(r)
  PROVE  Typed'
<1>. USE DEF Typed
<1>1. ReqsKept
  BY GoesKeeps DEF AdmitOpens, MayOpen, Pcs
<1>2. StoreKept
  BY InsertKeeps DEF AdmitOpens
<1>3. expiry' \in Seq(Ids)
  BY Prunes DEF AdmitOpens, Pruned
<1>. QED
  BY <1>1, <1>2, <1>3, RestKeeps DEF AdmitOpens, Rest

\* make_room marks the session it has chosen.
LEMMA SeenKeeps ==
  ASSUME Shapes, StoreInv, NEW v \in Droppable,
         store' = [t \in Ids |-> IF t \in Old THEN Gone ELSE [store[t] EXCEPT !.seen = t = v]]
  PROVE  StoreKept
<1>1. ASSUME NEW t \in Ids PROVE Sane(store'[t])
  <2>1. CASE t \in Old
    BY <2>1, SaneKinds
  <2>. DEFINE b == t = v
  <2>2. CASE t \notin Old
    <3>1. Sane(store[t]) /\ b \in BOOLEAN /\ 0 \in 0..2
      BY SaneStore
    <3>2. store'[t] = [store[t] EXCEPT !.seen = b]
      BY <2>2
    <3>3. b => store[t].on /\ store[t].age = Quiet /\ ~store[t].stream
      BY DEF Droppable, Open
    <3>. HIDE DEF b
    <3>4. store'[t] \in Sessions
      BY <3>1, <3>2, Fields DEF Sane
    <3>5. /\ store'[t].on = store[t].on /\ store'[t].seen = b /\ store'[t].age = store[t].age
          /\ store'[t].stream = store[t].stream
      BY <3>1, <3>2 DEF Sane, Sessions
    <3>6. ~store'[t].on => store'[t] = Gone
      <4>. SUFFICES ASSUME ~store'[t].on PROVE store'[t] = Gone
        OBVIOUS
      <4>1. store[t] = Gone /\ b = FALSE
        BY <3>1, <3>3, <3>5 DEF Sane
      <4>2. b = Gone.seen
        BY <4>1 DEF Gone
      <4>. QED
        BY <3>2, <4>1, <4>2, GoneType, SeenSame
    <3>. QED
      BY <3>1, <3>3, <3>4, <3>5, <3>6 DEF Sane, Quiet, Fresh
  <2>. QED
    BY <2>1, <2>2
<1>. QED
  BY <1>1 DEF StoreKept, StoreInv, Sane

LEMMA AdmitLooksKeeps ==
  ASSUME Typed, CountInv, NEW r \in Reqs, AdmitLooks(r)
  PROVE  Typed'
<1>. USE DEF Typed
<1>1. expiry' \in Seq(Ids)
  BY Prunes DEF AdmitLooks, Pruned
<1>2. CASE Droppable = {}
  <2>1. ReqsKept
    BY <1>2, GoesKeeps, EndsKeeps DEF AdmitLooks, MayOpen, Pcs
  <2>2. StoreKept
    BY <1>2, PruneKeeps DEF AdmitLooks
  <2>. QED
    BY <1>1, <1>2, <2>1, <2>2, RestKeeps DEF AdmitLooks, Rest
<1>3. CASE Droppable # {}
  <2>1. PICK v \in Droppable :
            /\ store' = [t \in Ids |-> IF t \in Old THEN Gone
                            ELSE [store[t] EXCEPT !.seen = t = v]]
            /\ reqs' = [reqs EXCEPT ![r].pc = "evict", ![r].victim = v]
            /\ admission' = reqs[r].id
    BY <1>3 DEF AdmitLooks
  <2>2. StoreKept
    BY <2>1, SeenKeeps
  <2>3. v \in Ids /\ reqs[r].pc = "admit"
    BY DEF Droppable, Open, AdmitLooks, MayOpen
  <2>4. ReqsKept
    <3>1. reqs' \in [Reqs -> Requests]
      BY <2>1, <2>3, VictimType DEF Pcs
    <3>2. /\ reqs'[r].pc = "evict" /\ reqs'[r].id = reqs[r].id
          /\ reqs'[r].kind = reqs[r].kind /\ reqs'[r].victim = v
          /\ \A q \in Reqs \ {r} : reqs'[q] = reqs[q]
      BY <2>1 DEF Shapes, Requests
    <3>. QED
      BY <3>1, <3>2, <2>3 DEF ReqsKept, ReqInv
  <2>. QED
    BY <1>1, <2>1, <2>2, <2>3, <2>4 DEF AdmitLooks, Shapes, StoreKept, ReqsKept, ReqInv
<1>. QED
  BY <1>2, <1>3

LEMMA AdmitEvictsKeeps ==
  ASSUME Typed, CountInv, NEW r \in Reqs, AdmitEvicts(r)
  PROVE  Typed'
<1>. USE DEF Typed
<1>. DEFINE v == reqs[r].victim
            left == IF Evicts(v) THEN Open \ {v} ELSE Open
<1>0. reqs[r].pc = "evict" /\ v \in Ids /\ reqs[r].id \in Ids /\ NoId \in Ids \cup {NoId}
  BY DEF AdmitEvicts, ReqInv
<1>1. expiry' \in Seq(Ids)
  BY <1>0 DEF AdmitEvicts, Evicted, Shapes
<1>2. StoreKept
  <2>1. CASE Insert(reqs[r].id, left)
    <3>. HIDE DEF left
    <3>. QED
      BY <2>1, InsertKeeps
  <2>2. CASE store' = [t \in Ids |-> IF t \in left THEN store[t] ELSE Gone]
    <3>. HIDE DEF left
    <3>1. store' = [t \in Ids |-> IF t \in Ids \ left THEN Gone ELSE store[t]]
      BY <2>2
    <3>. QED
      BY <3>1, PruneKeeps
  <2>. QED
    BY <2>1, <2>2 DEF AdmitEvicts
<1>3. ReqsKept
  <2>1. CASE Ends(r)
    BY <2>1, EndsKeeps
  <2>2. ASSUME NEW pc \in {"bind", "validate"},
               reqs' = [reqs EXCEPT ![r].pc = pc, ![r].victim = NoId]
        PROVE  ReqsKept
    <3>1. reqs' \in [Reqs -> Requests]
      BY <1>0, <2>2, VictimType DEF Pcs
    <3>2. /\ reqs'[r].pc = pc /\ reqs'[r].id = reqs[r].id /\ reqs'[r].kind = reqs[r].kind
          /\ \A q \in Reqs \ {r} : reqs'[q] = reqs[q]
      BY <2>2 DEF Shapes, Requests
    <3>. QED
      BY <3>1, <3>2, <1>0 DEF ReqsKept, ReqInv
  <2>. QED
    BY <2>1, <2>2 DEF AdmitEvicts
<1>. QED
  BY <1>1, <1>2, <1>3 DEF AdmitEvicts, Shapes, StoreKept, ReqsKept

LEMMA BindKeeps ==
  ASSUME Typed, NEW r \in Reqs, Bind(r)
  PROVE  Typed'
<1>. USE DEF Typed
<1>0. reqs[r].pc = "bind" /\ reqs[r].id \in Ids
  BY DEF Bind, ReqInv
<1>1. ReqsKept
  BY GoesKeeps, EndsKeeps DEF Bind, Pcs
<1>2. StoreKept
  <2>. DEFINE s == reqs[r].id
  <2>1. CASE UNCHANGED store
    BY <2>1 DEF StoreKept, Shapes, StoreInv
  <2>2. CASE store[s].on /\ store' = [store EXCEPT ![s].lease = reqs[r].lease]
    <3>1. Sane(store[s]) /\ TRUE \in BOOLEAN /\ 0 \in 0..2 /\ reqs[r].lease \in Nat
      BY <1>0, SaneStore DEF Shapes, Requests
    <3>. DEFINE st == [store[s] EXCEPT !.lease = reqs[r].lease]
    <3>2. st \in Sessions
      BY <3>1, Fields DEF Sane
    <3>3. /\ st.on = store[s].on /\ st.seen = store[s].seen /\ st.age = store[s].age
          /\ st.stream = store[s].stream
      BY <3>1 DEF Sane, Sessions
    <3>4. store' = [store EXCEPT ![s] = st]
      BY <2>2
    <3>. HIDE DEF st
    <3>5. Sane(st)
      BY <2>2, <3>1, <3>2, <3>3 DEF Sane
    <3>. QED
      BY <3>4, <3>5, <1>0, OneKeeps
  <2>. QED
    BY <2>1, <2>2 DEF Bind
<1>. QED
  BY <1>1, <1>2, RestKeeps DEF Bind, Rest, Shapes

LEMMA UnbindKeeps ==
  ASSUME Typed, NEW r \in Reqs, Unbind(r)
  PROVE  Typed'
<1>. USE DEF Typed
<1>0. reqs[r].pc = "unbind" /\ reqs[r].id \in Ids
  BY DEF Unbind, ReqInv
<1>1. ReqsKept
  BY GoesKeeps DEF Unbind, Pcs
<1>. DEFINE s == reqs[r].id
<1>2. CASE UNCHANGED <<store, closed, stray>>
  BY <1>1, <1>2 DEF Unbind, ReqsKept, Shapes, StoreInv
<1>3. CASE store' = [store EXCEPT ![s] = Gone] /\ RecordClosed(s) /\ stray' = stray \cup StrayOf(s)
  <2>1. StoreKept
    BY <1>0, <1>3, OneKeeps, SaneKinds
  <2>2. closed' \in Seq(Ids) /\ Len(closed') <= ClosedKept
    BY <1>0, <1>3, RecordKeeps DEF Shapes
  <2>3. stray' \subseteq Ids \X Items
    BY <1>0, <1>3 DEF Shapes, StrayOf
  <2>. QED
    BY <1>1, <2>1, <2>2, <2>3 DEF Unbind, ReqsKept, StoreKept, Shapes
<1>. QED
  BY <1>2, <1>3 DEF Unbind

\* The wired field is set where there is a session.
LEMMA WiredKeeps ==
  ASSUME Shapes, StoreInv, NEW s \in Ids, NEW b \in BOOLEAN, ~store[s].on => ~b,
         store' = [store EXCEPT ![s].wired = b]
  PROVE  StoreKept
<1>1. Sane(store[s]) /\ 0 \in 0..2
  BY SaneStore
<1>. DEFINE st == [store[s] EXCEPT !.wired = b]
<1>2. st \in Sessions
  BY <1>1, Fields DEF Sane
<1>3. /\ st.on = store[s].on /\ st.seen = store[s].seen /\ st.age = store[s].age
      /\ st.stream = store[s].stream
  BY <1>1 DEF Sane, Sessions
<1>4. store' = [store EXCEPT ![s] = st]
  OBVIOUS
<1>5. ~st.on => st = Gone
  <2>. SUFFICES ASSUME ~st.on PROVE st = Gone
    OBVIOUS
  <2>1. store[s] = Gone /\ b = Gone.wired
    BY <1>1, <1>3 DEF Sane, Gone
  <2>. QED
    BY <2>1, GoneType, WiredSame
<1>. HIDE DEF st
<1>6. Sane(st)
  BY <1>1, <1>2, <1>3, <1>5 DEF Sane
<1>. QED
  BY <1>4, <1>6, OneKeeps

LEMMA WireKeeps ==
  ASSUME Typed, NEW r \in Reqs, Wire(r)
  PROVE  Typed'
<1>. USE DEF Typed
<1>0. reqs[r].pc = "wire" /\ reqs[r].id \in Ids /\ "wiring" \in Items
  BY DEF Wire, ReqInv, Items
<1>1. ReqsKept
  BY GoesKeeps DEF Wire, Pcs
<1>2. StoreKept
  <2>1. store[reqs[r].id].on \in BOOLEAN
    BY <1>0 DEF Shapes, Sessions
  <2>. QED
    BY <1>0, <2>1, WiredKeeps DEF Wire
<1>3. held' \in [Ids -> SUBSET Items] /\ stray' \subseteq Ids \X Items
  BY <1>0, HoldsKeeps DEF Wire
<1>. QED
  BY <1>1, <1>2, <1>3 DEF Wire, Shapes, StoreKept, ReqsKept

\* A step that lets go of a session, or keeps it.
LEMMA DropsKeep ==
  ASSUME Typed, NEW s \in Ids, RemoveIfExpired(s) \/ End(s)
  PROVE  StoreKept /\ expiry' \in Seq(Ids)
<1>. USE DEF Typed
<1>1. CASE UNCHANGED <<store, expiry>>
  BY <1>1 DEF StoreKept, Shapes, StoreInv
<1>2. CASE TakenOut(s)
  BY <1>2, SaneKinds, OneKeeps, ReportKeeps DEF TakenOut
<1>. QED
  BY <1>1, <1>2 DEF RemoveIfExpired, End

LEMMA ValidateKeeps ==
  ASSUME Typed, NEW r \in Reqs, Validate(r) \/ DropExpired(r) \/ DropEnded(r)
  PROVE  Typed'
<1>. USE DEF Typed
<1>. DEFINE s == reqs[r].id
<1>0. reqs[r].pc \in {"validate", "expire", "end"} /\ s \in Ids /\ UNCHANGED Rest
  BY DEF Validate, DropExpired, DropEnded, ReqInv, Rest
<1>1. CASE DropExpired(r) \/ DropEnded(r)
  <2>1. ReqsKept
    BY <1>1, EndsKeeps DEF DropExpired, DropEnded
  <2>2. StoreKept /\ expiry' \in Seq(Ids)
    BY <1>0, <1>1, DropsKeep DEF DropExpired, DropEnded
  <2>. QED
    BY <1>0, <2>1, <2>2, RestKeeps
<1>2. CASE Validate(r)
  <2>1. ReqsKept
    <3>1. CASE reqs' = [reqs EXCEPT ![r].pc = "end", ![r].lease = store[s].lease]
      <4>0. PICK n \in Nat : n = store[s].lease
        BY <1>0 DEF Shapes, Sessions
      <4>1. reqs' \in [Reqs -> Requests]
        BY <3>1, <4>0, LeaseType DEF Pcs
      <4>2. /\ reqs'[r].pc = "end" /\ reqs'[r].id = reqs[r].id
            /\ \A q \in Reqs \ {r} : reqs'[q] = reqs[q]
        BY <3>1 DEF Shapes, Requests
      <4>3. ReqInv'
        BY <1>0, <4>2 DEF ReqInv
      <4>. QED
        BY <4>1, <4>3 DEF ReqsKept
    <3>2. CASE Ends(r) \/ Goes(r, "effect") \/ Goes(r, "expire")
      BY <1>0, <1>2, <3>2, GoesKeeps, EndsKeeps DEF Validate, Pcs
    <3>. QED
      BY <1>2, <3>1, <3>2 DEF Validate
  <2>2. expiry' \in Seq(Ids)
    BY <1>2 DEF Validate, Shapes
  <2>3. StoreKept
    <3>1. CASE UNCHANGED store
      BY <3>1 DEF StoreKept, Shapes, StoreInv
    <3>2. CASE store[s].on /\ store' = [store EXCEPT ![s] = Used(@)]
      <4>1. store[s] \in Sessions
        BY <1>0 DEF Shapes
      <4>2. Sane(Used(store[s])) /\ store' = [store EXCEPT ![s] = Used(store[s])]
        BY <3>2, <4>1, SaneKinds
      <4>. QED
        BY <1>0, <4>2, OneKeeps
    <3>. QED
      BY <1>2, <3>1, <3>2 DEF Validate
  <2>. QED
    BY <1>0, <2>1, <2>2, <2>3, RestKeeps
<1>. QED
  BY <1>1, <1>2

LEMMA StreamType ==
  ASSUME NEW st \in Sessions, st.on
  PROVE  Sane([Used(st) EXCEPT !.stream = TRUE])
<1>. DEFINE u == Used(st)
<1>1. u \in Sessions /\ u.on /\ ~u.seen /\ TRUE \in BOOLEAN /\ 0 \in 0..2
  BY UsedType
<1>. HIDE DEF u
<1>2. [u EXCEPT !.stream = TRUE] \in Sessions
  BY <1>1, Fields
<1>3. [u EXCEPT !.stream = TRUE].on = u.on /\ [u EXCEPT !.stream = TRUE].seen = u.seen
  BY <1>1 DEF Sessions
<1>. QED
  BY <1>1, <1>2, <1>3 DEF Sane, u

LEMMA EffectKeeps ==
  ASSUME Typed, NEW r \in Reqs, Effect(r)
  PROVE  Typed'
<1>. USE DEF Typed
<1>. DEFINE s == reqs[r].id
            item == IF reqs[r].kind = "initialize" THEN "wiring" ELSE reqs[r].kind
<1>0. /\ reqs[r].pc = "effect" /\ s \in Ids /\ store[s] \in Sessions
      /\ reqs[r].kind # "stream" => item \in Items
  BY DEF Effect, ReqInv, Items, Shapes
<1>1. ReqsKept
  BY <1>0, EndsKeeps DEF Effect
<1>2. issued' \subseteq Ids
  BY <1>0 DEF Effect, Shapes
<1>3. CASE reqs[r].kind = "stream"
  <2>1. UNCHANGED <<held, stray>>
    BY <1>3 DEF Effect
  <2>2. StoreKept
    <3>1. CASE ~store[s].on
      <4>1. UNCHANGED store
        BY <1>3, <3>1 DEF Effect
      <4>. QED
        BY <4>1 DEF StoreKept, Shapes, StoreInv
    <3>2. CASE store[s].on
      <4>1. store' = [store EXCEPT ![s] = [Used(store[s]) EXCEPT !.stream = TRUE]]
        BY <1>3, <3>2 DEF Effect
      <4>. QED
        BY <4>1, <1>0, <3>2, StreamType, OneKeeps
    <3>. QED
      BY <3>1, <3>2
  <2>. QED
    BY <1>1, <1>2, <2>1, <2>2 DEF Effect, Shapes, StoreKept, ReqsKept
<1>4. CASE reqs[r].kind # "stream"
  <2>1. held' \in [Ids -> SUBSET Items] /\ stray' \subseteq Ids \X Items
    <3>1. item \in Items /\ Holds(s, item)
      BY <1>0, <1>4 DEF Effect
    <3>. HIDE DEF item
    <3>. QED
      BY <1>0, <3>1, HoldsKeeps
  <2>2. StoreKept
    <3>. DEFINE b == store[s].wired \/ (item = "wiring" /\ store[s].on)
    <3>1. store' = [store EXCEPT ![s].wired = b]
      BY <1>4 DEF Effect
    <3>2. ~store[s].on => ~b
      BY <1>0 DEF StoreInv, Gone
    <3>3. b \in BOOLEAN
      OBVIOUS
    <3>. HIDE DEF b
    <3>. QED
      BY <1>0, <3>1, <3>2, <3>3, WiredKeeps
  <2>. QED
    BY <1>1, <1>2, <2>1, <2>2 DEF Effect, Shapes, StoreKept, ReqsKept
<1>. QED
  BY <1>3, <1>4

LEMMA DeleteKeeps ==
  ASSUME Typed, NEW r \in Reqs, Remove(r) \/ Record(r) \/ DeleteStep(r) \/ DeleteDropped(r)
  PROVE  Typed'
<1>. USE DEF Typed
<1>. DEFINE s == reqs[r].id
<1>0. reqs[r].pc \in {"remove", "record", "part1", "part2", "part3"} /\ s \in Ids
  BY DEF Remove, Record, DeleteStep, DeleteDropped, PartOf, ReqInv
<1>1. CASE Remove(r)
  <2>1. ReqsKept
    BY <1>0, <1>1, GoesKeeps, EndsKeeps DEF Remove, Pcs
  <2>2. StoreKept
    BY <1>0, <1>1, SaneKinds, OneKeeps DEF Remove
  <2>. QED
    BY <1>1, <2>1, <2>2, RestKeeps DEF Remove, Rest, Shapes
<1>2. CASE Record(r)
  <2>1. ReqsKept
    BY <1>0, <1>2, GoesKeeps DEF Record, Pcs
  <2>2. closed' \in Seq(Ids) /\ Len(closed') <= ClosedKept
    BY <1>0, <1>2, RecordKeeps DEF Shapes, Record
  <2>. QED
    BY <1>2, <2>1, <2>2 DEF Record, Shapes, StoreInv, ReqsKept
<1>3. CASE DeleteStep(r)
  <2>1. ReqsKept
    BY <1>0, <1>3, GoesKeeps, EndsKeeps DEF DeleteStep, PartOf, PartPc, Pcs
  <2>2. held' \in [Ids -> SUBSET Items] /\ stray' \subseteq Ids \X Items
    BY <1>0, <1>3, ReleaseKeeps DEF DeleteStep
  <2>. QED
    BY <1>3, <2>1, <2>2 DEF DeleteStep, Shapes, StoreInv, ReqsKept
<1>4. CASE DeleteDropped(r)
  <2>1. ReqsKept
    BY <1>0, <1>4, EndsKeeps DEF DeleteDropped
  <2>2. stray' \subseteq Ids \X Items
    BY <1>0, <1>4 DEF DeleteDropped, StrayOf, Shapes
  <2>. QED
    BY <1>4, <2>1, <2>2 DEF DeleteDropped, Shapes, StoreInv, ReqsKept
<1>. QED
  BY <1>1, <1>2, <1>3, <1>4

LEMMA ListenerKeeps ==
  ASSUME Typed, ListenerTake \/ ListenerStep
  PROVE  Typed'
<1>. USE DEF Typed
<1>1. CASE ListenerTake
  <2>1. Head(expiry) \in Ids /\ Tail(expiry) \in Seq(Ids)
    BY <1>1, HeadTailProperties DEF ListenerTake, Shapes
  <2>2. listener' \in [id : Ids \cup {NoId}, part : 1..3]
    BY <1>1, <2>1 DEF ListenerTake
  <2>. QED
    BY <1>1, <2>1, <2>2 DEF ListenerTake, Shapes, StoreInv, ReqInv
<1>2. CASE ListenerStep
  <2>1. listener.id \in Ids /\ listener.part \in 1..3
    BY <1>2 DEF ListenerStep, Shapes
  <2>2. held' \in [Ids -> SUBSET Items] /\ stray' \subseteq Ids \X Items
    BY <1>2, <2>1, ReleaseKeeps DEF ListenerStep
  <2>3. listener' \in [id : Ids \cup {NoId}, part : 1..3]
    <3>1. listener \in [id : Ids \cup {NoId}, part : 1..3]
      BY DEF Shapes
    <3>2. CASE listener.part = 3
      BY <1>2, <3>2 DEF ListenerStep, Resting
    <3>3. CASE listener.part # 3
      <4>1. listener' = [listener EXCEPT !.part = listener.part + 1] /\ listener.part + 1 \in 1..3
        BY <1>2, <2>1, <3>3 DEF ListenerStep
      <4>. QED
        BY <3>1, <4>1
    <3>. QED
      BY <3>2, <3>3
  <2>4. UNCHANGED <<store, issued, signedIn, signIn, ending, closed, expiry, doomed,
                    admission, reqs>>
    BY <1>2 DEF ListenerStep
  <2>. QED
    BY <2>2, <2>3, <2>4 DEF Shapes, StoreInv, ReqInv
<1>. QED
  BY <1>1, <1>2

LEMMA TimeKeeps ==
  ASSUME Typed, NEW s \in Ids, Age(s) \/ Heartbeat(s) \/ StreamCloses(s)
  PROVE  Typed'
<1>. USE DEF Typed
<1>0. Sane(store[s]) /\ FALSE \in BOOLEAN /\ store[s].on
  <2>1. Sane(store[s])
    BY SaneStore
  <2>2. store[s].on \/ store[s].stream
    BY DEF Age, Heartbeat, StreamCloses
  <2>3. ~Gone.stream
    BY DEF Gone
  <2>. QED
    BY <2>1, <2>2, <2>3 DEF Sane
<1>1. ReqsKept /\ expiry' \in Seq(Ids) /\ UNCHANGED Rest
  BY DEF Age, Heartbeat, StreamCloses, ReqsKept, ReqInv, Rest, Shapes
<1>2. CASE Age(s)
  <2>. DEFINE a == store[s].age + 1
              st == [store[s] EXCEPT !.age = a]
  <2>1. a \in 0..2 /\ a # Fresh /\ TRUE \in BOOLEAN
    BY <1>0, <1>2 DEF Sane, Sessions, Age, Expired, Fresh
  <2>2. store' = [store EXCEPT ![s] = st]
    BY <1>2 DEF Age
  <2>. HIDE DEF a
  <2>3. st \in Sessions
    BY <1>0, <2>1, Fields DEF Sane
  <2>4. /\ st.on = store[s].on /\ st.seen = store[s].seen /\ st.age = a
        /\ st.stream = store[s].stream
    BY <1>0 DEF Sane, Sessions
  <2>. HIDE DEF st
  <2>5. Sane(st)
    BY <1>0, <2>1, <2>3, <2>4 DEF Sane
  <2>. QED
    BY <1>1, <2>2, <2>5, OneKeeps, RestKeeps
<1>3. CASE Heartbeat(s)
  <2>1. Sane(Used(store[s])) /\ store' = [store EXCEPT ![s] = Used(store[s])]
    BY <1>0, <1>3, SaneKinds DEF Heartbeat, Sane
  <2>. QED
    BY <1>1, <2>1, OneKeeps, RestKeeps
<1>4. CASE StreamCloses(s)
  <2>. DEFINE st == [store[s] EXCEPT !.stream = FALSE]
  <2>1. store' = [store EXCEPT ![s] = st] /\ 0 \in 0..2
    BY <1>4 DEF StreamCloses
  <2>2. st \in Sessions
    BY <1>0, <2>1, Fields DEF Sane
  <2>3. /\ st.on = store[s].on /\ st.seen = store[s].seen /\ st.age = store[s].age
        /\ st.stream = FALSE
    BY <1>0 DEF Sane, Sessions
  <2>. HIDE DEF st
  <2>4. Sane(st)
    BY <1>0, <2>2, <2>3 DEF Sane
  <2>. QED
    BY <1>1, <2>1, <2>4, OneKeeps, RestKeeps
<1>. QED
  BY <1>2, <1>3, <1>4

LEMMA CleanupKeeps ==
  ASSUME Typed, NEW s \in Ids, CleanupRemoves(s)
  PROVE  Typed'
<1>. USE DEF Typed
<1>1. StoreKept /\ expiry' \in Seq(Ids)
  BY DropsKeep DEF CleanupRemoves
<1>. QED
  BY <1>1 DEF CleanupRemoves, Shapes, StoreKept, ReqInv

LEMMA EndSessionKeeps ==
  ASSUME Typed, NEW e \in ending, EndSession(e)
  PROVE  Typed'
<1>. USE DEF Typed
<1>1. StoreKept /\ expiry' \in Seq(Ids)
  <2>1. e[1] \in Ids
    BY DEF Shapes
  <2>. QED
    BY <2>1, DropsKeep DEF EndSession
<1>. QED
  BY <1>1 DEF EndSession, Shapes, StoreKept, ReqInv

LEMMA SignInKeeps ==
  ASSUME Typed, NEW s \in Ids,
         SignInEnds(s) \/ SignInAgain(s) \/ SendFindsEnded(s) \/ RevokeCollects(s)
  PROVE  Typed'
<1>. USE DEF Typed
<1>1. signedIn' \subseteq Ids /\ signIn' \in [Ids -> Nat \ {0}]
  <2>1. CASE SignInAgain(s)
    <3>1. signIn[s] + 1 \in Nat \ {0}
      BY DEF Shapes
    <3>. QED
      BY <2>1, <3>1 DEF SignInAgain, Shapes
  <2>. QED
    BY <2>1 DEF SignInEnds, SendFindsEnded, RevokeCollects, Shapes
<1>2. ending' \subseteq Ids \X Nat
  <2>1. store[s].lease \in Nat /\ Unbound \in Nat
    BY DEF Shapes, Sessions, Unbound
  <2>. QED
    BY <2>1 DEF SignInEnds, SignInAgain, SendFindsEnded, RevokeCollects, Shapes
<1>3. UNCHANGED <<store, issued, closed, held, expiry, listener, doomed, admission, reqs, stray>>
  BY DEF SignInEnds, SignInAgain, SendFindsEnded, RevokeCollects
<1>. QED
  BY <1>1, <1>2, <1>3 DEF Shapes, StoreInv, ReqInv

LEMMA TypedStep == Typed /\ CountInv /\ [Next]_vars => Typed'
<1>. SUFFICES ASSUME Typed, CountInv, [Next]_vars PROVE Typed'
  OBVIOUS
<1>1. CASE UNCHANGED vars
  BY <1>1 DEF vars, Typed, Shapes, StoreInv, ReqInv
<1>2. ASSUME NEW r \in Reqs, RequestStep(r) PROVE Typed'
  BY <1>2, AdmitFoundKeeps, AdmitOpensKeeps, AdmitLooksKeeps, AdmitEvictsKeeps, BindKeeps,
     UnbindKeeps, WireKeeps, ValidateKeeps, EffectKeeps, DeleteKeeps
     DEF RequestStep
<1>3. CASE CleanupCollects
  <2>1. Old \subseteq Ids
    BY DEF Old, Open
  <2>. QED
    BY <1>3, <2>1 DEF CleanupCollects, Typed, Shapes, StoreInv, ReqInv
<1>. QED
  BY <1>1, <1>2, <1>3, AskKeeps, DeleteKeeps, ListenerKeeps, TimeKeeps, CleanupKeeps,
     EndSessionKeeps, SignInKeeps DEF Next

-----------------------------------------------------------------------------
(* Counting. *)

LEMMA OneMore ==
  ASSUME NEW S, IsFiniteSet(S), NEW x
  PROVE  /\ IsFiniteSet(S \cup {x}) /\ Cardinality(S \cup {x}) \in Nat
         /\ Cardinality(S) \in Nat /\ Cardinality(S \cup {x}) <= Cardinality(S) + 1
<1>1. /\ IsFiniteSet(S \cup {x}) /\ Cardinality(S) \in Nat
      /\ Cardinality(S \cup {x}) = IF x \in S THEN Cardinality(S) ELSE Cardinality(S) + 1
  BY FS_AddElement, FS_CardinalityType
<1>2. CASE x \in S
  BY <1>1, <1>2
<1>3. CASE x \notin S
  BY <1>1, <1>3
<1>. QED
  BY <1>2, <1>3

\* Some sessions leave, and as many ids at most enter the channel.
LEMMA FewerCount ==
  ASSUME CountInv, expiry \in Seq(Ids), expiry' \in Seq(Ids), NEW G \in SUBSET Open,
         Open' \subseteq Open \ G, Len(expiry') <= Len(expiry) + Cardinality(G),
         Admitting' \subseteq Admitting, asks' = asks
  PROVE  CountInv'
<1>1. /\ IsFiniteSet(Open \ G) /\ Cardinality(Open \ G) = Cardinality(Open) - Cardinality(G)
      /\ Cardinality(Open) \in Nat /\ Cardinality(G) \in Nat /\ Cardinality(Admitting) \in Nat
  <2>1. Open \cap G = G
    OBVIOUS
  <2>. QED
    BY <2>1, FS_Difference, FS_CardinalityType, FS_Subset DEF CountInv
<1>2. /\ IsFiniteSet(Open') /\ Cardinality(Open') <= Cardinality(Open \ G)
      /\ Cardinality(Open') \in Nat
  BY <1>1, FS_Subset, FS_CardinalityType
<1>3. /\ IsFiniteSet(Admitting') /\ Cardinality(Admitting') <= Cardinality(Admitting)
      /\ Cardinality(Admitting') \in Nat
  BY FS_Subset, FS_CardinalityType DEF CountInv
<1>4. Len(expiry) \in Nat /\ Len(expiry') \in Nat
  OBVIOUS
<1>. QED
  BY <1>1, <1>2, <1>3, <1>4, SessionAssumption DEF CountInv

\* A request opens a session where there is room.
LEMMA OpeningCount ==
  ASSUME CountInv, expiry \in Seq(Ids), expiry' \in Seq(Ids), NEW G \in SUBSET Open, NEW s,
         Open' \subseteq (Open \ G) \cup {s}, HasRoom(Open \ G),
         Len(expiry') <= Len(expiry) + Cardinality(G),
         NEW r \in Admitting, Admitting' \subseteq Admitting \ {r}, asks' = asks
  PROVE  CountInv'
<1>1. /\ IsFiniteSet(Open \ G) /\ Cardinality(Open \ G) = Cardinality(Open) - Cardinality(G)
      /\ Cardinality(Open) \in Nat /\ Cardinality(G) \in Nat /\ Cardinality(Admitting) \in Nat
      /\ Cardinality(Open \ G) \in Nat
  <2>1. Open \cap G = G
    OBVIOUS
  <2>. QED
    BY <2>1, FS_Difference, FS_CardinalityType, FS_Subset DEF CountInv
<1>2. /\ IsFiniteSet((Open \ G) \cup {s})
      /\ Cardinality((Open \ G) \cup {s}) <= Cardinality(Open \ G) + 1
  BY <1>1, OneMore
<1>3. /\ IsFiniteSet(Open') /\ Cardinality(Open') <= Cardinality((Open \ G) \cup {s})
      /\ Cardinality(Open') \in Nat /\ Cardinality((Open \ G) \cup {s}) \in Nat
  BY <1>2, FS_Subset, FS_CardinalityType
<1>4. /\ IsFiniteSet(Admitting \ {r})
      /\ Cardinality(Admitting \ {r}) = Cardinality(Admitting) - 1
  BY FS_RemoveElement DEF CountInv
<1>5. /\ IsFiniteSet(Admitting') /\ Cardinality(Admitting') <= Cardinality(Admitting) - 1
      /\ Cardinality(Admitting') \in Nat
  BY <1>4, FS_Subset, FS_CardinalityType
<1>6. Len(expiry) \in Nat /\ Len(expiry') \in Nat
  OBVIOUS
<1>. QED
  <2>1. Cardinality(Open') <= MaxSessions
    BY <1>1, <1>2, <1>3, SessionAssumption DEF HasRoom
  <2>2. Len(expiry') + Cardinality(Open') + Cardinality(Admitting') <= asks
    <3>1. /\ Cardinality(Open') <= Cardinality(Open) - Cardinality(G) + 1
          /\ asks \in Nat
          /\ Len(expiry) + Cardinality(Open) + Cardinality(Admitting) <= asks
      BY <1>1, <1>2, <1>3, SessionAssumption DEF CountInv
    <3>. QED
      BY <1>1, <1>3, <1>5, <1>6, <3>1
  <2>. QED
    BY <1>3, <1>5, <2>1, <2>2 DEF CountInv

LEMMA AskCount ==
  ASSUME Typed, CountInv, NEW r \in Reqs, NEW s \in Ids, NEW kind \in Kinds, Ask(r, s, kind)
  PROVE  CountInv'
<1>1. Open' = Open /\ expiry' = expiry /\ asks < MaxAsks /\ asks' = asks + 1
  BY DEF Ask, Open
<1>2. Admitting' \subseteq Admitting \cup {r}
  BY DEF Ask, Admitting, Typed, Shapes
<1>3. /\ IsFiniteSet(Admitting \cup {r})
      /\ Cardinality(Admitting \cup {r}) <= Cardinality(Admitting) + 1
      /\ Cardinality(Admitting) \in Nat /\ Cardinality(Open) \in Nat
  BY OneMore, FS_CardinalityType DEF CountInv
<1>4. /\ IsFiniteSet(Admitting') /\ Cardinality(Admitting') <= Cardinality(Admitting \cup {r})
      /\ Cardinality(Admitting') \in Nat /\ Cardinality(Admitting \cup {r}) \in Nat
  BY <1>2, <1>3, FS_Subset, FS_CardinalityType
<1>5. Len(expiry) \in Nat
  BY DEF Typed, Shapes
<1>. QED
  BY <1>1, <1>3, <1>4, <1>5, SessionAssumption DEF CountInv

LEMMA GoesOn ==
  ASSUME Shapes, NEW r \in Reqs, NEW pc, pc \notin {"admit", "evict"}, Goes(r, pc)
  PROVE  Admitting' \subseteq Admitting \ {r}
<1>1. reqs'[r].pc = pc /\ \A q \in Reqs \ {r} : reqs'[q] = reqs[q]
  BY DEF Shapes, Goes, Requests
<1>. QED
  BY <1>1 DEF Admitting

LEMMA EndsOn ==
  ASSUME Shapes, NEW r \in Reqs, Ends(r)
  PROVE  Admitting' \subseteq Admitting \ {r}
<1>1. reqs'[r].pc = "idle" /\ \A q \in Reqs \ {r} : reqs'[q] = reqs[q]
  BY DEF Shapes, Ends, Free
<1>. QED
  BY <1>1 DEF Admitting

\* A prune takes the expired sessions out.
LEMMA PrunedOpen ==
  ASSUME Shapes, StoreInv, NEW S,
         store' = [t \in Ids |-> IF t \in S THEN Gone ELSE store[t]]
  PROVE  Open' = Open \ S
BY GoneType DEF Open

LEMMA InsertedOpen ==
  ASSUME NEW s, NEW S, Insert(s, S)
  PROVE  Open' \subseteq S \cup {s}
BY GoneType DEF Open, Insert

LEMMA AdmitCount ==
  ASSUME Typed, CountInv, Typed', NEW r \in Reqs,
         AdmitFound(r) \/ AdmitOpens(r) \/ AdmitLooks(r)
  PROVE  CountInv'
<1>. USE DEF Typed
<1>1. /\ Pruned /\ Old \in SUBSET Open /\ asks' = asks
      /\ expiry \in Seq(Ids) /\ expiry' \in Seq(Ids) /\ Len(expiry) \in Nat
      /\ Len(expiry') = Len(expiry) + Cardinality(Old) /\ Cardinality(Old) \in Nat
      /\ reqs[r].pc = "admit" /\ r \in Admitting
  <2>1. \E q \in Reports(Old) : expiry' = expiry \o q
    BY DEF AdmitFound, AdmitOpens, AdmitLooks
  <2>2. asks' = asks /\ reqs[r].pc = "admit"
    BY DEF AdmitFound, AdmitOpens, AdmitLooks, MayOpen
  <2>3. Pruned
    BY <2>1, Prunes
  <2>. QED
    BY <2>2, <2>3, OldFinite DEF Pruned, Shapes, Admitting
<1>2. CASE AdmitFound(r)
  <2>1. Open' = Open \ Old
    BY <1>2, PrunedOpen DEF AdmitFound
  <2>2. Admitting' \subseteq Admitting
    BY <1>2, GoesOn DEF AdmitFound
  <2>. QED
    BY <1>1, <2>1, <2>2, FewerCount
<1>3. CASE AdmitOpens(r)
  <2>1. Open' \subseteq (Open \ Old) \cup {reqs[r].id} /\ HasRoom(Open \ Old)
    BY <1>3, InsertedOpen DEF AdmitOpens
  <2>2. Admitting' \subseteq Admitting \ {r}
    BY <1>3, GoesOn DEF AdmitOpens
  <2>. QED
    <3>1. PICK s : Open' \subseteq (Open \ Old) \cup {s}
      BY <2>1
    <3>2. Len(expiry') <= Len(expiry) + Cardinality(Old)
      BY <1>1
    <3>. QED
      BY <1>1, <2>1, <2>2, <3>1, <3>2, OpeningCount
<1>4. CASE AdmitLooks(r)
  <2>1. Open' \subseteq Open \ Old
    <3>1. CASE store' = [t \in Ids |-> IF t \in Old THEN Gone ELSE store[t]]
      BY <3>1, PrunedOpen
    <3>2. ASSUME NEW v, store' = [t \in Ids |-> IF t \in Old THEN Gone
                                     ELSE [store[t] EXCEPT !.seen = t = v]]
          PROVE  Open' \subseteq Open \ Old
      <4>. DEFINE b(t) == t = v
      <4>1. ASSUME NEW t \in Ids PROVE store'[t].on => store[t].on /\ t \notin Old
        <5>1. CASE t \in Old
          BY <3>2, <5>1, GoneType
        <5>2. CASE t \notin Old
          <6>1. store'[t] = [store[t] EXCEPT !.seen = b(t)] /\ store[t] \in Sessions
            BY <3>2, <5>2 DEF Shapes
          <6>. HIDE DEF b
          <6>. QED
            BY <5>2, <6>1 DEF Sessions
        <5>. QED
          BY <5>1, <5>2
      <4>. QED
        BY <4>1 DEF Open
    <3>. QED
      BY <1>4, <3>1, <3>2 DEF AdmitLooks
  <2>2. Admitting' \subseteq Admitting
    <3>1. CASE Ends(r) \/ Goes(r, "validate")
      BY <3>1, GoesOn, EndsOn
    <3>2. ASSUME NEW v, reqs' = [reqs EXCEPT ![r].pc = "evict", ![r].victim = v]
          PROVE  Admitting' \subseteq Admitting
      <4>1. \A q \in Reqs \ {r} : reqs'[q] = reqs[q]
        BY <3>2 DEF Shapes
      <4>. QED
        BY <4>1, <1>1 DEF Admitting
    <3>. QED
      BY <1>4, <3>1, <3>2 DEF AdmitLooks
  <2>. QED
    BY <1>1, <2>1, <2>2, FewerCount
<1>. QED
  BY <1>2, <1>3, <1>4

LEMMA EvictsCount ==
  ASSUME Typed, CountInv, Typed', NEW r \in Reqs, AdmitEvicts(r)
  PROVE  CountInv'
<1>. USE DEF Typed
<1>. DEFINE v == reqs[r].victim
            G == IF Evicts(v) THEN {v} ELSE {}
            left == IF Evicts(v) THEN Open \ {v} ELSE Open
<1>1. /\ reqs[r].pc = "evict" /\ r \in Admitting /\ v \in Ids /\ asks' = asks
      /\ expiry \in Seq(Ids) /\ expiry' \in Seq(Ids) /\ Len(expiry) \in Nat
  BY DEF AdmitEvicts, ReqInv, Admitting, Shapes
<1>2. G \in SUBSET Open /\ left = Open \ G
  BY <1>1 DEF Evicts, Open
<1>3. Len(expiry') <= Len(expiry) + Cardinality(G)
  <2>1. CASE Evicts(v)
    <3>1. expiry' = Append(expiry, v) /\ Cardinality(G) = 1
      BY <2>1, FS_Singleton DEF AdmitEvicts, Evicted
    <3>. QED
      BY <1>1, <3>1
  <2>2. CASE ~Evicts(v)
    <3>1. expiry' = expiry /\ Cardinality(G) = 0
      BY <2>2, FS_EmptySet DEF AdmitEvicts
    <3>. QED
      BY <1>1, <3>1
  <2>. QED
    BY <2>1, <2>2
<1>4. CASE /\ HasRoom(left) /\ Insert(reqs[r].id, left)
           /\ reqs' = [reqs EXCEPT ![r].pc = "bind", ![r].victim = NoId]
  <2>1. Open' \subseteq (Open \ G) \cup {reqs[r].id} /\ HasRoom(Open \ G)
    BY <1>2, <1>4, InsertedOpen
  <2>2. Admitting' \subseteq Admitting \ {r}
    <3>1. reqs'[r].pc = "bind" /\ \A q \in Reqs \ {r} : reqs'[q] = reqs[q]
      BY <1>4 DEF Shapes, Requests
    <3>. QED
      BY <3>1 DEF Admitting
  <2>. HIDE DEF G, v, left
  <2>. QED
    BY <1>1, <1>2, <1>3, <2>1, <2>2, OpeningCount
<1>5. CASE /\ store' = [t \in Ids |-> IF t \in left THEN store[t] ELSE Gone]
           /\ IF reqs[r].kind = "initialize" THEN Ends(r)
              ELSE reqs' = [reqs EXCEPT ![r].pc = "validate", ![r].victim = NoId]
  <2>1. Open' \subseteq Open \ G
    BY <1>2, <1>5, GoneType DEF Open
  <2>2. Admitting' \subseteq Admitting
    <3>1. CASE Ends(r)
      BY <3>1, EndsOn
    <3>2. CASE reqs' = [reqs EXCEPT ![r].pc = "validate", ![r].victim = NoId]
      <4>1. reqs'[r].pc = "validate" /\ \A q \in Reqs \ {r} : reqs'[q] = reqs[q]
        BY <3>2 DEF Shapes, Requests
      <4>. QED
        BY <4>1 DEF Admitting
    <3>. QED
      BY <1>5, <3>1, <3>2
  <2>. HIDE DEF G, v, left
  <2>. QED
    BY <1>1, <1>2, <1>3, <2>1, <2>2, FewerCount
<1>. QED
  BY <1>4, <1>5 DEF AdmitEvicts

\* A step that sets another field leaves the sessions that are on.
LEMMA SameOn ==
  ASSUME Shapes, NEW s \in Ids, NEW b,
         \/ store' = [store EXCEPT ![s].lease = b] \/ store' = [store EXCEPT ![s].wired = b]
         \/ store' = [store EXCEPT ![s].age = b] \/ store' = [store EXCEPT ![s].stream = b]
  PROVE  \A t \in Ids : store'[t].on = store[t].on
<1>1. CASE store' = [store EXCEPT ![s].lease = b]
  BY <1>1 DEF Shapes, Sessions
<1>2. CASE store' = [store EXCEPT ![s].wired = b]
  BY <1>2 DEF Shapes, Sessions
<1>3. CASE store' = [store EXCEPT ![s].age = b]
  BY <1>3 DEF Shapes, Sessions
<1>4. CASE store' = [store EXCEPT ![s].stream = b]
  BY <1>4 DEF Shapes, Sessions
<1>. QED
  BY <1>1, <1>2, <1>3, <1>4

LEMMA UsedOn ==
  ASSUME Shapes, NEW s \in Ids,
         \/ store' = [store EXCEPT ![s] = Used(@)]
         \/ store' = [store EXCEPT ![s] = [Used(@) EXCEPT !.stream = TRUE]]
  PROVE  \A t \in Ids : store'[t].on = store[t].on
<1>1. store[s] \in Sessions /\ Used(store[s]) \in Sessions /\ Used(store[s]).on = store[s].on
  BY UsedType DEF Shapes
<1>2. [Used(store[s]) EXCEPT !.stream = TRUE].on = Used(store[s]).on
  BY <1>1 DEF Sessions
<1>3. CASE store' = [store EXCEPT ![s] = Used(@)]
  BY <1>1, <1>3 DEF Shapes
<1>4. CASE store' = [store EXCEPT ![s] = [Used(@) EXCEPT !.stream = TRUE]]
  BY <1>1, <1>2, <1>4 DEF Shapes
<1>. QED
  BY <1>3, <1>4

\* The steps that report nothing leave all sessions on, but for the session a request
\* takes back or deletes.
Withdrawn(r) == reqs[r].pc \in {"unbind", "remove"} /\ store' = [store EXCEPT ![reqs[r].id] = Gone]

LEMMA QuietOn ==
  ASSUME Typed, NEW r \in Reqs,
         \/ Bind(r) \/ Unbind(r) \/ Wire(r) \/ Effect(r) \/ Remove(r) \/ Record(r)
         \/ DeleteStep(r) \/ DeleteDropped(r)
  PROVE  /\ expiry' = expiry /\ asks' = asks
         /\ Withdrawn(r) \/ \A t \in Ids : store'[t].on = store[t].on
<1>. USE DEF Typed
<1>. DEFINE s == reqs[r].id
            item == IF reqs[r].kind = "initialize" THEN "wiring" ELSE reqs[r].kind
<1>0. s \in Ids /\ expiry' = expiry /\ asks' = asks
  <2>1. reqs[r].pc # "idle"
    BY DEF Bind, Unbind, Wire, Effect, Remove, Record, DeleteStep, DeleteDropped, PartOf
  <2>2. expiry' = expiry /\ asks' = asks
    BY DEF Bind, Unbind, Wire, Effect, Remove, Record, DeleteStep, DeleteDropped
  <2>. QED
    BY <2>1, <2>2 DEF ReqInv
<1>1. CASE store' = store
  BY <1>0, <1>1
<1>2. CASE Bind(r)
  BY <1>0, <1>1, <1>2, SameOn DEF Bind
<1>3. CASE Unbind(r) \/ Remove(r)
  BY <1>0, <1>1, <1>3 DEF Unbind, Remove, Withdrawn
<1>4. CASE Wire(r)
  BY <1>0, <1>4, SameOn DEF Wire
<1>5. CASE Effect(r)
  <2>1. CASE reqs[r].kind = "stream"
    BY <1>0, <1>1, <1>5, <2>1, UsedOn DEF Effect
  <2>2. CASE reqs[r].kind # "stream"
    <3>. DEFINE b == store[s].wired \/ (item = "wiring" /\ store[s].on)
    <3>1. store' = [store EXCEPT ![s].wired = b]
      BY <1>5, <2>2 DEF Effect
    <3>. HIDE DEF b
    <3>. QED
      BY <1>0, <3>1, SameOn
  <2>. QED
    BY <2>1, <2>2
<1>6. CASE Record(r) \/ DeleteStep(r) \/ DeleteDropped(r)
  BY <1>1, <1>6 DEF Record, DeleteStep, DeleteDropped
<1>. QED
  BY <1>2, <1>3, <1>4, <1>5, <1>6

\* The steps that change who is signed in, or find out.
SignInStep(s) == SignInEnds(s) \/ SignInAgain(s) \/ SendFindsEnded(s) \/ RevokeCollects(s)

LEMMA TimeOn ==
  ASSUME Typed, NEW s \in Ids, Age(s) \/ Heartbeat(s) \/ StreamCloses(s) \/ SignInStep(s)
  PROVE  \A t \in Ids : store'[t].on = store[t].on
<1>. USE DEF Typed
<1>1. CASE Age(s) \/ StreamCloses(s)
  BY <1>1, SameOn DEF Age, StreamCloses
<1>2. CASE Heartbeat(s)
  BY <1>2, UsedOn DEF Heartbeat
<1>3. CASE SignInStep(s)
  BY <1>3 DEF SignInStep, SignInEnds, SignInAgain, SendFindsEnded, RevokeCollects
<1>. QED
  BY <1>1, <1>2, <1>3

\* The sessions that are on, after a step that turns one off at most.
LEMMA OpenOf ==
  ASSUME Shapes
  PROVE  /\ (\A t \in Ids : store'[t].on = store[t].on) => Open' = Open
         /\ \A s \in Ids : store' = [store EXCEPT ![s] = Gone] => Open' = Open \ {s}
BY GoneType DEF Open, Shapes

LEMMA SameCount ==
  ASSUME CountInv, expiry \in Seq(Ids), expiry' = expiry, Open' \subseteq Open,
         Admitting' \subseteq Admitting, asks' = asks
  PROVE  CountInv'
<1>1. Cardinality({}) = 0 /\ Len(expiry) \in Nat /\ {} \in SUBSET Open /\ Open \ {} = Open
  BY FS_EmptySet
<1>2. Len(expiry') <= Len(expiry) + Cardinality({})
  BY <1>1
<1>. QED
  BY <1>1, <1>2, FewerCount

\* One session leaves and is reported.
LEMMA ReportCount ==
  ASSUME CountInv, expiry \in Seq(Ids), NEW s \in Ids, s \in Open, Open' = Open \ {s},
         expiry' = Append(expiry, s), Admitting' \subseteq Admitting, asks' = asks
  PROVE  CountInv'
<1>1. Cardinality({s}) = 1 /\ {s} \in SUBSET Open
  BY FS_Singleton
<1>2. expiry' \in Seq(Ids) /\ Len(expiry') <= Len(expiry) + Cardinality({s})
  BY <1>1
<1>. QED
  BY <1>1, <1>2, FewerCount

LEMMA DropsCount ==
  ASSUME Typed, CountInv, NEW s \in Ids, RemoveIfExpired(s) \/ End(s),
         Admitting' \subseteq Admitting, asks' = asks
  PROVE  CountInv'
<1>. USE DEF Typed
<1>0. expiry \in Seq(Ids)
  BY DEF Shapes
<1>1. CASE UNCHANGED <<store, expiry>>
  BY <1>0, <1>1, SameCount DEF Open
<1>2. CASE store[s].on /\ TakenOut(s)
  <2>1. s \in Open /\ Open' = Open \ {s}
    BY <1>2, OpenOf DEF Open, TakenOut
  <2>. QED
    BY <1>0, <1>2, <2>1, ReportCount DEF TakenOut
<1>. QED
  BY <1>1, <1>2 DEF RemoveIfExpired, End, StillExpired

LEMMA RequestCount ==
  ASSUME Typed, CountInv, Typed', NEW r \in Reqs, RequestStep(r) \/ DeleteDropped(r)
  PROVE  CountInv'
<1>. USE DEF Typed
<1>1. CASE AdmitFound(r) \/ AdmitOpens(r) \/ AdmitLooks(r) \/ AdmitEvicts(r)
  BY <1>1, AdmitCount, EvictsCount
<1>2. CASE Validate(r)
  <2>. DEFINE s == reqs[r].id
  <2>0. s \in Ids /\ expiry \in Seq(Ids) /\ asks' = asks /\ expiry' = expiry
    BY <1>2 DEF Validate, ReqInv, Shapes
  <2>1. Admitting' \subseteq Admitting
    <3>1. CASE reqs' = [reqs EXCEPT ![r].pc = "end", ![r].lease = store[s].lease]
      BY <3>1 DEF Admitting, Shapes, Requests
    <3>. QED
      BY <1>2, <3>1, GoesOn, EndsOn DEF Validate
  <2>2. \A t \in Ids : store'[t].on = store[t].on
    <3>1. CASE store' = [store EXCEPT ![s] = Used(@)]
      BY <2>0, <3>1, UsedOn
    <3>. QED
      BY <1>2, <3>1 DEF Validate
  <2>. QED
    BY <2>0, <2>1, <2>2, OpenOf, SameCount
<1>4. CASE DropExpired(r) \/ DropEnded(r)
  <2>1. reqs[r].id \in Ids /\ asks' = asks
    BY <1>4 DEF DropExpired, DropEnded, ReqInv
  <2>2. Admitting' \subseteq Admitting
    BY <1>4, EndsOn DEF DropExpired, DropEnded
  <2>. QED
    BY <1>4, <2>1, <2>2, DropsCount DEF DropExpired, DropEnded
<1>3. CASE \/ Bind(r) \/ Unbind(r) \/ Wire(r) \/ Effect(r) \/ Remove(r) \/ Record(r)
           \/ DeleteStep(r) \/ DeleteDropped(r)
  <2>1. /\ expiry' = expiry /\ asks' = asks
        /\ Withdrawn(r) \/ \A t \in Ids : store'[t].on = store[t].on
    BY <1>3, QuietOn
  <2>2. Open' \subseteq Open
    BY <2>1, OpenOf DEF Withdrawn, ReqInv
  <2>3. Admitting' \subseteq Admitting
    <3>1. Ends(r) \/ \E pc \in Pcs \ {"admit", "evict"} : Goes(r, pc)
      BY <1>3 DEF Bind, Unbind, Wire, Effect, Remove, Record, DeleteStep, DeleteDropped,
           PartPc, PartOf, Pcs
    <3>. QED
      BY <3>1, GoesOn, EndsOn
  <2>. QED
    BY <2>1, <2>2, <2>3, SameCount DEF Shapes
<1>. QED
  BY <1>1, <1>2, <1>3, <1>4 DEF RequestStep

LEMMA CountStep == Typed /\ CountInv /\ Typed' /\ [Next]_vars => CountInv'
<1>. SUFFICES ASSUME Typed, CountInv, Typed', [Next]_vars PROVE CountInv'
  OBVIOUS
<1>. USE DEF Typed
<1>0. expiry \in Seq(Ids)
  BY DEF Shapes
<1>1. ASSUME UNCHANGED <<store, expiry, reqs, asks>> PROVE CountInv'
  BY <1>0, <1>1, SameCount DEF Open, Admitting
<1>2. CASE ListenerTake
  <2>1. expiry' \in Seq(Ids) /\ Len(expiry') = Len(expiry) - 1 /\ Len(expiry) \in Nat
    BY <1>0, <1>2, HeadTailProperties DEF ListenerTake
  <2>2. Open' = Open /\ Admitting' = Admitting /\ asks' = asks
    BY <1>2 DEF ListenerTake, Open, Admitting
  <2>3. Cardinality({}) = 0 /\ {} \in SUBSET Open /\ Open \ {} = Open
    BY FS_EmptySet
  <2>4. Len(expiry') <= Len(expiry) + Cardinality({})
    BY <2>1, <2>3
  <2>. QED
    BY <1>0, <2>1, <2>2, <2>3, <2>4, FewerCount
<1>3. CASE ListenerStep \/ CleanupCollects \/ UNCHANGED vars
  BY <1>3, <1>1 DEF ListenerStep, CleanupCollects, vars
<1>4. ASSUME NEW s \in Ids, Age(s) \/ Heartbeat(s) \/ StreamCloses(s) \/ SignInStep(s)
      PROVE  CountInv'
  <2>1. UNCHANGED <<expiry, reqs, asks>>
    BY <1>4 DEF Age, Heartbeat, StreamCloses, SignInStep, SignInEnds, SignInAgain,
         SendFindsEnded, RevokeCollects
  <2>2. Open' = Open /\ Admitting' = Admitting
    BY <1>4, <2>1, TimeOn, OpenOf DEF Admitting
  <2>. QED
    BY <1>0, <2>1, <2>2, SameCount
<1>5. ASSUME NEW s \in Ids, CleanupRemoves(s) PROVE CountInv'
  BY <1>5, DropsCount DEF CleanupRemoves, Admitting
<1>6. ASSUME NEW e \in ending, EndSession(e) PROVE CountInv'
  <2>1. e[1] \in Ids
    BY DEF Shapes
  <2>. QED
    BY <1>6, <2>1, DropsCount DEF EndSession, Admitting
<1>. QED
  BY <1>2, <1>3, <1>4, <1>5, <1>6, AskCount, RequestCount DEF Next, SignInStep

-----------------------------------------------------------------------------
(* What is held. *)

InChannel(s) == \E i \in 1..Len(expiry) : expiry[i] = s

\* r runs the teardown of s and has part k of it to come.
Deleting(r, s, k) == reqs[r].id = s /\ (reqs[r].pc = "record" \/ PartOf(reqs[r].pc) \in 1..k)

LEMMA ComingIs ==
  \A s, k : Coming(s, k) <=> \/ InChannel(s)
                             \/ listener.id = s /\ listener.part <= k
                             \/ \E r \in Reqs : Deleting(r, s, k)
BY DEF Coming, InChannel, Deleting

LEMMA PartType == \A item \in Items : Part(item) \in 1..3
BY DEF Part, Items

\* The channel only grows, and a report adds to it.
ChannelKept == \A s \in Ids : InChannel(s) => InChannel(s)'

LEMMA PrunedChannel ==
  ASSUME Shapes, Pruned, Cardinality(Old) \in Nat
  PROVE  ChannelKept /\ \A s \in Old : InChannel(s)'
<1>1. Len(expiry) \in Nat /\ Len(expiry') = Len(expiry) + Cardinality(Old)
  BY DEF Shapes, Pruned
<1>2. ASSUME NEW i \in 1..Len(expiry) PROVE i \in 1..Len(expiry') /\ expiry'[i] = expiry[i]
  BY <1>1 DEF Pruned
<1>3. ChannelKept
  BY <1>2 DEF ChannelKept, InChannel
<1>. QED
  BY <1>3 DEF Pruned, InChannel

LEMMA ReportChannel ==
  ASSUME Shapes, NEW v \in Ids, expiry' = Append(expiry, v)
  PROVE  ChannelKept /\ InChannel(v)'
<1>1. /\ Len(expiry) \in Nat /\ Len(expiry') = Len(expiry) + 1
      /\ \A i \in 1..Len(expiry) : expiry'[i] = expiry[i]
      /\ expiry'[Len(expiry) + 1] = v
  BY AppendProperties DEF Shapes
<1>. QED
  BY <1>1 DEF ChannelKept, InChannel

\* Requests that run a teardown stay as they are.
DeletesKept == \A r \in Reqs : reqs[r].pc = "record" \/ PartOf(reqs[r].pc) # 0 =>
                   reqs'[r] = reqs[r]

LEMMA OthersMove ==
  ASSUME NEW r \in Reqs, \A q \in Reqs \ {r} : reqs'[q] = reqs[q],
         reqs[r].pc \notin {"record", "part1", "part2", "part3"}
  PROVE  DeletesKept
BY DEF DeletesKept, PartOf

LEMMA ComingKept ==
  ASSUME ChannelKept, listener' = listener, DeletesKept, NEW s \in Ids, NEW k \in 1..3,
         Coming(s, k)
  PROVE  Coming(s, k)'
<1>1. InChannel(s) => InChannel(s)'
  BY DEF ChannelKept
<1>2. \A r \in Reqs : Deleting(r, s, k) => Deleting(r, s, k)'
  BY DEF Deleting, DeletesKept
<1>3. Coming(s, k)' <=> \/ InChannel(s)'
                        \/ listener'.id = s /\ listener'.part <= k
                        \/ \E r \in Reqs : Deleting(r, s, k)'
  BY DEF Coming, InChannel, Deleting
<1>. QED
  BY <1>1, <1>2, <1>3, ComingIs

\* A session that leaves the store is reported, is being deleted, or what it has is
\* stray; what is put where there is no session is stray.
LEMMA HeldSteady ==
  ASSUME Typed, HeldInv, ChannelKept, listener' = listener, DeletesKept,
         \A s \in Ids : ~store'[s].on =>
             \/ ~store[s].on
             \/ InChannel(s)'
             \/ \E r \in Reqs : reqs'[r].id = s /\ reqs'[r].pc = "record"
             \/ StrayOf(s) \subseteq stray',
         \A s \in Ids : ~store'[s].on =>
             \A item \in held'[s] : item \in held[s] \/ <<s, item>> \in stray',
         stray \subseteq stray'
  PROVE  HeldInv'
<1>. SUFFICES ASSUME NEW s \in Ids, ~store'[s].on, NEW item \in held'[s],
                     <<s, item>> \notin stray'
              PROVE  Coming(s, Part(item))'
  BY DEF HeldInv
<1>1. item \in held[s] /\ item \in Items /\ Part(item) \in 1..3
  BY PartType DEF Typed, Shapes
<1>. DEFINE k == Part(item)
<1>2. Coming(s, k)' <=> \/ InChannel(s)'
                        \/ listener'.id = s /\ listener'.part <= k
                        \/ \E r \in Reqs : Deleting(r, s, k)'
  BY DEF Coming, InChannel, Deleting
<1>3. CASE ~store[s].on
  <2>1. Coming(s, k)
    BY <1>1, <1>3 DEF HeldInv
  <2>. QED
    BY <1>1, <2>1, ComingKept
<1>4. CASE InChannel(s)'
  BY <1>2, <1>4
<1>5. CASE \E r \in Reqs : reqs'[r].id = s /\ reqs'[r].pc = "record"
  <2>1. \E r \in Reqs : Deleting(r, s, k)'
    BY <1>5 DEF Deleting
  <2>. QED
    BY <1>2, <2>1
<1>6. CASE StrayOf(s) \subseteq stray'
  BY <1>1, <1>6 DEF StrayOf
<1>. QED
  BY <1>3, <1>4, <1>5, <1>6

\* A request that goes on or ends leaves the others where they are.
LEMMA MovesOnly ==
  ASSUME Shapes, NEW r \in Reqs, Ends(r) \/ \E pc : Goes(r, pc)
  PROVE  \A q \in Reqs \ {r} : reqs'[q] = reqs[q]
BY DEF Shapes, Ends, Goes

LEMMA AskHeld ==
  ASSUME Typed, HeldInv, NEW r \in Reqs, NEW s \in Ids, NEW kind \in Kinds, Ask(r, s, kind)
  PROVE  HeldInv'
<1>. USE DEF Typed
<1>1. reqs[r].pc = "idle" /\ UNCHANGED <<store, held, stray, listener, expiry>>
  BY DEF Ask
<1>2. \A q \in Reqs \ {r} : reqs'[q] = reqs[q]
  BY DEF Ask, Shapes
<1>3. DeletesKept
  BY <1>1, <1>2, OthersMove
<1>4. ChannelKept
  BY <1>1 DEF ChannelKept, InChannel
<1>. QED
  BY <1>1, <1>3, <1>4, HeldSteady

\* What a step of make_room or of admission leaves of the store.
LEMMA AdmitLeaves ==
  ASSUME Typed, CountInv, NEW r \in Reqs,
         AdmitFound(r) \/ AdmitOpens(r) \/ AdmitLooks(r) \/ AdmitEvicts(r)
  PROVE  /\ reqs[r].pc \in {"admit", "evict"}
         /\ \A q \in Reqs \ {r} : reqs'[q] = reqs[q]
         /\ UNCHANGED <<held, stray, listener>> /\ ChannelKept
         /\ \A t \in Ids : store[t].on /\ ~store'[t].on =>
                /\ InChannel(t)'
                /\ t \in Old \/ store[t].seen
<1>. USE DEF Typed
<1>0. UNCHANGED <<held, stray, listener>> /\ reqs[r].pc \in {"admit", "evict"}
  BY DEF AdmitFound, AdmitOpens, AdmitLooks, AdmitEvicts, MayOpen
<1>1. CASE AdmitFound(r) \/ AdmitOpens(r) \/ AdmitLooks(r)
  <2>1. \E q \in Reports(Old) : expiry' = expiry \o q
    BY <1>1 DEF AdmitFound, AdmitOpens, AdmitLooks
  <2>2. ChannelKept /\ \A t \in Old : InChannel(t)'
    BY <2>1, Prunes, OldFinite, PrunedChannel
  <2>3. \A q \in Reqs \ {r} : reqs'[q] = reqs[q]
    <3>1. CASE Ends(r) \/ \E pc : Goes(r, pc)
      BY <3>1, MovesOnly
    <3>2. ASSUME NEW v, reqs' = [reqs EXCEPT ![r].pc = "evict", ![r].victim = v]
          PROVE  \A q \in Reqs \ {r} : reqs'[q] = reqs[q]
      BY <3>2 DEF Shapes
    <3>. QED
      BY <1>1, <3>1, <3>2 DEF AdmitFound, AdmitOpens, AdmitLooks
  <2>4. \A t \in Ids : store[t].on /\ ~store'[t].on => t \in Old
    <3>1. CASE store' = [t \in Ids |-> IF t \in Old THEN Gone ELSE store[t]]
      BY <3>1
    <3>2. CASE Insert(reqs[r].id, Open \ Old)
      BY <3>2, NewType DEF Insert, Open
    <3>3. ASSUME NEW v, store' = [t \in Ids |-> IF t \in Old THEN Gone
                                     ELSE [store[t] EXCEPT !.seen = t = v]]
          PROVE  \A t \in Ids : store[t].on /\ ~store'[t].on => t \in Old
      <4>. SUFFICES ASSUME NEW t \in Ids, t \notin Old PROVE store'[t].on = store[t].on
        OBVIOUS
      <4>. DEFINE b == t = v
      <4>1. store'[t] = [store[t] EXCEPT !.seen = b] /\ store[t] \in Sessions
        BY <3>3 DEF Shapes
      <4>. HIDE DEF b
      <4>. QED
        BY <4>1 DEF Sessions
    <3>. QED
      BY <1>1, <3>1, <3>2, <3>3 DEF AdmitFound, AdmitOpens, AdmitLooks
  <2>. QED
    BY <1>0, <2>2, <2>3, <2>4
<1>2. CASE AdmitEvicts(r)
  <2>0. PICK v \in Ids : v = reqs[r].victim
    BY <1>2 DEF AdmitEvicts, ReqInv
  <2>. DEFINE left == IF Evicts(v) THEN Open \ {v} ELSE Open
  <2>1. \A q \in Reqs \ {r} : reqs'[q] = reqs[q]
    <3>1. CASE Ends(r)
      BY <3>1, MovesOnly
    <3>2. ASSUME NEW pc, reqs' = [reqs EXCEPT ![r].pc = pc, ![r].victim = NoId]
          PROVE  \A q \in Reqs \ {r} : reqs'[q] = reqs[q]
      BY <3>2 DEF Shapes
    <3>. QED
      BY <1>2, <3>1, <3>2 DEF AdmitEvicts
  <2>2. \A t \in Ids : store[t].on /\ ~store'[t].on => t \notin left
    <3>. HIDE DEF left
    <3>1. CASE Insert(reqs[r].id, left)
      BY <3>1, NewType DEF Insert
    <3>2. CASE store' = [t \in Ids |-> IF t \in left THEN store[t] ELSE Gone]
      BY <3>2
    <3>. QED
      BY <1>2, <2>0, <3>1, <3>2 DEF AdmitEvicts, left
  <2>3. CASE Evicts(v)
    <3>1. expiry' = Append(expiry, v) /\ store[v].seen
      BY <1>2, <2>0, <2>3 DEF AdmitEvicts, Evicted, Evicts
    <3>2. ChannelKept /\ InChannel(v)'
      BY <2>0, <3>1, ReportChannel
    <3>. QED
      BY <1>0, <2>1, <2>2, <2>3, <3>1, <3>2 DEF Open
  <2>4. CASE ~Evicts(v)
    <3>1. expiry' = expiry
      BY <1>2, <2>0, <2>4 DEF AdmitEvicts
    <3>2. ChannelKept
      BY <3>1 DEF ChannelKept, InChannel
    <3>. QED
      BY <1>0, <2>1, <2>2, <2>4, <3>2 DEF Open
  <2>. QED
    BY <2>3, <2>4
<1>. QED
  BY <1>1, <1>2

LEMMA AdmitHeld ==
  ASSUME Typed, CountInv, HeldInv, NEW r \in Reqs,
         AdmitFound(r) \/ AdmitOpens(r) \/ AdmitLooks(r) \/ AdmitEvicts(r)
  PROVE  HeldInv'
<1>1. DeletesKept
  BY AdmitLeaves, OthersMove
<1>. QED
  BY <1>1, AdmitLeaves, HeldSteady

\* Bind, Unbind, Wire, Effect and Remove.
LEMMA QuietHeld ==
  ASSUME Typed, HeldInv, NEW r \in Reqs,
         Bind(r) \/ Unbind(r) \/ Wire(r) \/ Effect(r) \/ Remove(r)
  PROVE  HeldInv'
<1>. USE DEF Typed
<1>. DEFINE s == reqs[r].id
            item == IF reqs[r].kind = "initialize" THEN "wiring" ELSE reqs[r].kind
<1>0. /\ reqs[r].pc \in {"bind", "unbind", "wire", "effect", "remove"} /\ s \in Ids
      /\ UNCHANGED <<expiry, listener>>
  BY DEF Bind, Unbind, Wire, Effect, Remove, ReqInv
<1>1. DeletesKept
  <2>1. Ends(r) \/ \E pc : Goes(r, pc)
    BY DEF Bind, Unbind, Wire, Effect, Remove
  <2>. QED
    BY <1>0, <2>1, MovesOnly, OthersMove
<1>2. ChannelKept
  BY <1>0 DEF ChannelKept, InChannel
<1>3. \A t \in Ids : store[t].on /\ ~store'[t].on => t = s /\ (Unbind(r) \/ Remove(r))
  <2>1. CASE Withdrawn(r)
    BY <1>0, <2>1 DEF Withdrawn, Shapes, Bind, Unbind, Wire, Effect, Remove
  <2>2. CASE \A t \in Ids : store'[t].on = store[t].on
    BY <2>2
  <2>. QED
    BY <2>1, <2>2, QuietOn
<1>4. CASE Bind(r)
  <2>1. UNCHANGED <<held, stray>>
    BY <1>4 DEF Bind
  <2>. QED
    BY <1>0, <1>1, <1>2, <1>3, <1>4, <2>1, HeldSteady DEF Bind, Unbind, Remove
<1>5. CASE Unbind(r)
  <2>1. held' = held /\ stray \subseteq stray'
    BY <1>5 DEF Unbind
  <2>2. store[s].on /\ ~store'[s].on => StrayOf(s) \subseteq stray'
    BY <1>5 DEF Unbind
  <2>. QED
    BY <1>0, <1>1, <1>2, <1>3, <2>1, <2>2, HeldSteady
<1>6. CASE Remove(r)
  <2>1. UNCHANGED <<held, stray>>
    BY <1>6 DEF Remove
  <2>2. store[s].on => reqs'[r].id = s /\ reqs'[r].pc = "record"
    <3>. SUFFICES ASSUME store[s].on PROVE reqs'[r].id = s /\ reqs'[r].pc = "record"
      OBVIOUS
    <3>1. Goes(r, "record") /\ reqs[r] \in Requests
      BY <1>6 DEF Remove, Shapes
    <3>. QED
      BY <3>1 DEF Goes, Shapes, Requests
  <2>3. \A t \in Ids : ~store'[t].on =>
            ~store[t].on \/ \E q \in Reqs : reqs'[q].id = t /\ reqs'[q].pc = "record"
    BY <1>3, <2>2
  <2>. QED
    BY <1>0, <1>1, <1>2, <2>1, <2>3, HeldSteady
<1>7. ASSUME NEW x, Holds(s, x), Wire(r) \/ Effect(r) PROVE HeldInv'
  <2>1. \A t \in Ids : store[t].on => store'[t].on
    BY <1>0, <1>3, <1>7 DEF Unbind, Remove, Wire, Effect
  <2>2. stray \subseteq stray' /\ (~store[s].on => <<s, x>> \in stray')
    BY <1>7 DEF Holds
  <2>3. \A t \in Ids : held'[t] = IF t = s THEN held[t] \cup {x} ELSE held[t]
    BY <1>7 DEF Holds, Shapes
  <2>4. \A t \in Ids : ~store'[t].on =>
            \A y \in held'[t] : y \in held[t] \/ <<t, y>> \in stray'
    BY <2>1, <2>2, <2>3
  <2>. QED
    BY <1>0, <1>1, <1>2, <2>1, <2>2, <2>4, HeldSteady
<1>8. CASE Wire(r)
  BY <1>7, <1>8 DEF Wire
<1>9. CASE Effect(r)
  <2>1. CASE reqs[r].kind = "stream"
    <3>1. UNCHANGED <<held, stray>>
      BY <1>9, <2>1 DEF Effect
    <3>. QED
      BY <1>0, <1>1, <1>2, <1>3, <1>9, <3>1, HeldSteady DEF Effect, Unbind, Remove
  <2>2. CASE reqs[r].kind # "stream"
    <3>1. Holds(s, item)
      BY <1>9, <2>2 DEF Effect
    <3>. QED
      BY <1>7, <1>9, <3>1
  <2>. QED
    BY <2>1, <2>2
<1>. QED
  BY <1>4, <1>5, <1>6, <1>8, <1>9

LEMMA DropsHeld ==
  ASSUME Typed, HeldInv, NEW s \in Ids, RemoveIfExpired(s) \/ End(s), DeletesKept,
         UNCHANGED <<held, stray, listener>>
  PROVE  HeldInv'
<1>. USE DEF Typed
<1>1. CASE UNCHANGED <<store, expiry>>
  <2>1. ChannelKept
    BY <1>1 DEF ChannelKept, InChannel
  <2>. QED
    BY <1>1, <2>1, HeldSteady
<1>2. CASE TakenOut(s)
  <2>1. ChannelKept /\ InChannel(s)'
    BY <1>2, ReportChannel DEF TakenOut
  <2>2. \A t \in Ids \ {s} : store'[t] = store[t]
    BY <1>2 DEF Shapes, TakenOut
  <2>. QED
    BY <2>1, <2>2, HeldSteady
<1>. QED
  BY <1>1, <1>2 DEF RemoveIfExpired, End

LEMMA ValidateHeld ==
  ASSUME Typed, HeldInv, NEW r \in Reqs, Validate(r) \/ DropExpired(r) \/ DropEnded(r)
  PROVE  HeldInv'
<1>. USE DEF Typed
<1>0. /\ reqs[r].pc \in {"validate", "expire", "end"} /\ reqs[r].id \in Ids
      /\ UNCHANGED <<held, stray, listener>>
  BY DEF Validate, DropExpired, DropEnded, ReqInv
<1>1. DeletesKept
  <2>1. \A q \in Reqs \ {r} : reqs'[q] = reqs[q]
    <3>1. CASE Ends(r) \/ \E pc : Goes(r, pc)
      BY <3>1, MovesOnly
    <3>2. CASE \E n : reqs' = [reqs EXCEPT ![r].pc = "end", ![r].lease = n]
      BY <3>2 DEF Shapes
    <3>. QED
      BY <3>1, <3>2 DEF Validate, DropExpired, DropEnded
  <2>. QED
    BY <1>0, <2>1, OthersMove
<1>2. CASE Validate(r)
  <2>1. expiry' = expiry /\ \A t \in Ids : store'[t].on = store[t].on
    BY <1>0, <1>2, UsedOn DEF Validate
  <2>2. ChannelKept
    BY <2>1 DEF ChannelKept, InChannel
  <2>. QED
    BY <1>0, <1>1, <2>1, <2>2, HeldSteady
<1>3. CASE DropExpired(r) \/ DropEnded(r)
  BY <1>0, <1>1, <1>3, DropsHeld DEF DropExpired, DropEnded
<1>. QED
  BY <1>2, <1>3

\* One part of a teardown releases what it is to release: the other parts' items stay
\* with the part that is still to come.
LEMMA ReleaseHeld ==
  ASSUME Typed, HeldInv, NEW s \in Ids, NEW j \in 1..3, Release(s, j), store' = store,
         ChannelKept,
         \A t \in Ids, k \in 1..3 : Coming(t, k) /\ (t = s => k # j) => Coming(t, k)'
  PROVE  HeldInv'
<1>. USE DEF Typed
<1>. SUFFICES ASSUME NEW t \in Ids, ~store[t].on, NEW item \in held'[t],
                     <<t, item>> \notin stray'
              PROVE  Coming(t, Part(item))'
  BY DEF HeldInv
<1>1. /\ held'[t] = IF t = s THEN {x \in held[t] : Part(x) # j} ELSE held[t]
      /\ stray' = {x \in stray : ~(x[1] = s /\ Part(x[2]) = j)}
  BY DEF Release, Shapes
<1>2. item \in held[t] /\ (t = s => Part(item) # j) /\ Part(item) \in 1..3
  BY <1>1, PartType DEF Shapes
<1>3. <<t, item>> \notin stray
  BY <1>1, <1>2
<1>4. Coming(t, Part(item))
  BY <1>2, <1>3 DEF HeldInv
<1>. QED
  BY <1>2, <1>4

LEMMA DeleteHeld ==
  ASSUME Typed, HeldInv, NEW r \in Reqs, Record(r) \/ DeleteStep(r) \/ DeleteDropped(r)
  PROVE  HeldInv'
<1>. USE DEF Typed
<1>0. /\ reqs[r].pc \in {"record", "part1", "part2", "part3"}
      /\ UNCHANGED <<store, expiry, listener>>
  BY DEF Record, DeleteStep, DeleteDropped, PartOf
<1>1. PICK s \in Ids : s = reqs[r].id
  BY <1>0 DEF ReqInv
<1>2. ChannelKept
  BY <1>0 DEF ChannelKept, InChannel
<1>3. \A q \in Reqs \ {r} : reqs'[q] = reqs[q]
  <2>1. Ends(r) \/ \E pc : Goes(r, pc)
    BY DEF Record, DeleteStep, DeleteDropped
  <2>. QED
    BY <2>1, MovesOnly
\* A teardown other than r's, or r's for the parts it still has, comes as before.
<1>4. ASSUME NEW t \in Ids, NEW k \in 1..3, Coming(t, k),
             Deleting(r, t, k) => Deleting(r, t, k)'
      PROVE  Coming(t, k)'
  <2>1. Coming(t, k)' <=> \/ InChannel(t)'
                          \/ listener'.id = t /\ listener'.part <= k
                          \/ \E q \in Reqs : Deleting(q, t, k)'
    BY DEF Coming, InChannel, Deleting
  <2>2. \A q \in Reqs \ {r} : Deleting(q, t, k) => Deleting(q, t, k)'
    BY <1>3 DEF Deleting
  <2>3. \A q \in Reqs : Deleting(q, t, k) => Deleting(q, t, k)'
    BY <1>4, <2>2
  <2>. QED
    BY <1>0, <1>2, <1>4, <2>1, <2>3, ComingIs DEF ChannelKept
<1>5. CASE Record(r)
  <2>1. reqs'[r].id = reqs[r].id /\ reqs'[r].pc = "part1" /\ UNCHANGED <<held, stray>>
    BY <1>5 DEF Record, Goes, Shapes, Requests
  <2>2. \A t \in Ids, k \in 1..3 : Coming(t, k) => Coming(t, k)'
    <3>. SUFFICES ASSUME NEW t \in Ids, NEW k \in 1..3, Coming(t, k) PROVE Coming(t, k)'
      OBVIOUS
    <3>1. Deleting(r, t, k) => Deleting(r, t, k)'
      BY <2>1 DEF Deleting, PartOf
    <3>. QED
      BY <3>1, <1>4
  <2>3. \A t \in Ids : \A item \in held[t] : Part(item) \in 1..3
    BY PartType DEF Shapes
  <2>. QED
    BY <1>0, <2>1, <2>2, <2>3 DEF HeldInv
<1>6. CASE DeleteStep(r)
  <2>1. PICK j \in 1..3 : j = PartOf(reqs[r].pc)
    BY <1>6 DEF DeleteStep, PartOf
  <2>2. Release(s, j)
    BY <1>1, <1>6, <2>1 DEF DeleteStep
  <2>3. \A t \in Ids, k \in 1..3 : Coming(t, k) /\ (t = s => k # j) => Coming(t, k)'
    <3>. SUFFICES ASSUME NEW t \in Ids, NEW k \in 1..3, Coming(t, k), t = s => k # j
                  PROVE  Coming(t, k)'
      OBVIOUS
    <3>1. Deleting(r, t, k) => Deleting(r, t, k)'
      <4>. SUFFICES ASSUME Deleting(r, t, k) PROVE Deleting(r, t, k)'
        OBVIOUS
      <4>1. t = s /\ j <= k /\ j < k
        BY <1>1, <2>1 DEF Deleting, PartOf
      <4>2. Goes(r, PartPc(j + 1))
        BY <1>6, <2>1, <4>1 DEF DeleteStep
      <4>3. reqs'[r].id = reqs[r].id /\ reqs'[r].pc = PartPc(j + 1)
        BY <4>2 DEF Goes, Shapes, Requests
      <4>4. PartOf(PartPc(j + 1)) = j + 1
        BY <4>1 DEF PartOf, PartPc
      <4>. QED
        BY <1>1, <4>1, <4>3, <4>4 DEF Deleting
    <3>. QED
      BY <3>1, <1>4
  <2>. QED
    BY <1>0, <1>2, <2>2, <2>3, ReleaseHeld
<1>7. CASE DeleteDropped(r)
  <2>1. /\ held' = held /\ stray \subseteq stray'
        /\ ~store[s].on => StrayOf(s) \subseteq stray'
    BY <1>1, <1>7 DEF DeleteDropped
  <2>. SUFFICES ASSUME NEW t \in Ids, ~store[t].on, NEW item \in held[t],
                       <<t, item>> \notin stray'
                PROVE  Coming(t, Part(item))'
    BY <1>0, <2>1 DEF HeldInv
  <2>2. t # s /\ Part(item) \in 1..3
    BY <2>1, PartType DEF StrayOf, Shapes
  <2>3. Coming(t, Part(item)) /\ ~Deleting(r, t, Part(item))
    BY <1>1, <2>1, <2>2 DEF HeldInv, Deleting
  <2>. QED
    BY <2>2, <2>3, <1>4
<1>. QED
  BY <1>5, <1>6, <1>7

LEMMA ListenerHeld ==
  ASSUME Typed, HeldInv, ListenerTake \/ ListenerStep
  PROVE  HeldInv'
<1>. USE DEF Typed
<1>0. UNCHANGED <<store, reqs>>
  BY DEF ListenerTake, ListenerStep
<1>1. \A t, k : Coming(t, k)' <=> \/ InChannel(t)'
                                  \/ listener'.id = t /\ listener'.part <= k
                                  \/ \E q \in Reqs : Deleting(q, t, k)'
  BY DEF Coming, InChannel, Deleting
<1>2. \A q \in Reqs : \A t, k : Deleting(q, t, k) => Deleting(q, t, k)'
  BY <1>0 DEF Deleting
<1>3. CASE ListenerTake
  <2>1. /\ listener.id = NoId /\ expiry # <<>> /\ expiry' = Tail(expiry)
        /\ listener' = [id |-> Head(expiry), part |-> 1] /\ UNCHANGED <<held, stray>>
    BY <1>3 DEF ListenerTake
  <2>2. \A t \in Ids : InChannel(t) => t = Head(expiry) \/ InChannel(t)'
    <3>. SUFFICES ASSUME NEW t \in Ids, InChannel(t), t # Head(expiry) PROVE InChannel(t)'
      OBVIOUS
    <3>1. PICK i \in 1..Len(expiry) : expiry[i] = t
      BY DEF InChannel
    <3>2. /\ Len(expiry) \in Nat /\ Head(expiry) = expiry[1] /\ Len(Tail(expiry)) = Len(expiry) - 1
          /\ \A j \in 1..Len(Tail(expiry)) : Tail(expiry)[j] = expiry[j + 1]
      BY <2>1, HeadTailProperties DEF Shapes
    <3>3. i - 1 \in 1..Len(Tail(expiry)) /\ Tail(expiry)[i - 1] = t
      BY <3>1, <3>2
    <3>. QED
      BY <2>1, <3>3 DEF InChannel
  <2>3. \A t \in Ids, k \in 1..3 : Coming(t, k) => Coming(t, k)'
    <3>. SUFFICES ASSUME NEW t \in Ids, NEW k \in 1..3, Coming(t, k) PROVE Coming(t, k)'
      OBVIOUS
    <3>1. CASE InChannel(t)
      <4>1. CASE t = Head(expiry)
        <5>1. listener'.id = t /\ listener'.part <= k
          BY <2>1, <4>1
        <5>. QED
          BY <1>1, <5>1
      <4>. QED
        BY <1>1, <2>2, <3>1, <4>1
    <3>2. CASE \E q \in Reqs : Deleting(q, t, k)
      BY <1>1, <1>2, <3>2
    <3>. QED
      BY <2>1, <3>1, <3>2, ComingIs, SessionAssumption
  <2>4. \A t \in Ids : \A item \in held[t] : Part(item) \in 1..3
    BY PartType DEF Shapes
  <2>. QED
    BY <1>0, <2>1, <2>3, <2>4 DEF HeldInv
<1>4. CASE ListenerStep
  <2>1. PICK s \in Ids, j \in 1..3 : listener.id = s /\ listener.part = j /\ Release(s, j)
    BY <1>4 DEF ListenerStep, Shapes
  <2>2. expiry' = expiry /\ ChannelKept /\ \A t : InChannel(t)' <=> InChannel(t)
    BY <1>4 DEF ListenerStep, ChannelKept, InChannel
  <2>3. j # 3 => listener'.id = s /\ listener'.part = j + 1
    BY <1>4, <2>1 DEF ListenerStep, Shapes
  <2>4. \A t \in Ids, k \in 1..3 : Coming(t, k) /\ (t = s => k # j) => Coming(t, k)'
    <3>. SUFFICES ASSUME NEW t \in Ids, NEW k \in 1..3, Coming(t, k), t = s => k # j
                  PROVE  Coming(t, k)'
      OBVIOUS
    <3>1. CASE InChannel(t) \/ \E q \in Reqs : Deleting(q, t, k)
      BY <1>1, <1>2, <2>2, <3>1
    <3>2. CASE t = s /\ j <= k
      <4>1. j # 3 /\ j + 1 <= k
        BY <3>2
      <4>2. listener'.id = t /\ listener'.part <= k
        BY <2>3, <3>2, <4>1
      <4>. QED
        BY <1>1, <4>2
    <3>. QED
      BY <2>1, <3>1, <3>2, ComingIs
  <2>. QED
    BY <1>0, <2>1, <2>2, <2>4, ReleaseHeld
<1>. QED
  BY <1>3, <1>4

LEMMA HeldStep == Typed /\ CountInv /\ HeldInv /\ [Next]_vars => HeldInv'
<1>. SUFFICES ASSUME Typed, CountInv, HeldInv, [Next]_vars PROVE HeldInv'
  OBVIOUS
<1>. USE DEF Typed
<1>1. ASSUME UNCHANGED <<held, stray, listener, reqs, expiry>>,
             \A t \in Ids : store'[t].on = store[t].on
      PROVE  HeldInv'
  <2>1. ChannelKept /\ DeletesKept
    BY <1>1 DEF ChannelKept, InChannel, DeletesKept
  <2>. QED
    BY <1>1, <2>1, HeldSteady
<1>2. CASE CleanupCollects \/ UNCHANGED vars
  BY <1>2, <1>1 DEF CleanupCollects, vars
<1>3. ASSUME NEW s \in Ids, Age(s) \/ Heartbeat(s) \/ StreamCloses(s) \/ SignInStep(s)
      PROVE  HeldInv'
  <2>1. UNCHANGED <<held, stray, listener, reqs, expiry>>
    BY <1>3 DEF Age, Heartbeat, StreamCloses, SignInStep, SignInEnds, SignInAgain,
         SendFindsEnded, RevokeCollects
  <2>. QED
    BY <1>3, <2>1, <1>1, TimeOn
<1>4. ASSUME NEW s \in Ids, RemoveIfExpired(s) \/ End(s), UNCHANGED <<held, stray, listener, reqs>>
      PROVE  HeldInv'
  <2>1. DeletesKept
    BY <1>4 DEF DeletesKept
  <2>. QED
    BY <1>4, <2>1, DropsHeld
<1>6. ASSUME NEW s \in Ids, CleanupRemoves(s) PROVE HeldInv'
  BY <1>4, <1>6 DEF CleanupRemoves
<1>7. ASSUME NEW e \in ending, EndSession(e) PROVE HeldInv'
  <2>1. e[1] \in Ids
    BY DEF Shapes
  <2>. QED
    BY <1>4, <1>7, <2>1 DEF EndSession
<1>5. ASSUME NEW r \in Reqs, RequestStep(r) PROVE HeldInv'
  BY <1>5, AdmitHeld, QuietHeld, ValidateHeld, DeleteHeld DEF RequestStep
<1>. QED
  BY <1>2, <1>3, <1>5, <1>6, <1>7, AskHeld, DeleteHeld, ListenerHeld DEF Next, SignInStep

-----------------------------------------------------------------------------
(* What a check found over. *)

SignsInOrOut == UNCHANGED <<signedIn, signIn>> \/ \E t \in Ids : SignInEnds(t) \/ SignInAgain(t)

LEMMA OverStays ==
  ASSUME Shapes, SignsInOrOut, NEW s \in Ids, NEW n \in Nat, Over(s, n)
  PROVE  Over(s, n)'
<1>1. CASE UNCHANGED <<signedIn, signIn>>
  BY <1>1 DEF Over
<1>2. ASSUME NEW t \in Ids, SignInEnds(t) PROVE Over(s, n)'
  BY <1>2 DEF Over, SignInEnds
<1>3. ASSUME NEW t \in Ids, SignInAgain(t) PROVE Over(s, n)'
  <2>1. signIn[s] \in Nat /\ \A u \in Ids : signIn'[u] = IF u = t THEN signIn[u] + 1 ELSE signIn[u]
    BY <1>3 DEF Shapes, SignInAgain
  <2>2. s # t => (s \in signedIn' <=> s \in signedIn)
    BY <1>3 DEF SignInAgain
  <2>. QED
    BY <2>1, <2>2 DEF Over
<1>. QED
  BY <1>1, <1>2, <1>3 DEF SignsInOrOut

LEMMA EndSteady ==
  ASSUME Typed, EndInv, SignsInOrOut,
         \A e \in ending' : e \in ending \/ e[2] = Unbound \/ Over(e[1], e[2])',
         \A r \in Reqs : reqs'[r].pc = "end" => reqs'[r] = reqs[r]
  PROVE  EndInv'
<1>. USE DEF Typed
<1>1. ASSUME NEW e \in ending', e[2] # Unbound PROVE Over(e[1], e[2])'
  <2>1. CASE e \in ending
    <3>1. e[1] \in Ids /\ e[2] \in Nat /\ Over(e[1], e[2])
      BY <1>1, <2>1 DEF Shapes, EndInv
    <3>. QED
      BY <3>1, OverStays
  <2>. QED
    BY <1>1, <2>1
<1>2. ASSUME NEW r \in Reqs, reqs'[r].pc = "end"
      PROVE  reqs'[r].lease # Unbound /\ Over(reqs[r].id, reqs[r].lease)' /\ reqs'[r] = reqs[r]
  <2>1. /\ reqs[r].pc = "end" /\ reqs'[r] = reqs[r]
        /\ reqs[r].id \in Ids /\ reqs[r].lease \in Nat
    BY <1>2 DEF Shapes, ReqInv, Requests
  <2>2. reqs[r].lease # Unbound /\ Over(reqs[r].id, reqs[r].lease)
    BY <2>1 DEF EndInv
  <2>3. PICK s \in Ids, n \in Nat : s = reqs[r].id /\ n = reqs[r].lease
    BY <2>1
  <2>4. Over(s, n)'
    BY <2>2, <2>3, OverStays
  <2>. QED
    BY <2>1, <2>2, <2>3, <2>4 DEF Over
<1>. QED
  BY <1>1, <1>2 DEF EndInv, Over

\* Only Validate has a request end a session.
LEMMA NoNewEnd ==
  ASSUME Typed, NEW r \in Reqs, RequestStep(r) \/ DeleteDropped(r), ~Validate(r)
  PROVE  /\ UNCHANGED <<signedIn, signIn, ending>>
         /\ \A q \in Reqs : reqs'[q].pc = "end" => reqs'[q] = reqs[q]
<1>. USE DEF Typed
<1>1. CASE Ends(r)
  <2>1. \A q \in Reqs : reqs'[q] = IF q = r THEN Free ELSE reqs[q]
    BY <1>1 DEF Ends, Shapes
  <2>2. Free.pc # "end"
    BY DEF Free
  <2>. QED
    BY <2>1, <2>2 DEF RequestStep, AdmitFound, AdmitOpens, AdmitLooks, AdmitEvicts, Bind, Unbind,
       Wire, DropExpired, DropEnded, Effect, Remove, Record, DeleteStep, DeleteDropped
<1>2. CASE \E pc \in Pcs \ {"end"} : Goes(r, pc)
  <2>1. PICK pc \in Pcs \ {"end"} : Goes(r, pc)
    BY <1>2
  <2>2. reqs'[r].pc = pc /\ \A q \in Reqs \ {r} : reqs'[q] = reqs[q]
    BY <2>1 DEF Goes, Shapes, Requests
  <2>. QED
    BY <2>1, <2>2 DEF RequestStep, AdmitFound, AdmitOpens, AdmitLooks, AdmitEvicts, Bind, Unbind,
       Wire, DropExpired, DropEnded, Effect, Remove, Record, DeleteStep, DeleteDropped
<1>3. CASE AdmitLooks(r) \/ AdmitEvicts(r)
  <2>1. \/ Ends(r) \/ \E pc \in Pcs \ {"end"} : Goes(r, pc)
        \/ \E pc \in Pcs \ {"end"} : \E v : reqs' = [reqs EXCEPT ![r].pc = pc, ![r].victim = v]
    BY <1>3 DEF AdmitLooks, AdmitEvicts, Pcs
  <2>2. ASSUME NEW pc \in Pcs \ {"end"}, NEW v,
               reqs' = [reqs EXCEPT ![r].pc = pc, ![r].victim = v]
        PROVE  \A q \in Reqs : reqs'[q].pc = "end" => reqs'[q] = reqs[q]
    BY <2>2 DEF Shapes, Requests
  <2>3. UNCHANGED <<signedIn, signIn, ending>>
    BY <1>3 DEF AdmitLooks, AdmitEvicts
  <2>. QED
    BY <1>1, <1>2, <2>1, <2>2, <2>3
<1>. QED
  BY <1>1, <1>2, <1>3 DEF RequestStep, AdmitFound, AdmitOpens, Bind, Unbind, Wire, DropExpired,
     DropEnded, Effect, Remove, Record, DeleteStep, DeleteDropped, Pcs, PartPc, PartOf

LEMMA ValidateEnds ==
  ASSUME Typed, EndInv, NEW r \in Reqs, Validate(r)
  PROVE  EndInv'
<1>. USE DEF Typed
<1>. DEFINE s == reqs[r].id
<1>0. UNCHANGED <<signedIn, signIn, ending>> /\ s \in Ids
  BY DEF Validate, ReqInv
<1>1. CASE reqs' = [reqs EXCEPT ![r].pc = "end", ![r].lease = store[s].lease] /\ Ended(s)
  <2>1. /\ reqs'[r].pc = "end" /\ reqs'[r].lease = store[s].lease /\ reqs'[r].id = s
        /\ \A q \in Reqs \ {r} : reqs'[q] = reqs[q]
    BY <1>1 DEF Shapes, Requests
  <2>2. store[s].lease # Unbound /\ Over(s, store[s].lease)
    BY <1>1 DEF Ended
  <2>. QED
    BY <1>0, <2>1, <2>2 DEF EndInv, Over
<1>2. CASE \A q \in Reqs : reqs'[q].pc = "end" => reqs'[q] = reqs[q]
  BY <1>0, <1>2, EndSteady DEF SignsInOrOut
<1>3. CASE Ends(r) \/ Goes(r, "effect") \/ Goes(r, "expire")
  <2>1. reqs'[r].pc # "end" /\ \A q \in Reqs \ {r} : reqs'[q] = reqs[q]
    BY <1>3 DEF Ends, Goes, Free, Shapes, Requests
  <2>. QED
    BY <1>2, <2>1
<1>. QED
  BY <1>1, <1>3 DEF Validate

LEMMA EndStep == Typed /\ EndInv /\ [Next]_vars => EndInv'
<1>. SUFFICES ASSUME Typed, EndInv, [Next]_vars PROVE EndInv'
  OBVIOUS
<1>. USE DEF Typed
<1>1. ASSUME NEW r \in Reqs, RequestStep(r) \/ DeleteDropped(r) PROVE EndInv'
  BY <1>1, NoNewEnd, ValidateEnds, EndSteady DEF SignsInOrOut
<1>2. ASSUME NEW r \in Reqs, NEW s \in Ids, NEW kind \in Kinds, Ask(r, s, kind) PROVE EndInv'
  <2>1. reqs'[r].pc # "end" /\ \A q \in Reqs \ {r} : reqs'[q] = reqs[q]
    BY <1>2 DEF Ask, Shapes
  <2>2. UNCHANGED <<signedIn, signIn, ending>>
    BY <1>2 DEF Ask
  <2>. QED
    BY <2>1, <2>2, EndSteady DEF SignsInOrOut
<1>3. ASSUME reqs' = reqs, SignsInOrOut,
             \A e \in ending' : e \in ending \/ e[2] = Unbound \/ Over(e[1], e[2])'
      PROVE  EndInv'
  BY <1>3, EndSteady
<1>4. ASSUME NEW s \in Ids, SendFindsEnded(s) \/ RevokeCollects(s) PROVE EndInv'
  <2>1. reqs' = reqs /\ UNCHANGED <<signedIn, signIn>>
    BY <1>4 DEF SendFindsEnded, RevokeCollects
  <2>2. \A e \in ending' : e \in ending \/ e[2] = Unbound \/ Over(e[1], e[2])
    BY <1>4 DEF SendFindsEnded, RevokeCollects, Ended
  <2>. QED
    BY <1>3, <2>1, <2>2 DEF SignsInOrOut, Over
<1>5. ASSUME NEW s \in Ids, SignInEnds(s) \/ SignInAgain(s) PROVE EndInv'
  BY <1>3, <1>5 DEF SignInEnds, SignInAgain, SignsInOrOut
<1>6. ASSUME NEW e \in ending, EndSession(e) PROVE EndInv'
  BY <1>3, <1>6 DEF EndSession, SignsInOrOut
<1>7. ASSUME NEW s \in Ids, Age(s) \/ Heartbeat(s) \/ StreamCloses(s) \/ CleanupRemoves(s)
      PROVE  EndInv'
  BY <1>3, <1>7 DEF Age, Heartbeat, StreamCloses, CleanupRemoves, SignsInOrOut
<1>8. CASE CleanupCollects \/ ListenerTake \/ ListenerStep \/ UNCHANGED vars
  BY <1>3, <1>8 DEF CleanupCollects, ListenerTake, ListenerStep, vars, SignsInOrOut
<1>. QED
  BY <1>1, <1>2, <1>4, <1>5, <1>6, <1>7, <1>8 DEF Next

-----------------------------------------------------------------------------
(* The theorems. *)

LEMMA SessionInit == Init => SessionInv
<1>. SUFFICES ASSUME Init PROVE SessionInv
  OBVIOUS
<1>1. store = [s \in Ids |-> Gone] /\ reqs = [r \in Reqs |-> Free]
  BY DEF Init
<1>2. Shapes /\ StoreInv /\ ReqInv
  <2>1. Free \in Requests /\ Free.pc = "idle"
    BY DEF Free, Requests, Pcs, Unbound
  <2>2. store \in [Ids -> Sessions] /\ StoreInv
    BY <1>1, GoneType DEF StoreInv
  <2>3. reqs \in [Reqs -> Requests] /\ ReqInv
    BY <1>1, <2>1 DEF ReqInv
  <2>4. Len(<<>>) = 0 /\ 0 <= ClosedKept
    BY SessionAssumption
  <2>. QED
    BY <2>2, <2>3, <2>4 DEF Init, Shapes, Resting
<1>3. CountInv
  <2>1. Open = {} /\ Admitting = {} /\ Len(expiry) = 0 /\ asks = 0
    BY <1>1, GoneType DEF Init, Open, Admitting, Free
  <2>. QED
    BY <2>1, FS_EmptySet, SessionAssumption DEF CountInv
<1>4. HeldInv
  BY DEF Init, HeldInv
<1>5. EndInv
  BY <1>1 DEF Init, EndInv, Free
<1>. QED
  BY <1>2, <1>3, <1>4, <1>5 DEF SessionInv

LEMMA SessionStep == SessionInv /\ [Next]_vars => SessionInv'
<1>. SUFFICES ASSUME SessionInv, [Next]_vars PROVE SessionInv'
  OBVIOUS
<1>1. Typed /\ CountInv /\ HeldInv /\ EndInv
  BY DEF SessionInv, Typed
<1>2. Typed'
  BY <1>1, TypedStep
<1>3. CountInv' /\ HeldInv' /\ EndInv'
  BY <1>1, <1>2, CountStep, HeldStep, EndStep
<1>. QED
  BY <1>2, <1>3 DEF SessionInv, Typed

\* The store, the requests and the teardowns keep their invariant, whatever requests,
\* expiries, evictions, sign-outs and hang-ups interleave.
THEOREM SessionInvariant == Spec => []SessionInv
BY SessionInit, SessionStep, PTL DEF Spec

\* What the daemon holds under the id of a session that has left the store is released
\* by a teardown still to come, or is one of the three kinds of strays.
THEOREM HeldIsReleased == Spec => []NothingLeftBehind
<1>1. SessionInv => NothingLeftBehind
  <2>. SUFFICES ASSUME SessionInv PROVE NothingLeftBehind
    OBVIOUS
  <2>1. Shapes /\ StoreInv /\ CountInv /\ HeldInv
    BY DEF SessionInv
  <2>2. Len(expiry) <= asks
    <3>1. Cardinality(Open) \in Nat /\ Cardinality(Admitting) \in Nat /\ Len(expiry) \in Nat
      BY <2>1, FS_CardinalityType DEF CountInv, Shapes
    <3>2. asks \in Nat
      BY <2>1, SessionAssumption DEF CountInv
    <3>. QED
      BY <2>1, <3>1, <3>2 DEF CountInv
  <2>3. \A s \in Ids : ~store[s].on => store[s] = Gone
    BY <2>1 DEF StoreInv
  <2>4. TypeOK
    BY <2>1, <2>2, <2>3, Zenon DEF TypeOK, Shapes, CountInv, Sessions, Requests
  <2>. QED
    BY <2>1, <2>4 DEF NothingLeftBehind, HeldInv
<1>. QED
  BY SessionInvariant, <1>1, PTL

\* remove_if_expired and make_room look again before they drop a session: none is
\* dropped that a request has just used, but by an `end` that was under way for an
\* earlier session of the id, or for an operator who removes the client.
THEOREM UsedIsKept == Spec => KeptWhileUsed
<1>. DEFINE Dropped(s) ==
         \/ store[s].age = Expired
         \/ store[s].age = Quiet /\ ~store[s].stream
         \/ Ended(s)
         \/ \E r \in Reqs : reqs[r].id = s /\ reqs[r].pc \in {"remove", "unbind"}
         \/ EndsAnother(s)
<1>1. SessionInv /\ [Next]_vars =>
          [\A s \in Ids : store[s].on /\ ~store'[s].on => Dropped(s)]_vars
  <2>. SUFFICES ASSUME SessionInv, Next, NEW s \in Ids, store[s].on, ~store'[s].on
                PROVE  Dropped(s)
    OBVIOUS
  <2>0. Typed /\ CountInv /\ EndInv
    BY DEF SessionInv, Typed
  <2>1. ASSUME NEW r \in Reqs,
               AdmitFound(r) \/ AdmitOpens(r) \/ AdmitLooks(r) \/ AdmitEvicts(r)
        PROVE  Dropped(s)
    <3>1. s \in Old \/ store[s].seen
      BY <2>0, <2>1, AdmitLeaves
    <3>2. s \in Old => store[s].age = Expired
      BY Zenon DEF Old
    <3>3. CASE store[s].seen
      <4>1. store[s].age # Fresh /\ ~store[s].stream /\ store[s].age \in 0..2
        BY <2>0, <3>3 DEF Typed, Shapes, StoreInv, Sessions
      <4>. QED
        BY <4>1 DEF Fresh, Quiet, Expired
    <3>. QED
      BY <3>1, <3>2, <3>3
  <2>2. ASSUME NEW r \in Reqs,
               \/ Bind(r) \/ Unbind(r) \/ Wire(r) \/ Effect(r) \/ Remove(r) \/ Record(r)
               \/ DeleteStep(r) \/ DeleteDropped(r)
        PROVE  Dropped(s)
    <3>1. Withdrawn(r)
      BY <2>0, <2>2, QuietOn
    <3>2. reqs[r].id = s /\ reqs[r].pc \in {"remove", "unbind"}
      BY <2>0, <3>1 DEF Withdrawn, Typed, Shapes
    <3>. QED
      BY <3>2
  <2>3. ASSUME NEW t \in Ids, RemoveIfExpired(t) PROVE Dropped(s)
    BY <2>0, <2>3 DEF RemoveIfExpired, StillExpired, TakenOut, Typed, Shapes
  <2>4. ASSUME NEW t, End(t) PROVE s = t
    BY <2>0, <2>4 DEF End, TakenOut, Typed, Shapes
  <2>5. ASSUME NEW r \in Reqs, Validate(r) \/ DropExpired(r) \/ DropEnded(r) PROVE Dropped(s)
    <3>1. reqs[r].id \in Ids
      BY <2>0, <2>5 DEF Validate, DropExpired, DropEnded, Typed, ReqInv
    <3>2. CASE Validate(r)
      BY <2>0, <3>1, <3>2, UsedOn DEF Validate, Typed
    <3>3. CASE DropExpired(r)
      BY <2>3, <3>1, <3>3 DEF DropExpired
    <3>4. CASE DropEnded(r)
      <4>1. reqs[r].id = s /\ reqs[r].pc = "end"
        BY <2>4, <3>4 DEF DropEnded
      <4>2. reqs'[r].pc # "end"
        BY <2>0, <3>4 DEF DropEnded, Ends, Free, Typed, Shapes
      <4>3. reqs[r].lease # Unbound /\ Over(s, reqs[r].lease)
        BY <2>0, <4>1 DEF EndInv
      <4>4. CASE reqs[r].lease = store[s].lease
        BY <4>3, <4>4 DEF Ended
      <4>5. CASE reqs[r].lease # store[s].lease
        BY <4>1, <4>2, <4>5 DEF EndsAnother
      <4>. QED
        BY <4>4, <4>5
    <3>. QED
      BY <2>5, <3>2, <3>3, <3>4
  <2>6. ASSUME NEW e \in ending, EndSession(e) PROVE Dropped(s)
    <3>1. e[1] = s /\ e \notin ending'
      BY <2>4, <2>6 DEF EndSession
    <3>2. CASE e[2] = Unbound \/ e[2] # store[s].lease
      BY <3>1, <3>2 DEF EndsAnother
    <3>3. CASE e[2] # Unbound /\ e[2] = store[s].lease
      BY <2>0, <3>1, <3>3 DEF EndInv, Ended
    <3>. QED
      BY <3>2, <3>3
  <2>7. ASSUME NEW t \in Ids, Age(t) \/ Heartbeat(t) \/ StreamCloses(t) \/ SignInStep(t)
        PROVE  FALSE
    BY <2>0, <2>7, TimeOn
  <2>8. ASSUME NEW t \in Ids, CleanupRemoves(t) PROVE Dropped(s)
    BY <2>3, <2>8 DEF CleanupRemoves
  <2>9. ~(CleanupCollects \/ ListenerTake \/ ListenerStep)
    BY DEF CleanupCollects, ListenerTake, ListenerStep
  <2>10. ASSUME NEW r \in Reqs, NEW t \in Ids, NEW kind \in Kinds, Ask(r, t, kind) PROVE FALSE
    BY <2>10 DEF Ask
  <2>. QED
    BY <2>1, <2>2, <2>5, <2>6, <2>7, <2>8, <2>9, <2>10 DEF Next, RequestStep, SignInStep
<1>. QED
  BY SessionInvariant, <1>1, PTL DEF Spec, KeptWhileUsed

-----------------------------------------------------------------------------
(* The registry of the IPC clients, a specification of its own: the two    *)
(* models share no variable.                                               *)

ConnPcs == {"new", "mapping", "replacing", "adding", "counting", "wiring", "rooting",
        "dropped", "live", "removing", "checking", "unmapping", "uncounting", "cleaning", "over"}

\* TypeOK but for the bounds of the count.
RegistryShapes ==
    /\ conn \in [Conns -> [pc : ConnPcs, client : Clients, old : Conns \cup {NoConn}]]
    /\ sessions \subseteq Conns /\ bridges \subseteq Conns
    /\ mapped \in [Clients -> Conns \cup {NoConn}]
    /\ http \in {0, 1}
    /\ \A k \in bridges : conn[k].pc \in {"live", "removing", "checking", "unmapping",
                                         "uncounting", "cleaning"}

Clock ==
    /\ count \in [n : 0..Cardinality(Conns), version : Nat]
    /\ grace \in [pc : {"outer", "look", "grace", "expired", "recheck", "over"},
                  seen : Nat, http : {0, 1}]
    /\ grace.seen <= count.version

-----------------------------------------------------------------------------
(* The invariant. *)

\* Connections that have sent the count of their registration, and of their end.
Counting == {k \in Conns : conn[k].pc \in {"wiring", "rooting", "dropped", "live", "removing",
                                           "checking", "unmapping", "uncounting", "cleaning",
                                           "over"}}
Departed == {k \in Conns : conn[k].pc \in {"cleaning", "over"}}

\* A connection sends the count twice at most.
VersionInv == count.version <= Cardinality(Counting) + Cardinality(Departed)

\* The count is right, or a connection is about to send it.
SentInv == ~Unsent => count.n = Cardinality(sessions)

\* A mapping leads to a connection of that client whose deregister is still to come, or
\* whose registration was dropped,
\* and from its registration to its removal it is in sessions.
MapInv ==
    \A c \in Clients : mapped[c] # NoConn =>
        LET k == mapped[c]
        IN  /\ Client(k) = c
            /\ conn[k].pc \in {"replacing", "adding", "counting", "wiring", "rooting",
                               "dropped", "live", "removing", "checking", "unmapping"}
            /\ conn[k].pc \in {"counting", "wiring", "rooting", "dropped", "live", "removing"} =>
                   k \in sessions

\* What a registration is about to drop from sessions is mapped no more.
ReplacedInv ==
    \A j \in Conns : conn[j].pc = "replacing" =>
        /\ conn[j].old \in Conns
        /\ conn[conn[j].old].pc \notin {"new", "mapping"}
        /\ \A c \in Clients : mapped[c] # conn[j].old

RegistryInv ==
    RegistryShapes /\ stopped \in BOOLEAN /\ Clock /\ VersionInv /\ SentInv /\ MapInv /\ ReplacedInv

-----------------------------------------------------------------------------
(* Types. *)

LEMMA ConnsCount ==
    /\ Cardinality(Conns) \in Nat
    /\ \A S \in SUBSET Conns : /\ IsFiniteSet(S) /\ Cardinality(S) \in Nat
                               /\ Cardinality(S) <= Cardinality(Conns)
BY ClientsAssumption, FS_CardinalityType, FS_Subset

LEMMA RegistryShapesStep == RegistryShapes /\ [RegistryNext]_registryVars => RegistryShapes'
<1>. SUFFICES ASSUME RegistryShapes, [RegistryNext]_registryVars PROVE RegistryShapes'
  OBVIOUS
<1>. USE DEF RegistryShapes, ConnPcs, At, Go, Client
<1>1. ASSUME NEW k \in Conns, NEW c \in Clients, OpenConn(k, c) PROVE RegistryShapes'
  BY <1>1 DEF OpenConn
<1>2. ASSUME NEW k \in Conns, Register(k) PROVE RegistryShapes'
  <2>1. CASE RegisterMaps(k)
    BY <2>1 DEF RegisterMaps
  <2>2. CASE RegisterDropsOld(k)
    BY <2>2 DEF RegisterDropsOld
  <2>3. CASE RegisterAdds(k)
    BY <2>3 DEF RegisterAdds
  <2>4. CASE RegisterCounts(k)
    BY <2>4 DEF RegisterCounts
  <2>5. CASE RegisterWires(k)
    BY <2>5 DEF RegisterWires
  <2>6. CASE RegisterCleansOld(k)
    BY <2>6 DEF RegisterCleansOld
  <2>. QED
    BY <1>2, <2>1, <2>2, <2>3, <2>4, <2>5, <2>6 DEF Register
<1>7. ASSUME NEW k \in Conns, RegisterDropped(k) PROVE RegistryShapes'
  BY <1>7 DEF RegisterDropped
<1>3. ASSUME NEW k \in Conns, Close(k) PROVE RegistryShapes'
  BY <1>3 DEF Close
<1>4. ASSUME NEW k \in Conns, Deregister(k) PROVE RegistryShapes'
  <2>1. CASE DeregisterRemoves(k)
    BY <2>1 DEF DeregisterRemoves
  <2>2. CASE DeregisterChecks(k)
    BY <2>2 DEF DeregisterChecks
  <2>3. CASE DeregisterUnmaps(k)
    BY <2>3 DEF DeregisterUnmaps, Unmapped
  <2>4. CASE DeregisterCounts(k)
    BY <2>4 DEF DeregisterCounts
  <2>5. CASE CleanUp(k)
    BY <2>5 DEF CleanUp, Unwired
  <2>. QED
    BY <1>4, <2>1, <2>2, <2>3, <2>4, <2>5 DEF Deregister
<1>5. CASE GraceTask
  BY <1>5 DEF GraceTask, GraceWakes, GraceLooks, GraceIsChanged, GraceExpires, GraceDecides,
       GraceRechecks, RecheckIsChanged, GraceCancelled
<1>6. CASE HttpOpens \/ HttpEnds \/ Shutdown \/ UNCHANGED registryVars
  BY <1>6 DEF HttpOpens, HttpEnds, Shutdown, registryVars
<1>. QED
  BY <1>1, <1>2, <1>3, <1>4, <1>5, <1>6, <1>7 DEF RegistryNext

\* The steps of the connections leave the grace task and the daemon's end alone, and
\* the other way round.
ConnStep(k) == (\E c \in Clients : OpenConn(k, c)) \/ Register(k) \/ RegisterDropped(k) \/ Close(k)
               \/ Deregister(k)
Others == GraceTask \/ HttpOpens \/ HttpEnds \/ Shutdown \/ UNCHANGED registryVars

LEMMA NextSplits == [RegistryNext]_registryVars => Others \/ \E k \in Conns : ConnStep(k)
BY Zenon DEF RegistryNext, Others, ConnStep

LEMMA ConnFrame == \A k \in Conns : ConnStep(k) => UNCHANGED <<grace, http, stopped>>
BY DEF ConnStep, OpenConn, Close, Register, RegisterMaps, RegisterDropsOld, RegisterAdds,
       RegisterCounts, RegisterCleansOld, RegisterWires, RegisterDropped, Deregister, DeregisterRemoves, DeregisterChecks,
       DeregisterUnmaps, DeregisterCounts, CleanUp

LEMMA OthersFrame == Others => UNCHANGED <<conn, sessions, mapped, bridges, count>>
BY DEF Others, GraceTask, GraceWakes, GraceLooks, GraceIsChanged, GraceExpires, GraceDecides,
       GraceRechecks, RecheckIsChanged, GraceCancelled, HttpOpens, HttpEnds, Shutdown, registryVars

LEMMA StoppedStep == stopped \in BOOLEAN /\ [RegistryNext]_registryVars => stopped' \in BOOLEAN
<1>. SUFFICES ASSUME stopped \in BOOLEAN, [RegistryNext]_registryVars PROVE stopped' \in BOOLEAN
  OBVIOUS
<1>1. CASE UNCHANGED stopped
  BY <1>1
<1>2. CASE Others
  BY <1>2, Zenon DEF Others, GraceTask, GraceWakes, GraceLooks, GraceIsChanged, GraceExpires,
       GraceDecides, GraceRechecks, RecheckIsChanged, GraceCancelled, HttpOpens, HttpEnds,
       Shutdown, registryVars
<1>. QED
  BY <1>1, <1>2, NextSplits, ConnFrame

\* The count is sent by two steps only.
LEMMA Sends ==
  ASSUME [RegistryNext]_registryVars
  PROVE  UNCHANGED count \/ (Publish /\ UNCHANGED <<sessions, grace>>)
BY DEF RegistryNext, OpenConn, Close, Register, RegisterMaps, RegisterDropsOld, RegisterAdds,
       RegisterCounts, RegisterCleansOld, RegisterWires, RegisterDropped, Deregister, DeregisterRemoves, DeregisterChecks,
       DeregisterUnmaps, DeregisterCounts, CleanUp, GraceTask, GraceWakes, GraceLooks,
       GraceIsChanged, GraceExpires, GraceDecides, GraceRechecks, RecheckIsChanged,
       GraceCancelled, HttpOpens, HttpEnds, Shutdown, registryVars

LEMMA ClockStep == RegistryShapes /\ Clock /\ [RegistryNext]_registryVars => Clock'
<1>. SUFFICES ASSUME RegistryShapes, Clock, [RegistryNext]_registryVars PROVE Clock'
  OBVIOUS
<1>. USE DEF Clock
<1>1. CASE UNCHANGED <<grace, count>>
  BY <1>1
<1>2. CASE Publish /\ UNCHANGED grace
  <2>1. Cardinality(sessions) \in 0..Cardinality(Conns)
    BY ConnsCount DEF RegistryShapes
  <2>. QED
    BY <1>2, <2>1 DEF Publish, Counted
<1>3. CASE Others
  <2>1. count' = count
    BY <1>3, OthersFrame
  <2>2. CASE grace' = grace
    BY <2>1, <2>2
  <2>3. CASE \E pc \in {"outer", "look", "recheck"} : Seen(pc)
    BY <2>1, <2>3 DEF Seen
  <2>4. CASE \E pc \in {"grace", "outer", "over", "recheck"} : Turns(pc)
    BY <2>1, <2>4 DEF Turns
  <2>5. CASE GraceExpires
    BY <2>1, <2>5 DEF GraceExpires, RegistryShapes
  <2>. QED
    BY <1>3, <2>2, <2>3, <2>4, <2>5
       DEF Others, GraceTask, GraceWakes, GraceLooks, GraceIsChanged, GraceDecides,
           GraceRechecks, RecheckIsChanged, GraceCancelled, HttpOpens, HttpEnds, Shutdown, registryVars
<1>. QED
  BY <1>1, <1>2, <1>3, Sends, NextSplits, ConnFrame

-----------------------------------------------------------------------------
(* The count. *)

LEMMA VersionStep == RegistryShapes /\ Clock /\ VersionInv /\ [RegistryNext]_registryVars => VersionInv'
<1>. SUFFICES ASSUME RegistryShapes, Clock, VersionInv, [RegistryNext]_registryVars PROVE VersionInv'
  OBVIOUS
<1>. USE DEF At, Go
<1>0. /\ Counting \in SUBSET Conns /\ Departed \in SUBSET Conns
      /\ Counting' \in SUBSET Conns /\ Departed' \in SUBSET Conns
  BY DEF Counting, Departed
<1>a. /\ Cardinality(Counting) \in Nat /\ Cardinality(Departed) \in Nat
      /\ Cardinality(Counting') \in Nat /\ Cardinality(Departed') \in Nat
      /\ IsFiniteSet(Counting') /\ IsFiniteSet(Departed')
      /\ IsFiniteSet(Counting) /\ IsFiniteSet(Departed) /\ count.version \in Nat
  BY <1>0, ConnsCount DEF Clock
<1>1. Counting \subseteq Counting' /\ Departed \subseteq Departed'
  <2>1. CASE UNCHANGED conn
    BY <2>1 DEF Counting, Departed
  <2>2. ASSUME NEW k \in Conns, ConnStep(k)
        PROVE  \/ conn[k].pc \notin {"wiring", "rooting", "dropped", "live", "removing", "checking", "unmapping",
                                     "uncounting", "cleaning", "over"}
               \/ /\ conn'[k].pc \in {"rooting", "dropped", "live", "removing", "checking",
                                      "unmapping", "uncounting", "cleaning", "over"}
                  /\ conn[k].pc \in {"cleaning", "over"} => conn'[k].pc \in {"cleaning", "over"}
    BY <2>2 DEF ConnStep, OpenConn, Close, Register, RegisterMaps, RegisterDropsOld, RegisterAdds,
         RegisterCounts, RegisterCleansOld, RegisterWires, RegisterDropped, Deregister, DeregisterRemoves, DeregisterChecks,
         DeregisterUnmaps, DeregisterCounts, CleanUp, RegistryShapes
  <2>3. ASSUME NEW k \in Conns, ConnStep(k) PROVE \A j \in Conns \ {k} : conn'[j] = conn[j]
    BY <2>3 DEF ConnStep, OpenConn, Close, Register, RegisterMaps, RegisterDropsOld, RegisterAdds,
         RegisterCounts, RegisterCleansOld, RegisterWires, RegisterDropped, Deregister, DeregisterRemoves, DeregisterChecks,
         DeregisterUnmaps, DeregisterCounts, CleanUp, RegistryShapes
  <2>4. ASSUME NEW k \in Conns, ConnStep(k) PROVE Counting \subseteq Counting' /\ Departed \subseteq Departed'
    BY <2>2, <2>3, <2>4 DEF Counting, Departed
  <2>. QED
    BY <2>1, <2>4, NextSplits, OthersFrame
<1>2. /\ Cardinality(Counting) <= Cardinality(Counting')
      /\ Cardinality(Departed) <= Cardinality(Departed')
  BY <1>a, <1>1, FS_Subset
<1>3. CASE UNCHANGED count
  BY <1>a, <1>2, <1>3 DEF VersionInv
<1>4. ASSUME NEW k \in Conns, RegisterCounts(k) PROVE VersionInv'
  <2>1. k \notin Counting /\ Counting' = Counting \cup {k}
    BY <1>4 DEF RegisterCounts, Counting, RegistryShapes
  <2>2. Cardinality(Counting') = Cardinality(Counting) + 1
    BY <1>a, <2>1, FS_AddElement
  <2>3. count'.version = count.version + 1
    BY <1>4 DEF RegisterCounts, Publish
  <2>. QED
    BY <1>a, <1>2, <2>2, <2>3 DEF VersionInv
<1>5. ASSUME NEW k \in Conns, DeregisterCounts(k) PROVE VersionInv'
  <2>1. k \notin Departed /\ Departed' = Departed \cup {k}
    BY <1>5 DEF DeregisterCounts, Departed, RegistryShapes
  <2>2. Cardinality(Departed') = Cardinality(Departed) + 1
    BY <1>a, <2>1, FS_AddElement
  <2>3. count'.version = count.version + 1
    BY <1>5 DEF DeregisterCounts, Publish
  <2>. QED
    BY <1>a, <1>2, <2>2, <2>3 DEF VersionInv
<1>6. ASSUME NEW k \in Conns, ConnStep(k)
      PROVE  UNCHANGED count \/ RegisterCounts(k) \/ DeregisterCounts(k)
  BY <1>6 DEF ConnStep, OpenConn, Close, Register, RegisterMaps, RegisterDropsOld, RegisterAdds,
       RegisterCleansOld, RegisterWires, RegisterDropped, Deregister, DeregisterRemoves, DeregisterChecks, DeregisterUnmaps, CleanUp
<1>. QED
  BY <1>3, <1>4, <1>5, <1>6, NextSplits, OthersFrame

LEMMA SentStep == RegistryShapes /\ SentInv /\ [RegistryNext]_registryVars => SentInv'
<1>. SUFFICES ASSUME RegistryShapes, SentInv, [RegistryNext]_registryVars, ~Unsent'
              PROVE  count'.n = Cardinality(sessions')
  BY DEF SentInv
<1>. USE DEF At, Go
<1>1. CASE Others
  <2>1. UNCHANGED <<conn, sessions, count>>
    BY <1>1, OthersFrame
  <2>. QED
    BY <2>1 DEF SentInv, Unsent
<1>2. ASSUME NEW k \in Conns, RegisterCounts(k) \/ DeregisterCounts(k)
      PROVE  count'.n = Cardinality(sessions')
  BY <1>2 DEF RegisterCounts, DeregisterCounts, Publish, Counted
<1>3. ASSUME NEW k \in Conns,
             RegisterDropsOld(k) \/ RegisterAdds(k) \/ DeregisterChecks(k) \/ DeregisterUnmaps(k)
      PROVE  FALSE
  <2>1. conn'[k].pc \in {"adding", "counting", "unmapping", "uncounting"}
    BY <1>3 DEF RegisterDropsOld, RegisterAdds, DeregisterChecks, DeregisterUnmaps, RegistryShapes
  <2>. QED
    BY <2>1 DEF Unsent
<1>4. ASSUME NEW k \in Conns, DeregisterRemoves(k) PROVE k \notin sessions /\ sessions' = sessions
  <2>1. k \in sessions => conn'[k].pc = "checking"
    BY <1>4 DEF DeregisterRemoves, RegistryShapes
  <2>2. k \notin sessions
    BY <2>1 DEF Unsent
  <2>. QED
    BY <1>4, <2>2 DEF DeregisterRemoves
<1>5. ASSUME NEW k \in Conns,
             \/ \E c \in Clients : OpenConn(k, c)
             \/ RegisterMaps(k) \/ RegisterCleansOld(k) \/ RegisterWires(k) \/ RegisterDropped(k)
             \/ Close(k) \/ CleanUp(k) \/ DeregisterRemoves(k)
      PROVE  count'.n = Cardinality(sessions')
  <2>1. UNCHANGED <<sessions, count>>
    BY <1>4, <1>5 DEF OpenConn, RegisterMaps, RegisterCleansOld, RegisterWires, RegisterDropped,
         Close, CleanUp, DeregisterRemoves
  <2>2. conn[k].pc \notin {"adding", "counting", "checking", "unmapping", "uncounting"}
    BY <1>5 DEF OpenConn, RegisterMaps, RegisterCleansOld, RegisterWires, RegisterDropped,
         Close, CleanUp, DeregisterRemoves
  <2>3. \A j \in Conns \ {k} : conn'[j] = conn[j]
    BY <1>5 DEF OpenConn, RegisterMaps, RegisterCleansOld, RegisterWires, RegisterDropped,
         Close, CleanUp, DeregisterRemoves, RegistryShapes
  <2>4. ~Unsent
    BY <2>2, <2>3 DEF Unsent
  <2>. QED
    BY <2>1, <2>4 DEF SentInv
<1>. QED
  BY <1>1, <1>2, <1>3, <1>5, NextSplits DEF ConnStep, Register, Deregister

-----------------------------------------------------------------------------
(* The two maps. *)

LEMMA MapStep == RegistryShapes /\ MapInv /\ ReplacedInv /\ [RegistryNext]_registryVars => MapInv' /\ ReplacedInv'
<1>. SUFFICES ASSUME RegistryShapes, MapInv, ReplacedInv, [RegistryNext]_registryVars PROVE MapInv' /\ ReplacedInv'
  OBVIOUS
<1>. USE ClientsAssumption DEF At, Go, Client
<1>1. CASE Others
  <2>1. UNCHANGED <<conn, sessions, mapped>>
    BY <1>1, OthersFrame
  <2>. QED
    BY <2>1 DEF MapInv, ReplacedInv
<1>2. ASSUME NEW k \in Conns, NEW c \in Clients, OpenConn(k, c) PROVE MapInv' /\ ReplacedInv'
  BY <1>2 DEF OpenConn, MapInv, ReplacedInv, RegistryShapes
<1>3. ASSUME NEW k \in Conns, RegisterMaps(k) PROVE MapInv' /\ ReplacedInv'
  <2>1. MapInv'
    BY <1>3 DEF RegisterMaps, MapInv, RegistryShapes
  <2>2. ReplacedInv'
    <3>. SUFFICES ASSUME NEW j \in Conns, conn'[j].pc = "replacing"
                  PROVE  /\ conn'[j].old \in Conns
                         /\ conn'[conn'[j].old].pc \notin {"new", "mapping"}
                         /\ \A c \in Clients : mapped'[c] # conn'[j].old
      BY DEF ReplacedInv
    <3>1. CASE j = k
      BY <1>3, <3>1 DEF RegisterMaps, MapInv, RegistryShapes
    <3>2. CASE j # k
      <4>1. conn'[j] = conn[j] /\ conn[j].old # k
        BY <1>3, <3>2 DEF RegisterMaps, ReplacedInv, RegistryShapes
      <4>2. conn'[conn[j].old] = conn[conn[j].old]
        BY <1>3, <4>1 DEF RegisterMaps, RegistryShapes
      <4>. QED
        BY <1>3, <4>1, <4>2 DEF RegisterMaps, ReplacedInv, RegistryShapes
    <3>. QED
      BY <3>1, <3>2
  <2>. QED
    BY <2>1, <2>2
<1>4. ASSUME NEW k \in Conns, RegisterDropsOld(k) PROVE MapInv' /\ ReplacedInv'
  <2>1. MapInv'
    BY <1>4 DEF RegisterDropsOld, MapInv, ReplacedInv, RegistryShapes
  <2>2. ReplacedInv'
    BY <1>4 DEF RegisterDropsOld, ReplacedInv, RegistryShapes
  <2>. QED
    BY <2>1, <2>2
<1>5. ASSUME NEW k \in Conns, RegisterAdds(k) PROVE MapInv' /\ ReplacedInv'
  BY <1>5 DEF RegisterAdds, MapInv, ReplacedInv, RegistryShapes
<1>6. ASSUME NEW k \in Conns, RegisterCounts(k) PROVE MapInv' /\ ReplacedInv'
  BY <1>6 DEF RegisterCounts, MapInv, ReplacedInv, RegistryShapes
<1>7. ASSUME NEW k \in Conns, RegisterWires(k) PROVE MapInv' /\ ReplacedInv'
  BY <1>7 DEF RegisterWires, MapInv, ReplacedInv, RegistryShapes
<1>14. ASSUME NEW k \in Conns, RegisterCleansOld(k) \/ RegisterDropped(k)
       PROVE  MapInv' /\ ReplacedInv'
  BY <1>14 DEF RegisterCleansOld, RegisterDropped, MapInv, ReplacedInv, RegistryShapes
<1>8. ASSUME NEW k \in Conns, Close(k) PROVE MapInv' /\ ReplacedInv'
  BY <1>8 DEF Close, MapInv, ReplacedInv, RegistryShapes
<1>9. ASSUME NEW k \in Conns, DeregisterRemoves(k) PROVE MapInv' /\ ReplacedInv'
  BY <1>9 DEF DeregisterRemoves, MapInv, ReplacedInv, RegistryShapes
<1>10. ASSUME NEW k \in Conns, DeregisterChecks(k) PROVE MapInv' /\ ReplacedInv'
  BY <1>10 DEF DeregisterChecks, MapInv, ReplacedInv, RegistryShapes
<1>11. ASSUME NEW k \in Conns, DeregisterUnmaps(k) PROVE MapInv' /\ ReplacedInv'
  BY <1>11 DEF DeregisterUnmaps, Unmapped, MapInv, ReplacedInv, RegistryShapes
<1>12. ASSUME NEW k \in Conns, DeregisterCounts(k) PROVE MapInv' /\ ReplacedInv'
  BY <1>12 DEF DeregisterCounts, MapInv, ReplacedInv, RegistryShapes
<1>13. ASSUME NEW k \in Conns, CleanUp(k) PROVE MapInv' /\ ReplacedInv'
  BY <1>13 DEF CleanUp, MapInv, ReplacedInv, RegistryShapes
<1>. QED
  BY <1>1, <1>2, <1>3, <1>4, <1>5, <1>6, <1>7, <1>8, <1>9, <1>10, <1>11, <1>12, <1>13,
     <1>14, NextSplits DEF ConnStep, Register, Deregister

-----------------------------------------------------------------------------
(* Theorems. *)

LEMMA RegistryStarts == RegistryInit => RegistryInv
<1>. SUFFICES ASSUME RegistryInit PROVE RegistryInv
  OBVIOUS
<1>1. (CHOOSE c \in Clients : TRUE) \in Clients
  BY ClientsAssumption
<1>2. RegistryShapes
  BY <1>1 DEF RegistryInit, RegistryShapes, ConnPcs
<1>3. stopped \in BOOLEAN
  BY Zenon DEF RegistryInit
<1>4. Clock
  BY ConnsCount DEF RegistryInit, Clock
<1>5. VersionInv
  <2>1. Counting \in SUBSET Conns /\ Departed \in SUBSET Conns
    BY DEF Counting, Departed
  <2>. QED
    BY <2>1, ConnsCount DEF RegistryInit, VersionInv
<1>6. SentInv
  BY FS_EmptySet DEF RegistryInit, SentInv
<1>7. MapInv /\ ReplacedInv
  BY DEF RegistryInit, MapInv, ReplacedInv
<1>. QED
  BY <1>2, <1>3, <1>4, <1>5, <1>6, <1>7 DEF RegistryInv

\* The invariant the theorem rests on: which sessions a client's mapping and a pending
\* replacement may name, and how many counts have been sent.
THEOREM RegistryInvariant == RegistrySpec => []RegistryInv
<1>1. RegistryInv /\ [RegistryNext]_registryVars => RegistryInv'
  BY RegistryShapesStep, StoppedStep, ClockStep, VersionStep, SentStep, MapStep DEF RegistryInv
<1>. QED
  BY <1>1, RegistryStarts, PTL DEF RegistrySpec

\* ClientRegistry's maps without a lock over both, and its watch channel: for any
\* number of connections and clients the last count sent is the number of sessions, and
\* a client's mapping leads to a connection that will still deregister.
THEOREM RegistryCurrent == RegistrySpec => []RegistryIsCurrent
<1>1. RegistryInv => RegistryIsCurrent
  <2>. SUFFICES ASSUME RegistryInv PROVE RegistryIsCurrent
    OBVIOUS
  <2>1. count.version <= 2 * Cardinality(Conns)
    <3>1. Counting \in SUBSET Conns /\ Departed \in SUBSET Conns
      BY DEF Counting, Departed
    <3>2. /\ Cardinality(Counting) \in Nat /\ Cardinality(Counting) <= Cardinality(Conns)
          /\ Cardinality(Departed) \in Nat /\ Cardinality(Departed) <= Cardinality(Conns)
          /\ Cardinality(Conns) \in Nat
      BY <3>1, ConnsCount
    <3>. QED
      BY <3>2 DEF RegistryInv, VersionInv, Clock
  <2>2. /\ count \in [n : 0..Cardinality(Conns), version : 0..2 * Cardinality(Conns)]
        /\ grace \in [pc : {"outer", "look", "grace", "expired", "recheck", "over"},
                      seen : 0..count.version, http : {0, 1}]
    BY <2>1 DEF RegistryInv, Clock
  <2>3. RegistryTypeOK
    BY <2>2 DEF RegistryInv, RegistryShapes, ConnPcs, RegistryTypeOK
  <2>4. ~Unsent => count.n = Cardinality(sessions)
    BY DEF RegistryInv, SentInv
  <2>5. \A c \in Clients : mapped[c] # NoConn =>
          conn[mapped[c]].pc \in {"replacing", "adding", "counting", "wiring", "rooting",
                                  "dropped", "live", "removing", "checking", "unmapping"}
    BY DEF RegistryInv, MapInv
  <2>. QED
    BY <2>3, <2>4, <2>5 DEF RegistryIsCurrent
<1>. QED
  BY <1>1, RegistryInvariant, PTL

=============================================================================
