---------------------------- MODULE RoutingProofs ----------------------------
(***************************************************************************)
(* Proofs about the two models of what keeps routing in step with the      *)
(* upstreams: ListChanged, for any kinds of list, handlers and refresh     *)
(* tasks and any number of changes, timeouts and abnormal exits, and       *)
(* Subscriptions, for any clients and servers and any number of            *)
(* generations, passes and connections.                                    *)
(***************************************************************************)
EXTENDS ListChanged, Subscriptions, TLAPS

\* TypeOK in three parts: the Boolean variables, the actors, and the catalogs with
\* the refresh calls.
Flags ==
    /\ pendingKind \in [Kinds -> BOOLEAN]
    /\ pending \in BOOLEAN /\ inProgress \in BOOLEAN /\ stolen \in BOOLEAN

Actors ==
    /\ handler \in [Handlers -> [at : {"idle", "relist", "kind", "pending", "claim"}, kind : Kinds]]
    /\ task \in [Tasks -> [at : TaskPcs, todo : Seq(Kinds)]]
    /\ timeouts \in 0..MaxTimeouts /\ aborts \in 0..MaxAborts

Catalogs ==
    /\ upstream \in 0..MaxVersion
    /\ published \in [Kinds -> 0..upstream]
    /\ call \in [Tasks -> {"idle", "asked", "done"}]
    /\ asked \in [Tasks -> 0..upstream]
    /\ changedAt \in [Kinds -> 0..upstream] /\ cut \in [Kinds -> 0..(upstream + 1)]
    /\ \A t \in Tasks : call[t] = "asked" <=> task[t].at = "refresh"

LEMMA TypeParts == TypeOK <=> Flags /\ Actors /\ Catalogs
  BY Zenon DEF TypeOK, Flags, Actors, Catalogs

-----------------------------------------------------------------------------
(* The invariant. *)

WorkerInv ==
    /\ inProgress <=> Holders # {}
    /\ \A t, u \in Holders : t = u

\* Task t will still swap the flag of kind k on its present way round the loop.
Looks(t, k) ==
    \/ task[t].at \in {"clear", "debounce", "refresh"}
    \/ task[t].at = "swap" /\ \E i \in 1..Len(task[t].todo) : task[t].todo[i] = k

\* Someone who will notice the pending flag: a handler about to claim, the worker,
\* or a task that has let go and has not looked again.
Attentive ==
    \/ \E h \in Handlers : handler[h].at = "claim"
    \/ Holders # {}
    \/ \E t \in Tasks : task[t].at = "recheck"

\* The kind's flag will be swapped: a handler is yet to set the pending flag; it is
\* set and will be noticed; a task is yet to come to the kind; or a task that has
\* taken the pending flag is about to claim, and nobody works to whom it could lose.
Cared(k) ==
    \/ \E h \in Handlers : handler[h].at = "pending"
    \/ pending /\ Attentive
    \/ \E t \in Tasks : Looks(t, k)
    \/ Holders = {} /\ \E t \in Tasks : task[t].at = "reclaim"

OwnedInv == aborts = 0 /\ ~stolen => \A k \in Kinds : pendingKind[k] => Cared(k)

SchedulerInv == Flags /\ Actors /\ Catalogs /\ WorkerInv /\ OwnedInv

-----------------------------------------------------------------------------
(* Types. *)

LEMMA AtTypes == \A p \in TaskPcs : At(p) \in [at : TaskPcs, todo : Seq(Kinds)]
<1>1. << >> \in Seq(Kinds)
  OBVIOUS
<1>. QED
  BY <1>1 DEF At

LEMMA OffType == Off \in [at : TaskPcs, todo : Seq(Kinds)]
<1>1. << >> \in Seq(Kinds)
  OBVIOUS
<1>. QED
  BY <1>1 DEF Off, TaskPcs

LEMMA IdleType == Idle \in [at : {"idle", "relist", "kind", "pending", "claim"}, kind : Kinds]
<1>1. (CHOOSE k \in Kinds : TRUE) \in Kinds
  BY KindsAssumption
<1>. QED
  BY <1>1 DEF Idle

LEMMA FlagsStep == Flags /\ [Next]_vars => Flags'
<1>. SUFFICES ASSUME Flags, [Next]_vars PROVE Flags'
  OBVIOUS
<1>. USE DEF Flags, flags, bounds, history
<1>1. ASSUME NEW h \in Handlers, HandlerStep(h) PROVE Flags'
  BY <1>1, Zenon DEF HandlerStep, StoreList, ListingFails, SetKind, SetPending, ClaimLost, ClaimWon
<1>2. ASSUME NEW h \in Handlers, NEW k \in Kinds, Announce(h, k) \/ AskForList(h, k) PROVE Flags'
  BY <1>2 DEF Announce, AskForList
<1>3. ASSUME NEW t \in Tasks, TaskStep(t) PROVE Flags'
  BY <1>3, Zenon DEF TaskStep, ClearPending, StartRefresh, RefreshReturns, FanOut, LoopAgain,
       LoopEnds, Release, RecheckNothing, RecheckPending, ReclaimWon, ReclaimLost
<1>4. ASSUME NEW t \in Tasks, RefreshTimesOut(t) \/ Abort(t) \/ PublishFor(t) PROVE Flags'
  BY <1>4, Zenon DEF RefreshTimesOut, Abort, PublishFor
<1>5. CASE PublishOther \/ UNCHANGED vars
  BY <1>5 DEF PublishOther, vars
<1>. QED
  BY <1>1, <1>2, <1>3, <1>4, <1>5 DEF Next

LEMMA ActorsStep == Actors /\ [Next]_vars => Actors'
<1>. SUFFICES ASSUME Actors, [Next]_vars PROVE Actors'
  OBVIOUS
<1>. USE DEF Actors, bounds
<1>0. {"clear", "debounce", "refresh", "release", "recheck", "reclaim", "swap"} \subseteq TaskPcs
  BY DEF TaskPcs, Holding
<1>1. ASSUME NEW h \in Handlers, HandlerStep(h) PROVE Actors'
  <2>0. CASE StoreList(h)
    BY <2>0 DEF StoreList
  <2>0a. CASE ListingFails(h)
    BY <2>0a, IdleType DEF ListingFails
  <2>1. CASE SetKind(h)
    BY <2>1 DEF SetKind
  <2>2. CASE SetPending(h)
    BY <2>2 DEF SetPending
  <2>3. CASE ClaimLost(h)
    BY <2>3, IdleType DEF ClaimLost
  <2>4. ASSUME NEW t \in Tasks, ClaimWon(h, t) PROVE Actors'
    BY <1>0, <2>4, IdleType, AtTypes DEF ClaimWon
  <2>. QED
    BY <1>1, <2>0, <2>0a, <2>1, <2>2, <2>3, <2>4 DEF HandlerStep
<1>2. ASSUME NEW h \in Handlers, NEW k \in Kinds, Announce(h, k) \/ AskForList(h, k) PROVE Actors'
  BY <1>2 DEF Announce, AskForList
<1>3. ASSUME NEW t \in Tasks, ClearPending(t) \/ StartRefresh(t) \/ LoopAgain(t) \/ LoopEnds(t)
             \/ Release(t) \/ RecheckNothing(t) \/ RecheckPending(t) \/ ReclaimWon(t)
             \/ ReclaimLost(t) \/ Abort(t)
      PROVE  Actors'
  <2>1. UNCHANGED <<handler, timeouts>>
    BY <1>3
       DEF ClearPending, StartRefresh, LoopAgain, LoopEnds, Release, RecheckNothing,
           RecheckPending, ReclaimWon, ReclaimLost, Abort
  <2>1a. aborts' = aborts \/ (aborts < MaxAborts /\ aborts' = aborts + 1)
    BY <1>3, Zenon
       DEF ClearPending, StartRefresh, LoopAgain, LoopEnds, Release, RecheckNothing,
           RecheckPending, ReclaimWon, ReclaimLost, Abort
  <2>1b. aborts' \in 0..MaxAborts
    BY <2>1a, KindsAssumption
  <2>2. PICK v \in {At("clear"), At("debounce"), At("refresh"), At("release"), At("recheck"),
                    At("reclaim"), Off} : task' = [task EXCEPT ![t] = v]
    BY <1>3, Zenon
       DEF ClearPending, StartRefresh, LoopAgain, LoopEnds, Release, RecheckNothing,
           RecheckPending, ReclaimWon, ReclaimLost, Abort
  <2>3. v \in [at : TaskPcs, todo : Seq(Kinds)]
    BY <1>0, AtTypes, OffType
  <2>. QED
    BY <2>1, <2>1b, <2>2, <2>3
<1>4. ASSUME NEW t \in Tasks, RefreshReturns(t) \/ RefreshTimesOut(t) PROVE Actors'
  <2>1. handler' = handler /\ timeouts' \in 0..MaxTimeouts /\ aborts' = aborts
    BY <1>4, KindsAssumption DEF RefreshReturns, RefreshTimesOut
  <2>2. task' = [task EXCEPT ![t] = [at |-> "swap", todo |-> KindOrder]]
    BY <1>4 DEF RefreshReturns, RefreshTimesOut
  <2>3. [at |-> "swap", todo |-> KindOrder] \in [at : TaskPcs, todo : Seq(Kinds)]
    BY <1>0, KindsAssumption
  <2>. QED
    BY <2>1, <2>2, <2>3
<1>5. ASSUME NEW t \in Tasks, FanOut(t) PROVE Actors'
  <2>1. Tail(task[t].todo) \in Seq(Kinds)
    BY <1>5 DEF FanOut
  <2>. QED
    BY <1>5, <2>1 DEF FanOut
<1>6. CASE PublishOther \/ (\E t \in Tasks : PublishFor(t)) \/ UNCHANGED vars
  BY <1>6 DEF PublishOther, PublishFor, vars
<1>. QED
  BY <1>1, <1>2, <1>3, <1>4, <1>5, <1>6 DEF Next, TaskStep

LEMMA CutShortType ==
  ASSUME Catalogs, CutShort
  PROVE  cut' \in [Kinds -> 0..(upstream + 1)]
  BY DEF Catalogs, CutShort

LEMMA CatalogsStep == Actors /\ Catalogs /\ [Next]_vars => Catalogs'
<1>. SUFFICES ASSUME Actors, Catalogs, [Next]_vars PROVE Catalogs'
  OBVIOUS
<1>. USE DEF Catalogs, Actors, history
<1>1. ASSUME NEW h \in Handlers, SetKind(h) \/ SetPending(h) \/ ClaimLost(h) PROVE Catalogs'
  BY <1>1 DEF SetKind, SetPending, ClaimLost
<1>2. ASSUME NEW h \in Handlers, NEW t \in Tasks, ClaimWon(h, t) PROVE Catalogs'
  BY <1>2 DEF ClaimWon, At
<1>3. ASSUME NEW h \in Handlers, StoreList(h) \/ \E k \in Kinds : Announce(h, k)
      PROVE  Catalogs'
  <2>1. upstream' \in 0..MaxVersion /\ upstream' = upstream + 1
    <3>1. upstream < MaxVersion /\ upstream' = upstream + 1
      BY <1>3, Zenon DEF Announce, StoreList, Refresh!Change
    <3>. QED
      BY <3>1, KindsAssumption
  <2>2. 0..upstream \subseteq 0..upstream' /\ 0..(upstream + 1) \subseteq 0..(upstream' + 1)
    BY <2>1
  <2>3. UNCHANGED <<published, call, asked, cut, task>>
    BY <1>3 DEF Announce, StoreList, Refresh!Change
  <2>4. PICK k \in Kinds : changedAt' = [changedAt EXCEPT ![k] = upstream']
    BY <1>3 DEF Announce, StoreList
  <2>. QED
    BY <2>1, <2>2, <2>3, <2>4
<1>11. ASSUME NEW h \in Handlers, ListingFails(h) \/ \E k \in Kinds : AskForList(h, k)
       PROVE  Catalogs'
  <2>1. UNCHANGED <<upstream, published, call, asked, changedAt, task>>
    BY <1>11 DEF ListingFails, AskForList
  <2>2. PICK k \in Kinds :
           \E v \in {cut[k], upstream, upstream + 1} : cut' = [cut EXCEPT ![k] = v]
    <3>1. CASE ListingFails(h)
      BY <3>1 DEF ListingFails
    <3>2. ASSUME NEW k \in Kinds, AskForList(h, k)
          PROVE  \E v \in {cut[k], upstream, upstream + 1} : cut' = [cut EXCEPT ![k] = v]
      BY <3>2 DEF AskForList
    <3>. QED
      BY <1>11, <3>1, <3>2
  <2>3. PICK v \in {cut[k], upstream, upstream + 1} : cut' = [cut EXCEPT ![k] = v]
    BY <2>2
  <2>4. v \in 0..(upstream + 1)
    OBVIOUS
  <2>. QED
    BY <2>1, <2>3, <2>4
<1>4. ASSUME NEW t \in Tasks, ClearPending(t) \/ LoopAgain(t) \/ LoopEnds(t) \/ Release(t)
             \/ RecheckNothing(t) \/ RecheckPending(t) \/ ReclaimWon(t) \/ ReclaimLost(t)
      PROVE  Catalogs'
  <2>1. UNCHANGED <<upstream, published, call, asked, changedAt>>
    BY <1>4 DEF ClearPending, LoopAgain, LoopEnds, Release, RecheckNothing,
           RecheckPending, ReclaimWon, ReclaimLost
  <2>1a. cut' = cut \/ CutShort
    BY <1>4 DEF ClearPending, LoopAgain, LoopEnds, Release, RecheckNothing,
           RecheckPending, ReclaimWon, ReclaimLost
  <2>1b. cut' \in [Kinds -> 0..(upstream + 1)]
    BY <2>1a, CutShortType
  <2>2. task[t].at # "refresh"
    BY <1>4 DEF ClearPending, LoopAgain, LoopEnds, Release, RecheckNothing,
           RecheckPending, ReclaimWon, ReclaimLost
  <2>3. PICK v \in {At("clear"), At("debounce"), At("release"), At("recheck"),
                    At("reclaim"), Off} : task' = [task EXCEPT ![t] = v]
    BY <1>4, Zenon
       DEF ClearPending, LoopAgain, LoopEnds, Release, RecheckNothing,
           RecheckPending, ReclaimWon, ReclaimLost
  <2>4. v.at # "refresh"
    BY DEF At, Off
  <2>. QED
    BY <2>1, <2>1b, <2>2, <2>3, <2>4
<1>5. ASSUME NEW t \in Tasks, StartRefresh(t) PROVE Catalogs'
  BY <1>5 DEF StartRefresh, Refresh!Ask, At
<1>6. ASSUME NEW t \in Tasks, RefreshReturns(t) \/ RefreshTimesOut(t) PROVE Catalogs'
  <2>1. UNCHANGED <<upstream, published, asked, changedAt>>
    BY <1>6 DEF RefreshReturns, RefreshTimesOut, Refresh!Return, Refresh!Cancel
  <2>1a. cut' = cut \/ CutShort
    BY <1>6 DEF RefreshReturns, RefreshTimesOut
  <2>1b. cut' \in [Kinds -> 0..(upstream + 1)]
    BY <2>1a, CutShortType
  <2>2. PICK v \in {"idle", "done"} : call' = [call EXCEPT ![t] = v]
    BY <1>6 DEF RefreshReturns, RefreshTimesOut, Refresh!Return, Refresh!Cancel
  <2>3. task' = [task EXCEPT ![t] = [at |-> "swap", todo |-> KindOrder]]
    BY <1>6 DEF RefreshReturns, RefreshTimesOut
  <2>. QED
    BY <2>1, <2>1b, <2>2, <2>3
<1>7. ASSUME NEW t \in Tasks, FanOut(t) PROVE Catalogs'
  BY <1>7 DEF FanOut
<1>8. ASSUME NEW t \in Tasks, Abort(t) PROVE Catalogs'
  <2>1. cut' \in [Kinds -> 0..(upstream + 1)]
    BY <1>8, CutShortType DEF Abort
  <2>. QED
    BY <1>8, <2>1 DEF Abort, Off
<1>9. CASE PublishOther \/ \E t \in Tasks : PublishFor(t)
  BY <1>9 DEF PublishOther, PublishFor, Refresh!Publish
<1>10. CASE UNCHANGED vars
  BY <1>10 DEF vars
<1>. QED
  BY <1>1, <1>2, <1>3, <1>4, <1>5, <1>6, <1>7, <1>8, <1>9, <1>10,
     <1>11
     DEF Next, HandlerStep, TaskStep

-----------------------------------------------------------------------------
(* One worker. *)

\* How a step of one task changes who holds the in-progress flag.
LEMMA HoldersChange ==
  ASSUME Actors, NEW t \in Tasks, NEW v, task' = [task EXCEPT ![t] = v]
  PROVE  Holders' = (Holders \ {t}) \cup (IF v.at \in Holding THEN {t} ELSE {})
BY DEF Actors, Holders

LEMMA HoldingPcs ==
  /\ At("clear").at \in Holding /\ At("debounce").at \in Holding
  /\ At("refresh").at \in Holding /\ At("release").at \in Holding
  /\ [at |-> "swap", todo |-> KindOrder].at \in Holding
  /\ At("recheck").at \notin Holding /\ At("reclaim").at \notin Holding
  /\ Off.at \notin Holding
BY DEF At, Off, Holding

\* The worker goes on working, whatever the step.
LEMMA WorkerGoesOn ==
  ASSUME Actors, NEW t \in Tasks,
         ClearPending(t) \/ StartRefresh(t) \/ RefreshReturns(t) \/ RefreshTimesOut(t)
         \/ FanOut(t) \/ LoopAgain(t) \/ LoopEnds(t)
  PROVE  t \in Holders /\ Holders' = Holders /\ inProgress' = inProgress
<1>1. task[t].at \in Holding /\ inProgress' = inProgress
  BY DEF ClearPending, StartRefresh, RefreshReturns, RefreshTimesOut, FanOut, LoopAgain,
         LoopEnds, flags, Holding
<1>2. t \in Holders
  BY <1>1 DEF Holders
<1>3. CASE FanOut(t)
  BY <1>1, <1>2, <1>3 DEF FanOut, Actors, Holders
<1>4. CASE ~FanOut(t)
  <2>1. PICK v \in {At("clear"), At("debounce"), At("refresh"), At("release"),
                    [at |-> "swap", todo |-> KindOrder]} : task' = [task EXCEPT ![t] = v]
    BY <1>4, Zenon DEF ClearPending, StartRefresh, RefreshReturns, RefreshTimesOut, LoopAgain,
         LoopEnds
  <2>2. v.at \in Holding
    BY HoldingPcs
  <2>3. Holders' = (Holders \ {t}) \cup (IF v.at \in Holding THEN {t} ELSE {})
    BY <2>1, HoldersChange, Zenon
  <2>. QED
    BY <1>1, <1>2, <2>2, <2>3
<1>. QED
  BY <1>3, <1>4

\* What leaves the worker alone: handlers other than one that wins its claim, tasks
\* that have let go and do not win, and the catalog.
LEMMA WorkerLeftAlone ==
  ASSUME Actors, [Next]_vars
  PROVE  \/ Holders' = Holders /\ inProgress' = inProgress
         \/ \E h \in Handlers, t \in Tasks : ClaimWon(h, t)
         \/ \E t \in Tasks : Release(t) \/ ReclaimWon(t) \/ Abort(t)
<1>1. ASSUME NEW h \in Handlers,
             StoreList(h) \/ ListingFails(h) \/ SetKind(h) \/ SetPending(h) \/ ClaimLost(h)
      PROVE  Holders' = Holders /\ inProgress' = inProgress
  BY <1>1 DEF StoreList, ListingFails, SetKind, SetPending, ClaimLost, flags, Holders
<1>2. ASSUME NEW h \in Handlers, NEW k \in Kinds, Announce(h, k) \/ AskForList(h, k)
      PROVE  Holders' = Holders /\ inProgress' = inProgress
  BY <1>2 DEF Announce, AskForList, flags, Holders
<1>3. ASSUME NEW t \in Tasks, RecheckNothing(t) \/ RecheckPending(t) \/ ReclaimLost(t)
      PROVE  Holders' = Holders /\ inProgress' = inProgress
  <2>1. task[t].at \notin Holding /\ inProgress' = inProgress
    BY <1>3 DEF RecheckNothing, RecheckPending, ReclaimLost, flags, Holding
  <2>2. PICK v \in {At("reclaim"), Off} : task' = [task EXCEPT ![t] = v]
    BY <1>3, Zenon DEF RecheckNothing, RecheckPending, ReclaimLost
  <2>3. v.at \notin Holding
    BY HoldingPcs
  <2>4. t \notin Holders
    BY <2>1 DEF Holders
  <2>5. Holders' = (Holders \ {t}) \cup (IF v.at \in Holding THEN {t} ELSE {})
    BY <2>2, HoldersChange, Zenon
  <2>. QED
    BY <2>1, <2>3, <2>4, <2>5
<1>4. CASE PublishOther \/ (\E t \in Tasks : PublishFor(t)) \/ UNCHANGED vars
  BY <1>4 DEF PublishOther, PublishFor, vars, flags, Holders
<1>. QED
  BY <1>1, <1>2, <1>3, <1>4, WorkerGoesOn DEF Next, HandlerStep, TaskStep

LEMMA WorkerStep == Actors /\ WorkerInv /\ [Next]_vars => WorkerInv'
<1>. SUFFICES ASSUME Actors, WorkerInv, [Next]_vars PROVE WorkerInv'
  OBVIOUS
<1>1. CASE Holders' = Holders /\ inProgress' = inProgress
  BY <1>1 DEF WorkerInv
<1>2. ASSUME NEW t \in Tasks,
             (\E h \in Handlers : ClaimWon(h, t)) \/ ReclaimWon(t)
      PROVE  WorkerInv'
  <2>1. ~inProgress /\ inProgress' /\ task' = [task EXCEPT ![t] = At("clear")]
    BY <1>2, Zenon DEF ClaimWon, ReclaimWon
  <2>2. Holders' = {t}
    BY <2>1, HoldersChange, HoldingPcs DEF WorkerInv
  <2>. QED
    BY <2>1, <2>2, Zenon DEF WorkerInv
<1>3. ASSUME NEW t \in Tasks, Release(t) \/ Abort(t) PROVE WorkerInv'
  <2>1. t \in Holders
    BY <1>3 DEF Release, Abort, Holders, Holding
  <2>2. ~inProgress' /\ \E v \in {At("recheck"), Off} : task' = [task EXCEPT ![t] = v]
    BY <1>3, Zenon DEF Release, Abort
  <2>3. Holders' = Holders \ {t}
    BY <2>2, HoldersChange, HoldingPcs
  <2>4. Holders' = {}
    BY <2>1, <2>3 DEF WorkerInv
  <2>. QED
    BY <2>2, <2>4, Zenon DEF WorkerInv
<1>. QED
  BY <1>1, <1>2, <1>3, WorkerLeftAlone

-----------------------------------------------------------------------------
(* Every flag has somebody to look at it. *)

LEMMA LooksHolds ==
  ASSUME NEW t \in Tasks, NEW k, Looks(t, k)
  PROVE  t \in Holders
BY DEF Looks, Holders, Holding

\* A task on its way to the flags will see every kind's.
LEMMA WillLook ==
  ASSUME Actors, NEW t \in Tasks, NEW k \in Kinds,
         \/ \E h \in Handlers : ClaimWon(h, t)
         \/ ClearPending(t) \/ StartRefresh(t) \/ RefreshReturns(t) \/ RefreshTimesOut(t)
         \/ LoopAgain(t) \/ ReclaimWon(t)
  PROVE  Looks(t, k)'
<1>1. CASE RefreshReturns(t) \/ RefreshTimesOut(t)
  <2>1. task' = [task EXCEPT ![t] = [at |-> "swap", todo |-> KindOrder]]
    BY <1>1 DEF RefreshReturns, RefreshTimesOut
  <2>2. task'[t].at = "swap" /\ task'[t].todo = KindOrder
    BY <2>1 DEF Actors
  <2>3. \E i \in 1..Len(KindOrder) : KindOrder[i] = k
    BY KindsAssumption
  <2>. QED
    BY <2>2, <2>3, Zenon DEF Looks
<1>2. CASE ~(RefreshReturns(t) \/ RefreshTimesOut(t))
  <2>1. PICK v \in {At("clear"), At("debounce"), At("refresh")} : task' = [task EXCEPT ![t] = v]
    BY <1>2, Zenon DEF ClaimWon, ClearPending, StartRefresh, LoopAgain, ReclaimWon
  <2>2. v.at \in {"clear", "debounce", "refresh"}
    BY DEF At
  <2>3. task'[t].at \in {"clear", "debounce", "refresh"}
    BY <2>1, <2>2 DEF Actors
  <2>. QED
    BY <2>3, Zenon DEF Looks
<1>. QED
  BY <1>1, <1>2

\* What remains when one kind's flag has been swapped.
LEMMA LooksOn ==
  ASSUME Actors, NEW t \in Tasks, FanOut(t), NEW k \in Kinds, k # Head(task[t].todo),
         Looks(t, k)
  PROVE  Looks(t, k)'
<1>. DEFINE s == task[t].todo
<1>1. s \in Seq(Kinds) /\ s # << >> /\ task[t].at = "swap"
  BY DEF FanOut, Actors
<1>2. PICK i \in 1..Len(s) : s[i] = k
  BY <1>1 DEF Looks
<1>3. i # 1
  BY <1>1, <1>2
<1>4. i - 1 \in 1..Len(Tail(s)) /\ Tail(s)[i - 1] = k
  BY <1>1, <1>2, <1>3
<1>5. task'[t].at = "swap" /\ task'[t].todo = Tail(s)
  BY <1>1 DEF FanOut, Actors
<1>. QED
  BY <1>4, <1>5 DEF Looks

LEMMA OwnedStep == Flags /\ Actors /\ WorkerInv /\ OwnedInv /\ [Next]_vars => OwnedInv'
<1>. SUFFICES ASSUME Flags, Actors, WorkerInv, OwnedInv, [Next]_vars,
                     aborts' = 0, ~stolen', NEW k \in Kinds, pendingKind'[k]
              PROVE  Cared(k)'
  BY Zenon DEF OwnedInv
<1>1. ASSUME aborts' = aborts, stolen' = stolen, pendingKind[k] PROVE Cared(k)
  BY <1>1, Zenon DEF OwnedInv
<1>2. ASSUME NEW h \in Handlers, SetKind(h) PROVE Cared(k)'
  <2>1. handler'[h].at = "pending"
    BY <1>2 DEF SetKind, Actors
  <2>. QED
    BY <2>1, Zenon DEF Cared
<1>3. ASSUME NEW h \in Handlers, SetPending(h) PROVE Cared(k)'
  <2>1. pending' /\ handler'[h].at = "claim"
    BY <1>3 DEF SetPending, Actors
  <2>. QED
    BY <2>1, Zenon DEF Cared, Attentive
<1>4. ASSUME NEW h \in Handlers, ClaimLost(h) PROVE Cared(k)'
  <2>1. Cared(k)
    BY <1>1, <1>4, Zenon DEF ClaimLost, flags, bounds, history
  <2>2. Holders # {} /\ Holders' = Holders
    BY <1>4 DEF ClaimLost, WorkerInv, Holders
  <2>3. \A g \in Handlers : handler[g].at = "pending" => handler'[g].at = "pending"
    BY <1>4 DEF ClaimLost, Actors
  <2>4. pending' = pending /\ task' = task
    BY <1>4 DEF ClaimLost, flags
  <2>5. \A t \in Tasks : Looks(t, k) => Looks(t, k)'
    BY <2>4 DEF Looks
  <2>. QED
    BY <2>1, <2>2, <2>3, <2>4, <2>5, Zenon DEF Cared, Attentive
<1>5. ASSUME NEW t \in Tasks,
             \/ \E h \in Handlers : ClaimWon(h, t)
             \/ ClearPending(t) \/ StartRefresh(t) \/ RefreshReturns(t) \/ RefreshTimesOut(t)
             \/ LoopAgain(t) \/ ReclaimWon(t)
      PROVE  Cared(k)'
  BY <1>5, WillLook, Zenon DEF Cared
<1>6. ASSUME NEW t \in Tasks, FanOut(t) PROVE Cared(k)'
  <2>1. pendingKind[k] /\ k # Head(task[t].todo)
    BY <1>6, Zenon DEF FanOut, Flags
  <2>2. Cared(k)
    BY <1>1, <1>6, <2>1, Zenon DEF FanOut, bounds, history
  <2>3. t \in Holders /\ Holders' = Holders
    BY <1>6, WorkerGoesOn
  <2>4. handler' = handler /\ pending' = pending
    BY <1>6 DEF FanOut
  <2>5. ASSUME NEW u \in Tasks, Looks(u, k) PROVE Looks(u, k)'
    <3>1. u = t
      BY <2>3, <2>5, LooksHolds DEF WorkerInv
    <3>. QED
      BY <1>6, <2>1, <2>5, <3>1, LooksOn
  <2>. QED
    BY <2>2, <2>3, <2>4, <2>5, Zenon DEF Cared, Attentive
<1>7. ASSUME NEW t \in Tasks, LoopEnds(t) PROVE Cared(k)'
  <2>1. Cared(k)
    BY <1>1, <1>7, Zenon DEF LoopEnds, flags, bounds, history
  <2>2. t \in Holders /\ ~pending /\ handler' = handler
    BY <1>7, WorkerGoesOn DEF LoopEnds
  <2>3. ASSUME NEW u \in Tasks, Looks(u, k) PROVE FALSE
    <3>1. u = t
      BY <2>2, <2>3, LooksHolds DEF WorkerInv
    <3>. QED
      BY <1>7, <2>3, <3>1 DEF LoopEnds, Looks
  <2>. QED
    BY <2>1, <2>2, <2>3, Zenon DEF Cared
<1>8. ASSUME NEW t \in Tasks, Release(t) PROVE Cared(k)'
  <2>1. Cared(k)
    BY <1>1, <1>8, Zenon DEF Release, bounds, history
  <2>2. t \in Holders
    BY <1>8 DEF Release, Holders, Holding
  <2>3. handler' = handler /\ pending' = pending /\ task'[t].at = "recheck"
    BY <1>8 DEF Release, Actors, At
  <2>4. ASSUME NEW u \in Tasks, Looks(u, k) PROVE FALSE
    <3>1. u = t
      BY <2>2, <2>4, LooksHolds DEF WorkerInv
    <3>. QED
      BY <1>8, <2>4, <3>1 DEF Release, Looks
  <2>. QED
    BY <2>1, <2>2, <2>3, <2>4, Zenon DEF Cared, Attentive
<1>9. ASSUME NEW t \in Tasks, RecheckNothing(t) \/ ReclaimLost(t) PROVE Cared(k)'
  <2>1. Cared(k)
    BY <1>1, <1>9, Zenon DEF RecheckNothing, ReclaimLost, flags, bounds, history
  <2>2. handler' = handler /\ pending' = pending /\ task' = [task EXCEPT ![t] = Off]
    BY <1>9 DEF RecheckNothing, ReclaimLost, flags
  <2>3. t \notin Holders
    BY <1>9 DEF RecheckNothing, ReclaimLost, Holders, Holding
  <2>4. Holders' = Holders
    <3>1. Holders' = (Holders \ {t}) \cup (IF Off.at \in Holding THEN {t} ELSE {})
      BY <2>2, HoldersChange, Zenon
    <3>. QED
      BY <2>3, <3>1, HoldingPcs
  <2>5. ASSUME NEW u \in Tasks, Looks(u, k) PROVE Looks(u, k)'
    <3>1. u # t
      BY <2>3, <2>5, LooksHolds
    <3>2. task'[u] = task[u]
      BY <2>2, <3>1 DEF Actors
    <3>. QED
      BY <2>5, <3>2 DEF Looks
  <2>6. CASE RecheckNothing(t)
    <3>1. ~pending /\ task[t].at # "reclaim"
      BY <2>6 DEF RecheckNothing
    <3>2. \A u \in Tasks : task[u].at = "reclaim" => task'[u].at = "reclaim"
      BY <2>2, <3>1 DEF Actors
    <3>. QED
      BY <2>1, <2>2, <2>4, <2>5, <3>1, <3>2, Zenon DEF Cared
  <2>7. CASE ReclaimLost(t)
    <3>1. Holders # {}
      BY <2>7 DEF ReclaimLost, WorkerInv
    <3>. QED
      BY <2>1, <2>2, <2>4, <2>5, <3>1, Zenon DEF Cared, Attentive
  <2>. QED
    BY <1>9, <2>6, <2>7
<1>10. ASSUME NEW t \in Tasks, RecheckPending(t) PROVE Cared(k)'
  <2>1. Holders = {}
    BY <1>10, Zenon DEF RecheckPending
  <2>2. task' = [task EXCEPT ![t] = At("reclaim")]
    BY <1>10 DEF RecheckPending
  <2>3. Holders' = {}
    BY <2>1, <2>2, HoldersChange, HoldingPcs
  <2>4. task'[t].at = "reclaim"
    BY <2>2 DEF Actors, At
  <2>. QED
    BY <2>3, <2>4, Zenon DEF Cared
<1>11. ASSUME NEW t \in Tasks, Abort(t) PROVE FALSE
  <2>1. aborts' = aborts + 1
    BY <1>11 DEF Abort
  <2>2. aborts \in 0..MaxAborts
    BY DEF Actors
  <2>. QED
    BY <2>1, <2>2
<1>12. ASSUME NEW h \in Handlers,
              \/ StoreList(h) \/ ListingFails(h)
              \/ \E j \in Kinds : Announce(h, j) \/ AskForList(h, j)
       PROVE  Cared(k)'
  <2>0. UNCHANGED <<flags, task, bounds, stolen>>
    BY <1>12, Zenon DEF Announce, AskForList, StoreList, ListingFails
  <2>1. Cared(k)
    BY <1>1, <2>0, Zenon DEF flags, bounds
  <2>2. pending' = pending /\ task' = task
    BY <2>0 DEF flags
  <2>3. Holders' = Holders /\ \A t \in Tasks : Looks(t, k) => Looks(t, k)'
    BY <2>2 DEF Looks, Holders
  <2>4. \A g \in Handlers : handler[g].at \in {"pending", "claim"} => handler'[g] = handler[g]
    BY <1>12 DEF Announce, AskForList, StoreList, ListingFails, Actors
  <2>5. \A g \in Handlers : /\ handler[g].at = "pending" => handler'[g].at = "pending"
                            /\ handler[g].at = "claim" => handler'[g].at = "claim"
    BY <2>4
  <2>. QED
    BY <2>1, <2>2, <2>3, <2>5, Zenon DEF Cared, Attentive
<1>13. CASE PublishOther \/ (\E t \in Tasks : PublishFor(t)) \/ UNCHANGED vars
  <2>1. UNCHANGED <<flags, handler, task, bounds, history>>
    BY <1>13, Zenon DEF PublishOther, PublishFor, vars
  <2>2. Cared(k)
    BY <1>1, <2>1, Zenon DEF flags, bounds, history
  <2>. QED
    BY <2>1, <2>2 DEF Cared, Attentive, Looks, Holders, flags
<1>. QED
  BY <1>2, <1>3, <1>4, <1>5, <1>6, <1>7, <1>8, <1>9, <1>10, <1>11, <1>12, <1>13
     DEF Next, HandlerStep, TaskStep

-----------------------------------------------------------------------------
(* Theorems. *)

LEMMA SchedulerInit == Init => SchedulerInv
<1>. SUFFICES ASSUME Init PROVE SchedulerInv
  OBVIOUS
<1>1. Flags
  BY Zenon DEF Init, Flags
<1>2. Actors
  <2>1. timeouts \in 0..MaxTimeouts /\ aborts \in 0..MaxAborts
    BY KindsAssumption DEF Init
  <2>. QED
    BY <2>1, IdleType, OffType DEF Init, Actors
<1>3. Catalogs
  <2>1. upstream = 0 /\ upstream \in 0..MaxVersion
    BY KindsAssumption DEF Init, Refresh!Init
  <2>. QED
    BY <2>1 DEF Init, Catalogs, Refresh!Init, Off
<1>4. Holders = {}
  BY DEF Init, Holders, Holding, Off
<1>5. WorkerInv
  BY <1>4 DEF WorkerInv, Init
<1>6. OwnedInv
  BY Zenon DEF OwnedInv, Init
<1>. QED
  BY <1>1, <1>2, <1>3, <1>5, <1>6 DEF SchedulerInv

\* The invariant the theorems rest on: who holds the in-progress flag, and for every
\* announced kind somebody who will still come to it.
THEOREM SchedulerInvariant == Spec => []SchedulerInv
<1>1. SchedulerInv /\ [Next]_vars => SchedulerInv'
  BY FlagsStep, ActorsStep, CatalogsStep, WorkerStep, OwnedStep DEF SchedulerInv
<1>. QED
  BY <1>1, SchedulerInit, PTL DEF Spec

\* schedule_list_changed_refresh: the in-progress flag is set exactly while one task
\* works, for any number of handlers, tasks and abnormal exits.
THEOREM OneWorker == Spec => []FlagMeansOneWorker
<1>1. SchedulerInv => FlagMeansOneWorker
  BY TypeParts DEF SchedulerInv, WorkerInv, FlagMeansOneWorker
<1>. QED
  BY <1>1, SchedulerInvariant, PTL

\* An announcement can only be forgotten through an abnormal exit, or when a task that
\* had let go takes the pending flag from under its successor.
THEOREM OnlyTheftLoses == Spec => []LostOnlyByTheft
<1>1. SchedulerInv => LostOnlyByTheft
  <2>. SUFFICES ASSUME Actors, OwnedInv, aborts = 0, ~stolen,
                       \A h \in Handlers : handler[h].at \in {"idle", "relist"},
                       NEW k \in Kinds, pendingKind[k]
                PROVE  \/ Holders # {}
                       \/ \E t \in Tasks : task[t].at = "recheck" /\ pending
                       \/ \E t \in Tasks : task[t].at = "reclaim"
    BY Zenon DEF SchedulerInv, LostOnlyByTheft, Owned
  <2>1. Cared(k)
    BY Zenon DEF OwnedInv
  <2>2. \A h \in Handlers : handler[h].at # "pending" /\ handler[h].at # "claim"
    OBVIOUS
  <2>3. \A t \in Tasks : Looks(t, k) => Holders # {}
    BY LooksHolds
  <2>. QED
    BY <2>1, <2>2, <2>3, Zenon DEF Cared, Attentive
<1>. QED
  BY <1>1, SchedulerInvariant, PTL

-----------------------------------------------------------------------------
(***************************************************************************)
(* The subscription registry.  An entry must have the task that will settle*)
(* it, and every subscription an upstream holds the transition that will   *)
(* release it.  Neither is inductive: an overtaken transition, one whose   *)
(* generation is no longer the entry's, can hold the lock and still release*)
(* an owner, so the invariant also says which tasks can be overtaken, that *)
(* a generation is started once, and what each held subscription waits for.*)
(***************************************************************************)

StartKinds == {"sub", "rebind"}
WorkKinds == {"sub", "rebind", "drain"}

Entries == [state : {"absent", "pending", "active", "draining"}, gen : Gens,
            members : SUBSET Clients, intended : MaybeServer,
            owner : MaybeServer, ownerConn : Nat, prior : MaybeServer]

Calls == [pc : {"idle", "join", "wait", "look", "heal"},
          to : MaybeServer, toConn : Nat, wait : Waits]

-----------------------------------------------------------------------------
(* The invariant. *)

\* The callers, the pass, the sweep and the heals: their types, and what they
\* carry into a transition.  A decision to rebind names a server, a resolved
\* handle a connection that was there.
SideInv ==
    /\ heals \subseteq Servers
    /\ caller \in [Clients -> Calls]
    /\ route \in MaybeServer
    /\ pass \in Passes /\ sweep \in Passes /\ passes \in 0..MaxPasses
    /\ \A c \in Clients : caller[c].pc = "join" =>
          /\ caller[c].to \in Servers /\ caller[c].toConn # 0
          /\ caller[c].toConn <= dials + 1
    /\ pass.item.kind \in {"rebind", "resubscribe"} => pass.item.to \in Servers
    /\ sweep.item.kind \in {"rebind", "resubscribe"} => sweep.item.to \in Servers

\* The types of the registry and of the upstreams.
CoreTypes ==
    /\ entry \in Entries /\ nextGen \in 1..(MaxGen + 1)
    /\ queued \subseteq Transitions /\ running \in Transitions
    /\ conn \in [Servers -> Nat] /\ dials \in 0..MaxDials
    /\ held \subseteq Servers /\ stuck \subseteq Servers /\ undone \subseteq Servers

\* What every transition task carries.
SaneTask(t) ==
    /\ t.kind \in WorkKinds
    /\ t.kind \in StartKinds => t.to \in Servers
    /\ t.kind = "sub" => t.toConn # 0
    /\ t.oldConn # 0 => t.old \in Servers
    /\ t.toConn <= dials + 1

\* The task that holds the lock.
SaneRun ==
    /\ running.pc \in {"locked", "release", "released", "call"}
    /\ SaneTask(running)
    /\ running.pc \in {"released", "call"} => running.kind \in StartKinds
    /\ running.pc = "call" => running.toConn # 0
    /\ running.pc = "release" => running.callee \in Servers

TaskInv ==
    /\ \A t \in queued : t.pc = "queued" /\ SaneTask(t)
    /\ running = Free \/ SaneRun

\* Connection numbers are dial counts, so a new connection has a new one; an
\* entry names its states' fields and has subscribers while it is live.
EntryInv ==
    /\ \A s \in Servers : conn[s] <= dials + 1
    /\ entry.ownerConn <= dials + 1
    /\ (entry.intended # None) <=> (entry.state = "pending")
    /\ entry.prior # None => entry.state = "draining"
    /\ entry.state = "active" => entry.owner # None /\ entry.ownerConn # 0
    /\ entry.state \in {"pending", "active"} => entry.members # {}

\* Generations grow: no task is ahead of the entry, and a drain of the entry's
\* generation has marked it.
GenInv ==
    /\ entry.gen < nextGen /\ running.gen < nextGen
    /\ \A t \in queued : t.gen < nextGen
    /\ entry.state # "absent" =>
          /\ running.gen <= entry.gen
          /\ \A t \in queued : t.gen <= entry.gen
          /\ running.kind = "drain" /\ running.gen = entry.gen => entry.state = "draining"
          /\ \A t \in queued :
                t.kind = "drain" /\ t.gen = entry.gen => entry.state = "draining"

\* A generation has one subscribe or rebind.
OneStart ==
    /\ \A t, u \in queued :
          t.kind \in StartKinds /\ u.kind \in StartKinds /\ t.gen = u.gen => t = u
    /\ running.kind \in StartKinds =>
          \A t \in queued : t.kind \in StartKinds => t.gen # running.gen

\* Whoever is passed on the way to the lock is late, and everything that is
\* left once an entry is Active has been passed.
LateInv ==
    /\ running # Free => \A t \in queued : t.gen < running.gen => t.late
    /\ entry.state = "active" =>
          /\ \A t \in queued : t.gen < entry.gen /\ t.late
          /\ running = Free \/ (running.gen < entry.gen /\ running.late)

AtWork(kinds) == \E t \in queued \cup {running} : t.gen = entry.gen /\ t.kind \in kinds

BackedInv ==
    /\ entry.state = "pending" => AtWork(StartKinds)
    /\ entry.state = "draining" => AtWork({"drain"})
    /\ entry.state = "active" /\ conn[entry.owner] = entry.ownerConn =>
          entry.owner \in held \cup undone

\* A subscription some server has and that is not given up as stuck.
Live == held \ stuck

Takes(t, s) ==
    /\ t.kind = "sub"
    /\ t.to = s \/ (t.displaced = s /\ t.pc \in {"queued", "locked", "release"})

\* Every such subscription is the recorded owner's, or a subscribe on its way
\* takes it over or releases it.
Covered(s) ==
    \/ entry.state # "absent" /\ entry.owner = s
    \/ \E t \in queued : Takes(t, s)
    \/ Takes(running, s)

CoverInv ==
    /\ \A s \in held : conn[s] # 0
    /\ \A s \in Live : Covered(s)
    /\ running.pc = "release" =>
          /\ running.kind = "sub" => running.callee = running.displaced
          /\ running.kind # "sub" /\ Current /\ entry.owner # None =>
                running.callee = entry.owner
          /\ running.kind = "sub" \/ (Current /\ entry.owner # None) =>
                (running.callee \in held => conn[running.callee] = running.calleeConn)
    /\ running.kind = "rebind" /\ Current /\ entry.owner \in Live =>
          /\ running.pc # "released"
          /\ running.pc = "call" => entry.owner = running.to
    /\ entry.state # "absent" =>
          /\ running.kind = "sub" /\ running.gen = entry.gen => entry.owner = None
          /\ \A t \in queued : t.kind = "sub" /\ t.gen = entry.gen => entry.owner = None
    /\ entry.state = "draining" /\ entry.owner \in Live => entry.prior = entry.owner

CoreInv ==
    /\ CoreTypes /\ TaskInv /\ EntryInv
    /\ GenInv /\ OneStart /\ LateInv /\ BackedInv /\ CoverInv

RegistryInv == CoreInv /\ SideInv

-----------------------------------------------------------------------------
(* Types. *)

LEMMA TaskFields ==
  ASSUME NEW t \in Transitions
  PROVE  /\ t.gen \in Gens /\ t.gen \in Nat /\ t.to \in MaybeServer /\ t.toConn \in Nat
         /\ t.old \in MaybeServer /\ t.oldConn \in Nat /\ t.displaced \in MaybeServer
         /\ t.release \in BOOLEAN /\ t.late \in BOOLEAN
         /\ t.callee \in MaybeServer /\ t.calleeConn \in Nat
         /\ t.pc \in {"free", "queued", "locked", "release", "released", "call"}
         /\ t.kind \in {"none", "sub", "rebind", "drain"}
  BY SubscriptionsAssumption DEF Transitions, Gens

LEMMA EntryFields ==
  ASSUME NEW e \in Entries
  PROVE  /\ e.gen \in Gens /\ e.gen \in Nat /\ e.members \in SUBSET Clients
         /\ e.intended \in MaybeServer /\ e.owner \in MaybeServer /\ e.ownerConn \in Nat
         /\ e.prior \in MaybeServer
         /\ e.state \in {"absent", "pending", "active", "draining"}
  BY SubscriptionsAssumption DEF Entries, Gens

LEMMA FreeFields ==
    /\ Free \in Transitions /\ Free.pc = "free" /\ Free.kind = "none" /\ Free.gen = 0
    /\ Free.to = None /\ Free.toConn = 0 /\ Free.oldConn = 0 /\ Free.old = None
    /\ Free.displaced = None /\ Free.late = FALSE /\ Free.release = FALSE
  BY SubscriptionsAssumption DEF Free, Transitions, Gens, MaybeServer

LEMMA AbsentFields ==
    /\ Absent \in Entries /\ Absent.state = "absent" /\ Absent.gen = 0
    /\ Absent.members = {} /\ Absent.intended = None /\ Absent.owner = None
    /\ Absent.ownerConn = 0 /\ Absent.prior = None
  BY SubscriptionsAssumption DEF Absent, Entries, Gens, MaybeServer

\* A task that is spawned.
Spawned(t) ==
    /\ t \in Transitions /\ t.pc = "queued" /\ t.late = FALSE /\ SaneTask(t)

LEMMA DrainTaskFields ==
  ASSUME CoreTypes, EntryInv, NEW g \in Gens, NEW s \in MaybeServer
  PROVE  /\ Spawned(DrainTask(g, s)) /\ DrainTask(g, s).kind = "drain"
         /\ DrainTask(g, s).gen = g
<1>1. PICK h : h = IF s = None THEN 0 ELSE conn[s]
  OBVIOUS
<1>2. h \in Nat /\ (h # 0 => s \in Servers)
  BY <1>1 DEF CoreTypes, MaybeServer
<1>3. PICK t : t = [Free EXCEPT !.pc = "queued", !.kind = "drain", !.gen = g, !.old = s,
                               !.oldConn = h]
  OBVIOUS
<1>4. t = DrainTask(g, s)
  BY <1>1, <1>3, Zenon DEF DrainTask
<1>5. /\ t \in Transitions /\ t.pc = "queued" /\ t.late = FALSE /\ t.kind = "drain"
      /\ t.gen = g /\ t.old = s /\ t.oldConn = h /\ t.toConn = 0
  BY <1>2, <1>3, SubscriptionsAssumption DEF Free, Transitions, MaybeServer, Gens
<1>6. dials \in Nat
  BY SubscriptionsAssumption DEF CoreTypes
<1>7. Spawned(t)
  BY <1>2, <1>5, <1>6 DEF Spawned, SaneTask, WorkKinds, StartKinds
<1>. QED
  BY <1>4, <1>5, <1>7

\* The tasks that migrate and subscribe spawn.
RebindTask(g, s, to, release) ==
    [Free EXCEPT !.pc = "queued", !.kind = "rebind", !.gen = g,
                 !.to = to, !.toConn = conn[to], !.release = release,
                 !.old = s, !.oldConn = IF s = None THEN 0 ELSE conn[s]]

SubTask(g, to, h, d) ==
    [Free EXCEPT !.pc = "queued", !.kind = "sub", !.gen = g,
                 !.to = to, !.toConn = h, !.displaced = d]

LEMMA RebindTaskFields ==
  ASSUME CoreTypes, EntryInv, NEW g \in Gens, NEW s \in MaybeServer, NEW to \in Servers,
         NEW release \in BOOLEAN
  PROVE  /\ Spawned(RebindTask(g, s, to, release))
         /\ RebindTask(g, s, to, release).kind = "rebind"
         /\ RebindTask(g, s, to, release).gen = g
<1>0. PICK t : t = RebindTask(g, s, to, release)
  OBVIOUS
<1>1. PICK h, k : h = (IF s = None THEN 0 ELSE conn[s]) /\ k = conn[to]
  OBVIOUS
<1>2. h \in Nat /\ (h # 0 => s \in Servers) /\ k \in Nat /\ k <= dials + 1
  BY <1>1 DEF CoreTypes, MaybeServer, EntryInv
<1>3. t = [Free EXCEPT !.pc = "queued", !.kind = "rebind", !.gen = g,
                       !.to = to, !.toConn = k, !.release = release,
                       !.old = s, !.oldConn = h]
  BY <1>0, <1>1, Zenon DEF RebindTask
<1>4. ASSUME NEW r \in BOOLEAN, NEW u,
             u = [Free EXCEPT !.pc = "queued", !.kind = "rebind", !.gen = g, !.to = to,
                              !.toConn = k, !.release = r, !.old = s, !.oldConn = h]
      PROVE  /\ u \in Transitions /\ u.pc = "queued" /\ u.late = FALSE /\ u.kind = "rebind"
             /\ u.gen = g /\ u.old = s /\ u.oldConn = h /\ u.toConn = k /\ u.to = to
  <2>1. CASE r = TRUE
    BY <1>2, <1>4, <2>1, SubscriptionsAssumption DEF Free, Transitions, MaybeServer, Gens
  <2>2. CASE r = FALSE
    BY <1>2, <1>4, <2>2, SubscriptionsAssumption DEF Free, Transitions, MaybeServer, Gens
  <2>. QED
    BY <2>1, <2>2
<1>5. /\ t \in Transitions /\ t.pc = "queued" /\ t.late = FALSE /\ t.kind = "rebind"
      /\ t.gen = g /\ t.old = s /\ t.oldConn = h /\ t.toConn = k /\ t.to = to
  BY <1>3, <1>4, Zenon
<1>7. Spawned(t)
  BY <1>2, <1>5 DEF Spawned, SaneTask, WorkKinds, StartKinds
<1>. QED
  BY <1>0, <1>5, <1>7

LEMMA SubTaskFields ==
  ASSUME CoreTypes, NEW g \in Gens, NEW to \in Servers, NEW h \in Nat, h # 0,
         h <= dials + 1, NEW d \in MaybeServer
  PROVE  /\ Spawned(SubTask(g, to, h, d)) /\ SubTask(g, to, h, d).kind = "sub"
         /\ SubTask(g, to, h, d).gen = g /\ SubTask(g, to, h, d).to = to
         /\ SubTask(g, to, h, d).displaced = d
<1>1. PICK t : t = SubTask(g, to, h, d)
  OBVIOUS
<1>5. /\ t \in Transitions /\ t.pc = "queued" /\ t.late = FALSE /\ t.kind = "sub"
      /\ t.gen = g /\ t.oldConn = 0 /\ t.toConn = h /\ t.to = to /\ t.displaced = d
  BY <1>1, SubscriptionsAssumption DEF SubTask, Free, Transitions, MaybeServer, Gens
<1>7. Spawned(t)
  BY <1>5 DEF Spawned, SaneTask, WorkKinds, StartKinds
<1>. QED
  BY <1>1, <1>5, <1>7

LEMMA MarkDrainingFields ==
  ASSUME CoreTypes
  PROVE  /\ MarkDraining \in Entries /\ MarkDraining.state = "draining"
         /\ MarkDraining.intended = None /\ MarkDraining.gen = entry.gen
         /\ MarkDraining.owner = entry.owner /\ MarkDraining.ownerConn = entry.ownerConn
         /\ MarkDraining.members = entry.members
         /\ entry.owner # None => MarkDraining.prior = entry.owner
<1>1. PICK e, p : e = entry /\ p = OwnerToRelease
  OBVIOUS
<1>2. e \in Entries /\ p \in MaybeServer /\ (e.owner # None => p = e.owner)
  BY <1>1, EntryFields DEF CoreTypes, OwnerToRelease, MaybeServer
<1>3. MarkDraining = [e EXCEPT !.state = "draining", !.prior = p, !.intended = None]
  BY <1>1, Zenon DEF MarkDraining
<1>4. PICK d : d = [e EXCEPT !.state = "draining", !.prior = p, !.intended = None]
  OBVIOUS
<1>5. /\ d \in Entries /\ d.state = "draining" /\ d.intended = None /\ d.gen = e.gen
      /\ d.owner = e.owner /\ d.ownerConn = e.ownerConn /\ d.members = e.members
      /\ d.prior = p
  BY <1>2, <1>4 DEF Entries, MaybeServer
<1>. QED
  BY <1>1, <1>2, <1>3, <1>4, <1>5

LEMMA PendingFields ==
  ASSUME CoreTypes, nextGen <= MaxGen, NEW e \in Entries, NEW to \in Servers
  PROVE  /\ Pending(e, to) \in Entries /\ Pending(e, to).state = "pending"
         /\ Pending(e, to).gen = nextGen /\ Pending(e, to).intended = to
         /\ Pending(e, to).prior = None /\ Pending(e, to).owner = e.owner
         /\ Pending(e, to).ownerConn = e.ownerConn
         /\ Pending(e, to).members = e.members
<1>1. PICK g : g = nextGen
  OBVIOUS
<1>2. g \in Gens
  BY <1>1, SubscriptionsAssumption DEF CoreTypes, Gens
<1>3. PICK p : p = [e EXCEPT !.state = "pending", !.gen = g, !.intended = to, !.prior = None]
  OBVIOUS
<1>4. p = Pending(e, to)
  BY <1>1, <1>3, Zenon DEF Pending
<1>5. /\ p \in Entries /\ p.state = "pending" /\ p.gen = g /\ p.intended = to
      /\ p.prior = None /\ p.owner = e.owner /\ p.ownerConn = e.ownerConn
      /\ p.members = e.members
  BY <1>2, <1>3 DEF Entries, MaybeServer
<1>. QED
  BY <1>1, <1>4, <1>5

-----------------------------------------------------------------------------
(* What a step of the registry does under the guard of the entry. *)

Starts(t) ==
    /\ Spawned(t) /\ t.kind \in StartKinds /\ t.gen = nextGen
    /\ nextGen <= MaxGen /\ nextGen' = nextGen + 1 /\ queued' = queued \cup {t}
    /\ entry' \in Entries /\ entry'.state = "pending" /\ entry'.gen = nextGen
    /\ entry'.intended # None /\ entry'.prior = None /\ entry'.members # {}
    /\ entry'.ownerConn <= dials + 1
    /\ \/ t.kind = "rebind" /\ entry.state # "absent" /\ entry'.owner = entry.owner
       \/ /\ t.kind = "sub" /\ entry'.owner = None
          /\ \/ entry.state = "absent"
             \/ entry.state = "draining" /\ t.displaced = entry.prior
             \/ entry.state = "active" /\ t.to = entry.owner

Drains(t) ==
    /\ Spawned(t) /\ t.kind = "drain" /\ t.gen = entry'.gen /\ queued' = queued \cup {t}
    /\ entry.state # "absent"
    /\ entry' \in Entries /\ entry'.state = "draining" /\ entry'.intended = None
    /\ entry'.owner = entry.owner /\ entry'.ownerConn = entry.ownerConn
    /\ entry.owner # None => entry'.prior = entry.owner
    /\ \/ entry'.gen = entry.gen /\ nextGen' = nextGen
       \/ entry'.gen = nextGen /\ nextGen <= MaxGen /\ nextGen' = nextGen + 1

Regroups ==
    /\ UNCHANGED <<nextGen, queued>>
    /\ entry' \in Entries /\ entry'.state = entry.state /\ entry'.gen = entry.gen
    /\ entry'.intended = entry.intended /\ entry'.owner = entry.owner
    /\ entry'.ownerConn = entry.ownerConn /\ entry'.prior = entry.prior
    /\ entry.state \in {"pending", "active"} => entry'.members # {}

RegistryStep == (\E t : Starts(t)) \/ (\E t : Drains(t)) \/ Regroups

LEMMA Nothing ==
  ASSUME CoreTypes, EntryInv, UNCHANGED <<entry, nextGen, queued>>
  PROVE  Regroups
  BY DEF Regroups, CoreTypes, EntryInv

LEMMA MigrateEffect ==
  ASSUME CoreTypes, EntryInv, NEW old \in MaybeServer, NEW to \in Servers,
         NEW release \in BOOLEAN, Migrate(old, to, release)
  PROVE  RegistryStep
<1>1. CASE NoMigration
  BY <1>1, Nothing DEF NoMigration, RegistryStep
<1>2. CASE MigratePiggybacks(to)
  BY <1>2, Nothing DEF MigratePiggybacks, RegistryStep
<1>3. CASE MigrateDrainsEmpty(old)
  <2>1. /\ entry.state # "absent" /\ nextGen <= MaxGen /\ nextGen' = nextGen + 1
        /\ queued' = queued \cup {DrainTask(nextGen, old)}
    BY <1>3, Zenon DEF MigrateDrainsEmpty, Spawn
  <2>2. PICK m, g : m = MarkDraining /\ g = nextGen
    OBVIOUS
  <2>3. entry' = [m EXCEPT !.gen = g]
    BY <1>3, <2>2, Zenon DEF MigrateDrainsEmpty
  <2>4. g \in Gens
    BY <2>1, <2>2, SubscriptionsAssumption DEF CoreTypes, Gens
  <2>5. /\ m \in Entries /\ m.state = "draining" /\ m.intended = None
        /\ m.owner = entry.owner /\ m.ownerConn = entry.ownerConn
        /\ entry.owner # None => m.prior = entry.owner
    BY <2>2, MarkDrainingFields
  <2>6. PICK e : e = [m EXCEPT !.gen = g]
    OBVIOUS
  <2>7. /\ e \in Entries /\ e.state = "draining" /\ e.intended = None /\ e.gen = g
        /\ e.owner = m.owner /\ e.ownerConn = m.ownerConn /\ e.prior = m.prior
    BY <2>4, <2>5, <2>6 DEF Entries
  <2>8. PICK t : t = DrainTask(nextGen, old)
    OBVIOUS
  <2>9. Spawned(t) /\ t.kind = "drain" /\ t.gen = g
    BY <2>2, <2>4, <2>8, DrainTaskFields
  <2>10. Drains(t)
    BY <2>1, <2>2, <2>3, <2>5, <2>6, <2>7, <2>8, <2>9 DEF Drains
  <2>. QED
    BY <2>10 DEF RegistryStep
<1>4. CASE MigrateStarts(old, to, release)
  <2>1. PICK t : t = RebindTask(nextGen, old, to, release)
    OBVIOUS
  <2>2. /\ entry.state # "absent" /\ nextGen <= MaxGen /\ nextGen' = nextGen + 1
        /\ entry.members # {} /\ entry' = Pending(entry, to) /\ queued' = queued \cup {t}
    BY <1>4, <2>1, Zenon DEF MigrateStarts, Spawn, RebindTask
  <2>3. nextGen \in Gens
    BY <2>2, SubscriptionsAssumption DEF CoreTypes, Gens
  <2>4. Spawned(t) /\ t.kind = "rebind" /\ t.gen = nextGen
    BY <2>1, <2>3, RebindTaskFields
  <2>5. entry \in Entries
    BY DEF CoreTypes
  <2>6. /\ entry' \in Entries /\ entry'.state = "pending" /\ entry'.gen = nextGen
        /\ entry'.intended # None /\ entry'.prior = None /\ entry'.members # {}
        /\ entry'.owner = entry.owner /\ entry'.ownerConn = entry.ownerConn
    BY <2>2, <2>5, PendingFields, SubscriptionsAssumption
  <2>7. Starts(t)
    BY <2>2, <2>4, <2>6 DEF Starts, StartKinds, EntryInv
  <2>. QED
    BY <2>7 DEF RegistryStep
<1>. QED
  BY <1>1, <1>2, <1>3, <1>4 DEF Migrate

LEMMA StartSubscribeEffect ==
  ASSUME CoreTypes, SideInv, EntryInv, NEW c \in Clients, caller[c].pc = "join",
         NEW base \in Entries, base.owner = None, base.ownerConn = 0,
         NEW d \in MaybeServer, StartSubscribe(c, base, d),
         \/ entry.state = "absent"
         \/ entry.state = "draining" /\ d = entry.prior
         \/ entry.state = "active" /\ caller[c].to = entry.owner
  PROVE  RegistryStep
<1>1. PICK to, h : to = caller[c].to /\ h = caller[c].toConn
  OBVIOUS
<1>2. to \in Servers /\ h \in Nat /\ h # 0 /\ h <= dials + 1
  BY <1>1 DEF SideInv, Calls
<1>3. PICK t : t = SubTask(nextGen, to, h, d)
  OBVIOUS
<1>4. PICK b : b = [base EXCEPT !.members = @ \cup {c}]
  OBVIOUS
<1>5. /\ nextGen <= MaxGen /\ nextGen' = nextGen + 1
      /\ entry' = Pending(b, to) /\ queued' = queued \cup {t}
  BY <1>1, <1>3, <1>4, Zenon DEF StartSubscribe, Spawn, SubTask
<1>6. b \in Entries /\ b.owner = None /\ b.ownerConn = 0 /\ b.members # {}
  BY <1>4 DEF Entries
<1>7. nextGen \in Gens /\ dials \in Nat
  BY <1>5, SubscriptionsAssumption DEF CoreTypes, Gens
<1>8. Spawned(t) /\ t.kind = "sub" /\ t.gen = nextGen /\ t.to = to /\ t.displaced = d
  BY <1>2, <1>3, <1>7, SubTaskFields
<1>9. /\ entry' \in Entries /\ entry'.state = "pending" /\ entry'.gen = nextGen
      /\ entry'.intended # None /\ entry'.prior = None /\ entry'.members # {}
      /\ entry'.owner = None /\ entry'.ownerConn = 0
  BY <1>2, <1>5, <1>6, PendingFields, SubscriptionsAssumption
<1>10. Starts(t)
  BY <1>1, <1>5, <1>7, <1>8, <1>9 DEF Starts, StartKinds
<1>. QED
  BY <1>10 DEF RegistryStep

LEMMA JoinEffect ==
  ASSUME CoreTypes, SideInv, EntryInv, NEW c \in Clients, Join(c)
  PROVE  /\ RegistryStep /\ caller' \in [Clients -> Calls]
         /\ \A d \in Clients : caller'[d].pc = "join" => caller'[d] = caller[d]
<1>. caller[c].pc = "join"
  BY DEF Join
<1>0. entry \in Entries /\ entry.gen \in Gens /\ entry.prior \in MaybeServer
  BY EntryFields DEF CoreTypes
<1>1. ASSUME NEW base \in Entries, NEW d, StartSubscribe(c, base, d)
      PROVE  /\ nextGen \in Gens
             /\ caller' = [caller EXCEPT ![c] =
                    [NoCall EXCEPT !.pc = "wait", !.wait = StartWait(nextGen)]]
  BY <1>1, SubscriptionsAssumption DEF StartSubscribe, CoreTypes, Gens
<1>2. ASSUME NEW g \in Gens
      PROVE  [NoCall EXCEPT !.pc = "wait", !.wait = StartWait(g)] \in Calls
  <2>1. StartWait(g) \in Waits
    BY DEF StartWait, Waits
  <2>. QED
    BY <2>1 DEF NoCall, Calls, MaybeServer
<1>3. ASSUME NEW k \in Calls, k.pc # "join", caller' = [caller EXCEPT ![c] = k]
      PROVE  /\ caller' \in [Clients -> Calls]
             /\ \A d \in Clients : caller'[d].pc = "join" => caller'[d] = caller[d]
  BY <1>3 DEF SideInv
<1>4. ASSUME NEW g \in Gens,
             caller' = [caller EXCEPT ![c] = [NoCall EXCEPT !.pc = "wait", !.wait = StartWait(g)]]
      PROVE  /\ caller' \in [Clients -> Calls]
             /\ \A d \in Clients : caller'[d].pc = "join" => caller'[d] = caller[d]
  <2>1. PICK k : k = [NoCall EXCEPT !.pc = "wait", !.wait = StartWait(g)]
    OBVIOUS
  <2>2. k \in Calls /\ k.pc # "join"
    BY <1>2, <2>1 DEF NoCall
  <2>3. caller' = [caller EXCEPT ![c] = k]
    BY <1>4, <2>1, Zenon
  <2>. QED
    BY <1>3, <2>2, <2>3
<1>5. ASSUME entry' = [entry EXCEPT !.members = @ \cup {c}], UNCHANGED <<nextGen, queued>>
      PROVE  RegistryStep
  <2>1. PICK e : e = entry
    OBVIOUS
  <2>2. entry' = [e EXCEPT !.members = @ \cup {c}]
    BY <1>5, <2>1, Zenon
  <2>3. PICK f : f = [e EXCEPT !.members = @ \cup {c}]
    OBVIOUS
  <2>4. /\ f \in Entries /\ f.state = e.state /\ f.gen = e.gen /\ f.intended = e.intended
        /\ f.owner = e.owner /\ f.ownerConn = e.ownerConn /\ f.prior = e.prior
        /\ f.members # {}
    BY <1>0, <2>1, <2>3 DEF Entries
  <2>. QED
    BY <1>5, <2>1, <2>2, <2>3, <2>4 DEF RegistryStep, Regroups
<1>6. CASE JoinVacant(c)
  <2>1. entry.state = "absent" /\ StartSubscribe(c, Absent, None)
    BY <1>6 DEF JoinVacant
  <2>2. RegistryStep
    BY <2>1, AbsentFields, StartSubscribeEffect DEF MaybeServer
  <2>. QED
    BY <1>1, <1>4, <2>1, <2>2, AbsentFields
<1>7. CASE JoinActive(c)
  <2>1. RegistryStep
    BY <1>5, <1>7 DEF JoinActive
  <2>2. Looking \in Calls /\ Looking.pc # "join"
    BY SubscriptionsAssumption DEF Looking, NoCall, Calls, MaybeServer, NoWait, Waits, Gens
  <2>. QED
    BY <1>3, <1>7, <2>1, <2>2 DEF JoinActive
<1>8. CASE JoinDeadConnection(c)
  <2>1. PICK e : e = entry
    OBVIOUS
  <2>2. PICK b : b = [e EXCEPT !.owner = None, !.ownerConn = 0]
    OBVIOUS
  <2>3. /\ entry.state = "active" /\ entry.owner = caller[c].to
        /\ StartSubscribe(c, b, None)
    BY <1>8, <2>1, <2>2, Zenon DEF JoinDeadConnection, OwnerConnectionReplaced
  <2>4. b \in Entries /\ b.owner = None /\ b.ownerConn = 0
    BY <1>0, <2>1, <2>2 DEF Entries, MaybeServer
  <2>5. RegistryStep
    BY <2>3, <2>4, StartSubscribeEffect DEF MaybeServer
  <2>. QED
    BY <1>1, <1>4, <2>3, <2>4, <2>5
<1>9. CASE JoinPending(c)
  BY <1>0, <1>4, <1>5, <1>9 DEF JoinPending
<1>10. CASE JoinDraining(c)
  <2>1. entry.state = "draining" /\ StartSubscribe(c, Absent, entry.prior)
    BY <1>10 DEF JoinDraining
  <2>2. RegistryStep
    BY <1>0, <2>1, AbsentFields, StartSubscribeEffect
  <2>. QED
    BY <1>1, <1>4, <2>1, <2>2, AbsentFields
<1>. QED
  BY <1>6, <1>7, <1>8, <1>9, <1>10 DEF Join

LEMMA LeaveEffect ==
  ASSUME CoreTypes, SideInv, EntryInv, NEW c, Leave(c)
  PROVE  RegistryStep
<1>0. entry \in Entries /\ entry.gen \in Gens /\ route \in MaybeServer
  BY EntryFields DEF CoreTypes, SideInv
<1>. DEFINE rest == entry.members \ {c}
<1>1. CASE rest = {} /\ entry.state \in {"pending", "active"}
  <2>1. PICK m : m = MarkDraining
    OBVIOUS
  <2>2. /\ entry' = [m EXCEPT !.members = {}]
        /\ queued' = queued \cup {DrainTask(entry.gen, route)} /\ nextGen' = nextGen
    BY <1>1, <2>1, Zenon DEF Leave, LeaveEntry, Spawn
  <2>3. /\ m \in Entries /\ m.state = "draining" /\ m.intended = None /\ m.gen = entry.gen
        /\ m.owner = entry.owner /\ m.ownerConn = entry.ownerConn
        /\ entry.owner # None => m.prior = entry.owner
    BY <2>1, MarkDrainingFields
  <2>4. PICK e : e = [m EXCEPT !.members = {}]
    OBVIOUS
  <2>5. /\ e \in Entries /\ e.state = "draining" /\ e.intended = None /\ e.gen = m.gen
        /\ e.owner = m.owner /\ e.ownerConn = m.ownerConn /\ e.prior = m.prior
    BY <2>3, <2>4 DEF Entries
  <2>6. PICK t : t = DrainTask(entry.gen, route)
    OBVIOUS
  <2>7. Spawned(t) /\ t.kind = "drain" /\ t.gen = entry.gen
    BY <1>0, <2>6, DrainTaskFields
  <2>8. Drains(t)
    BY <1>1, <2>2, <2>3, <2>4, <2>5, <2>6, <2>7 DEF Drains
  <2>. QED
    BY <2>8 DEF RegistryStep
<1>2. CASE ~(rest = {} /\ entry.state \in {"pending", "active"})
  <2>1. PICK e, r : e = entry /\ r = rest
    OBVIOUS
  <2>2. /\ entry' = [e EXCEPT !.members = r] /\ UNCHANGED <<nextGen, queued>>
    BY <1>2, <2>1, Zenon DEF Leave, LeaveEntry
  <2>3. PICK f : f = [e EXCEPT !.members = r]
    OBVIOUS
  <2>4. /\ f \in Entries /\ f.state = e.state /\ f.gen = e.gen /\ f.intended = e.intended
        /\ f.owner = e.owner /\ f.ownerConn = e.ownerConn /\ f.prior = e.prior
        /\ f.members = r
    BY <1>0, <2>1, <2>3 DEF Entries
  <2>. QED
    BY <1>2, <2>1, <2>2, <2>3, <2>4 DEF RegistryStep, Regroups
<1>. QED
  BY <1>1, <1>2

-----------------------------------------------------------------------------
(* A step of the registry preserves the invariant. *)

LEMMA StartsInv ==
  ASSUME CoreInv, NEW t, Starts(t), running' = running, UNCHANGED upstreams
  PROVE  CoreInv'
<1>. USE SubscriptionsAssumption
<1>0. /\ conn' = conn /\ dials' = dials /\ held' = held /\ stuck' = stuck
      /\ undone' = undone
  BY DEF upstreams
<1>1. /\ CoreTypes /\ TaskInv /\ EntryInv /\ GenInv /\ OneStart /\ LateInv
      /\ BackedInv /\ CoverInv
  BY DEF CoreInv
<1>2. /\ t \in Transitions /\ t.pc = "queued" /\ SaneTask(t) /\ t.kind \in StartKinds
      /\ t.gen = nextGen /\ nextGen <= MaxGen /\ nextGen' = nextGen + 1
      /\ queued' = queued \cup {t} /\ entry' \in Entries /\ entry'.state = "pending"
      /\ entry'.gen = nextGen /\ entry'.intended # None /\ entry'.prior = None
      /\ entry'.members # {} /\ entry'.ownerConn <= dials + 1
  BY DEF Starts, Spawned
<1>3. /\ nextGen \in Nat /\ running.gen \in Nat /\ \A u \in queued : u.gen \in Nat
  BY <1>1, TaskFields DEF CoreTypes
<1>4. \A u \in queued : u.gen < nextGen
  BY <1>1 DEF GenInv
<1>5. running.gen < nextGen
  BY <1>1 DEF GenInv
<1>6. CoreTypes'
  BY <1>0, <1>1, <1>2, <1>3 DEF CoreTypes
<1>7. TaskInv'
  BY <1>0, <1>1, <1>2 DEF TaskInv, SaneTask, SaneRun
<1>8. EntryInv'
  BY <1>0, <1>1, <1>2 DEF EntryInv
<1>9. GenInv'
  BY <1>2, <1>3, <1>4, <1>5 DEF GenInv, StartKinds
<1>10. OneStart'
  BY <1>1, <1>2, <1>3, <1>4, <1>5 DEF OneStart
<1>11. LateInv'
  BY <1>1, <1>2, <1>3, <1>5 DEF LateInv
<1>12. BackedInv'
  BY <1>2 DEF BackedInv, AtWork
<1>13. CoverInv'
  <2>1. ASSUME NEW s \in Live' PROVE Covered(s)'
    <3>1. s \in Live /\ Covered(s)
      BY <1>0, <1>1, <2>1 DEF Live, CoverInv
    <3>2. CASE \E u \in queued : Takes(u, s)
      BY <1>2, <3>2 DEF Covered, Takes
    <3>3. CASE Takes(running, s)
      BY <3>3 DEF Covered, Takes
    <3>4. CASE entry.state # "absent" /\ entry.owner = s
      <4>1. CASE entry'.owner = entry.owner
        BY <1>2, <3>4, <4>1 DEF Covered
      <4>2. CASE t.kind = "sub"
        <5>1. t.displaced = s \/ t.to = s
          BY <1>1, <3>1, <3>4, <4>2 DEF Starts, CoverInv
        <5>. QED
          BY <1>2, <4>2, <5>1 DEF Covered, Takes
      <4>. QED
        BY <4>1, <4>2 DEF Starts
    <3>. QED
      BY <3>1, <3>2, <3>3, <3>4 DEF Covered
  <2>2. ~Current'
    BY <1>2, <1>3, <1>5 DEF Current
  <2>3. \A u \in queued' : u.kind = "sub" /\ u.gen = entry'.gen => entry'.owner = None
    <3>1. t.kind = "sub" => entry'.owner = None
      BY DEF Starts
    <3>. QED
      BY <1>2, <1>3, <1>4, <3>1
  <2>4. entry'.gen # running'.gen
    BY <1>2, <1>3, <1>5
  <2>. QED
    BY <1>0, <1>1, <1>2, <2>1, <2>2, <2>3, <2>4 DEF CoverInv
<1>. QED
  BY <1>6, <1>7, <1>8, <1>9, <1>10, <1>11, <1>12, <1>13 DEF CoreInv

LEMMA DrainsInv ==
  ASSUME CoreInv, NEW t, Drains(t), running' = running, UNCHANGED upstreams
  PROVE  CoreInv'
<1>. USE SubscriptionsAssumption
<1>0. /\ conn' = conn /\ dials' = dials /\ held' = held /\ stuck' = stuck
      /\ undone' = undone
  BY DEF upstreams
<1>1. /\ CoreTypes /\ TaskInv /\ EntryInv /\ GenInv /\ OneStart /\ LateInv
      /\ BackedInv /\ CoverInv
  BY DEF CoreInv
<1>2. /\ t \in Transitions /\ t.pc = "queued" /\ SaneTask(t) /\ t.kind = "drain"
      /\ t.gen = entry'.gen /\ queued' = queued \cup {t} /\ entry.state # "absent"
      /\ entry' \in Entries /\ entry'.state = "draining" /\ entry'.intended = None
      /\ entry'.owner = entry.owner /\ entry'.ownerConn = entry.ownerConn
      /\ entry.owner # None => entry'.prior = entry.owner
  BY DEF Drains, Spawned
<1>3. \/ entry'.gen = entry.gen /\ nextGen' = nextGen
      \/ entry'.gen = nextGen /\ nextGen <= MaxGen /\ nextGen' = nextGen + 1
  BY DEF Drains
<1>4. /\ nextGen \in Nat /\ running.gen \in Nat /\ entry.gen \in Nat
      /\ \A u \in queued : u.gen \in Nat
  BY <1>1, TaskFields, EntryFields DEF CoreTypes
<1>5. /\ running.gen < nextGen /\ entry.gen < nextGen /\ running.gen <= entry.gen
      /\ \A u \in queued : u.gen < nextGen /\ u.gen <= entry.gen
  BY <1>1, <1>2 DEF GenInv
<1>6. CoreTypes'
  BY <1>0, <1>1, <1>2, <1>3, <1>4 DEF CoreTypes
<1>7. TaskInv'
  BY <1>0, <1>1, <1>2 DEF TaskInv, SaneTask, SaneRun
<1>8. EntryInv'
  BY <1>0, <1>1, <1>2 DEF EntryInv
<1>9. GenInv'
  BY <1>2, <1>3, <1>4, <1>5 DEF GenInv
<1>10. OneStart'
  BY <1>1, <1>2 DEF OneStart, StartKinds
<1>11. LateInv'
  <2>1. t.gen >= running.gen
    BY <1>2, <1>3, <1>4, <1>5
  <2>2. t.gen \in Nat
    BY <1>2, TaskFields
  <2>. QED
    BY <1>1, <1>2, <1>4, <2>1, <2>2 DEF LateInv
<1>12. BackedInv'
  BY <1>2 DEF BackedInv, AtWork
<1>13. CoverInv'
  <2>1. ASSUME NEW s \in Live' PROVE Covered(s)'
    <3>1. s \in Live /\ Covered(s)
      BY <1>0, <1>1, <2>1 DEF Live, CoverInv
    <3>2. CASE \E u \in queued : Takes(u, s)
      BY <1>2, <3>2 DEF Covered, Takes
    <3>3. CASE Takes(running, s)
      BY <3>3 DEF Covered, Takes
    <3>4. CASE entry.state # "absent" /\ entry.owner = s
      BY <1>2, <3>4 DEF Covered
    <3>. QED
      BY <3>1, <3>2, <3>3, <3>4 DEF Covered
  <2>2. Current' => Current
    BY <1>2, <1>3, <1>4, <1>5 DEF Current
  <2>3. /\ running.gen = entry'.gen => running.gen = entry.gen
        /\ \A u \in queued : u.gen = entry'.gen => u.gen = entry.gen
    BY <1>3, <1>4, <1>5
  <2>4. \A u \in queued' : u.kind = "sub" /\ u.gen = entry'.gen => entry'.owner = None
    BY <1>1, <1>2, <2>3 DEF CoverInv
  <2>5. running.kind = "sub" /\ running.gen = entry'.gen => entry'.owner = None
    BY <1>1, <1>2, <2>3 DEF CoverInv
  <2>6. Live' = Live
    BY <1>0 DEF Live
  <2>7. entry'.owner \in Live' => entry'.prior = entry'.owner
    BY <1>1, <1>2, <2>6 DEF Live, CoreTypes
  <2>. QED
    BY <1>0, <1>1, <1>2, <2>1, <2>2, <2>4, <2>5, <2>6, <2>7 DEF CoverInv
<1>. QED
  BY <1>6, <1>7, <1>8, <1>9, <1>10, <1>11, <1>12, <1>13 DEF CoreInv

LEMMA RegroupsInv ==
  ASSUME CoreInv, Regroups, running' = running, UNCHANGED upstreams
  PROVE  CoreInv'
<1>0. /\ conn' = conn /\ dials' = dials /\ held' = held /\ stuck' = stuck
      /\ undone' = undone
  BY DEF upstreams
<1>1. /\ CoreTypes /\ TaskInv /\ EntryInv /\ GenInv /\ OneStart /\ LateInv
      /\ BackedInv /\ CoverInv
  BY DEF CoreInv
<1>2. /\ nextGen' = nextGen /\ queued' = queued
      /\ entry' \in Entries /\ entry'.state = entry.state /\ entry'.gen = entry.gen
      /\ entry'.intended = entry.intended /\ entry'.owner = entry.owner
      /\ entry'.ownerConn = entry.ownerConn /\ entry'.prior = entry.prior
      /\ entry.state \in {"pending", "active"} => entry'.members # {}
  BY DEF Regroups
<1>6. CoreTypes'
  BY <1>0, <1>1, <1>2 DEF CoreTypes
<1>7. TaskInv'
  BY <1>0, <1>1, <1>2 DEF TaskInv, SaneTask, SaneRun
<1>8. EntryInv'
  BY <1>0, <1>1, <1>2 DEF EntryInv
<1>9. GenInv'
  BY <1>1, <1>2 DEF GenInv
<1>10. OneStart'
  BY <1>1, <1>2 DEF OneStart
<1>11. LateInv'
  BY <1>1, <1>2 DEF LateInv
<1>12. BackedInv'
  BY <1>0, <1>1, <1>2 DEF BackedInv, AtWork
<1>13. CoverInv'
  <2>1. Live' = Live /\ Current' = Current /\ \A s : Covered(s)' = Covered(s)
    BY <1>0, <1>2 DEF Live, Current, Covered
  <2>. QED
    BY <1>0, <1>1, <1>2, <2>1 DEF CoverInv
<1>. QED
  BY <1>6, <1>7, <1>8, <1>9, <1>10, <1>11, <1>12, <1>13 DEF CoreInv

LEMMA RegistryStepInv ==
  ASSUME CoreInv, RegistryStep, running' = running, UNCHANGED upstreams
  PROVE  CoreInv'
  BY StartsInv, DrainsInv, RegroupsInv DEF RegistryStep

-----------------------------------------------------------------------------
(* The transition lock is taken. *)

Passed(u, t) == [u EXCEPT !.late = @ \/ SpawnedBefore(u, t)]

LEMMA PassedFields ==
  ASSUME NEW u \in Transitions, NEW t
  PROVE  /\ Passed(u, t) \in Transitions /\ Passed(u, t).pc = u.pc
         /\ Passed(u, t).kind = u.kind /\ Passed(u, t).gen = u.gen
         /\ Passed(u, t).to = u.to /\ Passed(u, t).toConn = u.toConn
         /\ Passed(u, t).old = u.old /\ Passed(u, t).oldConn = u.oldConn
         /\ Passed(u, t).displaced = u.displaced
         /\ u.late => Passed(u, t).late
         /\ SpawnedBefore(u, t) => Passed(u, t).late
<1>1. PICK b \in BOOLEAN : b <=> (u.late \/ SpawnedBefore(u, t))
  OBVIOUS
<1>2. u.late \in BOOLEAN
  BY TaskFields
<1>3. (u.late \/ SpawnedBefore(u, t)) = b
  BY <1>1, <1>2, Zenon DEF SpawnedBefore
<1>4. Passed(u, t) = [u EXCEPT !.late = b]
  BY <1>3, Zenon DEF Passed
<1>5. ASSUME NEW w, w = [u EXCEPT !.late = b]
      PROVE  /\ w \in Transitions /\ w.pc = u.pc /\ w.kind = u.kind /\ w.gen = u.gen
             /\ w.to = u.to /\ w.toConn = u.toConn /\ w.old = u.old
             /\ w.oldConn = u.oldConn /\ w.displaced = u.displaced
             /\ w.late = b
  <2>1. CASE b = TRUE
    BY <1>5, <2>1 DEF Transitions
  <2>2. CASE b = FALSE
    BY <1>5, <2>2 DEF Transitions
  <2>. QED
    BY <2>1, <2>2
<1>6. Passed(u, t).late = b
  BY <1>4, <1>5, Zenon
<1>7. (u.late => Passed(u, t).late) /\ (SpawnedBefore(u, t) => Passed(u, t).late)
  BY <1>1, <1>6, Zenon
<1>. QED
  BY <1>4, <1>5, <1>7, Zenon

LEMMA AcquireInv ==
  ASSUME CoreInv, Acquire
  PROVE  CoreInv'
<1>. USE SubscriptionsAssumption
<1>1. /\ CoreTypes /\ TaskInv /\ EntryInv /\ GenInv /\ OneStart /\ LateInv
      /\ BackedInv /\ CoverInv
  BY DEF CoreInv
<1>2. PICK t \in queued : /\ queued' = {Passed(u, t) : u \in queued \ {t}}
                          /\ running' = [t EXCEPT !.pc = "locked"]
  BY Zenon DEF Acquire, Passed
<1>3. /\ running = Free /\ entry' = entry /\ nextGen' = nextGen
      /\ conn' = conn /\ dials' = dials /\ held' = held /\ stuck' = stuck
      /\ undone' = undone
  BY DEF Acquire, upstreams
<1>4. t \in Transitions /\ t.pc = "queued" /\ SaneTask(t)
  BY <1>1 DEF CoreTypes, TaskInv
<1>5. PICK r : r = [t EXCEPT !.pc = "locked"]
  OBVIOUS
<1>6. /\ r \in Transitions /\ r.pc = "locked" /\ r.kind = t.kind /\ r.gen = t.gen
      /\ r.to = t.to /\ r.toConn = t.toConn /\ r.old = t.old /\ r.oldConn = t.oldConn
      /\ r.displaced = t.displaced /\ r.late = t.late
  BY <1>4, <1>5 DEF Transitions
<1>7. running' = r
  BY <1>2, <1>5
<1>8. /\ running'.pc = "locked" /\ running'.kind = t.kind /\ running'.gen = t.gen
      /\ running'.to = t.to /\ running'.displaced = t.displaced
      /\ running'.late = t.late /\ running' \in Transitions
  BY <1>6, <1>7
<1>9. \A w \in queued' : \E u \in queued \ {t} :
          /\ w \in Transitions /\ w.pc = u.pc /\ w.kind = u.kind /\ w.gen = u.gen
          /\ w.to = u.to /\ w.toConn = u.toConn /\ w.old = u.old /\ w.oldConn = u.oldConn
          /\ w.displaced = u.displaced /\ (u.late => w.late)
          /\ (SpawnedBefore(u, t) => w.late) /\ w = Passed(u, t)
  <2>1. ASSUME NEW w \in queued'
        PROVE  \E u \in queued \ {t} :
          /\ w \in Transitions /\ w.pc = u.pc /\ w.kind = u.kind /\ w.gen = u.gen
          /\ w.to = u.to /\ w.toConn = u.toConn /\ w.old = u.old /\ w.oldConn = u.oldConn
          /\ w.displaced = u.displaced /\ (u.late => w.late)
          /\ (SpawnedBefore(u, t) => w.late) /\ w = Passed(u, t)
    <3>1. PICK u \in queued \ {t} : w = Passed(u, t)
      BY <1>2, <2>1
    <3>2. u \in Transitions
      BY <1>1 DEF CoreTypes
    <3>. QED
      BY <3>1, <3>2, PassedFields, Zenon
  <2>. QED
    BY <2>1
<1>10. \A u \in queued \ {t} : Passed(u, t) \in queued'
  BY <1>2
<1>11. /\ t.gen \in Nat /\ t.kind \in WorkKinds /\ t.gen < nextGen
  BY <1>1, <1>4, TaskFields DEF SaneTask, GenInv
<1>12. CoreTypes'
  BY <1>1, <1>3, <1>8, <1>9 DEF CoreTypes
<1>13. SaneTask(r)'
  BY <1>3, <1>4, <1>6 DEF SaneTask
<1>14. TaskInv'
  <2>1. ASSUME NEW w \in queued' PROVE w.pc = "queued" /\ SaneTask(w)'
    <3>1. PICK u \in queued \ {t} :
          /\ w.pc = u.pc /\ w.kind = u.kind /\ w.to = u.to /\ w.toConn = u.toConn
          /\ w.old = u.old /\ w.oldConn = u.oldConn
      BY <1>9, <2>1
    <3>. QED
      BY <1>1, <1>3, <3>1 DEF TaskInv, SaneTask
  <2>2. SaneRun'
    BY <1>7, <1>8, <1>13 DEF SaneRun
  <2>. QED
    BY <2>1, <2>2 DEF TaskInv
<1>15. EntryInv'
  BY <1>1, <1>3 DEF EntryInv
<1>16. GenInv'
  <2>1. \A w \in queued' : \E u \in queued : w.kind = u.kind /\ w.gen = u.gen
    BY <1>9
  <2>. QED
    BY <1>1, <1>3, <1>8, <2>1 DEF GenInv
<1>17. OneStart'
  <2>1. ASSUME NEW w \in queued', NEW x \in queued',
               w.kind \in StartKinds, x.kind \in StartKinds, w.gen = x.gen
        PROVE  w = x
    <3>1. PICK u \in queued \ {t} : w.kind = u.kind /\ w.gen = u.gen /\ w = Passed(u, t)
      BY <1>9, <2>1
    <3>2. PICK v \in queued \ {t} : x.kind = v.kind /\ x.gen = v.gen /\ x = Passed(v, t)
      BY <1>9, <2>1
    <3>3. u = v
      BY <1>1, <2>1, <3>1, <3>2 DEF OneStart
    <3>. QED
      BY <3>1, <3>2, <3>3
  <2>2. ASSUME running'.kind \in StartKinds, NEW w \in queued', w.kind \in StartKinds
        PROVE  w.gen # running'.gen
    <3>1. PICK u \in queued \ {t} : w.kind = u.kind /\ w.gen = u.gen
      BY <1>9, <2>2
    <3>. QED
      BY <1>1, <1>8, <2>2, <3>1 DEF OneStart
  <2>. QED
    BY <2>1, <2>2 DEF OneStart
<1>18. LateInv'
  <2>1. ASSUME NEW w \in queued'
        PROVE  /\ w.gen < running'.gen => w.late
               /\ entry'.state = "active" => w.gen < entry'.gen /\ w.late
    <3>1. PICK u \in queued \ {t} :
             w.gen = u.gen /\ (u.late => w.late) /\ (SpawnedBefore(u, t) => w.late)
      BY <1>9, <2>1
    <3>. QED
      BY <1>1, <1>3, <1>8, <3>1 DEF LateInv, SpawnedBefore
  <2>2. entry'.state = "active" => running'.gen < entry'.gen /\ running'.late
    BY <1>1, <1>3, <1>8 DEF LateInv
  <2>. QED
    BY <2>1, <2>2 DEF LateInv
<1>19. BackedInv'
  <2>1. ASSUME NEW kinds \in {StartKinds, {"drain"}}, AtWork(kinds) PROVE AtWork(kinds)'
    <3>1. PICK u \in queued \cup {running} : u.gen = entry.gen /\ u.kind \in kinds
      BY <2>1 DEF AtWork
    <3>2. u \in queued
      BY <1>3, <3>1, FreeFields DEF StartKinds
    <3>3. CASE u = t
      BY <1>3, <1>8, <3>1, <3>3 DEF AtWork
    <3>4. CASE u # t
      <4>1. u \in Transitions
        BY <1>1, <3>2 DEF CoreTypes
      <4>2. Passed(u, t).gen = u.gen /\ Passed(u, t).kind = u.kind
        BY <4>1, PassedFields
      <4>. QED
        BY <1>3, <1>10, <3>1, <3>2, <3>4, <4>2 DEF AtWork
    <3>. QED
      BY <3>3, <3>4
  <2>. QED
    BY <1>1, <1>3, <2>1 DEF BackedInv
<1>20. CoverInv'
  <2>1. ASSUME NEW s \in Live' PROVE Covered(s)'
    <3>1. Covered(s)
      BY <1>1, <1>3, <2>1 DEF Live, CoverInv
    <3>2. CASE entry.state # "absent" /\ entry.owner = s
      BY <1>3, <3>2 DEF Covered
    <3>3. CASE Takes(running, s)
      BY <1>3, <3>3, FreeFields DEF Takes
    <3>4. ASSUME NEW u \in queued, Takes(u, s) PROVE Covered(s)'
      <4>1. CASE u = t
        <5>1. Takes(running', s)
          BY <1>8, <3>4, <4>1 DEF Takes
        <5>. QED
          BY <5>1 DEF Covered, Takes
      <4>2. CASE u # t
        <5>1. u \in Transitions
          BY <1>1, <3>4 DEF CoreTypes
        <5>2. Takes(Passed(u, t), s)
          BY <3>4, <5>1, PassedFields DEF Takes
        <5>. QED
          BY <1>10, <3>4, <4>2, <5>2 DEF Covered, Takes
      <4>. QED
        BY <4>1, <4>2
    <3>. QED
      BY <3>1, <3>2, <3>3, <3>4 DEF Covered
  <2>2. entry'.state # "absent" =>
          /\ running'.kind = "sub" /\ running'.gen = entry'.gen => entry'.owner = None
          /\ \A w \in queued' : w.kind = "sub" /\ w.gen = entry'.gen => entry'.owner = None
    <3>1. \A w \in queued' : \E u \in queued : w.kind = u.kind /\ w.gen = u.gen
      BY <1>9
    <3>. QED
      BY <1>1, <1>3, <1>8, <3>1 DEF CoverInv
  <2>3. Live' = Live
    BY <1>3 DEF Live
  <2>. QED
    BY <1>1, <1>3, <1>8, <2>1, <2>2, <2>3 DEF CoverInv
<1>. QED
  BY <1>12, <1>14, <1>15, <1>16, <1>17, <1>18, <1>19, <1>20 DEF CoreInv

-----------------------------------------------------------------------------
(* The task that holds the lock goes on. *)

Moves(p) ==
    /\ running' \in Transitions /\ running'.pc = p /\ p \in {"release", "released", "call"}
    /\ running'.kind = running.kind /\ running'.gen = running.gen
    /\ running'.to = running.to /\ running'.toConn = running.toConn
    /\ running'.old = running.old /\ running'.oldConn = running.oldConn
    /\ running'.displaced = running.displaced /\ running'.release = running.release
    /\ running'.late = running.late
    /\ UNCHANGED <<entry, nextGen, queued, conn, dials>>

\* What may become of the subscriptions meanwhile.
Drops ==
    /\ held' \subseteq held /\ stuck' \subseteq Servers /\ undone' \subseteq Servers
    /\ Live' \subseteq Live
    /\ running.late => held \cup undone \subseteq held' \cup undone'

LEMMA MovesInv ==
  ASSUME CoreInv, NEW p, Moves(p), running # Free, Drops,
         running.late \/ entry.state # "active",
         p \in {"released", "call"} => running.kind \in StartKinds,
         p = "call" => running.toConn # 0,
         p = "release" => running'.callee \in Servers,
         \A s \in Live' : Takes(running, s) => Takes(running', s),
         p = "release" =>
          /\ running'.kind = "sub" => running'.callee = running'.displaced
          /\ running'.kind # "sub" /\ Current /\ entry.owner # None =>
                running'.callee = entry.owner
          /\ running'.kind = "sub" \/ (Current /\ entry.owner # None) =>
                (running'.callee \in held' => conn[running'.callee] = running'.calleeConn),
         running'.kind = "rebind" /\ Current /\ entry.owner \in Live' =>
          /\ running'.pc # "released"
          /\ running'.pc = "call" => entry.owner = running'.to
  PROVE  CoreInv'
<1>1. /\ CoreTypes /\ TaskInv /\ EntryInv /\ GenInv /\ OneStart /\ LateInv
      /\ BackedInv /\ CoverInv
  BY DEF CoreInv
<1>2. /\ entry' = entry /\ nextGen' = nextGen /\ queued' = queued /\ conn' = conn
      /\ dials' = dials /\ running' \in Transitions /\ running'.pc = p
      /\ p \in {"release", "released", "call"}
      /\ running'.kind = running.kind /\ running'.gen = running.gen
      /\ running'.to = running.to /\ running'.toConn = running.toConn
      /\ running'.old = running.old /\ running'.oldConn = running.oldConn
      /\ running'.displaced = running.displaced /\ running'.late = running.late
  BY DEF Moves
<1>3. CoreTypes'
  BY <1>1, <1>2 DEF CoreTypes, Drops
<1>4. SaneRun
  BY <1>1 DEF TaskInv
<1>5. TaskInv'
  <2>1. SaneTask(running)'
    BY <1>2, <1>4 DEF SaneRun, SaneTask
  <2>2. SaneRun'
    BY <1>2, <2>1 DEF SaneRun
  <2>. QED
    BY <1>1, <1>2, <2>2 DEF TaskInv, SaneTask
<1>6. EntryInv'
  BY <1>1, <1>2 DEF EntryInv
<1>7. GenInv'
  BY <1>1, <1>2 DEF GenInv
<1>8. OneStart'
  BY <1>1, <1>2 DEF OneStart
<1>9. LateInv'
  <2>1. entry.state = "active" => running.gen < entry.gen /\ running.late
    BY <1>1 DEF LateInv
  <2>2. \A t \in queued : t.gen < running.gen => t.late
    BY <1>1 DEF LateInv
  <2>. QED
    BY <1>1, <1>2, <2>1, <2>2 DEF LateInv
<1>10. BackedInv'
  <2>1. \A kinds : AtWork(kinds) => AtWork(kinds)'
    BY <1>2 DEF AtWork
  <2>2. entry.state = "active" => held \cup undone \subseteq held' \cup undone'
    BY DEF Drops
  <2>. QED
    BY <1>1, <1>2, <2>1, <2>2 DEF BackedInv
<1>11. CoverInv'
  <2>1. ASSUME NEW s \in Live' PROVE Covered(s)'
    <3>1. Covered(s)
      BY <1>1, <2>1 DEF CoverInv, Drops
    <3>2. Takes(running, s) => Takes(running', s)
      BY <2>1
    <3>. QED
      BY <1>2, <3>1, <3>2 DEF Covered, Takes
  <2>2. Current' = Current
    BY <1>2 DEF Current
  <2>3. \A s \in held' : conn'[s] # 0
    BY <1>1, <1>2 DEF CoverInv, Drops
  <2>4. entry'.state = "draining" /\ entry'.owner \in Live' => entry'.prior = entry'.owner
    BY <1>1, <1>2 DEF CoverInv, Drops
  <2>5. entry'.state # "absent" =>
          /\ running'.kind = "sub" /\ running'.gen = entry'.gen => entry'.owner = None
          /\ \A t \in queued' : t.kind = "sub" /\ t.gen = entry'.gen => entry'.owner = None
    BY <1>1, <1>2 DEF CoverInv
  <2>. QED
    BY <1>2, <2>1, <2>2, <2>3, <2>4, <2>5 DEF CoverInv
<1>. QED
  BY <1>3, <1>5, <1>6, <1>7, <1>8, <1>9, <1>10, <1>11 DEF CoreInv

\* The task gives up the lock and, if the entry is still its own, removes it.
LEMMA RemovesInv ==
  ASSUME CoreInv, running # Free, running' = Free, RemoveIfCurrent, Drops,
         UNCHANGED <<nextGen, queued, conn, dials>>,
         \A s \in Live' : ~Takes(running, s),
         Current => entry.owner \notin Live'
  PROVE  CoreInv'
<1>. USE SubscriptionsAssumption
<1>1. /\ CoreTypes /\ TaskInv /\ EntryInv /\ GenInv /\ OneStart /\ LateInv
      /\ BackedInv /\ CoverInv
  BY DEF CoreInv
<1>2. /\ nextGen' = nextGen /\ queued' = queued /\ conn' = conn /\ dials' = dials
  OBVIOUS
<1>3. /\ Free \in Transitions /\ Free.kind = "none" /\ Free.gen = 0 /\ Free.pc = "free"
  BY FreeFields
<1>4. dials \in Nat /\ nextGen \in Nat /\ nextGen > 0
  BY <1>1 DEF CoreTypes
<1>5. CASE Current
  <2>1. entry' = Absent
    BY <1>5 DEF RemoveIfCurrent
  <2>2. /\ Absent \in Entries /\ Absent.state = "absent" /\ Absent.gen = 0
        /\ Absent.intended = None /\ Absent.ownerConn = 0 /\ Absent.prior = None
        /\ Absent.owner = None
    BY AbsentFields
  <2>3. CoreTypes'
    BY <1>1, <1>2, <1>3, <2>1, <2>2 DEF CoreTypes, Drops
  <2>4. TaskInv'
    BY <1>1, <1>2 DEF TaskInv, SaneTask
  <2>5. EntryInv'
    BY <1>1, <1>2, <1>4, <2>1, <2>2 DEF EntryInv
  <2>6. GenInv'
    BY <1>1, <1>2, <1>3, <1>4, <2>1, <2>2 DEF GenInv
  <2>7. OneStart'
    BY <1>1, <1>2, <1>3 DEF OneStart, StartKinds
  <2>8. LateInv'
    BY <2>1, <2>2 DEF LateInv
  <2>9. BackedInv'
    BY <2>1, <2>2 DEF BackedInv
  <2>10. CoverInv'
    <3>1. ASSUME NEW s \in Live' PROVE Covered(s)'
      <4>1. Covered(s) /\ ~Takes(running, s) /\ entry.owner # s
        BY <1>1, <1>5, <3>1 DEF CoverInv, Drops
      <4>. QED
        BY <1>2, <4>1 DEF Covered, Takes
    <3>. QED
      BY <1>1, <1>2, <1>3, <2>1, <2>2, <3>1 DEF CoverInv, Drops
  <2>. QED
    BY <2>3, <2>4, <2>5, <2>6, <2>7, <2>8, <2>9, <2>10 DEF CoreInv
<1>6. CASE ~Current
  <2>1. entry' = entry
    BY <1>6 DEF RemoveIfCurrent
  <2>3. CoreTypes'
    BY <1>1, <1>2, <1>3, <2>1 DEF CoreTypes, Drops
  <2>4. TaskInv'
    BY <1>1, <1>2 DEF TaskInv, SaneTask
  <2>5. EntryInv'
    BY <1>1, <1>2, <2>1 DEF EntryInv
  <2>6. GenInv'
    <3>1. entry.gen \in Nat
      BY <1>1, EntryFields DEF CoreTypes
    <3>. QED
      BY <1>1, <1>2, <1>3, <1>4, <2>1, <3>1 DEF GenInv
  <2>7. OneStart'
    BY <1>1, <1>2, <1>3 DEF OneStart, StartKinds
  <2>8. LateInv'
    BY <1>1, <1>2, <2>1 DEF LateInv
  <2>9. BackedInv'
    <3>1. ASSUME NEW kinds, entry.state # "absent", AtWork(kinds) PROVE AtWork(kinds)'
      <4>1. PICK u \in queued \cup {running} : u.gen = entry.gen /\ u.kind \in kinds
        BY <3>1 DEF AtWork
      <4>2. u \in queued
        BY <1>6, <3>1, <4>1 DEF Current
      <4>. QED
        BY <1>2, <2>1, <4>1, <4>2 DEF AtWork
    <3>2. entry.state = "active" => held \cup undone \subseteq held' \cup undone'
      BY <1>1 DEF LateInv, Drops
    <3>. QED
      BY <1>1, <1>2, <2>1, <3>1, <3>2 DEF BackedInv
  <2>10. CoverInv'
    <3>1. ASSUME NEW s \in Live' PROVE Covered(s)'
      <4>1. Covered(s) /\ ~Takes(running, s)
        BY <1>1, <3>1 DEF CoverInv, Drops
      <4>. QED
        BY <1>2, <2>1, <4>1 DEF Covered, Takes
    <3>2. entry'.state = "draining" /\ entry'.owner \in Live' => entry'.prior = entry'.owner
      BY <1>1, <2>1 DEF CoverInv, Drops
    <3>. QED
      BY <1>1, <1>2, <1>3, <2>1, <3>1, <3>2 DEF CoverInv, Drops
  <2>. QED
    BY <2>3, <2>4, <2>5, <2>6, <2>7, <2>8, <2>9, <2>10 DEF CoreInv
<1>. QED
  BY <1>5, <1>6

SetPc(p) == running' = [running EXCEPT !.pc = p]

LEMMA SetPcMoves ==
  ASSUME CoreTypes, NEW p \in {"released", "call"}, SetPc(p),
         UNCHANGED <<entry, nextGen, queued, conn, dials>>
  PROVE  Moves(p)
<1>1. PICK r : r = running
  OBVIOUS
<1>2. r \in Transitions /\ running' = [r EXCEPT !.pc = p]
  BY <1>1, Zenon DEF CoreTypes, SetPc
<1>3. PICK q : q = [r EXCEPT !.pc = p]
  OBVIOUS
<1>4. /\ q \in Transitions /\ q.pc = p /\ q.kind = r.kind /\ q.gen = r.gen /\ q.to = r.to
      /\ q.toConn = r.toConn /\ q.old = r.old /\ q.oldConn = r.oldConn
      /\ q.displaced = r.displaced /\ q.release = r.release /\ q.late = r.late
  BY <1>2, <1>3 DEF Transitions
<1>5. running' = q
  BY <1>2, <1>3
<1>. QED
  BY <1>1, <1>4, <1>5 DEF Moves

LEMMA SendReleaseMoves ==
  ASSUME CoreTypes, NEW s \in MaybeServer, NEW h \in Nat, SendRelease(s, h),
         UNCHANGED <<entry, nextGen, queued, conn, dials>>
  PROVE  Moves("release") /\ running'.callee = s /\ running'.calleeConn = h
<1>1. PICK r : r = running
  OBVIOUS
<1>2. r \in Transitions /\ running' = [r EXCEPT !.pc = "release", !.callee = s, !.calleeConn = h]
  BY <1>1, Zenon DEF CoreTypes, SendRelease
<1>3. PICK q : q = [r EXCEPT !.pc = "release", !.callee = s, !.calleeConn = h]
  OBVIOUS
<1>4. /\ q \in Transitions /\ q.pc = "release" /\ q.kind = r.kind /\ q.gen = r.gen
      /\ q.to = r.to /\ q.toConn = r.toConn /\ q.old = r.old /\ q.oldConn = r.oldConn
      /\ q.displaced = r.displaced /\ q.release = r.release /\ q.late = r.late
      /\ q.callee = s /\ q.calleeConn = h
  BY <1>2, <1>3 DEF Transitions
<1>5. running' = q
  BY <1>2, <1>3
<1>. QED
  BY <1>1, <1>4, <1>5 DEF Moves

LEMMA SameDrops ==
  ASSUME CoreTypes, held' = held, stuck \subseteq stuck', stuck' \subseteq Servers,
         undone' = undone
  PROVE  Drops
  BY DEF Drops, Live, CoreTypes

LEMMA ReleasedFacts ==
  ASSUME CoreInv, running.pc = "release", NEW ok \in BOOLEAN, Released(ok)
  PROVE  /\ Drops /\ conn' = conn /\ dials' = dials
         /\ running.kind = "sub" \/ (Current /\ entry.owner # None) =>
               running.callee \notin Live'
<1>1. running # Free /\ running.callee \in Servers
  BY FreeFields DEF CoreInv, TaskInv, SaneRun
<1>2. CoreTypes
  BY DEF CoreInv
<1>3. /\ conn' = conn /\ dials' = dials
      /\ ok /\ conn[running.callee] = running.calleeConn =>
            /\ held' = held \ {running.callee} /\ stuck' = stuck \ {running.callee}
            /\ undone' = IF running.late THEN undone \cup {running.callee} ELSE undone
      /\ ~ok /\ conn[running.callee] = running.calleeConn =>
            held' = held /\ stuck' = stuck \cup {running.callee} /\ undone' = undone
      /\ conn[running.callee] # running.calleeConn =>
            held' = held /\ stuck' = stuck /\ undone' = undone
  BY DEF Released
<1>4. Drops
  BY <1>1, <1>2, <1>3 DEF Drops, Live, CoreTypes
<1>5. running.kind = "sub" \/ (Current /\ entry.owner # None) =>
          (running.callee \in held => conn[running.callee] = running.calleeConn)
  BY DEF CoreInv, CoverInv
<1>. QED
  BY <1>3, <1>4, <1>5 DEF Live

\* What is common to the steps of the task that holds the lock.
LEMMA RunFacts ==
  ASSUME CoreInv, running.kind \in WorkKinds
  PROVE  /\ running # Free /\ SaneRun /\ CoreTypes /\ running \in Transitions
         /\ running.late \/ entry.state # "active"
         /\ Live \subseteq Servers /\ None \notin Live
  BY FreeFields, SubscriptionsAssumption
     DEF CoreInv, CoreTypes, TaskInv, LateInv, WorkKinds, Live

LEMMA SubReleasesInv ==
  ASSUME CoreInv, SubReleases
  PROVE  CoreInv'
<1>1. /\ running.kind = "sub" /\ running.pc = "locked" /\ SubDisplaces
      /\ SendRelease(running.displaced, conn[running.displaced])
      /\ UNCHANGED <<entry, nextGen, queued, conn, dials>>
      /\ held' = held /\ stuck' = stuck /\ undone' = undone
  BY DEF SubReleases, upstreams
<1>2. /\ running # Free /\ SaneRun /\ CoreTypes /\ running \in Transitions
      /\ running.late \/ entry.state # "active"
  BY <1>1, RunFacts DEF WorkKinds
<1>3. running.displaced \in Servers /\ conn[running.displaced] \in Nat
  BY <1>1, <1>2, TaskFields DEF SubDisplaces, MaybeServer, CoreTypes
<1>4. /\ Moves("release") /\ running'.callee = running.displaced
      /\ running'.calleeConn = conn[running.displaced]
  BY <1>1, <1>2, <1>3, SendReleaseMoves DEF MaybeServer
<1>5. Drops
  BY <1>1, <1>2, SameDrops DEF CoreTypes
<1>6. \A s : Takes(running, s) => Takes(running', s)
  BY <1>1, <1>4 DEF Takes, Moves
<1>7. running'.kind = "sub" /\ running'.displaced = running.displaced
  BY <1>1, <1>4 DEF Moves
<1>. QED
  BY <1>1, <1>2, <1>3, <1>4, <1>5, <1>6, <1>7, MovesInv

LEMMA SubReleasedInv ==
  ASSUME CoreInv, NEW ok \in BOOLEAN, SubReleased(ok)
  PROVE  CoreInv'
<1>1. /\ running.kind = "sub" /\ running.pc = "release" /\ Released(ok)
      /\ SetPc("released") /\ UNCHANGED <<entry, nextGen, queued>>
  BY DEF SubReleased, SetPc
<1>2. /\ running # Free /\ SaneRun /\ CoreTypes /\ running \in Transitions
      /\ running.late \/ entry.state # "active"
  BY <1>1, RunFacts DEF WorkKinds
<1>3. /\ Drops /\ conn' = conn /\ dials' = dials /\ running.callee \notin Live'
  BY <1>1, ReleasedFacts
<1>4. Moves("released")
  BY <1>1, <1>2, <1>3, SetPcMoves
<1>5. running.callee = running.displaced
  BY <1>1 DEF CoreInv, CoverInv
<1>6. \A s \in Live' : Takes(running, s) => Takes(running', s)
  BY <1>1, <1>3, <1>4, <1>5 DEF Takes, Moves
<1>7. running'.kind = "sub"
  BY <1>1, <1>4 DEF Moves
<1>. QED
  BY <1>1, <1>2, <1>3, <1>4, <1>6, <1>7, MovesInv DEF StartKinds

\* Once a subscribe is ready, only its own server is left to it.
LEMMA SubReadyTakes ==
  ASSUME CoreInv, SubReady, NEW s \in Live, Takes(running, s)
  PROVE  running.to = s
<1>1. conn[s] # 0 /\ s \in Servers /\ s # None
  BY SubscriptionsAssumption DEF CoreInv, CoverInv, CoreTypes, Live
<1>. QED
  BY <1>1 DEF SubReady, SubDisplaces, Takes

LEMMA SubCallsInv ==
  ASSUME CoreInv, SubCalls
  PROVE  CoreInv'
<1>1. /\ running.kind = "sub" /\ SubReady
      /\ SetPc("call") /\ UNCHANGED <<entry, nextGen, queued, conn, dials>>
      /\ held' = held /\ stuck' = stuck /\ undone' = undone
  BY DEF SubCalls, SubReady, SetPc, upstreams
<1>2. /\ running # Free /\ SaneRun /\ CoreTypes /\ running \in Transitions
      /\ running.late \/ entry.state # "active"
  BY <1>1, RunFacts DEF WorkKinds
<1>3. Drops /\ Live' = Live
  BY <1>1, <1>2, SameDrops DEF CoreTypes, Live
<1>4. Moves("call")
  BY <1>1, <1>2, SetPcMoves
<1>5. \A s \in Live' : Takes(running, s) => Takes(running', s)
  BY <1>1, <1>3, <1>4, SubReadyTakes DEF Takes, Moves
<1>6. running.toConn # 0
  BY <1>1, <1>2 DEF SaneRun, SaneTask
<1>7. running'.kind = "sub"
  BY <1>1, <1>4 DEF Moves
<1>. QED
  BY <1>1, <1>2, <1>3, <1>4, <1>5, <1>6, <1>7, MovesInv DEF StartKinds

LEMMA SubSupersededInv ==
  ASSUME CoreInv, SubSuperseded
  PROVE  CoreInv'
<1>1. /\ running.kind = "sub" /\ SubReady /\ ~Current /\ running' = Free
      /\ stuck' = stuck \cup ({running.to} \cap held)
      /\ UNCHANGED <<entry, nextGen, queued, conn, dials>>
      /\ held' = held /\ undone' = undone
  BY DEF SubSuperseded, SubReady, Finish
<1>2. /\ running # Free /\ SaneRun /\ CoreTypes
  BY <1>1, RunFacts DEF WorkKinds
<1>3. Drops
  BY <1>1, <1>2, SameDrops DEF CoreTypes
<1>4. \A s \in Live' : ~Takes(running, s)
  <2>1. ASSUME NEW s \in Live', Takes(running, s) PROVE FALSE
    <3>1. s \in Live /\ s \in held /\ s # running.to
      BY <1>1, <2>1 DEF Live
    <3>. QED
      BY <1>1, <2>1, <3>1, SubReadyTakes
  <2>. QED
    BY <2>1
<1>5. RemoveIfCurrent
  BY <1>1 DEF RemoveIfCurrent
<1>. QED
  BY <1>1, <1>2, <1>3, <1>4, <1>5, RemovesInv

LEMMA RebindSupersededInv ==
  ASSUME CoreInv, RebindSuperseded
  PROVE  CoreInv'
<1>1. /\ running.kind = "rebind" /\ ~Current /\ running' = Free
      /\ UNCHANGED <<entry, nextGen, queued, conn, dials>>
      /\ held' = held /\ stuck' = stuck /\ undone' = undone
  BY DEF RebindSuperseded, Finish, upstreams
<1>2. /\ running # Free /\ CoreTypes
  BY <1>1, RunFacts DEF WorkKinds
<1>3. Drops
  BY <1>1, <1>2, SameDrops DEF CoreTypes
<1>4. \A s \in Live' : ~Takes(running, s)
  BY <1>1 DEF Takes
<1>5. RemoveIfCurrent
  BY <1>1 DEF RemoveIfCurrent
<1>. QED
  BY <1>1, <1>2, <1>3, <1>4, <1>5, RemovesInv

LEMMA HandleFacts ==
  ASSUME CoreInv, running.kind \in WorkKinds, HandleConn # 0
  PROVE  /\ HandleServer \in Servers /\ HandleConn \in Nat
         /\ entry.owner # None => HandleServer = entry.owner /\ HandleConn = conn[entry.owner]
<1>1. /\ SaneRun /\ CoreTypes /\ running \in Transitions
  BY RunFacts
<1>2. entry.owner # None => entry.owner \in Servers /\ conn[entry.owner] \in Nat
  BY <1>1, EntryFields DEF CoreTypes, MaybeServer
<1>3. running.oldConn \in Nat /\ (running.oldConn # 0 => running.old \in Servers)
  BY <1>1, TaskFields DEF SaneRun, SaneTask
<1>. QED
  BY <1>2, <1>3 DEF HandleServer, HandleConn

\* An owner without a connection holds nothing.
LEMMA NoHandle ==
  ASSUME CoreInv, HandleConn = 0
  PROVE  entry.owner \notin Live
  BY SubscriptionsAssumption DEF CoreInv, CoverInv, CoreTypes, Live, HandleConn

LEMMA RebindReleasesInv ==
  ASSUME CoreInv, RebindReleases
  PROVE  CoreInv'
<1>1. /\ running.kind = "rebind" /\ running.pc = "locked" /\ HandleConn # 0
      /\ SendRelease(HandleServer, HandleConn)
      /\ UNCHANGED <<entry, nextGen, queued, conn, dials>>
      /\ held' = held /\ stuck' = stuck /\ undone' = undone
  BY DEF RebindReleases, upstreams
<1>2. /\ running # Free /\ CoreTypes
      /\ running.late \/ entry.state # "active"
  BY <1>1, RunFacts DEF WorkKinds
<1>3. /\ HandleServer \in Servers /\ HandleConn \in Nat
      /\ entry.owner # None => HandleServer = entry.owner /\ HandleConn = conn[entry.owner]
  BY <1>1, HandleFacts DEF WorkKinds
<1>4. /\ Moves("release") /\ running'.callee = HandleServer /\ running'.calleeConn = HandleConn
  BY <1>1, <1>2, <1>3, SendReleaseMoves DEF MaybeServer
<1>5. Drops
  BY <1>1, <1>2, SameDrops DEF CoreTypes
<1>6. \A s : ~Takes(running, s)
  BY <1>1 DEF Takes
<1>7. running'.kind = "rebind" /\ running'.pc = "release"
  BY <1>1, <1>4 DEF Moves
<1>. QED
  BY <1>1, <1>2, <1>3, <1>4, <1>5, <1>6, <1>7, MovesInv

LEMMA DrainReleasesInv ==
  ASSUME CoreInv, DrainReleases
  PROVE  CoreInv'
<1>1. /\ running.kind = "drain" /\ running.pc = "locked" /\ HandleConn # 0
      /\ SendRelease(HandleServer, HandleConn)
      /\ UNCHANGED <<entry, nextGen, queued, conn, dials>>
      /\ held' = held /\ stuck' = stuck /\ undone' = undone
  BY DEF DrainReleases, upstreams
<1>2. /\ running # Free /\ CoreTypes
      /\ running.late \/ entry.state # "active"
  BY <1>1, RunFacts DEF WorkKinds
<1>3. /\ HandleServer \in Servers /\ HandleConn \in Nat
      /\ entry.owner # None => HandleServer = entry.owner /\ HandleConn = conn[entry.owner]
  BY <1>1, HandleFacts DEF WorkKinds
<1>4. /\ Moves("release") /\ running'.callee = HandleServer /\ running'.calleeConn = HandleConn
  BY <1>1, <1>2, <1>3, SendReleaseMoves DEF MaybeServer
<1>5. Drops
  BY <1>1, <1>2, SameDrops DEF CoreTypes
<1>6. \A s : ~Takes(running, s)
  BY <1>1 DEF Takes
<1>7. running'.kind = "drain" /\ running'.pc = "release"
  BY <1>1, <1>4 DEF Moves
<1>. QED
  BY <1>1, <1>2, <1>3, <1>4, <1>5, <1>6, <1>7, MovesInv

LEMMA RebindReleasedInv ==
  ASSUME CoreInv, RebindReleased
  PROVE  CoreInv'
<1>1. /\ running.kind = "rebind" /\ running.pc = "release" /\ Released(TRUE)
      /\ SetPc("released") /\ UNCHANGED <<entry, nextGen, queued>>
  BY DEF RebindReleased, SetPc
<1>2. /\ running # Free /\ CoreTypes
      /\ running.late \/ entry.state # "active"
      /\ Live \subseteq Servers /\ None \notin Live
  BY <1>1, RunFacts DEF WorkKinds
<1>3. /\ Drops /\ conn' = conn /\ dials' = dials
      /\ Current /\ entry.owner # None => running.callee \notin Live'
  BY <1>1, ReleasedFacts
<1>4. Moves("released")
  BY <1>1, <1>2, <1>3, SetPcMoves
<1>5. \A s : ~Takes(running, s)
  BY <1>1 DEF Takes
<1>6. Current => entry.owner \notin Live'
  BY <1>1, <1>2, <1>3 DEF CoreInv, CoverInv, Drops
<1>7. running'.kind = "rebind" /\ running'.pc = "released"
  BY <1>1, <1>4 DEF Moves
<1>. QED
  BY <1>1, <1>2, <1>3, <1>4, <1>5, <1>6, <1>7, MovesInv DEF StartKinds

LEMMA RebindRefusedInv ==
  ASSUME CoreInv, RebindRefused
  PROVE  CoreInv'
<1>1. /\ running.kind = "rebind" /\ running.pc = "release" /\ Released(FALSE)
      /\ RemoveIfCurrent /\ running' = Free /\ UNCHANGED <<nextGen, queued>>
  BY DEF RebindRefused, RebindFails, Finish
<1>2. /\ running # Free /\ Live \subseteq Servers /\ None \notin Live
  BY <1>1, RunFacts DEF WorkKinds
<1>3. /\ Drops /\ conn' = conn /\ dials' = dials
      /\ Current /\ entry.owner # None => running.callee \notin Live'
  BY <1>1, ReleasedFacts
<1>4. \A s \in Live' : ~Takes(running, s)
  BY <1>1 DEF Takes
<1>5. Current => entry.owner \notin Live'
  BY <1>1, <1>2, <1>3 DEF CoreInv, CoverInv, Drops
<1>. QED
  BY <1>1, <1>2, <1>3, <1>4, <1>5, RemovesInv

LEMMA DrainReleasedInv ==
  ASSUME CoreInv, NEW ok \in BOOLEAN, DrainReleased(ok)
  PROVE  CoreInv'
<1>1. /\ running.kind = "drain" /\ running.pc = "release" /\ Released(ok)
      /\ RemoveIfCurrent /\ running' = Free /\ UNCHANGED <<nextGen, queued>>
  BY DEF DrainReleased, Finish
<1>2. /\ running # Free /\ Live \subseteq Servers /\ None \notin Live
  BY <1>1, RunFacts DEF WorkKinds
<1>3. /\ Drops /\ conn' = conn /\ dials' = dials
      /\ Current /\ entry.owner # None => running.callee \notin Live'
  BY <1>1, ReleasedFacts
<1>4. \A s \in Live' : ~Takes(running, s)
  BY <1>1 DEF Takes
<1>5. Current => entry.owner \notin Live'
  BY <1>1, <1>2, <1>3 DEF CoreInv, CoverInv, Drops
<1>. QED
  BY <1>1, <1>2, <1>3, <1>4, <1>5, RemovesInv

LEMMA DrainNothingInv ==
  ASSUME CoreInv, DrainNothing
  PROVE  CoreInv'
<1>1. /\ running.kind = "drain"
      /\ ~Current \/ HandleConn = 0
      /\ RemoveIfCurrent /\ running' = Free /\ UNCHANGED <<nextGen, queued, conn, dials>>
      /\ held' = held /\ stuck' = stuck /\ undone' = undone
  BY DEF DrainNothing, Finish, upstreams
<1>2. /\ running # Free /\ CoreTypes
  BY <1>1, RunFacts DEF WorkKinds
<1>3. Drops /\ Live' = Live
  BY <1>1, <1>2, SameDrops DEF CoreTypes, Live
<1>4. \A s \in Live' : ~Takes(running, s)
  BY <1>1 DEF Takes
<1>5. Current => entry.owner \notin Live'
  BY <1>1, <1>3, NoHandle
<1>. QED
  BY <1>1, <1>2, <1>3, <1>4, <1>5, RemovesInv

\* A rebind that is ready has released its entry's owner, or passes over it.
LEMMA RebindReadyOwner ==
  ASSUME CoreInv, RebindReady, Current, entry.owner \in Live
  PROVE  entry.owner \in Unreleased
<1>1. running.pc # "released" /\ HandleConn # 0
  BY NoHandle DEF RebindReady, CoreInv, CoverInv
<1>. QED
  BY <1>1 DEF RebindReady, Unreleased, Live

LEMMA UnreleasedHeld ==
  ASSUME CoreTypes
  PROVE  Unreleased \subseteq Servers
  BY DEF Unreleased, CoreTypes

LEMMA RebindCallsInv ==
  ASSUME CoreInv, RebindCalls
  PROVE  CoreInv'
<1>1. /\ running.kind = "rebind" /\ RebindReady /\ running.toConn # 0
      /\ SetPc("call") /\ UNCHANGED <<entry, nextGen, queued, conn, dials>>
      /\ held' = held /\ stuck' = stuck \cup (Unreleased \ {running.to}) /\ undone' = undone
  BY DEF RebindCalls, RebindReady, SetPc
<1>2. /\ running # Free /\ CoreTypes
      /\ running.late \/ entry.state # "active"
  BY <1>1, RunFacts DEF WorkKinds
<1>3. Drops
  BY <1>1, <1>2, SameDrops, UnreleasedHeld DEF CoreTypes
<1>4. Moves("call")
  BY <1>1, <1>2, SetPcMoves
<1>5. \A s : ~Takes(running, s)
  BY <1>1 DEF Takes
<1>6. running'.kind = "rebind" /\ running'.to = running.to /\ running'.pc = "call"
  BY <1>1, <1>4 DEF Moves
<1>7. Current /\ entry.owner \in Live' => entry.owner = running.to
  BY <1>1, RebindReadyOwner DEF Live
<1>. QED
  BY <1>1, <1>2, <1>3, <1>4, <1>5, <1>6, <1>7, MovesInv DEF StartKinds

LEMMA RebindNoOwnerInv ==
  ASSUME CoreInv, RebindNoOwner
  PROVE  CoreInv'
<1>1. /\ running.kind = "rebind" /\ RebindReady /\ running' = Free /\ RemoveIfCurrent
      /\ UNCHANGED <<nextGen, queued, conn, dials>>
      /\ held' = held /\ stuck' = stuck \cup Unreleased /\ undone' = undone
  BY DEF RebindNoOwner, RebindReady, RebindFails, Finish
<1>2. /\ running # Free /\ CoreTypes
  BY <1>1, RunFacts DEF WorkKinds
<1>3. Drops
  BY <1>1, <1>2, SameDrops, UnreleasedHeld DEF CoreTypes
<1>4. \A s \in Live' : ~Takes(running, s)
  BY <1>1 DEF Takes
<1>5. Current => entry.owner \notin Live'
  BY <1>1, RebindReadyOwner DEF Live
<1>. QED
  BY <1>1, <1>2, <1>3, <1>4, <1>5, RemovesInv

\* What the task in its call knows.
LEMMA CallFacts ==
  ASSUME CoreInv, running.pc = "call"
  PROVE  /\ running # Free /\ CoreTypes /\ running.kind \in StartKinds
         /\ running \in Transitions
         /\ running.to \in Servers /\ running.toConn # 0 /\ running.toConn <= dials + 1
         /\ \A s : Takes(running, s) => s = running.to
         /\ Current /\ entry.owner \in Live => entry.owner = running.to
<1>1. running # Free /\ SaneRun /\ CoreTypes
  BY FreeFields DEF CoreInv, TaskInv
<1>2. /\ running.kind \in StartKinds /\ running \in Transitions /\ running.to \in Servers
      /\ running.toConn # 0 /\ running.toConn <= dials + 1
  BY <1>1 DEF SaneRun, SaneTask, CoreTypes
<1>3. \A s : Takes(running, s) => s = running.to
  BY DEF Takes
<1>4. ASSUME Current, entry.owner \in Live PROVE entry.owner = running.to
  <2>1. entry.owner # None
    BY <1>1, <1>4, SubscriptionsAssumption DEF CoreTypes, Live
  <2>2. running.kind # "sub"
    BY <1>4, <2>1 DEF CoreInv, CoverInv, Current
  <2>. QED
    BY <1>2, <1>4, <2>2 DEF CoreInv, CoverInv, StartKinds
<1>. QED
  BY <1>1, <1>2, <1>3, <1>4

LEMMA CallFailsInv ==
  ASSUME CoreInv, CallFails
  PROVE  CoreInv'
<1>1. /\ running.pc = "call" /\ RemoveIfCurrent /\ running' = Free
      /\ UNCHANGED <<nextGen, queued, conn, dials>>
      /\ held' = held /\ stuck' = stuck \cup ({running.to} \cap held) /\ undone' = undone
  BY DEF CallFails, Finish
<1>2. /\ running # Free /\ CoreTypes
      /\ \A s : Takes(running, s) => s = running.to
      /\ Current /\ entry.owner \in Live => entry.owner = running.to
  BY <1>1, CallFacts
<1>3. Drops
  BY <1>1, <1>2, SameDrops DEF CoreTypes
<1>4. \A s \in Live' : s \in Live /\ s # running.to
  BY <1>1 DEF Live
<1>5. \A s \in Live' : ~Takes(running, s)
  BY <1>2, <1>4
<1>6. Current => entry.owner \notin Live'
  BY <1>2, <1>4
<1>. QED
  BY <1>1, <1>2, <1>3, <1>5, <1>6, RemovesInv

LEMMA ConfirmFields ==
  ASSUME CoreTypes, running.to \in Servers
  PROVE  /\ Confirm \in Entries /\ Confirm.owner = running.to
         /\ Confirm.ownerConn = running.toConn /\ Confirm.intended = None
         /\ Confirm.state = IF entry.state = "pending" THEN "active" ELSE entry.state
         /\ Confirm.gen = entry.gen /\ Confirm.members = entry.members
         /\ Confirm.prior = entry.prior
<1>1. PICK e, o, h, st : /\ e = entry /\ o = running.to /\ h = running.toConn
                         /\ st = IF entry.state = "pending" THEN "active" ELSE entry.state
  OBVIOUS
<1>2. PICK f : f = [e EXCEPT !.owner = o, !.ownerConn = h, !.state = st, !.intended = None]
  OBVIOUS
<1>3. f = Confirm
  BY <1>1, <1>2, Zenon DEF Confirm
<1>4. /\ e \in Entries /\ o \in MaybeServer /\ h \in Nat
      /\ st \in {"absent", "pending", "active", "draining"}
  BY <1>1, TaskFields, EntryFields DEF CoreTypes, MaybeServer
<1>5. /\ f \in Entries /\ f.owner = o /\ f.ownerConn = h /\ f.intended = None
      /\ f.state = st /\ f.gen = e.gen /\ f.members = e.members /\ f.prior = e.prior
  BY <1>2, <1>4 DEF Entries, MaybeServer
<1>. QED
  BY <1>1, <1>3, <1>5

LEMMA CallSucceedsInv ==
  ASSUME CoreInv, CallSucceeds
  PROVE  CoreInv'
<1>. USE SubscriptionsAssumption
<1>1. /\ CoreTypes /\ TaskInv /\ EntryInv /\ GenInv /\ OneStart /\ LateInv
      /\ BackedInv /\ CoverInv
  BY DEF CoreInv
<1>. DEFINE to == running.to
<1>2. /\ running.pc = "call" /\ running' = Free
      /\ held' = IF conn[to] = running.toConn THEN held \cup {to} ELSE held
      /\ entry' = IF Current THEN Confirm ELSE entry
      /\ stuck' = IF Current /\ entry.state = "pending" THEN stuck
                  ELSE stuck \cup ({to} \cap held')
      /\ undone' = undone \ held'
      /\ nextGen' = nextGen /\ queued' = queued /\ conn' = conn /\ dials' = dials
  BY DEF CallSucceeds, Finish
<1>3. /\ running # Free /\ running.kind \in StartKinds
      /\ to \in Servers /\ running.toConn # 0 /\ running.toConn <= dials + 1
      /\ \A s : Takes(running, s) => s = to
      /\ Current /\ entry.owner \in Live => entry.owner = to
  BY <1>2, CallFacts
<1>4. /\ Confirm \in Entries /\ Confirm.owner = to
      /\ Confirm.ownerConn = running.toConn /\ Confirm.intended = None
      /\ Confirm.state = IF entry.state = "pending" THEN "active" ELSE entry.state
      /\ Confirm.gen = entry.gen /\ Confirm.members = entry.members
      /\ Confirm.prior = entry.prior
  BY <1>1, <1>3, ConfirmFields
<1>. HIDE DEF to
<1>5. /\ Free \in Transitions /\ Free.kind = "none" /\ Free.gen = 0 /\ Free.pc = "free"
  BY FreeFields
<1>6. /\ entry.gen \in Nat /\ running.gen \in Nat /\ nextGen \in Nat /\ nextGen > 0
      /\ \A t \in queued : t.gen \in Nat /\ t.kind \in WorkKinds
  BY <1>1, EntryFields, TaskFields DEF CoreTypes, TaskInv, SaneTask
<1>7. /\ held \subseteq held' /\ held' \subseteq Servers /\ held' \subseteq held \cup {to}
      /\ stuck \subseteq stuck' /\ stuck' \subseteq Servers /\ undone' \subseteq Servers
      /\ held \cup undone \subseteq held' \cup undone'
      /\ \A s \in held' : conn[s] # 0
  BY <1>1, <1>2, <1>3 DEF CoreTypes, CoverInv, to
<1>8. entry.state \in {"absent", "pending", "active", "draining"}
  BY <1>1, EntryFields DEF CoreTypes
<1>9. Current => entry.state \in {"pending", "draining"}
  BY <1>1, <1>3, <1>6, <1>8 DEF Current, LateInv
<1>10. /\ entry'.gen = entry.gen /\ entry'.members = entry.members
       /\ entry'.prior = entry.prior /\ entry' \in Entries
       /\ (entry'.state = "absent") = (entry.state = "absent")
       /\ (entry'.state = "draining") = (entry.state = "draining")
  BY <1>1, <1>2, <1>4 DEF CoreTypes
<1>11. Current => \A t \in queued : t.kind \notin StartKinds \/ t.gen # entry.gen
  BY <1>1, <1>3 DEF OneStart, Current
<1>12. ASSUME Current, entry.state = "pending", NEW t \in queued
       PROVE  t.gen < entry.gen /\ t.late
  <2>1. t.gen <= entry.gen /\ t.gen # entry.gen
    BY <1>1, <1>6, <1>11, <1>12 DEF GenInv, StartKinds, WorkKinds
  <2>2. t.gen < running.gen
    BY <1>6, <1>12, <2>1 DEF Current
  <2>. QED
    BY <1>1, <1>3, <1>6, <2>1, <2>2 DEF LateInv
<1>13. CoreTypes'
  BY <1>1, <1>2, <1>5, <1>7, <1>10 DEF CoreTypes
<1>14. TaskInv'
  BY <1>1, <1>2 DEF TaskInv, SaneTask
<1>15. EntryInv'
  <2>1. CASE Current
    <3>1. entry' = Confirm
      BY <1>2, <2>1
    <3>. QED
      BY <1>1, <1>2, <1>3, <1>4, <1>9, <2>1, <3>1 DEF EntryInv
  <2>2. CASE ~Current
    BY <1>1, <1>2, <2>2 DEF EntryInv
  <2>. QED
    BY <2>1, <2>2
<1>16. GenInv'
  <2>1. entry'.state # "absent" =>
          \A t \in queued : t.kind = "drain" /\ t.gen = entry'.gen => entry'.state = "draining"
    BY <1>1, <1>10 DEF GenInv
  <2>. QED
    BY <1>1, <1>2, <1>5, <1>6, <1>10, <2>1 DEF GenInv
<1>17. OneStart'
  BY <1>1, <1>2, <1>5 DEF OneStart, StartKinds
<1>18. LateInv'
  <2>1. CASE Current
    BY <1>2, <1>4, <1>9, <1>10, <1>12, <2>1 DEF LateInv
  <2>2. CASE ~Current
    BY <1>1, <1>2, <2>2 DEF LateInv
  <2>. QED
    BY <2>1, <2>2
<1>19. BackedInv'
  <2>1. CASE Current /\ entry.state = "pending"
    <3>1. /\ entry'.state = "active" /\ entry'.owner = to
          /\ entry'.ownerConn = running.toConn
      BY <1>2, <1>4, <2>1
    <3>2. conn[to] = running.toConn => to \in held'
      BY <1>2
    <3>. QED
      BY <1>2, <3>1, <3>2 DEF BackedInv
  <2>2. CASE Current /\ entry.state = "draining"
    <3>1. AtWork({"drain"})
      BY <1>1, <2>2 DEF BackedInv
    <3>2. PICK u \in queued \cup {running} : u.gen = entry.gen /\ u.kind = "drain"
      BY <3>1 DEF AtWork
    <3>3. u \in queued
      BY <1>3, <3>2 DEF StartKinds
    <3>4. AtWork({"drain"})'
      BY <1>2, <1>10, <3>2, <3>3 DEF AtWork
    <3>. QED
      BY <1>10, <2>2, <3>4 DEF BackedInv
  <2>3. CASE ~Current
    <3>1. ASSUME NEW kinds, entry.state # "absent", AtWork(kinds) PROVE AtWork(kinds)'
      <4>1. PICK u \in queued \cup {running} : u.gen = entry.gen /\ u.kind \in kinds
        BY <3>1 DEF AtWork
      <4>2. u \in queued
        BY <2>3, <3>1, <4>1 DEF Current
      <4>. QED
        BY <1>2, <1>10, <4>1, <4>2 DEF AtWork
    <3>. QED
      BY <1>1, <1>2, <1>7, <2>3, <3>1 DEF BackedInv
  <2>. QED
    BY <1>9, <2>1, <2>2, <2>3
<1>20. CoverInv'
  <2>1. \A s \in Live' : s = to \/ s \in Live
    BY <1>7 DEF Live
  <2>2. ~(Current /\ entry.state = "pending") => to \notin Live'
    BY <1>2 DEF Live
  <2>3. ASSUME NEW s \in Live' PROVE Covered(s)'
    <3>1. CASE s = to
      <4>1. Current /\ entry.state = "pending"
        BY <2>2, <2>3, <3>1
      <4>2. entry'.state = "active" /\ entry'.owner = to
        BY <1>2, <1>4, <4>1
      <4>. QED
        BY <3>1, <4>2 DEF Covered
    <3>2. CASE s # to
      <4>1. s \in Live /\ Covered(s) /\ ~Takes(running, s)
        BY <1>1, <1>3, <2>1, <2>3, <3>2 DEF CoverInv
      <4>2. CASE entry.state # "absent" /\ entry.owner = s
        <5>1. ~Current
          BY <1>3, <3>2, <4>1, <4>2
        <5>. QED
          BY <1>2, <4>2, <5>1 DEF Covered
      <4>3. CASE \E t \in queued : Takes(t, s)
        BY <1>2, <4>3 DEF Covered, Takes
      <4>. QED
        BY <4>1, <4>2, <4>3 DEF Covered
    <3>. QED
      BY <3>1, <3>2
  <2>4. entry'.state # "absent" =>
          \A t \in queued : t.kind = "sub" /\ t.gen = entry'.gen => entry'.owner = None
    <3>1. CASE Current
      BY <1>10, <1>11, <3>1 DEF StartKinds
    <3>2. CASE ~Current
      BY <1>1, <1>2, <3>2 DEF CoverInv
    <3>. QED
      BY <3>1, <3>2
  <2>5. entry'.state = "draining" /\ entry'.owner \in Live' => entry'.prior = entry'.owner
    <3>1. CASE Current
      BY <1>2, <1>4, <1>10, <2>2, <3>1
    <3>2. CASE ~Current
      BY <1>1, <1>2, <2>1, <2>2, <3>2 DEF CoverInv
    <3>. QED
      BY <3>1, <3>2
  <2>. QED
    BY <1>2, <1>5, <1>7, <2>3, <2>4, <2>5 DEF CoverInv
<1>. QED
  BY <1>13, <1>14, <1>15, <1>16, <1>17, <1>18, <1>19, <1>20 DEF CoreInv

-----------------------------------------------------------------------------
(* A connection comes or goes. *)

Redials(s, v) ==
    /\ dials < MaxDials /\ dials' = dials + 1
    /\ conn' = [conn EXCEPT ![s] = v]
    /\ held' = held \ {s} /\ stuck' = stuck \ {s} /\ undone' = undone \ {s}
    /\ UNCHANGED <<entry, nextGen, queued, running>>

LEMMA RedialsInv ==
  ASSUME CoreInv, NEW s \in Servers, NEW v \in {0, dials + 2}, Redials(s, v)
  PROVE  CoreInv'
<1>. USE SubscriptionsAssumption
<1>1. /\ CoreTypes /\ TaskInv /\ EntryInv /\ GenInv /\ OneStart /\ LateInv
      /\ BackedInv /\ CoverInv
  BY DEF CoreInv
<1>2. /\ dials \in Nat /\ dials < MaxDials /\ dials' = dials + 1
      /\ entry' = entry /\ nextGen' = nextGen /\ queued' = queued /\ running' = running
      /\ held' = held \ {s} /\ stuck' = stuck \ {s} /\ undone' = undone \ {s}
  BY <1>1 DEF Redials, CoreTypes
<1>3. /\ conn \in [Servers -> Nat] /\ conn' \in [Servers -> Nat] /\ conn'[s] = v
      /\ v \in Nat
      /\ \A t \in Servers : t # s => conn'[t] = conn[t]
  BY <1>1, <1>2 DEF Redials, CoreTypes
<1>4. CoreTypes'
  BY <1>1, <1>2, <1>3 DEF CoreTypes
<1>5. \A t \in Transitions : SaneTask(t) => SaneTask(t)'
  BY <1>2, TaskFields DEF SaneTask
<1>6. TaskInv'
  BY <1>1, <1>2, <1>5 DEF TaskInv, SaneRun, CoreTypes
<1>7. EntryInv'
  <2>1. \A t \in Servers : conn'[t] <= dials' + 1
    BY <1>1, <1>2, <1>3 DEF EntryInv
  <2>2. entry.ownerConn \in Nat
    BY <1>1, EntryFields DEF CoreTypes
  <2>. QED
    BY <1>1, <1>2, <2>1, <2>2 DEF EntryInv
<1>8. GenInv' /\ OneStart' /\ LateInv'
  BY <1>1, <1>2 DEF GenInv, OneStart, LateInv
<1>9. BackedInv'
  <2>1. \A kinds : AtWork(kinds)' = AtWork(kinds)
    BY <1>2 DEF AtWork
  <2>2. ASSUME entry.state = "active", conn'[entry.owner] = entry.ownerConn
        PROVE  entry.owner \in held' \cup undone'
    <3>1. /\ entry.owner \in Servers /\ entry.ownerConn \in Nat /\ entry.ownerConn # 0
          /\ entry.ownerConn <= dials + 1
      BY <1>1, <2>2, EntryFields DEF CoreTypes, EntryInv, MaybeServer
    <3>2. entry.owner # s
      BY <1>2, <1>3, <2>2, <3>1
    <3>. QED
      BY <1>1, <1>2, <1>3, <2>2, <3>1, <3>2 DEF BackedInv
  <2>. QED
    BY <1>1, <1>2, <2>1, <2>2 DEF BackedInv
<1>10. CoverInv'
  <2>1. Live' \subseteq Live /\ s \notin held' /\ held' \subseteq Servers
    BY <1>1, <1>2 DEF Live, CoreTypes
  <2>2. Current' = Current /\ \A t : Covered(t)' = Covered(t)
    BY <1>2 DEF Current, Covered
  <2>. QED
    BY <1>1, <1>2, <1>3, <2>1, <2>2 DEF CoverInv
<1>. QED
  BY <1>4, <1>6, <1>7, <1>8, <1>9, <1>10 DEF CoreInv

-----------------------------------------------------------------------------
(* The callers, the pass and the sweep. *)

LEMMA RestTypes ==
    /\ NoWait \in Waits /\ NoCall \in Calls /\ NoCall.pc = "idle"
    /\ Looking \in Calls /\ Looking.pc = "look"
    /\ NoItem \in Items /\ NoItem.kind = "none"
    /\ AtRest \in Passes /\ AtRest.item = NoItem
<1>1. NoWait \in Waits
  BY SubscriptionsAssumption DEF NoWait, Waits, Gens
<1>2. NoCall \in Calls /\ NoCall.pc = "idle"
  BY <1>1 DEF NoCall, Calls, MaybeServer
<1>3. Looking \in Calls /\ Looking.pc = "look"
  BY <1>2 DEF Looking, NoCall, Calls
<1>4. NoItem \in Items /\ NoItem.kind = "none"
  BY DEF NoItem, Items, MaybeServer
<1>5. AtRest \in Passes /\ AtRest.item = NoItem
  BY <1>1, <1>4 DEF AtRest, Passes, MaybeServer
<1>. QED
  BY <1>1, <1>2, <1>3, <1>4, <1>5

LEMMA WaitTypes ==
  ASSUME NEW g \in Gens
  PROVE  StartWait(g) \in Waits /\ DrainWait(g) \in Waits
  BY DEF StartWait, DrainWait, Waits

LEMMA MigrateWaitType ==
  ASSUME entry' \in Entries
  PROVE  MigrateWait \in Waits
<1>1. entry'.gen \in Gens
  BY EntryFields
<1>. QED
  BY <1>1, WaitTypes, RestTypes DEF MigrateWait

LEMMA StepEntry ==
  ASSUME RegistryStep
  PROVE  entry' \in Entries
  BY DEF RegistryStep, Starts, Drains, Regroups

SetCall(c, k) == caller' = [caller EXCEPT ![c] = k]

LEMMA SetCallSide ==
  ASSUME SideInv, NEW c \in Clients, NEW k \in Calls, SetCall(c, k),
         k.pc = "join" => k.to \in Servers /\ k.toConn # 0 /\ k.toConn <= dials + 1,
         heals' \subseteq Servers, UNCHANGED refresh, dials' = dials
  PROVE  SideInv'
<1>1. /\ caller' \in [Clients -> Calls] /\ caller'[c] = k
      /\ \A d \in Clients : d # c => caller'[d] = caller[d]
  BY DEF SideInv, SetCall
<1>2. /\ route' = route /\ pass' = pass /\ sweep' = sweep /\ passes' = passes
  BY DEF refresh
<1>. QED
  BY <1>1, <1>2 DEF SideInv

LEMMA CallerSide ==
  ASSUME SideInv, caller' \in [Clients -> Calls],
         \A d \in Clients : caller'[d].pc = "join" => caller'[d] = caller[d],
         heals' \subseteq Servers, UNCHANGED refresh, dials' = dials
  PROVE  SideInv'
<1>1. /\ route' = route /\ pass' = pass /\ sweep' = sweep /\ passes' = passes
  BY DEF refresh
<1>. QED
  BY <1>1 DEF SideInv

LEMMA DeliverSide ==
  ASSUME SideInv, NEW g, NEW ok \in BOOLEAN, Deliver(g, ok),
         heals' \subseteq Servers, UNCHANGED refresh, dials' = dials
  PROVE  SideInv'
<1>1. caller \in [Clients -> Calls]
  BY DEF SideInv
<1>2. /\ caller' \in [Clients -> Calls]
      /\ \A d \in Clients : caller'[d].pc = "join" => caller'[d] = caller[d]
  BY <1>1, RestTypes DEF Deliver
<1>. QED
  BY <1>2, CallerSide

LEMMA SameSide ==
  ASSUME SideInv, heals' \subseteq Servers, UNCHANGED <<caller, refresh>>, dials' = dials
  PROVE  SideInv'
  BY CallerSide DEF SideInv

\* The refresh pass and the sweep move on.
SaneItem(item) == item \in Items /\ (item.kind \in {"rebind", "resubscribe"} => item.to \in Servers)

LEMMA PassSide ==
  ASSUME SideInv, heals' = heals, caller' = caller, dials' = dials,
         route' \in MaybeServer, pass' \in Passes, sweep' \in Passes,
         passes' \in 0..MaxPasses, SaneItem(pass'.item), SaneItem(sweep'.item)
  PROVE  SideInv'
  BY DEF SideInv, SaneItem

LEMMA PassFields ==
  ASSUME SideInv
  PROVE  /\ pass \in Passes /\ sweep \in Passes /\ SaneItem(pass.item) /\ SaneItem(sweep.item)
         /\ pass.new \in MaybeServer /\ pass.item \in Items /\ sweep.item \in Items
         /\ pass.item.old \in MaybeServer /\ sweep.item.old \in MaybeServer
  BY DEF SideInv, Passes, Items, SaneItem

LEMMA RestSane == SaneItem(AtRest.item)
  BY RestTypes DEF SaneItem

LEMMA ClassificationType ==
  ASSUME CoreTypes, NEW old \in MaybeServer, NEW new \in MaybeServer
  PROVE  SaneItem(Classification(old, new))
<1>1. entry.owner \in MaybeServer
  BY EntryFields DEF CoreTypes
<1>2. ASSUME NEW k \in {"prune", "rebind", "resubscribe"}, NEW o \in MaybeServer,
             NEW t \in MaybeServer, k # "prune" => t # None
      PROVE  SaneItem([kind |-> k, old |-> o, to |-> t])
  BY <1>2 DEF SaneItem, Items, MaybeServer
<1>3. SaneItem(NoItem)
  BY RestTypes DEF SaneItem
<1>4. None \in MaybeServer
  BY DEF MaybeServer
<1>5. SaneItem([kind |-> "prune", old |-> old, to |-> None])
  BY <1>2, <1>4
<1>6. PICK o : o = IF entry.owner # None THEN entry.owner ELSE old
  OBVIOUS
<1>7. o \in MaybeServer
  BY <1>1, <1>6
<1>8. new # None => /\ SaneItem([kind |-> "rebind", old |-> o, to |-> new])
                    /\ SaneItem([kind |-> "resubscribe", old |-> None, to |-> new])
  BY <1>2, <1>4, <1>7
<1>9. CASE entry.state = "absent"
  BY <1>3, <1>9 DEF Classification
<1>10. CASE entry.state # "absent" /\ new = None
  BY <1>5, <1>10 DEF Classification
<1>11. CASE entry.state # "absent" /\ new # None /\ o \notin {None, new}
  BY <1>6, <1>8, <1>11 DEF Classification
<1>12. CASE entry.state # "absent" /\ new # None /\ o \in {None, new}
  BY <1>3, <1>6, <1>8, <1>12 DEF Classification
<1>. QED
  BY <1>9, <1>10, <1>11, <1>12

LEMMA ReconcileEffect ==
  ASSUME CoreTypes, EntryInv, NEW item, SaneItem(item), Reconcile(item)
  PROVE  RegistryStep /\ ReconcileWait(item) \in Waits
<1>1. RegistryStep
  <2>1. CASE item.kind \in {"rebind", "resubscribe"}
    <3>1. /\ item.old \in MaybeServer /\ item.to \in Servers
          /\ (item.kind = "rebind") \in BOOLEAN
      BY <2>1 DEF SaneItem, Items
    <3>2. Migrate(item.old, item.to, item.kind = "rebind")
      BY <2>1 DEF Reconcile
    <3>. QED
      BY <3>1, <3>2, MigrateEffect
  <2>2. CASE item.kind \notin {"rebind", "resubscribe"}
    BY <2>2, Nothing DEF Reconcile, RegistryStep
  <2>. QED
    BY <2>1, <2>2
<1>. QED
  BY <1>1, StepEntry, MigrateWaitType, RestTypes DEF ReconcileWait

-----------------------------------------------------------------------------
(* Every action preserves the invariant. *)

LEMMA RequestSteps ==
  ASSUME RegistryInv, NEW c \in Clients,
         Resolve(c) \/ Request(c) \/ Leave(c) \/ DropCall(c)
  PROVE  RegistryInv'
<1>1. CoreInv /\ SideInv /\ CoreTypes /\ EntryInv
  BY DEF RegistryInv, CoreInv
<1>2. heals \subseteq Servers /\ caller \in [Clients -> Calls] /\ route \in MaybeServer
  BY <1>1 DEF SideInv
<1>3. ASSUME UNCHANGED registry, UNCHANGED upstreams PROVE CoreInv'
  <2>1. /\ UNCHANGED <<entry, nextGen, queued>> /\ running' = running
    BY <1>3 DEF registry
  <2>2. RegistryStep
    BY <1>1, <2>1, Nothing DEF RegistryStep
  <2>. QED
    BY <1>1, <1>3, <2>1, <2>2, RegistryStepInv
<1>4. CASE Resolve(c)
  <2>1. PICK s, h : s = route /\ h = conn[route]
    OBVIOUS
  <2>2. PICK k : k = [NoCall EXCEPT !.pc = "join", !.to = s, !.toConn = h]
    OBVIOUS
  <2>3. /\ s # None /\ h # 0 /\ SetCall(c, k) /\ UNCHANGED <<registry, refresh, upstreams>>
    BY <1>4, <2>1, <2>2, Zenon DEF Resolve, SetCall
  <2>4. s \in Servers /\ h \in Nat /\ h <= dials + 1
    BY <1>1, <1>2, <2>1, <2>3 DEF MaybeServer, CoreTypes, EntryInv
  <2>5. k \in Calls /\ k.to = s /\ k.toConn = h
    BY <2>2, <2>4, RestTypes DEF NoCall, Calls, MaybeServer
  <2>6. heals' = heals /\ dials' = dials
    BY <2>3 DEF registry, upstreams
  <2>7. SideInv'
    BY <1>1, <1>2, <2>3, <2>4, <2>5, <2>6, SetCallSide
  <2>. QED
    BY <1>3, <2>3, <2>7 DEF RegistryInv
<1>5. CASE Join(c)
  <2>1. /\ RegistryStep /\ caller' \in [Clients -> Calls]
        /\ \A d \in Clients : caller'[d].pc = "join" => caller'[d] = caller[d]
    BY <1>1, <1>5, JoinEffect
  <2>2. /\ running' = running /\ heals' = heals /\ UNCHANGED refresh /\ UNCHANGED upstreams
        /\ dials' = dials
    BY <1>5 DEF Join, upstreams
  <2>. QED
    BY <1>1, <1>2, <2>1, <2>2, RegistryStepInv, CallerSide DEF RegistryInv
<1>6. CASE LookDrifted(c)
  <2>1. /\ route # None /\ Migrate(entry.owner, route, TRUE)
        /\ running' = running /\ heals' = heals /\ UNCHANGED refresh /\ UNCHANGED upstreams
        /\ dials' = dials
    BY <1>6 DEF LookDrifted, upstreams
  <2>2. RegistryStep
    BY <1>1, <1>2, <2>1, MigrateEffect, EntryFields DEF CoreTypes, MaybeServer
  <2>3. PICK w, k0 : w = MigrateWait /\ k0 = caller[c]
    OBVIOUS
  <2>4. w \in Waits /\ k0 \in Calls
    BY <1>2, <2>2, <2>3, StepEntry, MigrateWaitType
  <2>5. PICK k : k = [k0 EXCEPT !.pc = "heal", !.wait = w]
    OBVIOUS
  <2>6. caller' = [caller EXCEPT ![c].pc = "heal", ![c].wait = w]
    BY <1>6, <2>3, Zenon DEF LookDrifted
  <2>7. k \in Calls /\ k.pc = "heal"
    BY <2>4, <2>5 DEF Calls
  <2>8. caller' = [caller EXCEPT ![c] = k]
    BY <1>2, <2>3, <2>5, <2>6
  <2>9. SetCall(c, k)
    BY <2>8 DEF SetCall
  <2>10. SideInv'
    BY <1>1, <1>2, <2>1, <2>7, <2>9, SetCallSide
  <2>. QED
    BY <1>1, <2>1, <2>2, <2>10, RegistryStepInv DEF RegistryInv
<1>7. CASE LookSettled(c) \/ HealEnds(c) \/ DropCall(c)
  <2>1. SetCall(c, NoCall) /\ UNCHANGED <<registry, refresh, upstreams>>
    BY <1>7 DEF LookSettled, HealEnds, DropCall, SetCall
  <2>2. heals' = heals /\ dials' = dials
    BY <2>1 DEF registry, upstreams
  <2>3. SideInv'
    BY <1>1, <1>2, <2>1, <2>2, RestTypes, SetCallSide
  <2>. QED
    BY <1>3, <2>1, <2>3 DEF RegistryInv
<1>8. CASE Leave(c)
  <2>1. /\ running' = running /\ heals' = heals /\ caller' = caller /\ UNCHANGED refresh
        /\ UNCHANGED upstreams /\ dials' = dials
    BY <1>8 DEF Leave, upstreams
  <2>2. RegistryStep
    BY <1>1, <1>8, LeaveEffect
  <2>. QED
    BY <1>1, <1>2, <2>1, <2>2, RegistryStepInv, SameSide DEF RegistryInv
<1>. QED
  BY <1>4, <1>5, <1>6, <1>7, <1>8 DEF Request

LEMMA TransitionSteps ==
  ASSUME RegistryInv, Transition
  PROVE  RegistryInv'
<1>1. CoreInv /\ SideInv
  BY DEF RegistryInv
<1>2. heals \subseteq Servers
  BY <1>1 DEF SideInv
<1>3. CASE \/ Acquire \/ SubReleases \/ SubCalls \/ RebindReleases \/ RebindReleased
           \/ RebindCalls \/ DrainReleases \/ DrainNothing
  <2>1. heals' = heals /\ UNCHANGED <<caller, refresh>> /\ dials' = dials
    BY <1>3 DEF Acquire, SubReleases, SubCalls, RebindReleases, RebindReleased, Released,
                RebindCalls, DrainReleases, DrainNothing, upstreams
  <2>2. SideInv'
    BY <1>1, <1>2, <2>1, SameSide
  <2>3. CoreInv'
    BY <1>1, <1>3, AcquireInv, SubReleasesInv, SubCallsInv, RebindReleasesInv,
       RebindReleasedInv, RebindCallsInv, DrainReleasesInv, DrainNothingInv
  <2>. QED
    BY <2>2, <2>3 DEF RegistryInv
<1>4. ASSUME NEW ok \in BOOLEAN, SubReleased(ok) \/ DrainReleased(ok) PROVE RegistryInv'
  <2>1. heals' = heals /\ UNCHANGED <<caller, refresh>> /\ dials' = dials
    BY <1>4 DEF SubReleased, DrainReleased, Released
  <2>2. SideInv'
    BY <1>1, <1>2, <2>1, SameSide
  <2>3. CoreInv'
    BY <1>1, <1>4, SubReleasedInv, DrainReleasedInv
  <2>. QED
    BY <2>2, <2>3 DEF RegistryInv
<1>5. CASE SubSuperseded \/ RebindSuperseded \/ RebindRefused \/ RebindNoOwner \/ CallFails
  <2>1. /\ heals' = heals /\ UNCHANGED refresh /\ dials' = dials
        /\ Deliver(running.gen, TRUE) \/ Deliver(running.gen, FALSE)
    BY <1>5 DEF SubSuperseded, RebindSuperseded, RebindRefused, Released, RebindNoOwner,
                RebindFails, CallFails, upstreams
  <2>2. SideInv'
    BY <1>1, <1>2, <2>1, DeliverSide
  <2>3. CoreInv'
    BY <1>1, <1>5, SubSupersededInv, RebindSupersededInv, RebindRefusedInv,
       RebindNoOwnerInv, CallFailsInv
  <2>. QED
    BY <2>2, <2>3 DEF RegistryInv
<1>6. CASE CallSucceeds
  <2>1. /\ UNCHANGED refresh /\ dials' = dials /\ running.pc = "call"
        /\ Deliver(running.gen, TRUE) /\ heals' \subseteq heals \cup {running.to}
    BY <1>6 DEF CallSucceeds
  <2>2. running.to \in Servers
    BY <1>1, <2>1, CallFacts
  <2>3. SideInv'
    BY <1>1, <1>2, <2>1, <2>2, DeliverSide
  <2>. QED
    BY <1>1, <1>6, <2>3, CallSucceedsInv DEF RegistryInv
<1>. QED
  BY <1>3, <1>4, <1>5, <1>6 DEF Transition

LEMMA ServerSteps ==
  ASSUME RegistryInv, NEW s \in Servers, HealRuns(s) \/ Connect(s) \/ Disconnect(s)
  PROVE  RegistryInv'
<1>1. CoreInv /\ SideInv /\ CoreTypes /\ EntryInv
  BY DEF RegistryInv, CoreInv
<1>2. heals \subseteq Servers /\ route \in MaybeServer
  BY <1>1 DEF SideInv
<1>3. CASE HealRuns(s)
  <2>1. /\ heals' \subseteq heals /\ running' = running /\ UNCHANGED <<caller, refresh>>
        /\ UNCHANGED upstreams /\ dials' = dials
    BY <1>3 DEF HealRuns, upstreams
  <2>2. CASE route \notin {None, s}
    <3>1. Migrate(s, route, TRUE)
      BY <1>3, <2>2 DEF HealRuns
    <3>2. RegistryStep
      BY <1>1, <1>2, <2>2, <3>1, MigrateEffect DEF MaybeServer
    <3>. QED
      BY <1>1, <1>2, <2>1, <3>2, RegistryStepInv, SameSide DEF RegistryInv
  <2>3. CASE route \in {None, s}
    <3>1. UNCHANGED <<entry, nextGen, queued>>
      BY <1>3, <2>3 DEF HealRuns
    <3>2. RegistryStep
      BY <1>1, <3>1, Nothing DEF RegistryStep
    <3>. QED
      BY <1>1, <1>2, <2>1, <3>2, RegistryStepInv, SameSide DEF RegistryInv
  <2>. QED
    BY <2>2, <2>3
<1>4. ASSUME NEW v \in {0, dials + 2}, Redials(s, v), UNCHANGED <<heals, caller, refresh>>
      PROVE  RegistryInv'
  <2>1. dials \in Nat /\ dials' = dials + 1
    BY <1>1, <1>4, SubscriptionsAssumption DEF Redials, CoreTypes
  <2>2. \A c \in Clients : caller[c].toConn \in Nat
    BY <1>1 DEF SideInv, Calls
  <2>3. SideInv'
    BY <1>1, <1>4, <2>1, <2>2 DEF SideInv, refresh
  <2>. QED
    BY <1>1, <1>4, <2>3, RedialsInv DEF RegistryInv
<1>5. CASE Connect(s)
  <2>1. Redials(s, dials + 2) /\ UNCHANGED <<heals, caller, refresh>>
    BY <1>5 DEF Connect, Redials
  <2>. QED
    BY <1>4, <2>1
<1>6. CASE Disconnect(s)
  <2>1. Redials(s, 0) /\ UNCHANGED <<heals, caller, refresh>>
    BY <1>6 DEF Disconnect, Redials
  <2>. QED
    BY <1>4, <2>1
<1>. QED
  BY <1>3, <1>5, <1>6

LEMMA PassSteps ==
  ASSUME RegistryInv,
         \/ \E new \in Servers \cup {None} : Classify(new)
         \/ PassStep \/ SweepStep \/ DropPass
  PROVE  RegistryInv'
<1>1. CoreInv /\ SideInv /\ CoreTypes /\ EntryInv
  BY DEF RegistryInv, CoreInv
<1>2. /\ pass \in Passes /\ sweep \in Passes /\ SaneItem(pass.item) /\ SaneItem(sweep.item)
      /\ pass.new \in MaybeServer /\ pass.item.old \in MaybeServer
  BY <1>1, PassFields
<1>3. /\ route \in MaybeServer /\ passes \in 0..MaxPasses
      /\ AtRest \in Passes /\ SaneItem(AtRest.item)
  BY <1>1, RestTypes, RestSane DEF SideInv
<1>4. ASSUME UNCHANGED registry, UNCHANGED upstreams
      PROVE  CoreInv' /\ heals' = heals /\ dials' = dials
  <2>1. /\ UNCHANGED <<entry, nextGen, queued>> /\ running' = running /\ heals' = heals
        /\ dials' = dials
    BY <1>4 DEF registry, upstreams
  <2>2. RegistryStep
    BY <1>1, <2>1, Nothing DEF RegistryStep
  <2>. QED
    BY <1>1, <1>4, <2>1, <2>2, RegistryStepInv
<1>5. ASSUME NEW p \in Passes, NEW w \in Waits, NEW pc \in {"publish", "rebind", "rebound"},
             SaneItem(p.item)
      PROVE  /\ [p EXCEPT !.pc = pc, !.wait = w] \in Passes
             /\ SaneItem([p EXCEPT !.pc = pc, !.wait = w].item)
             /\ [p EXCEPT !.pc = pc] \in Passes
             /\ SaneItem([p EXCEPT !.pc = pc].item)
  <2>1. PICK q, r : q = [p EXCEPT !.pc = pc, !.wait = w] /\ r = [p EXCEPT !.pc = pc]
    OBVIOUS
  <2>2. q \in Passes /\ r \in Passes /\ q.item = p.item /\ r.item = p.item
    BY <1>5, <2>1 DEF Passes
  <2>. QED
    BY <1>5, <2>1, <2>2
<1>6. ASSUME NEW i, SaneItem(i), NEW new \in MaybeServer, NEW pc \in {"prune", "rebind"}
      PROVE  /\ [AtRest EXCEPT !.pc = pc, !.new = new, !.item = i] \in Passes
             /\ SaneItem([AtRest EXCEPT !.pc = pc, !.new = new, !.item = i].item)
             /\ [AtRest EXCEPT !.pc = pc, !.item = i] \in Passes
             /\ SaneItem([AtRest EXCEPT !.pc = pc, !.item = i].item)
  <2>1. PICK q, r : /\ q = [AtRest EXCEPT !.pc = pc, !.new = new, !.item = i]
                    /\ r = [AtRest EXCEPT !.pc = pc, !.item = i]
    OBVIOUS
  <2>2. q \in Passes /\ r \in Passes /\ q.item = i /\ r.item = i
    BY <1>3, <1>6, <2>1 DEF Passes, SaneItem
  <2>. QED
    BY <1>6, <2>1, <2>2
<1>7. ASSUME NEW new \in MaybeServer, Classify(new) PROVE RegistryInv'
  <2>1. /\ passes' = passes + 1 /\ passes < MaxPasses
        /\ pass' = [AtRest EXCEPT !.pc = "prune", !.new = new, !.item = Classification(route, new)]
        /\ UNCHANGED <<registry, caller, route, sweep, upstreams>>
    BY <1>7 DEF Classify
  <2>2. SaneItem(Classification(route, new))
    BY <1>1, <1>3, ClassificationType
  <2>3. pass' \in Passes /\ SaneItem(pass'.item)
    BY <1>6, <2>1, <2>2
  <2>4. passes' \in 0..MaxPasses
    BY <1>3, <2>1, SubscriptionsAssumption
  <2>5. SideInv'
    BY <1>1, <1>2, <1>3, <1>4, <2>1, <2>3, <2>4, PassSide
  <2>. QED
    BY <1>4, <2>1, <2>5 DEF RegistryInv
<1>8. CASE Prune
  <2>1. /\ running' = running /\ heals' = heals /\ caller' = caller /\ route' = route
        /\ sweep' = sweep /\ passes' = passes /\ UNCHANGED upstreams /\ nextGen' = nextGen
        /\ dials' = dials
    BY <1>8 DEF Prune, upstreams
  <2>2. entry.gen \in Gens
    BY <1>1, EntryFields DEF CoreTypes
  <2>3. CASE pass.item.kind = "prune" /\ entry.state # "absent"
    <3>1. PICK t : t = DrainTask(entry.gen, pass.item.old)
      OBVIOUS
    <3>2. /\ entry' = MarkDraining /\ queued' = queued \cup {t}
          /\ pass' = [pass EXCEPT !.pc = "publish", !.wait = DrainWait(entry.gen)]
      BY <1>8, <2>3, <3>1, Zenon DEF Prune, Spawn
    <3>3. Spawned(t) /\ t.kind = "drain" /\ t.gen = entry.gen
      BY <1>1, <1>2, <2>2, <3>1, DrainTaskFields
    <3>4. Drains(t)
      BY <1>1, <2>1, <2>3, <3>2, <3>3, MarkDrainingFields DEF Drains
    <3>5. RegistryStep
      BY <3>4 DEF RegistryStep
    <3>6. DrainWait(entry.gen) \in Waits
      BY <2>2, WaitTypes
    <3>7. pass' \in Passes /\ SaneItem(pass'.item)
      BY <1>2, <1>5, <3>2, <3>6
    <3>8. SideInv'
      BY <1>1, <1>2, <1>3, <2>1, <3>7, PassSide
    <3>. QED
      BY <1>1, <2>1, <3>5, <3>8, RegistryStepInv DEF RegistryInv
  <2>4. CASE ~(pass.item.kind = "prune" /\ entry.state # "absent")
    <3>1. /\ pass' = [pass EXCEPT !.pc = "publish"] /\ UNCHANGED <<entry, nextGen, queued>>
      BY <1>8, <2>1, <2>4, Zenon DEF Prune
    <3>2. RegistryStep
      BY <1>1, <3>1, Nothing DEF RegistryStep
    <3>3. pass' \in Passes /\ SaneItem(pass'.item)
      BY <1>2, <1>5, <3>1, RestTypes
    <3>4. SideInv'
      BY <1>1, <1>2, <1>3, <2>1, <3>3, PassSide
    <3>. QED
      BY <1>1, <2>1, <3>2, <3>4, RegistryStepInv DEF RegistryInv
  <2>. QED
    BY <2>3, <2>4
<1>9. CASE Publish
  <2>1. /\ route' = pass.new /\ pass' = [pass EXCEPT !.pc = "rebind", !.wait = NoWait]
        /\ UNCHANGED <<registry, caller, sweep, passes, upstreams>>
    BY <1>9 DEF Publish
  <2>2. pass' \in Passes /\ SaneItem(pass'.item)
    BY <1>2, <1>5, <2>1, RestTypes
  <2>3. SideInv'
    BY <1>1, <1>2, <1>3, <1>4, <2>1, <2>2, PassSide
  <2>. QED
    BY <1>4, <2>1, <2>3 DEF RegistryInv
<1>10. CASE Rebind
  <2>1. /\ Reconcile(pass.item) /\ running' = running /\ heals' = heals
        /\ pass' = [pass EXCEPT !.pc = "rebound", !.wait = ReconcileWait(pass.item)]
        /\ UNCHANGED <<caller, route, sweep, passes>> /\ UNCHANGED upstreams
        /\ dials' = dials
    BY <1>10 DEF Rebind, upstreams
  <2>2. RegistryStep /\ ReconcileWait(pass.item) \in Waits
    BY <1>1, <1>2, <2>1, ReconcileEffect
  <2>3. pass' \in Passes /\ SaneItem(pass'.item)
    <3>1. PICK w : w = ReconcileWait(pass.item)
      OBVIOUS
    <3>2. pass' = [pass EXCEPT !.pc = "rebound", !.wait = w] /\ w \in Waits
      BY <2>1, <2>2, <3>1, Zenon
    <3>. QED
      BY <1>2, <1>5, <3>2
  <2>4. SideInv'
    BY <1>1, <1>2, <1>3, <2>1, <2>3, PassSide
  <2>. QED
    BY <1>1, <2>1, <2>2, <2>4, RegistryStepInv DEF RegistryInv
<1>11. CASE SweepClassify
  <2>1. /\ sweep' = [AtRest EXCEPT !.pc = "rebind", !.item = Classification(route, route)]
        /\ pass' = AtRest /\ UNCHANGED <<registry, caller, route, passes, upstreams>>
    BY <1>11 DEF SweepClassify
  <2>2. SaneItem(Classification(route, route))
    BY <1>1, <1>3, ClassificationType
  <2>3. sweep' \in Passes /\ SaneItem(sweep'.item)
    BY <1>3, <1>6, <2>1, <2>2
  <2>4. SideInv'
    BY <1>1, <1>2, <1>3, <1>4, <2>1, <2>3, PassSide
  <2>. QED
    BY <1>4, <2>1, <2>4 DEF RegistryInv
<1>12. CASE SweepRebind
  <2>1. /\ Reconcile(sweep.item) /\ running' = running /\ heals' = heals
        /\ sweep' = [sweep EXCEPT !.pc = "rebound", !.wait = ReconcileWait(sweep.item)]
        /\ UNCHANGED <<caller, route, pass, passes>> /\ UNCHANGED upstreams
        /\ dials' = dials
    BY <1>12 DEF SweepRebind, upstreams
  <2>2. RegistryStep /\ ReconcileWait(sweep.item) \in Waits
    BY <1>1, <1>2, <2>1, ReconcileEffect
  <2>3. sweep' \in Passes /\ SaneItem(sweep'.item)
    <3>1. PICK w : w = ReconcileWait(sweep.item)
      OBVIOUS
    <3>2. sweep' = [sweep EXCEPT !.pc = "rebound", !.wait = w] /\ w \in Waits
      BY <2>1, <2>2, <3>1, Zenon
    <3>. QED
      BY <1>2, <1>5, <3>2
  <2>4. SideInv'
    BY <1>1, <1>2, <1>3, <2>1, <2>3, PassSide
  <2>. QED
    BY <1>1, <2>1, <2>2, <2>4, RegistryStepInv DEF RegistryInv
<1>13. CASE SweepEnds
  <2>1. /\ sweep' = AtRest /\ UNCHANGED <<registry, caller, route, pass, passes, upstreams>>
    BY <1>13 DEF SweepEnds
  <2>2. SideInv'
    BY <1>1, <1>2, <1>3, <1>4, <2>1, PassSide
  <2>. QED
    BY <1>4, <2>1, <2>2 DEF RegistryInv
<1>14. CASE DropPass
  <2>1. /\ pass' = AtRest /\ UNCHANGED <<registry, caller, route, sweep, passes, upstreams>>
    BY <1>14 DEF DropPass
  <2>2. SideInv'
    BY <1>1, <1>2, <1>3, <1>4, <2>1, PassSide
  <2>. QED
    BY <1>4, <2>1, <2>2 DEF RegistryInv
<1>. QED
  BY <1>7, <1>8, <1>9, <1>10, <1>11, <1>12, <1>13, <1>14
     DEF PassStep, SweepStep, MaybeServer

LEMMA RegistryInvInit ==
  ASSUME SubscriptionsInit
  PROVE  RegistryInv
<1>. USE SubscriptionsAssumption
<1>1. /\ entry = Absent /\ nextGen = 1 /\ queued = {} /\ running = Free /\ heals = {}
      /\ caller = [c \in Clients |-> NoCall] /\ route \in Servers
      /\ pass = AtRest /\ sweep = AtRest /\ passes = 0
      /\ conn = [s \in Servers |-> 1] /\ dials = 0
      /\ held = {} /\ stuck = {} /\ undone = {}
  BY DEF SubscriptionsInit
<1>2. CoreTypes
  BY <1>1, AbsentFields, FreeFields DEF CoreTypes
<1>3. TaskInv
  BY <1>1 DEF TaskInv
<1>4. EntryInv
  BY <1>1, AbsentFields DEF EntryInv
<1>5. GenInv /\ OneStart /\ LateInv
  BY <1>1, AbsentFields, FreeFields DEF GenInv, OneStart, LateInv, StartKinds
<1>6. BackedInv
  BY <1>1, AbsentFields DEF BackedInv
<1>7. CoverInv
  BY <1>1, AbsentFields, FreeFields DEF CoverInv, Live
<1>8. SideInv
  BY <1>1, RestTypes DEF SideInv, MaybeServer
<1>. QED
  BY <1>2, <1>3, <1>4, <1>5, <1>6, <1>7, <1>8 DEF RegistryInv, CoreInv

LEMMA RegistryInvStep ==
  ASSUME RegistryInv, [SubscriptionsNext]_subscriptionVars
  PROVE  RegistryInv'
<1>1. CASE SubscriptionsNext
  BY <1>1, RequestSteps, TransitionSteps, ServerSteps, PassSteps DEF SubscriptionsNext
<1>2. CASE UNCHANGED subscriptionVars
  <2>1. /\ UNCHANGED <<entry, nextGen, queued>> /\ running' = running /\ heals' = heals
        /\ UNCHANGED upstreams /\ dials' = dials /\ UNCHANGED <<caller, refresh>>
    BY <1>2 DEF subscriptionVars, registry, upstreams, refresh
  <2>2. CoreInv /\ SideInv /\ CoreTypes /\ EntryInv /\ heals \subseteq Servers
    BY DEF RegistryInv, CoreInv, SideInv
  <2>3. RegistryStep
    BY <2>1, <2>2, Nothing DEF RegistryStep
  <2>. QED
    BY <2>1, <2>2, <2>3, RegistryStepInv, SameSide DEF RegistryInv
<1>. QED
  BY <1>1, <1>2

-----------------------------------------------------------------------------
(* The theorems. *)

\* The registry's invariant: no task is ahead of its entry, a generation has one
\* subscribe or rebind, everything left over when an entry becomes Active was
\* overtaken, and every subscription a server holds has an entry or a subscribe on
\* its way that answers for it (SubscriptionRegistry, its transitions).
THEOREM RegistryInvariant == SubscriptionsSpec => []RegistryInv
<1>1. SubscriptionsInit => RegistryInv
  BY RegistryInvInit
<1>2. RegistryInv /\ [SubscriptionsNext]_subscriptionVars => RegistryInv'
  BY RegistryInvStep
<1>. QED
  BY <1>1, <1>2, PTL DEF SubscriptionsSpec

\* What an entry says is true: a Pending entry has the task that settles it, a
\* Draining one the drain that removes it, and an Active one on its server's present
\* connection is subscribed there unless an overtaken transition undid it
\* (run_subscribe_transition, run_rebind_transition, run_drain_transition).
THEOREM EntriesAreBacked == SubscriptionsSpec => []EntryIsBacked
<1>1. RegistryInv => EntryIsBacked
  <2>. SUFFICES ASSUME RegistryInv PROVE EntryIsBacked
    OBVIOUS
  <2>1. CoreTypes /\ EntryInv /\ BackedInv /\ SideInv
    BY DEF RegistryInv, CoreInv
  <2>2. SubscriptionsTypeOK
    BY <2>1 DEF SubscriptionsTypeOK, CoreTypes, EntryInv, SideInv, Entries, Calls
  <2>3. /\ entry.state = "pending" => \E t \in queued \cup {running} :
              t.gen = entry.gen /\ t.kind \in {"sub", "rebind"}
        /\ entry.state = "draining" => \E t \in queued \cup {running} :
              t.gen = entry.gen /\ t.kind \in {"drain"}
        /\ entry.state = "active" /\ conn[entry.owner] = entry.ownerConn =>
              entry.owner \in held \cup undone
    BY <2>1, Zenon DEF BackedInv, AtWork, StartKinds
  <2>. QED
    BY <2>2, <2>3, Zenon DEF EntryIsBacked
<1>. QED
  BY <1>1, RegistryInvariant, PTL

\* When nothing is at work on the resource, a server that still holds a subscription
\* has subscribers behind it, or was given up in one of the ways the code leaves to it:
\* whatever joins, migrations and drains displace is released (owner_to_release,
\* run_subscribe_transition).
THEOREM OrphansAreLate == SubscriptionsSpec => []OrphanedOnlyLate
<1>1. RegistryInv => OrphanedOnlyLate
  <2>. SUFFICES ASSUME RegistryInv, Quiet, NEW s \in Orphans, s \notin stuck PROVE FALSE
    BY DEF OrphanedOnlyLate
  <2>1. CoreTypes /\ EntryInv /\ BackedInv /\ CoverInv
    BY DEF RegistryInv, CoreInv
  <2>2. queued = {} /\ running = Free /\ Free.kind = "none"
    BY FreeFields DEF Quiet
  <2>3. s \in Live /\ ~(entry.state = "active" /\ entry.owner = s /\ entry.members # {})
    BY DEF Orphans, Live
  <2>4. Covered(s)
    BY <2>1, <2>3 DEF CoverInv
  <2>5. entry.state # "absent" /\ entry.owner = s
    BY <2>2, <2>4 DEF Covered, Takes
  <2>6. entry.state \notin {"pending", "draining"}
    BY <2>1, <2>2 DEF BackedInv, AtWork, StartKinds
  <2>7. entry.state = "active"
    BY <2>1, <2>5, <2>6, EntryFields DEF CoreTypes
  <2>. QED
    BY <2>1, <2>3, <2>5, <2>7 DEF EntryInv
<1>. QED
  BY <1>1, RegistryInvariant, PTL

=============================================================================
