---------------------------- MODULE TasksProofs -----------------------------
(***************************************************************************)
(* Proofs about Tasks, for any number of calls, of requests about them and *)
(* of lives of the owner.                                                  *)
(***************************************************************************)
EXTENDS Tasks, TLAPS

Numbers == 0..MaxLife
Recs == [on : BOOLEAN, up : {0, 1, 2}, handle : BOOLEAN, pend : BOOLEAN,
         status : {"working", "completed", "failed", "cancelled"},
         result : BOOLEAN, life : Numbers]
CallRecs == [pc : {"idle", "arrived", "probe", "locking", "created", "queueing",
                   "creating", "inserting", "reaping", "over"}, path : {"local", "native"}]
Execs == [pc : {"none", "ready", "sent", "missing", "replay", "wait", "reconnect", "dead"},
          n : {1, 2}]
OpRecs == [pc : {"idle", "tell", "abort", "ask", "apply"},
           kind : {"cancel", "get", "result"}, call : Calls \cup {NoCall}, up : {0, 1, 2},
           handle : BOOLEAN, seen : {"working", "completed", "cancelled"}]
Downs == [pc : {"none", "check", "clean", "stop", "done"},
          runs : SUBSET Runs, handles : SUBSET Calls]
RunStates == {"none", "asked", "running", "ended", "told", "lost", "unsent"}

\* TypeOK in parts.
StoreTypes ==
    /\ call \in [Calls -> CallRecs] /\ rec \in [Calls -> Recs]
    /\ exec \in [Calls -> Execs] /\ run \in [Runs -> RunStates]
    /\ op \in [Ops -> OpRecs] /\ down \in [Lives -> Downs]

OwnerTypes ==
    /\ owner \in [kind : {"http", "ipc"}, on : BOOLEAN, life : Numbers]
    /\ torn \in BOOLEAN /\ asked \in 0..MaxOps
    /\ excused \subseteq Calls /\ drained \subseteq Calls

-----------------------------------------------------------------------------
(* The invariant. *)

Before == {"idle", "arrived", "probe", "locking", "queueing"}
Passed == {"locking", "queueing", "creating", "inserting"}
Unrecorded == Before \cup {"creating", "inserting", "reaping"}
Alive == {"ready", "sent", "missing", "replay", "wait", "reconnect"}
Active == {"asked", "running"}

Quiet == ~owner.on /\ \A l \in Lives : down[l].pc \in {"none", "stop", "done"}

\* The owner and its teardowns: once a teardown is through, a create that has passed the
\* probe finds the tombstone.
OwnerInv ==
    /\ owner.on => owner.life \in Lives
    /\ \A l \in Lives : l > owner.life \/ (owner.on /\ l = owner.life) => down[l].pc = "none"
    /\ torn => Guarded # {}
    /\ Quiet => Live = {} /\ (torn \/ \A c \in Calls : call[c].pc \notin Passed)

\* A request that is served names a call, a teardown that is not about to stop anything
\* holds nothing.
OpShape(o) ==
    /\ op[o].pc = "idle" => op[o] = NoOp
    /\ op[o].pc # "idle" => op[o].call \in Calls

DownShape(l) == down[l].pc # "stop" => down[l].runs = {} /\ down[l].handles = {}

\* Until it has its record a call is known to nobody else.
FreshInv(c) ==
    call[c].pc \in Unrecorded =>
        /\ rec[c] = NoRecord /\ exec[c] = [pc |-> "none", n |-> 1]
        /\ \A o \in Ops : op[o].call # c
        /\ \A l \in Lives : /\ c \notin down[l].handles
                            /\ <<c, 1>> \notin down[l].runs /\ <<c, 2>> \notin down[l].runs
        /\ run[<<c, 2>>] = "none"
        /\ call[c].pc \in Before => run[<<c, 1>>] = "none"

PathInv(c) ==
    /\ call[c].pc = "locking" => call[c].path = "local"
    /\ call[c].pc \in {"queueing", "creating", "inserting", "reaping"} => call[c].path = "native"
    /\ call[c].path = "native" => exec[c] = [pc |-> "none", n |-> 1]

\* The runs of call c the server may have: a local call is sent again only after the
\* server no longer has it.
ServerInv(c) ==
    /\ exec[c].n = 1 => run[<<c, 2>>] \notin Active
    /\ exec[c].n = 2 \/ exec[c].pc = "reconnect" => run[<<c, 1>>] \notin Active
    /\ exec[c].pc = "ready" => run[<<c, 1>>] \notin Active /\ run[<<c, 2>>] \notin Active
    /\ exec[c].pc = "reconnect" => exec[c].n = 1

\* A record and the future it belongs to: the reference is that of the run the future
\* waits for, a pending cancel waits for a future that has not recorded its request.
RecInv(c) ==
    /\ ~rec[c].on => rec[c] = NoRecord
    /\ rec[c].on =>
        /\ \A l \in Lives : c \notin down[l].handles
        /\ rec[c].pend => is_terminal(rec[c].status)
        /\ is_terminal(rec[c].status) /\ call[c].path = "local" => ~rec[c].handle
        /\ ~is_terminal(rec[c].status) /\ exec[c].pc = "wait" => rec[c].up = exec[c].n
        /\ rec[c].up # 0 /\ call[c].path = "local" =>
              exec[c].n = 2 \/ exec[c].pc \in {"replay", "wait", "reconnect", "dead"}
        /\ exec[c].pc = "replay" => is_terminal(rec[c].status)
        /\ call[c].path = "native" /\ ~is_terminal(rec[c].status) => rec[c].up = 1
        /\ rec[c].status = "completed" => rec[c].result \/ rec[c].up # 0
        /\ exec[c].pc # "missing"

\* A cancel on its way: the run its record referred to is told before the future is
\* aborted, or else the future finds the pending cancel.
CancelInv(o, c) ==
    /\ rec[c].on => is_terminal(rec[c].status)
    /\ op[o].pc = "tell" => op[o].up # 0
    /\ op[o].up # 0 => ~rec[c].pend /\ exec[c].pc # "replay"
    /\ op[o].up # 0 /\ call[c].path = "local" =>
          exec[c].n = 2 \/ exec[c].pc \in {"wait", "reconnect", "dead"}
    /\ op[o].up = 0 /\ exec[c].n = 1 /\ exec[c].pc \in {"ready", "sent"} /\ rec[c].on => rec[c].pend
    /\ exec[c].pc = "wait" /\ exec[c].n = 1 /\ op[o].pc = "tell" => op[o].up = 1
    /\ exec[c].pc = "wait" /\ exec[c].n = 1 /\ op[o].pc = "abort" => run[<<c, 1>>] \notin Active

\* A request that asks the server knows only what the server has said for good.
AskInv(o, c) ==
    /\ call[c].path = "native" /\ ~op[o].handle
    /\ op[o].pc = "apply" =>
          /\ op[o].kind = "result" => op[o].seen = "completed"
          /\ op[o].seen = "completed" => run[<<c, 1>>] = "ended"
          /\ op[o].seen = "cancelled" => run[<<c, 1>>] \in {"told", "ended"}

OpInv(o, c) ==
    /\ op[o].pc \in {"tell", "abort"} => op[o].kind = "cancel" /\ CancelInv(o, c)
    /\ op[o].pc \in {"ask", "apply"} => op[o].kind # "cancel" /\ AskInv(o, c)

\* A future whose handle a teardown took is not about to replay a cancel, and if it waits
\* the teardown has its run too.
StopInv(l, c) ==
    c \in down[l].handles =>
        /\ exec[c].pc # "replay"
        /\ exec[c].pc = "wait" => <<c, exec[c].n>> \in down[l].runs

\* Someone can stop the future.
HandleInv(c) ==
    exec[c].pc \in Alive =>
        \/ rec[c].on /\ rec[c].handle
        \/ \E l \in Lives : c \in down[l].handles
        \/ \E o \in Ops : op[o].pc # "idle" /\ op[o].call = c /\ op[o].handle
        \/ c \in excused

RunInv(c, n) == run[<<c, n>>] \in Active => Answers(c, n) \/ c \in excused

CallInv(c) ==
    /\ FreshInv(c) /\ PathInv(c) /\ ServerInv(c) /\ RecInv(c) /\ HandleInv(c)
    /\ \A o \in Ops : op[o].call = c => OpInv(o, c)
    /\ \A l \in Lives : StopInv(l, c)
    /\ RunInv(c, 1) /\ RunInv(c, 2)

Shapes ==
    /\ StoreTypes /\ OwnerTypes
    /\ \A o \in Ops : OpShape(o)
    /\ \A l \in Lives : DownShape(l)

Inv ==
    /\ Shapes /\ OwnerInv
    /\ \A c \in Calls : CallInv(c)

-----------------------------------------------------------------------------
(* What a step leaves alone. *)

LEMMA Bounds ==
    /\ MaxLife \in Nat \ {0} /\ MaxOps \in Nat /\ NoCall \notin Calls
    /\ \A c \in Calls : <<c, 1>> \in Runs /\ <<c, 2>> \in Runs
BY TasksAssumption DEF Runs

\* What the invariant looks at for call c does not change.
Same(c) ==
    /\ call'[c] = call[c] /\ rec'[c] = rec[c] /\ exec'[c] = exec[c]
    /\ run'[<<c, 1>>] = run[<<c, 1>>] /\ run'[<<c, 2>>] = run[<<c, 2>>]
    /\ \A o \in Ops : op'[o] = op[o] \/ (op[o].call # c /\ op'[o].call # c)
    /\ \A l \in Lives : /\ c \in down'[l].handles <=> c \in down[l].handles
                        /\ <<c, 1>> \in down'[l].runs <=> <<c, 1>> \in down[l].runs
                        /\ <<c, 2>> \in down'[l].runs <=> <<c, 2>> \in down[l].runs
    /\ c \in excused' <=> c \in excused

LEMMA SameInv ==
  ASSUME StoreTypes, NEW c \in Calls, CallInv(c), Same(c)
  PROVE  CallInv(c)'
<1>1. FreshInv(c)' /\ PathInv(c)' /\ ServerInv(c)'
  BY DEF CallInv, FreshInv, PathInv, ServerInv, Same
<1>2. RecInv(c)'
  BY DEF CallInv, RecInv, Same
<1>3. HandleInv(c)'
  BY DEF CallInv, HandleInv, Same
<1>4. ASSUME NEW o \in Ops, op'[o].call = c PROVE OpInv(o, c)'
  <2>1. op'[o] = op[o] /\ OpInv(o, c)
    BY <1>4 DEF CallInv, Same
  <2>. QED
    BY <2>1 DEF OpInv, CancelInv, AskInv, Same
<1>5. ASSUME NEW l \in Lives PROVE StopInv(l, c)'
  <2>1. exec[c].n \in {1, 2}
    BY DEF StoreTypes, Execs
  <2>. QED
    BY <2>1 DEF CallInv, StopInv, Same
<1>6. ASSUME NEW n \in {1, 2}, RunInv(c, n) PROVE RunInv(c, n)'
  BY <1>6 DEF RunInv, Answers, Same
<1>. QED
  BY <1>1, <1>2, <1>3, <1>4, <1>5, <1>6 DEF CallInv

\* Telling the server: what it is told of goes on no longer, nothing else changes.
LEMMA TellEffect ==
  ASSUME StoreTypes, NEW rs, Tell(rs), NEW c \in Calls, NEW n \in {1, 2}
  PROVE  /\ <<c, n>> \in rs => run'[<<c, n>>] \notin Active
         /\ <<c, n>> \notin rs => run'[<<c, n>>] = run[<<c, n>>]
         /\ run[<<c, n>>] \notin Active => run'[<<c, n>>] = run[<<c, n>>]
         /\ run'[<<c, n>>] \in Active => run'[<<c, n>>] = run[<<c, n>>]
         /\ run'[<<c, n>>] \in RunStates
<1>1. <<c, n>> \in Runs
  BY DEF Runs
<1>2. run'[<<c, n>>] = IF <<c, n>> \in rs /\ run[<<c, n>>] \in {"asked", "running"} THEN "told"
                      ELSE run[<<c, n>>]
  BY <1>1 DEF Tell
<1>3. run[<<c, n>>] \in RunStates
  BY <1>1 DEF StoreTypes
<1>. QED
  BY <1>2, <1>3 DEF Active, RunStates

-----------------------------------------------------------------------------
(* Types and shapes. *)

LEMMA NoRecordType == NoRecord \in Recs /\ ~NoRecord.on /\ ~NoRecord.handle /\ ~NoRecord.pend
BY Bounds DEF NoRecord, Recs, Numbers

LEMMA NoOpType == NoOp \in OpRecs /\ NoOp.pc = "idle" /\ NoOp.call = NoCall /\ ~NoOp.handle
BY DEF NoOp, OpRecs

\* Only what belongs to call c changes, by variable.
OnlyCall(c) == call' \in [Calls -> CallRecs] /\ \A d \in Calls \ {c} : call'[d] = call[d]
OnlyRec(c) == rec' \in [Calls -> Recs] /\ \A d \in Calls \ {c} : rec'[d] = rec[d]
OnlyExec(c) == exec' \in [Calls -> Execs] /\ \A d \in Calls \ {c} : exec'[d] = exec[d]
OnlyRun(c) ==
    /\ run' \in [Runs -> RunStates]
    /\ \A d \in Calls \ {c} : run'[<<d, 1>>] = run[<<d, 1>>] /\ run'[<<d, 2>>] = run[<<d, 2>>]
OnlyOp(c) ==
    /\ op' \in [Ops -> OpRecs]
    /\ \A o \in Ops : op'[o] = op[o] \/ (op[o].call \in {c, NoCall} /\ op'[o].call \in {c, NoCall})
OnlyExcused(c) ==
    excused' \subseteq Calls /\ \A d \in Calls \ {c} : d \in excused' <=> d \in excused

Only(c) == OnlyCall(c) /\ OnlyRec(c) /\ OnlyExec(c) /\ OnlyRun(c) /\ OnlyOp(c) /\ OnlyExcused(c)

LEMMA Unchanged ==
  ASSUME StoreTypes, OwnerTypes, NEW c \in Calls
  PROVE  /\ call' = call => OnlyCall(c)
         /\ rec' = rec => OnlyRec(c)
         /\ exec' = exec => OnlyExec(c)
         /\ run' = run => OnlyRun(c)
         /\ op' = op => OnlyOp(c)
         /\ excused' = excused => OnlyExcused(c)
BY DEF StoreTypes, OwnerTypes, OnlyCall, OnlyRec, OnlyExec, OnlyRun, OnlyOp, OnlyExcused

LEMMA GoesEffect ==
  ASSUME StoreTypes, NEW c \in Calls,
         NEW pc \in {"idle", "arrived", "probe", "locking", "created", "queueing", "creating",
                     "inserting", "reaping", "over"}, Goes(c, pc)
  PROVE  OnlyCall(c) /\ call'[c].pc = pc /\ call'[c].path = call[c].path
<1>1. call[c] \in CallRecs
  BY DEF StoreTypes
<1>2. [call[c] EXCEPT !.pc = pc] \in CallRecs
  BY <1>1 DEF CallRecs
<1>3. call' = [call EXCEPT ![c] = [call[c] EXCEPT !.pc = pc]]
  BY DEF Goes
<1>. QED
  BY <1>1, <1>2, <1>3 DEF StoreTypes, OnlyCall, CallRecs

LEMMA TellOnly ==
  ASSUME StoreTypes, NEW c \in Calls, NEW rs, Tell(rs),
         \A d \in Calls \ {c} : <<d, 1>> \notin rs /\ <<d, 2>> \notin rs
  PROVE  OnlyRun(c)
<1>1. run' \in [Runs -> RunStates]
  BY DEF StoreTypes, Tell, RunStates
<1>2. \A d \in Calls \ {c} : run'[<<d, 1>>] = run[<<d, 1>>] /\ run'[<<d, 2>>] = run[<<d, 2>>]
  BY TellEffect
<1>. QED
  BY <1>1, <1>2 DEF OnlyRun

LEMMA RunOnly ==
  ASSUME StoreTypes, NEW c \in Calls, NEW n \in {1, 2}, NEW s \in RunStates,
         run' = [run EXCEPT ![<<c, n>>] = s]
  PROVE  /\ OnlyRun(c) /\ run'[<<c, n>>] = s
         /\ n = 1 => run'[<<c, 2>>] = run[<<c, 2>>]
         /\ n = 2 => run'[<<c, 1>>] = run[<<c, 1>>]
BY DEF StoreTypes, OnlyRun, Runs

LEMMA AbortedEffect ==
  ASSUME StoreTypes, NEW cs, Aborted(cs)
  PROVE  /\ exec' \in [Calls -> Execs]
         /\ \A c \in Calls \ cs : exec'[c] = exec[c]
         /\ \A c \in cs \cap Calls : exec[c].pc # "none" =>
               exec'[c].pc = "dead" /\ exec'[c].n = exec[c].n
         /\ \A c \in cs \cap Calls : exec[c].pc = "none" => exec'[c] = exec[c]
<1>0. \A c \in Calls : exec[c] \in Execs
  BY DEF StoreTypes
<1>1. \A c \in Calls : /\ [exec[c] EXCEPT !.pc = "dead"] \in Execs
                       /\ [exec[c] EXCEPT !.pc = "dead"].pc = "dead"
                       /\ [exec[c] EXCEPT !.pc = "dead"].n = exec[c].n
  BY <1>0 DEF Execs
<1>2. \A c \in Calls :
         exec'[c] = IF c \in cs /\ exec[c].pc # "none" THEN [exec[c] EXCEPT !.pc = "dead"] ELSE exec[c]
  BY DEF Aborted
<1>3. exec' = [c \in Calls |-> exec'[c]]
  BY DEF Aborted
<1>. QED
  BY <1>0, <1>1, <1>2, <1>3

LEMMA StepsEffect ==
  ASSUME StoreTypes, NEW c \in Calls,
         NEW pc \in {"none", "ready", "sent", "missing", "replay", "wait", "reconnect", "dead"},
         Steps(c, pc)
  PROVE  OnlyExec(c) /\ exec'[c].pc = pc /\ exec'[c].n = exec[c].n
<1>1. exec[c] \in Execs
  BY DEF StoreTypes
<1>2. [exec[c] EXCEPT !.pc = pc] \in Execs
  BY <1>1 DEF Execs
<1>3. exec' = [exec EXCEPT ![c] = [exec[c] EXCEPT !.pc = pc]]
  BY DEF Steps
<1>. QED
  BY <1>1, <1>2, <1>3 DEF StoreTypes, OnlyExec, Execs

LEMMA RecOnly ==
  ASSUME StoreTypes, NEW c \in Calls, NEW r \in Recs, rec' = [rec EXCEPT ![c] = r]
  PROVE  OnlyRec(c) /\ rec'[c] = r
BY DEF StoreTypes, OnlyRec

\* A future's end, as its record sees it.
LEMMA EndsEffect ==
  ASSUME StoreTypes, NEW c \in Calls, NEW s \in {"completed", "failed"}, Ends(c, s)
  PROVE  /\ OnlyRec(c)
         /\ \/ rec'[c] = rec[c] /\ (rec[c].on => is_terminal(rec[c].status))
            \/ /\ rec[c].on /\ ~is_terminal(rec[c].status)
               /\ rec'[c].on /\ rec'[c].status = s /\ (rec'[c].result <=> s = "completed")
               /\ ~rec'[c].handle /\ rec'[c].up = 0 /\ (rec'[c].pend <=> rec[c].pend)
<1>1. rec[c] \in Recs
  BY DEF StoreTypes
<1>. DEFINE r == [rec[c] EXCEPT !.status = s, !.result = (s = "completed"), !.handle = FALSE, !.up = 0]
<1>2. /\ r \in Recs /\ r.status = s /\ (r.result <=> s = "completed")
      /\ ~r.handle /\ r.up = 0 /\ (r.pend <=> rec[c].pend) /\ (r.on <=> rec[c].on)
  <2>1. r \in Recs
    BY <1>1 DEF Recs
  <2>2. r.status = s /\ r.up = 0 /\ r.pend = rec[c].pend /\ r.on = rec[c].on /\ r.handle = FALSE
    BY <1>1 DEF Recs
  <2>3. r.result = (s = "completed")
    BY <1>1, Zenon DEF Recs
  <2>. HIDE DEF r
  <2>. QED
    BY <2>1, <2>2, <2>3
<1>3. rec' = [rec EXCEPT ![c] = IF ~rec[c].on \/ is_terminal(rec[c].status) THEN rec[c] ELSE r]
  BY DEF Ends
<1>. HIDE DEF r
<1>4. CASE ~rec[c].on \/ is_terminal(rec[c].status)
  <2>1. rec' = [rec EXCEPT ![c] = rec[c]]
    BY <1>3, <1>4
  <2>. QED
    BY <1>1, <1>4, <2>1, RecOnly
<1>5. CASE ~(~rec[c].on \/ is_terminal(rec[c].status))
  <2>1. rec' = [rec EXCEPT ![c] = r]
    BY <1>3, <1>5
  <2>. QED
    BY <1>2, <1>5, <2>1, RecOnly
<1>. QED
  BY <1>4, <1>5

-----------------------------------------------------------------------------
(* A call until it has its record. *)

\* It moves on, or is over, before that.
LEMMA FreshMoves ==
  ASSUME StoreTypes, NEW c \in Calls, CallInv(c), PathInv(c)',
         call[c].pc \in Unrecorded, UNCHANGED <<rec, exec, op, down>>,
         run'[<<c, 2>>] = run[<<c, 2>>],
         call'[c].pc \in Before => run'[<<c, 1>>] = "none",
         run'[<<c, 1>>] \in Active =>
             call'[c].pc \in {"creating", "inserting", "reaping"} \/ c \in excused'
  PROVE  CallInv(c)'
<1>1. /\ rec[c] = NoRecord /\ exec[c] = [pc |-> "none", n |-> 1]
      /\ \A o \in Ops : op[o].call # c
      /\ \A l \in Lives : /\ c \notin down[l].handles
                          /\ <<c, 1>> \notin down[l].runs /\ <<c, 2>> \notin down[l].runs
      /\ run[<<c, 2>>] = "none"
  BY DEF CallInv, FreshInv
<1>2. FreshInv(c)' /\ ServerInv(c)'
  BY <1>1 DEF FreshInv, ServerInv, Active
<1>3. RecInv(c)'
  BY <1>1, NoRecordType DEF RecInv
<1>4. HandleInv(c)'
  BY <1>1 DEF HandleInv, Alive
<1>5. RunInv(c, 1)' /\ RunInv(c, 2)'
  <2>1. RunInv(c, 2)'
    BY <1>1 DEF RunInv, Active
  <2>2. RunInv(c, 1)'
    BY DEF RunInv, Answers
  <2>. QED
    BY <2>1, <2>2
<1>6. \A o \in Ops : (op[o].call = c)' => OpInv(o, c)'
  BY <1>1
<1>7. \A l \in Lives : StopInv(l, c)'
  BY <1>1 DEF StopInv
<1>. QED
  BY <1>2, <1>3, <1>4, <1>5, <1>6, <1>7 DEF CallInv

LEMMA CreateStep ==
  ASSUME StoreTypes, OwnerTypes, NEW c \in Calls, CallInv(c),
         \/ \E path \in {"local", "native"} : Arrive(c, path)
         \/ AnotherCall(c) \/ CallerHangsUp(c) \/ Create(c) \/ Hears(c)
  PROVE  Only(c) /\ UNCHANGED <<owner, down, op, asked, drained>> /\ CallInv(c)'
<1>. USE Bounds DEF Unrecorded, Before, Active
<1>0. FreshInv(c) /\ PathInv(c) /\ call[c] \in CallRecs
  BY DEF CallInv, StoreTypes
<1>f. call[c].pc \in Unrecorded => exec[c] = [pc |-> "none", n |-> 1] /\ run[<<c, 2>>] = "none"
  BY <1>0 DEF FreshInv
<1>1. ASSUME NEW path \in {"local", "native"}, Arrive(c, path)
      PROVE  Only(c) /\ UNCHANGED <<owner, down, op, asked, drained>> /\ CallInv(c)'
  <2>1. /\ call' = [call EXCEPT ![c] = [pc |-> "arrived", path |-> path]] /\ call[c].pc = "idle"
        /\ UNCHANGED <<owner, down, rec, exec, run, op, asked, excused, drained>>
    BY <1>1 DEF Arrive
  <2>2. OnlyCall(c) /\ call'[c].pc = "arrived"
    BY <2>1 DEF StoreTypes, OnlyCall, CallRecs
  <2>3. Only(c)
    BY <2>1, <2>2, Unchanged DEF Only
  <2>4. PathInv(c)' /\ run[<<c, 1>>] = "none"
    BY <1>0, <1>f, <2>1, <2>2 DEF PathInv, FreshInv
  <2>5. CallInv(c)'
    BY <2>1, <2>2, <2>4, FreshMoves
  <2>. QED
    BY <2>1, <2>3, <2>5
\* The call goes on without a word to the server.
<1>2. ASSUME NEW pc \in {"probe", "locking", "queueing", "over"}, Goes(c, pc), call[c].pc \in Before,
             UNCHANGED <<owner, down, rec, exec, run, op, asked, excused, drained>>,
             pc = "locking" => call[c].path = "local", pc = "queueing" => call[c].path = "native"
      PROVE  Only(c) /\ CallInv(c)'
  <2>1. OnlyCall(c) /\ call'[c].pc = pc /\ call'[c].path = call[c].path
    BY <1>2, GoesEffect
  <2>2. Only(c)
    BY <1>2, <2>1, Unchanged DEF Only
  <2>3. PathInv(c)' /\ run[<<c, 1>>] = "none"
    BY <1>0, <1>2, <2>1 DEF PathInv, FreshInv
  <2>4. CallInv(c)'
    BY <1>2, <2>1, <2>3, FreshMoves
  <2>. QED
    BY <2>2, <2>4
<1>3. CASE BeginCreate(c) \/ Probe(c) \/ CallerHangsUp(c)
  <2>1. /\ UNCHANGED <<owner, down, rec, exec, run, op, asked, excused, drained>>
        /\ call[c].pc \in Before
    BY <1>3 DEF BeginCreate, Probe, CallerHangsUp
  <2>2. \E pc \in {"probe", "locking", "queueing", "over"} :
           /\ Goes(c, pc)
           /\ pc = "locking" => call[c].path = "local"
           /\ pc = "queueing" => call[c].path = "native"
    BY <1>0, <1>3 DEF BeginCreate, Probe, CallerHangsUp, Leaves, CallRecs
  <2>. QED
    BY <1>2, <2>1, <2>2
\* It speaks to the server, or hears of it.
<1>4. ASSUME NEW pc \in {"creating", "inserting", "reaping", "over"}, Goes(c, pc),
             call[c].pc \in {"queueing", "creating", "inserting", "reaping"},
             UNCHANGED <<owner, down, rec, exec, op, asked, drained>>,
             OnlyRun(c), OnlyExcused(c), run'[<<c, 2>>] = run[<<c, 2>>],
             pc = "over" /\ run'[<<c, 1>>] \in Active => c \in excused'
      PROVE  Only(c) /\ CallInv(c)'
  <2>1. OnlyCall(c) /\ call'[c].pc = pc /\ call'[c].path = call[c].path
    BY <1>4, GoesEffect
  <2>2. Only(c)
    BY <1>4, <2>1, Unchanged DEF Only
  <2>3. PathInv(c)'
    BY <1>0, <1>4, <2>1 DEF PathInv
  <2>4. CallInv(c)'
    BY <1>4, <2>1, <2>3, FreshMoves
  <2>. QED
    BY <2>2, <2>4
<1>5. CASE SendNative(c)
  <2>1. UNCHANGED <<owner, down, rec, exec, op, asked, excused, drained>> /\ call[c].pc = "queueing"
    BY <1>5 DEF SendNative
  <2>2. OnlyExcused(c) /\ run[<<c, 1>>] = "none"
    BY <1>0, <2>1, Unchanged DEF FreshInv
  <2>3. CASE Goes(c, "creating") /\ run' = [run EXCEPT ![<<c, 1>>] = "asked"]
    <3>1. OnlyRun(c) /\ run'[<<c, 2>>] = run[<<c, 2>>]
      BY <2>3, RunOnly DEF RunStates
    <3>. QED
      BY <1>4, <2>1, <2>2, <2>3, <3>1
  <2>4. CASE Leaves(c, "over") /\ UNCHANGED run
    <3>1. OnlyRun(c)
      BY <2>4, Unchanged
    <3>. QED
      BY <1>4, <2>1, <2>2, <2>4, <3>1 DEF Leaves
  <2>. QED
    BY <1>5, <2>3, <2>4 DEF SendNative
<1>6. CASE NativeAnswered(c)
  <2>1. /\ UNCHANGED <<owner, down, rec, exec, run, op, asked, excused, drained>>
        /\ call[c].pc = "creating" /\ Goes(c, "inserting")
    BY <1>6 DEF NativeAnswered
  <2>2. OnlyExcused(c) /\ OnlyRun(c)
    BY <2>1, Unchanged
  <2>. QED
    BY <1>4, <2>1, <2>2
<1>7. CASE NativeRefused(c) \/ NativeTimesOut(c)
  <2>1. /\ UNCHANGED <<owner, down, rec, exec, op, asked, excused, drained>>
        /\ call[c].pc = "creating"
    BY <1>7 DEF NativeRefused, NativeTimesOut
  <2>2. OnlyExcused(c)
    BY <2>1, Unchanged
  <2>3. \E s \in RunStates : run' = [run EXCEPT ![<<c, 1>>] = s] /\ (s \in Active => NativeTimesOut(c))
    <3>1. run[<<c, 1>>] \in RunStates
      BY DEF StoreTypes
    <3>. QED
      BY <1>7, <3>1 DEF NativeRefused, NativeTimesOut, RunStates
  <2>4. /\ OnlyRun(c) /\ run'[<<c, 2>>] = run[<<c, 2>>]
        /\ run'[<<c, 1>>] \in Active => NativeTimesOut(c)
    BY <2>3, RunOnly
  <2>5. CASE NativeTimesOut(c)
    <3>1. Goes(c, "reaping")
      BY <2>5 DEF NativeTimesOut, Reaps, Leaves
    <3>. QED
      BY <1>4, <2>1, <2>2, <2>4, <3>1
  <2>6. CASE NativeRefused(c) /\ ~NativeTimesOut(c)
    <3>1. Goes(c, "over")
      BY <2>6 DEF NativeRefused, Leaves
    <3>. QED
      BY <1>4, <2>1, <2>2, <2>4, <2>6, <3>1
  <2>. QED
    BY <1>7, <2>5, <2>6
<1>8. CASE ReaperGivesUp(c) \/ NativeLost(c)
  <2>1. /\ UNCHANGED <<owner, down, rec, exec, run, op, asked, drained>>
        /\ call[c].pc \in {"creating", "reaping"} /\ Goes(c, "over")
        /\ excused' = excused \cup {c}
    BY <1>8 DEF ReaperGivesUp, NativeLost, Leaves
  <2>2. OnlyExcused(c) /\ OnlyRun(c)
    BY <2>1, Unchanged DEF OnlyExcused, OwnerTypes
  <2>. QED
    BY <1>4, <2>1, <2>2
\* The server is told, and the call is over.
<1>9. ASSUME call[c].pc \in {"inserting", "reaping"}, Tell({<<c, 1>>}), Goes(c, "over"),
             UNCHANGED <<owner, down, rec, exec, op, asked, excused, drained>>
      PROVE  Only(c) /\ CallInv(c)'
  <2>1. OnlyRun(c) /\ OnlyExcused(c)
    BY <1>9, TellOnly, Unchanged
  <2>2. run'[<<c, 1>>] \notin Active /\ run'[<<c, 2>>] = run[<<c, 2>>]
    BY <1>9, TellEffect
  <2>. QED
    BY <1>4, <1>9, <2>1, <2>2
<1>10. CASE ReaperCancels(c)
  <2>1. /\ call[c].pc = "reaping" /\ Tell({<<c, 1>>}) /\ Goes(c, "over")
        /\ UNCHANGED <<owner, down, rec, exec, op, asked, excused, drained>>
    BY <1>10 DEF ReaperCancels
  <2>. QED
    BY <1>9, <2>1
<1>11. CASE Return(c)
  <2>1. /\ call[c].pc = "created" /\ Goes(c, "over")
        /\ UNCHANGED <<owner, down, rec, exec, run, op, asked, excused, drained>>
    BY <1>11 DEF Return, Leaves
  <2>2. OnlyCall(c) /\ call'[c].pc = "over" /\ call'[c].path = call[c].path
    BY <2>1, GoesEffect
  <2>3. Only(c)
    BY <2>1, <2>2, Unchanged DEF Only
  <2>4. FreshInv(c)' /\ PathInv(c)' /\ ServerInv(c)'
    BY <1>0, <2>1, <2>2 DEF FreshInv, PathInv, ServerInv, CallInv
  <2>5. RecInv(c)' /\ HandleInv(c)'
    BY <2>1, <2>2 DEF CallInv, RecInv, HandleInv
  <2>6. ASSUME NEW o \in Ops, op'[o].call = c PROVE OpInv(o, c)'
    BY <2>1, <2>2, <2>6 DEF CallInv, OpInv, CancelInv, AskInv
  <2>7. (\A l \in Lives : StopInv(l, c)') /\ RunInv(c, 1)' /\ RunInv(c, 2)'
    BY <2>1, <2>2 DEF CallInv, StopInv, RunInv, Answers
  <2>8. CallInv(c)'
    BY <2>4, <2>5, <2>6, <2>7 DEF CallInv
  <2>. QED
    BY <2>1, <2>3, <2>8
<1>12. CASE AnotherCall(c)
  <2>1. /\ call[c].pc = "over" /\ ~rec[c].on /\ Goes(c, "idle")
        /\ \A o \in Ops : op[o].call # c
        /\ \A l \in Lives : c \notin down[l].handles /\ \A n \in {1, 2} : <<c, n>> \notin down[l].runs
        /\ exec' = [exec EXCEPT ![c] = [pc |-> "none", n |-> 1]]
        /\ run' = [run EXCEPT ![<<c, 1>>] = "none", ![<<c, 2>>] = "none"]
        /\ excused' = excused \ {c}
        /\ UNCHANGED <<owner, down, rec, op, asked, drained>>
    BY <1>12 DEF AnotherCall
  <2>2. OnlyCall(c) /\ call'[c].pc = "idle" /\ call'[c].path = call[c].path
    BY <2>1, GoesEffect
  <2>3. OnlyExec(c) /\ exec'[c] = [pc |-> "none", n |-> 1]
    BY <2>1 DEF OnlyExec, StoreTypes, Execs
  <2>4. OnlyRun(c) /\ run'[<<c, 1>>] = "none" /\ run'[<<c, 2>>] = "none"
    BY <2>1 DEF OnlyRun, StoreTypes, RunStates
  <2>5. Only(c)
    BY <2>1, <2>2, <2>3, <2>4, Unchanged DEF Only, OnlyExcused, OwnerTypes
  <2>6. rec'[c] = NoRecord
    BY <2>1 DEF CallInv, RecInv
  <2>7. FreshInv(c)' /\ PathInv(c)' /\ HandleInv(c)' /\ RunInv(c, 1)' /\ RunInv(c, 2)'
    BY <2>1, <2>2, <2>3, <2>4, <2>6 DEF FreshInv, PathInv, HandleInv, RunInv, Alive
  <2>8. RecInv(c)' /\ ServerInv(c)'
    BY <2>3, <2>4, <2>6, NoRecordType DEF RecInv, ServerInv
  <2>9. CallInv(c)'
    BY <2>1, <2>7, <2>8 DEF CallInv, StopInv
  <2>. QED
    BY <2>1, <2>5, <2>9
<1>13. CASE CreateLocal(c) \/ CreateNative(c)
  <2>1. CASE ~AcceptsCreates
    <3>1. CASE CreateLocal(c)
      <4>1. /\ UNCHANGED <<owner, down, rec, exec, run, op, asked, excused, drained>>
            /\ Goes(c, "over") /\ call[c].pc = "locking"
        BY <2>1, <3>1 DEF CreateLocal, Leaves
      <4>. QED
        BY <1>2, <4>1
    <3>2. CASE CreateNative(c)
      <4>1. /\ UNCHANGED <<owner, down, rec, exec, op, asked, excused, drained>>
            /\ Goes(c, "over") /\ call[c].pc = "inserting" /\ Tell({<<c, 1>>})
        BY <2>1, <3>2 DEF CreateNative, Leaves
      <4>. QED
        BY <1>9, <4>1
    <3>. QED
      BY <1>13, <3>1, <3>2
  <2>2. CASE AcceptsCreates
    <3>0. /\ \A o \in Ops : op[o].call # c
          /\ \A l \in Lives : /\ c \notin down[l].handles
                              /\ <<c, 1>> \notin down[l].runs /\ <<c, 2>> \notin down[l].runs
      BY <1>0, <1>13 DEF CreateLocal, CreateNative, FreshInv
    <3>1. /\ UNCHANGED <<owner, down, run, op, asked, excused, drained>> /\ Goes(c, "created")
          /\ call[c].pc \in {"locking", "inserting"}
      BY <1>13, <2>2 DEF CreateLocal, CreateNative
    <3>2. OnlyCall(c) /\ call'[c].pc = "created" /\ call'[c].path = call[c].path
      BY <3>1, GoesEffect
    <3>3. CASE CreateLocal(c)
      <4>. DEFINE r == [NoRecord EXCEPT !.on = TRUE, !.handle = TRUE, !.life = owner.life]
      <4>1. /\ rec' = [rec EXCEPT ![c] = r]
            /\ exec' = [exec EXCEPT ![c] = [pc |-> "ready", n |-> 1]] /\ call[c].pc = "locking"
        BY <2>2, <3>3 DEF CreateLocal
      <4>2. /\ r \in Recs /\ r.on = TRUE /\ r.handle = TRUE /\ r.pend = FALSE /\ r.up = 0
            /\ r.status = "working"
        BY DEF NoRecord, Recs, OwnerTypes
      <4>. HIDE DEF r
      <4>3. OnlyRec(c) /\ rec'[c] = r
        BY <4>1, <4>2, RecOnly
      <4>4. OnlyExec(c) /\ exec'[c].pc = "ready" /\ exec'[c].n = 1
        BY <4>1 DEF OnlyExec, StoreTypes, Execs
      <4>5. Only(c)
        BY <3>1, <3>2, <4>3, <4>4, Unchanged DEF Only
      <4>6. call[c].path = "local" /\ run'[<<c, 1>>] = "none" /\ run'[<<c, 2>>] = "none"
        BY <1>0, <3>1, <4>1 DEF PathInv, FreshInv
      <4>7. FreshInv(c)' /\ PathInv(c)' /\ ServerInv(c)'
        BY <3>2, <4>4, <4>6 DEF FreshInv, PathInv, ServerInv
      <4>8. HandleInv(c)' /\ RunInv(c, 1)' /\ RunInv(c, 2)'
        BY <4>2, <4>3, <4>6 DEF HandleInv, RunInv
      <4>9. RecInv(c)'
        BY <3>0, <3>1, <3>2, <4>2, <4>3, <4>4, <4>6 DEF RecInv, is_terminal
      <4>10. CallInv(c)'
        BY <3>0, <3>1, <4>7, <4>8, <4>9 DEF CallInv, StopInv
      <4>. QED
        BY <3>1, <4>5, <4>10
    <3>4. CASE CreateNative(c)
      <4>1. PICK s \in {"working", "completed"} :
               /\ rec' = [rec EXCEPT ![c] =
                     [NoRecord EXCEPT !.on = TRUE, !.status = s, !.up = 1, !.life = owner.life]]
               /\ s = "completed" => run[<<c, 1>>] = "ended"
        BY <2>2, <3>4 DEF CreateNative
      <4>. DEFINE r == [NoRecord EXCEPT !.on = TRUE, !.status = s, !.up = 1, !.life = owner.life]
      <4>2. /\ r \in Recs /\ r.on = TRUE /\ r.handle = FALSE /\ r.pend = FALSE /\ r.up = 1
            /\ r.status = s
        BY DEF NoRecord, Recs, OwnerTypes
      <4>a. rec' = [rec EXCEPT ![c] = r] /\ exec' = exec /\ call[c].pc = "inserting"
        BY <3>4, <4>1 DEF CreateNative
      <4>. HIDE DEF r
      <4>3. OnlyRec(c) /\ rec'[c] = r
        BY <4>a, <4>2, RecOnly
      <4>5. Only(c)
        BY <3>1, <3>2, <4>3, <4>a, Unchanged DEF Only
      <4>6. /\ call[c].path = "native" /\ run'[<<c, 2>>] = "none"
            /\ exec'[c].pc = "none" /\ exec'[c] = [pc |-> "none", n |-> 1]
            /\ run'[<<c, 1>>] = run[<<c, 1>>]
        BY <1>0, <1>f, <3>1, <4>a DEF PathInv
      <4>7. FreshInv(c)' /\ PathInv(c)' /\ ServerInv(c)' /\ HandleInv(c)' /\ RunInv(c, 2)'
        BY <3>2, <4>6 DEF FreshInv, PathInv, ServerInv, HandleInv, Alive, RunInv
      <4>8. RunInv(c, 1)'
        BY <4>1, <4>2, <4>3, <4>6 DEF RunInv, Answers, is_terminal
      <4>9. RecInv(c)'
        BY <3>0, <3>1, <3>2, <4>2, <4>3, <4>6 DEF RecInv, is_terminal
      <4>10. CallInv(c)'
        BY <3>0, <3>1, <4>7, <4>8, <4>9 DEF CallInv, StopInv
      <4>. QED
        BY <3>1, <4>5, <4>10
    <3>. QED
      BY <1>13, <3>3, <3>4
  <2>. QED
    BY <2>1, <2>2
<1>. QED
  BY <1>1, <1>3, <1>5, <1>6, <1>7, <1>8, <1>10, <1>11, <1>12, <1>13 DEF Create, Hears

-----------------------------------------------------------------------------
(* The future of a local task. *)

\* Nothing but a future's own call has one, and that call has its record behind it.
LEMMA FutureIsLocal ==
  ASSUME StoreTypes, NEW c \in Calls, CallInv(c), exec[c].pc # "none"
  PROVE  /\ call[c].path = "local" /\ call[c].pc \notin Unrecorded
         /\ exec[c].n \in {1, 2} /\ exec[c].pc \in Alive \cup {"dead"}
BY DEF CallInv, FreshInv, PathInv, StoreTypes, CallRecs, Execs, Alive

\* A future ends, by itself or aborted: neither of its runs goes on, or someone else
\* sees to it.
LEMMA Dies ==
  ASSUME StoreTypes, NEW c \in Calls, CallInv(c), UNCHANGED <<call, op, down, excused>>,
         exec[c].pc \in Alive, exec'[c].pc = "dead", exec'[c].n = exec[c].n,
         \/ rec'[c] = rec[c]
         \/ /\ rec[c].on /\ ~is_terminal(rec[c].status)
            /\ rec'[c].on /\ is_terminal(rec'[c].status)
            /\ rec'[c].status = "completed" => rec'[c].result
            /\ ~rec'[c].handle /\ rec'[c].up = 0 /\ (rec'[c].pend <=> rec[c].pend),
         run'[<<c, 1>>] \notin Active, run'[<<c, 2>>] \notin Active
  PROVE  CallInv(c)'
<1>0. /\ call[c].path = "local" /\ call[c].pc \notin Unrecorded
      /\ exec[c].n \in {1, 2}
  BY FutureIsLocal DEF Alive
<1>1. FreshInv(c)' /\ PathInv(c)' /\ ServerInv(c)'
  BY <1>0 DEF FreshInv, PathInv, ServerInv, Unrecorded, Before
<1>2. RecInv(c)'
  BY <1>0 DEF CallInv, RecInv
<1>3. HandleInv(c)' /\ RunInv(c, 1)' /\ RunInv(c, 2)'
  BY DEF HandleInv, RunInv, Alive
<1>4. ASSUME NEW o \in Ops, op'[o].call = c PROVE OpInv(o, c)'
  <2>1. op'[o] = op[o] /\ OpInv(o, c)
    BY <1>4 DEF CallInv
  <2>2. op[o].pc \notin {"ask", "apply"}
    BY <1>0, <2>1 DEF OpInv, AskInv
  <2>3. CancelInv(o, c) => CancelInv(o, c)'
    BY <1>0, <2>1 DEF CancelInv
  <2>. QED
    BY <2>1, <2>2, <2>3 DEF OpInv
<1>5. \A l \in Lives : StopInv(l, c)'
  BY DEF StopInv
<1>. QED
  BY <1>1, <1>2, <1>3, <1>4, <1>5 DEF CallInv

\* A future goes on.
LEMMA GoesOn ==
  ASSUME StoreTypes, NEW c \in Calls, CallInv(c), UNCHANGED <<call, op, down, excused>>,
         exec[c].pc \in Alive, exec'[c].pc \in Alive,
         ServerInv(c)', RecInv(c)', rec[c].on => rec'[c].on /\ (rec[c].handle => rec'[c].handle),
         \A o \in Ops : op[o].call = c /\ op[o].pc \in {"tell", "abort"} => CancelInv(o, c)',
         \A l \in Lives : StopInv(l, c)', RunInv(c, 1)', RunInv(c, 2)'
  PROVE  CallInv(c)'
<1>0. call[c].path = "local" /\ call[c].pc \notin Unrecorded
  BY FutureIsLocal DEF Alive
<1>1. FreshInv(c)' /\ PathInv(c)'
  BY <1>0 DEF FreshInv, PathInv, Unrecorded, Before
<1>2. HandleInv(c)'
  BY DEF CallInv, HandleInv
<1>3. ASSUME NEW o \in Ops, op'[o].call = c PROVE OpInv(o, c)'
  <2>1. op'[o] = op[o] /\ OpInv(o, c)
    BY <1>3 DEF CallInv
  <2>2. op[o].pc \notin {"ask", "apply"}
    BY <1>0, <2>1 DEF OpInv, AskInv
  <2>. QED
    BY <1>3, <2>1, <2>2 DEF OpInv
<1>. QED
  BY <1>1, <1>2, <1>3 DEF CallInv

LEMMA ExecuteStep ==
  ASSUME StoreTypes, OwnerTypes, NEW c \in Calls, CallInv(c), Execute(c)
  PROVE  Only(c) /\ UNCHANGED <<owner, down, op, torn, call, asked, drained>> /\ CallInv(c)'
<1>. USE Bounds
<1>0. /\ UNCHANGED <<owner, down, op, torn, call, asked, excused, drained>>
      /\ exec[c].pc \in Alive
  BY DEF Execute, ExecGivesUp, ExecSends, ExecRecords, ExecCancelsOwn, ExecReplays, ExecAnswered,
         ExecTimesOut, ExecLosesSession, ExecReconnects, Alive
<1>a. /\ call[c].path = "local" /\ exec[c].n \in {1, 2}
      /\ ServerInv(c) /\ RecInv(c) /\ RunInv(c, 1) /\ RunInv(c, 2)
      /\ \A l \in Lives : StopInv(l, c)
      /\ \A o \in Ops : op[o].call = c /\ op[o].pc \in {"tell", "abort"} => CancelInv(o, c)
  BY <1>0, FutureIsLocal DEF Alive, CallInv, OpInv
<1>b. OnlyCall(c) /\ OnlyOp(c) /\ OnlyExcused(c)
  BY <1>0, Unchanged
<1>d. \A o \in Ops : op'[o].pc = op[o].pc /\ op'[o].up = op[o].up
  BY <1>0
\* The steps on which the future ends.
<1>1. ASSUME Steps(c, "dead"), rec' = rec \/ \E s \in {"completed", "failed"} : Ends(c, s),
             OnlyRun(c), run'[<<c, 1>>] \notin Active, run'[<<c, 2>>] \notin Active
      PROVE  Only(c) /\ CallInv(c)'
  <2>1. OnlyExec(c) /\ exec'[c].pc = "dead" /\ exec'[c].n = exec[c].n
    BY <1>1, StepsEffect
  <2>2. /\ OnlyRec(c)
        /\ \/ rec'[c] = rec[c]
           \/ /\ rec[c].on /\ ~is_terminal(rec[c].status)
              /\ rec'[c].on /\ is_terminal(rec'[c].status)
              /\ rec'[c].status = "completed" => rec'[c].result
              /\ ~rec'[c].handle /\ rec'[c].up = 0 /\ (rec'[c].pend <=> rec[c].pend)
    <3>1. CASE rec' = rec
      BY <3>1, Unchanged
    <3>2. ASSUME NEW s \in {"completed", "failed"}, Ends(c, s) PROVE <2>2!:
      BY <3>2, EndsEffect DEF is_terminal
    <3>. QED
      BY <1>1, <3>1, <3>2
  <2>. QED
    BY <1>0, <1>1, <1>b, <2>1, <2>2, Dies DEF Only
<1>2. CASE ExecGivesUp(c)
  <2>1. Ends(c, "failed") /\ Steps(c, "dead") /\ run' = run /\ exec[c].pc = "ready"
    BY <1>2 DEF ExecGivesUp
  <2>2. OnlyRun(c) /\ run'[<<c, 1>>] \notin Active /\ run'[<<c, 2>>] \notin Active
    BY <1>a, <2>1, Unchanged DEF ServerInv
  <2>. QED
    BY <1>0, <1>1, <2>1, <2>2
<1>t. ASSUME Tell({<<c, exec[c].n>>})
      PROVE  OnlyRun(c) /\ run'[<<c, 1>>] \notin Active /\ run'[<<c, 2>>] \notin Active
  <2>1. OnlyRun(c)
    BY <1>t, TellOnly
  <2>2. run'[<<c, exec[c].n>>] \notin Active
    BY <1>a, <1>t, TellEffect
  <2>3. \A m \in {1, 2} : run[<<c, m>>] \notin Active => run'[<<c, m>>] \notin Active
    BY <1>t, TellEffect
  <2>. QED
    BY <1>a, <2>1, <2>2, <2>3 DEF ServerInv
<1>3. CASE ExecCancelsOwn(c) \/ ExecTimesOut(c)
  <2>1. /\ Tell({<<c, exec[c].n>>}) /\ Steps(c, "dead")
        /\ rec' = rec \/ Ends(c, "failed")
    BY <1>3 DEF ExecCancelsOwn, ExecTimesOut
  <2>. QED
    BY <1>0, <1>1, <1>t, <2>1
<1>4. CASE ExecAnswered(c)
  <2>1. /\ run[<<c, exec[c].n>>] \notin Active /\ run' = run /\ Steps(c, "dead")
        /\ \E s \in {"completed", "failed"} : Ends(c, s)
    BY <1>4 DEF ExecAnswered, Active
  <2>2. OnlyRun(c) /\ run'[<<c, 1>>] \notin Active /\ run'[<<c, 2>>] \notin Active
    BY <1>a, <2>1, Unchanged DEF ServerInv
  <2>. QED
    BY <1>0, <1>1, <2>1, <2>2
<1>5. CASE ExecLosesSession(c)
  <2>1. exec[c].pc = "wait" /\ run[<<c, exec[c].n>>] \notin Active /\ run' = run
    BY <1>5 DEF ExecLosesSession, Active
  <2>2. OnlyRun(c) /\ run'[<<c, 1>>] \notin Active /\ run'[<<c, 2>>] \notin Active
    BY <1>a, <2>1, Unchanged DEF ServerInv
  <2>3. CASE exec[c].n # 1
    BY <1>0, <1>1, <1>5, <2>2, <2>3 DEF ExecLosesSession
  <2>4. CASE exec[c].n = 1
    <3>1. Steps(c, "reconnect") /\ rec' = rec
      BY <1>5, <2>4 DEF ExecLosesSession
    <3>2. OnlyExec(c) /\ exec'[c].pc = "reconnect" /\ exec'[c].n = 1
      BY <2>4, <3>1, StepsEffect
    <3>3. Only(c)
      BY <1>b, <2>2, <3>1, <3>2, Unchanged DEF Only
    <3>4. ServerInv(c)' /\ RunInv(c, 1)' /\ RunInv(c, 2)'
      BY <2>2, <3>2 DEF ServerInv, RunInv
    <3>5. RecInv(c)'
      BY <1>0, <1>a, <3>1, <3>2 DEF RecInv
    <3>6. \A o \in Ops : op[o].call = c /\ op[o].pc \in {"tell", "abort"} => CancelInv(o, c)'
      BY <1>0, <1>a, <1>d, <3>1, <3>2 DEF CancelInv
    <3>7. \A l \in Lives : StopInv(l, c)'
      BY <3>2 DEF StopInv
    <3>8. CallInv(c)'
      BY <1>0, <3>1, <3>2, <3>4, <3>5, <3>6, <3>7, GoesOn DEF Alive
    <3>. QED
      BY <1>0, <3>3, <3>8
  <2>. QED
    BY <2>3, <2>4
<1>6. CASE ExecReconnects(c)
  <2>1. exec[c].pc = "reconnect" /\ run' = run
    BY <1>6 DEF ExecReconnects
  <2>2. OnlyRun(c) /\ run'[<<c, 1>>] \notin Active /\ run'[<<c, 2>>] \notin Active
    BY <1>a, <2>1, Unchanged DEF ServerInv
  <2>3. CASE Ends(c, "failed") /\ Steps(c, "dead")
    BY <1>0, <1>1, <2>2, <2>3
  <2>4. CASE exec' = [exec EXCEPT ![c] = [pc |-> "ready", n |-> 2]] /\ UNCHANGED rec
    <3>2. OnlyExec(c) /\ exec'[c].pc = "ready" /\ exec'[c].n = 2
      BY <2>4 DEF OnlyExec, StoreTypes, Execs
    <3>3. Only(c)
      BY <1>b, <2>2, <2>4, <3>2, Unchanged DEF Only
    <3>4. ServerInv(c)' /\ RunInv(c, 1)' /\ RunInv(c, 2)'
      BY <2>2, <3>2 DEF ServerInv, RunInv
    <3>5. RecInv(c)'
      BY <1>0, <1>a, <2>4, <3>2 DEF RecInv
    <3>6. \A o \in Ops : op[o].call = c /\ op[o].pc \in {"tell", "abort"} => CancelInv(o, c)'
      BY <1>0, <1>a, <1>d, <2>4, <3>2 DEF CancelInv
    <3>7. \A l \in Lives : StopInv(l, c)'
      BY <3>2 DEF StopInv
    <3>8. CallInv(c)'
      BY <1>0, <2>4, <3>2, <3>4, <3>5, <3>6, <3>7, GoesOn DEF Alive
    <3>. QED
      BY <1>0, <3>3, <3>8
  <2>. QED
    BY <1>6, <2>3, <2>4 DEF ExecReconnects
<1>7. CASE ExecSends(c)
  <2>1. /\ exec[c].pc = "ready" /\ run' = [run EXCEPT ![<<c, exec[c].n>>] = "running"]
        /\ Steps(c, "sent") /\ rec' = rec
    BY <1>7 DEF ExecSends
  <2>2. OnlyExec(c) /\ exec'[c].pc = "sent" /\ exec'[c].n = exec[c].n
    BY <2>1, StepsEffect
  <2>3. /\ OnlyRun(c)
        /\ exec[c].n = 1 => run'[<<c, 2>>] = run[<<c, 2>>]
        /\ exec[c].n = 2 => run'[<<c, 1>>] = run[<<c, 1>>]
    BY <1>a, <2>1, RunOnly DEF RunStates
  <2>4. Only(c)
    BY <1>b, <2>1, <2>2, <2>3, Unchanged DEF Only
  <2>5. ServerInv(c)'
    BY <1>a, <2>1, <2>2, <2>3 DEF ServerInv
  <2>6. RunInv(c, 1)' /\ RunInv(c, 2)'
    BY <1>a, <2>1, <2>2, <2>3 DEF ServerInv, RunInv, Answers
  <2>7. RecInv(c)'
    BY <1>0, <1>a, <2>1, <2>2 DEF RecInv
  <2>8. \A o \in Ops : op[o].call = c /\ op[o].pc \in {"tell", "abort"} => CancelInv(o, c)'
    BY <1>0, <1>a, <1>d, <2>1, <2>2 DEF CancelInv
  <2>9. \A l \in Lives : StopInv(l, c)'
    BY <2>2 DEF StopInv
  <2>10. CallInv(c)'
    BY <1>0, <2>1, <2>2, <2>5, <2>6, <2>7, <2>8, <2>9, GoesOn DEF Alive
  <2>. QED
    BY <1>0, <2>4, <2>10
<1>8. CASE ExecReplays(c)
  <2>1. exec[c].pc = "replay" /\ Tell({<<c, exec[c].n>>}) /\ Steps(c, "wait") /\ rec' = rec
    BY <1>8 DEF ExecReplays
  <2>2. OnlyExec(c) /\ exec'[c].pc = "wait" /\ exec'[c].n = exec[c].n
    BY <2>1, StepsEffect
  <2>3. OnlyRun(c) /\ run'[<<c, 1>>] \notin Active /\ run'[<<c, 2>>] \notin Active
    BY <1>t, <2>1
  <2>4. Only(c)
    BY <1>b, <2>1, <2>2, <2>3, Unchanged DEF Only
  <2>5. ServerInv(c)' /\ RunInv(c, 1)' /\ RunInv(c, 2)'
    BY <2>2, <2>3 DEF ServerInv, RunInv
  <2>7. RecInv(c)'
    BY <1>0, <1>a, <2>1, <2>2 DEF RecInv
  <2>8. \A o \in Ops : op[o].call = c /\ op[o].pc \in {"tell", "abort"} => CancelInv(o, c)'
    BY <1>0, <1>a, <1>d, <2>1, <2>2, <2>3 DEF CancelInv
  <2>9. \A l \in Lives : StopInv(l, c)'
    BY <1>0, <1>a, <2>1 DEF StopInv
  <2>10. CallInv(c)'
    BY <1>0, <2>1, <2>2, <2>5, <2>7, <2>8, <2>9, GoesOn DEF Alive
  <2>. QED
    BY <1>0, <2>4, <2>10
<1>9. CASE ExecRecords(c)
  <2>0. rec[c] \in Recs
    BY DEF StoreTypes
  <2>1. exec[c].pc = "sent" /\ run' = run /\ Steps(c, AfterRecord(c))
    BY <1>9 DEF ExecRecords
  <2>2. OnlyRun(c)
    BY <2>1, Unchanged
  <2>3. /\ OnlyExec(c) /\ exec'[c].pc = AfterRecord(c) /\ exec'[c].n = exec[c].n
        /\ AfterRecord(c) \in {"missing", "replay", "wait"}
    <3>1. AfterRecord(c) \in {"missing", "replay", "wait"}
      BY DEF AfterRecord
    <3>. QED
      BY <2>1, <3>1, StepsEffect
  <2>4. /\ OnlyRec(c)
        /\ ~rec[c].on => rec'[c] = rec[c]
        /\ rec[c].on => /\ rec'[c].on /\ (rec'[c].handle <=> rec[c].handle) /\ ~rec'[c].pend
                        /\ rec'[c].status = rec[c].status /\ rec'[c].up = exec[c].n
    <3>. DEFINE r == [rec[c] EXCEPT !.up = exec[c].n, !.pend = FALSE]
    <3>1. rec' = [rec EXCEPT ![c] = IF rec[c].on THEN r ELSE rec[c]]
      BY <1>9 DEF ExecRecords
    <3>2. /\ r \in Recs /\ r.on = rec[c].on /\ r.handle = rec[c].handle /\ r.pend = FALSE
          /\ r.status = rec[c].status /\ r.up = exec[c].n
      BY <1>a, <2>0 DEF Recs
    <3>. HIDE DEF r
    <3>3. CASE rec[c].on
      <4>1. rec' = [rec EXCEPT ![c] = r]
        BY <3>1, <3>3
      <4>2. OnlyRec(c) /\ rec'[c] = r
        BY <3>2, <4>1, RecOnly
      <4>. QED
        BY <3>2, <3>3, <4>2
    <3>4. CASE ~rec[c].on
      <4>1. rec' = [rec EXCEPT ![c] = rec[c]]
        BY <3>1, <3>4
      <4>2. OnlyRec(c) /\ rec'[c] = rec[c]
        BY <2>0, <4>1, RecOnly
      <4>. QED
        BY <3>4, <4>2
    <3>. QED
      BY <3>3, <3>4
  <2>5. Only(c)
    BY <1>b, <2>2, <2>3, <2>4 DEF Only
  <2>6. ServerInv(c)' /\ RunInv(c, 1)' /\ RunInv(c, 2)'
    BY <1>a, <2>1, <2>3 DEF ServerInv, RunInv, Answers
  <2>7. /\ ~rec[c].on => AfterRecord(c) = "missing"
        /\ rec[c].on /\ rec[c].pend => AfterRecord(c) = "replay"
        /\ rec[c].on /\ ~rec[c].pend => AfterRecord(c) = "wait"
    BY DEF AfterRecord
  <2>8. RecInv(c)'
    <3>1. CASE ~rec[c].on
      BY <1>a, <2>4, <3>1 DEF RecInv
    <3>2. CASE rec[c].on
      <4>1. /\ \A l \in Lives : c \notin down'[l].handles
            /\ rec[c].pend => is_terminal(rec[c].status)
            /\ is_terminal(rec[c].status) => ~rec[c].handle
            /\ call'[c].path = "local"
        BY <1>0, <1>a, <3>2 DEF RecInv
      <4>2. exec'[c].pc = "replay" => rec[c].pend
        BY <2>3, <2>7, <3>2
      <4>3. exec'[c].pc \in {"replay", "wait"} /\ rec'[c].up # 0
        BY <1>a, <2>3, <2>4, <2>7, <3>2
      <4>. QED
        BY <2>3, <2>4, <3>2, <4>1, <4>2, <4>3 DEF RecInv
    <3>. QED
      BY <3>1, <3>2
  <2>9. ASSUME NEW o \in Ops, op[o].call = c, op[o].pc \in {"tell", "abort"} PROVE CancelInv(o, c)'
    <3>0. CancelInv(o, c) /\ op'[o] = op[o]
      BY <1>0, <1>a, <2>9
    <3>1. CASE ~rec[c].on
      <4>1. ~rec'[c].on /\ ~rec'[c].pend
        BY <1>a, <2>4, <3>1 DEF RecInv, NoRecord
      <4>. QED
        BY <1>0, <2>1, <2>3, <2>7, <3>0, <3>1, <4>1 DEF CancelInv
    <3>2. CASE rec[c].on
      BY <1>0, <1>a, <2>1, <2>3, <2>4, <2>7, <3>0, <3>2 DEF CancelInv
    <3>. QED
      BY <3>1, <3>2
  <2>10. \A l \in Lives : StopInv(l, c)'
    BY <1>0, <1>a, <2>3, <2>7 DEF StopInv, RecInv
  <2>11. CallInv(c)'
    BY <1>0, <2>3, <2>4, <2>6, <2>8, <2>9, <2>10, GoesOn DEF Alive
  <2>. QED
    BY <1>0, <2>5, <2>11
<1>. QED
  BY <1>0, <1>2, <1>3, <1>4, <1>5, <1>6, <1>7, <1>8, <1>9 DEF Execute

-----------------------------------------------------------------------------
(* Requests about a task. *)

LEMMA OpOnly ==
  ASSUME StoreTypes, NEW c \in Calls, NEW o \in Ops, NEW p \in OpRecs,
         op' = [op EXCEPT ![o] = p],
         op[o].call \in {c, NoCall}, p.call \in {c, NoCall}
  PROVE  OnlyOp(c) /\ op'[o] = p /\ \A q \in Ops \ {o} : op'[q] = op[q]
BY DEF StoreTypes, OnlyOp

\* Request o is served.
LEMMA OpServed ==
  ASSUME StoreTypes, NEW c \in Calls, NEW o \in Ops, op[o].call = c, op' = [op EXCEPT ![o] = NoOp]
  PROVE  /\ OnlyOp(c) /\ op'[o] = NoOp /\ op'[o].call # c
         /\ \A q \in Ops \ {o} : op'[q] = op[q]
<1>1. NoOp \in OpRecs /\ NoOp.call \in {c, NoCall} /\ NoOp.call # c
  BY NoOpType, Bounds
<1>. QED
  BY <1>1, OpOnly

\* The record of a call that has one, or that a request is about, is behind it.
LEMMA Recorded ==
  ASSUME NEW c \in Calls, CallInv(c), rec[c].on \/ \E o \in Ops : op[o].call = c
  PROVE  call[c].pc \notin Unrecorded
BY NoRecordType DEF CallInv, FreshInv

\* Requests other than o, when its step leaves the call and what it waits for alone.
LEMMA OthersKept ==
  ASSUME NEW c \in Calls, CallInv(c), NEW p \in Ops, op[p].call = c, op'[p] = op[p],
         call' = call, exec'[c] = exec[c],
         run[<<c, 1>>] \notin Active => run'[<<c, 1>>] = run[<<c, 1>>],
         op[p].pc \in {"tell", "abort"} =>
             /\ rec'[c].on => rec[c].on /\ is_terminal(rec'[c].status)
             /\ rec'[c].pend <=> rec[c].pend
  PROVE  OpInv(p, c)'
<1>1. OpInv(p, c)
  BY DEF CallInv
<1>2. CASE op[p].pc \in {"tell", "abort"}
  BY <1>1, <1>2 DEF OpInv, CancelInv
<1>3. CASE op[p].pc \in {"ask", "apply"}
  BY <1>1, <1>3 DEF OpInv, AskInv, Active
<1>4. CASE op[p].pc \notin {"tell", "abort", "ask", "apply"}
  BY <1>4 DEF OpInv
<1>. QED
  BY <1>2, <1>3, <1>4

LEMMA MarkStep ==
  ASSUME StoreTypes, OwnerTypes, NEW c \in Calls, NEW o \in Ops, OpShape(o), CallInv(c),
         MarkCancelled(o, c)
  PROVE  /\ Only(c) /\ CallInv(c)'
         /\ op'[o].pc # "idle" /\ op'[o].call = c /\ \A q \in Ops \ {o} : op'[q] = op[q]
<1>. USE Bounds
<1>0. /\ rec[c] \in Recs /\ RecInv(c) /\ rec[c].on /\ ~is_terminal(rec[c].status)
      /\ op[o] = NoOp /\ call[c].pc \notin Unrecorded /\ rec[c].up \in {0, 1, 2}
      /\ UNCHANGED <<owner, down, torn, call, exec, run, excused, drained>>
  BY Recorded DEF MarkCancelled, CallInv, StoreTypes, OpShape, Recs
<1>. DEFINE b == (rec[c].up = 0)
            r == [rec[c] EXCEPT !.status = "cancelled", !.result = FALSE, !.up = 0,
                                !.pend = b, !.handle = FALSE]
            p == [NoOp EXCEPT !.pc = IF rec[c].up = 0 THEN "abort" ELSE "tell",
                              !.kind = "cancel", !.call = c,
                              !.up = rec[c].up, !.handle = rec[c].handle]
<1>1. rec' = [rec EXCEPT ![c] = r] /\ op' = [op EXCEPT ![o] = p]
  BY DEF MarkCancelled
<1>2. /\ r \in Recs /\ r.on = rec[c].on /\ r.handle = FALSE /\ r.pend = b
      /\ r.status = "cancelled" /\ r.up = 0
  <2>1. b \in BOOLEAN
    OBVIOUS
  <2>. HIDE DEF b
  <2>. QED
    BY <1>0, <2>1 DEF Recs
<1>3. /\ p \in OpRecs /\ p.call = c /\ p.up = rec[c].up /\ p.handle = rec[c].handle
      /\ p.kind = "cancel" /\ p.pc \in {"abort", "tell"} /\ (p.pc = "abort" <=> rec[c].up = 0)
  <2>1. rec[c].handle \in BOOLEAN
    BY <1>0 DEF Recs
  <2>2. PICK pc \in {"abort", "tell"} : p = [NoOp EXCEPT !.pc = pc, !.kind = "cancel", !.call = c,
                                                         !.up = rec[c].up, !.handle = rec[c].handle]
                                        /\ (pc = "abort" <=> rec[c].up = 0)
    BY Zenon
  <2>. HIDE DEF p
  <2>. QED
    BY <1>0, <2>1, <2>2 DEF NoOp, OpRecs
<1>. HIDE DEF r, p
<1>4. OnlyRec(c) /\ rec'[c] = r
  BY <1>1, <1>2, RecOnly
<1>5. OnlyOp(c) /\ op'[o] = p /\ \A q \in Ops \ {o} : op'[q] = op[q]
  BY <1>0, <1>1, <1>3, OpOnly, NoOpType
<1>6. Only(c)
  BY <1>0, <1>4, <1>5, Unchanged DEF Only
<1>7. FreshInv(c)' /\ PathInv(c)' /\ ServerInv(c)' /\ (\A l \in Lives : StopInv(l, c)')
  BY <1>0 DEF CallInv, FreshInv, PathInv, ServerInv, StopInv
<1>8. RecInv(c)'
  BY <1>0, <1>2, <1>4 DEF RecInv, is_terminal
<1>9. HandleInv(c)'
  <2>1. ASSUME rec[c].handle PROVE op'[o].pc # "idle" /\ op'[o].call = c /\ op'[o].handle
    BY <1>3, <1>5, <2>1
  <2>. QED
    BY <1>0, <1>5, <2>1, NoOpType DEF CallInv, HandleInv
<1>10. ASSUME NEW n \in {1, 2}, RunInv(c, n) PROVE RunInv(c, n)'
  <2>1. rec[c].up = n => op'[o].pc = "tell" /\ op'[o].call = c /\ op'[o].up = n
    BY <1>3, <1>5
  <2>. QED
    BY <1>0, <1>5, <1>10, <2>1, NoOpType DEF RunInv, Answers
<1>11. ASSUME NEW q \in Ops, op'[q].call = c PROVE OpInv(q, c)'
  <2>1. CASE q # o
    <3>1. op'[q] = op[q] /\ op[q].pc \notin {"tell", "abort"}
      BY <1>0, <1>5, <1>11, <2>1 DEF CallInv, OpInv, CancelInv
    <3>. QED
      BY <1>0, <1>11, <3>1, OthersKept
  <2>2. CASE q = o
    <3>1. (rec[c].on /\ is_terminal(rec[c].status))' /\ (rec'[c].pend <=> rec[c].up = 0)
      BY <1>0, <1>2, <1>4 DEF is_terminal
    <3>2. CancelInv(o, c)'
      BY <1>0, <1>3, <1>5, <3>1 DEF CancelInv, RecInv
    <3>. QED
      BY <1>3, <1>5, <2>2, <3>2 DEF OpInv
  <2>. QED
    BY <2>1, <2>2
<1>12. CallInv(c)'
  BY <1>7, <1>8, <1>9, <1>10, <1>11 DEF CallInv
<1>. QED
  BY <1>3, <1>5, <1>6, <1>12

LEMMA AskStep ==
  ASSUME StoreTypes, OwnerTypes, NEW c \in Calls, NEW o \in Ops, OpShape(o), CallInv(c),
         NEW kind \in {"get", "result"}, AskServer(o, c, kind)
  PROVE  /\ Only(c) /\ CallInv(c)'
         /\ op'[o].pc # "idle" /\ op'[o].call = c /\ \A q \in Ops \ {o} : op'[q] = op[q]
<1>. USE Bounds
<1>0. /\ rec[c].on /\ call[c].path = "native" /\ op[o] = NoOp /\ call[c].pc \notin Unrecorded
      /\ UNCHANGED <<owner, down, torn, call, rec, exec, run, excused, drained>>
  BY Recorded DEF AskServer, OpShape
<1>. DEFINE p == [NoOp EXCEPT !.pc = "ask", !.kind = kind, !.call = c]
<1>1. op' = [op EXCEPT ![o] = p]
  BY DEF AskServer
<1>2. p \in OpRecs /\ p.call = c /\ p.pc = "ask" /\ p.kind # "cancel" /\ p.handle = FALSE
  BY DEF NoOp, OpRecs
<1>. HIDE DEF p
<1>3. OnlyOp(c) /\ op'[o] = p /\ \A q \in Ops \ {o} : op'[q] = op[q]
  <2>1. op[o].call \in {c, NoCall} /\ p.call \in {c, NoCall} /\ p \in OpRecs
    BY <1>0, <1>2, NoOpType
  <2>. QED
    BY <1>1, <2>1, OpOnly
<1>4. Only(c)
  BY <1>0, <1>3, Unchanged DEF Only
<1>5. /\ FreshInv(c)' /\ PathInv(c)' /\ ServerInv(c)' /\ RecInv(c)'
      /\ \A l \in Lives : StopInv(l, c)'
  BY <1>0 DEF CallInv, FreshInv, PathInv, ServerInv, RecInv, StopInv
<1>6. HandleInv(c)' /\ RunInv(c, 1)' /\ RunInv(c, 2)'
  BY <1>0, <1>3, NoOpType DEF CallInv, HandleInv, RunInv, Answers
<1>7. ASSUME NEW q \in Ops, op'[q].call = c PROVE OpInv(q, c)'
  <2>1. CASE q # o
    <3>1. op'[q] = op[q]
      BY <1>3, <2>1
    <3>2. op[q].pc \in {"tell", "abort"} => (rec[c].on => is_terminal(rec[c].status))
      BY <1>7, <3>1 DEF CallInv, OpInv, CancelInv
    <3>. QED
      BY <1>0, <1>7, <3>1, <3>2, OthersKept
  <2>2. CASE q = o
    BY <1>0, <1>2, <1>3, <2>2 DEF OpInv, AskInv
  <2>. QED
    BY <2>1, <2>2
<1>8. CallInv(c)'
  BY <1>5, <1>6, <1>7 DEF CallInv
<1>. QED
  BY <1>2, <1>3, <1>4, <1>8

\* A step of request o that leaves the future alone.
LEMMA RequestKeeps ==
  ASSUME NEW c \in Calls, NEW o \in Ops, op[o].call = c, CallInv(c),
         UNCHANGED <<call, down>>, exec'[c] = exec[c],
         \A q \in Ops \ {o} : op'[q] = op[q],
         \A n \in {1, 2} : run[<<c, n>>] \notin Active => run'[<<c, n>>] = run[<<c, n>>],
         rec'[c].on => rec[c].on, rec'[c].pend <=> rec[c].pend,
         rec[c].on /\ is_terminal(rec[c].status) => is_terminal(rec'[c].status),
         RecInv(c)', HandleInv(c)', RunInv(c, 1)', RunInv(c, 2)',
         op'[o].call = c => OpInv(o, c)'
  PROVE  CallInv(c)'
<1>0. call[c].pc \notin Unrecorded
  BY Recorded
<1>1. FreshInv(c)' /\ PathInv(c)' /\ (\A l \in Lives : StopInv(l, c)')
  BY <1>0 DEF CallInv, FreshInv, PathInv, StopInv
<1>2. ServerInv(c)'
  BY DEF CallInv, ServerInv
<1>3. ASSUME NEW q \in Ops, op'[q].call = c PROVE OpInv(q, c)'
  <2>1. CASE q # o
    <3>1. op'[q] = op[q] /\ op[q].call = c
      BY <1>3, <2>1
    <3>2. op[q].pc \in {"tell", "abort"} => (rec[c].on => is_terminal(rec[c].status))
      BY <3>1 DEF CallInv, OpInv, CancelInv
    <3>. QED
      BY <3>1, <3>2, OthersKept
  <2>. QED
    BY <1>3, <2>1
<1>. QED
  BY <1>1, <1>2, <1>3 DEF CallInv

LEMMA TellsStep ==
  ASSUME StoreTypes, OwnerTypes, NEW c \in Calls, NEW o \in Ops, op[o].call = c, CallInv(c),
         CancelTells(o)
  PROVE  Only(c) /\ CallInv(c)' /\ op'[o].pc # "idle" /\ op'[o].call = c
         /\ \A q \in Ops \ {o} : op'[q] = op[q]
<1>. USE Bounds
<1>0. /\ op[o] \in OpRecs /\ op[o].pc = "tell" /\ op[o].kind = "cancel" /\ CancelInv(o, c)
      /\ UNCHANGED <<owner, down, torn, call, rec, exec, excused>>
  BY DEF CancelTells, CallInv, OpInv, StoreTypes
<1>1. op[o].up \in {1, 2} /\ Tell({<<c, op[o].up>>})
  BY <1>0 DEF CancelTells, CancelInv, OpRecs
<1>. DEFINE p == [op[o] EXCEPT !.pc = "abort"]
<1>2. /\ p \in OpRecs /\ p.pc = "abort" /\ p.call = c /\ p.kind = "cancel" /\ p.up = op[o].up
      /\ p.handle = op[o].handle
  BY <1>0 DEF OpRecs
<1>3. op' = [op EXCEPT ![o] = p]
  BY DEF CancelTells
<1>. HIDE DEF p
<1>4. OnlyOp(c) /\ op'[o] = p /\ \A q \in Ops \ {o} : op'[q] = op[q]
  BY <1>2, <1>3, OpOnly
<1>5. OnlyRun(c)
  BY <1>1, TellOnly
<1>6. Only(c)
  BY <1>0, <1>4, <1>5, Unchanged DEF Only
<1>7. \A n \in {1, 2} : /\ run[<<c, n>>] \notin Active => run'[<<c, n>>] = run[<<c, n>>]
                        /\ run'[<<c, n>>] \in Active => run'[<<c, n>>] = run[<<c, n>>] /\ n # op[o].up
  BY <1>1, TellEffect
<1>8. RecInv(c)' /\ HandleInv(c)'
  BY <1>0, <1>2, <1>4 DEF CallInv, RecInv, HandleInv
<1>9. ASSUME NEW n \in {1, 2}, RunInv(c, n) PROVE RunInv(c, n)'
  BY <1>0, <1>4, <1>7, <1>9 DEF RunInv, Answers
<1>10. CancelInv(o, c)'
  <2>1. exec[c].pc = "wait" /\ exec[c].n = 1 => run'[<<c, 1>>] \notin Active
    BY <1>0, <1>7 DEF CancelInv
  <2>. QED
    BY <1>0, <1>2, <1>4, <2>1 DEF CancelInv
<1>11. OpInv(o, c)'
  BY <1>2, <1>4, <1>10 DEF OpInv
<1>12. RunInv(c, 1) /\ RunInv(c, 2)
  BY DEF CallInv
<1>13. CallInv(c)'
  BY <1>0, <1>4, <1>7, <1>8, <1>9, <1>11, <1>12, RequestKeeps
<1>. QED
  BY <1>2, <1>4, <1>6, <1>13

LEMMA HangsUpStep ==
  ASSUME StoreTypes, OwnerTypes, NEW c \in Calls, NEW o \in Ops, op[o].call = c, CallInv(c),
         CancelHangsUp(o)
  PROVE  Only(c) /\ CallInv(c)' /\ op'[o] = NoOp /\ \A q \in Ops \ {o} : op'[q] = op[q]
<1>. USE Bounds
<1>0. /\ UNCHANGED <<owner, down, torn, call, rec, exec, run>> /\ excused' = excused \cup {c}
      /\ op' = [op EXCEPT ![o] = NoOp]
  BY DEF CancelHangsUp
<1>1. OnlyOp(c) /\ op'[o] = NoOp /\ \A q \in Ops \ {o} : op'[q] = op[q]
  BY <1>0, OpServed
<1>2. OnlyExcused(c)
  BY <1>0 DEF OnlyExcused, OwnerTypes
<1>3. Only(c)
  BY <1>0, <1>1, <1>2, Unchanged DEF Only
<1>4. HandleInv(c)' /\ RunInv(c, 1)' /\ RunInv(c, 2)' /\ op'[o].call # c
  BY <1>0, <1>1, NoOpType DEF HandleInv, RunInv
<1>5. RecInv(c)'
  BY <1>0 DEF CallInv, RecInv
<1>6. CallInv(c)'
  BY <1>0, <1>1, <1>4, <1>5, RequestKeeps
<1>. QED
  BY <1>1, <1>3, <1>6

LEMMA RepliesStep ==
  ASSUME StoreTypes, OwnerTypes, NEW c \in Calls, NEW o \in Ops, op[o].call = c, CallInv(c),
         ServerReplies(o)
  PROVE  /\ Only(c) /\ CallInv(c)' /\ \A q \in Ops \ {o} : op'[q] = op[q]
         /\ op'[o] = NoOp \/ (op'[o].pc # "idle" /\ op'[o].call = c)
<1>. USE Bounds
<1>0. /\ op[o] \in OpRecs /\ op[o].pc = "ask" /\ op[o].kind # "cancel" /\ AskInv(o, c)
      /\ UNCHANGED <<owner, down, torn, call, rec, exec, run, excused>>
  BY DEF ServerReplies, CallInv, OpInv, StoreTypes
<1>s. PICK s \in ServerSays(c) :
         op' = [op EXCEPT ![o] =
             IF @.kind = "result" /\ s # "completed" THEN NoOp
             ELSE [@ EXCEPT !.pc = "apply", !.seen = s]]
  BY DEF ServerReplies
<1>. DEFINE p == [op[o] EXCEPT !.pc = "apply", !.seen = s]
<1>1. /\ s \in {"working", "completed", "cancelled"}
      /\ s = "completed" => run[<<c, 1>>] = "ended"
      /\ s = "cancelled" => run[<<c, 1>>] = "told"
  BY DEF ServerSays
<1>2. /\ p \in OpRecs /\ p.pc = "apply" /\ p.call = c /\ p.kind = op[o].kind /\ p.seen = s
      /\ p.handle = op[o].handle
  BY <1>0, <1>1 DEF OpRecs
<1>3. op' = [op EXCEPT ![o] = IF op[o].kind = "result" /\ s # "completed" THEN NoOp ELSE p]
  BY <1>s
<1>. HIDE DEF p
<1>4. /\ OnlyOp(c) /\ \A q \in Ops \ {o} : op'[q] = op[q]
      /\ op'[o] = NoOp \/ (op'[o] = p /\ ~(op[o].kind = "result" /\ s # "completed"))
  <2>1. CASE op[o].kind = "result" /\ s # "completed"
    <3>1. op' = [op EXCEPT ![o] = NoOp]
      BY <1>3, <2>1
    <3>2. OnlyOp(c) /\ op'[o] = NoOp /\ \A q \in Ops \ {o} : op'[q] = op[q]
      BY <3>1, OpServed
    <3>. QED
      BY <3>2
  <2>2. CASE ~(op[o].kind = "result" /\ s # "completed")
    <3>1. op' = [op EXCEPT ![o] = p]
      BY <1>3, <2>2
    <3>2. OnlyOp(c) /\ op'[o] = p /\ \A q \in Ops \ {o} : op'[q] = op[q]
      BY <1>2, <3>1, OpOnly
    <3>. QED
      BY <2>2, <3>2
  <2>. QED
    BY <2>1, <2>2
<1>6. Only(c)
  BY <1>0, <1>4, Unchanged DEF Only
<1>7. RecInv(c)'
  BY <1>0 DEF CallInv, RecInv
<1>8. HandleInv(c)'
  BY <1>0, <1>4 DEF CallInv, HandleInv, AskInv
<1>9. RunInv(c, 1)' /\ RunInv(c, 2)'
  BY <1>0, <1>4 DEF CallInv, RunInv, Answers
<1>10. op'[o].call = c => OpInv(o, c)'
  BY <1>0, <1>1, <1>2, <1>4, NoOpType DEF OpInv, AskInv
<1>11. CallInv(c)'
  BY <1>0, <1>4, <1>7, <1>8, <1>9, <1>10, RequestKeeps
<1>. QED
  BY <1>2, <1>4, <1>6, <1>11

\* What a reply does to a record.
LEMMA AppliedEffect ==
  ASSUME StoreTypes, NEW c \in Calls, NEW o \in Ops, op[o].call = c, ApplyReply(o), rec[c].on,
         op[o].seen \in {"working", "completed", "cancelled"}
  PROVE  /\ OnlyRec(c) /\ rec'[c].on /\ rec'[c].pend = rec[c].pend
         /\ op[o].kind = "result" => rec'[c].status = "completed" /\ rec'[c].result
         /\ op[o].kind # "result" =>
               \/ rec'[c] = rec[c] /\ is_terminal(rec[c].status)
               \/ /\ rec'[c].status = op[o].seen /\ rec'[c].up = rec[c].up
                  /\ rec'[c].result = rec[c].result
                  /\ ~is_terminal(rec[c].status) \/ rec[c].status = op[o].seen
<1>0. rec[c] \in Recs
  BY DEF StoreTypes
<1>. DEFINE s == op[o].seen
            r1 == [rec[c] EXCEPT !.status = "completed", !.result = TRUE, !.up = 0, !.handle = FALSE]
            r2 == [rec[c] EXCEPT !.status = s]
            r == IF op[o].kind = "result" THEN r1
                 ELSE IF is_terminal(rec[c].status) /\ rec[c].status # s THEN rec[c] ELSE r2
<1>1. rec' = [rec EXCEPT ![c] = r]
  BY DEF ApplyReply, Cached, Synced
<1>2. r1 \in Recs /\ r1.on = rec[c].on /\ r1.pend = rec[c].pend /\ r1.status = "completed" /\ r1.result = TRUE
  BY <1>0 DEF Recs
<1>3. s \in {"working", "completed", "cancelled"}
  OBVIOUS
<1>. HIDE DEF s
<1>4. /\ r2 \in Recs /\ r2.on = rec[c].on /\ r2.pend = rec[c].pend /\ r2.status = s
      /\ r2.up = rec[c].up /\ r2.result = rec[c].result
  BY <1>0, <1>3 DEF Recs
<1>. HIDE DEF r1, r2
<1>5. r \in Recs
  BY <1>0, <1>2, <1>4
<1>6. /\ op[o].kind = "result" => r = r1
      /\ op[o].kind # "result" =>
            \/ r = rec[c] /\ is_terminal(rec[c].status)
            \/ r = r2 /\ (~is_terminal(rec[c].status) \/ rec[c].status = s)
  OBVIOUS
<1>. HIDE DEF r
<1>7. OnlyRec(c) /\ rec'[c] = r
  BY <1>1, <1>5, RecOnly
<1>8. CASE op[o].kind = "result"
  BY <1>2, <1>6, <1>7, <1>8
<1>9. CASE op[o].kind # "result"
  <2>1. CASE r = rec[c] /\ is_terminal(rec[c].status)
    BY <1>7, <1>9, <2>1
  <2>2. CASE r = r2 /\ (~is_terminal(rec[c].status) \/ rec[c].status = s)
    BY <1>4, <1>7, <1>9, <2>2 DEF s
  <2>. QED
    BY <1>6, <1>9, <2>1, <2>2
<1>. QED
  BY <1>8, <1>9

LEMMA AppliesStep ==
  ASSUME StoreTypes, OwnerTypes, NEW c \in Calls, NEW o \in Ops, op[o].call = c, CallInv(c),
         ApplyReply(o)
  PROVE  Only(c) /\ CallInv(c)' /\ op'[o] = NoOp /\ \A q \in Ops \ {o} : op'[q] = op[q]
<1>. USE Bounds
<1>0. /\ op[o] \in OpRecs /\ op[o].pc = "apply" /\ op[o].kind # "cancel" /\ AskInv(o, c)
      /\ op[o].seen \in {"working", "completed", "cancelled"}
      /\ UNCHANGED <<owner, down, torn, call, exec, run, excused>>
      /\ op' = [op EXCEPT ![o] = NoOp]
  BY DEF ApplyReply, CallInv, OpInv, StoreTypes, OpRecs
<1>1. OnlyOp(c) /\ op'[o] = NoOp /\ (\A q \in Ops \ {o} : op'[q] = op[q]) /\ op'[o].call # c
  BY <1>0, OpServed
<1>2. /\ call[c].path = "native" /\ exec[c].pc = "none" /\ exec[c].n = 1
      /\ RecInv(c) /\ RunInv(c, 1) /\ run[<<c, 2>>] \notin Active
  BY <1>0 DEF AskInv, CallInv, PathInv, ServerInv
<1>3. HandleInv(c)' /\ RunInv(c, 2)'
  BY <1>0, <1>2 DEF HandleInv, Alive, RunInv
<1>4. CASE ~rec[c].on
  <2>1. rec' = [rec EXCEPT ![c] = rec[c]]
    BY <1>4 DEF ApplyReply
  <2>2. OnlyRec(c) /\ rec'[c] = rec[c]
    BY <2>1, RecOnly DEF StoreTypes
  <2>3. Only(c)
    BY <1>0, <1>1, <2>2, Unchanged DEF Only
  <2>4. RecInv(c)'
    BY <1>2, <1>4, <2>2 DEF RecInv
  <2>5. RunInv(c, 1)'
    BY <1>0, <1>1, <1>2, <1>4, <2>2 DEF RunInv, Answers
  <2>6. CallInv(c)'
    BY <1>0, <1>1, <1>3, <1>4, <2>2, <2>4, <2>5, RequestKeeps
  <2>. QED
    BY <1>1, <2>3, <2>6
<1>5. CASE rec[c].on
  <2>1. /\ OnlyRec(c) /\ rec'[c].on /\ rec'[c].pend = rec[c].pend
        /\ op[o].kind = "result" => rec'[c].status = "completed" /\ rec'[c].result
        /\ op[o].kind # "result" =>
               \/ rec'[c] = rec[c] /\ is_terminal(rec[c].status)
               \/ /\ rec'[c].status = op[o].seen /\ rec'[c].up = rec[c].up
                  /\ rec'[c].result = rec[c].result
                  /\ ~is_terminal(rec[c].status) \/ rec[c].status = op[o].seen
    BY <1>0, <1>5, AppliedEffect
  <2>2. Only(c)
    BY <1>0, <1>1, <2>1, Unchanged DEF Only
  <2>3. is_terminal(rec[c].status) => is_terminal(rec'[c].status)
    BY <2>1 DEF is_terminal
  <2>4. ~is_terminal(rec[c].status) => rec[c].up = 1 /\ ~rec[c].pend
    BY <1>2, <1>5 DEF RecInv
  <2>5. rec'[c].status = "completed" => rec'[c].result \/ rec'[c].up # 0
    BY <1>2, <1>5, <2>1, <2>4 DEF RecInv
  <2>6. ~is_terminal(rec'[c].status) => rec'[c].up = 1 /\ ~rec'[c].pend
    BY <2>1, <2>4 DEF is_terminal
  <2>7. RecInv(c)'
    BY <1>0, <1>2, <1>5, <2>1, <2>5, <2>6 DEF RecInv
  <2>8. RunInv(c, 1)'
    <3>1. run[<<c, 1>>] \in Active => op[o].kind # "result" /\ op[o].seen = "working"
      BY <1>0 DEF AskInv, Active
    <3>2. run[<<c, 1>>] \in Active /\ ~is_terminal(rec[c].status) =>
             ~is_terminal(rec'[c].status) /\ rec'[c].up = 1
      BY <2>1, <2>4, <3>1 DEF is_terminal
    <3>3. ASSUME run'[<<c, 1>>] \in Active, c \notin excused' PROVE Answers(c, 1)'
      <4>1. Answers(c, 1)
        BY <1>0, <1>2, <3>3 DEF RunInv
      <4>2. run[<<c, 1>>] \in Active
        BY <1>0, <3>3
      <4>. QED
        BY <1>0, <1>1, <2>1, <3>2, <4>1, <4>2 DEF Answers
    <3>. QED
      BY <3>3 DEF RunInv
  <2>9. CallInv(c)'
    BY <1>0, <1>1, <1>3, <1>5, <2>1, <2>3, <2>7, <2>8, RequestKeeps
  <2>. QED
    BY <1>1, <2>2, <2>9
<1>. QED
  BY <1>4, <1>5

\* The cancel aborts the future.  A run that goes on has been told, or someone else sees to
\* it, or it is let go.
LEMMA AbortsStep ==
  ASSUME StoreTypes, OwnerTypes, NEW c \in Calls, NEW o \in Ops, op[o].call = c, CallInv(c),
         CancelAborts(o)
  PROVE  Only(c) /\ CallInv(c)' /\ op'[o] = NoOp /\ \A q \in Ops \ {o} : op'[q] = op[q]
<1>. USE Bounds
<1>0. /\ op[o].pc = "abort" /\ CancelInv(o, c) /\ RecInv(c) /\ ServerInv(c) /\ PathInv(c)
      /\ UNCHANGED <<owner, down, torn, call, rec>> /\ op' = [op EXCEPT ![o] = NoOp]
  BY DEF CancelAborts, CallInv, OpInv
<1>1. OnlyOp(c) /\ op'[o] = NoOp /\ (\A q \in Ops \ {o} : op'[q] = op[q]) /\ op'[o].call # c
  BY <1>0, OpServed
<1>2. RunInv(c, 1) /\ RunInv(c, 2) /\ call[c].pc \notin Unrecorded
  BY Recorded DEF CallInv
<1>k. ASSUME exec'[c] = exec[c], c \in excused => c \in excused',
             \A n \in {1, 2} : run'[<<c, n>>] = run[<<c, n>>],
             ~op[o].handle \/ exec[c].pc \notin Alive
      PROVE  CallInv(c)'
  <2>1. RecInv(c)'
    BY <1>0, <1>k DEF RecInv
  <2>2. HandleInv(c)'
    BY <1>0, <1>1, <1>k DEF CallInv, HandleInv
  <2>3. RunInv(c, 1)' /\ RunInv(c, 2)'
    BY <1>0, <1>1, <1>2, <1>k DEF RunInv, Answers
  <2>. QED
    BY <1>0, <1>1, <1>k, <2>1, <2>2, <2>3, RequestKeeps
<1>3. CASE ~op[o].handle
  <2>1. UNCHANGED <<exec, run, excused>>
    BY <1>3 DEF CancelAborts
  <2>2. Only(c)
    BY <1>0, <1>1, <2>1, Unchanged DEF Only
  <2>. QED
    BY <1>1, <1>3, <1>k, <2>1, <2>2
<1>4. CASE op[o].handle
  <2>. DEFINE rs == IF CoveredByGuard(c) THEN {<<c, exec[c].n>>} ELSE {}
  <2>1. Aborted({c}) /\ Tell(rs) /\ excused' = IF LetGo(c) THEN excused \cup {c} ELSE excused
    BY <1>4 DEF CancelAborts
  <2>2. OnlyExcused(c) /\ (c \in excused => c \in excused') /\ (LetGo(c) => c \in excused')
    BY <2>1 DEF OnlyExcused, OwnerTypes
  <2>3. /\ rs \subseteq {<<c, 1>>, <<c, 2>>}
        /\ CoveredByGuard(c) => <<c, exec[c].n>> \in rs
        /\ ~CoveredByGuard(c) => rs = {}
        /\ exec[c].n \in {1, 2}
    BY DEF StoreTypes, Execs
  <2>. HIDE DEF rs
  <2>4. OnlyRun(c)
    BY <2>1, <2>3, TellOnly
  <2>5. OnlyExec(c)
    BY <2>1, AbortedEffect DEF OnlyExec
  <2>6. Only(c)
    BY <1>0, <1>1, <2>2, <2>4, <2>5, Unchanged DEF Only
  <2>7. \A n \in {1, 2} : /\ run[<<c, n>>] \notin Active => run'[<<c, n>>] = run[<<c, n>>]
                          /\ run'[<<c, n>>] \in Active => run'[<<c, n>>] = run[<<c, n>>]
                          /\ run'[<<c, n>>] \in Active => <<c, n>> \notin rs
                          /\ rs = {} => run'[<<c, n>>] = run[<<c, n>>]
    BY <2>1, TellEffect
  <2>8. CASE exec[c].pc = "none"
    <3>1. exec'[c] = exec[c] /\ rs = {}
      BY <2>1, <2>3, <2>8, AbortedEffect DEF CoveredByGuard
    <3>. QED
      BY <1>1, <1>k, <2>2, <2>6, <2>7, <2>8, <3>1 DEF Alive
  <2>9. CASE exec[c].pc # "none"
    <3>1. exec'[c].pc = "dead" /\ exec'[c].n = exec[c].n /\ call[c].path = "local"
      BY <2>1, <2>9, AbortedEffect, FutureIsLocal
    <3>2. FreshInv(c)' /\ PathInv(c)' /\ HandleInv(c)' /\ \A l \in Lives : StopInv(l, c)'
      BY <1>0, <1>2, <3>1 DEF FreshInv, PathInv, HandleInv, StopInv, Alive, Unrecorded, Before
    <3>3. ServerInv(c)'
      BY <1>0, <2>7, <3>1 DEF ServerInv
    <3>4. RecInv(c)'
      BY <1>0, <3>1 DEF RecInv
    <3>5. ASSUME NEW n \in {1, 2}, RunInv(c, n) PROVE RunInv(c, n)'
      <4>. SUFFICES ASSUME run'[<<c, n>>] \in Active, c \notin excused' PROVE Answers(c, n)'
        BY DEF RunInv
      <4>1. Answers(c, n) /\ run[<<c, n>>] \in Active /\ ~LetGo(c) /\ <<c, n>> \notin rs
        BY <2>2, <2>7, <3>5 DEF RunInv
      <4>2. ~(exec[c].n = n /\ exec[c].pc \in {"sent", "missing"})
        BY <2>3, <4>1 DEF CoveredByGuard
      <4>3. ~(exec[c].n = n /\ exec[c].pc \in {"replay", "wait"})
        BY <1>0, <2>3, <4>1 DEF LetGo, CancelInv
      <4>. QED
        BY <1>0, <1>1, <4>1, <4>2, <4>3 DEF Answers, CancelInv
    <3>6. ASSUME NEW q \in Ops, op'[q].call = c PROVE OpInv(q, c)'
      <4>1. op'[q] = op[q] /\ OpInv(q, c)
        BY <1>1, <3>6 DEF CallInv
      <4>2. op[q].pc \notin {"ask", "apply"}
        BY <3>1, <4>1 DEF OpInv, AskInv
      <4>3. CancelInv(q, c) => CancelInv(q, c)'
        BY <1>0, <3>1, <4>1 DEF CancelInv
      <4>. QED
        BY <4>1, <4>2, <4>3 DEF OpInv
    <3>7. CallInv(c)'
      BY <1>2, <3>2, <3>3, <3>4, <3>5, <3>6 DEF CallInv
    <3>. QED
      BY <1>1, <2>6, <3>7
  <2>. QED
    BY <2>8, <2>9
<1>. QED
  BY <1>3, <1>4

\* Any step of a request that is being served.
LEMMA RequestStep ==
  ASSUME StoreTypes, OwnerTypes, NEW o \in Ops, OpShape(o), NEW c \in Calls, op[o].call = c,
         CallInv(c), Request(o)
  PROVE  /\ Only(c) /\ CallInv(c)'
         /\ UNCHANGED <<owner, down, torn, call, asked, drained>>
         /\ \A q \in Ops \ {o} : op'[q] = op[q]
         /\ op'[o] = NoOp \/ (op'[o].pc # "idle" /\ op'[o].call = c)
<1>1. UNCHANGED <<owner, down, torn, call, asked, drained>>
  BY DEF Request, CancelTells, CancelAborts, CancelHangsUp, ServerReplies, ApplyReply
<1>. QED
  BY <1>1, TellsStep, AbortsStep, HangsUpStep, RepliesStep, AppliesStep DEF Request

-----------------------------------------------------------------------------
(* A record that is dropped, and what the server does. *)

LEMMA ForgetStep ==
  ASSUME StoreTypes, OwnerTypes, NEW c \in Calls, CallInv(c), Forget(c)
  PROVE  Only(c) /\ CallInv(c)' /\ UNCHANGED <<owner, down, torn, call, op, asked, drained>>
<1>. USE Bounds
<1>0. /\ rec[c].on /\ is_terminal(rec[c].status) /\ rec' = [rec EXCEPT ![c] = NoRecord]
      /\ UNCHANGED <<owner, down, torn, call, exec, run, op, asked, excused, drained>>
  BY DEF Forget
<1>1. OnlyRec(c) /\ rec'[c] = NoRecord /\ ~rec'[c].on /\ ~rec'[c].pend
  BY <1>0, RecOnly, NoRecordType
<1>2. Only(c)
  BY <1>0, <1>1, Unchanged DEF Only
<1>3. FreshInv(c)' /\ PathInv(c)' /\ ServerInv(c)' /\ RecInv(c)' /\ (\A l \in Lives : StopInv(l, c)')
  BY <1>0, <1>1, Recorded DEF CallInv, FreshInv, PathInv, ServerInv, RecInv, StopInv
<1>4. HandleInv(c)'
  <2>1. exec[c].pc \in Alive => ~rec[c].handle
    BY <1>0, FutureIsLocal DEF CallInv, RecInv, Alive
  <2>. QED
    BY <1>0, <2>1 DEF CallInv, HandleInv
<1>5. RunInv(c, 1)' /\ RunInv(c, 2)'
  BY <1>0 DEF CallInv, RunInv, Answers
<1>6. ASSUME NEW q \in Ops, op'[q].call = c PROVE OpInv(q, c)'
  <2>1. op'[q] = op[q] /\ op[q].call = c
    BY <1>0, <1>6
  <2>2. OpInv(q, c)
    BY <2>1 DEF CallInv
  <2>. QED
    BY <1>0, <1>1, <2>1, <2>2 DEF OpInv, CancelInv, AskInv
<1>. QED
  BY <1>0, <1>2, <1>3, <1>4, <1>5, <1>6 DEF CallInv

\* The futures of calls cs are aborted after the record of c is gone: c loses nothing that
\* was not told.
LEMMA Stopped ==
  ASSUME StoreTypes, NEW c \in Calls, CallInv(c), call[c].pc \notin Unrecorded,
         UNCHANGED <<call, op, excused>>, rec'[c] = NoRecord,
         \/ exec'[c] = exec[c]
         \/ exec'[c].pc = "dead" /\ exec'[c].n = exec[c].n /\ exec[c].pc # "none",
         \A n \in {1, 2} : run[<<c, n>>] \notin Active => run'[<<c, n>>] = run[<<c, n>>],
         \A n \in {1, 2} : run'[<<c, n>>] \in Active => run[<<c, n>>] \in Active,
         HandleInv(c)', RunInv(c, 1)', RunInv(c, 2)', \A l \in Lives : StopInv(l, c)'
  PROVE  CallInv(c)'
<1>1. ~rec'[c].on /\ ~rec'[c].pend
  BY NoRecordType DEF NoRecord
<1>2. FreshInv(c)' /\ RecInv(c)'
  BY <1>1 DEF FreshInv, RecInv
<1>3. PathInv(c)' /\ ServerInv(c)'
  BY DEF CallInv, PathInv, ServerInv
<1>4. ASSUME NEW q \in Ops, op'[q].call = c PROVE OpInv(q, c)'
  <2>1. op'[q] = op[q] /\ OpInv(q, c)
    BY <1>4 DEF CallInv
  <2>2. op[q].pc \in {"tell", "abort"} => CancelInv(q, c)'
    <3>. SUFFICES ASSUME op[q].pc \in {"tell", "abort"} PROVE CancelInv(q, c)'
      OBVIOUS
    <3>0. CancelInv(q, c)
      BY <2>1 DEF OpInv
    <3>1. CASE exec'[c] = exec[c]
      BY <1>1, <2>1, <3>0, <3>1 DEF CancelInv
    <3>2. CASE exec'[c].pc = "dead"
      BY <1>1, <2>1, <3>0, <3>2 DEF CancelInv
    <3>. QED
      BY <3>1, <3>2
  <2>3. op[q].pc \in {"ask", "apply"} => AskInv(q, c)'
    BY <2>1 DEF OpInv, AskInv, Active
  <2>. QED
    BY <2>1, <2>2, <2>3 DEF OpInv
<1>. QED
  BY <1>2, <1>3, <1>4 DEF CallInv

LEMMA ExpireStep ==
  ASSUME StoreTypes, OwnerTypes, NEW c \in Calls, CallInv(c), Expire(c)
  PROVE  Only(c) /\ CallInv(c)' /\ UNCHANGED <<owner, down, torn, call, op, asked, drained>>
<1>. USE Bounds
<1>. DEFINE cs == IF rec[c].handle THEN {c} ELSE {}
            rs == {<<c, n>> : n \in {rec[c].up} \cap {1, 2}} \cup
                  {<<c, exec[c].n>> : d \in {e \in {c} : rec[e].handle /\ CoveredByGuard(e)}}
<1>0. /\ rec[c].on /\ ~is_terminal(rec[c].status) /\ rec' = [rec EXCEPT ![c] = NoRecord]
      /\ Aborted(cs) /\ Tell(rs)
      /\ UNCHANGED <<owner, down, torn, call, op, asked, excused, drained>>
  BY DEF Expire
<1>1. /\ \A n \in {1, 2} : rec[c].up = n => <<c, n>> \in rs
      /\ rec[c].handle /\ CoveredByGuard(c) => <<c, exec[c].n>> \in rs
      /\ \A d \in Calls \ {c} : <<d, 1>> \notin rs /\ <<d, 2>> \notin rs
      /\ exec[c].n \in {1, 2} /\ RecInv(c) /\ call[c].pc \notin Unrecorded
  <2>1. exec[c].n \in {1, 2} /\ RecInv(c) /\ call[c].pc \notin Unrecorded
    BY <1>0, Recorded DEF CallInv, StoreTypes, Execs
  <2>2. \A n \in {1, 2} : rec[c].up = n => <<c, n>> \in rs
    OBVIOUS
  <2>3. rec[c].handle /\ CoveredByGuard(c) => <<c, exec[c].n>> \in rs
    OBVIOUS
  <2>4. \A d \in Calls \ {c} : <<d, 1>> \notin rs /\ <<d, 2>> \notin rs
    OBVIOUS
  <2>. QED
    BY <2>1, <2>2, <2>3, <2>4
<1>. HIDE DEF rs
<1>2. /\ OnlyExec(c)
      /\ ~rec[c].handle => exec'[c] = exec[c]
      /\ exec[c].pc = "none" => exec'[c] = exec[c]
      /\ rec[c].handle /\ exec[c].pc # "none" => exec'[c].pc = "dead" /\ exec'[c].n = exec[c].n
  BY <1>0, AbortedEffect DEF OnlyExec
<1>. HIDE DEF cs
<1>3. OnlyRec(c) /\ rec'[c] = NoRecord
  BY <1>0, RecOnly, NoRecordType
<1>4. OnlyRun(c)
  BY <1>0, <1>1, TellOnly
<1>5. Only(c)
  BY <1>0, <1>2, <1>3, <1>4, Unchanged DEF Only
<1>6. \A n \in {1, 2} : /\ run[<<c, n>>] \notin Active => run'[<<c, n>>] = run[<<c, n>>]
                        /\ run'[<<c, n>>] \in Active => run'[<<c, n>>] = run[<<c, n>>]
                        /\ run'[<<c, n>>] \in Active => <<c, n>> \notin rs
  BY <1>0, TellEffect
<1>7. HandleInv(c)'
  <2>. SUFFICES ASSUME exec'[c].pc \in Alive PROVE HandleInv(c)'
    BY DEF HandleInv
  <2>1. ~rec[c].handle /\ exec'[c] = exec[c]
    BY <1>2 DEF Alive
  <2>. QED
    BY <1>0, <2>1 DEF CallInv, HandleInv
<1>8. ASSUME NEW n \in {1, 2}, RunInv(c, n) PROVE RunInv(c, n)'
  <2>. SUFFICES ASSUME run'[<<c, n>>] \in Active, c \notin excused' PROVE Answers(c, n)'
    BY DEF RunInv
  <2>1. Answers(c, n) /\ <<c, n>> \notin rs
    BY <1>0, <1>6, <1>8 DEF RunInv
  <2>2. CASE exec[c].n = n /\ exec[c].pc \in {"sent", "missing", "replay", "wait"}
    <3>1. ~rec[c].handle
      BY <1>0, <1>1, <2>1, <2>2 DEF RecInv, CoveredByGuard
    <3>. QED
      BY <1>2, <2>2, <3>1 DEF Answers
  <2>3. CASE ~(exec[c].n = n /\ exec[c].pc \in {"sent", "missing", "replay", "wait"})
    BY <1>0, <1>1, <2>1, <2>3 DEF Answers
  <2>. QED
    BY <2>2, <2>3
<1>9. \A l \in Lives : StopInv(l, c)'
  BY <1>0, <1>2 DEF CallInv, StopInv
<1>10. RunInv(c, 1) /\ RunInv(c, 2)
  BY DEF CallInv
<1>11. CallInv(c)'
  BY <1>0, <1>1, <1>2, <1>3, <1>6, <1>7, <1>8, <1>9, <1>10, Stopped
<1>. QED
  BY <1>0, <1>5, <1>11

LEMMA ServerStep ==
  ASSUME StoreTypes, OwnerTypes, NEW c \in Calls, CallInv(c),
         \/ ServerCreates(c) \/ \E n \in {1, 2} : ServerEnds(c, n)
         \/ \E n \in {1, 2}, how \in {"lost", "unsent"} : ConnectionDrops(c, n, how)
  PROVE  Only(c) /\ CallInv(c)' /\ UNCHANGED <<owner, down, torn, call, op, asked, drained>>
<1>. USE Bounds
<1>1. PICK n \in {1, 2}, s \in {"running", "ended", "lost", "unsent"} :
         /\ run[<<c, n>>] \in Active \/ (run[<<c, n>>] = "told" /\ s = "ended")
         /\ run' = [run EXCEPT ![<<c, n>>] = s]
         /\ s = "running" => run[<<c, n>>] = "asked"
         /\ UNCHANGED <<owner, down, torn, call, rec, exec, op, asked, excused, drained>>
  BY DEF ServerCreates, ServerEnds, ConnectionDrops, Active
<1>2. /\ OnlyRun(c) /\ run'[<<c, n>>] = s
      /\ n = 1 => run'[<<c, 2>>] = run[<<c, 2>>]
      /\ n = 2 => run'[<<c, 1>>] = run[<<c, 1>>]
  BY <1>1, RunOnly DEF RunStates
<1>3. Only(c)
  BY <1>1, <1>2, Unchanged DEF Only
<1>4. \A m \in {1, 2} : run'[<<c, m>>] \in Active => run[<<c, m>>] \in Active
  BY <1>1, <1>2 DEF Active
<1>5. FreshInv(c)'
  BY <1>1, <1>2 DEF CallInv, FreshInv, Active
<1>6. PathInv(c)' /\ RecInv(c)' /\ HandleInv(c)' /\ \A l \in Lives : StopInv(l, c)'
  BY <1>1 DEF CallInv, PathInv, RecInv, HandleInv, StopInv
<1>7. ServerInv(c)'
  BY <1>1, <1>4 DEF CallInv, ServerInv
<1>8. RunInv(c, 1)' /\ RunInv(c, 2)'
  BY <1>1, <1>4 DEF CallInv, RunInv, Answers
<1>9. ASSUME NEW q \in Ops, op'[q].call = c PROVE OpInv(q, c)'
  <2>1. op'[q] = op[q] /\ OpInv(q, c)
    BY <1>1, <1>9 DEF CallInv
  <2>2. CancelInv(q, c) => CancelInv(q, c)'
    BY <1>1, <1>4, <2>1 DEF CancelInv
  <2>3. /\ run[<<c, 1>>] = "ended" => run'[<<c, 1>>] = "ended"
        /\ run[<<c, 1>>] = "told" => run'[<<c, 1>>] \in {"told", "ended"}
    BY <1>1, <1>2 DEF Active
  <2>4. AskInv(q, c) => AskInv(q, c)'
    BY <1>1, <2>1, <2>3 DEF AskInv, Active
  <2>. QED
    BY <2>1, <2>2, <2>4 DEF OpInv
<1>. QED
  BY <1>1, <1>3, <1>5, <1>6, <1>7, <1>8, <1>9 DEF CallInv

-----------------------------------------------------------------------------
(* The teardown. *)

\* The records go; what each held is the teardown's.
LEMMA DrainsStep ==
  ASSUME StoreTypes, OwnerTypes, NEW l \in Lives, DownShape(l), TeardownDrains(l),
         \A c \in Calls : CallInv(c)
  PROVE  StoreTypes' /\ (\A c \in Calls : CallInv(c)')
<1>. USE Bounds
<1>. DEFINE rs == {<<c, rec[c].up>> : c \in {d \in Live : rec[d].up # 0}}
            hs == {c \in Live : rec[c].handle}
<1>0. /\ down[l].pc = "clean" /\ down[l].runs = {} /\ down[l].handles = {}
      /\ rec' = [c \in Calls |-> NoRecord]
      /\ down' = [down EXCEPT ![l] = [pc |-> "stop", runs |-> rs, handles |-> hs]]
      /\ UNCHANGED <<owner, call, exec, run, op, asked, excused>>
  BY DEF TeardownDrains, DownShape
<1>1. rs \subseteq Runs /\ hs \subseteq Calls
  BY DEF StoreTypes, Recs, Runs, Live
<1>2. ASSUME NEW c \in Calls
      PROVE  /\ c \in hs <=> rec[c].on /\ rec[c].handle
             /\ \A n \in {1, 2} : <<c, n>> \in rs <=> rec[c].on /\ rec[c].up = n
  <2>1. c \in hs <=> rec[c].on /\ rec[c].handle
    BY DEF Live
  <2>2. \A n \in {1, 2} : rec[c].on /\ rec[c].up = n => <<c, n>> \in rs
    BY DEF Live
  <2>3. ASSUME NEW n \in {1, 2}, <<c, n>> \in rs PROVE rec[c].on /\ rec[c].up = n
    <3>1. PICK d \in Live : <<c, n>> = <<d, rec[d].up>>
      BY <2>3
    <3>. QED
      BY <3>1 DEF Live
  <2>. QED
    BY <2>1, <2>2, <2>3
<1>. HIDE DEF rs, hs
<1>3. /\ down' \in [Lives -> Downs] /\ down'[l].runs = rs /\ down'[l].handles = hs
      /\ \A m \in Lives \ {l} : down'[m] = down[m]
  <2>1. [pc |-> "stop", runs |-> rs, handles |-> hs] \in Downs
    BY <1>1 DEF Downs
  <2>2. down \in [Lives -> Downs]
    BY DEF StoreTypes
  <2>. QED
    BY <1>0, <2>1, <2>2
<1>4. StoreTypes'
  BY <1>0, <1>3, NoRecordType DEF StoreTypes
<1>5. ASSUME NEW c \in Calls PROVE CallInv(c)'
  <2>0. /\ FreshInv(c) /\ PathInv(c) /\ ServerInv(c) /\ RecInv(c) /\ HandleInv(c)
        /\ RunInv(c, 1) /\ RunInv(c, 2) /\ rec[c] \in Recs /\ exec[c].n \in {1, 2}
    BY DEF CallInv, StoreTypes, Execs
  <2>1. rec'[c] = NoRecord /\ ~rec'[c].on /\ ~rec'[c].pend
    BY <1>0, NoRecordType
  <2>2. /\ c \in down'[l].handles <=> rec[c].on /\ rec[c].handle
        /\ \A n \in {1, 2} : <<c, n>> \in down'[l].runs <=> rec[c].on /\ rec[c].up = n
    BY <1>2, <1>3
  <2>3. FreshInv(c)'
    <3>1. call[c].pc \in Unrecorded => ~rec[c].on
      BY <2>0, NoRecordType DEF FreshInv
    <3>. QED
      BY <1>0, <1>3, <2>0, <2>1, <2>2, <3>1 DEF FreshInv
  <2>4. PathInv(c)' /\ ServerInv(c)' /\ RecInv(c)'
    BY <1>0, <2>0, <2>1 DEF PathInv, ServerInv, RecInv
  <2>5. HandleInv(c)'
    BY <1>0, <1>3, <2>0, <2>2 DEF HandleInv
  <2>6. ASSUME NEW n \in {1, 2}, RunInv(c, n) PROVE RunInv(c, n)'
    BY <1>0, <1>3, <2>2, <2>6 DEF RunInv, Answers
  <2>7. ASSUME NEW q \in Ops, op'[q].call = c PROVE OpInv(q, c)'
    <3>1. op'[q] = op[q] /\ OpInv(q, c)
      BY <1>0, <2>7 DEF CallInv
    <3>2. CancelInv(q, c) => CancelInv(q, c)'
      BY <1>0, <2>1, <3>1 DEF CancelInv
    <3>3. AskInv(q, c) => AskInv(q, c)'
      BY <1>0, <3>1 DEF AskInv
    <3>. QED
      BY <3>1, <3>2, <3>3 DEF OpInv
  <2>8. ASSUME NEW m \in Lives PROVE StopInv(m, c)'
    <3>1. CASE m # l
      BY <1>0, <1>3, <3>1 DEF CallInv, StopInv
    <3>2. CASE m = l
      <4>. SUFFICES ASSUME rec[c].on, rec[c].handle, exec[c].pc \in {"replay", "wait"}
                    PROVE  exec[c].pc = "wait" /\ rec[c].up = exec[c].n
        BY <1>0, <2>0, <2>2, <3>2 DEF StopInv
      <4>1. call[c].path = "local"
        BY FutureIsLocal
      <4>. QED
        BY <2>0, <4>1 DEF RecInv
    <3>. QED
      BY <3>1, <3>2
  <2>. QED
    BY <2>0, <2>3, <2>4, <2>5, <2>6, <2>7, <2>8 DEF CallInv
<1>. QED
  BY <1>4, <1>5

\* The futures are aborted and the runs are told.
LEMMA StopsStep ==
  ASSUME StoreTypes, OwnerTypes, NEW l \in Lives, TeardownStops(l), \A c \in Calls : CallInv(c)
  PROVE  StoreTypes' /\ (\A c \in Calls : CallInv(c)')
<1>. USE Bounds
<1>. DEFINE hs == down[l].handles
            rs == down[l].runs \cup {<<c, exec[c].n>> : c \in {d \in hs : CoveredByGuard(d)}}
<1>0. /\ Aborted(hs) /\ Tell(rs)
      /\ down' = [down EXCEPT ![l] = [pc |-> "done", runs |-> {}, handles |-> {}]]
      /\ UNCHANGED <<owner, torn, call, rec, op, asked, excused, drained>>
  BY DEF TeardownStops
<1>1. \A c \in hs : CoveredByGuard(c) => <<c, exec[c].n>> \in rs
  OBVIOUS
<1>2. \A r \in down[l].runs : r \in rs
  OBVIOUS
<1>. HIDE DEF rs
<1>3. /\ down' \in [Lives -> Downs] /\ down'[l].runs = {} /\ down'[l].handles = {}
      /\ \A m \in Lives \ {l} : down'[m] = down[m]
  <2>1. [pc |-> "done", runs |-> {}, handles |-> {}] \in Downs
    BY DEF Downs
  <2>2. down \in [Lives -> Downs]
    BY DEF StoreTypes
  <2>. QED
    BY <1>0, <2>1, <2>2
<1>4. run' \in [Runs -> RunStates]
  BY <1>0 DEF StoreTypes, Tell, RunStates
<1>5. /\ exec' \in [Calls -> Execs]
      /\ \A c \in Calls : c \notin hs \/ exec[c].pc = "none" => exec'[c] = exec[c]
      /\ \A c \in Calls : c \in hs /\ exec[c].pc # "none" =>
            exec'[c].pc = "dead" /\ exec'[c].n = exec[c].n
  BY <1>0, AbortedEffect
<1>6. StoreTypes'
  BY <1>0, <1>3, <1>4, <1>5 DEF StoreTypes
<1>7. ASSUME NEW c \in Calls PROVE CallInv(c)'
  <2>0. /\ FreshInv(c) /\ PathInv(c) /\ ServerInv(c) /\ RecInv(c) /\ HandleInv(c)
        /\ RunInv(c, 1) /\ RunInv(c, 2) /\ exec[c].n \in {1, 2} /\ StopInv(l, c)
    BY DEF CallInv, StoreTypes, Execs
  <2>1. \A n \in {1, 2} : /\ run[<<c, n>>] \notin Active => run'[<<c, n>>] = run[<<c, n>>]
                          /\ run'[<<c, n>>] \in Active => run'[<<c, n>>] = run[<<c, n>>]
                          /\ run'[<<c, n>>] \in Active => <<c, n>> \notin rs
    BY <1>0, TellEffect
  <2>2. \A m \in Lives : /\ c \in down'[m].handles => c \in down[m].handles
                         /\ \A n \in {1, 2} : <<c, n>> \in down'[m].runs => <<c, n>> \in down[m].runs
    BY <1>3
  <2>3. FreshInv(c)'
    BY <1>0, <1>5, <2>0, <2>1, <2>2 DEF FreshInv, Active
  <2>4. HandleInv(c)'
    BY <1>0, <1>3, <1>5, <2>0 DEF HandleInv, Alive
  <2>5. ASSUME NEW n \in {1, 2}, RunInv(c, n) PROVE RunInv(c, n)'
    <3>. SUFFICES ASSUME run'[<<c, n>>] \in Active, c \notin excused' PROVE Answers(c, n)'
      BY DEF RunInv
    <3>1. Answers(c, n) /\ <<c, n>> \notin rs
      BY <1>0, <2>1, <2>5 DEF RunInv
    <3>2. CASE exec[c].n = n /\ exec[c].pc \in {"sent", "missing", "replay", "wait"}
      <4>1. c \notin hs
        BY <1>1, <1>2, <2>0, <3>1, <3>2 DEF StopInv, CoveredByGuard
      <4>. QED
        BY <1>5, <3>2, <4>1 DEF Answers
    <3>3. CASE ~(exec[c].n = n /\ exec[c].pc \in {"sent", "missing", "replay", "wait"})
      BY <1>0, <1>2, <1>3, <3>1, <3>3 DEF Answers
    <3>. QED
      BY <3>2, <3>3
  <2>6. ASSUME NEW m \in Lives PROVE StopInv(m, c)'
    <3>1. CASE m = l
      BY <1>3, <3>1 DEF StopInv
    <3>2. CASE m # l
      BY <1>3, <1>5, <3>2 DEF CallInv, StopInv
    <3>. QED
      BY <3>1, <3>2
  <2>7. CASE c \notin hs \/ exec[c].pc = "none"
    <3>0. exec'[c] = exec[c]
      BY <1>5, <2>7
    <3>1. PathInv(c)' /\ ServerInv(c)' /\ RecInv(c)'
      BY <1>0, <2>0, <2>1, <2>2, <3>0 DEF PathInv, ServerInv, RecInv
    <3>2. ASSUME NEW q \in Ops, op'[q].call = c PROVE OpInv(q, c)'
      <4>1. op'[q] = op[q] /\ op[q].call = c
        BY <1>0, <3>2
      <4>2. op[q].pc \in {"tell", "abort"} => (rec[c].on => is_terminal(rec[c].status))
        BY <4>1 DEF CallInv, OpInv, CancelInv
      <4>. QED
        BY <1>0, <2>1, <3>0, <4>1, <4>2, OthersKept
    <3>. QED
      BY <2>0, <2>3, <2>4, <2>5, <2>6, <3>1, <3>2 DEF CallInv
  <2>8. CASE c \in hs /\ exec[c].pc # "none"
    <3>1. rec'[c] = NoRecord
      BY <1>0, <2>0, <2>8 DEF RecInv
    <3>2. call[c].pc \notin Unrecorded
      BY <2>8, FutureIsLocal
    <3>3. exec'[c].pc = "dead" /\ exec'[c].n = exec[c].n
      BY <1>5, <2>8
    <3>. QED
      BY <1>0, <2>0, <2>1, <2>4, <2>5, <2>6, <2>8, <3>1, <3>2, <3>3, Stopped
  <2>. QED
    BY <2>7, <2>8
<1>. QED
  BY <1>6, <1>7

-----------------------------------------------------------------------------
(* The owner. *)

InFlight == {"probe", "locking", "queueing", "creating", "inserting", "created"}

\* A step that is no create and no teardown brings no record and changes one that has
\* ended only to give it its result.
Moves(c) ==
    rec'[c].on =>
        /\ rec[c].on
        /\ is_terminal(rec[c].status) /\ rec'[c].status # rec[c].status =>
              rec'[c].status = "completed" /\ rec'[c].result

LEMMA MovesAll ==
  ASSUME NEW c \in Calls, OnlyRec(c), Moves(c)
  PROVE  \A d \in Calls : Moves(d)
BY DEF OnlyRec, Moves

LEMMA ExecuteMoves ==
  ASSUME StoreTypes, NEW c \in Calls, Execute(c)
  PROVE  \A d \in Calls : Moves(d)
<1>1. CASE rec' = rec
  BY <1>1 DEF Moves
<1>2. ASSUME NEW s \in {"completed", "failed"}, Ends(c, s) PROVE \A d \in Calls : Moves(d)
  <2>1. OnlyRec(c) /\ Moves(c)
    BY <1>2, EndsEffect DEF Moves
  <2>. QED
    BY <2>1, MovesAll
<1>3. CASE ExecRecords(c)
  <2>1. rec[c] \in Recs /\ exec[c].n \in {1, 2}
    BY DEF StoreTypes, Execs
  <2>. DEFINE r == [rec[c] EXCEPT !.up = exec[c].n, !.pend = FALSE]
  <2>2. r \in Recs /\ r.on = rec[c].on /\ r.status = rec[c].status
    BY <2>1 DEF Recs
  <2>3. rec' = [rec EXCEPT ![c] = IF rec[c].on THEN r ELSE rec[c]]
    BY <1>3 DEF ExecRecords
  <2>. HIDE DEF r
  <2>4. OnlyRec(c) /\ (rec'[c] = r \/ rec'[c] = rec[c])
    BY <2>1, <2>2, <2>3 DEF OnlyRec, StoreTypes
  <2>5. Moves(c)
    BY <2>2, <2>4 DEF Moves
  <2>. QED
    BY <2>4, <2>5, MovesAll
<1>4. rec' = rec \/ ExecRecords(c) \/ \E s \in {"completed", "failed"} : Ends(c, s)
  BY DEF Execute, ExecGivesUp, ExecSends, ExecCancelsOwn, ExecReplays, ExecAnswered,
         ExecTimesOut, ExecLosesSession, ExecReconnects
<1>. QED
  BY <1>1, <1>2, <1>3, <1>4

LEMMA RequestMoves ==
  ASSUME StoreTypes, NEW o \in Ops, NEW c \in Calls, op[o].call = c, Request(o)
  PROVE  \A d \in Calls : Moves(d)
<1>1. CASE rec' = rec
  BY <1>1 DEF Moves
<1>2. CASE ApplyReply(o)
  <2>0. rec[c] \in Recs /\ op[o].seen \in {"working", "completed", "cancelled"}
    BY DEF StoreTypes, OpRecs
  <2>1. CASE rec[c].on
    <3>1. OnlyRec(c) /\ Moves(c)
      BY <1>2, <2>0, <2>1, AppliedEffect DEF Moves
    <3>. QED
      BY <3>1, MovesAll
  <2>2. CASE ~rec[c].on
    <3>1. rec' = [rec EXCEPT ![c] = rec[c]]
      BY <1>2, <2>2 DEF ApplyReply
    <3>2. OnlyRec(c) /\ Moves(c)
      BY <2>0, <3>1, RecOnly DEF Moves
    <3>. QED
      BY <3>2, MovesAll
  <2>. QED
    BY <2>1, <2>2
<1>3. rec' = rec \/ ApplyReply(o)
  BY DEF Request, CancelTells, CancelAborts, CancelHangsUp, ServerReplies
<1>. QED
  BY <1>1, <1>2, <1>3

LEMMA MarkMoves ==
  ASSUME StoreTypes, NEW o \in Ops, NEW c \in Calls, MarkCancelled(o, c)
  PROVE  \A d \in Calls : Moves(d)
<1>1. rec[c].on /\ ~is_terminal(rec[c].status) /\ \A d \in Calls \ {c} : rec'[d] = rec[d]
  BY DEF MarkCancelled, StoreTypes
<1>. QED
  BY <1>1 DEF Moves

LEMMA DropMoves ==
  ASSUME StoreTypes, NEW c \in Calls, Forget(c) \/ Expire(c)
  PROVE  \A d \in Calls : Moves(d)
<1>1. rec' = [rec EXCEPT ![c] = NoRecord]
  BY DEF Forget, Expire
<1>2. OnlyRec(c) /\ rec'[c] = NoRecord
  BY <1>1, RecOnly, NoRecordType
<1>3. Moves(c)
  BY <1>2, NoRecordType DEF Moves
<1>. QED
  BY <1>2, <1>3, MovesAll

\* What the owner's invariant looks at is left alone.
LEMMA OwnerKept ==
  ASSUME OwnerInv, UNCHANGED <<owner, down, torn, call>>, \A c \in Calls : Moves(c)
  PROVE  OwnerInv'
<1>1. Quiet' <=> Quiet
  BY DEF Quiet
<1>2. Live' \subseteq Live
  BY DEF Live, Moves
<1>3. Guarded' = Guarded
  BY DEF Guarded
<1>. QED
  BY <1>1, <1>2, <1>3 DEF OwnerInv

\* A create goes on; with a new record or past the probe only while the owner is there,
\* or past the probe with no tombstone.
LEMMA GoesKeeps ==
  ASSUME OwnerInv, NEW c \in Calls, UNCHANGED <<owner, down, torn>>, OnlyCall(c), OnlyRec(c),
         call[c].pc \in InFlight => call'[c].pc \in InFlight,
         call'[c].pc \in Passed => call[c].pc \in Passed \/ owner.on,
         rec'[c].on => rec[c].on \/ owner.on \/ (~torn /\ call[c].pc \in Passed)
  PROVE  OwnerInv'
<1>1. Quiet' <=> Quiet
  BY DEF Quiet
<1>2. \A d \in Calls : /\ call[d].pc \in InFlight => call'[d].pc \in InFlight
                       /\ call'[d].pc \in Passed => call[d].pc \in Passed \/ owner.on
                       /\ rec'[d].on => rec[d].on \/ owner.on \/ (~torn /\ call[c].pc \in Passed)
  BY DEF OnlyCall, OnlyRec
<1>3. Guarded \subseteq Guarded'
  BY <1>2 DEF Guarded, InFlight
<1>4. ASSUME Quiet PROVE Live' = {} /\ (torn' \/ \A d \in Calls : call'[d].pc \notin Passed)
  <2>1. ~owner.on /\ Live = {} /\ (torn \/ \A d \in Calls : call[d].pc \notin Passed)
    BY <1>4 DEF OwnerInv, Quiet
  <2>. QED
    BY <1>2, <2>1 DEF Live
<1>. QED
  BY <1>1, <1>3, <1>4 DEF OwnerInv

\* A create leaves, and the tombstone with the last.
LEMMA LeavesKeeps ==
  ASSUME StoreTypes, OwnerInv, NEW c \in Calls, NEW pc \in {"over", "reaping"}, Leaves(c, pc),
         UNCHANGED <<owner, down, rec>>
  PROVE  OwnerInv'
<1>0. torn' = (torn /\ Guarded \ {c} # {}) /\ OnlyCall(c) /\ call'[c].pc = pc
  BY GoesEffect DEF Leaves
<1>1. Quiet' <=> Quiet
  BY DEF Quiet
<1>2. \A d \in Calls \ {c} : call'[d] = call[d]
  BY <1>0 DEF OnlyCall
<1>3. Guarded \ {c} \subseteq Guarded'
  BY <1>2 DEF Guarded
<1>4. ASSUME Quiet PROVE Live' = {} /\ (torn' \/ \A d \in Calls : call'[d].pc \notin Passed)
  <2>1. Live = {} /\ (torn \/ \A d \in Calls : call[d].pc \notin Passed)
    BY <1>4 DEF OwnerInv
  <2>2. call'[c].pc \notin Passed
    BY <1>0 DEF Passed
  <2>3. ASSUME ~torn', NEW d \in Calls, call'[d].pc \in Passed PROVE FALSE
    <3>1. d # c /\ call[d].pc \in Passed
      BY <1>2, <2>2, <2>3
    <3>2. d \in Guarded \ {c} /\ torn
      BY <2>1, <3>1 DEF Guarded, Passed
    <3>. QED
      BY <1>0, <2>3, <3>2
  <2>. QED
    BY <2>1, <2>3 DEF Live
<1>. QED
  BY <1>0, <1>1, <1>3, <1>4 DEF OwnerInv

LEMMA CreateOwner ==
  ASSUME StoreTypes, OwnerTypes, OwnerInv, NEW c \in Calls, CallInv(c),
         \/ \E path \in {"local", "native"} : Arrive(c, path)
         \/ AnotherCall(c) \/ CallerHangsUp(c) \/ Create(c) \/ Hears(c)
  PROVE  OwnerInv' /\ torn' \in BOOLEAN
<1>0. Only(c) /\ UNCHANGED <<owner, down>>
  BY CreateStep
<1>1. torn \in BOOLEAN /\ OnlyCall(c) /\ OnlyRec(c) /\ call[c] \in CallRecs
  BY <1>0 DEF OwnerTypes, Only, StoreTypes
<1>2. ASSUME NEW pc \in {"over", "reaping"}, Leaves(c, pc), rec' = rec
      PROVE  OwnerInv' /\ torn' \in BOOLEAN
  BY <1>0, <1>1, <1>2, LeavesKeeps DEF Leaves
<1>3. ASSUME torn' = torn, rec' = rec \/ owner.on \/ (~torn /\ call[c].pc \in Passed),
             call[c].pc \in InFlight => call'[c].pc \in InFlight,
             call'[c].pc \in Passed => call[c].pc \in Passed \/ owner.on
      PROVE  OwnerInv' /\ torn' \in BOOLEAN
  BY <1>0, <1>1, <1>3, GoesKeeps
<1>4. ASSUME NEW path \in {"local", "native"}, Arrive(c, path) PROVE OwnerInv' /\ torn' \in BOOLEAN
  <2>1. call[c].pc = "idle" /\ call'[c].pc = "arrived" /\ torn' = torn /\ rec' = rec
    BY <1>4 DEF Arrive, StoreTypes
  <2>. QED
    BY <1>3, <2>1 DEF InFlight, Passed
<1>5. ASSUME NEW pc \in {"idle", "arrived", "probe", "locking", "created", "queueing", "creating",
                         "inserting", "reaping", "over"}, Goes(c, pc)
      PROVE  call'[c].pc = pc
  BY <1>5, GoesEffect
<1>6. CASE AnotherCall(c) \/ BeginCreate(c) \/ ReaperGivesUp(c) \/ NativeAnswered(c) \/ ReaperCancels(c)
  <2>1. /\ torn' = torn /\ rec' = rec
        /\ \/ call[c].pc = "over" /\ Goes(c, "idle")
           \/ call[c].pc = "arrived" /\ Goes(c, "probe")
           \/ call[c].pc = "reaping" /\ Goes(c, "over")
           \/ call[c].pc = "creating" /\ Goes(c, "inserting")
    BY <1>6 DEF AnotherCall, BeginCreate, ReaperGivesUp, NativeAnswered, ReaperCancels
  <2>2. \/ call[c].pc = "over" /\ call'[c].pc = "idle"
        \/ call[c].pc = "arrived" /\ call'[c].pc = "probe"
        \/ call[c].pc = "reaping" /\ call'[c].pc = "over"
        \/ call[c].pc = "creating" /\ call'[c].pc = "inserting"
    BY <1>5, <2>1
  <2>. QED
    BY <1>3, <2>1, <2>2 DEF InFlight, Passed
<1>7. CASE \/ CallerHangsUp(c) \/ Return(c) \/ NativeRefused(c) \/ NativeLost(c)
           \/ NativeTimesOut(c)
  BY <1>2, <1>7 DEF CallerHangsUp, Return, NativeRefused, NativeLost, NativeTimesOut, Reaps
<1>8. CASE Probe(c)
  <2>1. CASE owner.on
    <3>1. PICK pc \in {"locking", "queueing"} : Goes(c, pc)
      BY <1>8, <2>1 DEF Probe, OwnerIsLive
    <3>2. torn' = torn /\ rec' = rec /\ call'[c].pc = pc
      BY <1>5, <1>8, <2>1, <3>1 DEF Probe, OwnerIsLive
    <3>. QED
      BY <1>3, <2>1, <3>2 DEF InFlight, Passed
  <2>2. CASE ~owner.on
    BY <1>2, <1>8, <2>2 DEF Probe, OwnerIsLive
  <2>. QED
    BY <2>1, <2>2
<1>9. CASE SendNative(c)
  <2>1. CASE Goes(c, "creating") /\ torn' = torn
    <3>1. call'[c].pc = "creating" /\ rec' = rec /\ call[c].pc = "queueing"
      BY <1>5, <1>9, <2>1 DEF SendNative
    <3>. QED
      BY <1>3, <2>1, <3>1 DEF InFlight, Passed
  <2>2. CASE Leaves(c, "over")
    BY <1>2, <1>9, <2>2 DEF SendNative
  <2>. QED
    BY <1>9, <2>1, <2>2 DEF SendNative
<1>10. CASE CreateLocal(c) \/ CreateNative(c)
  <2>1. CASE torn
    BY <1>2, <1>10, <2>1 DEF CreateLocal, CreateNative, AcceptsCreates
  <2>2. CASE ~torn
    <3>1. Goes(c, "created") /\ torn' = torn /\ call[c].pc \in {"locking", "inserting"}
      BY <1>10, <2>2 DEF CreateLocal, CreateNative, AcceptsCreates
    <3>2. call'[c].pc = "created"
      BY <1>5, <3>1
    <3>. QED
      BY <1>3, <2>2, <3>1, <3>2 DEF InFlight, Passed
  <2>. QED
    BY <1>1, <2>1, <2>2
<1>. QED
  BY <1>4, <1>6, <1>7, <1>8, <1>9, <1>10 DEF Create, Hears

\* The owner comes and goes, and its teardowns.
LEMMA OwnerStep ==
  ASSUME StoreTypes, OwnerTypes, OwnerInv, Register \/ Disconnect \/ \E l \in Lives : Teardown(l)
  PROVE  OwnerInv' /\ owner' \in [kind : {"http", "ipc"}, on : BOOLEAN, life : Numbers]
         /\ torn' \in BOOLEAN
<1>. USE Bounds
<1>0. /\ owner \in [kind : {"http", "ipc"}, on : BOOLEAN, life : Numbers] /\ torn \in BOOLEAN
      /\ down \in [Lives -> Downs]
  BY DEF OwnerTypes, StoreTypes
<1>1. CASE Register
  <2>1. owner.life \in Int /\ owner.life >= 0 /\ owner.life < MaxLife
    BY <1>0, <1>1 DEF Register, Numbers
  <2>2. owner'.on = TRUE /\ owner'.life = owner.life + 1 /\ owner'.kind = owner.kind
    BY <1>0, <1>1 DEF Register
  <2>3. owner' = [owner EXCEPT !.on = TRUE, !.life = owner.life + 1] /\ owner.life + 1 \in Numbers
    BY <1>1, <2>1 DEF Register, Numbers
  <2>4. owner' \in [kind : {"http", "ipc"}, on : BOOLEAN, life : Numbers]
    BY <1>0, <2>3
  <2>5. UNCHANGED <<down, torn, call, rec>>
    BY <1>1 DEF Register
  <2>6. owner'.life \in Lives /\ ~Quiet' /\ Guarded' = Guarded
    BY <2>1, <2>2, <2>5 DEF Lives, Quiet, Guarded
  <2>7. \A l \in Lives : l > owner'.life \/ l = owner'.life => down'[l].pc = "none"
    BY <2>1, <2>2, <2>5 DEF OwnerInv, Lives
  <2>. QED
    BY <1>0, <2>4, <2>5, <2>6, <2>7 DEF OwnerInv
<1>2. CASE Disconnect
  <2>1. owner.on /\ owner.life \in Lives /\ owner' = [owner EXCEPT !.on = FALSE]
        /\ down' = [down EXCEPT ![owner.life].pc = "check"] /\ UNCHANGED <<torn, call, rec>>
    BY <1>2 DEF Disconnect, OwnerInv
  <2>2. /\ owner'.on = FALSE /\ owner'.life = owner.life
        /\ owner' \in [kind : {"http", "ipc"}, on : BOOLEAN, life : Numbers]
    BY <1>0, <2>1
  <2>3. down'[owner.life].pc = "check" /\ \A l \in Lives \ {owner.life} : down'[l] = down[l]
    BY <1>0, <2>1 DEF Downs
  <2>4. ~Quiet' /\ Guarded' = Guarded
    BY <2>1, <2>3 DEF Quiet, Guarded
  <2>5. \A l \in Lives : l > owner'.life => down'[l].pc = "none"
    BY <2>1, <2>2, <2>3 DEF OwnerInv, Lives
  <2>. QED
    BY <1>0, <2>1, <2>2, <2>4, <2>5 DEF OwnerInv
<1>3. ASSUME NEW l \in Lives, Teardown(l)
      PROVE  OwnerInv' /\ owner' = owner /\ torn' \in BOOLEAN
  <2>1. down[l].pc # "none" /\ UNCHANGED <<owner, call>> /\ \A m \in Lives \ {l} : down'[m] = down[m]
    BY <1>0, <1>3 DEF Teardown, TeardownLooks, TeardownDrains, TeardownStops
  <2>2. Guarded' = Guarded
    BY <2>1 DEF Guarded
  <2>3. \A m \in Lives : m > owner'.life \/ (owner'.on /\ m = owner'.life) => down'[m].pc = "none"
    BY <2>1 DEF OwnerInv
  <2>4. CASE TeardownLooks(l)
    <3>1. PICK pc \in {"done", "clean"} :
             /\ down' = [down EXCEPT ![l].pc = pc] /\ torn' = torn /\ rec' = rec
             /\ pc = "done" => owner.on
      BY <2>4 DEF TeardownLooks
    <3>2. down'[l].pc = pc
      BY <1>0, <3>1 DEF Downs
    <3>3. ~Quiet'
      BY <2>1, <3>1, <3>2 DEF Quiet
    <3>. QED
      BY <1>0, <2>1, <2>2, <2>3, <3>1, <3>3 DEF OwnerInv
  <2>5. CASE TeardownDrains(l)
    <3>1. torn' = (torn \/ Guarded # {}) /\ rec' = [c \in Calls |-> NoRecord]
      BY <2>5 DEF TeardownDrains, Tombstone
    <3>2. Live' = {}
      BY <3>1, NoRecordType DEF Live
    <3>3. torn' \/ \A c \in Calls : call'[c].pc \notin Passed
      BY <2>1, <3>1 DEF Guarded, Passed
    <3>4. torn' \in BOOLEAN /\ (torn' => Guarded' # {})
      BY <2>2, <3>1 DEF OwnerInv
    <3>5. owner'.on => owner'.life \in Lives
      BY <2>1 DEF OwnerInv
    <3>. QED
      BY <2>1, <2>3, <3>2, <3>3, <3>4, <3>5 DEF OwnerInv
  <2>6. CASE TeardownStops(l)
    <3>1. down[l].pc = "stop" /\ UNCHANGED <<torn, rec>>
      BY <2>6 DEF TeardownStops
    <3>2. Quiet' => Quiet
      BY <2>1, <3>1 DEF Quiet
    <3>3. Live' = Live
      BY <3>1 DEF Live
    <3>. QED
      BY <1>0, <2>1, <2>2, <2>3, <3>1, <3>2, <3>3 DEF OwnerInv
  <2>. QED
    BY <1>3, <2>4, <2>5, <2>6 DEF Teardown
<1>. QED
  BY <1>0, <1>1, <1>2, <1>3

-----------------------------------------------------------------------------
(* The whole. *)

\* A step of one call leaves the others alone.
LEMMA OneCall ==
  ASSUME StoreTypes, NEW c \in Calls, Only(c), down' = down, CallInv(c)',
         \A d \in Calls : CallInv(d)
  PROVE  StoreTypes' /\ (\A d \in Calls : CallInv(d)') /\ excused' \subseteq Calls
<1>. USE Bounds
<1>1. StoreTypes' /\ excused' \subseteq Calls
  BY DEF StoreTypes, Only, OnlyCall, OnlyRec, OnlyExec, OnlyRun, OnlyOp, OnlyExcused
<1>2. ASSUME NEW d \in Calls, d # c PROVE CallInv(d)'
  <2>1. /\ call'[d] = call[d] /\ rec'[d] = rec[d] /\ exec'[d] = exec[d]
        /\ d \in excused' <=> d \in excused
    BY <1>2 DEF Only, OnlyCall, OnlyRec, OnlyExec, OnlyExcused
  <2>2. run'[<<d, 1>>] = run[<<d, 1>>] /\ run'[<<d, 2>>] = run[<<d, 2>>]
    BY <1>2 DEF Only, OnlyRun
  <2>3. \A o \in Ops : op'[o] = op[o] \/ (op[o].call # d /\ op'[o].call # d)
    BY <1>2 DEF Only, OnlyOp
  <2>4. Same(d)
    BY <2>1, <2>2, <2>3 DEF Same
  <2>. QED
    BY <2>4, SameInv
<1>. QED
  BY <1>1, <1>2

\* The steps of one call that no request takes.
LEMMA CallSteps ==
  ASSUME Inv, NEW c \in Calls,
         \/ \E path \in {"local", "native"} : Arrive(c, path)
         \/ AnotherCall(c) \/ CallerHangsUp(c) \/ Create(c) \/ Hears(c) \/ Execute(c)
         \/ Forget(c) \/ Expire(c) \/ ServerCreates(c)
         \/ \E n \in {1, 2} : ServerEnds(c, n)
         \/ \E n \in {1, 2}, how \in {"lost", "unsent"} : ConnectionDrops(c, n, how)
  PROVE  Inv'
<1>0. /\ StoreTypes /\ OwnerTypes /\ OwnerInv /\ CallInv(c) /\ \A d \in Calls : CallInv(d)
  BY DEF Inv, Shapes
<1>1. ASSUME Only(c), CallInv(c)', UNCHANGED <<owner, down, op, asked, drained>>,
             torn' \in BOOLEAN, OwnerInv'
      PROVE  Inv'
  <2>1. StoreTypes' /\ (\A d \in Calls : CallInv(d)') /\ excused' \subseteq Calls
    BY <1>0, <1>1, OneCall
  <2>2. OwnerTypes'
    BY <1>0, <1>1, <2>1 DEF OwnerTypes
  <2>3. (\A o \in Ops : OpShape(o)') /\ (\A l \in Lives : DownShape(l)')
    BY <1>1 DEF Inv, Shapes, OpShape, DownShape
  <2>. QED
    BY <1>1, <2>1, <2>2, <2>3 DEF Inv, Shapes
<1>2. CASE \/ \E path \in {"local", "native"} : Arrive(c, path)
           \/ AnotherCall(c) \/ CallerHangsUp(c) \/ Create(c) \/ Hears(c)
  <2>1. Only(c) /\ UNCHANGED <<owner, down, op, asked, drained>> /\ CallInv(c)'
    BY <1>0, <1>2, CreateStep
  <2>2. OwnerInv' /\ torn' \in BOOLEAN
    BY <1>0, <1>2, CreateOwner
  <2>. QED
    BY <1>1, <2>1, <2>2
<1>3. ASSUME Only(c), CallInv(c)', UNCHANGED <<owner, down, torn, call, op, asked, drained>>,
             \A d \in Calls : Moves(d)
      PROVE  Inv'
  <2>1. OwnerInv' /\ torn' \in BOOLEAN
    BY <1>0, <1>3, OwnerKept DEF OwnerTypes
  <2>. QED
    BY <1>1, <1>3, <2>1
<1>4. CASE Execute(c)
  BY <1>0, <1>3, <1>4, ExecuteStep, ExecuteMoves
<1>5. CASE Forget(c)
  BY <1>0, <1>3, <1>5, ForgetStep, DropMoves
<1>6. CASE Expire(c)
  BY <1>0, <1>3, <1>6, ExpireStep, DropMoves
<1>7. CASE \/ ServerCreates(c) \/ \E n \in {1, 2} : ServerEnds(c, n)
           \/ \E n \in {1, 2}, how \in {"lost", "unsent"} : ConnectionDrops(c, n, how)
  <2>1. rec' = rec
    BY <1>7 DEF ServerCreates, ServerEnds, ConnectionDrops
  <2>2. \A d \in Calls : Moves(d)
    BY <2>1 DEF Moves
  <2>3. Only(c) /\ CallInv(c)' /\ UNCHANGED <<owner, down, torn, call, op, asked, drained>>
    BY <1>0, <1>7, ServerStep
  <2>. QED
    BY <1>3, <2>2, <2>3
<1>. QED
  BY <1>2, <1>4, <1>5, <1>6, <1>7

\* The steps of a request.
LEMMA OpSteps ==
  ASSUME Inv, NEW o \in Ops,
         \/ Request(o)
         \/ \E c \in Calls : MarkCancelled(o, c) \/ \E kind \in {"get", "result"} : AskServer(o, c, kind)
  PROVE  Inv'
<1>. USE Bounds
<1>0. /\ StoreTypes /\ OwnerTypes /\ OwnerInv /\ OpShape(o) /\ \A d \in Calls : CallInv(d)
  BY DEF Inv, Shapes
<1>1. ASSUME NEW c \in Calls, Only(c), CallInv(c)', UNCHANGED <<owner, down, torn, call, drained>>,
             asked' \in 0..MaxOps, \A q \in Ops \ {o} : op'[q] = op[q],
             op'[o] = NoOp \/ (op'[o].pc # "idle" /\ op'[o].call = c),
             \A d \in Calls : Moves(d)
      PROVE  Inv'
  <2>1. StoreTypes' /\ (\A d \in Calls : CallInv(d)') /\ excused' \subseteq Calls
    BY <1>0, <1>1, OneCall
  <2>2. OwnerTypes'
    BY <1>0, <1>1, <2>1 DEF OwnerTypes
  <2>3. \A l \in Lives : DownShape(l)'
    BY <1>1 DEF Inv, Shapes, DownShape
  <2>4. ASSUME NEW q \in Ops PROVE OpShape(q)'
    BY <1>1, NoOpType DEF Inv, Shapes, OpShape
  <2>5. OwnerInv'
    BY <1>0, <1>1, OwnerKept
  <2>. QED
    BY <2>1, <2>2, <2>3, <2>4, <2>5 DEF Inv, Shapes
<1>2. CASE Request(o)
  <2>1. op[o].pc # "idle"
    BY <1>2 DEF Request, CancelTells, CancelAborts, CancelHangsUp, ServerReplies, ApplyReply
  <2>2. PICK c \in Calls : op[o].call = c
    BY <1>0, <2>1 DEF OpShape
  <2>3. /\ Only(c) /\ CallInv(c)' /\ UNCHANGED <<owner, down, torn, call, asked, drained>>
        /\ \A q \in Ops \ {o} : op'[q] = op[q]
        /\ op'[o] = NoOp \/ (op'[o].pc # "idle" /\ op'[o].call = c)
    BY <1>0, <1>2, <2>2, RequestStep
  <2>4. \A d \in Calls : Moves(d)
    BY <1>0, <1>2, <2>2, RequestMoves
  <2>5. asked' \in 0..MaxOps
    BY <1>0, <2>3 DEF OwnerTypes
  <2>. QED
    BY <1>1, <2>3, <2>4, <2>5
<1>3. ASSUME NEW c \in Calls, MarkCancelled(o, c) PROVE Inv'
  <2>1. /\ Only(c) /\ CallInv(c)'
        /\ op'[o].pc # "idle" /\ op'[o].call = c /\ \A q \in Ops \ {o} : op'[q] = op[q]
    BY <1>0, <1>3, MarkStep
  <2>2. UNCHANGED <<owner, down, torn, call, drained>> /\ asked' = asked + 1 /\ asked < MaxOps
    BY <1>3 DEF MarkCancelled
  <2>3. asked' \in 0..MaxOps
    BY <1>0, <2>2 DEF OwnerTypes
  <2>4. \A d \in Calls : Moves(d)
    BY <1>0, <1>3, MarkMoves
  <2>. QED
    BY <1>1, <2>1, <2>2, <2>3, <2>4
<1>4. ASSUME NEW c \in Calls, NEW kind \in {"get", "result"}, AskServer(o, c, kind) PROVE Inv'
  <2>1. /\ Only(c) /\ CallInv(c)'
        /\ op'[o].pc # "idle" /\ op'[o].call = c /\ \A q \in Ops \ {o} : op'[q] = op[q]
    BY <1>0, <1>4, AskStep
  <2>2. UNCHANGED <<owner, down, torn, call, rec, drained>> /\ asked' = asked + 1 /\ asked < MaxOps
    BY <1>4 DEF AskServer
  <2>3. asked' \in 0..MaxOps
    BY <1>0, <2>2 DEF OwnerTypes
  <2>4. \A d \in Calls : Moves(d)
    BY <2>2 DEF Moves
  <2>. QED
    BY <1>1, <2>1, <2>2, <2>3, <2>4
<1>. QED
  BY <1>2, <1>3, <1>4

\* The steps of the owner and of its teardowns.
LEMMA OwnerSteps ==
  ASSUME Inv, Register \/ Disconnect \/ \E l \in Lives : Teardown(l)
  PROVE  Inv'
<1>. USE Bounds
<1>0. /\ StoreTypes /\ OwnerTypes /\ OwnerInv /\ (\A o \in Ops : OpShape(o))
      /\ (\A d \in Calls : CallInv(d)) /\ (\A l \in Lives : DownShape(l))
  BY DEF Inv, Shapes
<1>1. OwnerInv' /\ owner' \in [kind : {"http", "ipc"}, on : BOOLEAN, life : Numbers] /\ torn' \in BOOLEAN
  BY <1>0, OwnerStep
<1>2. UNCHANGED <<op, asked, excused>>
  BY DEF Register, Disconnect, Teardown, TeardownLooks, TeardownDrains, TeardownStops
<1>3. drained' \subseteq Calls
  <2>1. drained' = drained \/ \E l \in Lives : TeardownDrains(l)
    BY DEF Register, Disconnect, Teardown, TeardownLooks, TeardownStops
  <2>2. ASSUME NEW l \in Lives, TeardownDrains(l) PROVE drained' \subseteq Calls
    BY <1>0, <2>2 DEF TeardownDrains, OwnerTypes, Live
  <2>. QED
    BY <1>0, <2>1, <2>2 DEF OwnerTypes
<1>4. OwnerTypes' /\ \A o \in Ops : OpShape(o)'
  BY <1>0, <1>1, <1>2, <1>3 DEF OwnerTypes, OpShape
<1>5. ASSUME NEW l \in Lives, UNCHANGED <<call, rec, exec, run, op, excused>>,
             NEW pc \in {"check", "clean", "done"}, down[l].pc # "stop",
             down' = [down EXCEPT ![l].pc = pc]
      PROVE  StoreTypes' /\ (\A d \in Calls : CallInv(d)') /\ \A m \in Lives : DownShape(m)'
  <2>1. down \in [Lives -> Downs]
    BY <1>0 DEF StoreTypes
  <2>2. /\ down' \in [Lives -> Downs]
        /\ \A m \in Lives : down'[m].runs = down[m].runs /\ down'[m].handles = down[m].handles
        /\ \A m \in Lives \ {l} : down'[m] = down[m]
    BY <1>5, <2>1 DEF Downs
  <2>3. StoreTypes'
    BY <1>0, <1>5, <2>2 DEF StoreTypes
  <2>4. ASSUME NEW d \in Calls PROVE CallInv(d)'
    <3>1. Same(d)
      BY <1>5, <2>2 DEF Same
    <3>. QED
      BY <1>0, <3>1, SameInv
  <2>5. ASSUME NEW m \in Lives PROVE DownShape(m)'
    BY <1>0, <1>5, <2>2 DEF DownShape
  <2>. QED
    BY <2>3, <2>4, <2>5
<1>6. StoreTypes' /\ (\A d \in Calls : CallInv(d)') /\ \A m \in Lives : DownShape(m)'
  <2>1. CASE Register
    <3>1. UNCHANGED <<down, call, rec, exec, run, op, excused>>
      BY <2>1 DEF Register
    <3>2. StoreTypes' /\ \A m \in Lives : DownShape(m)'
      BY <1>0, <3>1 DEF StoreTypes, DownShape
    <3>3. \A d \in Calls : Same(d)
      BY <3>1 DEF Same
    <3>. QED
      BY <1>0, <3>2, <3>3, SameInv
  <2>2. CASE Disconnect
    <3>1. owner.on /\ owner.life \in Lives /\ down[owner.life].pc = "none"
      BY <1>0, <2>2 DEF Disconnect, OwnerInv
    <3>. QED
      BY <1>5, <2>2, <3>1 DEF Disconnect
  <2>3. ASSUME NEW l \in Lives, TeardownLooks(l) PROVE <1>6!:
    <3>1. PICK pc \in {"done", "clean"} : down' = [down EXCEPT ![l].pc = pc]
      BY <2>3 DEF TeardownLooks
    <3>. QED
      BY <1>5, <2>3, <3>1 DEF TeardownLooks
  <2>4. ASSUME NEW l \in Lives, TeardownDrains(l) PROVE <1>6!:
    <3>1. StoreTypes' /\ (\A d \in Calls : CallInv(d)')
      BY <1>0, <2>4, DrainsStep
    <3>2. down'[l].pc = "stop" /\ \A m \in Lives \ {l} : down'[m] = down[m]
      BY <1>0, <2>4 DEF TeardownDrains, StoreTypes
    <3>. QED
      BY <1>0, <3>1, <3>2 DEF DownShape
  <2>5. ASSUME NEW l \in Lives, TeardownStops(l) PROVE <1>6!:
    <3>1. StoreTypes' /\ (\A d \in Calls : CallInv(d)')
      BY <1>0, <2>5, StopsStep
    <3>2. /\ down'[l].runs = {} /\ down'[l].handles = {}
          /\ \A m \in Lives \ {l} : down'[m] = down[m]
      BY <1>0, <2>5 DEF TeardownStops, StoreTypes
    <3>. QED
      BY <1>0, <3>1, <3>2 DEF DownShape
  <2>. QED
    BY <2>1, <2>2, <2>3, <2>4, <2>5 DEF Teardown
<1>. QED
  BY <1>1, <1>4, <1>6 DEF Inv, Shapes

LEMMA InitInv == Init => Inv
<1>. SUFFICES ASSUME Init PROVE Inv
  OBVIOUS
<1>. USE Bounds
<1>1. /\ owner \in [kind : {"http", "ipc"}, on : {FALSE}, life : {0}]
      /\ down = [l \in Lives |-> [pc |-> "none", runs |-> {}, handles |-> {}]]
      /\ torn = FALSE
      /\ call = [c \in Calls |-> [pc |-> "idle", path |-> "local"]]
      /\ rec = [c \in Calls |-> NoRecord]
      /\ exec = [c \in Calls |-> [pc |-> "none", n |-> 1]]
      /\ run = [r \in Runs |-> "none"]
      /\ op = [o \in Ops |-> NoOp]
      /\ asked = 0 /\ excused = {} /\ drained = {}
  BY DEF Init
<1>2. /\ \A l \in Lives : down[l].pc = "none" /\ down[l].runs = {} /\ down[l].handles = {}
      /\ \A c \in Calls : /\ call[c].pc = "idle" /\ call[c].path = "local" /\ rec[c] = NoRecord
                          /\ exec[c] = [pc |-> "none", n |-> 1]
                          /\ exec[c].pc = "none" /\ exec[c].n = 1
                          /\ run[<<c, 1>>] = "none" /\ run[<<c, 2>>] = "none"
      /\ \A o \in Ops : op[o] = NoOp
  BY <1>1
<1>3. StoreTypes
  <2>1. [pc |-> "none", runs |-> {}, handles |-> {}] \in Downs
    BY DEF Downs
  <2>2. [pc |-> "idle", path |-> "local"] \in CallRecs /\ [pc |-> "none", n |-> 1] \in Execs
    BY DEF CallRecs, Execs
  <2>3. "none" \in RunStates
    BY DEF RunStates
  <2>. QED
    BY <1>1, <2>1, <2>2, <2>3, NoRecordType, NoOpType DEF StoreTypes
<1>4. OwnerTypes
  <2>1. 0 \in Numbers /\ 0 \in 0..MaxOps
    BY DEF Numbers
  <2>2. owner \in [kind : {"http", "ipc"}, on : BOOLEAN, life : Numbers]
    BY <1>1, <2>1
  <2>. QED
    BY <1>1, <2>1, <2>2 DEF OwnerTypes
<1>5. (\A o \in Ops : OpShape(o)) /\ (\A l \in Lives : DownShape(l))
  BY <1>2, NoOpType DEF OpShape, DownShape
<1>6. OwnerInv
  BY <1>1, <1>2, NoRecordType DEF OwnerInv, Quiet, Live, Passed
<1>7. ASSUME NEW c \in Calls PROVE CallInv(c)
  <2>1. \A o \in Ops : op[o].call # c /\ op[o].pc = "idle"
    BY <1>2, NoOpType
  <2>2. FreshInv(c) /\ PathInv(c) /\ ServerInv(c)
    BY <1>2, <2>1 DEF FreshInv, PathInv, ServerInv, Active
  <2>3. RecInv(c) /\ HandleInv(c)
    BY <1>2, NoRecordType DEF RecInv, HandleInv, Alive
  <2>4. RunInv(c, 1) /\ RunInv(c, 2) /\ \A l \in Lives : StopInv(l, c)
    BY <1>2 DEF RunInv, StopInv, Active
  <2>. QED
    BY <2>1, <2>2, <2>3, <2>4 DEF CallInv
<1>. QED
  BY <1>3, <1>4, <1>5, <1>6, <1>7 DEF Inv, Shapes

LEMMA NextInv == Inv /\ [Next]_vars => Inv'
<1>. SUFFICES ASSUME Inv, [Next]_vars PROVE Inv'
  OBVIOUS
<1>1. CASE Next
  BY <1>1, OwnerSteps, CallSteps, OpSteps DEF Next
<1>2. CASE UNCHANGED vars
  <2>1. UNCHANGED <<owner, down, torn, call, rec, exec, run, op, asked, excused, drained>>
    BY <1>2 DEF vars
  <2>2. Shapes'
    BY <2>1 DEF Inv, Shapes, StoreTypes, OwnerTypes, OpShape, DownShape
  <2>3. OwnerInv'
    BY <2>1, OwnerKept DEF Inv, Moves
  <2>4. \A c \in Calls : Same(c)
    BY <2>1 DEF Same
  <2>5. \A c \in Calls : CallInv(c)'
    BY <2>4, SameInv DEF Inv, Shapes
  <2>. QED
    BY <2>2, <2>3, <2>5 DEF Inv
<1>. QED
  BY <1>1, <1>2

\* In every state of the task routing: a record refers to the run its future waits for, a
\* pending cancel waits for a future that has sent nothing yet or not recorded it, a cancel
\* or a teardown on its way holds what its record held, and once the owner's teardown is
\* through a create that passed the probe finds the tombstone.
THEOREM TasksInvariant == Spec => []Inv
BY InitInv, NextInv, PTL DEF Spec

\* Once an owner is gone and its teardown has run it has no task (cleanup_owner and
\* enqueue_tool_task's ordering argument), for any number of calls and of lives.
THEOREM OutlivesNone == Spec => []NothingOutlivesOwner
<1>1. Inv => NothingOutlivesOwner
  <2>. SUFFICES ASSUME Inv PROVE NothingOutlivesOwner
    OBVIOUS
  <2>1. {0, 1, 2} = 0..2
    OBVIOUS
  <2>2. TypeOK
    <3>1. StoreTypes /\ OwnerTypes /\ OwnerInv
      BY DEF Inv, Shapes
    <3>2. rec \in [Calls -> [on : BOOLEAN, up : 0..2, handle : BOOLEAN, pend : BOOLEAN,
                         status : {"working", "completed", "failed", "cancelled"},
                         result : BOOLEAN, life : 0..MaxLife]]
      BY <2>1, <3>1, Zenon DEF StoreTypes, Recs, Numbers
    <3>3. op \in [Ops -> [pc : {"idle", "tell", "abort", "ask", "apply"},
                      kind : {"cancel", "get", "result"}, call : Calls \cup {NoCall}, up : 0..2,
                      handle : BOOLEAN, seen : {"working", "completed", "cancelled"}]]
      BY <2>1, <3>1, Zenon DEF StoreTypes, OpRecs
    <3>4. torn => Guarded # {}
      BY <3>1 DEF OwnerInv
    <3>. QED
      BY <3>1, <3>2, <3>3, <3>4, Zenon
      DEF TypeOK, StoreTypes, OwnerTypes, CallRecs, Execs, Downs, RunStates, Numbers
  <2>3. Quiet => Live = {}
    BY DEF Inv, OwnerInv
  <2>. QED
    BY <2>2, <2>3 DEF NothingOutlivesOwner, Quiet
<1>. QED
  BY <1>1, TasksInvariant, PTL

\* No run goes on at the server unattended, and no future waits that nobody can stop.
THEOREM AlwaysAnswerable == Spec => []Answerable
<1>1. Inv => Answerable
  <2>. SUFFICES ASSUME Inv PROVE Answerable
    OBVIOUS
  <2>1. ASSUME NEW r \in Runs, run[r] \in {"asked", "running"}
        PROVE  Answers(r[1], r[2]) \/ r[1] \in excused
    <3>1. PICK c \in Calls, n \in {1, 2} : r = <<c, n>>
      BY DEF Runs
    <3>2. RunInv(c, n)
      BY DEF Inv, CallInv
    <3>3. r[1] = c /\ r[2] = n
      BY <3>1
    <3>. QED
      BY <2>1, <3>1, <3>2, <3>3 DEF RunInv, Active
  <2>2. ASSUME NEW c \in Calls, exec[c].pc = "wait"
        PROVE  \/ rec[c].on /\ rec[c].handle
               \/ \E l \in Lives : c \in down[l].handles
               \/ \E o \in Ops : op[o].pc # "idle" /\ op[o].call = c /\ op[o].handle
               \/ c \in excused
    BY <2>2 DEF Inv, CallInv, HandleInv, Alive
  <2>. QED
    BY <2>1, <2>2 DEF Answerable
<1>. QED
  BY <1>1, TasksInvariant, PTL

\* A create gives a record only to a call that has none.
LEMMA CreateMoves ==
  ASSUME Inv, NEW c \in Calls,
         \/ \E path \in {"local", "native"} : Arrive(c, path)
         \/ AnotherCall(c) \/ CallerHangsUp(c) \/ Create(c) \/ Hears(c)
  PROVE  \A d \in Calls : rec'[d] = rec[d] \/ ~rec[d].on
<1>1. rec' = rec \/ (call[c].pc \in Unrecorded /\ \A d \in Calls \ {c} : rec'[d] = rec[d])
  <2>1. rec' = rec \/ CreateLocal(c) \/ CreateNative(c)
    BY DEF Arrive, AnotherCall, CallerHangsUp, Create, Hears, BeginCreate, Probe, Return, SendNative,
           NativeTimesOut, ReaperGivesUp, NativeAnswered, NativeRefused, NativeLost, ReaperCancels
  <2>2. CreateLocal(c) \/ CreateNative(c) => call[c].pc \in Unrecorded
    BY DEF CreateLocal, CreateNative, Unrecorded, Before
  <2>3. OnlyRec(c)
    BY CreateStep DEF Inv, Shapes, Only
  <2>. QED
    BY <2>1, <2>2, <2>3 DEF OnlyRec
<1>2. call[c].pc \in Unrecorded => ~rec[c].on
  BY NoRecordType DEF Inv, CallInv, FreshInv
<1>. QED
  BY <1>1, <1>2

\* What a step does to a record that has ended.
LEMMA EndedStep ==
  ASSUME Inv, Next, NEW c \in Calls, rec'[c].on, rec[c].on, is_terminal(rec[c].status),
         rec'[c].status # rec[c].status
  PROVE  rec'[c].status = "completed" /\ rec'[c].result
<1>0. StoreTypes /\ \A o \in Ops : OpShape(o)
  BY DEF Inv, Shapes
<1>1. CASE rec' = rec
  BY <1>1
<1>2. CASE \A d \in Calls : Moves(d)
  BY <1>2 DEF Moves
<1>3. CASE \A d \in Calls : rec'[d] = rec[d] \/ ~rec[d].on
  BY <1>3
<1>4. CASE Register \/ Disconnect \/ \E l \in Lives : Teardown(l)
  <2>1. rec' = rec \/ rec' = [d \in Calls |-> NoRecord]
    BY <1>4 DEF Register, Disconnect, Teardown, TeardownLooks, TeardownDrains, TeardownStops
  <2>. QED
    BY <1>1, <2>1, NoRecordType
<1>5. ASSUME NEW d \in Calls,
             \/ \E path \in {"local", "native"} : Arrive(d, path)
             \/ AnotherCall(d) \/ CallerHangsUp(d) \/ Create(d) \/ Hears(d)
      PROVE  rec'[c].status = "completed" /\ rec'[c].result
  BY <1>3, <1>5, CreateMoves
<1>6. ASSUME NEW d \in Calls, Execute(d) \/ Forget(d) \/ Expire(d)
      PROVE  rec'[c].status = "completed" /\ rec'[c].result
  BY <1>0, <1>2, <1>6, ExecuteMoves, DropMoves
<1>7. ASSUME NEW d \in Calls,
             \/ ServerCreates(d) \/ \E n \in {1, 2} : ServerEnds(d, n)
             \/ \E n \in {1, 2}, how \in {"lost", "unsent"} : ConnectionDrops(d, n, how)
      PROVE  rec'[c].status = "completed" /\ rec'[c].result
  BY <1>1, <1>7 DEF ServerCreates, ServerEnds, ConnectionDrops
<1>8. ASSUME NEW o \in Ops, Request(o) PROVE rec'[c].status = "completed" /\ rec'[c].result
  <2>1. op[o].pc # "idle"
    BY <1>8 DEF Request, CancelTells, CancelAborts, CancelHangsUp, ServerReplies, ApplyReply
  <2>2. op[o].call \in Calls
    BY <1>0, <2>1 DEF OpShape
  <2>. QED
    BY <1>0, <1>2, <1>8, <2>2, RequestMoves
<1>9. ASSUME NEW o \in Ops, NEW d \in Calls,
             MarkCancelled(o, d) \/ \E kind \in {"get", "result"} : AskServer(o, d, kind)
      PROVE  rec'[c].status = "completed" /\ rec'[c].result
  BY <1>0, <1>1, <1>2, <1>9, MarkMoves DEF AskServer
<1>. QED
  BY <1>4, <1>5, <1>6, <1>7, <1>8, <1>9 DEF Next

\* A task that has ended changes only to take the result the server sent, and one that is
\* completed has its result or the reference to fetch it with.
THEOREM ResultKept == Spec => EndedKeepsResult
<1>1. ASSUME Inv, Inv', [Next]_vars
      PROVE  [\A c \in Calls : rec'[c].on =>
                 /\ rec[c].on /\ is_terminal(rec[c].status) /\ rec'[c].status # rec[c].status
                      => rec'[c].status = "completed" /\ rec'[c].result
                 /\ rec'[c].status = "completed" => rec'[c].result \/ rec'[c].up # 0]_vars
  <2>1. CASE UNCHANGED vars
    BY <2>1
  <2>2. CASE Next
    <3>1. \A c \in Calls : rec'[c].on /\ rec'[c].status = "completed" => rec'[c].result \/ rec'[c].up # 0
      BY <1>1 DEF Inv, CallInv, RecInv
    <3>2. \A c \in Calls : rec'[c].on /\ rec[c].on /\ is_terminal(rec[c].status)
                             /\ rec'[c].status # rec[c].status
                           => rec'[c].status = "completed" /\ rec'[c].result
      BY <1>1, <2>2, EndedStep
    <3>. QED
      BY <3>1, <3>2
  <2>. QED
    BY <1>1, <2>1, <2>2
<1>. QED
  BY <1>1, TasksInvariant, PTL DEF Spec, EndedKeepsResult

=============================================================================
