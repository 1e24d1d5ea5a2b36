-------------------------- MODULE CatalogRefreshProofs --------------------------
(***************************************************************************)
(* Proofs about CatalogRefresh, for any number of callers, families, calls *)
(* and catalog changes: passes do not overlap, no waiter is left without a *)
(* notifier, and refresh_tools implements RefreshContract.                 *)
(***************************************************************************)
EXTENDS CatalogRefresh, TLAPS

\* TypeOK in two parts: the Boolean variables, and the others.
Flags == trailing \in BOOLEAN /\ woken \in [Callers -> BOOLEAN]

Shapes ==
    /\ upstream \in Nat
    /\ lastGood \in [Families -> Nat] /\ published \in [Families -> Nat]
    /\ carried \subseteq Families
    /\ availability \in {"healthy", "degraded"}
    /\ completed \in Nat /\ running \in Nat
    /\ pc \in [Callers -> PcValues]
    /\ target \in [Callers -> Nat] /\ leading \in [Callers -> Nat]
    /\ unread \in [Callers -> SUBSET Families]
    /\ missed \in [Callers -> SUBSET Families]
    /\ got \in [Callers -> [Families -> Nat]]
    /\ asked \in [Callers -> Nat]
    /\ calls \in Nat

LEMMA TypeParts == TypeOK <=> Flags /\ Shapes
  BY Zenon DEF TypeOK, Flags, Shapes

-----------------------------------------------------------------------------
(* A call's entry and a pass's end, branch by branch. *)

AskRunning(c) ==
    /\ running # None
    /\ pc[c] \in {"idle", "done"} /\ trailing'
    /\ calls' = calls + 1
    /\ asked' = [asked EXCEPT ![c] = upstream]
    /\ target' = [target EXCEPT ![c] = running + 1]
    /\ pc' = [pc EXCEPT ![c] = "arm"]
    /\ UNCHANGED <<upstream, lastGood, published, carried, availability, woken,
                   completed, running, leading, unread, got, missed>>

AskFree(c) ==
    /\ running = None
    /\ pc[c] \in {"idle", "done"}
    /\ calls' = calls + 1
    /\ asked' = [asked EXCEPT ![c] = upstream]
    /\ running' = completed + 1
    /\ target' = [target EXCEPT ![c] = completed + 1]
    /\ leading' = [leading EXCEPT ![c] = completed + 1]
    /\ pc' = [pc EXCEPT ![c] = "read"]
    /\ unread' = [unread EXCEPT ![c] = Families]
    /\ missed' = [missed EXCEPT ![c] = {}]
    /\ got' = [got EXCEPT ![c] = NothingRead]
    /\ UNCHANGED <<upstream, lastGood, published, carried, availability, woken,
                   completed, trailing>>

LEMMA AskBranches == ASSUME NEW c \in Callers, Ask(c) PROVE AskRunning(c) \/ AskFree(c)
<1>1. CASE AskWhileRunning(c)
  BY <1>1, Zenon DEF Ask, AskWhileRunning, AskRunning, catalog, pass
<1>2. CASE AskWhileFree(c)
  BY <1>2, Zenon DEF Ask, AskWhileFree, AskFree, BeginPass, catalog
<1>. QED
  BY <1>1, <1>2 DEF Ask

PassEnds(c) ==
    /\ pc[c] = "sweep" /\ trailing' = FALSE
    /\ completed' = leading[c]
    /\ pc' = [pc EXCEPT ![c] = "notify"]
    /\ unread' = [unread EXCEPT ![c] = {}]
    /\ missed' = [missed EXCEPT ![c] = {}]
    /\ got' = [got EXCEPT ![c] = NothingRead]
    /\ UNCHANGED <<upstream, lastGood, published, carried, availability,
                   target, woken, asked, calls>>

CompleteLeads(c) ==
    /\ trailing /\ PassEnds(c)
    /\ running' = leading[c] + 1
    /\ leading' = [leading EXCEPT ![c] = leading[c] + 1]

CompleteEnds(c) ==
    /\ ~trailing /\ PassEnds(c)
    /\ running' = None
    /\ leading' = [leading EXCEPT ![c] = None]

LEMMA CompleteBranches ==
  ASSUME NEW c \in Callers, Complete(c) PROVE CompleteLeads(c) \/ CompleteEnds(c)
<1>1. PassEnds(c)
  BY Zenon DEF Complete, PassEnds, DropPass, catalog
<1>. QED
  BY <1>1, Zenon DEF Complete, CompleteLeads, CompleteEnds

-----------------------------------------------------------------------------
(* Types. *)

\* Every step keeps the Boolean variables Boolean.
LEMMA FlagsStep == Flags /\ [Next]_vars => Flags'
<1>. SUFFICES ASSUME Flags, [Next]_vars PROVE Flags'
  OBVIOUS
<1>1. CASE Change
  BY <1>1
     DEF Change, Flags, catalog, coord, pass
<1>2. ASSUME NEW c \in Callers, AskRunning(c) PROVE Flags'
  BY <1>2, Zenon
     DEF AskRunning, Flags
<1>3. ASSUME NEW c \in Callers, AskFree(c) PROVE Flags'
  BY <1>3, Zenon
     DEF AskFree, Flags
<1>4. ASSUME NEW c \in Callers, ReadTools(c) PROVE Flags'
  BY <1>4
     DEF ReadTools, Flags, catalog, coord, pass
<1>5. ASSUME NEW c \in Callers, NEW f \in Families, ListFresh(c, f) PROVE Flags'
  BY <1>5
     DEF ListFresh, Flags, catalog, coord, pass
<1>6. ASSUME NEW c \in Callers, NEW f \in Families, ListUnavailable(c, f) PROVE Flags'
  BY <1>6
     DEF ListUnavailable, Flags, catalog, coord, pass
<1>7. ASSUME NEW c \in Callers, RecordAvailability(c) PROVE Flags'
  BY <1>7
     DEF RecordAvailability, Flags, catalog, coord, pass
<1>8. ASSUME NEW c \in Callers, PublishSnapshot(c) PROVE Flags'
  BY <1>8
     DEF PublishSnapshot, Flags, catalog, coord, pass
<1>9. ASSUME NEW c \in Callers, CompleteLeads(c) PROVE Flags'
  BY <1>9, Zenon
     DEF CompleteLeads, PassEnds, Flags
<1>10. ASSUME NEW c \in Callers, CompleteEnds(c) PROVE Flags'
  BY <1>10, Zenon
     DEF CompleteEnds, PassEnds, Flags
<1>11. ASSUME NEW c \in Callers, NotifyAndLead(c) PROVE Flags'
  BY <1>11, Zenon
     DEF NotifyAndLead, WakeWaiters, BeginPass, Flags, catalog, coord, pass
<1>12. ASSUME NEW c \in Callers, NotifyAndReturn(c) PROVE Flags'
  BY <1>12, Zenon
     DEF NotifyAndReturn, WakeWaiters, Flags, catalog, coord, pass
<1>13. ASSUME NEW c \in Callers, Arm(c) PROVE Flags'
  BY <1>13, Zenon
     DEF Arm, Flags, catalog, coord, pass
<1>14. ASSUME NEW c \in Callers, CheckSatisfied(c) PROVE Flags'
  BY <1>14
     DEF CheckSatisfied, Flags, catalog, coord, pass
<1>15. ASSUME NEW c \in Callers, CheckTakesOver(c) PROVE Flags'
  BY <1>15
     DEF CheckTakesOver, BeginPass, Flags, catalog, coord, pass
<1>16. ASSUME NEW c \in Callers, CheckMustWait(c) PROVE Flags'
  BY <1>16
     DEF CheckMustWait, Flags, catalog, coord, pass
<1>17. ASSUME NEW c \in Callers, Wake(c) PROVE Flags'
  BY <1>17, Zenon
     DEF Wake, Flags, catalog, coord, pass
<1>18. ASSUME NEW c \in Callers, CancelLeader(c) PROVE Flags'
  BY <1>18
     DEF CancelLeader, DropPass, Flags, catalog, coord, pass
<1>19. ASSUME NEW c \in Callers, DropNotifies(c) PROVE Flags'
  BY <1>19, Zenon
     DEF DropNotifies, WakeWaiters, Flags, catalog, coord, pass
<1>20. ASSUME NEW c \in Callers, CancelWaiter(c) PROVE Flags'
  BY <1>20
     DEF CancelWaiter, Flags, catalog, coord, pass
<1>21. CASE UNCHANGED vars
  BY <1>21
     DEF Flags, vars, catalog, coord, pass
<1>. QED
  BY <1>1, <1>2, <1>3, <1>4, <1>5, <1>6, <1>7, <1>8, <1>9, <1>10, <1>11,
     <1>12, <1>13, <1>14, <1>15, <1>16, <1>17, <1>18, <1>19, <1>20, <1>21,
     AskBranches, CompleteBranches DEF Next, Progress

\* Every step keeps the types of the other variables.
LEMMA ShapesStep == Shapes /\ [Next]_vars => Shapes'
<1>. SUFFICES ASSUME Shapes, [Next]_vars PROVE Shapes'
  OBVIOUS
<1>. USE ConstantsAssumption
<1>1. CASE Change
  BY <1>1
     DEF Change, Shapes, PcValues, PassSteps, None, NothingRead, catalog,
         coord, pass
<1>2. ASSUME NEW c \in Callers, AskRunning(c) PROVE Shapes'
  BY <1>2
     DEF AskRunning, Shapes, PcValues, PassSteps, None, NothingRead
<1>3. ASSUME NEW c \in Callers, AskFree(c) PROVE Shapes'
  BY <1>3
     DEF AskFree, Shapes, PcValues, PassSteps, None, NothingRead
<1>4. ASSUME NEW c \in Callers, ReadTools(c) PROVE Shapes'
  BY <1>4
     DEF ReadTools, Shapes, PcValues, PassSteps, None, NothingRead, catalog,
         coord, pass
<1>5. ASSUME NEW c \in Callers, NEW f \in Families, ListFresh(c, f) PROVE Shapes'
  BY <1>5
     DEF ListFresh, Shapes, PcValues, PassSteps, None, NothingRead, catalog,
         coord, pass
<1>6. ASSUME NEW c \in Callers, NEW f \in Families, ListUnavailable(c, f) PROVE Shapes'
  BY <1>6
     DEF ListUnavailable, Shapes, PcValues, PassSteps, None, NothingRead,
         catalog, coord, pass
<1>7. ASSUME NEW c \in Callers, RecordAvailability(c) PROVE Shapes'
  BY <1>7
     DEF RecordAvailability, Shapes, PcValues, PassSteps, None, NothingRead,
         catalog, coord, pass
<1>8. ASSUME NEW c \in Callers, PublishSnapshot(c) PROVE Shapes'
  BY <1>8
     DEF PublishSnapshot, Shapes, PcValues, PassSteps, None, NothingRead,
         catalog, coord, pass
<1>9. ASSUME NEW c \in Callers, CompleteLeads(c) PROVE Shapes'
  BY <1>9
     DEF CompleteLeads, PassEnds, Shapes, PcValues, PassSteps, None,
         NothingRead
<1>10. ASSUME NEW c \in Callers, CompleteEnds(c) PROVE Shapes'
  BY <1>10
     DEF CompleteEnds, PassEnds, Shapes, PcValues, PassSteps, None,
         NothingRead
<1>11. ASSUME NEW c \in Callers, NotifyAndLead(c) PROVE Shapes'
  BY <1>11
     DEF NotifyAndLead, WakeWaiters, BeginPass, Shapes, PcValues, PassSteps,
         None, NothingRead, catalog, coord, pass
<1>12. ASSUME NEW c \in Callers, NotifyAndReturn(c) PROVE Shapes'
  BY <1>12
     DEF NotifyAndReturn, WakeWaiters, Shapes, PcValues, PassSteps, None,
         NothingRead, catalog, coord, pass
<1>13. ASSUME NEW c \in Callers, Arm(c) PROVE Shapes'
  BY <1>13
     DEF Arm, Shapes, PcValues, PassSteps, None, NothingRead, catalog, coord,
         pass
<1>14. ASSUME NEW c \in Callers, CheckSatisfied(c) PROVE Shapes'
  BY <1>14
     DEF CheckSatisfied, Shapes, PcValues, PassSteps, None, NothingRead,
         catalog, coord, pass
<1>15. ASSUME NEW c \in Callers, CheckTakesOver(c) PROVE Shapes'
  BY <1>15
     DEF CheckTakesOver, BeginPass, Shapes, PcValues, PassSteps, None,
         NothingRead, catalog, coord, pass
<1>16. ASSUME NEW c \in Callers, CheckMustWait(c) PROVE Shapes'
  BY <1>16
     DEF CheckMustWait, Shapes, PcValues, PassSteps, None, NothingRead,
         catalog, coord, pass
<1>17. ASSUME NEW c \in Callers, Wake(c) PROVE Shapes'
  BY <1>17
     DEF Wake, Shapes, PcValues, PassSteps, None, NothingRead, catalog, coord,
         pass
<1>18. ASSUME NEW c \in Callers, CancelLeader(c) PROVE Shapes'
  BY <1>18
     DEF CancelLeader, DropPass, Shapes, PcValues, PassSteps, None,
         NothingRead, catalog, coord, pass
<1>19. ASSUME NEW c \in Callers, DropNotifies(c) PROVE Shapes'
  BY <1>19
     DEF DropNotifies, WakeWaiters, Shapes, PcValues, PassSteps, None,
         NothingRead, catalog, coord, pass
<1>20. ASSUME NEW c \in Callers, CancelWaiter(c) PROVE Shapes'
  BY <1>20
     DEF CancelWaiter, Shapes, PcValues, PassSteps, None, NothingRead,
         catalog, coord, pass
<1>21. CASE UNCHANGED vars
  BY <1>21
     DEF Shapes, PcValues, PassSteps, None, NothingRead, vars, catalog, coord,
         pass
<1>. QED
  BY <1>1, <1>2, <1>3, <1>4, <1>5, <1>6, <1>7, <1>8, <1>9, <1>10, <1>11,
     <1>12, <1>13, <1>14, <1>15, <1>16, <1>17, <1>18, <1>19, <1>20, <1>21,
     AskBranches, CompleteBranches DEF Next, Progress

-----------------------------------------------------------------------------
(* The inductive invariant. *)

\* c holds the lead: its pass runs, or it is about to begin the trailing one.
Leads(c) == pc[c] \in PassSteps \/ (pc[c] = "notify" /\ leading[c] # None)

\* running_generation is the generation of the one caller that leads.
CoordInv ==
    /\ running = None \/ running = completed + 1
    /\ \A c \in Callers : Leads(c) => running = completed + 1 /\ leading[c] = completed + 1
    /\ \A c, d \in Callers : Leads(c) /\ Leads(d) => c = d
    /\ running # None => \E c \in Callers : Leads(c)

\* Between its last listing and its end a pass has read every family, and the
\* availability it recorded is the one of its own listings.
AvailInv ==
    \A c \in Callers :
        /\ pc[c] \in {"prune", "sweep"} =>
               unread[c] = {} /\ (availability = "degraded" <=> missed[c] # {})
        /\ pc[c] = "sweep" => published = got[c] /\ carried = missed[c]

\* Versions never run ahead of their source, nor behind what is published.
VersionInv ==
    /\ \A f \in Families : lastGood[f] <= upstream /\ published[f] <= upstream
    /\ \A f \in Families \ {Tools} : published[f] <= lastGood[f]
    /\ \A c \in Callers : asked[c] <= upstream
    /\ \A c \in Callers, f \in Families : got[c][f] <= upstream
    /\ \A c \in Callers, f \in Families \ {Tools} : got[c][f] <= lastGood[f]
    /\ \A c \in Callers, f \in Families :
           pc[c] \in PassSteps /\ f \notin unread[c] => got[c][f] >= published[f]

\* A call that has begun and has neither returned nor been dropped.
Active(c) == pc[c] \notin {"idle", "drop", "done"}

\* An open call waits for the next generation, or for the one after it, which
\* the trailing flag then guarantees; it returns once that one is complete.
TargetInv ==
    /\ \A c \in Callers : Active(c) =>
           target[c] <= completed + 1 \/ (trailing /\ target[c] <= completed + 2)
    /\ \A c \in Callers : pc[c] = "notify" /\ leading[c] = None => completed >= target[c]

\* What a pass has read, and what is published, is new enough for the calls
\* whose generation it is, or has been.
FreshInv ==
    /\ \A c \in Callers, f \in Families :
           Active(c) /\ completed >= target[c] /\ f \notin carried => published[f] >= asked[c]
    /\ \A c, d \in Callers, f \in Families :
           pc[d] \in PassSteps /\ Active(c) /\ target[c] <= leading[d]
               /\ f \notin unread[d] /\ f \notin missed[d] => got[d][f] >= asked[c]

IInv == Flags /\ Shapes /\ CoordInv /\ AvailInv /\ SomeoneWillNotify
            /\ VersionInv /\ TargetInv /\ FreshInv

-----------------------------------------------------------------------------
(* Each part of the invariant is preserved. *)

\* The lead has one holder, through completions, take-overs and cancellations.
LEMMA CoordStep == Shapes /\ CoordInv /\ [Next]_vars => CoordInv'
<1>. SUFFICES ASSUME Shapes, CoordInv, [Next]_vars PROVE CoordInv'
  OBVIOUS
<1>1. CASE Change
  BY <1>1
     DEF Change, CoordInv, Shapes, Leads, None, PassSteps, PcValues, catalog,
         coord, pass
<1>2. ASSUME NEW c \in Callers, AskRunning(c) PROVE CoordInv'
  BY <1>2
     DEF AskRunning, CoordInv, Shapes, Leads, None, PassSteps, PcValues
<1>3. ASSUME NEW c \in Callers, AskFree(c) PROVE CoordInv'
  BY <1>3
     DEF AskFree, CoordInv, Shapes, Leads, None, PassSteps, PcValues
<1>4. ASSUME NEW c \in Callers, ReadTools(c) PROVE CoordInv'
  BY <1>4
     DEF ReadTools, CoordInv, Shapes, Leads, None, PassSteps, PcValues,
         catalog, coord, pass
<1>5. ASSUME NEW c \in Callers, NEW f \in Families, ListFresh(c, f) PROVE CoordInv'
  BY <1>5
     DEF ListFresh, CoordInv, Shapes, Leads, None, PassSteps, PcValues,
         catalog, coord, pass
<1>6. ASSUME NEW c \in Callers, NEW f \in Families, ListUnavailable(c, f) PROVE CoordInv'
  BY <1>6
     DEF ListUnavailable, CoordInv, Shapes, Leads, None, PassSteps, PcValues,
         catalog, coord, pass
<1>7. ASSUME NEW c \in Callers, RecordAvailability(c) PROVE CoordInv'
  BY <1>7
     DEF RecordAvailability, CoordInv, Shapes, Leads, None, PassSteps,
         PcValues, catalog, coord, pass
<1>8. ASSUME NEW c \in Callers, PublishSnapshot(c) PROVE CoordInv'
  BY <1>8
     DEF PublishSnapshot, CoordInv, Shapes, Leads, None, PassSteps, PcValues,
         catalog, coord, pass
<1>9. ASSUME NEW c \in Callers, CompleteLeads(c) PROVE CoordInv'
  BY <1>9
     DEF CompleteLeads, PassEnds, CoordInv, Shapes, Leads, None, PassSteps,
         PcValues
<1>10. ASSUME NEW c \in Callers, CompleteEnds(c) PROVE CoordInv'
  BY <1>10
     DEF CompleteEnds, PassEnds, CoordInv, Shapes, Leads, None, PassSteps,
         PcValues
<1>11. ASSUME NEW c \in Callers, NotifyAndLead(c) PROVE CoordInv'
  BY <1>11
     DEF NotifyAndLead, WakeWaiters, BeginPass, CoordInv, Shapes, Leads, None,
         PassSteps, PcValues, catalog, coord, pass
<1>12. ASSUME NEW c \in Callers, NotifyAndReturn(c) PROVE CoordInv'
  BY <1>12
     DEF NotifyAndReturn, WakeWaiters, CoordInv, Shapes, Leads, None,
         PassSteps, PcValues, catalog, coord, pass
<1>13. ASSUME NEW c \in Callers, Arm(c) PROVE CoordInv'
  BY <1>13
     DEF Arm, CoordInv, Shapes, Leads, None, PassSteps, PcValues, catalog,
         coord, pass
<1>14. ASSUME NEW c \in Callers, CheckSatisfied(c) PROVE CoordInv'
  BY <1>14
     DEF CheckSatisfied, CoordInv, Shapes, Leads, None, PassSteps, PcValues,
         catalog, coord, pass
<1>15. ASSUME NEW c \in Callers, CheckTakesOver(c) PROVE CoordInv'
  BY <1>15
     DEF CheckTakesOver, BeginPass, CoordInv, Shapes, Leads, None, PassSteps,
         PcValues, catalog, coord, pass
<1>16. ASSUME NEW c \in Callers, CheckMustWait(c) PROVE CoordInv'
  BY <1>16
     DEF CheckMustWait, CoordInv, Shapes, Leads, None, PassSteps, PcValues,
         catalog, coord, pass
<1>17. ASSUME NEW c \in Callers, Wake(c) PROVE CoordInv'
  BY <1>17
     DEF Wake, CoordInv, Shapes, Leads, None, PassSteps, PcValues, catalog,
         coord, pass
<1>18. ASSUME NEW c \in Callers, CancelLeader(c) PROVE CoordInv'
  BY <1>18
     DEF CancelLeader, DropPass, CoordInv, Shapes, Leads, None, PassSteps,
         PcValues, catalog, coord, pass
<1>19. ASSUME NEW c \in Callers, DropNotifies(c) PROVE CoordInv'
  BY <1>19
     DEF DropNotifies, WakeWaiters, CoordInv, Shapes, Leads, None, PassSteps,
         PcValues, catalog, coord, pass
<1>20. ASSUME NEW c \in Callers, CancelWaiter(c) PROVE CoordInv'
  BY <1>20
     DEF CancelWaiter, CoordInv, Shapes, Leads, None, PassSteps, PcValues,
         catalog, coord, pass
<1>21. CASE UNCHANGED vars
  BY <1>21
     DEF CoordInv, Shapes, Leads, None, PassSteps, PcValues, vars, catalog,
         coord, pass
<1>. QED
  BY <1>1, <1>2, <1>3, <1>4, <1>5, <1>6, <1>7, <1>8, <1>9, <1>10, <1>11,
     <1>12, <1>13, <1>14, <1>15, <1>16, <1>17, <1>18, <1>19, <1>20, <1>21,
     AskBranches, CompleteBranches DEF Next, Progress

\* A pass's record of availability stands until the pass ends.
LEMMA AvailStep == Shapes /\ CoordInv /\ AvailInv /\ [Next]_vars => AvailInv'
<1>. SUFFICES ASSUME Shapes, CoordInv, AvailInv, [Next]_vars PROVE AvailInv'
  OBVIOUS
<1>1. CASE Change
  BY <1>1
     DEF Change, CoordInv, AvailInv, Shapes, Leads, None, PassSteps, PcValues,
         catalog, coord, pass
<1>2. ASSUME NEW c \in Callers, AskRunning(c) PROVE AvailInv'
  BY <1>2
     DEF AskRunning, CoordInv, AvailInv, Shapes, Leads, None, PassSteps,
         PcValues
<1>3. ASSUME NEW c \in Callers, AskFree(c) PROVE AvailInv'
  BY <1>3
     DEF AskFree, CoordInv, AvailInv, Shapes, Leads, None, PassSteps, PcValues
<1>4. ASSUME NEW c \in Callers, ReadTools(c) PROVE AvailInv'
  BY <1>4
     DEF ReadTools, CoordInv, AvailInv, Shapes, Leads, None, PassSteps,
         PcValues, catalog, coord, pass
<1>5. ASSUME NEW c \in Callers, NEW f \in Families, ListFresh(c, f) PROVE AvailInv'
  BY <1>5
     DEF ListFresh, CoordInv, AvailInv, Shapes, Leads, None, PassSteps,
         PcValues, catalog, coord, pass
<1>6. ASSUME NEW c \in Callers, NEW f \in Families, ListUnavailable(c, f) PROVE AvailInv'
  BY <1>6
     DEF ListUnavailable, CoordInv, AvailInv, Shapes, Leads, None, PassSteps,
         PcValues, catalog, coord, pass
<1>7. ASSUME NEW c \in Callers, RecordAvailability(c) PROVE AvailInv'
  BY <1>7
     DEF RecordAvailability, CoordInv, AvailInv, Shapes, Leads, None,
         PassSteps, PcValues, catalog, coord, pass
<1>8. ASSUME NEW c \in Callers, PublishSnapshot(c) PROVE AvailInv'
  BY <1>8
     DEF PublishSnapshot, CoordInv, AvailInv, Shapes, Leads, None, PassSteps,
         PcValues, catalog, coord, pass
<1>9. ASSUME NEW c \in Callers, CompleteLeads(c) PROVE AvailInv'
  BY <1>9
     DEF CompleteLeads, PassEnds, CoordInv, AvailInv, Shapes, Leads, None,
         PassSteps, PcValues
<1>10. ASSUME NEW c \in Callers, CompleteEnds(c) PROVE AvailInv'
  BY <1>10
     DEF CompleteEnds, PassEnds, CoordInv, AvailInv, Shapes, Leads, None,
         PassSteps, PcValues
<1>11. ASSUME NEW c \in Callers, NotifyAndLead(c) PROVE AvailInv'
  BY <1>11
     DEF NotifyAndLead, WakeWaiters, BeginPass, CoordInv, AvailInv, Shapes,
         Leads, None, PassSteps, PcValues, catalog, coord, pass
<1>12. ASSUME NEW c \in Callers, NotifyAndReturn(c) PROVE AvailInv'
  BY <1>12
     DEF NotifyAndReturn, WakeWaiters, CoordInv, AvailInv, Shapes, Leads,
         None, PassSteps, PcValues, catalog, coord, pass
<1>13. ASSUME NEW c \in Callers, Arm(c) PROVE AvailInv'
  BY <1>13
     DEF Arm, CoordInv, AvailInv, Shapes, Leads, None, PassSteps, PcValues,
         catalog, coord, pass
<1>14. ASSUME NEW c \in Callers, CheckSatisfied(c) PROVE AvailInv'
  BY <1>14
     DEF CheckSatisfied, CoordInv, AvailInv, Shapes, Leads, None, PassSteps,
         PcValues, catalog, coord, pass
<1>15. ASSUME NEW c \in Callers, CheckTakesOver(c) PROVE AvailInv'
  BY <1>15
     DEF CheckTakesOver, BeginPass, CoordInv, AvailInv, Shapes, Leads, None,
         PassSteps, PcValues, catalog, coord, pass
<1>16. ASSUME NEW c \in Callers, CheckMustWait(c) PROVE AvailInv'
  BY <1>16
     DEF CheckMustWait, CoordInv, AvailInv, Shapes, Leads, None, PassSteps,
         PcValues, catalog, coord, pass
<1>17. ASSUME NEW c \in Callers, Wake(c) PROVE AvailInv'
  BY <1>17
     DEF Wake, CoordInv, AvailInv, Shapes, Leads, None, PassSteps, PcValues,
         catalog, coord, pass
<1>18. ASSUME NEW c \in Callers, CancelLeader(c) PROVE AvailInv'
  BY <1>18
     DEF CancelLeader, DropPass, CoordInv, AvailInv, Shapes, Leads, None,
         PassSteps, PcValues, catalog, coord, pass
<1>19. ASSUME NEW c \in Callers, DropNotifies(c) PROVE AvailInv'
  BY <1>19
     DEF DropNotifies, WakeWaiters, CoordInv, AvailInv, Shapes, Leads, None,
         PassSteps, PcValues, catalog, coord, pass
<1>20. ASSUME NEW c \in Callers, CancelWaiter(c) PROVE AvailInv'
  BY <1>20
     DEF CancelWaiter, CoordInv, AvailInv, Shapes, Leads, None, PassSteps,
         PcValues, catalog, coord, pass
<1>21. CASE UNCHANGED vars
  BY <1>21
     DEF CoordInv, AvailInv, Shapes, Leads, None, PassSteps, PcValues, vars,
         catalog, coord, pass
<1>. QED
  BY <1>1, <1>2, <1>3, <1>4, <1>5, <1>6, <1>7, <1>8, <1>9, <1>10, <1>11,
     <1>12, <1>13, <1>14, <1>15, <1>16, <1>17, <1>18, <1>19, <1>20, <1>21,
     AskBranches, CompleteBranches DEF Next, Progress

\* A caller parks only while somebody leads, and a leader that lets go notifies.
LEMMA NotifyStep == Flags /\ Shapes /\ CoordInv /\ SomeoneWillNotify /\ [Next]_vars => SomeoneWillNotify'
<1>. SUFFICES ASSUME Flags, Shapes, CoordInv, SomeoneWillNotify, [Next]_vars PROVE SomeoneWillNotify'
  OBVIOUS
<1>1. CASE Change
  BY <1>1
     DEF Change, CoordInv, SomeoneWillNotify, Flags, Shapes, Leads, None,
         PassSteps, PcValues, catalog, coord, pass
<1>2. ASSUME NEW c \in Callers, AskRunning(c) PROVE SomeoneWillNotify'
  BY <1>2
     DEF AskRunning, CoordInv, SomeoneWillNotify, Flags, Shapes, Leads, None,
         PassSteps, PcValues
<1>3. ASSUME NEW c \in Callers, AskFree(c) PROVE SomeoneWillNotify'
  BY <1>3
     DEF AskFree, CoordInv, SomeoneWillNotify, Flags, Shapes, Leads, None,
         PassSteps, PcValues
<1>4. ASSUME NEW c \in Callers, ReadTools(c) PROVE SomeoneWillNotify'
  BY <1>4
     DEF ReadTools, CoordInv, SomeoneWillNotify, Flags, Shapes, Leads, None,
         PassSteps, PcValues, catalog, coord, pass
<1>5. ASSUME NEW c \in Callers, NEW f \in Families, ListFresh(c, f) PROVE SomeoneWillNotify'
  BY <1>5
     DEF ListFresh, CoordInv, SomeoneWillNotify, Flags, Shapes, Leads, None,
         PassSteps, PcValues, catalog, coord, pass
<1>6. ASSUME NEW c \in Callers, NEW f \in Families, ListUnavailable(c, f) PROVE SomeoneWillNotify'
  BY <1>6
     DEF ListUnavailable, CoordInv, SomeoneWillNotify, Flags, Shapes, Leads,
         None, PassSteps, PcValues, catalog, coord, pass
<1>7. ASSUME NEW c \in Callers, RecordAvailability(c) PROVE SomeoneWillNotify'
  BY <1>7
     DEF RecordAvailability, CoordInv, SomeoneWillNotify, Flags, Shapes,
         Leads, None, PassSteps, PcValues, catalog, coord, pass
<1>8. ASSUME NEW c \in Callers, PublishSnapshot(c) PROVE SomeoneWillNotify'
  BY <1>8
     DEF PublishSnapshot, CoordInv, SomeoneWillNotify, Flags, Shapes, Leads,
         None, PassSteps, PcValues, catalog, coord, pass
<1>9. ASSUME NEW c \in Callers, CompleteLeads(c) PROVE SomeoneWillNotify'
  BY <1>9
     DEF CompleteLeads, PassEnds, CoordInv, SomeoneWillNotify, Flags, Shapes,
         Leads, None, PassSteps, PcValues
<1>10. ASSUME NEW c \in Callers, CompleteEnds(c) PROVE SomeoneWillNotify'
  BY <1>10
     DEF CompleteEnds, PassEnds, CoordInv, SomeoneWillNotify, Flags, Shapes,
         Leads, None, PassSteps, PcValues
<1>11. ASSUME NEW c \in Callers, NotifyAndLead(c) PROVE SomeoneWillNotify'
  BY <1>11
     DEF NotifyAndLead, WakeWaiters, BeginPass, CoordInv, SomeoneWillNotify,
         Flags, Shapes, Leads, None, PassSteps, PcValues, catalog, coord, pass
<1>12. ASSUME NEW c \in Callers, NotifyAndReturn(c) PROVE SomeoneWillNotify'
  BY <1>12
     DEF NotifyAndReturn, WakeWaiters, CoordInv, SomeoneWillNotify, Flags,
         Shapes, Leads, None, PassSteps, PcValues, catalog, coord, pass
<1>13. ASSUME NEW c \in Callers, Arm(c) PROVE SomeoneWillNotify'
  BY <1>13
     DEF Arm, CoordInv, SomeoneWillNotify, Flags, Shapes, Leads, None,
         PassSteps, PcValues, catalog, coord, pass
<1>14. ASSUME NEW c \in Callers, CheckSatisfied(c) PROVE SomeoneWillNotify'
  BY <1>14
     DEF CheckSatisfied, CoordInv, SomeoneWillNotify, Flags, Shapes, Leads,
         None, PassSteps, PcValues, catalog, coord, pass
<1>15. ASSUME NEW c \in Callers, CheckTakesOver(c) PROVE SomeoneWillNotify'
  BY <1>15
     DEF CheckTakesOver, BeginPass, CoordInv, SomeoneWillNotify, Flags,
         Shapes, Leads, None, PassSteps, PcValues, catalog, coord, pass
<1>16. ASSUME NEW c \in Callers, CheckMustWait(c) PROVE SomeoneWillNotify'
  BY <1>16
     DEF CheckMustWait, CoordInv, SomeoneWillNotify, Flags, Shapes, Leads,
         None, PassSteps, PcValues, catalog, coord, pass
<1>17. ASSUME NEW c \in Callers, Wake(c) PROVE SomeoneWillNotify'
  BY <1>17
     DEF Wake, CoordInv, SomeoneWillNotify, Flags, Shapes, Leads, None,
         PassSteps, PcValues, catalog, coord, pass
<1>18. ASSUME NEW c \in Callers, CancelLeader(c) PROVE SomeoneWillNotify'
  BY <1>18
     DEF CancelLeader, DropPass, CoordInv, SomeoneWillNotify, Flags, Shapes,
         Leads, None, PassSteps, PcValues, catalog, coord, pass
<1>19. ASSUME NEW c \in Callers, DropNotifies(c) PROVE SomeoneWillNotify'
  BY <1>19
     DEF DropNotifies, WakeWaiters, CoordInv, SomeoneWillNotify, Flags,
         Shapes, Leads, None, PassSteps, PcValues, catalog, coord, pass
<1>20. ASSUME NEW c \in Callers, CancelWaiter(c) PROVE SomeoneWillNotify'
  BY <1>20
     DEF CancelWaiter, CoordInv, SomeoneWillNotify, Flags, Shapes, Leads,
         None, PassSteps, PcValues, catalog, coord, pass
<1>21. CASE UNCHANGED vars
  BY <1>21
     DEF CoordInv, SomeoneWillNotify, Flags, Shapes, Leads, None, PassSteps,
         PcValues, vars, catalog, coord, pass
<1>. QED
  BY <1>1, <1>2, <1>3, <1>4, <1>5, <1>6, <1>7, <1>8, <1>9, <1>10, <1>11,
     <1>12, <1>13, <1>14, <1>15, <1>16, <1>17, <1>18, <1>19, <1>20, <1>21,
     AskBranches, CompleteBranches DEF Next, Progress

\* Versions grow from the upstream to the caches to the snapshot.
LEMMA VersionStep == Shapes /\ CoordInv /\ AvailInv /\ VersionInv /\ [Next]_vars => VersionInv'
<1>. SUFFICES ASSUME Shapes, CoordInv, AvailInv, VersionInv, [Next]_vars PROVE VersionInv'
  OBVIOUS
<1>. USE ConstantsAssumption
<1>1. CASE Change
  BY <1>1
     DEF Change, CoordInv, AvailInv, VersionInv, NothingRead, Shapes, Leads,
         None, PassSteps, PcValues, catalog, coord, pass
<1>2. ASSUME NEW c \in Callers, AskRunning(c) PROVE VersionInv'
  BY <1>2
     DEF AskRunning, CoordInv, AvailInv, VersionInv, NothingRead, Shapes,
         Leads, None, PassSteps, PcValues
<1>3. ASSUME NEW c \in Callers, AskFree(c) PROVE VersionInv'
  BY <1>3
     DEF AskFree, CoordInv, AvailInv, VersionInv, NothingRead, Shapes, Leads,
         None, PassSteps, PcValues
<1>4. ASSUME NEW c \in Callers, ReadTools(c) PROVE VersionInv'
  BY <1>4
     DEF ReadTools, CoordInv, AvailInv, VersionInv, NothingRead, Shapes,
         Leads, None, PassSteps, PcValues, catalog, coord, pass
<1>5. ASSUME NEW c \in Callers, NEW f \in Families, ListFresh(c, f) PROVE VersionInv'
  BY <1>5
     DEF ListFresh, CoordInv, AvailInv, VersionInv, NothingRead, Shapes,
         Leads, None, PassSteps, PcValues, catalog, coord, pass
<1>6. ASSUME NEW c \in Callers, NEW f \in Families, ListUnavailable(c, f) PROVE VersionInv'
  BY <1>6
     DEF ListUnavailable, CoordInv, AvailInv, VersionInv, NothingRead, Shapes,
         Leads, None, PassSteps, PcValues, catalog, coord, pass
<1>7. ASSUME NEW c \in Callers, RecordAvailability(c) PROVE VersionInv'
  BY <1>7
     DEF RecordAvailability, CoordInv, AvailInv, VersionInv, NothingRead,
         Shapes, Leads, None, PassSteps, PcValues, catalog, coord, pass
<1>8. ASSUME NEW c \in Callers, PublishSnapshot(c) PROVE VersionInv'
  BY <1>8
     DEF PublishSnapshot, CoordInv, AvailInv, VersionInv, NothingRead, Shapes,
         Leads, None, PassSteps, PcValues, catalog, coord, pass
<1>9. ASSUME NEW c \in Callers, CompleteLeads(c) PROVE VersionInv'
  BY <1>9
     DEF CompleteLeads, PassEnds, CoordInv, AvailInv, VersionInv, NothingRead,
         Shapes, Leads, None, PassSteps, PcValues
<1>10. ASSUME NEW c \in Callers, CompleteEnds(c) PROVE VersionInv'
  BY <1>10
     DEF CompleteEnds, PassEnds, CoordInv, AvailInv, VersionInv, NothingRead,
         Shapes, Leads, None, PassSteps, PcValues
<1>11. ASSUME NEW c \in Callers, NotifyAndLead(c) PROVE VersionInv'
  BY <1>11
     DEF NotifyAndLead, WakeWaiters, BeginPass, CoordInv, AvailInv,
         VersionInv, NothingRead, Shapes, Leads, None, PassSteps, PcValues,
         catalog, coord, pass
<1>12. ASSUME NEW c \in Callers, NotifyAndReturn(c) PROVE VersionInv'
  BY <1>12
     DEF NotifyAndReturn, WakeWaiters, CoordInv, AvailInv, VersionInv,
         NothingRead, Shapes, Leads, None, PassSteps, PcValues, catalog,
         coord, pass
<1>13. ASSUME NEW c \in Callers, Arm(c) PROVE VersionInv'
  BY <1>13
     DEF Arm, CoordInv, AvailInv, VersionInv, NothingRead, Shapes, Leads,
         None, PassSteps, PcValues, catalog, coord, pass
<1>14. ASSUME NEW c \in Callers, CheckSatisfied(c) PROVE VersionInv'
  BY <1>14
     DEF CheckSatisfied, CoordInv, AvailInv, VersionInv, NothingRead, Shapes,
         Leads, None, PassSteps, PcValues, catalog, coord, pass
<1>15. ASSUME NEW c \in Callers, CheckTakesOver(c) PROVE VersionInv'
  BY <1>15
     DEF CheckTakesOver, BeginPass, CoordInv, AvailInv, VersionInv,
         NothingRead, Shapes, Leads, None, PassSteps, PcValues, catalog,
         coord, pass
<1>16. ASSUME NEW c \in Callers, CheckMustWait(c) PROVE VersionInv'
  BY <1>16
     DEF CheckMustWait, CoordInv, AvailInv, VersionInv, NothingRead, Shapes,
         Leads, None, PassSteps, PcValues, catalog, coord, pass
<1>17. ASSUME NEW c \in Callers, Wake(c) PROVE VersionInv'
  BY <1>17
     DEF Wake, CoordInv, AvailInv, VersionInv, NothingRead, Shapes, Leads,
         None, PassSteps, PcValues, catalog, coord, pass
<1>18. ASSUME NEW c \in Callers, CancelLeader(c) PROVE VersionInv'
  BY <1>18
     DEF CancelLeader, DropPass, CoordInv, AvailInv, VersionInv, NothingRead,
         Shapes, Leads, None, PassSteps, PcValues, catalog, coord, pass
<1>19. ASSUME NEW c \in Callers, DropNotifies(c) PROVE VersionInv'
  BY <1>19
     DEF DropNotifies, WakeWaiters, CoordInv, AvailInv, VersionInv,
         NothingRead, Shapes, Leads, None, PassSteps, PcValues, catalog,
         coord, pass
<1>20. ASSUME NEW c \in Callers, CancelWaiter(c) PROVE VersionInv'
  BY <1>20
     DEF CancelWaiter, CoordInv, AvailInv, VersionInv, NothingRead, Shapes,
         Leads, None, PassSteps, PcValues, catalog, coord, pass
<1>21. CASE UNCHANGED vars
  BY <1>21
     DEF CoordInv, AvailInv, VersionInv, NothingRead, Shapes, Leads, None,
         PassSteps, PcValues, vars, catalog, coord, pass
<1>. QED
  BY <1>1, <1>2, <1>3, <1>4, <1>5, <1>6, <1>7, <1>8, <1>9, <1>10, <1>11,
     <1>12, <1>13, <1>14, <1>15, <1>16, <1>17, <1>18, <1>19, <1>20, <1>21,
     AskBranches, CompleteBranches DEF Next, Progress

\* The generation an open call waits for is never more than two ahead.
LEMMA TargetStep == Flags /\ Shapes /\ CoordInv /\ TargetInv /\ [Next]_vars => TargetInv'
<1>. SUFFICES ASSUME Flags, Shapes, CoordInv, TargetInv, [Next]_vars PROVE TargetInv'
  OBVIOUS
<1>1. CASE Change
  BY <1>1
     DEF Change, CoordInv, TargetInv, Active, Flags, Shapes, Leads, None,
         PassSteps, PcValues, catalog, coord, pass
<1>2. ASSUME NEW c \in Callers, AskRunning(c) PROVE TargetInv'
  BY <1>2
     DEF AskRunning, CoordInv, TargetInv, Active, Flags, Shapes, Leads, None,
         PassSteps, PcValues
<1>3. ASSUME NEW c \in Callers, AskFree(c) PROVE TargetInv'
  BY <1>3
     DEF AskFree, CoordInv, TargetInv, Active, Flags, Shapes, Leads, None,
         PassSteps, PcValues
<1>4. ASSUME NEW c \in Callers, ReadTools(c) PROVE TargetInv'
  BY <1>4
     DEF ReadTools, CoordInv, TargetInv, Active, Flags, Shapes, Leads, None,
         PassSteps, PcValues, catalog, coord, pass
<1>5. ASSUME NEW c \in Callers, NEW f \in Families, ListFresh(c, f) PROVE TargetInv'
  BY <1>5
     DEF ListFresh, CoordInv, TargetInv, Active, Flags, Shapes, Leads, None,
         PassSteps, PcValues, catalog, coord, pass
<1>6. ASSUME NEW c \in Callers, NEW f \in Families, ListUnavailable(c, f) PROVE TargetInv'
  BY <1>6
     DEF ListUnavailable, CoordInv, TargetInv, Active, Flags, Shapes, Leads,
         None, PassSteps, PcValues, catalog, coord, pass
<1>7. ASSUME NEW c \in Callers, RecordAvailability(c) PROVE TargetInv'
  BY <1>7
     DEF RecordAvailability, CoordInv, TargetInv, Active, Flags, Shapes,
         Leads, None, PassSteps, PcValues, catalog, coord, pass
<1>8. ASSUME NEW c \in Callers, PublishSnapshot(c) PROVE TargetInv'
  BY <1>8
     DEF PublishSnapshot, CoordInv, TargetInv, Active, Flags, Shapes, Leads,
         None, PassSteps, PcValues, catalog, coord, pass
<1>9. ASSUME NEW c \in Callers, CompleteLeads(c) PROVE TargetInv'
  BY <1>9
     DEF CompleteLeads, PassEnds, CoordInv, TargetInv, Active, Flags, Shapes,
         Leads, None, PassSteps, PcValues
<1>10. ASSUME NEW c \in Callers, CompleteEnds(c) PROVE TargetInv'
  BY <1>10
     DEF CompleteEnds, PassEnds, CoordInv, TargetInv, Active, Flags, Shapes,
         Leads, None, PassSteps, PcValues
<1>11. ASSUME NEW c \in Callers, NotifyAndLead(c) PROVE TargetInv'
  BY <1>11
     DEF NotifyAndLead, WakeWaiters, BeginPass, CoordInv, TargetInv, Active,
         Flags, Shapes, Leads, None, PassSteps, PcValues, catalog, coord, pass
<1>12. ASSUME NEW c \in Callers, NotifyAndReturn(c) PROVE TargetInv'
  BY <1>12
     DEF NotifyAndReturn, WakeWaiters, CoordInv, TargetInv, Active, Flags,
         Shapes, Leads, None, PassSteps, PcValues, catalog, coord, pass
<1>13. ASSUME NEW c \in Callers, Arm(c) PROVE TargetInv'
  BY <1>13
     DEF Arm, CoordInv, TargetInv, Active, Flags, Shapes, Leads, None,
         PassSteps, PcValues, catalog, coord, pass
<1>14. ASSUME NEW c \in Callers, CheckSatisfied(c) PROVE TargetInv'
  BY <1>14
     DEF CheckSatisfied, CoordInv, TargetInv, Active, Flags, Shapes, Leads,
         None, PassSteps, PcValues, catalog, coord, pass
<1>15. ASSUME NEW c \in Callers, CheckTakesOver(c) PROVE TargetInv'
  BY <1>15
     DEF CheckTakesOver, BeginPass, CoordInv, TargetInv, Active, Flags,
         Shapes, Leads, None, PassSteps, PcValues, catalog, coord, pass
<1>16. ASSUME NEW c \in Callers, CheckMustWait(c) PROVE TargetInv'
  BY <1>16
     DEF CheckMustWait, CoordInv, TargetInv, Active, Flags, Shapes, Leads,
         None, PassSteps, PcValues, catalog, coord, pass
<1>17. ASSUME NEW c \in Callers, Wake(c) PROVE TargetInv'
  BY <1>17
     DEF Wake, CoordInv, TargetInv, Active, Flags, Shapes, Leads, None,
         PassSteps, PcValues, catalog, coord, pass
<1>18. ASSUME NEW c \in Callers, CancelLeader(c) PROVE TargetInv'
  BY <1>18
     DEF CancelLeader, DropPass, CoordInv, TargetInv, Active, Flags, Shapes,
         Leads, None, PassSteps, PcValues, catalog, coord, pass
<1>19. ASSUME NEW c \in Callers, DropNotifies(c) PROVE TargetInv'
  BY <1>19
     DEF DropNotifies, WakeWaiters, CoordInv, TargetInv, Active, Flags,
         Shapes, Leads, None, PassSteps, PcValues, catalog, coord, pass
<1>20. ASSUME NEW c \in Callers, CancelWaiter(c) PROVE TargetInv'
  BY <1>20
     DEF CancelWaiter, CoordInv, TargetInv, Active, Flags, Shapes, Leads,
         None, PassSteps, PcValues, catalog, coord, pass
<1>21. CASE UNCHANGED vars
  BY <1>21
     DEF CoordInv, TargetInv, Active, Flags, Shapes, Leads, None, PassSteps,
         PcValues, vars, catalog, coord, pass
<1>. QED
  BY <1>1, <1>2, <1>3, <1>4, <1>5, <1>6, <1>7, <1>8, <1>9, <1>10, <1>11,
     <1>12, <1>13, <1>14, <1>15, <1>16, <1>17, <1>18, <1>19, <1>20, <1>21,
     AskBranches, CompleteBranches DEF Next, Progress

\* A pass begun after a call reads what the call asked for.
LEMMA FreshStep == Shapes /\ CoordInv /\ AvailInv /\ VersionInv /\ FreshInv /\ [Next]_vars => FreshInv'
<1>. SUFFICES ASSUME Shapes, CoordInv, AvailInv, VersionInv, FreshInv, [Next]_vars PROVE FreshInv'
  OBVIOUS
<1>1. CASE Change
  BY <1>1
     DEF Change, CoordInv, AvailInv, VersionInv, FreshInv, Active,
         NothingRead, Shapes, Leads, None, PassSteps, PcValues, catalog,
         coord, pass
<1>2. ASSUME NEW c \in Callers, AskRunning(c) PROVE FreshInv'
  BY <1>2
     DEF AskRunning, CoordInv, AvailInv, VersionInv, FreshInv, Active,
         NothingRead, Shapes, Leads, None, PassSteps, PcValues
<1>3. ASSUME NEW c \in Callers, AskFree(c) PROVE FreshInv'
  BY <1>3
     DEF AskFree, CoordInv, AvailInv, VersionInv, FreshInv, Active,
         NothingRead, Shapes, Leads, None, PassSteps, PcValues
<1>4. ASSUME NEW c \in Callers, ReadTools(c) PROVE FreshInv'
  BY <1>4
     DEF ReadTools, CoordInv, AvailInv, VersionInv, FreshInv, Active,
         NothingRead, Shapes, Leads, None, PassSteps, PcValues, catalog,
         coord, pass
<1>5. ASSUME NEW c \in Callers, NEW f \in Families, ListFresh(c, f) PROVE FreshInv'
  BY <1>5
     DEF ListFresh, CoordInv, AvailInv, VersionInv, FreshInv, Active,
         NothingRead, Shapes, Leads, None, PassSteps, PcValues, catalog,
         coord, pass
<1>6. ASSUME NEW c \in Callers, NEW f \in Families, ListUnavailable(c, f) PROVE FreshInv'
  BY <1>6
     DEF ListUnavailable, CoordInv, AvailInv, VersionInv, FreshInv, Active,
         NothingRead, Shapes, Leads, None, PassSteps, PcValues, catalog,
         coord, pass
<1>7. ASSUME NEW c \in Callers, RecordAvailability(c) PROVE FreshInv'
  BY <1>7
     DEF RecordAvailability, CoordInv, AvailInv, VersionInv, FreshInv, Active,
         NothingRead, Shapes, Leads, None, PassSteps, PcValues, catalog,
         coord, pass
<1>8. ASSUME NEW c \in Callers, PublishSnapshot(c) PROVE FreshInv'
  <2>1. leading[c] = completed + 1 /\ unread[c] = {} /\ pc[c] \in PassSteps
    BY <1>8 DEF PublishSnapshot, CoordInv, AvailInv, Leads, PassSteps, None
  <2>2. ASSUME NEW b \in Callers, NEW g \in Families,
               Active(b), completed >= target[b], g \notin missed[c]
        PROVE  got[c][g] >= asked[b]
    BY <2>1, <2>2 DEF FreshInv, Shapes
  <2>3. \A b \in Callers : (Active(b)' <=> Active(b)) /\ (pc[b] \in PassSteps)' = (pc[b] \in PassSteps)
    BY <1>8 DEF PublishSnapshot, Active, Shapes, PassSteps
  <2>4. UNCHANGED <<completed, target, asked, leading, unread, missed, got>>
    BY <1>8 DEF PublishSnapshot, coord, pass
  <2>5. published' = got[c] /\ carried' = missed[c]
    BY <1>8 DEF PublishSnapshot
  <2>. QED
    BY <2>2, <2>3, <2>4, <2>5 DEF FreshInv
<1>9. ASSUME NEW c \in Callers, CompleteLeads(c) PROVE FreshInv'
  BY <1>9
     DEF CompleteLeads, PassEnds, CoordInv, AvailInv, VersionInv, FreshInv,
         Active, NothingRead, Shapes, Leads, None, PassSteps, PcValues
<1>10. ASSUME NEW c \in Callers, CompleteEnds(c) PROVE FreshInv'
  BY <1>10
     DEF CompleteEnds, PassEnds, CoordInv, AvailInv, VersionInv, FreshInv,
         Active, NothingRead, Shapes, Leads, None, PassSteps, PcValues
<1>11. ASSUME NEW c \in Callers, NotifyAndLead(c) PROVE FreshInv'
  BY <1>11
     DEF NotifyAndLead, WakeWaiters, BeginPass, CoordInv, AvailInv,
         VersionInv, FreshInv, Active, NothingRead, Shapes, Leads, None,
         PassSteps, PcValues, catalog, coord, pass
<1>12. ASSUME NEW c \in Callers, NotifyAndReturn(c) PROVE FreshInv'
  BY <1>12
     DEF NotifyAndReturn, WakeWaiters, CoordInv, AvailInv, VersionInv,
         FreshInv, Active, NothingRead, Shapes, Leads, None, PassSteps,
         PcValues, catalog, coord, pass
<1>13. ASSUME NEW c \in Callers, Arm(c) PROVE FreshInv'
  BY <1>13
     DEF Arm, CoordInv, AvailInv, VersionInv, FreshInv, Active, NothingRead,
         Shapes, Leads, None, PassSteps, PcValues, catalog, coord, pass
<1>14. ASSUME NEW c \in Callers, CheckSatisfied(c) PROVE FreshInv'
  BY <1>14
     DEF CheckSatisfied, CoordInv, AvailInv, VersionInv, FreshInv, Active,
         NothingRead, Shapes, Leads, None, PassSteps, PcValues, catalog,
         coord, pass
<1>15. ASSUME NEW c \in Callers, CheckTakesOver(c) PROVE FreshInv'
  BY <1>15
     DEF CheckTakesOver, BeginPass, CoordInv, AvailInv, VersionInv, FreshInv,
         Active, NothingRead, Shapes, Leads, None, PassSteps, PcValues,
         catalog, coord, pass
<1>16. ASSUME NEW c \in Callers, CheckMustWait(c) PROVE FreshInv'
  BY <1>16
     DEF CheckMustWait, CoordInv, AvailInv, VersionInv, FreshInv, Active,
         NothingRead, Shapes, Leads, None, PassSteps, PcValues, catalog,
         coord, pass
<1>17. ASSUME NEW c \in Callers, Wake(c) PROVE FreshInv'
  BY <1>17
     DEF Wake, CoordInv, AvailInv, VersionInv, FreshInv, Active, NothingRead,
         Shapes, Leads, None, PassSteps, PcValues, catalog, coord, pass
<1>18. ASSUME NEW c \in Callers, CancelLeader(c) PROVE FreshInv'
  BY <1>18
     DEF CancelLeader, DropPass, CoordInv, AvailInv, VersionInv, FreshInv,
         Active, NothingRead, Shapes, Leads, None, PassSteps, PcValues,
         catalog, coord, pass
<1>19. ASSUME NEW c \in Callers, DropNotifies(c) PROVE FreshInv'
  BY <1>19
     DEF DropNotifies, WakeWaiters, CoordInv, AvailInv, VersionInv, FreshInv,
         Active, NothingRead, Shapes, Leads, None, PassSteps, PcValues,
         catalog, coord, pass
<1>20. ASSUME NEW c \in Callers, CancelWaiter(c) PROVE FreshInv'
  BY <1>20
     DEF CancelWaiter, CoordInv, AvailInv, VersionInv, FreshInv, Active,
         NothingRead, Shapes, Leads, None, PassSteps, PcValues, catalog,
         coord, pass
<1>21. CASE UNCHANGED vars
  BY <1>21
     DEF CoordInv, AvailInv, VersionInv, FreshInv, Active, NothingRead,
         Shapes, Leads, None, PassSteps, PcValues, vars, catalog, coord, pass
<1>. QED
  BY <1>1, <1>2, <1>3, <1>4, <1>5, <1>6, <1>7, <1>8, <1>9, <1>10, <1>11,
     <1>12, <1>13, <1>14, <1>15, <1>16, <1>17, <1>18, <1>19, <1>20, <1>21,
     AskBranches, CompleteBranches DEF Next, Progress

-----------------------------------------------------------------------------
(* Theorems. *)

LEMMA InitInv == Init => IInv
<1>. SUFFICES ASSUME Init PROVE IInv
  OBVIOUS
<1>. USE DEF Init
<1>1. Flags
  BY Zenon DEF Flags
<1>2. Shapes
  BY DEF Shapes, PcValues, None, NothingRead
<1>3. CoordInv /\ AvailInv /\ SomeoneWillNotify
  BY DEF CoordInv, AvailInv, SomeoneWillNotify, Leads, PassSteps, None
<1>4. VersionInv
  BY ConstantsAssumption DEF VersionInv, NothingRead, PassSteps
<1>5. TargetInv /\ FreshInv
  BY DEF TargetInv, FreshInv, Active, PassSteps
<1>. QED
  BY <1>1, <1>2, <1>3, <1>4, <1>5 DEF IInv

\* However callers ask, wait, take over and are cancelled, every state satisfies
\* the inductive invariant of refresh_tools' coordinator.
THEOREM RefreshInvariant == Spec => []IInv
<1>1. IInv /\ [Next]_vars => IInv'
  BY FlagsStep, ShapesStep, CoordStep, AvailStep, NotifyStep, VersionStep,
     TargetStep, FreshStep, Zenon
     DEF IInv
<1>. QED
  BY InitInv, <1>1, PTL DEF Spec

\* The state of the coordinator and of every refresh_tools future is well formed.
THEOREM RefreshTypes == Spec => []TypeOK
<1>1. IInv => TypeOK
  BY TypeParts, Zenon DEF IInv
<1>. QED
  BY RefreshInvariant, <1>1, PTL

\* refresh_tools_once never runs twice at the same time.
THEOREM PassesExclude == Spec => []OnePassAtATime
<1>1. IInv => OnePassAtATime
  BY DEF IInv, CoordInv, OnePassAtATime, Leads
<1>. QED
  BY RefreshInvariant, <1>1, PTL

\* A pass that has published leaves the availability of its own snapshot behind.
THEOREM AvailabilityTruthful == Spec => []AvailabilityMatchesSnapshot
<1>1. IInv => AvailabilityMatchesSnapshot
  BY DEF IInv, AvailInv, AvailabilityMatchesSnapshot
<1>. QED
  BY RefreshInvariant, <1>1, PTL

\* No waiter of the refresh coordinator is left with nobody to notify it.
THEOREM WaitersHaveNotifier == Spec => []SomeoneWillNotify
<1>1. IInv => SomeoneWillNotify
  BY DEF IInv
<1>. QED
  BY RefreshInvariant, <1>1, PTL

-----------------------------------------------------------------------------
(* refresh_tools implements RefreshContract. *)

\* A call is open in the contract exactly while its future is active.
LEMMA CallMapped == ASSUME NEW c \in Callers
                    PROVE  /\ Active(c) => callMap[c] = "asked"
                           /\ pc[c] = "done" => callMap[c] = "done"
                           /\ pc[c] \in {"idle", "drop"} => callMap[c] = "idle"
  BY DEF callMap, Active

\* Moving one future moves one call.
LEMMA CallMapUpdate ==
  ASSUME NEW c \in Callers, NEW v, pc \in [Callers -> PcValues],
         pc' = [pc EXCEPT ![c] = v]
  PROVE  callMap' = [callMap EXCEPT ![c] =
             CASE v = "idle" -> "idle" [] v = "drop" -> "idle"
               [] v = "done" -> "done" [] OTHER -> "asked"]
  BY DEF callMap

\* A future that stays active leaves the contract's calls alone.
LEMMA CallMapStays ==
  ASSUME NEW c \in Callers, NEW v, pc \in [Callers -> PcValues],
         pc' = [pc EXCEPT ![c] = v], Active(c),
         v \notin {"idle", "drop", "done"}
  PROVE  callMap' = callMap
  BY CallMapUpdate, CallMapped DEF callMap

\* A future that begins opens its call.
LEMMA CallMapOpens ==
  ASSUME NEW c \in Callers, NEW v, pc \in [Callers -> PcValues],
         pc' = [pc EXCEPT ![c] = v], v \notin {"idle", "drop", "done"}
  PROVE  callMap' = [callMap EXCEPT ![c] = "asked"]
  BY CallMapUpdate

\* Every step of the coordinator is a step of the contract, or leaves it alone.
LEMMA ContractStep == IInv /\ [Next]_vars => [Contract!Next]_(Contract!vars)
<1>. SUFFICES ASSUME IInv, [Next]_vars PROVE [Contract!Next]_(Contract!vars)
  OBVIOUS
<1>. USE DEF IInv
<1>1. CASE Change
  <2>1. callMap' = callMap
    BY <1>1 DEF Change, callMap
  <2>. QED
    BY <1>1, <2>1 DEF Change, Contract!Next, Contract!Change
<1>2. ASSUME NEW c \in Callers, AskRunning(c) PROVE [Contract!Next]_(Contract!vars)
  <2>1. pc' = [pc EXCEPT ![c] = "arm"] /\ pc[c] \in {"idle", "done"}
    BY <1>2
       DEF AskRunning
  <2>2. callMap' = [callMap EXCEPT ![c] = "asked"]
    BY <2>1, CallMapOpens DEF Shapes
  <2>4. callMap[c] # "asked"
    BY <2>1 DEF callMap
  <2>3. UNCHANGED <<upstream, published, carried>> /\ asked' = [asked EXCEPT ![c] = upstream]
    BY <1>2
       DEF AskRunning
  <2>. QED
    BY <2>2, <2>3, <2>4 DEF Contract!Next, Contract!Ask
<1>3. ASSUME NEW c \in Callers, AskFree(c) PROVE [Contract!Next]_(Contract!vars)
  <2>1. pc' = [pc EXCEPT ![c] = "read"] /\ pc[c] \in {"idle", "done"}
    BY <1>3
       DEF AskFree
  <2>2. callMap' = [callMap EXCEPT ![c] = "asked"]
    BY <2>1, CallMapOpens DEF Shapes
  <2>4. callMap[c] # "asked"
    BY <2>1 DEF callMap
  <2>3. UNCHANGED <<upstream, published, carried>> /\ asked' = [asked EXCEPT ![c] = upstream]
    BY <1>3
       DEF AskFree
  <2>. QED
    BY <2>2, <2>3, <2>4 DEF Contract!Next, Contract!Ask
<1>4. ASSUME NEW c \in Callers, ReadTools(c) PROVE [Contract!Next]_(Contract!vars)
  <2>1. UNCHANGED pc /\ UNCHANGED <<upstream, published, carried, asked>>
    BY <1>4
       DEF ReadTools, catalog, coord, pass
  <2>. QED
    BY <2>1 DEF Contract!vars, callMap
<1>5. ASSUME NEW c \in Callers, NEW f \in Families, ListFresh(c, f) PROVE [Contract!Next]_(Contract!vars)
  <2>1. UNCHANGED pc /\ UNCHANGED <<upstream, published, carried, asked>>
    BY <1>5
       DEF ListFresh, catalog, coord, pass
  <2>. QED
    BY <2>1 DEF Contract!vars, callMap
<1>6. ASSUME NEW c \in Callers, NEW f \in Families, ListUnavailable(c, f) PROVE [Contract!Next]_(Contract!vars)
  <2>1. UNCHANGED pc /\ UNCHANGED <<upstream, published, carried, asked>>
    BY <1>6
       DEF ListUnavailable, catalog, coord, pass
  <2>. QED
    BY <2>1 DEF Contract!vars, callMap
<1>7. ASSUME NEW c \in Callers, RecordAvailability(c) PROVE [Contract!Next]_(Contract!vars)
  <2>1. pc' = [pc EXCEPT ![c] = "prune"] /\ pc[c] \notin {"idle", "drop", "done"}
    BY <1>7
       DEF RecordAvailability, catalog, coord, pass, PassSteps
  <2>2. callMap' = callMap
    BY <2>1, CallMapStays DEF Active, Shapes
  <2>3. UNCHANGED <<upstream, published, carried, asked>>
    BY <1>7
       DEF RecordAvailability, catalog, coord, pass
  <2>. QED
    BY <2>2, <2>3 DEF Contract!vars
<1>8. ASSUME NEW c \in Callers, PublishSnapshot(c) PROVE [Contract!Next]_(Contract!vars)
  <2>1. pc' = [pc EXCEPT ![c] = "sweep"] /\ pc[c] = "prune"
    BY <1>8
       DEF PublishSnapshot, catalog, coord, pass
  <2>2. callMap' = callMap
    BY <2>1, CallMapStays DEF Active, Shapes
  <2>3. published' = got[c] /\ carried' = missed[c] /\ UNCHANGED <<upstream, asked>>
    BY <1>8
       DEF PublishSnapshot, catalog, coord, pass
  <2>4. got[c] \in [Families -> 0..upstream] /\ missed[c] \in SUBSET Families
    BY DEF VersionInv, Shapes
  <2>5. \A f \in Families : got[c][f] >= published[f]
    BY <2>1 DEF VersionInv, AvailInv, PassSteps
  <2>. QED
    BY <2>2, <2>3, <2>4, <2>5 DEF Contract!Next, Contract!Publish
<1>9. ASSUME NEW c \in Callers, CompleteLeads(c) PROVE [Contract!Next]_(Contract!vars)
  <2>1. pc' = [pc EXCEPT ![c] = "notify"] /\ pc[c] \notin {"idle", "drop", "done"}
    BY <1>9
       DEF CompleteLeads, PassEnds, PassSteps
  <2>2. callMap' = callMap
    BY <2>1, CallMapStays DEF Active, Shapes
  <2>3. UNCHANGED <<upstream, published, carried, asked>>
    BY <1>9
       DEF CompleteLeads, PassEnds
  <2>. QED
    BY <2>2, <2>3 DEF Contract!vars
<1>10. ASSUME NEW c \in Callers, CompleteEnds(c) PROVE [Contract!Next]_(Contract!vars)
  <2>1. pc' = [pc EXCEPT ![c] = "notify"] /\ pc[c] \notin {"idle", "drop", "done"}
    BY <1>10
       DEF CompleteEnds, PassEnds, PassSteps
  <2>2. callMap' = callMap
    BY <2>1, CallMapStays DEF Active, Shapes
  <2>3. UNCHANGED <<upstream, published, carried, asked>>
    BY <1>10
       DEF CompleteEnds, PassEnds
  <2>. QED
    BY <2>2, <2>3 DEF Contract!vars
<1>11. ASSUME NEW c \in Callers, NotifyAndLead(c) PROVE [Contract!Next]_(Contract!vars)
  <2>1. pc' = [pc EXCEPT ![c] = "read"] /\ pc[c] \notin {"idle", "drop", "done"}
    BY <1>11
       DEF NotifyAndLead, WakeWaiters, BeginPass, catalog, coord, pass,
           PassSteps
  <2>2. callMap' = callMap
    BY <2>1, CallMapStays DEF Active, Shapes
  <2>3. UNCHANGED <<upstream, published, carried, asked>>
    BY <1>11
       DEF NotifyAndLead, WakeWaiters, BeginPass, catalog, coord, pass
  <2>. QED
    BY <2>2, <2>3 DEF Contract!vars
<1>12. ASSUME NEW c \in Callers, NotifyAndReturn(c) PROVE [Contract!Next]_(Contract!vars)
  <2>1. pc' = [pc EXCEPT ![c] = "done"] /\ Active(c)
    BY <1>12
       DEF NotifyAndReturn, WakeWaiters, catalog, coord, pass, Active
  <2>2. callMap' = [callMap EXCEPT ![c] = "done"] /\ callMap[c] = "asked"
    BY <2>1, CallMapUpdate, CallMapped DEF Shapes
  <2>3. completed >= target[c]
    BY <1>12
       DEF NotifyAndReturn, TargetInv
  <2>4. \A f \in Families \ carried : published[f] >= asked[c]
    BY <2>1, <2>3 DEF FreshInv
  <2>5. UNCHANGED <<upstream, published, carried, asked>>
    BY <1>12
       DEF NotifyAndReturn, WakeWaiters, catalog, coord, pass
  <2>. QED
    BY <2>2, <2>4, <2>5 DEF Contract!Next, Contract!Return, Contract!FreshSince
<1>13. ASSUME NEW c \in Callers, Arm(c) PROVE [Contract!Next]_(Contract!vars)
  <2>1. pc' = [pc EXCEPT ![c] = "check"] /\ pc[c] \notin {"idle", "drop", "done"}
    BY <1>13
       DEF Arm, catalog, coord, pass, PassSteps
  <2>2. callMap' = callMap
    BY <2>1, CallMapStays DEF Active, Shapes
  <2>3. UNCHANGED <<upstream, published, carried, asked>>
    BY <1>13
       DEF Arm, catalog, coord, pass
  <2>. QED
    BY <2>2, <2>3 DEF Contract!vars
<1>14. ASSUME NEW c \in Callers, CheckSatisfied(c) PROVE [Contract!Next]_(Contract!vars)
  <2>1. pc' = [pc EXCEPT ![c] = "done"] /\ Active(c)
    BY <1>14
       DEF CheckSatisfied, catalog, coord, pass, Active
  <2>2. callMap' = [callMap EXCEPT ![c] = "done"] /\ callMap[c] = "asked"
    BY <2>1, CallMapUpdate, CallMapped DEF Shapes
  <2>3. completed >= target[c]
    BY <1>14
       DEF CheckSatisfied, TargetInv
  <2>4. \A f \in Families \ carried : published[f] >= asked[c]
    BY <2>1, <2>3 DEF FreshInv
  <2>5. UNCHANGED <<upstream, published, carried, asked>>
    BY <1>14
       DEF CheckSatisfied, catalog, coord, pass
  <2>. QED
    BY <2>2, <2>4, <2>5 DEF Contract!Next, Contract!Return, Contract!FreshSince
<1>15. ASSUME NEW c \in Callers, CheckTakesOver(c) PROVE [Contract!Next]_(Contract!vars)
  <2>1. pc' = [pc EXCEPT ![c] = "read"] /\ pc[c] \notin {"idle", "drop", "done"}
    BY <1>15
       DEF CheckTakesOver, BeginPass, catalog, coord, pass, PassSteps
  <2>2. callMap' = callMap
    BY <2>1, CallMapStays DEF Active, Shapes
  <2>3. UNCHANGED <<upstream, published, carried, asked>>
    BY <1>15
       DEF CheckTakesOver, BeginPass, catalog, coord, pass
  <2>. QED
    BY <2>2, <2>3 DEF Contract!vars
<1>16. ASSUME NEW c \in Callers, CheckMustWait(c) PROVE [Contract!Next]_(Contract!vars)
  <2>1. pc' = [pc EXCEPT ![c] = "park"] /\ pc[c] \notin {"idle", "drop", "done"}
    BY <1>16
       DEF CheckMustWait, catalog, coord, pass, PassSteps
  <2>2. callMap' = callMap
    BY <2>1, CallMapStays DEF Active, Shapes
  <2>3. UNCHANGED <<upstream, published, carried, asked>>
    BY <1>16
       DEF CheckMustWait, catalog, coord, pass
  <2>. QED
    BY <2>2, <2>3 DEF Contract!vars
<1>17. ASSUME NEW c \in Callers, Wake(c) PROVE [Contract!Next]_(Contract!vars)
  <2>1. pc' = [pc EXCEPT ![c] = "arm"] /\ pc[c] \notin {"idle", "drop", "done"}
    BY <1>17
       DEF Wake, catalog, coord, pass, PassSteps
  <2>2. callMap' = callMap
    BY <2>1, CallMapStays DEF Active, Shapes
  <2>3. UNCHANGED <<upstream, published, carried, asked>>
    BY <1>17
       DEF Wake, catalog, coord, pass
  <2>. QED
    BY <2>2, <2>3 DEF Contract!vars
<1>18. ASSUME NEW c \in Callers, CancelLeader(c) PROVE [Contract!Next]_(Contract!vars)
  <2>1. pc' = [pc EXCEPT ![c] = "drop"] /\ Active(c)
    BY <1>18
       DEF CancelLeader, DropPass, catalog, coord, pass, Active, PassSteps
  <2>2. callMap' = [callMap EXCEPT ![c] = "idle"] /\ callMap[c] = "asked"
    BY <2>1, CallMapUpdate, CallMapped DEF Shapes
  <2>3. UNCHANGED <<upstream, published, carried, asked>>
    BY <1>18
       DEF CancelLeader, DropPass, catalog, coord, pass
  <2>. QED
    BY <2>2, <2>3 DEF Contract!Next, Contract!Cancel
<1>19. ASSUME NEW c \in Callers, DropNotifies(c) PROVE [Contract!Next]_(Contract!vars)
  <2>1. pc' = [pc EXCEPT ![c] = "idle"] /\ pc[c] = "drop"
    BY <1>19
       DEF DropNotifies, WakeWaiters, catalog, coord, pass
  <2>2. callMap' = callMap
    BY <2>1, CallMapUpdate, CallMapped DEF callMap, Shapes
  <2>3. UNCHANGED <<upstream, published, carried, asked>>
    BY <1>19
       DEF DropNotifies, WakeWaiters, catalog, coord, pass
  <2>. QED
    BY <2>2, <2>3 DEF Contract!vars
<1>20. ASSUME NEW c \in Callers, CancelWaiter(c) PROVE [Contract!Next]_(Contract!vars)
  <2>1. pc' = [pc EXCEPT ![c] = "idle"] /\ Active(c)
    BY <1>20
       DEF CancelWaiter, catalog, coord, pass, Active, PassSteps
  <2>2. callMap' = [callMap EXCEPT ![c] = "idle"] /\ callMap[c] = "asked"
    BY <2>1, CallMapUpdate, CallMapped DEF Shapes
  <2>3. UNCHANGED <<upstream, published, carried, asked>>
    BY <1>20
       DEF CancelWaiter, catalog, coord, pass
  <2>. QED
    BY <2>2, <2>3 DEF Contract!Next, Contract!Cancel
<1>21. CASE UNCHANGED vars
  BY <1>21 DEF vars, catalog, Contract!vars, callMap
<1>. QED
  BY <1>1, <1>2, <1>3, <1>4, <1>5, <1>6, <1>7, <1>8, <1>9, <1>10, <1>11,
     <1>12, <1>13, <1>14, <1>15, <1>16, <1>17, <1>18, <1>19, <1>20, <1>21,
     AskBranches, CompleteBranches DEF Next, Progress

\* refresh_tools keeps its promise to every caller, however many there are: the
\* snapshot it finds on return is as new as its call, and snapshots never go back.
THEOREM RefreshKeepsContract == Spec => KeepsContract
<1>1. Init => Contract!Init
  BY DEF Init, Contract!Init, callMap
<1>. QED
  BY RefreshInvariant, <1>1, ContractStep, PTL DEF Spec, KeepsContract, Contract!Spec
=============================================================================
