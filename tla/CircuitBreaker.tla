---------------------------- MODULE CircuitBreaker ----------------------------
(***************************************************************************)
(* The lock-free circuit breaker of plug-core/src/circuit.rs, one action   *)
(* per atomic instruction, and the tool calls of ToolRouter::call_tool_inner *)
(* that ask it for admission and report to it.  The breaker has no lock:   *)
(* `state`, `failure_count`, `open_since_nanos` and the probe semaphore are *)
(* read and written separately, by any number of calls at once.            *)
(***************************************************************************)
EXTENDS Integers, FiniteSets

CONSTANTS
    Calls,          \* concurrent tool calls
    Threshold,      \* failure_threshold
    ProbeCount,     \* probe_count
    OpenDuration,   \* open_duration, in clock ticks
    MaxResets       \* bound: resets by a reconnect

ASSUME BreakerAssumption ==
    /\ IsFiniteSet(Calls)
    /\ Threshold \in Nat \ {0}
    /\ ProbeCount \in Nat \ {0}
    /\ OpenDuration \in Nat \ {0}
    /\ MaxResets \in Nat

VARIABLES
    state,          \* "Closed" | "Open" | "HalfOpen"
    failures,       \* failure_count; a value past Threshold tells nothing more
    openAge,        \* time since open_since_nanos, up to OpenDuration; Never if unset
    permits,        \* permits in probe_semaphore
    pc,             \* call -> the next instruction of the method it is in
    resetPc,        \* the reconnect's progress through reset
    resets,         \* resets so far
    silent,         \* history: some call has ended without a report
    raced           \* history: the circuit tripped while its clock was being cleared

fields == <<state, failures, openAge, permits>>
notes == <<silent, raced>>
breakerVars == <<fields, pc, resetPc, resets, notes>>

Never == -1

BreakerInit ==
    /\ state = "Closed" /\ failures = 0 /\ openAge = Never /\ permits = 0
    /\ pc = [c \in Calls |-> "idle"]
    /\ resetPc = "idle" /\ resets = 0
    /\ silent = FALSE /\ raced = FALSE

Goes(c, p) == pc' = [pc EXCEPT ![c] = p]

\* Time passes; only how long the circuit has been open matters.
Tick ==
    /\ openAge # Never /\ openAge < OpenDuration
    /\ openAge' = openAge + 1
    /\ UNCHANGED <<state, failures, permits, pc, resetPc, resets, notes>>

-----------------------------------------------------------------------------
(* call_allowed *)

\* Load the state: admitted at once, or on to the clock, or on to a probe.
LoadForCall(c) ==
    /\ pc[c] = "idle"
    /\ \/ state = "Closed" /\ Goes(c, "flying")
       \/ state = "Open" /\ Goes(c, "clock")
       \/ state = "HalfOpen" /\ Goes(c, "probe")
    /\ UNCHANGED <<fields, resetPc, resets, notes>>

\* Load open_since; u64::MAX saturates to an elapsed time of zero.
CheckClock(c) ==
    /\ pc[c] = "clock"
    /\ \/ openAge = OpenDuration /\ Goes(c, "halfOpen")
       \/ openAge # OpenDuration /\ Goes(c, "idle")
    /\ UNCHANGED <<fields, resetPc, resets, notes>>

\* Mutant: the winner adds its permits without draining the leftovers.
CasHalfOpenNoDrain(c) ==
    /\ pc[c] = "halfOpen"
    /\ \/ /\ state = "Open"
          /\ state' = "HalfOpen"
          /\ Goes(c, "add")
       \/ /\ state # "Open"
          /\ Goes(c, "probe")
          /\ UNCHANGED state
    /\ UNCHANGED <<failures, openAge, permits, resetPc, resets, notes>>

CasHalfOpen(c) ==
    /\ pc[c] = "halfOpen"
    /\ \/ /\ state = "Open"
          /\ state' = "HalfOpen"
          /\ Goes(c, "drain")
       \/ /\ state # "Open"
          /\ Goes(c, "probe")
          /\ UNCHANGED state
    /\ UNCHANGED <<failures, openAge, permits, resetPc, resets, notes>>

\* while try_acquire().is_ok() {}: the permit is a temporary of the condition, so
\* it is dropped, and back in the semaphore, before the next try.  The loop ends
\* when others have taken every permit.
DrainTries(c) ==
    /\ pc[c] = "drain"
    /\ \/ permits > 0 /\ permits' = permits - 1 /\ Goes(c, "giveBack")
       \/ permits = 0 /\ UNCHANGED permits /\ Goes(c, "add")
    /\ UNCHANGED <<state, failures, openAge, resetPc, resets, notes>>

DrainGivesBack(c) ==
    /\ pc[c] = "giveBack"
    /\ permits' = permits + 1
    /\ Goes(c, "drain")
    /\ UNCHANGED <<state, failures, openAge, resetPc, resets, notes>>

AddPermits(c) ==
    /\ pc[c] = "add"
    /\ permits' = permits + ProbeCount
    /\ Goes(c, "probe")
    /\ UNCHANGED <<state, failures, openAge, resetPc, resets, notes>>

\* try_acquire_probe: the permit is consumed for good.
AcquireProbe(c) ==
    /\ pc[c] = "probe"
    /\ \/ /\ permits > 0
          /\ permits' = permits - 1
          /\ Goes(c, "flying")
       \/ /\ permits = 0
          /\ UNCHANGED permits
          /\ Goes(c, "idle")
    /\ UNCHANGED <<state, failures, openAge, resetPc, resets, notes>>

-----------------------------------------------------------------------------
(* on_success *)

LoadForSuccess(c) ==
    /\ pc[c] = "flying"
    /\ \/ state = "Closed" /\ Goes(c, "clearClosed")
       \/ state = "HalfOpen" /\ Goes(c, "close")
       \/ state = "Open" /\ Goes(c, "idle")
    /\ UNCHANGED <<fields, resetPc, resets, notes>>

ClearFailures(c) ==
    /\ pc[c] \in {"clearClosed", "clearHalfOpen"}
    /\ failures' = 0
    /\ Goes(c, IF pc[c] = "clearClosed" THEN "idle" ELSE "clearClock")
    /\ UNCHANGED <<state, openAge, permits, resetPc, resets, notes>>

CasClosed(c) ==
    /\ pc[c] = "close"
    /\ \/ state = "HalfOpen" /\ state' = "Closed" /\ Goes(c, "clearHalfOpen")
       \/ state # "HalfOpen" /\ UNCHANGED state /\ Goes(c, "idle")
    /\ UNCHANGED <<failures, openAge, permits, resetPc, resets, notes>>

ClearClock(c) ==
    /\ pc[c] = "clearClock"
    /\ openAge' = Never
    /\ Goes(c, "idle")
    /\ UNCHANGED <<state, failures, permits, resetPc, resets, notes>>

-----------------------------------------------------------------------------
(* on_failure *)

\* Mutant: a failure in the half-open state is ignored.
LoadForFailureClosedOnly(c) ==
    /\ pc[c] = "flying"
    /\ \/ state = "Closed" /\ Goes(c, "count")
       \/ state # "Closed" /\ Goes(c, "idle")
    /\ UNCHANGED <<fields, resetPc, resets, notes>>

LoadForFailure(c) ==
    /\ pc[c] = "flying"
    /\ \/ state = "Closed" /\ Goes(c, "count")
       \/ state = "HalfOpen" /\ Goes(c, "reopen")
       \/ state = "Open" /\ Goes(c, "idle")
    /\ UNCHANGED <<fields, resetPc, resets, notes>>

\* fetch_add; a count past the threshold tells nothing more.
CountFailure(c) ==
    /\ pc[c] = "count"
    /\ failures' = IF failures < Threshold THEN failures + 1 ELSE failures
    /\ Goes(c, IF failures + 1 >= Threshold THEN "trip" ELSE "idle")
    /\ UNCHANGED <<state, openAge, permits, resetPc, resets, notes>>

\* Someone has closed the circuit and not yet cleared the open time.
ClockBeingCleared ==
    \/ resetPc # "idle"
    \/ \E d \in Calls : pc[d] \in {"clearHalfOpen", "clearClock"}

\* Mutant: the winner of the transition does not store the open time.
CasOpenUntimed(c, at, from) ==
    /\ pc[c] = at
    /\ \/ /\ state = from
          /\ state' = "Open"
          /\ raced' = (raced \/ ClockBeingCleared)
       \/ /\ state # from
          /\ UNCHANGED <<state, raced>>
    /\ Goes(c, "idle")
    /\ UNCHANGED <<failures, openAge, permits, resetPc, resets, silent>>

\* compare_exchange(from, Open); the open time is stored afterwards.
CasOpen(c, at, from) ==
    /\ pc[c] = at
    /\ \/ /\ state = from
          /\ state' = "Open"
          /\ raced' = (raced \/ ClockBeingCleared)
          /\ Goes(c, "setClock")
       \/ /\ state # from
          /\ UNCHANGED <<state, raced>>
          /\ Goes(c, "idle")
    /\ UNCHANGED <<failures, openAge, permits, resetPc, resets, silent>>

SetClock(c) ==
    /\ pc[c] = "setClock"
    /\ openAge' = 0
    /\ Goes(c, "idle")
    /\ UNCHANGED <<state, failures, permits, resetPc, resets, notes>>

\* Ends of a call that report neither: a timeout, a lost session on a call that
\* must not be repeated, a busy server, an unexpected answer, a dropped caller.
EndUnreported(c) ==
    /\ pc[c] = "flying"
    /\ silent' = TRUE
    /\ Goes(c, "idle")
    /\ UNCHANGED <<fields, resetPc, resets, raced>>

-----------------------------------------------------------------------------
(* reset, called by replace_server when a connection is replaced *)

ResetState ==
    /\ resetPc = "idle" /\ resets < MaxResets
    /\ state' = "Closed"
    /\ resets' = resets + 1 /\ resetPc' = "failures"
    /\ UNCHANGED <<failures, openAge, permits, pc, notes>>

ResetFailures ==
    /\ resetPc = "failures"
    /\ failures' = 0 /\ resetPc' = "clock"
    /\ UNCHANGED <<state, openAge, permits, pc, resets, notes>>

ResetClock ==
    /\ resetPc = "clock"
    /\ openAge' = Never /\ resetPc' = "idle"
    /\ UNCHANGED <<state, failures, permits, pc, resets, notes>>

Resets == ResetState \/ ResetFailures \/ ResetClock

-----------------------------------------------------------------------------
CallStep(c) ==
    \/ LoadForCall(c) \/ CheckClock(c) \/ CasHalfOpen(c)
    \/ DrainTries(c) \/ DrainGivesBack(c) \/ AddPermits(c) \/ AcquireProbe(c)
    \/ LoadForSuccess(c) \/ ClearFailures(c) \/ CasClosed(c) \/ ClearClock(c)
    \/ LoadForFailure(c) \/ CountFailure(c)
    \/ CasOpen(c, "trip", "Closed") \/ CasOpen(c, "reopen", "HalfOpen") \/ SetClock(c)

BreakerNext == Tick \/ Resets \/ \E c \in Calls : CallStep(c) \/ EndUnreported(c)

BreakerSpec == BreakerInit /\ [][BreakerNext]_breakerVars

\* Time passes, calls keep arriving, and an admitted call ends and reports:
\* call_tool_inner bounds every call by call_timeout_secs.
BreakerFairSpec ==
    /\ BreakerSpec /\ WF_breakerVars(Tick)
    /\ \A c \in Calls : WF_breakerVars(CallStep(c))

-----------------------------------------------------------------------------
(* Properties *)

Pcs == {"idle", "clock", "halfOpen", "drain", "giveBack", "add", "probe", "flying",
        "clearClosed", "clearHalfOpen", "close", "clearClock",
        "count", "trip", "reopen", "setClock"}

\* Types of the atomics and of the calls' positions.
BreakerTypeOK ==
    /\ state \in {"Closed", "Open", "HalfOpen"}
    /\ failures \in 0..Threshold
    /\ openAge \in {Never} \cup 0..OpenDuration
    /\ permits \in Nat
    /\ pc \in [Calls -> Pcs]
    /\ resetPc \in {"idle", "failures", "clock"} /\ resets \in 0..MaxResets
    /\ silent \in BOOLEAN /\ raced \in BOOLEAN

\* Calls that hold a permit for the time of one turn of the drain loop.
Givers == {c \in Calls : pc[c] = "giveBack"}

\* "... to avoid permit accumulation across multiple cycles": a winner adds a set
\* only after it has seen the semaphore empty.  However winners of several
\* half-open transitions overlap, and although the drain takes nothing away and
\* hides the permit it holds from the others' look, there is at most one full set
\* per call (call_allowed).
PermitsDoNotAccumulate ==
    /\ BreakerTypeOK
    /\ permits + Cardinality(Givers) <= ProbeCount * Cardinality(Calls)

\* A half-open circuit closes or opens again, however its probes interleave, as
\* long as the calls report their outcomes and the winner of the transition finds
\* no permit of an earlier cycle (DrainEnds).
HalfOpenEnds == (state = "HalfOpen") ~> (state # "HalfOpen" \/ silent \/ Givers # {})

Settled == resetPc = "idle" /\ \A c \in Calls : pc[c] = "idle"

\* An open circuit knows since when it is open, so the open period can end, but
\* for one race: a failure that trips the circuit between the store that closed
\* it and the store that clears its open time.
OpenIsTimed == Settled /\ state = "Open" /\ ~raced => openAge # Never

-----------------------------------------------------------------------------
(* What a comment says and the code does not keep: TLC finds it violated     *)
(* (README, section 4).                                                      *)

\* "Drain leftover permits from previous half-open cycle" (call_allowed): the
\* winner of a half-open transition gets to the end of its drain.
DrainEnds == \A c \in Calls : (pc[c] = "drain") ~> (pc[c] \notin {"drain", "giveBack"})

=============================================================================
