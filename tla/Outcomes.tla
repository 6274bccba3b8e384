------------------------------ MODULE Outcomes ------------------------------
(***************************************************************************)
(* What one call of finalize_worker may report, and the workflow states it *)
(* may leave its ticket in: the contract between the reap loop of the      *)
(* daemon (module Watcher) and the finalize threads (module Finalize).     *)
(***************************************************************************)
EXTENDS Naturals, FiniteSets

CONSTANTS
    Ticket,   \* the tickets of the project
    Manifest  \* Manifest[t]: the execution manifest on disk of ticket t

LinearState ==
    {"ReadyForLocal", "WaitingForDeps", "InProgressLocal", "InProgress",
     "InReview", "MergedToEpic", "Done", "Cancelled", "Blocked", "Backlog"}

\* Outcome, and "raised" for a call that ends in an exception.
OutcomeKind == {"success", "failure", "escalated", "aborted", "raised"}

ASSUME TicketAssumption == IsFiniteSet(Ticket)

ASSUME FailurePolicyAssumption ==
    /\ DOMAIN Manifest = Ticket
    /\ \A t \in Ticket :
        /\ Manifest[t].escalate \in BOOLEAN
        /\ Manifest[t].retries \in 0 .. 5
        /\ Manifest[t].onCheckFailure \in {"abort", "warn"}
-----------------------------------------------------------------------------
AttemptHardcap == 1

MaxRetries(t) ==
    IF Manifest[t].retries < AttemptHardcap THEN Manifest[t].retries ELSE AttemptHardcap

Delivered(t) == IF Manifest[t].base = "main" THEN "InReview" ELSE "MergedToEpic"

\* _record_failure_state.
FailureState(t) == IF Manifest[t].escalate THEN "InProgress" ELSE "Blocked"

\* Where t may be when the last attempt at finalizing it begins: a failed attempt
\* records its state although the worker is launched again.
Interim(t, before) ==
    {before} \cup (IF MaxRetries(t) > 0 THEN {FailureState(t)} ELSE {})

\* The states one call may leave t in that finds it in state before; a lossy
\* call is one whose state writes may be refused.
FinalStates(t, outcome, before, lossy) ==
    (CASE outcome = "success"   -> {Delivered(t)}
       [] outcome = "failure"   -> {FailureState(t), "Blocked"}
       [] outcome = "escalated" -> {"InProgress"}
       [] outcome = "aborted"   -> Interim(t, before)
       [] outcome = "raised"    -> Interim(t, before)
                                     \cup {FailureState(t), "Blocked", "InProgress", Delivered(t)})
    \cup (IF lossy THEN Interim(t, before) ELSE {})
=============================================================================
