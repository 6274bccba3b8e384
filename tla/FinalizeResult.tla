--------------------------- MODULE FinalizeResult ---------------------------
(***************************************************************************)
(* What the reap loop relies on when it joins the finalize threads of one  *)
(* poll: each call ends once, with a result and a workflow state that      *)
(* agree.  Module Finalize implements this, FinalizeWorker of module       *)
(* Watcher takes its one step.                                             *)
(***************************************************************************)
EXTENDS Outcomes

CONSTANT Lossy  \* tickets whose state writes Linear may refuse

VARIABLES
    result,  \* result[t]: what the call for t reported, "none" while it runs
    state    \* state[t]: t's workflow state once the call has ended

FinalizeInit ==
    /\ result = [t \in Ticket |-> "none"]
    /\ state = [t \in Ticket |-> "InProgressLocal"]

Finish(t) ==
    /\ result[t] = "none"
    /\ \E outcome \in OutcomeKind, s \in LinearState :
        /\ s \in FinalStates(t, outcome, state[t], t \in Lossy)
        /\ result' = [result EXCEPT ![t] = outcome]
        /\ state' = [state EXCEPT ![t] = s]

FinalizeSpec ==
    FinalizeInit /\ [][\E t \in Ticket : Finish(t)]_<<result, state>>
=============================================================================
