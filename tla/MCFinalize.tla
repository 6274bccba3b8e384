----------------------------- MODULE MCFinalize -----------------------------
(* Small reap waves on which TLC runs the threads of Finalize. *)
EXTENDS Finalize

Failing(base, escalate, retries, policy) ==
    [base |-> base, escalate |-> escalate, retries |-> retries, onCheckFailure |-> policy]

(* Two workers of one epic: A asks for more retries than the code allows, B goes *)
(* on with failed checks.                                                        *)
Twins == {"A", "B"}
TwinManifest == [A |-> Failing("epic/x", FALSE, 2, "abort"),
                 B |-> Failing("epic/x", TRUE, 0, "warn")]
TwinFaults == [A |-> FaultKind, B |-> {"gh"}]

(* One worker alone, whose steps all succeed. *)
Single == {"A"}
RetriedManifest == [A |-> Failing("main", FALSE, 1, "abort")]
NoFaults == [A |-> {}]
=============================================================================
