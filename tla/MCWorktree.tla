----------------------------- MODULE MCWorktree -----------------------------
(* Two workers on which TLC runs Worktree: A's edits and results and what may     *)
(* befall them, while B only takes part in the hand-over of the plan file.        *)
EXTENDS Worktree

Pair == {"A", "B"}
PairEdits == [A |-> 2, B |-> 0]
PairFaults == [A |-> FaultKind, B |-> {}]

(* B is dispatched while A has made one edit at most: edits and plan files have    *)
(* nothing to do with each other, and one edit is enough to take every step.       *)
OneThingAtATime == made["A"] <= 1 \/ phase["B"] = "ready"
=============================================================================
