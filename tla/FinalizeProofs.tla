--------------------------- MODULE FinalizeProofs ---------------------------
(***************************************************************************)
(* Proofs about the finalize threads of module Finalize, for every wave of *)
(* tickets, every manifest and every set of faults.                        *)
(***************************************************************************)
EXTENDS Finalize, TLAPS

Finalizing == {"gates", "execute", "checks", "policy", "squash", "waiting",
               "rebase", "create", "merge", "deliver"}

\* While a thread is finalizing, one more attempt is within its budget.
AttemptsOK == \A t \in Ticket : pc[t] \in Finalizing => attempts[t] <= MaxRetries(t)

Inv == TypeOK /\ AttemptsOK

LEMMA RetryBudget ==
  ASSUME NEW t \in Ticket
  PROVE  MaxRetries(t) \in 0 .. AttemptHardcap /\ AttemptHardcap = 1
BY FailurePolicyAssumption DEF MaxRetries, AttemptHardcap

LEMMA BaseType ==
  ASSUME NEW t \in Ticket
  PROVE  BaseOf(t) \in Base
BY DEF BaseOf, Base

LEMMA StateType ==
  ASSUME NEW t \in Ticket
  PROVE  Delivered(t) \in LinearState /\ FailureState(t) \in LinearState
BY DEF Delivered, FailureState, LinearState

LEMMA SetStateType ==
  ASSUME TypeOK, NEW t \in Ticket, NEW s \in LinearState, SetState(t, s)
  PROVE  linear' \in [Ticket -> LinearState]
BY DEF TypeOK, SetState, SetTo

LEMMA CommitWipType ==
  ASSUME TypeOK, NEW t \in Ticket, NEW status, NEW backups, CommitWip(t, status, backups)
  PROVE  /\ dirty' \in [Ticket -> DirtyKind]
         /\ saved' \in [Ticket -> BOOLEAN]
         /\ ahead' \in [Ticket -> BOOLEAN]
BY DEF TypeOK, CommitWip, SetTo, Committed, NotCommitted, DirtyKind

LEMMA InitInv == Init => Inv
<1> SUFFICES ASSUME Init PROVE Inv
  OBVIOUS
<1>1. /\ pc \in [Ticket -> Step]
      /\ linear \in [Ticket -> LinearState]
      /\ attempts \in [Ticket -> 0 .. AttemptHardcap + 1]
      /\ outcome \in [Ticket -> (OutcomeKind \ {"raised"}) \cup {"none"}]
  BY DEF Init, Step, LinearState, AttemptHardcap
<1>2. head \in [Base -> 0 .. MaxHead] /\ onto \in [Ticket -> 0 .. MaxHead]
  BY FinalizeAssumption DEF Init
<1>3. dirty \in [Ticket -> DirtyKind] /\ ahead \in [Ticket -> BOOLEAN]
  BY DEF Init
<1>4. TypeOK
  BY <1>1, <1>2, <1>3 DEF Init, TypeOK
<1>5. AttemptsOK
  BY RetryBudget DEF Init, AttemptsOK
<1> QED
  BY <1>4, <1>5 DEF Inv

\* The steps up to the verdict of the checks.
LEMMA ChecksInv ==
  ASSUME Inv, NEW t \in Ticket,
         \/ RefusedByGate(t) \/ PassGates(t) \/ WorkerFailed(t) \/ TrustWorker(t)
         \/ ChecksPass(t) \/ ChecksIgnored(t) \/ ChecksFail(t)
  PROVE  Inv'
<1> USE DEF At, SetTo, Returned, Finalizing, Step
<1>1. TypeOK /\ AttemptsOK
  BY DEF Inv
<1>2. MaxRetries(t) \in 0 .. AttemptHardcap /\ AttemptHardcap = 1
  BY RetryBudget
<1>3. attempts[t] \in 0 .. AttemptHardcap + 1 /\ pc[t] \in Step
  BY <1>1 DEF TypeOK
<1>4. ASSUME RefusedByGate(t) PROVE Inv'
  <2>1. linear' \in [Ticket -> LinearState]
    BY <1>1, <1>4, SetStateType, StateType DEF RefusedByGate
  <2>2. TypeOK'
    BY <1>1, <1>4, <2>1 DEF RefusedByGate, TypeOK, OutcomeKind, files, remote
  <2>3. AttemptsOK'
    BY <1>1, <1>4 DEF RefusedByGate, TypeOK, AttemptsOK
  <2> QED
    BY <2>2, <2>3 DEF Inv
<1>5. ASSUME PassGates(t) \/ TrustWorker(t) PROVE Inv'
  <2>1. TypeOK'
    BY <1>1, <1>5 DEF PassGates, TrustWorker, thread, files, reports, remote, TypeOK
  <2>2. AttemptsOK'
    BY <1>1, <1>5 DEF PassGates, TrustWorker, thread, TypeOK, AttemptsOK
  <2> QED
    BY <2>1, <2>2 DEF Inv
<1>6. ASSUME WorkerFailed(t) PROVE Inv'
  <2>1. linear' \in [Ticket -> LinearState]
    BY <1>1, <1>6, SetStateType, StateType DEF WorkerFailed
  <2>2. attempts[t] <= MaxRetries(t)
    BY <1>1, <1>6 DEF WorkerFailed, AttemptsOK
  <2>3. attempts' \in [Ticket -> 0 .. AttemptHardcap + 1]
    BY <1>1, <1>2, <1>3, <1>6, <2>2 DEF WorkerFailed, TypeOK
  <2>4. TypeOK'
    BY <1>1, <1>6, <2>1, <2>3 DEF WorkerFailed, files, reports, remote, TypeOK, OutcomeKind
  <2>5. AttemptsOK'
    BY <1>1, <1>6 DEF WorkerFailed, TypeOK, AttemptsOK
  <2> QED
    BY <2>4, <2>5 DEF Inv
<1>7. ASSUME ChecksPass(t) \/ ChecksIgnored(t) PROVE Inv'
  <2>1. TypeOK'
    BY <1>1, <1>7 DEF ChecksPass, ChecksIgnored, thread, files, remote, TypeOK
  <2>2. AttemptsOK'
    BY <1>1, <1>7 DEF ChecksPass, ChecksIgnored, thread, TypeOK, AttemptsOK
  <2> QED
    BY <2>1, <2>2 DEF Inv
<1>8. ASSUME ChecksFail(t) PROVE Inv'
  <2>1. linear' \in [Ticket -> LinearState]
    BY <1>1, <1>8, SetStateType, StateType DEF ChecksFail
  <2>2. attempts[t] <= MaxRetries(t)
    BY <1>1, <1>8 DEF ChecksFail, AttemptsOK
  <2>3. /\ attempts' = [attempts EXCEPT ![t] = attempts[t] + 1]
        /\ attempts' \in [Ticket -> 0 .. AttemptHardcap + 1]
    BY <1>1, <1>2, <1>3, <1>8, <2>2 DEF ChecksFail, TypeOK
  <2>4. pc' \in [Ticket -> Step] /\ rerun' \in [Ticket -> {"none", "running", "exited"}]
    BY <1>1, <1>8 DEF ChecksFail, TypeOK
  <2>5. TypeOK'
    BY <1>1, <1>8, <2>1, <2>3, <2>4 DEF ChecksFail, files, remote, TypeOK, OutcomeKind
  <2>6. AttemptsOK'
    <3>1. /\ \A u \in Ticket \ {t} : pc'[u] = pc[u] /\ attempts'[u] = attempts[u]
          /\ pc'[t] \in Finalizing => attempts'[t] <= MaxRetries(t)
      BY <1>1, <1>8, <2>3 DEF ChecksFail, TypeOK
    <3> QED
      BY <1>1, <3>1 DEF AttemptsOK
  <2> QED
    BY <2>5, <2>6 DEF Inv
<1> QED
  BY <1>4, <1>5, <1>6, <1>7, <1>8

\* The answers of the policy, and the squash.
LEMMA PolicyInv ==
  ASSUME Inv, NEW t \in Ticket,
         \/ FixLocally(t) \/ HandOver(t, "escalated") \/ HandOver(t, "aborted")
         \/ UnknownTrigger(t) \/ Squash(t)
  PROVE  Inv'
<1> USE DEF At, SetTo, Returned, Finalizing, Step
<1>1. TypeOK /\ AttemptsOK
  BY DEF Inv
<1>2. MaxRetries(t) \in 0 .. AttemptHardcap /\ AttemptHardcap = 1
  BY RetryBudget
<1>3. attempts[t] \in 0 .. AttemptHardcap + 1
  BY <1>1 DEF TypeOK
<1>4. ASSUME FixLocally(t) PROVE Inv'
  <2>1. TypeOK'
    BY <1>1, <1>4 DEF FixLocally, Published, files, remote, TypeOK
  <2>2. AttemptsOK'
    BY <1>1, <1>4 DEF FixLocally, TypeOK, AttemptsOK
  <2> QED
    BY <2>1, <2>2 DEF Inv
<1>5. ASSUME NEW result \in {"escalated", "aborted"}, HandOver(t, result) PROVE Inv'
  <2>1. linear' \in [Ticket -> LinearState]
    BY <1>1, <1>5, SetStateType DEF HandOver, LinearState, TypeOK
  <2>2. attempts[t] <= MaxRetries(t)
    BY <1>1, <1>5 DEF HandOver, AttemptsOK
  <2>3. attempts' \in [Ticket -> 0 .. AttemptHardcap + 1]
    BY <1>1, <1>2, <1>3, <1>5, <2>2 DEF HandOver, TypeOK
  <2>4. TypeOK'
    BY <1>1, <1>5, <2>1, <2>3 DEF HandOver, Published, files, remote, TypeOK, OutcomeKind
  <2>5. AttemptsOK'
    BY <1>1, <1>5 DEF HandOver, TypeOK, AttemptsOK
  <2> QED
    BY <2>4, <2>5 DEF Inv
<1>6. ASSUME UnknownTrigger(t) PROVE Inv'
  <2>1. TypeOK'
    BY <1>1, <1>6 DEF UnknownTrigger, Published, thread, files, remote, TypeOK
  <2>2. AttemptsOK'
    BY <1>1, <1>6 DEF UnknownTrigger, thread, TypeOK, AttemptsOK
  <2> QED
    BY <2>1, <2>2 DEF Inv
<1>7. ASSUME Squash(t) PROVE Inv'
  <2>1. TypeOK'
    BY <1>1, <1>7 DEF Squash, thread, reports, remote, TypeOK, DirtyKind
  <2>2. AttemptsOK'
    BY <1>1, <1>7 DEF Squash, thread, TypeOK, AttemptsOK
  <2> QED
    BY <2>1, <2>2 DEF Inv
<1> QED
  BY <1>4, <1>5, <1>6, <1>7

LEMMA LockType ==
  ASSUME TypeOK, NEW t \in Ticket
  PROVE  Released(t) \in [Base -> Ticket \cup {NoTicket}]
BY BaseType DEF TypeOK, Released

LEMMA PrFailsInv ==
  ASSUME Inv, NEW t \in Ticket, pc[t] \in {"rebase", "create"}, PrFails(t)
  PROVE  Inv'
<1> USE DEF SetTo, Returned, Finalizing, Step
<1>1. TypeOK /\ AttemptsOK
  BY DEF Inv
<1>2. MaxRetries(t) \in 0 .. AttemptHardcap /\ AttemptHardcap = 1
  BY RetryBudget
<1>3. attempts[t] \in 0 .. AttemptHardcap + 1 /\ attempts[t] <= MaxRetries(t)
  BY <1>1 DEF TypeOK, AttemptsOK
<1>4. linear' \in [Ticket -> LinearState]
  BY <1>1, SetStateType DEF PrFails, LinearState
<1>5. attempts' \in [Ticket -> 0 .. AttemptHardcap + 1]
  BY <1>1, <1>2, <1>3 DEF PrFails, TypeOK
<1>6. /\ dirty' \in [Ticket -> DirtyKind]
      /\ saved' \in [Ticket -> BOOLEAN]
      /\ ahead' \in [Ticket -> BOOLEAN]
  <2>1. PICK status \in WipStatus : CommitWip(t, status, FALSE)
    BY DEF PrFails
  <2> QED
    BY <1>1, <2>1, CommitWipType
<1>7. lock' \in [Base -> Ticket \cup {NoTicket}]
  BY <1>1, LockType DEF PrFails
<1>8. TypeOK'
  BY <1>1, <1>4, <1>5, <1>6, <1>7 DEF PrFails, remote, TypeOK, OutcomeKind
<1>9. AttemptsOK'
  BY <1>1 DEF PrFails, TypeOK, AttemptsOK
<1> QED
  BY <1>8, <1>9 DEF Inv

\* The pull-request section.
LEMMA PrInv ==
  ASSUME Inv, NEW t \in Ticket,
         \/ EnterPr(t) \/ Rebase(t) \/ RebaseFails(t) \/ CreatePr(t) \/ CreateFails(t)
         \/ MergePr(t) \/ Deliver(t)
  PROVE  Inv'
<1> USE DEF At, SetTo, Returned, Finalizing, Step
<1>1. TypeOK /\ AttemptsOK
  BY DEF Inv
<1>2. BaseOf(t) \in Base /\ MaxHead \in Nat
  BY BaseType, FinalizeAssumption
<1>3. ASSUME EnterPr(t) PROVE Inv'
  <2>1. TypeOK'
    BY <1>1, <1>2, <1>3 DEF EnterPr, thread, files, reports, remote, TypeOK
  <2>2. AttemptsOK'
    BY <1>1, <1>3 DEF EnterPr, thread, TypeOK, AttemptsOK
  <2> QED
    BY <2>1, <2>2 DEF Inv
<1>4. ASSUME Rebase(t) PROVE Inv'
  <2>1. TypeOK'
    BY <1>1, <1>2, <1>4 DEF Rebase, thread, files, reports, TypeOK
  <2>2. AttemptsOK'
    BY <1>1, <1>4 DEF Rebase, thread, TypeOK, AttemptsOK
  <2> QED
    BY <2>1, <2>2 DEF Inv
<1>5. ASSUME RebaseFails(t) \/ CreateFails(t) PROVE Inv'
  BY <1>5, PrFailsInv DEF RebaseFails, CreateFails
<1>6. ASSUME CreatePr(t) PROVE Inv'
  <2>1. TypeOK'
    BY <1>1, <1>6 DEF CreatePr, thread, files, reports, TypeOK
  <2>2. AttemptsOK'
    BY <1>1, <1>6 DEF CreatePr, thread, TypeOK, AttemptsOK
  <2> QED
    BY <2>1, <2>2 DEF Inv
<1>7. ASSUME MergePr(t) PROVE Inv'
  <2>1. lock' \in [Base -> Ticket \cup {NoTicket}]
    BY <1>1, <1>7, LockType DEF MergePr
  <2>2. head' \in [Base -> 0 .. MaxHead]
    BY <1>1, <1>2, <1>7 DEF MergePr, TypeOK
  <2>3. TypeOK'
    BY <1>1, <1>7, <2>1, <2>2 DEF MergePr, thread, files, reports, TypeOK
  <2>4. AttemptsOK'
    BY <1>1, <1>7 DEF MergePr, thread, TypeOK, AttemptsOK
  <2> QED
    BY <2>3, <2>4 DEF Inv
<1>8. ASSUME Deliver(t) PROVE Inv'
  <2>1. linear' \in [Ticket -> LinearState]
    BY <1>1, <1>8, SetStateType, StateType DEF Deliver
  <2>2. attempts[t] \in 0 .. AttemptHardcap + 1 /\ attempts[t] <= MaxRetries(t)
    BY <1>1, <1>8 DEF Deliver, TypeOK, AttemptsOK
  <2>3. attempts' \in [Ticket -> 0 .. AttemptHardcap + 1]
    BY <1>1, <1>8, <2>2, RetryBudget DEF Deliver, TypeOK
  <2>4. TypeOK'
    BY <1>1, <1>8, <2>1, <2>3 DEF Deliver, files, reports, remote, TypeOK, OutcomeKind
  <2>5. AttemptsOK'
    BY <1>1, <1>8 DEF Deliver, TypeOK, AttemptsOK
  <2> QED
    BY <2>4, <2>5 DEF Inv
<1> QED
  BY <1>3, <1>4, <1>5, <1>6, <1>7, <1>8

\* The wrap-up, and exceptions.
LEMMA WrapUpInv ==
  ASSUME Inv, NEW t \in Ticket, Record(t) \/ PreserveWip(t) \/ CleanUp(t) \/ Raise(t)
  PROVE  Inv'
<1> USE DEF At, SetTo, Finalizing, Step
<1>1. TypeOK /\ AttemptsOK
  BY DEF Inv
<1>2. ASSUME Record(t) PROVE Inv'
  <2>1. TypeOK'
    BY <1>1, <1>2 DEF Record, thread, files, remote, TypeOK
  <2>2. AttemptsOK'
    BY <1>1, <1>2 DEF Record, thread, TypeOK, AttemptsOK
  <2> QED
    BY <2>1, <2>2 DEF Inv
<1>3. ASSUME PreserveWip(t) PROVE Inv'
  <2>1. PICK status \in WipStatus : CommitWip(t, status, TRUE) /\ wip' = [wip EXCEPT ![t] = status]
    BY <1>3 DEF PreserveWip
  <2>2. /\ dirty' \in [Ticket -> DirtyKind]
        /\ saved' \in [Ticket -> BOOLEAN]
        /\ ahead' \in [Ticket -> BOOLEAN]
    BY <1>1, <2>1, CommitWipType
  <2>3. TypeOK'
    BY <1>1, <1>3, <2>1, <2>2 DEF PreserveWip, remote, TypeOK
  <2>4. AttemptsOK'
    BY <1>1, <1>3 DEF PreserveWip, TypeOK, AttemptsOK
  <2> QED
    BY <2>3, <2>4 DEF Inv
<1>4. ASSUME CleanUp(t) PROVE Inv'
  <2>1. TypeOK'
    BY <1>1, <1>4 DEF CleanUp, thread, reports, remote, TypeOK
  <2>2. AttemptsOK'
    BY <1>1, <1>4 DEF CleanUp, thread, TypeOK, AttemptsOK
  <2> QED
    BY <2>1, <2>2 DEF Inv
<1>5. ASSUME Raise(t) PROVE Inv'
  <2>1. lock' \in [Base -> Ticket \cup {NoTicket}]
    BY <1>1, <1>5, LockType DEF Raise, TypeOK
  <2>2. TypeOK'
    BY <1>1, <1>5, <2>1 DEF Raise, thread, files, reports, remote, TypeOK
  <2>3. AttemptsOK'
    BY <1>1, <1>5 DEF Raise, thread, TypeOK, AttemptsOK
  <2> QED
    BY <2>2, <2>3 DEF Inv
<1> QED
  BY <1>2, <1>3, <1>4, <1>5

\* The relaunched process.
LEMMA EnvironmentInv ==
  ASSUME Inv, NEW t \in Ticket, RerunWrites(t) \/ RerunExits(t)
  PROVE  Inv'
<1> USE DEF SetTo, thread, reports
<1>1. TypeOK /\ AttemptsOK
  BY DEF Inv
<1>2. TypeOK'
  <2>1. ASSUME RerunWrites(t) PROVE TypeOK'
    <3>1. /\ dirty' \in [Ticket -> DirtyKind] /\ saved' \in [Ticket -> BOOLEAN]
          /\ ahead' \in [Ticket -> BOOLEAN]
      BY <1>1, <2>1 DEF RerunWrites, Committed, TypeOK, DirtyKind
    <3> QED
      BY <1>1, <2>1, <3>1 DEF RerunWrites, remote, TypeOK
  <2> QED
    BY <1>1, <2>1 DEF RerunExits, files, remote, TypeOK
<1>3. AttemptsOK'
  BY <1>1 DEF RerunWrites, RerunExits, AttemptsOK
<1> QED
  BY <1>2, <1>3 DEF Inv

LEMMA StutterInv == Inv /\ UNCHANGED vars => Inv'
BY DEF vars, thread, files, reports, remote, Inv, TypeOK, AttemptsOK

LEMMA NextInv == Inv /\ [Next]_vars => Inv'
<1> SUFFICES ASSUME Inv, Next PROVE Inv'
  BY StutterInv
<1>1. ASSUME NEW t \in Ticket, Thread(t) PROVE Inv'
  BY <1>1, ChecksInv, PolicyInv, PrInv, WrapUpInv DEF Thread
<1> QED
  BY <1>1, EnvironmentInv DEF Next

LEMMA SpecInv == Spec => []Inv
<1>1. Init => Inv
  BY InitInv
<1>2. Inv /\ [Next]_vars => Inv'
  BY NextInv
<1> QED
  BY <1>1, <1>2, PTL DEF Spec

\* The variables of finalize_worker keep their types; in particular no worker
\* is attempted more often than ATTEMPT_HARDCAP allows.
THEOREM FinalizeTypeCorrect == Spec => []TypeOK
<1>1. Inv => TypeOK
  BY DEF Inv
<1> QED
  BY <1>1, SpecInv, PTL
-----------------------------------------------------------------------------
(* The lock of a base branch *)

\* A thread in the pull-request section holds the lock of its base.
LockOK ==
    \A t \in Ticket : pc[t] \in {"rebase", "create", "merge"} => lock[BaseOf(t)] = t

\* A rebased branch is still on the head of its base when the pull request is created.
OntoOK ==
    \A t \in Ticket :
        pc[t] = "create" => onto[t] = head[BaseOf(t)]

Exclusion == LockOK /\ OntoOK

\* Steps of a thread outside the section touch nothing of it.
LEMMA OutsideExclusion ==
  ASSUME TypeOK, Exclusion, NEW t \in Ticket, UNCHANGED <<lock, head, onto>>,
         \E p \in Step \ {"rebase", "create"} :
            /\ pc' = [pc EXCEPT ![t] = p]
            /\ p = "merge" => pc[t] = "create"
  PROVE  Exclusion'
BY DEF TypeOK, Exclusion, LockOK, OntoOK

\* A thread that leaves the section takes its own lock with it.
LEMMA LeaveExclusion ==
  ASSUME TypeOK, Exclusion, NEW t \in Ticket, pc[t] \in {"rebase", "create", "merge"},
         lock' = Released(t), UNCHANGED onto,
         \E p \in Step \ {"rebase", "create", "merge"} : pc' = [pc EXCEPT ![t] = p],
         \/ UNCHANGED head
         \/ head' = [head EXCEPT ![BaseOf(t)] = @ + 1]
  PROVE  Exclusion'
<1>1. lock[BaseOf(t)] = t /\ BaseOf(t) \in Base
  BY BaseType DEF Exclusion, LockOK
<1>2. ASSUME NEW u \in Ticket, u # t, pc[u] \in {"rebase", "create", "merge"}
      PROVE  BaseOf(u) # BaseOf(t) /\ lock[BaseOf(u)] = u
  BY <1>1, <1>2 DEF Exclusion, LockOK
<1>3. LockOK'
  BY <1>1, <1>2, BaseType DEF TypeOK, LockOK, Released, BaseOf
<1>4. OntoOK'
  <2>1. ASSUME NEW u \in Ticket, pc'[u] = "create" PROVE u # t /\ pc[u] = "create"
    BY <2>1 DEF TypeOK
  <2>2. ASSUME NEW u \in Ticket, pc'[u] = "create" PROVE head'[BaseOf(u)] = head[BaseOf(u)]
    BY <1>2, <2>1, <2>2, BaseType DEF TypeOK
  <2> QED
    BY <2>1, <2>2 DEF Exclusion, OntoOK, BaseOf
<1> QED
  BY <1>3, <1>4 DEF Exclusion

LEMMA ThreadExclusion ==
  ASSUME TypeOK, Exclusion, NEW t \in Ticket, Thread(t)
  PROVE  Exclusion'
<1> USE DEF At, SetTo, Step
<1>1. ASSUME \/ RefusedByGate(t) \/ PassGates(t) \/ WorkerFailed(t) \/ TrustWorker(t)
             \/ ChecksPass(t) \/ ChecksIgnored(t) \/ ChecksFail(t)
      PROVE  Exclusion'
  BY <1>1, OutsideExclusion
  DEF RefusedByGate, PassGates, WorkerFailed, TrustWorker, ChecksPass, ChecksIgnored,
      ChecksFail, remote
<1>2. ASSUME \/ FixLocally(t) \/ HandOver(t, "escalated") \/ HandOver(t, "aborted")
             \/ UnknownTrigger(t) \/ Squash(t) \/ CreatePr(t) \/ Deliver(t)
      PROVE  Exclusion'
  BY <1>2, OutsideExclusion
  DEF FixLocally, HandOver, UnknownTrigger, Squash, CreatePr, Deliver, remote
<1>3. ASSUME Record(t) \/ PreserveWip(t) \/ CleanUp(t) PROVE Exclusion'
  <2>1. UNCHANGED <<lock, head, onto>>
    BY <1>3 DEF Record, PreserveWip, CleanUp, remote
  <2>2. \E p \in {"wip", "cleanup", "done"} : pc' = [pc EXCEPT ![t] = p]
    BY <1>3 DEF Record, PreserveWip, CleanUp
  <2> QED
    BY <2>1, <2>2, OutsideExclusion
<1>4. ASSUME Raise(t) PROVE Exclusion'
  <2>1. ASSUME pc[t] \in {"rebase", "create"} PROVE Exclusion'
    BY <1>4, <2>1, LeaveExclusion DEF Raise, remote
  <2>2. ASSUME pc[t] \notin {"rebase", "create"} PROVE Exclusion'
    <3>1. UNCHANGED <<lock, head, onto>>
      BY <1>4, <2>2 DEF Raise, remote
    <3>2. \E p \in {"raised"} : pc' = [pc EXCEPT ![t] = p]
      BY <1>4 DEF Raise
    <3> QED
      BY <3>1, <3>2, OutsideExclusion
  <2> QED
    BY <2>1, <2>2
<1>5. ASSUME RebaseFails(t) \/ CreateFails(t) PROVE Exclusion'
  BY <1>5, LeaveExclusion DEF RebaseFails, CreateFails, PrFails, remote
<1>6. ASSUME MergePr(t) PROVE Exclusion'
  BY <1>6, LeaveExclusion DEF MergePr
<1>7. ASSUME EnterPr(t) PROVE Exclusion'
  <2>1. \A u \in Ticket : BaseOf(u) = BaseOf(t) => pc[u] \notin {"rebase", "create", "merge"}
    BY <1>7, FinalizeAssumption DEF EnterPr, LockFree, Exclusion, LockOK
  <2>2. LockOK'
    BY <1>7, <2>1, BaseType DEF EnterPr, TypeOK, Exclusion, LockOK, BaseOf
  <2>3. OntoOK'
    BY <1>7 DEF EnterPr, remote, TypeOK, Exclusion, OntoOK, BaseOf
  <2> QED
    BY <2>2, <2>3 DEF Exclusion
<1>8. ASSUME Rebase(t) PROVE Exclusion'
  BY <1>8, BaseType DEF Rebase, TypeOK, Exclusion, LockOK, OntoOK, BaseOf
<1> QED
  BY <1>1, <1>2, <1>3, <1>4, <1>5, <1>6, <1>7, <1>8 DEF Thread

LEMMA NextExclusion == TypeOK /\ Exclusion /\ [Next]_vars => Exclusion'
<1> SUFFICES ASSUME TypeOK, Exclusion, [Next]_vars PROVE Exclusion'
  OBVIOUS
<1>1. ASSUME NEW t \in Ticket, RerunWrites(t) \/ RerunExits(t) PROVE Exclusion'
  BY <1>1 DEF RerunWrites, RerunExits, remote, Exclusion, LockOK, OntoOK, BaseOf
<1>2. ASSUME UNCHANGED vars PROVE Exclusion'
  BY <1>2 DEF vars, remote, Exclusion, LockOK, OntoOK, BaseOf
<1> QED
  BY <1>1, <1>2, ThreadExclusion DEF Next

LEMMA SpecExclusion == Spec => []Exclusion
<1>1. Init => Exclusion
  BY DEF Init, Exclusion, LockOK, OntoOK
<1>2. TypeOK /\ Exclusion /\ [Next]_vars => Exclusion'
  BY NextExclusion
<1> QED
  BY <1>1, <1>2, FinalizeTypeCorrect, PTL DEF Spec

\* No sibling of the wave merges between a branch's rebase and its pull request,
\* however many threads finalize at once (create_pr, _get_pr_lock).
THEOREM PullRequestsAreCurrent == Spec => PrOpensOnCurrentBase
<1> DEFINE Current(t) ==
        ~ opened[t] /\ opened'[t] => onto[t] = head[BaseOf(t)]
<1>1. TypeOK /\ Exclusion /\ [Next]_vars => [\A t \in Ticket : Current(t)]_vars
  <2> SUFFICES ASSUME TypeOK, OntoOK, Next, NEW t \in Ticket, ~ opened[t], opened'[t]
               PROVE  onto[t] = head[BaseOf(t)]
    BY DEF Exclusion
  <2>1. pc[t] = "create"
    <3>1. PICK u \in Ticket : CreatePr(u)
      BY DEF Next, Thread, RefusedByGate, PassGates, WorkerFailed, TrustWorker, ChecksPass,
             ChecksIgnored, ChecksFail, FixLocally, HandOver, UnknownTrigger, Squash, EnterPr,
             Rebase, RebaseFails, CreateFails, PrFails, MergePr, Deliver, Record, PreserveWip,
             CleanUp, Raise, RerunWrites, RerunExits, remote
    <3>2. u = t
      BY <3>1 DEF CreatePr, TypeOK
    <3> QED
      BY <3>1, <3>2 DEF CreatePr, At
  <2> QED
    BY <2>1 DEF OntoOK
<1>2. Spec => [][\A t \in Ticket : Current(t)]_vars
  BY <1>1, FinalizeTypeCorrect, SpecExclusion, PTL DEF Spec
<1> QED
  BY <1>2 DEF PrOpensOnCurrentBase
-----------------------------------------------------------------------------
(* The worktree *)

\* When the worktree may go, no edit is only there.
SalvageOK ==
    \A t \in Ticket :
        pc[t] = "cleanup" /\ MayRemove(wip[t]) /\ rerun[t] = "none" => ~ IsDirty(t) \/ saved[t]

\* What another thread, or this one before the wrap-up, does to t's worktree.
LEMMA SalvageFrame ==
  ASSUME TypeOK, SalvageOK, NEW t \in Ticket,
         pc'[t] = "cleanup" => pc[t] = "cleanup",
         UNCHANGED <<wip[t], dirty[t], saved[t], rerun[t]>>
  PROVE  pc'[t] = "cleanup" /\ MayRemove(wip'[t]) /\ rerun'[t] = "none"
         => dirty'[t] = "none" \/ saved'[t]
BY DEF SalvageOK, MayRemove, IsDirty

LEMMA ThreadSalvage ==
  ASSUME TypeOK, SalvageOK, NEW t \in Ticket, Thread(t)
  PROVE  SalvageOK'
<1> USE DEF At, SetTo
<1>1. ASSUME NEW u \in Ticket, u # t
      PROVE  pc'[u] = "cleanup" /\ MayRemove(wip'[u]) /\ rerun'[u] = "none"
             => dirty'[u] = "none" \/ saved'[u]
  <2>1. pc'[u] = pc[u] /\ wip'[u] = wip[u] /\ rerun'[u] = rerun[u]
    BY <1>1 DEF Thread, RefusedByGate, PassGates, WorkerFailed, TrustWorker, ChecksPass,
             ChecksIgnored, ChecksFail, FixLocally, HandOver, UnknownTrigger, Squash, EnterPr,
             Rebase, RebaseFails, CreatePr, CreateFails, PrFails, MergePr, Deliver, Record,
             PreserveWip, CleanUp, Raise, thread, TypeOK
  <2>2. dirty'[u] = dirty[u] /\ saved'[u] = saved[u]
    BY <1>1 DEF Thread, RefusedByGate, PassGates, WorkerFailed, TrustWorker, ChecksPass,
             ChecksIgnored, ChecksFail, FixLocally, HandOver, UnknownTrigger, Squash, EnterPr,
             Rebase, RebaseFails, CreatePr, CreateFails, PrFails, MergePr, Deliver, Record,
             PreserveWip, CleanUp, Raise, CommitWip, Committed, NotCommitted, files, TypeOK
  <2> QED
    BY <2>1, <2>2, SalvageFrame
<1>2. pc'[t] = "cleanup" /\ MayRemove(wip'[t]) /\ rerun'[t] = "none" => dirty'[t] = "none" \/ saved'[t]
  <2>1. ASSUME PreserveWip(t), MayRemove(wip'[t]) PROVE dirty'[t] = "none" \/ saved'[t]
    BY <2>1 DEF PreserveWip, CommitWip, Committed, NotCommitted, IsDirty, MayRemove, WipStatus, TypeOK
  <2>2. ASSUME ~ PreserveWip(t) PROVE pc'[t] # "cleanup"
    BY <2>2 DEF Thread, RefusedByGate, PassGates, WorkerFailed, TrustWorker, ChecksPass,
             ChecksIgnored, ChecksFail, FixLocally, HandOver, UnknownTrigger, Squash, EnterPr,
             Rebase, RebaseFails, CreatePr, CreateFails, PrFails, MergePr, Deliver, Record,
             CleanUp, Raise, TypeOK
  <2> QED
    BY <2>1, <2>2
<1> QED
  BY <1>1, <1>2 DEF SalvageOK, IsDirty

LEMMA NextSalvage == TypeOK /\ SalvageOK /\ [Next]_vars => SalvageOK'
<1> SUFFICES ASSUME TypeOK, SalvageOK, [Next]_vars PROVE SalvageOK'
  OBVIOUS
<1>1. ASSUME NEW t \in Ticket, RerunWrites(t) \/ RerunExits(t) PROVE SalvageOK'
  BY <1>1 DEF RerunWrites, RerunExits, Committed, SetTo, thread, files, TypeOK, SalvageOK,
              MayRemove, IsDirty
<1>2. ASSUME UNCHANGED vars PROVE SalvageOK'
  BY <1>2 DEF vars, thread, files, SalvageOK, MayRemove, IsDirty
<1> QED
  BY <1>1, <1>2, ThreadSalvage DEF Next

\* No worktree is removed with edits that are in no commit and in no backup,
\* whichever step of commit_wip_state failed; a relaunched worker apart.
THEOREM UncommittedWorkSurvives == Spec => WorkSurvives
<1> DEFINE Kept(t) == Removed(t) /\ rerun[t] = "none" => ~ IsDirty(t) \/ saved[t]
<1>1. Init => SalvageOK
  BY DEF Init, SalvageOK
<1>2. TypeOK /\ SalvageOK /\ [Next]_vars => [\A t \in Ticket : Kept(t)]_vars
  <2> SUFFICES ASSUME TypeOK, SalvageOK, Next, NEW t \in Ticket, tree[t], ~ tree'[t],
                      rerun[t] = "none"
               PROVE  ~ IsDirty(t) \/ saved[t]
    BY DEF Removed
  <2>1. PICK u \in Ticket : CleanUp(u)
    BY DEF Next, Thread, RefusedByGate, PassGates, WorkerFailed, TrustWorker, ChecksPass,
           ChecksIgnored, ChecksFail, FixLocally, HandOver, UnknownTrigger, Squash, EnterPr,
           Rebase, RebaseFails, CreatePr, CreateFails, PrFails, MergePr, Deliver, Record,
           PreserveWip, Raise, RerunWrites, RerunExits, files
  <2>2. u = t /\ MayRemove(wip[t]) /\ pc[t] = "cleanup"
    BY <2>1 DEF CleanUp, At, SetTo, TypeOK
  <2> QED
    BY <2>2 DEF SalvageOK
<1>3. Spec => [][\A t \in Ticket : Kept(t)]_vars
  BY <1>1, <1>2, NextSalvage, FinalizeTypeCorrect, PTL DEF Spec
<1> QED
  BY <1>3 DEF WorkSurvives
-----------------------------------------------------------------------------
(* Finalize implements FinalizeResult *)

\* The states a call for t may leave it in, from where the reap loop finds it.
Allowed(t, result) == FinalStates(t, result, "InProgressLocal", t \in lossy)

\* Before its result is known t is where an attempt may leave it; afterwards, where
\* the result allows.
ResultOK ==
    \A t \in Ticket :
        /\ pc[t] \in Finalizing => linear[t] \in Interim(t, "InProgressLocal")
        /\ pc[t] \in {"record", "wip", "cleanup"} =>
              outcome[t] \in OutcomeKind \ {"raised"} /\ linear[t] \in Allowed(t, outcome[t])

LEMMA SameContract ==
  ASSUME NEW t \in Ticket, NEW result \in OutcomeKind
  PROVE  Result!FinalStates(t, result, "InProgressLocal", t \in lossy) = Allowed(t, result)
BY DEF Allowed, FinalStates, Interim, MaxRetries, AttemptHardcap, Delivered, FailureState,
       Result!FinalStates, Result!Interim, Result!MaxRetries, Result!AttemptHardcap,
       Result!Delivered, Result!FailureState

\* An exception may leave whatever a result may.
LEMMA RaisedAllowsAll ==
  ASSUME NEW t \in Ticket, NEW result \in OutcomeKind
  PROVE  Allowed(t, result) \subseteq Allowed(t, "raised")
BY DEF Allowed, FinalStates, OutcomeKind

LEMMA InterimAllowed ==
  ASSUME NEW t \in Ticket
  PROVE  /\ Interim(t, "InProgressLocal") \subseteq Allowed(t, "raised")
         /\ Interim(t, "InProgressLocal") \subseteq Allowed(t, "aborted")
         /\ t \in lossy => \A result \in OutcomeKind :
                              Interim(t, "InProgressLocal") \subseteq Allowed(t, result)
BY DEF Allowed, FinalStates, OutcomeKind

\* A write of the state a result asks for, or its refusal.
LEMMA SetStateAllowed ==
  ASSUME TypeOK, NEW t \in Ticket, NEW s, NEW result \in OutcomeKind,
         s \in Allowed(t, result), linear[t] \in Interim(t, "InProgressLocal"), SetState(t, s)
  PROVE  /\ linear'[t] \in Allowed(t, result)
         /\ \A u \in Ticket \ {t} : linear'[u] = linear[u]
BY InterimAllowed DEF TypeOK, SetState, SetTo, lossy

\* A step of thread t concerns its own entries only.
LEMMA ResultFrame ==
  ASSUME TypeOK, NEW t \in Ticket, Thread(t)
  PROVE  /\ pc[t] \notin Ended
         /\ \E p \in Step : pc' = [pc EXCEPT ![t] = p]
         /\ \A u \in Ticket \ {t} : outcome'[u] = outcome[u] /\ linear'[u] = linear[u]
<1> USE DEF At, SetTo, Step, Ended
<1>1. pc[t] \notin Ended /\ \E p \in Step : pc' = [pc EXCEPT ![t] = p]
  BY DEF Thread, RefusedByGate, PassGates, WorkerFailed, TrustWorker, ChecksPass,
         ChecksIgnored, ChecksFail, FixLocally, HandOver, UnknownTrigger, Squash, EnterPr,
         Rebase, RebaseFails, CreatePr, CreateFails, PrFails, MergePr, Deliver, Record,
         PreserveWip, CleanUp, Raise
<1>2. \A u \in Ticket \ {t} : outcome'[u] = outcome[u]
  BY DEF Thread, RefusedByGate, PassGates, WorkerFailed, TrustWorker, ChecksPass,
         ChecksIgnored, ChecksFail, FixLocally, HandOver, UnknownTrigger, Squash, EnterPr,
         Rebase, RebaseFails, CreatePr, CreateFails, PrFails, MergePr, Deliver, Record,
         PreserveWip, CleanUp, Raise, thread, TypeOK
<1>3. \A u \in Ticket \ {t} : linear'[u] = linear[u]
  BY DEF Thread, RefusedByGate, PassGates, WorkerFailed, TrustWorker, ChecksPass,
         ChecksIgnored, ChecksFail, FixLocally, HandOver, UnknownTrigger, Squash, EnterPr,
         Rebase, RebaseFails, CreatePr, CreateFails, PrFails, MergePr, Deliver, Record,
         PreserveWip, CleanUp, Raise, SetState, TypeOK
<1> QED
  BY <1>1, <1>2, <1>3

\* Where thread t stands after one of its steps.
Agrees(t) ==
    /\ pc[t] \in Finalizing => linear[t] \in Interim(t, "InProgressLocal")
    /\ pc[t] \in {"record", "wip", "cleanup", "done"} =>
          outcome[t] \in OutcomeKind \ {"raised"} /\ linear[t] \in Allowed(t, outcome[t])
    /\ pc[t] = "raised" => linear[t] \in Allowed(t, "raised")

LEMMA ThreadAgrees ==
  ASSUME Inv, ResultOK, NEW t \in Ticket, Thread(t)
  PROVE  Agrees(t)'
<1> USE DEF At, SetTo, Finalizing
<1>1. TypeOK /\ AttemptsOK /\ pc \in [Ticket -> Step] /\ outcome \in [Ticket -> (OutcomeKind \ {"raised"}) \cup {"none"}]
  BY DEF Inv, TypeOK
<1>2. pc[t] \in Finalizing => linear[t] \in Interim(t, "InProgressLocal")
  BY DEF ResultOK
<1>3. /\ FailureState(t) \in Allowed(t, "failure") /\ "Blocked" \in Allowed(t, "failure")
      /\ "InProgress" \in Allowed(t, "escalated") /\ Delivered(t) \in Allowed(t, "success")
  BY DEF Allowed, FinalStates
<1>4. OutcomeKind = {"success", "failure", "escalated", "aborted", "raised"}
  BY DEF OutcomeKind
<1>5. ASSUME RefusedByGate(t) \/ WorkerFailed(t) PROVE Agrees(t)'
  <2>1. pc'[t] \in {"done", "record"} /\ outcome'[t] = "failure" /\ SetState(t, FailureState(t))
    BY <1>1, <1>5 DEF RefusedByGate, WorkerFailed
  <2>2. linear'[t] \in Allowed(t, "failure")
    BY <1>1, <1>2, <1>3, <1>4, <1>5, <2>1, SetStateAllowed DEF RefusedByGate, WorkerFailed
  <2> QED
    BY <1>4, <2>1, <2>2 DEF Agrees, Allowed, lossy
<1>6. ASSUME \/ PassGates(t) \/ TrustWorker(t) \/ ChecksPass(t) \/ ChecksIgnored(t)
             \/ FixLocally(t) \/ Squash(t) \/ EnterPr(t) \/ Rebase(t) \/ CreatePr(t) \/ MergePr(t)
      PROVE  Agrees(t)'
  <2>1. pc[t] \in Finalizing /\ pc'[t] \in Finalizing /\ UNCHANGED linear
    BY <1>1, <1>6 DEF PassGates, TrustWorker, ChecksPass, ChecksIgnored, FixLocally, Squash,
                      EnterPr, Rebase, CreatePr, MergePr
  <2> QED
    BY <1>2, <2>1 DEF Agrees
<1>7. ASSUME ChecksFail(t) PROVE Agrees(t)'
  <2>1. /\ pc[t] = "checks" /\ outcome'[t] = "failure" /\ SetState(t, FailureState(t))
        /\ pc'[t] \in {"record", "execute", "raised"}
        /\ pc'[t] = "execute" => attempts[t] + 1 <= MaxRetries(t)
    BY <1>1, <1>7 DEF ChecksFail, Returned, TypeOK
  <2>2. linear'[t] \in Allowed(t, "failure")
    BY <1>1, <1>2, <1>3, <1>4, <2>1, SetStateAllowed
  <2>3. linear'[t] \in Allowed(t, "raised")
    BY <1>4, <2>2, RaisedAllowsAll
  <2>4. pc'[t] = "execute" => linear'[t] \in Interim(t, "InProgressLocal")
    <3>1. SUFFICES ASSUME MaxRetries(t) > 0 PROVE linear'[t] \in Interim(t, "InProgressLocal")
      BY <1>1, <2>1, RetryBudget DEF TypeOK
    <3> QED
      BY <1>1, <1>2, <2>1, <3>1 DEF SetState, Interim, TypeOK
  <2> QED
    BY <1>4, <2>1, <2>2, <2>3, <2>4 DEF Agrees, Allowed, lossy
<1>8. ASSUME NEW result \in {"escalated", "aborted"}, HandOver(t, result) PROVE Agrees(t)'
  <2>1. pc[t] = "policy" /\ pc'[t] = "record" /\ outcome'[t] = result
    BY <1>1, <1>8 DEF HandOver
  <2>2. linear'[t] \in Allowed(t, result)
    BY <1>1, <1>2, <1>3, <1>4, <1>8, <2>1, SetStateAllowed, InterimAllowed DEF HandOver
  <2> QED
    BY <1>4, <2>1, <2>2 DEF Agrees, Allowed, lossy
<1>9. ASSUME UnknownTrigger(t) \/ Raise(t) PROVE Agrees(t)'
  <2>1. pc'[t] = "raised" /\ UNCHANGED linear /\ pc[t] \in Finalizing \cup {"record"}
    BY <1>1, <1>9 DEF UnknownTrigger, Raise
  <2>2. linear[t] \in Allowed(t, "raised")
    BY <1>2, <2>1, InterimAllowed, RaisedAllowsAll DEF ResultOK
  <2> QED
    BY <2>1, <2>2 DEF Agrees, Allowed, lossy
<1>10. ASSUME RebaseFails(t) \/ CreateFails(t) PROVE Agrees(t)'
  <2>1. /\ pc[t] \in Finalizing /\ pc'[t] = "record" /\ outcome'[t] = "failure"
        /\ SetState(t, "Blocked")
    BY <1>1, <1>10 DEF RebaseFails, CreateFails, PrFails
  <2>2. linear'[t] \in Allowed(t, "failure")
    BY <1>1, <1>2, <1>3, <1>4, <2>1, SetStateAllowed
  <2> QED
    BY <1>4, <2>1, <2>2 DEF Agrees, Allowed, lossy
<1>11. ASSUME Deliver(t) PROVE Agrees(t)'
  <2>1. pc[t] \in Finalizing /\ pc'[t] = "record" /\ outcome'[t] = "success" /\ SetState(t, Delivered(t))
    BY <1>1, <1>11 DEF Deliver
  <2>2. linear'[t] \in Allowed(t, "success")
    BY <1>1, <1>2, <1>3, <1>4, <2>1, SetStateAllowed
  <2> QED
    BY <1>4, <2>1, <2>2 DEF Agrees, Allowed, lossy
<1>12. ASSUME Record(t) \/ PreserveWip(t) \/ CleanUp(t) PROVE Agrees(t)'
  <2>1. /\ pc[t] \in {"record", "wip", "cleanup"} /\ pc'[t] \in {"wip", "cleanup", "done"}
        /\ UNCHANGED <<outcome, linear>>
    BY <1>1, <1>12 DEF Record, PreserveWip, CleanUp, thread
  <2> QED
    BY <2>1 DEF Agrees, ResultOK, Allowed, lossy
<1> QED
  BY <1>5, <1>6, <1>7, <1>8, <1>9, <1>10, <1>11, <1>12 DEF Thread

LEMMA NextResult == Inv /\ ResultOK /\ [Next]_vars => ResultOK'
<1> SUFFICES ASSUME Inv, ResultOK, [Next]_vars PROVE ResultOK'
  OBVIOUS
<1>1. ASSUME NEW t \in Ticket, Thread(t) PROVE ResultOK'
  <2>1. ASSUME NEW u \in Ticket, u # t
        PROVE  pc'[u] = pc[u] /\ outcome'[u] = outcome[u] /\ linear'[u] = linear[u]
    BY <1>1, <2>1, ResultFrame DEF Inv, TypeOK
  <2> QED
    BY <1>1, <2>1, ThreadAgrees DEF ResultOK, Agrees, Allowed, lossy
<1>2. ASSUME UNCHANGED <<pc, outcome, linear>> PROVE ResultOK'
  BY <1>2 DEF ResultOK, Allowed, lossy
<1>3. ASSUME NEW t \in Ticket, RerunWrites(t) \/ RerunExits(t) PROVE ResultOK'
  BY <1>2, <1>3 DEF RerunWrites, RerunExits, thread
<1>4. ASSUME UNCHANGED vars PROVE ResultOK'
  BY <1>2, <1>4 DEF vars, thread
<1> QED
  BY <1>1, <1>3, <1>4 DEF Next

LEMMA ThreadRefines ==
  ASSUME Inv, ResultOK, NEW t \in Ticket, Thread(t)
  PROVE  Result!Finish(t) \/ UNCHANGED <<reported, settled>>
<1>1. /\ TypeOK
      /\ pc[t] \notin Ended
      /\ \A u \in Ticket \ {t} : outcome'[u] = outcome[u] /\ linear'[u] = linear[u]
  BY ResultFrame DEF Inv
<1>2. PICK p \in Step : pc' = [pc EXCEPT ![t] = p]
  BY ResultFrame DEF Inv
<1>3. pc'[t] = p /\ \A u \in Ticket \ {t} : pc'[u] = pc[u]
  BY <1>1, <1>2 DEF TypeOK
<1>4. ASSUME p \notin Ended PROVE UNCHANGED <<reported, settled>>
  BY <1>1, <1>3, <1>4 DEF reported, settled, Ended
<1>5. ASSUME p \in Ended PROVE Result!Finish(t)
  <2> DEFINE result == IF p = "done" THEN outcome'[t] ELSE "raised"
  <2>1. result \in OutcomeKind /\ linear'[t] \in Allowed(t, result)
    BY <1>3, <1>5, ThreadAgrees DEF Agrees, Allowed, lossy, Ended, OutcomeKind
  <2>2. linear'[t] \in LinearState
    BY <1>5, ThreadAgrees, ChecksInv, PolicyInv, PrInv, WrapUpInv DEF Thread, Inv, TypeOK
  <2>3. reported[t] = "none" /\ settled[t] = "InProgressLocal"
    BY <1>1 DEF reported, settled, Ended
  <2>4. reported' = [reported EXCEPT ![t] = result]
    BY <1>1, <1>3, <1>5 DEF reported, Ended
  <2>5. settled' = [settled EXCEPT ![t] = linear'[t]]
    BY <1>1, <1>3, <1>5 DEF settled, Ended
  <2>6. Result!OutcomeKind = OutcomeKind /\ Result!LinearState = LinearState
    BY DEF OutcomeKind, LinearState, Result!OutcomeKind, Result!LinearState
  <2>7. linear'[t] \in Result!FinalStates(t, result, settled[t], t \in lossy)
    BY <2>1, <2>3, SameContract
  <2> HIDE DEF result
  <2> QED
    BY <2>1, <2>2, <2>3, <2>4, <2>5, <2>6, <2>7 DEF Result!Finish
<1> QED
  BY <1>4, <1>5

\* The finalize threads implement the one step that the reap loop takes for each
\* of them: one result, and a workflow state that the result allows.
THEOREM ResultRefinement == Spec => ImplementsResult
<1>1. Init => ResultOK /\ Result!FinalizeInit
  BY DEF Init, ResultOK, Interim, Finalizing, Result!FinalizeInit, reported, settled, Ended
<1>2. Inv /\ ResultOK /\ [Next]_vars
      => [\E t \in Ticket : Result!Finish(t)]_<<reported, settled>>
  <2> SUFFICES ASSUME Inv, ResultOK, [Next]_vars
               PROVE  (\E t \in Ticket : Result!Finish(t)) \/ UNCHANGED <<reported, settled>>
    OBVIOUS
  <2>1. ASSUME UNCHANGED <<pc, outcome, linear>> PROVE UNCHANGED <<reported, settled>>
    BY <2>1 DEF reported, settled
  <2>2. ASSUME NEW t \in Ticket, RerunWrites(t) \/ RerunExits(t)
        PROVE  UNCHANGED <<reported, settled>>
    BY <2>1, <2>2 DEF RerunWrites, RerunExits, thread
  <2>3. ASSUME UNCHANGED vars PROVE UNCHANGED <<reported, settled>>
    BY <2>1, <2>3 DEF vars, thread
  <2> QED
    BY <2>2, <2>3, ThreadRefines DEF Next
<1>3. Spec => Result!FinalizeSpec
  BY <1>1, <1>2, NextResult, SpecInv, PTL DEF Spec, Result!FinalizeSpec
<1> QED
  BY <1>3 DEF ImplementsResult
-----------------------------------------------------------------------------
(* The diagnosis *)

\* With the abort policy checks that passed removed the diagnosis of the worktree,
\* copying it out removed that of the main repository, and it is not copied again.
ClearedAt(t) ==
    Manifest[t].onCheckFailure = "abort" =>
        /\ pc[t] = "policy" => ~ diagnosis[t]
        /\ \/ pc[t] \in {"squash", "waiting", "rebase", "create", "merge", "deliver"}
           \/ pc[t] \in {"record", "wip"} /\ outcome[t] = "success"
           => preserved[t] /\ ~ published[t]
        /\ pc[t] \in {"cleanup", "done"} /\ outcome[t] = "success" => ~ published[t]

ClearedOK == \A t \in Ticket : ClearedAt(t)

LEMMA ThreadCleared ==
  ASSUME TypeOK, ClearedOK, NEW t \in Ticket, Thread(t)
  PROVE  ClearedOK'
<1> USE DEF At, SetTo
<1>1. ASSUME NEW u \in Ticket, u # t PROVE ClearedAt(u)'
  <2>1. UNCHANGED <<pc[u], preserved[u], published[u], diagnosis[u]>>
    BY <1>1 DEF Thread, RefusedByGate, PassGates, WorkerFailed, TrustWorker, ChecksPass,
             ChecksIgnored, ChecksFail, FixLocally, HandOver, UnknownTrigger, Squash, EnterPr,
             Rebase, RebaseFails, CreatePr, CreateFails, PrFails, MergePr, Deliver, Record,
             PreserveWip, CleanUp, Raise, thread, reports, TypeOK
  <2>2. outcome'[u] = outcome[u]
    BY <1>1, ResultFrame
  <2> QED
    BY <2>1, <2>2 DEF ClearedOK, ClearedAt
<1>2. ClearedAt(t)'
  <2>1. ClearedAt(t)
    BY DEF ClearedOK
  <2>2. ASSUME \/ RefusedByGate(t) \/ PassGates(t) \/ WorkerFailed(t) \/ TrustWorker(t)
               \/ ChecksPass(t) \/ ChecksIgnored(t) \/ ChecksFail(t)
        PROVE  ClearedAt(t)'
    BY <2>2 DEF RefusedByGate, PassGates, WorkerFailed, TrustWorker, ChecksPass,
                ChecksIgnored, ChecksFail, thread, reports, TypeOK, ClearedAt
  <2>3. ASSUME \/ FixLocally(t) \/ HandOver(t, "escalated") \/ HandOver(t, "aborted")
               \/ UnknownTrigger(t) \/ Squash(t)
        PROVE  ClearedAt(t)'
    BY <2>1, <2>3 DEF FixLocally, HandOver, UnknownTrigger, Squash, Published, thread,
                      reports, TypeOK, ClearedAt
  <2>4. ASSUME \/ EnterPr(t) \/ Rebase(t) \/ RebaseFails(t) \/ CreatePr(t) \/ CreateFails(t)
               \/ MergePr(t) \/ Deliver(t)
        PROVE  ClearedAt(t)'
    BY <2>1, <2>4 DEF EnterPr, Rebase, RebaseFails, CreatePr, CreateFails, PrFails, MergePr,
                      Deliver, thread, reports, TypeOK, ClearedAt
  <2>5. ASSUME Record(t) \/ PreserveWip(t) \/ CleanUp(t) \/ Raise(t) PROVE ClearedAt(t)'
    <3>1. ASSUME PreserveWip(t) PROVE ClearedAt(t)'
      <4>1. /\ pc[t] = "wip" /\ pc'[t] = "cleanup" /\ UNCHANGED outcome
            /\ published'[t] = (published[t] \/ ~ preserved[t])
        BY <3>1 DEF PreserveWip, TypeOK
      <4> QED
        BY <2>1, <4>1 DEF ClearedAt
    <3>2. ASSUME Record(t) \/ CleanUp(t) \/ Raise(t) PROVE ClearedAt(t)'
      BY <2>1, <3>2 DEF Record, CleanUp, Raise, thread, reports, TypeOK, ClearedAt
    <3> QED
      BY <2>5, <3>1, <3>2
  <2> QED
    BY <2>2, <2>3, <2>4, <2>5 DEF Thread
<1> QED
  BY <1>1, <1>2 DEF ClearedOK

LEMMA NextCleared == TypeOK /\ ClearedOK /\ [Next]_vars => ClearedOK'
<1> SUFFICES ASSUME TypeOK, ClearedOK, [Next]_vars PROVE ClearedOK'
  OBVIOUS
<1>1. ASSUME UNCHANGED <<pc, outcome, preserved, published, diagnosis>> PROVE ClearedOK'
  BY <1>1 DEF ClearedOK, ClearedAt
<1>2. ASSUME NEW t \in Ticket, RerunWrites(t) \/ RerunExits(t) PROVE ClearedOK'
  BY <1>1, <1>2 DEF RerunWrites, RerunExits, thread, reports
<1>3. ASSUME UNCHANGED vars PROVE ClearedOK'
  BY <1>1, <1>3 DEF vars, thread, reports
<1> QED
  BY <1>2, <1>3, ThreadCleared DEF Next

\* After a success with the abort policy no diagnosis of an earlier failure is left
\* for a later worker to find (preserve_worker_artifacts).
THEOREM SuccessClearsDiagnosis == Spec => []StaleDiagnosisCleared
<1>1. Init => ClearedOK
  BY DEF Init, ClearedOK, ClearedAt
<1>2. ClearedOK => StaleDiagnosisCleared
  BY DEF ClearedOK, ClearedAt, StaleDiagnosisCleared
<1> QED
  BY <1>1, <1>2, NextCleared, FinalizeTypeCorrect, PTL DEF Spec
=============================================================================
