------------------------------ MODULE Finalize ------------------------------
(***************************************************************************)
(* The finalize threads of one reap wave: finalize_worker of               *)
(* app/core/watcher/watcher_finalize.py, one thread per exited worker, with *)
(* the checks, the retry, the pull request under the lock of its base      *)
(* branch, the diagnosis files and the worktree.  The tickets are those of *)
(* the wave; each has one worker (NoDoubleDispatch of module Watcher).     *)
(***************************************************************************)
EXTENDS Outcomes

CONSTANTS
    NoTicket,
    Faults,    \* Faults[t]: which steps of t's thread may fail, see FaultKind
    Dirty,     \* tickets whose worker may exit before it commits its edits
    Revisited, \* tickets for which an earlier dispatch may have left a diagnosis
    MaxHead    \* bound on the merges into one base branch

FaultKind == {"git", "disk", "gh", "linear", "raise", "cleanup"}

ASSUME FinalizeAssumption ==
    /\ NoTicket \notin Ticket
    /\ Faults \in [Ticket -> SUBSET FaultKind]
    /\ Dirty \subseteq Ticket /\ Revisited \subseteq Ticket
    /\ MaxHead \in Nat /\ Cardinality(Ticket) <= MaxHead

VARIABLES
    pc,          \* pc[t]: the next step of t's thread
    attempts,    \* worker.attempt_count
    outcome,     \* the outcome so far
    preserved,   \* artifacts_preserved
    wip,         \* status of the last commit_wip_state of the wrap-up
    linear,      \* linear[t]: t's workflow state
    tree,        \* the worktree of t exists
    dirty,       \* the edits there that are in no commit: none, in new files only,
                 \* or in files git knows too
    saved,       \* they are all in the backup directory
    ahead,       \* the worker branch has a commit of its own
    rerun,       \* the process the retry launched: "none", "running", "exited"
    diagnosis,   \* last_failure.json in the worktree exists
    published,   \* last_failure.json in the main repository exists
    lock,        \* lock[b]: the thread in the pull-request section of base b
    head,        \* head[b]: how often this wave has merged into origin/b; what others
                 \* merge there, GitHub's auto-merge included, is not counted
    onto,        \* onto[t]: the head of its base that t's branch is rebased on
    opened       \* the thread of t has opened a pull request

Base == {Manifest[t].base : t \in Ticket}

thread == <<attempts, outcome, preserved, wip>>
files == <<tree, dirty, saved, ahead>>
reports == <<diagnosis, published>>
remote == <<head, onto, opened>>
vars == <<pc, thread, linear, files, rerun, reports, lock, remote>>

Step == {"gates", "execute", "checks", "policy", "squash", "waiting", "rebase", "create",
         "merge", "deliver", "record", "wip", "cleanup", "done", "raised"}

WipStatus == {"clean", "pushed", "backup", "failed"}

DirtyKind == {"none", "new", "changed"}

TypeOK ==
    /\ pc \in [Ticket -> Step]
    /\ attempts \in [Ticket -> 0 .. AttemptHardcap + 1]
    /\ outcome \in [Ticket -> (OutcomeKind \ {"raised"}) \cup {"none"}]
    /\ preserved \in [Ticket -> BOOLEAN]
    /\ wip \in [Ticket -> WipStatus \cup {"none"}]
    /\ linear \in [Ticket -> LinearState]
    /\ tree \in [Ticket -> BOOLEAN] /\ dirty \in [Ticket -> DirtyKind]
    /\ saved \in [Ticket -> BOOLEAN] /\ ahead \in [Ticket -> BOOLEAN]
    /\ rerun \in [Ticket -> {"none", "running", "exited"}]
    /\ diagnosis \in [Ticket -> BOOLEAN] /\ published \in [Ticket -> BOOLEAN]
    /\ lock \in [Base -> Ticket \cup {NoTicket}]
    /\ head \in [Base -> 0 .. MaxHead]
    /\ onto \in [Ticket -> 0 .. MaxHead]
    /\ opened \in [Ticket -> BOOLEAN]

Init ==
    /\ pc = [t \in Ticket |-> "gates"]
    /\ attempts = [t \in Ticket |-> 0]
    /\ outcome = [t \in Ticket |-> "none"]
    /\ preserved = [t \in Ticket |-> FALSE]
    /\ wip = [t \in Ticket |-> "none"]
    /\ linear = [t \in Ticket |-> "InProgressLocal"]
    /\ tree = [t \in Ticket |-> TRUE]
    /\ dirty \in {d \in [Ticket -> DirtyKind] : \A t \in Ticket \ Dirty : d[t] = "none"}
    /\ saved = [t \in Ticket |-> FALSE]
    /\ \E C \in SUBSET Dirty : ahead = [t \in Ticket |-> t \notin C]
    /\ rerun = [t \in Ticket |-> "none"]
    /\ diagnosis = [t \in Ticket |-> FALSE]
    /\ \E P \in SUBSET Revisited : published = [t \in Ticket |-> t \in P]
    /\ lock = [b \in Base |-> NoTicket]
    /\ head = [b \in Base |-> 0]
    /\ onto = [t \in Ticket |-> 0]
    /\ opened = [t \in Ticket |-> FALSE]
-----------------------------------------------------------------------------
BaseOf(t) == Manifest[t].base

At(t, here, next) == pc[t] = here /\ pc' = [pc EXCEPT ![t] = next]

SetTo(f, t, value) == [f EXCEPT ![t] = value]

\* safe_set_state: a refused write is logged and forgotten.
SetState(t, s) ==
    \/ linear' = SetTo(linear, t, s)
    \/ "linear" \in Faults[t] /\ UNCHANGED linear

\* _execute_finalization returns to _run_retry_loop.
Returned(t) == attempts' = SetTo(attempts, t, attempts[t] + 1)

IsDirty(t) == dirty[t] # "none"

\* git add and git commit -m.
Committed(t) ==
    /\ dirty' = SetTo(dirty, t, "none")
    /\ ahead' = SetTo(ahead, t, TRUE)

\* git add fails, or the commit after it.  That new files may be staged by then is
\* left out: no rebase follows commit_wip_state.
NotCommitted(t) == UNCHANGED <<dirty, ahead>>

\* The effects of git add, commit and push on t's edits, and the status:
\* backups says whether a backup directory was passed.
CommitWip(t, status, backups) ==
    \/ /\ status = "clean"
       /\ ~ IsDirty(t)
       /\ UNCHANGED <<dirty, saved, ahead>>
    \/ /\ status = "pushed"
       /\ IsDirty(t)
       /\ Committed(t)
       /\ UNCHANGED saved
    \/ /\ status = "backup"
       /\ backups /\ IsDirty(t) /\ "git" \in Faults[t]
       /\ NotCommitted(t) \/ Committed(t)                 \* or the push fails
       /\ saved' = SetTo(saved, t, TRUE)
    \/ /\ status = "failed"
       /\ IsDirty(t) /\ "git" \in Faults[t] /\ (backups => "disk" \in Faults[t])
       /\ NotCommitted(t) \/ Committed(t)
       /\ UNCHANGED saved
    \/ /\ status = "failed"                               \* git status fails
       /\ "git" \in Faults[t]
       /\ UNCHANGED <<dirty, saved, ahead>>
-----------------------------------------------------------------------------
(* The validation gates and the checks *)

\* _run_pre_retry_validation_gates: on a violation the call returns at once.
RefusedByGate(t) ==
    /\ At(t, "gates", "done")
    /\ SetState(t, FailureState(t))
    /\ outcome' = SetTo(outcome, t, "failure")
    /\ published' = SetTo(published, t, TRUE)
    /\ UNCHANGED <<attempts, preserved, wip, files, rerun, diagnosis, lock, remote>>

PassGates(t) ==
    /\ At(t, "gates", "execute")
    /\ UNCHANGED <<thread, linear, files, rerun, reports, lock, remote>>

\* The exit code is not 0 and result.json does not say success.
WorkerFailed(t) ==
    /\ At(t, "execute", "record")
    /\ SetState(t, FailureState(t))
    /\ outcome' = SetTo(outcome, t, "failure")
    /\ Returned(t)
    /\ UNCHANGED <<preserved, wip, files, rerun, reports, lock, remote>>

TrustWorker(t) ==
    /\ At(t, "execute", "checks")
    /\ UNCHANGED <<thread, linear, files, rerun, reports, lock, remote>>

ChecksPass(t) ==
    /\ At(t, "checks", "policy")
    /\ diagnosis' = SetTo(diagnosis, t, FALSE)
    /\ UNCHANGED <<thread, linear, files, rerun, published, lock, remote>>

ChecksIgnored(t) ==
    /\ At(t, "checks", "policy")
    /\ Manifest[t].onCheckFailure = "warn"
    /\ diagnosis' = SetTo(diagnosis, t, TRUE)
    /\ UNCHANGED <<thread, linear, files, rerun, published, lock, remote>>

\* The failed attempt of _execute_finalization and what _run_retry_loop does next:
\* it launches the worker again, or gives up.
ChecksFail(t) ==
    /\ pc[t] = "checks"
    /\ Manifest[t].onCheckFailure = "abort"
    /\ diagnosis' = SetTo(diagnosis, t, TRUE)
    /\ SetState(t, FailureState(t))
    /\ outcome' = SetTo(outcome, t, "failure")
    /\ Returned(t)
    /\ \/ /\ attempts'[t] > MaxRetries(t)
          /\ pc' = SetTo(pc, t, "record")
          /\ UNCHANGED rerun
       \/ /\ attempts'[t] <= MaxRetries(t)
          /\ \/ /\ pc' = SetTo(pc, t, "execute")
                /\ rerun' = SetTo(rerun, t, "running")
             \/ /\ "raise" \in Faults[t]
                /\ pc' = SetTo(pc, t, "raised")
                /\ UNCHANGED rerun
    /\ UNCHANGED <<preserved, wip, files, published, lock, remote>>
-----------------------------------------------------------------------------
(* preserve_worker_artifacts, then the policy and Sonar *)

PublishedOnlyOnFailure(t) == published[t] \/ diagnosis[t]

\* The diagnosis is copied out; without one, that of an earlier run is deleted.
Published(t) == diagnosis[t]

\* fix_locally: on to the pull request.
FixLocally(t) ==
    /\ At(t, "policy", "squash")
    /\ published' = SetTo(published, t, Published(t))
    /\ preserved' = SetTo(preserved, t, TRUE)
    /\ UNCHANGED <<attempts, outcome, wip, linear, files, rerun, diagnosis, lock, remote>>

\* A flag of the result or a Sonar finding escalates; a flag or a trigger asks
\* for a person.
HandOver(t, result) ==
    /\ At(t, "policy", "record")
    /\ published' = SetTo(published, t, Published(t))
    /\ preserved' = SetTo(preserved, t, TRUE)
    /\ outcome' = SetTo(outcome, t, result)
    /\ \/ result = "escalated" /\ SetState(t, "InProgress")
       \/ result = "aborted" /\ UNCHANGED linear
    /\ Returned(t)
    /\ UNCHANGED <<wip, files, rerun, diagnosis, lock, remote>>

\* classify_human_trigger raises on a name it does not know.
UnknownTrigger(t) ==
    /\ "raise" \in Faults[t]
    /\ At(t, "policy", "raised")
    /\ published' = SetTo(published, t, Published(t))
    /\ UNCHANGED <<thread, linear, files, rerun, diagnosis, lock, remote>>

\* squash_wip_commits: after its git reset --soft the commit may fail.
Squash(t) ==
    /\ At(t, "squash", "waiting")
    /\ \/ UNCHANGED <<dirty, saved, ahead>>
       \/ /\ "git" \in Faults[t] /\ ahead[t]
          /\ dirty' = SetTo(dirty, t, "changed")
          /\ saved' = SetTo(saved, t, FALSE)
          /\ ahead' = SetTo(ahead, t, FALSE)
    /\ UNCHANGED <<thread, linear, tree, rerun, reports, lock, remote>>
-----------------------------------------------------------------------------
(* attempt_pr: rebase, push, create and merge under the lock of the base *)

LockFreeAlways(b) == TRUE
LockFree(b) == lock[b] = NoTicket

EnterPr(t) ==
    /\ At(t, "waiting", "rebase")
    /\ LockFree(BaseOf(t))
    /\ lock' = [lock EXCEPT ![BaseOf(t)] = t]
    /\ UNCHANGED <<thread, linear, files, rerun, reports, remote>>

ReleasedOnSuccess(t) ==
    IF pc[t] = "merge" THEN [lock EXCEPT ![BaseOf(t)] = NoTicket] ELSE lock

Released(t) == [lock EXCEPT ![BaseOf(t)] = NoTicket]

\* The except clause of attempt_pr.
PrFails(t) ==
    /\ diagnosis' = SetTo(diagnosis, t, TRUE)
    /\ \E status \in WipStatus : CommitWip(t, status, FALSE)
    /\ SetState(t, "Blocked")
    /\ outcome' = SetTo(outcome, t, "failure")
    /\ pc' = SetTo(pc, t, "record")
    /\ lock' = Released(t)
    /\ Returned(t)
    /\ UNCHANGED <<preserved, wip, tree, rerun, published, remote>>

\* git fetch and git rebase: it is refused where a file git knows has uncommitted
\* edits, not for new files.
Rebase(t) ==
    /\ At(t, "rebase", "create")
    /\ dirty[t] # "changed"
    /\ onto' = [onto EXCEPT ![t] = head[BaseOf(t)]]
    /\ UNCHANGED <<thread, linear, files, rerun, reports, lock, head, opened>>

\* A new file may lie where the base has one by now.
RebaseFails(t) ==
    /\ pc[t] = "rebase"
    /\ IsDirty(t) \/ "git" \in Faults[t]
    /\ PrFails(t)

\* git push and gh pr create; a pull request that exists already will do.
CreatePr(t) ==
    /\ At(t, "create", "merge")
    /\ ahead[t]
    /\ \/ opened' = [opened EXCEPT ![t] = TRUE]
       \/ "gh" \in Faults[t] /\ UNCHANGED opened
    /\ UNCHANGED <<thread, linear, files, rerun, reports, lock, head, onto>>

CreateFails(t) ==
    /\ pc[t] = "create"
    /\ ~ ahead[t] \/ Faults[t] \cap {"git", "gh"} # {}
    /\ PrFails(t)

\* gh pr merge, on epic branches only: at once, or left to auto-merge, or it fails
\* and that is logged.
MergePr(t) ==
    /\ At(t, "merge", "deliver")
    /\ \/ /\ BaseOf(t) # "main"
          /\ head[BaseOf(t)] < MaxHead
          /\ head' = [head EXCEPT ![BaseOf(t)] = @ + 1]
       \/ UNCHANGED head
    /\ lock' = Released(t)
    /\ UNCHANGED <<thread, linear, files, rerun, reports, onto, opened>>

DeliverToReview(t) ==
    /\ At(t, "deliver", "record")
    /\ SetState(t, "InReview")
    /\ outcome' = SetTo(outcome, t, "success")
    /\ Returned(t)
    /\ UNCHANGED <<preserved, wip, files, rerun, reports, lock, remote>>

Deliver(t) ==
    /\ At(t, "deliver", "record")
    /\ SetState(t, Delivered(t))
    /\ outcome' = SetTo(outcome, t, "success")
    /\ Returned(t)
    /\ UNCHANGED <<preserved, wip, files, rerun, reports, lock, remote>>
-----------------------------------------------------------------------------
(* The wrap-up of finalize_worker *)

\* The failure artifact, the metrics and the plan files.
Record(t) ==
    /\ At(t, "record", "wip")
    /\ diagnosis' = SetTo(diagnosis, t, diagnosis[t] \/ outcome[t] = "failure")
    /\ UNCHANGED <<thread, linear, files, rerun, published, lock, remote>>

\* _handle_wip_result writes wip_status into last_failure.json of the worktree;
\* then the artifacts are copied out, unless they were before.
PreserveWip(t) ==
    /\ At(t, "wip", "cleanup")
    /\ \E status \in WipStatus :
        /\ CommitWip(t, status, TRUE)
        /\ wip' = SetTo(wip, t, status)
    /\ diagnosis' = SetTo(diagnosis, t, TRUE)
    /\ published' = SetTo(published, t, published[t] \/ ~ preserved[t])
    /\ UNCHANGED <<attempts, outcome, preserved, linear, tree, rerun, lock, remote>>

MayAlwaysRemove(status) == TRUE
MayRemove(status) == status \in {"clean", "pushed", "backup"}

CleanUp(t) ==
    /\ At(t, "cleanup", "done")
    /\ \/ MayRemove(wip[t]) /\ tree' = SetTo(tree, t, FALSE)
       \/ (~ MayRemove(wip[t]) \/ "cleanup" \in Faults[t]) /\ UNCHANGED tree
    /\ UNCHANGED <<thread, linear, dirty, saved, ahead, rerun, reports, lock, remote>>
-----------------------------------------------------------------------------
(* The process that the retry launched and nobody waits for *)

RerunWrites(t) ==
    /\ rerun[t] = "running" /\ tree[t]
    /\ \/ /\ \E kind \in DirtyKind \ {"none"} : dirty' = SetTo(dirty, t, kind)
          /\ saved' = SetTo(saved, t, FALSE)
          /\ UNCHANGED ahead
       \/ Committed(t) /\ UNCHANGED saved
    /\ UNCHANGED <<pc, thread, linear, tree, rerun, reports, lock, remote>>

RerunExits(t) ==
    /\ rerun[t] = "running"
    /\ rerun' = SetTo(rerun, t, "exited")
    /\ UNCHANGED <<pc, thread, linear, files, reports, lock, remote>>
-----------------------------------------------------------------------------
\* Calls that may raise: git or gh cannot be run, the metrics store, the plan
\* files.  The lock of a with statement is released.
Raise(t) ==
    /\ "raise" \in Faults[t]
    /\ pc[t] \in {"gates", "checks", "rebase", "create", "record"}
    /\ pc' = SetTo(pc, t, "raised")
    /\ lock' = IF pc[t] \in {"rebase", "create"} THEN Released(t) ELSE lock
    /\ UNCHANGED <<thread, linear, files, rerun, reports, remote>>

Thread(t) ==
    \/ RefusedByGate(t) \/ PassGates(t) \/ WorkerFailed(t) \/ TrustWorker(t)
    \/ ChecksPass(t) \/ ChecksIgnored(t) \/ ChecksFail(t)
    \/ FixLocally(t) \/ HandOver(t, "escalated") \/ HandOver(t, "aborted")
    \/ UnknownTrigger(t) \/ Squash(t)
    \/ EnterPr(t) \/ Rebase(t) \/ RebaseFails(t) \/ CreatePr(t) \/ CreateFails(t)
    \/ MergePr(t) \/ Deliver(t)
    \/ Record(t) \/ PreserveWip(t) \/ CleanUp(t) \/ Raise(t)

Next == \E t \in Ticket : Thread(t) \/ RerunWrites(t) \/ RerunExits(t)

Spec == Init /\ [][Next]_vars

\* The executor runs every submitted call.
FairSpec == Spec /\ \A t \in Ticket : WF_vars(Thread(t))
-----------------------------------------------------------------------------
(* What finalization promises *)

Ended == {"done", "raised"}

\* The reap loop sees one result per thread and a workflow state that agrees
\* with it, whatever a retry recorded in between (module FinalizeResult).
lossy == {t \in Ticket : "linear" \in Faults[t]}

reported ==
    [t \in Ticket |-> IF pc[t] = "done" THEN outcome[t]
                      ELSE IF pc[t] = "raised" THEN "raised" ELSE "none"]

settled == [t \in Ticket |-> IF pc[t] \in Ended THEN linear[t] ELSE "InProgressLocal"]

Result == INSTANCE FinalizeResult WITH
    Lossy <- lossy, result <- reported, state <- settled

ImplementsResult == Result!FinalizeSpec

\* No sibling of the wave merges into the base between the rebase of a branch and
\* its pull request, although the threads run at once (create_pr, WOR-445;
\* _get_pr_lock, WOR-451).
PrOpensOnCurrentBase ==
    [][\A t \in Ticket :
        ~ opened[t] /\ opened'[t] => onto[t] = head[BaseOf(t)]]_vars

Removed(t) == tree[t] /\ ~ tree'[t]

\* The edits a worker did not commit are in a commit or in the backup when its
\* worktree is removed (WOR-347, WOR-288), after a success too, whichever git step
\* failed before.
WorkSurvives ==
    [][\A t \in Ticket : Removed(t) /\ rerun[t] = "none" => ~ IsDirty(t) \/ saved[t]]_vars

\* After a success the diagnosis of a failed attempt or an earlier dispatch is
\* gone, so that no later worker is told to mend it (preserve_worker_artifacts).
StaleDiagnosisCleared ==
    \A t \in Ticket :
        /\ pc[t] = "done" /\ outcome[t] = "success"
        /\ Manifest[t].onCheckFailure = "abort"
        => ~ published[t]

\* Every call ends, so that the poll loop that joins them goes on.
EveryThreadEnds == \A t \in Ticket : <>(pc[t] \in Ended)
-----------------------------------------------------------------------------
(* What a comment says of it, and the code does not do *)

\* "Running it on every path makes the worst case an extra WIP commit [...] rather
\* than all work lost": for the edits of a relaunched worker too.
NoEditIsLost ==
    [][\A t \in Ticket : Removed(t) => ~ IsDirty(t) \/ saved[t]]_vars
=============================================================================
