------------------------------ MODULE Worktree ------------------------------
(***************************************************************************)
(* The worktrees of app/core/watcher/watcher_worktrees.py over several      *)
(* dispatches of a ticket: start_ticket makes one, the worker edits in it,  *)
(* finalize_worker judges the attempt, may launch the worker again, salvages *)
(* the edits and removes the worktree; gates, exceptions, force-stop and    *)
(* crashes leave it behind, and the next daemon or the next dispatch clears *)
(* it away.  Followed are the edits of each worker, the result.json of each *)
(* dispatch and the operator's plan file.                                   *)
(***************************************************************************)
EXTENDS Naturals, FiniteSets

CONSTANTS
    Ticket,
    MaxEdits,      \* MaxEdits[t]: bound on the edits made for t
    Faults,        \* Faults[t]: which calls may fail for t, see FaultKind
    Reporting,     \* tickets whose worker may write a result.json
    Sloppy,        \* tickets whose worker may commit it by force
    Requeued,      \* tickets that people may dispatch again
    Retrying,      \* tickets whose manifest asks for a retry: ATTEMPT_HARDCAP allows one
    PrunableLine   \* how git worktree list --porcelain marks a missing worktree

FaultKind == {"git", "disk", "spawn", "remove", "raise"}

ASSUME WorktreeAssumption ==
    /\ MaxEdits \in [Ticket -> Nat]
    /\ Faults \in [Ticket -> SUBSET FaultKind]
    /\ Reporting \subseteq Ticket /\ Sloppy \subseteq Ticket
    /\ Requeued \subseteq Ticket /\ Retrying \subseteq Ticket

VARIABLES
    up,         \* a daemon runs
    phase,      \* phase[t]: where the dispatch of t is
    retried,    \* its worker was launched again
    alive,      \* a process of this dispatch lives, the relaunched one included
    old,        \* a process of an earlier dispatch lives
    haunted,    \* and did when this dispatch made the worktree (for the properties)
    dir,        \* its worktree directory exists
    reg,        \* git has the path registered as a worktree
    head,       \* "branch", or "rebase": HEAD is detached in a rebase nobody ended
    rewritten,  \* origin's branch is no ancestor of the local one
    made,       \* how many edits the workers of t have made
    dirty,      \* edits in the directory that are in no commit
    detached,   \* edits committed on the detached HEAD
    local,      \* edits on the local branch
    origin,     \* edits on origin's branch
    backup,     \* edits under .claude/artifacts/<ticket>/wip
    rescue,     \* edits under <worktrees>/<ticket>/wip, where force-stop puts them
    plan,       \* where the operator's plan file is
    moved,      \* worker.backed_up_plans
    result,     \* result[t]: result.json in the worktree
    copy,       \* copy[t]: result.json in the main repository
    inBranch,   \* a worker has forced a result.json into a commit
    trusted     \* trusted[t]: the result.json that finalize read last

processes == <<alive, old, haunted>>
attempt == <<phase, retried, processes>>
tree == <<dir, reg, head, rewritten>>
edits == <<made, dirty, detached, local, origin, backup, rescue>>
plans == <<plan, moved>>
results == <<result, copy, inBranch, trusted>>
vars == <<up, attempt, tree, edits, plans, results>>

\* After "checking": PR creation failed, the attempt failed, or the artifacts are
\* preserved; then the worktree may go ("wip") or is kept.  "ended" is every way out
\* without the wrap-up, and the end of it.
Phase == {"ready", "created", "running", "exited", "again", "checking",
          "refused", "failed", "preserved", "wip", "kept", "ended"}

\* A result.json of an earlier dispatch, or of this one.
Result == {"none", "stale", "fresh"}

\* Which edits are where.
EditSets == [Ticket -> SUBSET Nat]

TypeOK ==
    /\ up \in BOOLEAN
    /\ phase \in [Ticket -> Phase] /\ retried \in [Ticket -> BOOLEAN]
    /\ alive \in [Ticket -> BOOLEAN] /\ old \in [Ticket -> BOOLEAN]
    /\ haunted \in [Ticket -> BOOLEAN]
    /\ dir \in [Ticket -> BOOLEAN] /\ reg \in [Ticket -> BOOLEAN]
    /\ head \in [Ticket -> {"branch", "rebase"}] /\ rewritten \in [Ticket -> BOOLEAN]
    /\ made \in [Ticket -> Nat]
    /\ \A t \in Ticket : made[t] <= MaxEdits[t]
    /\ dirty \in EditSets /\ detached \in EditSets /\ local \in EditSets
    /\ origin \in EditSets /\ backup \in EditSets /\ rescue \in EditSets
    /\ plan \in {"plans", "backup"} /\ moved \in [Ticket -> BOOLEAN]
    /\ result \in [Ticket -> Result] /\ copy \in [Ticket -> Result]
    /\ inBranch \in [Ticket -> BOOLEAN] /\ trusted \in [Ticket -> Result]

None == [t \in Ticket |-> {}]

Init ==
    /\ up = TRUE
    /\ phase = [t \in Ticket |-> "ready"] /\ retried = [t \in Ticket |-> FALSE]
    /\ alive = [t \in Ticket |-> FALSE] /\ old = [t \in Ticket |-> FALSE]
    /\ haunted = [t \in Ticket |-> FALSE]
    /\ dir = [t \in Ticket |-> FALSE] /\ reg = [t \in Ticket |-> FALSE]
    /\ head = [t \in Ticket |-> "branch"] /\ rewritten = [t \in Ticket |-> FALSE]
    /\ made = [t \in Ticket |-> 0]
    /\ dirty = None /\ detached = None /\ local = None /\ origin = None
    /\ backup = None /\ rescue = None
    /\ plan = "plans" /\ moved = [t \in Ticket |-> FALSE]
    /\ result = [t \in Ticket |-> "none"] /\ copy = [t \in Ticket |-> "none"]
    /\ inBranch = [t \in Ticket |-> FALSE] /\ trusted = [t \in Ticket |-> "none"]
-----------------------------------------------------------------------------
SetTo(f, t, value) == [f EXCEPT ![t] = value]

Go(t, here, next) == up /\ phase[t] = here /\ phase' = SetTo(phase, t, next)

\* The files one finds in the worktree of t.
Contents(t) == dirty[t] \cup (IF head[t] = "branch" THEN local[t] ELSE detached[t])

\* No place holds these edits any more.
Lost(t) ==
    (1 .. made[t]) \ (dirty[t] \cup detached[t] \cup local[t] \cup origin[t]
                        \cup backup[t] \cup rescue[t])

\* The directory of t goes, with all that is only there.
Emptied(t) ==
    /\ dir' = SetTo(dir, t, FALSE)
    /\ head' = SetTo(head, t, "branch")
    /\ dirty' = SetTo(dirty, t, {}) /\ detached' = SetTo(detached, t, {})
    /\ result' = SetTo(result, t, "none")
-----------------------------------------------------------------------------
(* start_ticket: _cleanup_stale_state, create_worktree, launch_worker *)

StaleResultKept(t) == copy[t]

\* cleanup_stale_artifacts
StaleResultRemoved(t) == "none"

\* cleanup_orphan_dir: rmtree that ignores errors, registered worktree or not.
OrphanStays(t) == dir[t] /\ "remove" \in Faults[t]

\* _is_registered_but_missing looks for one line of git's listing.
IsRegisteredButMissing(t) == reg[t] /\ PrunableLine = "status prunable"

\* git worktree add wants a path that is neither taken nor registered.
AddRefused(t) == reg[t] /\ ~ IsRegisteredButMissing(t)

\* rebase_worktree_from_base: a conflict is logged, and the rebase left open.
Rebased(t) ==
    \/ UNCHANGED rewritten /\ head' = SetTo(head, t, "branch")  \* nothing new, or no fetch
    \/ rewritten' = SetTo(rewritten, t, origin[t] # {}) /\ head' = SetTo(head, t, "branch")
    \/ local[t] # {} /\ UNCHANGED rewritten /\ head' = SetTo(head, t, "rebase")

CreateWorktree(t) ==
    /\ Go(t, "ready", "created")
    /\ ~ AddRefused(t)
    /\ dir' = SetTo(dir, t, TRUE) /\ reg' = SetTo(reg, t, TRUE)
    /\ Rebased(t)
    /\ dirty' = SetTo(dirty, t, {}) /\ detached' = SetTo(detached, t, {})
    /\ \E r \in {"none"} \cup (IF inBranch[t] THEN {"stale"} ELSE {}) :
          result' = SetTo(result, t, r)
    /\ copy' = SetTo(copy, t, StaleResultRemoved(t))
    /\ trusted' = SetTo(trusted, t, "none")
    /\ retried' = SetTo(retried, t, FALSE)
    /\ haunted' = SetTo(haunted, t, old[t])
    /\ UNCHANGED <<up, alive, old, made, local, origin, backup, rescue, plans, inBranch>>

\* The exception reaches _dispatch_next_ticket, which moves t to Blocked.
CreateFails(t) ==
    /\ Go(t, "ready", "ended")
    /\ \/ AddRefused(t) /\ Emptied(t) /\ UNCHANGED reg
       \/ "git" \in Faults[t] /\ Emptied(t) /\ reg' = SetTo(reg, t, AddRefused(t))
       \/ OrphanStays(t) /\ UNCHANGED <<dir, head, dirty, detached, result, reg>>
    /\ copy' = SetTo(copy, t, StaleResultRemoved(t))
    /\ trusted' = SetTo(trusted, t, "none")
    /\ UNCHANGED <<up, retried, processes, rewritten, made, local, origin, backup, rescue,
                   plans, inBranch>>

Unnoted(t) == moved' = SetTo(moved, t, FALSE)

\* backup_plan_files returns what it moved to the caller.
Noted(t) == moved' = SetTo(moved, t, plan = "plans")

\* backup_plan_files, then Popen.
Launch(t) ==
    /\ Go(t, "created", "running")
    /\ alive' = SetTo(alive, t, TRUE)
    /\ plan' = "backup"
    /\ Noted(t)
    /\ UNCHANGED <<up, retried, old, haunted, tree, edits, results>>

\* The manifest cannot be copied or Popen raises: the list of the plan files moved
\* by then is gone with the call.
LaunchFails(t) ==
    /\ "spawn" \in Faults[t]
    /\ Go(t, "created", "ended")
    /\ plan' \in {plan, "backup"}
    /\ UNCHANGED <<up, retried, processes, tree, edits, moved, results>>
-----------------------------------------------------------------------------
(* The worker processes in the worktree *)

AtWork(t) == (alive[t] \/ old[t]) /\ dir[t]

WorkerEdits(t) ==
    /\ AtWork(t) /\ made[t] < MaxEdits[t]
    /\ made' = SetTo(made, t, made[t] + 1)
    /\ dirty' = SetTo(dirty, t, dirty[t] \cup {made[t] + 1})
    /\ UNCHANGED <<up, attempt, tree, detached, local, origin, backup, rescue, plans, results>>

\* git commit: to the branch, or to the detached HEAD of the open rebase.
Commit(t) ==
    /\ dirty' = SetTo(dirty, t, {})
    /\ \/ /\ head[t] = "branch"
          /\ local' = SetTo(local, t, local[t] \cup dirty[t])
          /\ UNCHANGED detached
       \/ /\ head[t] = "rebase"
          /\ detached' = SetTo(detached, t, detached[t] \cup dirty[t])
          /\ UNCHANGED local

WorkerCommits(t) ==
    /\ AtWork(t) /\ dirty[t] # {}
    /\ Commit(t)
    /\ UNCHANGED <<up, attempt, tree, made, origin, backup, rescue, plans, results>>

\* A worker may notice the open rebase and finish it.
WorkerEndsRebase(t) ==
    /\ AtWork(t) /\ head[t] = "rebase" /\ dirty[t] = {}
    /\ head' = SetTo(head, t, "branch")
    /\ local' = SetTo(local, t, local[t] \cup detached[t])
    /\ detached' = SetTo(detached, t, {})
    /\ rewritten' = SetTo(rewritten, t, origin[t] # {})
    /\ UNCHANGED <<up, attempt, dir, reg, made, dirty, origin, backup, rescue, plans, results>>

\* result.json is in .gitignore; only git add -f brings it into a commit.
WorkerReports(t) ==
    /\ AtWork(t) /\ t \in Reporting
    /\ \/ alive[t] /\ result' = SetTo(result, t, "fresh")
       \/ old[t] /\ result' = SetTo(result, t, "stale")
    /\ \/ UNCHANGED inBranch
       \/ t \in Sloppy /\ head[t] = "branch" /\ inBranch' = SetTo(inBranch, t, TRUE)
    /\ UNCHANGED <<up, attempt, tree, edits, plans, copy, trusted>>

WorkerExits(t) ==
    /\ alive[t]
    /\ alive' = SetTo(alive, t, FALSE)
    /\ phase' = IF phase[t] = "running" THEN SetTo(phase, t, "exited") ELSE phase
    /\ UNCHANGED <<up, retried, old, haunted, tree, edits, plans, results>>

StrayExits(t) ==
    /\ old[t]
    /\ old' = SetTo(old, t, FALSE)
    /\ UNCHANGED <<up, phase, retried, alive, haunted, tree, edits, plans, results>>
-----------------------------------------------------------------------------
(* finalize_worker *)

\* _read_result_status prefers the main repository's copy to the worktree's.
ReadResult(t) == IF copy[t] # "none" THEN copy[t] ELSE result[t]

\* safe_copy of result.json, where there is one.
Preserved(t) == SetTo(copy, t, IF result[t] # "none" THEN result[t] ELSE copy[t])

\* _run_pre_retry_validation_gates, of which the second reads the result: the call
\* returns, with no plan file restored, nothing salvaged and the worktree in place.
GateRefuses(t) ==
    /\ Go(t, "exited", "ended")
    /\ trusted' \in {trusted, SetTo(trusted, t, ReadResult(t))}
    /\ moved' = SetTo(moved, t, FALSE)
    /\ UNCHANGED <<up, retried, processes, tree, edits, plan, result, copy, inBranch>>

\* _execute_finalization reads the result, right after the relaunch too: then it is
\* the one that the first process left.
ReadReport(t) ==
    /\ up /\ phase[t] \in {"exited", "again"}
    /\ phase' = SetTo(phase, t, "checking")
    /\ trusted' = SetTo(trusted, t, ReadResult(t))
    /\ UNCHANGED <<up, retried, processes, tree, edits, plans, result, copy, inBranch>>

\* The checks failed: _run_retry_loop calls launch_worker, which starts a process
\* that nobody waits for, and finalizes again.
Relaunch(t) ==
    /\ Go(t, "checking", "again")
    /\ t \in Retrying /\ ~ retried[t]
    /\ retried' = SetTo(retried, t, TRUE)
    /\ alive' = SetTo(alive, t, TRUE)
    /\ UNCHANGED <<up, old, haunted, tree, edits, plans, results>>

\* The worker failed, or the checks did for the last time.
GiveUp(t) ==
    /\ Go(t, "checking", "failed")
    /\ UNCHANGED <<up, retried, processes, tree, edits, plans, results>>

\* preserve_worker_artifacts: the flags and the trigger are read from the copy.
Publishing(t) ==
    /\ copy' = Preserved(t)
    /\ trusted' = SetTo(trusted, t, copy'[t])

\* The policy escalates or asks for a person.
HandOver(t) ==
    /\ Go(t, "checking", "preserved")
    /\ Publishing(t)
    /\ UNCHANGED <<up, retried, processes, tree, edits, plans, result, inBranch>>

\* _rebase_onto_base, which new files do not stop, and the forced push of create_pr,
\* after which gh may still fail or find nothing to merge.
Publish(t) ==
    /\ Go(t, "checking", "preserved") \/ Go(t, "checking", "refused")
    /\ Publishing(t)
    /\ head[t] = "branch"
    /\ origin' = SetTo(origin, t, local[t])
    /\ rewritten' = SetTo(rewritten, t, FALSE)
    /\ UNCHANGED <<up, retried, processes, dir, reg, head, made, dirty, detached, local, backup,
                   rescue, plans, result, inBranch>>

\* After its git reset --soft the commit of squash_wip_commits may fail.
SquashFails(t) ==
    /\ head[t] = "branch" /\ local[t] # {} /\ "git" \in Faults[t]
    /\ dirty' = SetTo(dirty, t, dirty[t] \cup local[t])
    /\ local' = SetTo(local, t, {})
    /\ rewritten' = SetTo(rewritten, t, origin[t] # {})
    /\ UNCHANGED <<head, detached>>

\* On failure the git rebase --abort throws away whatever an open rebase holds.
RebaseAborted(t) ==
    /\ head[t] = "rebase"
    /\ head' = SetTo(head, t, "branch")
    /\ dirty' = SetTo(dirty, t, {}) /\ detached' = SetTo(detached, t, {})
    /\ UNCHANGED <<local, rewritten>>

\* A push that fails finds the branch squashed and rebased.
RebaseOrPushFails(t) ==
    /\ head[t] = "branch"
    /\ \/ dirty[t] # {} /\ UNCHANGED rewritten
       \/ /\ "git" \in Faults[t]
          /\ rewritten' \in {rewritten, SetTo(rewritten, t, origin[t] # {})}
    /\ UNCHANGED <<head, dirty, detached, local>>

PublishFails(t) ==
    /\ Go(t, "checking", "refused")
    /\ Publishing(t)
    /\ \/ SquashFails(t)
       \/ RebaseAborted(t)
       \/ RebaseOrPushFails(t)
    /\ UNCHANGED <<up, retried, processes, dir, reg, made, origin, backup, rescue, plans,
                   result, inBranch>>
-----------------------------------------------------------------------------
(* commit_wip_state and the wrap-up *)

NothingToCommit(t) ==
    /\ dirty[t] = {}
    /\ UNCHANGED <<dirty, detached, local, origin>>

CommittedAndPushed(t) ==
    /\ dirty[t] # {} /\ ~ rewritten[t]
    /\ Commit(t)
    /\ origin' = SetTo(origin, t, local'[t])

\* git add, commit or push fails: a push is refused after a rebase.
CommitOrPushFails(t) ==
    /\ dirty[t] # {}
    /\ \/ "git" \in Faults[t] /\ UNCHANGED <<dirty, local, detached>>
       \/ (rewritten[t] \/ "git" \in Faults[t]) /\ Commit(t)
    /\ UNCHANGED origin

StatusFails(t) ==
    /\ "git" \in Faults[t]
    /\ UNCHANGED <<dirty, detached, local, origin>>

\* _save_dirty_worktree_to_backup: the older backup goes before the copy is made.
Saved(area, t) == SetTo(area, t, Contents(t))
NotSaved(area, t) == {area, SetTo(area, t, {})}

\* commit_wip_state, where area and areaAfter are the backup before and after.
CommitWip(t, status, area, areaAfter) ==
    \/ /\ status = "clean" /\ NothingToCommit(t)
       /\ areaAfter = area
    \/ /\ status = "pushed" /\ CommittedAndPushed(t)
       /\ areaAfter = area
    \/ /\ status = "backup" /\ CommitOrPushFails(t)
       /\ areaAfter = Saved(area, t)
    \/ /\ status = "failed" /\ CommitOrPushFails(t) /\ "disk" \in Faults[t]
       /\ areaAfter \in NotSaved(area, t)
    \/ /\ status = "failed" /\ StatusFails(t)
       /\ areaAfter = area

\* The except clause of attempt_pr: commit_wip_state without a backup.
PrFails(t) ==
    /\ Go(t, "refused", "preserved")
    /\ NothingToCommit(t) \/ CommittedAndPushed(t) \/ CommitOrPushFails(t) \/ StatusFails(t)
    /\ UNCHANGED <<up, retried, processes, tree, made, backup, rescue, plans, results>>

\* restore_plan_files puts back what this worker's launch moved.
RestorePlans(t) ==
    /\ plan' = IF moved[t] THEN "plans" ELSE plan
    /\ moved' = SetTo(moved, t, FALSE)

WipStatus == {"clean", "pushed", "backup", "failed"}

RemovableAlways(status) == TRUE
Removable(status) == status \in {"clean", "pushed", "backup"}

\* The plan files, the edits, and after a failed attempt the artifacts.
Salvage(t) ==
    /\ up /\ phase[t] \in {"failed", "preserved"}
    /\ RestorePlans(t)
    /\ \E status \in WipStatus :
        /\ CommitWip(t, status, backup, backup')
        /\ phase' = SetTo(phase, t, IF Removable(status) THEN "wip" ELSE "kept")
    /\ copy' = IF phase[t] = "failed" THEN Preserved(t) ELSE copy
    /\ UNCHANGED <<up, retried, processes, tree, made, rescue, result, inBranch, trusted>>

\* cleanup_worktree of a registered one.  git may forget it and leave files behind,
\* but the git clean before that has swept new files by then.
Remove(t) ==
    /\ Go(t, "wip", "ended")
    /\ \/ Emptied(t) /\ reg' = SetTo(reg, t, FALSE)
       \/ /\ "remove" \in Faults[t]
          /\ \E kept \in SUBSET dirty[t] : dirty' = SetTo(dirty, t, kept)
          /\ UNCHANGED <<dir, reg, head, detached, result>>
    /\ UNCHANGED <<up, retried, processes, rewritten, made, local, origin, backup, rescue, plans,
                   copy, inBranch, trusted>>

\* An exception out of finalize_worker: the reap loop drops the worker, and with it
\* the list of plan files to restore.
Raise(t) ==
    /\ "raise" \in Faults[t]
    /\ up /\ phase[t] \in {"exited", "again", "checking", "refused", "failed", "preserved", "wip"}
    /\ phase' = SetTo(phase, t, "ended")
    /\ moved' = SetTo(moved, t, FALSE)
    /\ UNCHANGED <<up, retried, processes, tree, edits, plan, results>>
-----------------------------------------------------------------------------
(* Force-stop, crashes, the next daemon and people *)

\* commit_wip_state and SIGTERM for one worker; the pools forget it.
ForceStop(t) ==
    /\ up /\ phase[t] \in {"running", "exited"}
    /\ phase' = SetTo(phase, t, "ended")
    /\ moved' = SetTo(moved, t, FALSE)
    /\ \E status \in WipStatus : CommitWip(t, status, rescue, rescue')
    /\ UNCHANGED <<up, retried, processes, tree, made, backup, plan, results>>

\* A crash, or a shutdown that only waits: no attempt is finalized.
Down ==
    /\ up
    /\ up' = FALSE
    /\ phase' = [t \in Ticket |-> IF phase[t] = "ready" THEN "ready" ELSE "ended"]
    /\ moved' = [t \in Ticket |-> FALSE]
    /\ UNCHANGED <<retried, processes, tree, edits, plan, results>>

\* cleanup_worktree prunes after it removed a directory git does not know: here
\* the backups of force-stop, which lie among the worktrees.
Pruned(kept) == \E t \in Ticket \ kept : rescue[t] # {}

\* run: cleanup_orphaned_worktrees removes every directory it finds,
\* whatever is in it and whoever works there.
Restart ==
    /\ ~ up
    /\ up' = TRUE
    /\ \E kept \in SUBSET {t \in Ticket : "remove" \in Faults[t]} :
        /\ dir' = [t \in Ticket |-> dir[t] /\ t \in kept]
        /\ reg' = [t \in Ticket |-> reg[t] /\ IF dir[t] THEN t \in kept ELSE ~ Pruned(kept)]
        /\ head' = [t \in Ticket |-> IF t \in kept THEN head[t] ELSE "branch"]
        /\ dirty' = [t \in Ticket |-> IF t \in kept THEN dirty[t] ELSE {}]
        /\ detached' = [t \in Ticket |-> IF t \in kept THEN detached[t] ELSE {}]
        /\ result' = [t \in Ticket |-> IF t \in kept THEN result[t] ELSE "none"]
        /\ rescue' = [t \in Ticket |-> IF t \in kept THEN rescue[t] ELSE {}]
    /\ UNCHANGED <<attempt, rewritten, made, local, origin, backup, plans, copy, inBranch, trusted>>

\* A person moves t back to ReadyForLocal, whatever still runs there.
Requeue(t) ==
    /\ t \in Requeued /\ phase[t] \in {"kept", "ended"}
    /\ phase' = SetTo(phase, t, "ready")
    /\ old' = SetTo(old, t, old[t] \/ alive[t])
    /\ alive' = SetTo(alive, t, FALSE)
    /\ copy' = SetTo(copy, t, IF copy[t] = "none" THEN "none" ELSE "stale")
    /\ result' = SetTo(result, t, IF result[t] = "none" THEN "none" ELSE "stale")
    /\ UNCHANGED <<up, retried, haunted, tree, edits, plans, inBranch, trusted>>
-----------------------------------------------------------------------------
Finalize(t) ==
    \/ GateRefuses(t) \/ ReadReport(t) \/ Relaunch(t) \/ GiveUp(t)
    \/ HandOver(t) \/ Publish(t) \/ PublishFails(t) \/ PrFails(t)
    \/ Salvage(t) \/ Remove(t) \/ Raise(t)

Daemon(t) ==
    \/ CreateWorktree(t) \/ CreateFails(t) \/ Launch(t) \/ LaunchFails(t)
    \/ Finalize(t) \/ ForceStop(t)

Worker(t) ==
    \/ WorkerEdits(t) \/ WorkerCommits(t) \/ WorkerEndsRebase(t)
    \/ WorkerReports(t) \/ WorkerExits(t) \/ StrayExits(t)

Next ==
    \/ \E t \in Ticket : Daemon(t) \/ Worker(t) \/ Requeue(t)
    \/ Down \/ Restart

Spec == Init /\ [][Next]_vars
-----------------------------------------------------------------------------
(* What these functions promise *)

\* The worktree of t goes while a process may work there that nobody waits for: the
\* one a retry launched, or one that outlived an earlier dispatch.
RemovedUnderProcess(t) == phase[t] = "wip" /\ (retried[t] \/ haunted[t])

\* The forced push of create_pr replaces what only origin has, after a squash that
\* failed in an earlier dispatch.
PushedOver(t) == phase[t] = "checking" /\ Lost(t)' \ Lost(t) \subseteq origin[t] \ local[t]

\* An edit a worker made is lost in six ways only: the sweep of the next daemon
\* (cleanup_orphaned_worktrees), the sweep of the next dispatch
\* (cleanup_orphan_dir), a rebase that was left open, a backup that replaces an
\* older one, a forced push, and a process nobody waits for.  No order of gates,
\* exceptions and failing git, disk and cleanup steps adds another.
LossesAreKnown ==
    [][\A t \in Ticket :
        \/ Lost(t)' \subseteq Lost(t)
        \/ ~ up /\ up'
        \/ phase[t] = "ready" /\ phase'[t] # "ready"
        \/ head[t] = "rebase"
        \/ Lost(t)' \ Lost(t) \subseteq backup[t] \cup rescue[t]
        \/ PushedOver(t)
        \/ RemovedUnderProcess(t)]_vars

\* The plan file is with a worker that will put it back, or in its place, unless a
\* crash, a force-stop, a failed launch, a gate or an exception ended the attempt
\* before its wrap-up (backup_plan_files, restore_plan_files).
Stranded == plan = "backup" /\ \A t \in Ticket : ~ moved[t]

PlanIsPutBack ==
    [][Stranded' => \/ Stranded
                    \/ ~ up'
                    \/ \E t \in Ticket : /\ phase[t] \notin {"ready", "wip", "kept", "ended"}
                                         /\ phase'[t] = "ended"]_vars

\* Finalization never judges a dispatch by the result.json of an earlier one
\* (cleanup_stale_artifacts), unless a worker committed that file by force or still
\* ran when the worktree was made.
TrustedResultIsOwn == \A t \in Ticket : trusted[t] = "stale" => inBranch[t] \/ haunted[t]
=============================================================================
