--------------------------- MODULE WorktreeProofs ---------------------------
(***************************************************************************)
(* Proofs about the worktrees: which edits may be lost, whose result a      *)
(* finalize reads and who puts the plan file back, for any number of        *)
(* tickets and edits and with every call failing.                           *)
(***************************************************************************)
EXTENDS Worktree, TLAPS

\* The phases in which a worktree made for this dispatch is in use.
Under == Phase \ {"ready", "kept", "ended"}

\* A result of an earlier dispatch that is met here was in a commit, or a process of
\* that dispatch wrote it.
Known(t) == inBranch[t] \/ haunted[t]

ResultOK ==
    \A t \in Ticket :
        /\ phase[t] \in Under => /\ copy[t] = "stale" => Known(t)
                                 /\ result[t] = "stale" => Known(t)
        /\ trusted[t] = "stale" => Known(t)

\* A worker is waited for, unless it was launched again or its dispatch is over.
AliveOK ==
    \A t \in Ticket :
        alive[t] => /\ phase[t] \notin {"ready", "created"}
                    /\ phase[t] \in {"running", "ended"} \/ retried[t]

HauntOK == \A t \in Ticket : phase[t] \in Under /\ old[t] => haunted[t]

\* What a plain push may replace, and what is in no open rebase.
BranchOK ==
    \A t \in Ticket : /\ ~ rewritten[t] => origin[t] \subseteq local[t]
                      /\ head[t] = "branch" => detached[t] = {}

\* A worktree about to be removed has nothing left to save.
SalvageOK ==
    \A t \in Ticket :
        phase[t] = "wip" /\ head[t] = "branch" /\ ~ retried[t] /\ ~ haunted[t]
        => dirty[t] \subseteq local[t] \cup backup[t]

\* Whoever is to put the plan file back has not been wrapped up yet.
MovedOK == \A t \in Ticket : moved[t] => phase[t] \in Under \ {"created", "wip"}

Others == ResultOK /\ AliveOK /\ HauntOK /\ BranchOK /\ SalvageOK /\ MovedOK

Inv == TypeOK /\ Others

USE DEF EditSets, SetTo, Go, Emptied, processes, attempt, tree, edits, plans, results, vars

LEMMA InitInv == Init => Inv
<1> SUFFICES ASSUME Init PROVE Inv
  OBVIOUS
<1>1. TypeOK
  BY WorktreeAssumption DEF Init, TypeOK, Phase, Result, None
<1>2. Others
  BY DEF Init, None, Others, ResultOK, AliveOK, HauntOK, BranchOK, SalvageOK, MovedOK, Under
<1> QED
  BY <1>1, <1>2 DEF Inv

\* What commit_wip_state leaves alone: the edits of other tickets, and what is on
\* the branch; what it takes from the directory goes into a commit.
Salvaged(t) ==
    /\ dirty' \in EditSets /\ detached' \in EditSets /\ local' \in EditSets
    /\ origin' \in EditSets
    /\ \A u \in Ticket : u # t =>
          /\ dirty'[u] = dirty[u] /\ detached'[u] = detached[u] /\ local'[u] = local[u]
          /\ origin'[u] = origin[u]
    /\ local[t] \subseteq local'[t]
    /\ origin'[t] = origin[t] \/ (~ rewritten[t] /\ origin'[t] = local'[t])
    /\ detached'[t] = detached[t] \/ head[t] = "rebase"
    /\ dirty[t] \subseteq dirty'[t] \cup detached'[t] \cup local'[t]

LEMMA CommitType ==
  ASSUME TypeOK, NEW t \in Ticket, Commit(t), origin' \in EditSets,
         \A u \in Ticket : u # t => origin'[u] = origin[u],
         origin'[t] = origin[t] \/ (~ rewritten[t] /\ origin'[t] = local'[t])
  PROVE  Salvaged(t) /\ dirty'[t] = {}
<1>1. dirty' \in EditSets /\ dirty'[t] = {} /\ \A u \in Ticket : u # t => dirty'[u] = dirty[u]
  BY DEF TypeOK, Commit
<1>2. CASE head[t] = "branch"
  <2>1. /\ local' \in EditSets /\ local'[t] = local[t] \cup dirty[t]
        /\ \A u \in Ticket : u # t => local'[u] = local[u]
    BY <1>2 DEF TypeOK, Commit
  <2>2. detached' = detached /\ detached \in EditSets
    BY <1>2 DEF TypeOK, Commit
  <2> QED
    BY <1>1, <2>1, <2>2 DEF Salvaged
<1>3. CASE head[t] = "rebase"
  <2>1. /\ detached' \in EditSets /\ detached'[t] = detached[t] \cup dirty[t]
        /\ \A u \in Ticket : u # t => detached'[u] = detached[u]
    BY <1>3 DEF TypeOK, Commit
  <2>2. local' = local /\ local \in EditSets
    BY <1>3 DEF TypeOK, Commit
  <2> QED
    BY <1>1, <1>3, <2>1, <2>2 DEF Salvaged
<1> QED
  BY <1>2, <1>3 DEF Commit

LEMMA WipStepType ==
  ASSUME TypeOK, NEW t \in Ticket,
         \/ NothingToCommit(t) \/ CommittedAndPushed(t) \/ CommitOrPushFails(t) \/ StatusFails(t)
  PROVE  /\ Salvaged(t)
         /\ NothingToCommit(t) \/ CommittedAndPushed(t) => dirty'[t] = {}
         /\ CommitOrPushFails(t) => dirty'[t] = {} \/ dirty'[t] = dirty[t]
<1>1. /\ dirty \in EditSets /\ detached \in EditSets /\ local \in EditSets
      /\ origin \in EditSets
  BY DEF TypeOK
<1>2. CASE UNCHANGED <<dirty, detached, local, origin>>
  BY <1>1, <1>2 DEF Salvaged, NothingToCommit, CommittedAndPushed, CommitOrPushFails, Commit
<1>3. CASE CommittedAndPushed(t)
  <2>1. local' \in EditSets
    BY <1>1, <1>3 DEF CommittedAndPushed, Commit
  <2>2. /\ origin' \in EditSets /\ origin'[t] = local'[t] /\ ~ rewritten[t]
        /\ \A u \in Ticket : u # t => origin'[u] = origin[u]
    BY <1>1, <1>3, <2>1 DEF CommittedAndPushed
  <2> QED
    BY <1>3, <2>2, CommitType DEF CommittedAndPushed
<1>4. CASE CommitOrPushFails(t)
  BY <1>1, <1>2, <1>4, CommitType DEF CommitOrPushFails
<1> QED
  BY <1>2, <1>3, <1>4 DEF NothingToCommit, StatusFails

\* With a backup: what it replaces is the older one, and a status that allows the
\* removal leaves nothing that is only in the directory.
LEMMA CommitWipType ==
  ASSUME TypeOK, NEW t \in Ticket, NEW status \in WipStatus,
         NEW area \in EditSets, NEW areaAfter, CommitWip(t, status, area, areaAfter)
  PROVE  /\ Salvaged(t)
         /\ areaAfter \in EditSets
         /\ \A u \in Ticket : u # t => areaAfter[u] = area[u]
         /\ Removable(status) => dirty'[t] \subseteq areaAfter[t]
<1>1. Contents(t) \subseteq Nat /\ dirty[t] \subseteq Contents(t)
  BY DEF TypeOK, Contents
<1>2. Salvaged(t)
  BY WipStepType DEF CommitWip
<1>3. areaAfter \in EditSets /\ \A u \in Ticket : u # t => areaAfter[u] = area[u]
  BY <1>1 DEF CommitWip, Saved, NotSaved
<1>4. CASE status \in {"clean", "pushed"}
  BY <1>2, <1>3, <1>4, WipStepType DEF CommitWip
<1>5. CASE status = "backup"
  <2>1. CommitOrPushFails(t) /\ areaAfter[t] = Contents(t)
    BY <1>5 DEF CommitWip, Saved
  <2> QED
    BY <1>1, <1>2, <1>3, <2>1, WipStepType
<1>6. CASE status = "failed"
  BY <1>2, <1>3, <1>6 DEF Removable
<1> QED
  BY <1>4, <1>5, <1>6 DEF WipStatus

-----------------------------------------------------------------------------
(* Types *)

LEMMA DispatchType ==
  ASSUME TypeOK, NEW t \in Ticket,
         CreateWorktree(t) \/ CreateFails(t) \/ Launch(t) \/ LaunchFails(t)
  PROVE  TypeOK'
<1>1. CASE CreateWorktree(t)
  <2>1. /\ head' \in [Ticket -> {"branch", "rebase"}] /\ rewritten' \in [Ticket -> BOOLEAN]
    BY <1>1 DEF CreateWorktree, Rebased, TypeOK
  <2>2. result' \in [Ticket -> Result]
    BY <1>1 DEF CreateWorktree, TypeOK, Result
  <2>3. /\ dir' \in [Ticket -> BOOLEAN] /\ reg' \in [Ticket -> BOOLEAN]
        /\ dirty' \in EditSets /\ detached' \in EditSets
    BY <1>1 DEF CreateWorktree, TypeOK
  <2>4. /\ copy' \in [Ticket -> Result] /\ trusted' \in [Ticket -> Result]
        /\ retried' \in [Ticket -> BOOLEAN] /\ haunted' \in [Ticket -> BOOLEAN]
        /\ phase' \in [Ticket -> Phase]
    BY <1>1 DEF CreateWorktree, StaleResultRemoved, TypeOK, Result, Phase
  <2> QED
    BY <1>1, <2>1, <2>2, <2>3, <2>4 DEF CreateWorktree, TypeOK
<1>2. CASE CreateFails(t)
  <2>1. /\ dirty' \in EditSets /\ detached' \in EditSets
        /\ dir' \in [Ticket -> BOOLEAN] /\ head' \in [Ticket -> {"branch", "rebase"}]
        /\ result' \in [Ticket -> Result]
    BY <1>2 DEF CreateFails, TypeOK, Result
  <2>2. reg' \in [Ticket -> BOOLEAN]
    <3>1. AddRefused(t) \in BOOLEAN
      BY DEF AddRefused, IsRegisteredButMissing, TypeOK
    <3> QED
      BY <1>2, <3>1 DEF CreateFails, TypeOK
  <2> QED
    BY <1>2, <2>1, <2>2 DEF CreateFails, StaleResultRemoved, TypeOK, Phase, Result
<1>3. CASE Launch(t) \/ LaunchFails(t)
  BY <1>3 DEF Launch, Noted, LaunchFails, TypeOK, Phase
<1> QED
  BY <1>1, <1>2, <1>3

LEMMA WorkerType == ASSUME TypeOK, NEW t \in Ticket, Worker(t) PROVE TypeOK'
<1>1. CASE WorkerEdits(t)
  <2>1. made' \in [Ticket -> Nat] /\ dirty' \in EditSets
    BY <1>1 DEF WorkerEdits, TypeOK
  <2>2. \A u \in Ticket : made'[u] <= MaxEdits[u]
    BY <1>1, <2>1, WorktreeAssumption DEF WorkerEdits, TypeOK
  <2> QED
    BY <1>1, <2>1, <2>2 DEF WorkerEdits, TypeOK
<1>2. CASE WorkerCommits(t)
  BY <1>2 DEF WorkerCommits, Commit, TypeOK
<1>3. CASE WorkerEndsRebase(t)
  BY <1>3 DEF WorkerEndsRebase, TypeOK
<1>4. CASE WorkerReports(t)
  BY <1>4 DEF WorkerReports, TypeOK, Result
<1>5. CASE WorkerExits(t) \/ StrayExits(t)
  BY <1>5 DEF WorkerExits, StrayExits, TypeOK, Phase
<1> QED
  BY <1>1, <1>2, <1>3, <1>4, <1>5 DEF Worker

LEMMA JudgeType ==
  ASSUME TypeOK, NEW t \in Ticket,
         \/ GateRefuses(t) \/ ReadReport(t) \/ Relaunch(t) \/ GiveUp(t) \/ Raise(t)
         \/ HandOver(t) \/ Publish(t) \/ PublishFails(t)
  PROVE  TypeOK'
<1>1. CASE GateRefuses(t) \/ ReadReport(t) \/ Relaunch(t) \/ GiveUp(t) \/ Raise(t)
  <2>1. ReadResult(t) \in Result
    BY DEF ReadResult, TypeOK
  <2>2. phase' \in [Ticket -> Phase]
    BY <1>1 DEF GateRefuses, ReadReport, Relaunch, GiveUp, Raise, TypeOK, Phase
  <2>3. trusted' \in [Ticket -> Result]
    BY <1>1, <2>1 DEF GateRefuses, ReadReport, Relaunch, GiveUp, Raise, TypeOK
  <2>4. /\ moved' \in [Ticket -> BOOLEAN] /\ retried' \in [Ticket -> BOOLEAN]
        /\ alive' \in [Ticket -> BOOLEAN]
    BY <1>1 DEF GateRefuses, ReadReport, Relaunch, GiveUp, Raise, TypeOK
  <2> QED
    BY <1>1, <2>2, <2>3, <2>4 DEF GateRefuses, ReadReport, Relaunch, GiveUp, Raise, TypeOK
<1>2. Publishing(t) => copy' \in [Ticket -> Result] /\ trusted' \in [Ticket -> Result]
  <2>1. Preserved(t) \in [Ticket -> Result]
    BY DEF Preserved, TypeOK
  <2> QED
    BY <2>1 DEF Publishing, TypeOK
<1>3. CASE HandOver(t)
  BY <1>2, <1>3 DEF HandOver, TypeOK, Phase
<1>4. CASE Publish(t)
  BY <1>2, <1>4 DEF Publish, TypeOK, Phase
<1>5. CASE PublishFails(t)
  <2>1. /\ dirty' \in EditSets /\ detached' \in EditSets /\ local' \in EditSets
        /\ head' \in [Ticket -> {"branch", "rebase"}] /\ rewritten' \in [Ticket -> BOOLEAN]
    <3>1. CASE SquashFails(t)
      BY <3>1 DEF SquashFails, TypeOK
    <3>2. CASE RebaseAborted(t)
      BY <3>2 DEF RebaseAborted, TypeOK
    <3>3. CASE RebaseOrPushFails(t)
      BY <3>3 DEF RebaseOrPushFails, TypeOK
    <3> QED
      BY <1>5, <3>1, <3>2, <3>3 DEF PublishFails
  <2> QED
    BY <1>2, <1>5, <2>1 DEF PublishFails, TypeOK, Phase
<1> QED
  BY <1>1, <1>3, <1>4, <1>5

LEMMA WrapUpType ==
  ASSUME TypeOK, NEW t \in Ticket,
         PrFails(t) \/ Salvage(t) \/ Remove(t) \/ ForceStop(t) \/ Requeue(t)
  PROVE  TypeOK'
<1>1. CASE PrFails(t)
  <2>1. Salvaged(t)
    BY <1>1, WipStepType DEF PrFails
  <2> QED
    BY <1>1, <2>1 DEF PrFails, Salvaged, TypeOK, Phase
<1>2. CASE Salvage(t)
  <2>1. PICK status \in WipStatus :
          /\ CommitWip(t, status, backup, backup')
          /\ phase' = SetTo(phase, t, IF Removable(status) THEN "wip" ELSE "kept")
    BY <1>2 DEF Salvage
  <2>2. backup \in EditSets
    BY DEF TypeOK
  <2>3. Salvaged(t) /\ backup' \in EditSets
    BY <2>1, <2>2, CommitWipType
  <2>4. copy' \in [Ticket -> Result]
    BY <1>2 DEF Salvage, Preserved, TypeOK
  <2> QED
    BY <1>2, <2>1, <2>3, <2>4 DEF Salvage, Salvaged, RestorePlans, TypeOK, Phase
<1>3. CASE Remove(t)
  <2>1. /\ dirty' \in EditSets /\ detached' \in EditSets
        /\ dir' \in [Ticket -> BOOLEAN] /\ reg' \in [Ticket -> BOOLEAN]
        /\ head' \in [Ticket -> {"branch", "rebase"}] /\ result' \in [Ticket -> Result]
    <3>1. CASE Emptied(t) /\ reg' = SetTo(reg, t, FALSE)
      BY <3>1 DEF TypeOK, Result
    <3>2. CASE /\ \E kept \in SUBSET dirty[t] : dirty' = SetTo(dirty, t, kept)
               /\ UNCHANGED <<dir, reg, head, detached, result>>
      BY <3>2 DEF TypeOK
    <3> QED
      BY <1>3, <3>1, <3>2 DEF Remove
  <2> QED
    BY <1>3, <2>1 DEF Remove, TypeOK, Phase
<1>4. CASE ForceStop(t)
  <2>1. PICK status \in WipStatus : CommitWip(t, status, rescue, rescue')
    BY <1>4 DEF ForceStop
  <2>2. rescue \in EditSets
    BY DEF TypeOK
  <2>3. Salvaged(t) /\ rescue' \in EditSets
    BY <2>1, <2>2, CommitWipType
  <2> QED
    BY <1>4, <2>3 DEF ForceStop, Salvaged, TypeOK, Phase
<1>5. CASE Requeue(t)
  BY <1>5 DEF Requeue, TypeOK, Phase, Result
<1> QED
  BY <1>1, <1>2, <1>3, <1>4, <1>5

LEMMA DaemonRestartType == ASSUME TypeOK, Down \/ Restart PROVE TypeOK'
<1>1. CASE Down
  BY <1>1 DEF Down, TypeOK, Phase
<1>2. CASE Restart
  <2>1. /\ dir' \in [Ticket -> BOOLEAN] /\ reg' \in [Ticket -> BOOLEAN]
        /\ head' \in [Ticket -> {"branch", "rebase"}] /\ result' \in [Ticket -> Result]
        /\ dirty' \in EditSets /\ detached' \in EditSets /\ rescue' \in EditSets
    BY <1>2 DEF Restart, Pruned, TypeOK, Result
  <2> QED
    BY <1>2, <2>1 DEF Restart, TypeOK
<1> QED
  BY <1>1, <1>2

LEMMA NextType == ASSUME TypeOK, [Next]_vars PROVE TypeOK'
<1>1. CASE UNCHANGED vars
  BY <1>1 DEF TypeOK
<1> QED
  BY <1>1, DispatchType, WorkerType, JudgeType, WrapUpType, DaemonRestartType
  DEF Next, Daemon, Finalize
-----------------------------------------------------------------------------
(* The other parts of the invariant *)

LEMMA DispatchInv ==
  ASSUME Inv, NEW t \in Ticket,
         CreateWorktree(t) \/ CreateFails(t) \/ Launch(t) \/ LaunchFails(t)
  PROVE  Others'
<1> USE DEF Inv, Others, TypeOK, Under, Phase, Known
<1>1. CASE CreateWorktree(t)
  <2>1. ResultOK'
    BY <1>1 DEF CreateWorktree, StaleResultRemoved, ResultOK
  <2>2. AliveOK' /\ HauntOK' /\ MovedOK'
    BY <1>1 DEF CreateWorktree, AliveOK, HauntOK, MovedOK
  <2>3. BranchOK'
    BY <1>1 DEF CreateWorktree, Rebased, BranchOK
  <2>4. SalvageOK'
    BY <1>1 DEF CreateWorktree, Rebased, SalvageOK
  <2> QED
    BY <2>1, <2>2, <2>3, <2>4
<1>2. CASE CreateFails(t)
  <2>1. \A u \in Ticket \ {t} : /\ head'[u] = head[u] /\ dirty'[u] = dirty[u]
                                /\ detached'[u] = detached[u] /\ result'[u] = result[u]
    BY <1>2 DEF CreateFails
  <2>2. ResultOK'
    BY <1>2, <2>1 DEF CreateFails, StaleResultRemoved, ResultOK
  <2>3. AliveOK' /\ HauntOK' /\ MovedOK'
    BY <1>2 DEF CreateFails, AliveOK, HauntOK, MovedOK
  <2>4. BranchOK'
    BY <1>2, <2>1 DEF CreateFails, BranchOK
  <2>5. SalvageOK'
    BY <1>2, <2>1 DEF CreateFails, SalvageOK
  <2> QED
    BY <2>2, <2>3, <2>4, <2>5
<1>3. CASE Launch(t)
  <2>1. ResultOK'
    BY <1>3 DEF Launch, Noted, ResultOK, Known
  <2>2. AliveOK' /\ HauntOK'
    BY <1>3 DEF Launch, Noted, AliveOK, HauntOK
  <2>3. BranchOK' /\ MovedOK'
    BY <1>3 DEF Launch, Noted, BranchOK, MovedOK
  <2>4. SalvageOK'
    BY <1>3 DEF Launch, Noted, SalvageOK
  <2> QED
    BY <2>1, <2>2, <2>3, <2>4
<1>4. CASE LaunchFails(t)
  <2>1. ResultOK'
    BY <1>4 DEF LaunchFails, ResultOK, Known
  <2>2. AliveOK' /\ HauntOK'
    BY <1>4 DEF LaunchFails, AliveOK, HauntOK
  <2>3. BranchOK' /\ MovedOK'
    BY <1>4 DEF LaunchFails, BranchOK, MovedOK
  <2>4. SalvageOK'
    BY <1>4 DEF LaunchFails, SalvageOK
  <2> QED
    BY <2>1, <2>2, <2>3, <2>4
<1> QED
  BY <1>1, <1>2, <1>3, <1>4

LEMMA WorkerInv == ASSUME Inv, NEW t \in Ticket, Worker(t) PROVE Others'
<1> USE DEF Inv, Others, TypeOK
<1>1. phase[t] = "wip" => (alive[t] => retried[t]) /\ (old[t] => haunted[t])
  BY DEF AliveOK, HauntOK, Under, Phase
<1>2. CASE WorkerEdits(t)
  <2>1. ResultOK'
    BY <1>1, <1>2 DEF WorkerEdits, AtWork, ResultOK, Known
  <2>2. AliveOK' /\ HauntOK'
    BY <1>1, <1>2 DEF WorkerEdits, AtWork, AliveOK, HauntOK
  <2>3. BranchOK' /\ MovedOK'
    BY <1>1, <1>2 DEF WorkerEdits, AtWork, BranchOK, MovedOK
  <2>4. SalvageOK'
    BY <1>1, <1>2 DEF WorkerEdits, AtWork, SalvageOK
  <2> QED
    BY <2>1, <2>2, <2>3, <2>4
<1>3. CASE WorkerCommits(t)
  <2>1. ResultOK'
    BY <1>1, <1>3 DEF WorkerCommits, AtWork, Commit, ResultOK, Known
  <2>2. AliveOK' /\ HauntOK'
    BY <1>1, <1>3 DEF WorkerCommits, AtWork, Commit, AliveOK, HauntOK
  <2>3. BranchOK' /\ MovedOK'
    BY <1>1, <1>3 DEF WorkerCommits, AtWork, Commit, BranchOK, MovedOK
  <2>4. SalvageOK'
    BY <1>1, <1>3 DEF WorkerCommits, AtWork, Commit, SalvageOK
  <2> QED
    BY <2>1, <2>2, <2>3, <2>4
<1>4. CASE WorkerEndsRebase(t)
  <2>1. ResultOK'
    BY <1>1, <1>4 DEF WorkerEndsRebase, AtWork, ResultOK, Known
  <2>2. AliveOK' /\ HauntOK'
    BY <1>1, <1>4 DEF WorkerEndsRebase, AtWork, AliveOK, HauntOK
  <2>3. BranchOK' /\ MovedOK'
    BY <1>1, <1>4 DEF WorkerEndsRebase, AtWork, BranchOK, MovedOK
  <2>4. SalvageOK'
    BY <1>1, <1>4 DEF WorkerEndsRebase, AtWork, SalvageOK
  <2> QED
    BY <2>1, <2>2, <2>3, <2>4
<1>5. CASE WorkerReports(t)
  <2>1. ResultOK'
    BY <1>5 DEF WorkerReports, ResultOK, Known, HauntOK
  <2> QED
    BY <1>5, <2>1 DEF WorkerReports, AliveOK, HauntOK, BranchOK, SalvageOK, MovedOK
<1>6. CASE WorkerExits(t)
  <2>1. ResultOK'
    BY <1>6 DEF WorkerExits, Under, Phase, ResultOK, Known
  <2>2. AliveOK' /\ HauntOK'
    BY <1>6 DEF WorkerExits, Under, Phase, AliveOK, HauntOK
  <2>3. BranchOK' /\ MovedOK'
    BY <1>6 DEF WorkerExits, Under, Phase, BranchOK, MovedOK
  <2>4. SalvageOK'
    BY <1>6 DEF WorkerExits, Under, Phase, SalvageOK
  <2> QED
    BY <2>1, <2>2, <2>3, <2>4
<1>7. CASE StrayExits(t)
  <2>1. ResultOK'
    BY <1>7 DEF StrayExits, ResultOK, Known
  <2>2. AliveOK' /\ HauntOK'
    BY <1>7 DEF StrayExits, AliveOK, HauntOK
  <2>3. BranchOK' /\ MovedOK'
    BY <1>7 DEF StrayExits, BranchOK, MovedOK
  <2>4. SalvageOK'
    BY <1>7 DEF StrayExits, SalvageOK
  <2> QED
    BY <2>1, <2>2, <2>3, <2>4
<1> QED
  BY <1>2, <1>3, <1>4, <1>5, <1>6, <1>7 DEF Worker

LEMMA JudgeInv ==
  ASSUME Inv, NEW t \in Ticket,
         \/ GateRefuses(t) \/ ReadReport(t) \/ Relaunch(t) \/ GiveUp(t) \/ Raise(t)
         \/ HandOver(t) \/ Publish(t) \/ PublishFails(t)
  PROVE  Others'
<1> USE DEF Inv, Others, TypeOK, Under, Phase
<1>1. phase[t] \in Under /\ ReadResult(t) = "stale" => Known(t)
  BY DEF ReadResult, ResultOK
<1>2. CASE GateRefuses(t)
  <2>1. ResultOK'
    BY <1>1, <1>2 DEF GateRefuses, ResultOK, Known
  <2>2. AliveOK' /\ HauntOK'
    BY <1>1, <1>2 DEF GateRefuses, AliveOK, HauntOK
  <2>3. BranchOK' /\ MovedOK'
    BY <1>1, <1>2 DEF GateRefuses, BranchOK, MovedOK
  <2>4. SalvageOK'
    BY <1>1, <1>2 DEF GateRefuses, SalvageOK
  <2> QED
    BY <2>1, <2>2, <2>3, <2>4
<1>3. CASE ReadReport(t)
  <2>1. ResultOK'
    BY <1>1, <1>3 DEF ReadReport, ResultOK, Known
  <2>2. AliveOK' /\ HauntOK'
    BY <1>1, <1>3 DEF ReadReport, AliveOK, HauntOK
  <2>3. BranchOK' /\ MovedOK'
    BY <1>1, <1>3 DEF ReadReport, BranchOK, MovedOK
  <2>4. SalvageOK'
    BY <1>1, <1>3 DEF ReadReport, SalvageOK
  <2> QED
    BY <2>1, <2>2, <2>3, <2>4
<1>4. CASE Relaunch(t)
  <2>1. ResultOK'
    BY <1>4 DEF Relaunch, ResultOK, Known
  <2>2. AliveOK' /\ HauntOK'
    BY <1>4 DEF Relaunch, AliveOK, HauntOK
  <2>3. BranchOK' /\ MovedOK'
    BY <1>4 DEF Relaunch, BranchOK, MovedOK
  <2>4. SalvageOK'
    BY <1>4 DEF Relaunch, SalvageOK
  <2> QED
    BY <2>1, <2>2, <2>3, <2>4
<1>7. CASE GiveUp(t)
  <2>1. ResultOK'
    BY <1>7 DEF GiveUp, ResultOK, Known
  <2>2. AliveOK' /\ HauntOK'
    BY <1>7 DEF GiveUp, AliveOK, HauntOK
  <2>3. BranchOK' /\ MovedOK'
    BY <1>7 DEF GiveUp, BranchOK, MovedOK
  <2>4. SalvageOK'
    BY <1>7 DEF GiveUp, SalvageOK
  <2> QED
    BY <2>1, <2>2, <2>3, <2>4
<1>5. CASE Raise(t)
  <2>1. ResultOK'
    BY <1>5 DEF Raise, ResultOK, Known
  <2>2. AliveOK' /\ HauntOK'
    BY <1>5 DEF Raise, AliveOK, HauntOK
  <2>3. BranchOK' /\ MovedOK'
    BY <1>5 DEF Raise, BranchOK, MovedOK
  <2>4. SalvageOK'
    BY <1>5 DEF Raise, SalvageOK
  <2> QED
    BY <2>1, <2>2, <2>3, <2>4
<1>6. CASE HandOver(t) \/ Publish(t) \/ PublishFails(t)
  <2>1. /\ phase[t] = "checking" /\ phase' \in {SetTo(phase, t, "preserved"),
                                                SetTo(phase, t, "refused")}
        /\ UNCHANGED <<retried, processes, plans, result, inBranch, backup, rescue>>
        /\ Publishing(t)
    BY <1>6 DEF HandOver, Publish, PublishFails
  <2>2. ResultOK'
    BY <2>1 DEF Publishing, Preserved, ResultOK, Known
  <2>3. AliveOK' /\ HauntOK' /\ MovedOK'
    BY <2>1 DEF AliveOK, HauntOK, MovedOK
  <2>4. BranchOK' /\ SalvageOK'
    <3>1. CASE HandOver(t)
      BY <2>1, <3>1 DEF HandOver, BranchOK, SalvageOK
    <3>2. CASE Publish(t)
      BY <2>1, <3>2 DEF Publish, BranchOK, SalvageOK
    <3>3. CASE PublishFails(t) /\ SquashFails(t)
      BY <2>1, <3>3 DEF PublishFails, SquashFails, BranchOK, SalvageOK
    <3>4. CASE PublishFails(t) /\ RebaseAborted(t)
      BY <2>1, <3>4 DEF PublishFails, RebaseAborted, BranchOK, SalvageOK
    <3>5. CASE PublishFails(t) /\ RebaseOrPushFails(t)
      BY <2>1, <3>5 DEF PublishFails, RebaseOrPushFails, BranchOK, SalvageOK
    <3> QED
      BY <1>6, <3>1, <3>2, <3>3, <3>4, <3>5 DEF PublishFails
  <2> QED
    BY <2>2, <2>3, <2>4
<1> QED
  BY <1>2, <1>3, <1>4, <1>5, <1>6, <1>7

LEMMA WrapUpInv ==
  ASSUME Inv, NEW t \in Ticket,
         PrFails(t) \/ Salvage(t) \/ Remove(t) \/ ForceStop(t) \/ Requeue(t)
  PROVE  Others'
<1> USE DEF Inv, Others, TypeOK, Under, Phase
<1>1. CASE PrFails(t)
  <2>1. Salvaged(t)
    BY <1>1, WipStepType DEF PrFails
  <2>2. ResultOK' /\ AliveOK' /\ HauntOK' /\ MovedOK'
    BY <1>1 DEF PrFails, ResultOK, Known, AliveOK, HauntOK, MovedOK
  <2>3. BranchOK' /\ SalvageOK'
    BY <1>1, <2>1 DEF PrFails, Salvaged, BranchOK, SalvageOK
  <2> QED
    BY <2>2, <2>3
<1>2. CASE Salvage(t)
  <2>1. PICK status \in WipStatus :
          /\ CommitWip(t, status, backup, backup')
          /\ phase' = SetTo(phase, t, IF Removable(status) THEN "wip" ELSE "kept")
    BY <1>2 DEF Salvage
  <2>2. /\ Salvaged(t)
        /\ \A u \in Ticket : u # t => backup'[u] = backup[u]
        /\ Removable(status) => dirty'[t] \subseteq backup'[t]
    BY <2>1, CommitWipType
  <2>3. ResultOK'
    BY <1>2, <2>1 DEF Salvage, Preserved, ResultOK, Known
  <2>4. AliveOK' /\ HauntOK' /\ MovedOK'
    BY <1>2, <2>1 DEF Salvage, RestorePlans, AliveOK, HauntOK, MovedOK
  <2>5. BranchOK'
    BY <1>2, <2>2 DEF Salvage, Salvaged, BranchOK
  <2>6. SalvageOK'
    BY <1>2, <2>1, <2>2 DEF Salvage, Salvaged, SalvageOK
  <2> QED
    BY <2>3, <2>4, <2>5, <2>6
<1>3. CASE Remove(t)
  <2>1. ResultOK'
    BY <1>3 DEF Remove, ResultOK, Known
  <2>2. AliveOK' /\ HauntOK'
    BY <1>3 DEF Remove, AliveOK, HauntOK
  <2>3. BranchOK' /\ MovedOK'
    BY <1>3 DEF Remove, BranchOK, MovedOK
  <2>4. SalvageOK'
    BY <1>3 DEF Remove, SalvageOK
  <2> QED
    BY <2>1, <2>2, <2>3, <2>4
<1>4. CASE ForceStop(t)
  <2>1. PICK status \in WipStatus : CommitWip(t, status, rescue, rescue')
    BY <1>4 DEF ForceStop
  <2>2. Salvaged(t)
    BY <2>1, CommitWipType
  <2>3. ResultOK' /\ AliveOK' /\ HauntOK' /\ MovedOK'
    BY <1>4 DEF ForceStop, ResultOK, Known, AliveOK, HauntOK, MovedOK
  <2>4. BranchOK' /\ SalvageOK'
    BY <1>4, <2>2 DEF ForceStop, Salvaged, BranchOK, SalvageOK
  <2> QED
    BY <2>3, <2>4
<1>5. CASE Requeue(t)
  <2>1. ResultOK'
    BY <1>5 DEF Requeue, ResultOK, Known
  <2>2. AliveOK' /\ HauntOK'
    BY <1>5 DEF Requeue, AliveOK, HauntOK
  <2>3. BranchOK' /\ MovedOK'
    BY <1>5 DEF Requeue, BranchOK, MovedOK
  <2>4. SalvageOK'
    BY <1>5 DEF Requeue, SalvageOK
  <2> QED
    BY <2>1, <2>2, <2>3, <2>4
<1> QED
  BY <1>1, <1>2, <1>3, <1>4, <1>5

LEMMA DaemonRestartInv == ASSUME Inv, Down \/ Restart PROVE Others'
<1> USE DEF Inv, Others, TypeOK
<1>1. CASE Down
  <2>1. ResultOK'
    BY <1>1 DEF Down, Under, Phase, ResultOK, Known
  <2>2. AliveOK' /\ HauntOK'
    BY <1>1 DEF Down, Under, Phase, AliveOK, HauntOK
  <2>3. BranchOK' /\ MovedOK'
    BY <1>1 DEF Down, Under, Phase, BranchOK, MovedOK
  <2>4. SalvageOK'
    BY <1>1 DEF Down, Under, Phase, SalvageOK
  <2> QED
    BY <2>1, <2>2, <2>3, <2>4
<1>2. CASE Restart
  <2>1. ResultOK'
    BY <1>2 DEF Restart, ResultOK, Known
  <2>2. AliveOK' /\ HauntOK'
    BY <1>2 DEF Restart, AliveOK, HauntOK
  <2>3. BranchOK' /\ MovedOK'
    BY <1>2 DEF Restart, BranchOK, MovedOK
  <2>4. SalvageOK'
    BY <1>2 DEF Restart, SalvageOK
  <2> QED
    BY <2>1, <2>2, <2>3, <2>4
<1> QED
  BY <1>1, <1>2

LEMMA Invariant == Spec => []Inv
<1>1. Inv /\ [Next]_vars => Inv'
  <2> SUFFICES ASSUME Inv, [Next]_vars PROVE Inv'
    OBVIOUS
  <2>1. TypeOK'
    BY NextType DEF Inv
  <2>2. CASE UNCHANGED vars
    BY <2>1, <2>2
    DEF Inv, Others, ResultOK, Known, AliveOK, HauntOK, BranchOK, SalvageOK, MovedOK
  <2>3. CASE Next
    BY <2>1, <2>3, DispatchInv, WorkerInv, JudgeInv, WrapUpInv, DaemonRestartInv
    DEF Next, Daemon, Finalize, Inv
  <2> QED
    BY <2>2, <2>3
<1> QED
  BY InitInv, <1>1, PTL DEF Spec

\* Every variable keeps its type, and no ticket has more edits than were made for it.
THEOREM WorktreeTypeCorrect == Spec => []TypeOK
<1>1. Inv => TypeOK
  BY DEF Inv
<1> QED
  BY <1>1, Invariant, PTL

\* An attempt is judged by the result.json its own worker wrote, through crashes,
\* force-stops, gates, failed cleanups and dispatches again (cleanup_stale_artifacts,
\* _read_result_status), unless a worker forced that file into a commit or a process
\* of an earlier dispatch still ran when the worktree was made.
THEOREM ResultsAreOwn == Spec => []TrustedResultIsOwn
<1>1. Inv => TrustedResultIsOwn
  BY DEF Inv, Others, ResultOK, Known, TrustedResultIsOwn
<1> QED
  BY <1>1, Invariant, PTL
-----------------------------------------------------------------------------
(* What gets lost, and who puts the plan file back *)

\* A loss of the attempt t that LossesAreKnown knows.
Excused(t) ==
    \/ Lost(t)' \subseteq Lost(t)
    \/ ~ up /\ up'
    \/ phase[t] = "ready" /\ phase'[t] # "ready"
    \/ head[t] = "rebase"
    \/ Lost(t)' \ Lost(t) \subseteq backup[t] \cup rescue[t]
    \/ PushedOver(t)
    \/ RemovedUnderProcess(t)

\* Where nothing of u changes, nothing of u is lost.
LEMMA UntouchedIsKept ==
  ASSUME NEW u \in Ticket, made'[u] = made[u], dirty'[u] = dirty[u],
         detached'[u] = detached[u], local'[u] = local[u], origin'[u] = origin[u],
         backup'[u] = backup[u], rescue'[u] = rescue[u]
  PROVE  Lost(u)' = Lost(u)
  BY DEF Lost

\* commit_wip_state drops nothing but the older backup.
LEMMA SalvagedIsKept ==
  ASSUME Inv, NEW t \in Ticket, Salvaged(t), made' = made,
         \A u \in Ticket : u # t => backup'[u] = backup[u] /\ rescue'[u] = rescue[u],
         backup'[t] = backup[t] \/ rescue'[t] = rescue[t]
  PROVE  \A u \in Ticket : Excused(u)
<1>1. ASSUME NEW u \in Ticket, u # t PROVE Excused(u)
  <2>1. Lost(u)' = Lost(u)
    BY <1>1, UntouchedIsKept DEF Salvaged
  <2> QED
    BY <2>1 DEF Excused
<1>2. Excused(t)
  <2>1. /\ local[t] \subseteq local'[t]
        /\ detached'[t] = detached[t] \/ head[t] = "rebase"
        /\ dirty[t] \subseteq dirty'[t] \cup detached'[t] \cup local'[t]
        /\ origin[t] \subseteq origin'[t] \cup local'[t]
    BY DEF Salvaged, Inv, Others, BranchOK
  <2>2. CASE head[t] = "rebase"
    BY <2>2 DEF Excused
  <2>3. CASE head[t] # "rebase"
    BY <2>1, <2>3 DEF Excused, Lost
  <2> QED
    BY <2>2, <2>3
<1> QED
  BY <1>1, <1>2

LEMMA DispatchLosses ==
  ASSUME Inv, NEW t \in Ticket,
         \/ CreateWorktree(t) \/ CreateFails(t) \/ Launch(t) \/ LaunchFails(t)
         \/ Requeue(t)
  PROVE  \A u \in Ticket : Excused(u)
<1> USE DEF TypeOK, Phase
<1>1. CASE CreateWorktree(t) \/ CreateFails(t)
  <2>1. phase[t] = "ready" /\ phase'[t] # "ready"
    BY <1>1 DEF CreateWorktree, CreateFails, Inv
  <2>2. \A u \in Ticket \ {t} : dirty'[u] = dirty[u] /\ detached'[u] = detached[u]
    BY <1>1 DEF CreateWorktree, CreateFails, Inv
  <2>3. UNCHANGED <<made, local, origin, backup, rescue>>
    BY <1>1 DEF CreateWorktree, CreateFails
  <2>4. \A u \in Ticket \ {t} : Lost(u)' = Lost(u)
    BY <2>2, <2>3, UntouchedIsKept
  <2> QED
    BY <2>1, <2>4 DEF Excused
<1>2. CASE Launch(t) \/ LaunchFails(t) \/ Requeue(t)
  <2>1. \A u \in Ticket : Lost(u)' = Lost(u)
    BY <1>2, UntouchedIsKept DEF Launch, LaunchFails, Requeue
  <2> QED
    BY <2>1 DEF Excused
<1> QED
  BY <1>1, <1>2

\* Publishing: what is on origin only may be pushed over, and the abort of a rebase
\* drops what was in it.
LEMMA JudgeLosses ==
  ASSUME Inv, NEW t \in Ticket,
         \/ GateRefuses(t) \/ ReadReport(t) \/ Relaunch(t) \/ GiveUp(t) \/ Raise(t)
         \/ HandOver(t) \/ Publish(t) \/ PublishFails(t)
  PROVE  \A u \in Ticket : Excused(u)
<1>1. CASE UNCHANGED edits
  <2>1. \A u \in Ticket : Lost(u)' = Lost(u)
    BY <1>1, UntouchedIsKept
  <2> QED
    BY <2>1 DEF Excused
<1>2. CASE Publish(t)
  <2>1. UNCHANGED <<made, dirty, detached, local, backup, rescue>> /\ phase[t] = "checking"
    BY <1>2 DEF Publish
  <2>2. origin'[t] = local[t] /\ \A u \in Ticket \ {t} : origin'[u] = origin[u]
    BY <1>2 DEF Publish, Inv, TypeOK
  <2>3. \A u \in Ticket \ {t} : Lost(u)' = Lost(u)
    BY <2>1, <2>2, UntouchedIsKept
  <2>4. Excused(t)
    BY <2>1, <2>2 DEF Excused, PushedOver, Lost
  <2> QED
    BY <2>3, <2>4 DEF Excused
<1>3. CASE PublishFails(t)
  <2>1. UNCHANGED <<made, origin, backup, rescue>>
    BY <1>3 DEF PublishFails
  <2>2. \A u \in Ticket \ {t} :
          dirty'[u] = dirty[u] /\ detached'[u] = detached[u] /\ local'[u] = local[u]
    BY <1>3 DEF PublishFails, SquashFails, RebaseAborted, RebaseOrPushFails, Inv, TypeOK
  <2>3. \A u \in Ticket \ {t} : Lost(u)' = Lost(u)
    BY <2>1, <2>2, UntouchedIsKept
  <2>4. \/ head[t] = "rebase"
        \/ detached'[t] = detached[t] /\ dirty[t] \cup local[t] \subseteq dirty'[t] \cup local'[t]
    BY <1>3 DEF PublishFails, SquashFails, RebaseAborted, RebaseOrPushFails, Inv, TypeOK
  <2>5. Excused(t)
    BY <2>1, <2>4 DEF Excused, Lost
  <2> QED
    BY <2>3, <2>5 DEF Excused
<1> QED
  BY <1>1, <1>2, <1>3 DEF GateRefuses, ReadReport, Relaunch, GiveUp, Raise, HandOver

LEMMA WrapUpLosses ==
  ASSUME Inv, NEW t \in Ticket, PrFails(t) \/ Salvage(t) \/ Remove(t) \/ ForceStop(t)
  PROVE  \A u \in Ticket : Excused(u)
<1> USE DEF TypeOK
<1>1. CASE PrFails(t)
  <2>1. Salvaged(t)
    BY <1>1, WipStepType DEF PrFails, Inv
  <2> QED
    BY <1>1, <2>1, SalvagedIsKept DEF PrFails
<1>2. CASE Salvage(t)
  <2>1. PICK status \in WipStatus : CommitWip(t, status, backup, backup')
    BY <1>2 DEF Salvage
  <2>2. TypeOK /\ backup \in EditSets
    BY DEF Inv
  <2>3. Salvaged(t) /\ \A u \in Ticket : u # t => backup'[u] = backup[u]
    BY ONLY <2>1, <2>2, CommitWipType, t \in Ticket
  <2> QED
    BY <1>2, <2>3, SalvagedIsKept DEF Salvage
<1>3. CASE ForceStop(t)
  <2>1. PICK status \in WipStatus : CommitWip(t, status, rescue, rescue')
    BY <1>3 DEF ForceStop
  <2>2. TypeOK /\ rescue \in EditSets
    BY DEF Inv
  <2>3. Salvaged(t) /\ \A u \in Ticket : u # t => rescue'[u] = rescue[u]
    BY ONLY <2>1, <2>2, CommitWipType, t \in Ticket
  <2> QED
    BY <1>3, <2>3, SalvagedIsKept DEF ForceStop
<1>4. CASE Remove(t)
  <2>1. UNCHANGED <<made, local, origin, backup, rescue>> /\ phase[t] = "wip"
    BY <1>4 DEF Remove
  <2>2. \A u \in Ticket \ {t} : dirty'[u] = dirty[u] /\ detached'[u] = detached[u]
    BY <1>4 DEF Remove, Inv
  <2>3. \A u \in Ticket \ {t} : Lost(u)' = Lost(u)
    BY <2>1, <2>2, UntouchedIsKept
  <2>4. \/ head[t] = "rebase" \/ RemovedUnderProcess(t)
        \/ dirty[t] \subseteq local[t] \cup backup[t] /\ detached[t] = {}
    BY <2>1 DEF Inv, Others, SalvageOK, BranchOK, RemovedUnderProcess
  <2>5. Excused(t)
    BY <2>1, <2>4 DEF Excused, Lost
  <2> QED
    BY <2>3, <2>5 DEF Excused
<1> QED
  BY <1>1, <1>2, <1>3, <1>4

LEMMA WorkerLosses ==
  ASSUME Inv, NEW t \in Ticket, Worker(t) PROVE \A u \in Ticket : Excused(u)
<1> USE DEF TypeOK
<1>1. CASE WorkerEdits(t)
  <2>1. UNCHANGED <<detached, local, origin, backup, rescue>>
    BY <1>1 DEF WorkerEdits
  <2>2. \A u \in Ticket \ {t} : made'[u] = made[u] /\ dirty'[u] = dirty[u]
    BY <1>1 DEF WorkerEdits, Inv
  <2>3. \A u \in Ticket \ {t} : Lost(u)' = Lost(u)
    BY <2>1, <2>2, UntouchedIsKept
  <2>4. /\ made[t] \in Nat /\ made'[t] = made[t] + 1
        /\ dirty'[t] = dirty[t] \cup {made[t] + 1}
    BY <1>1 DEF WorkerEdits, Inv
  <2>5. 1 .. made'[t] = (1 .. made[t]) \cup {made[t] + 1}
    BY <2>4
  <2>6. Excused(t)
    BY <2>1, <2>4, <2>5 DEF Excused, Lost
  <2> QED
    BY <2>3, <2>6 DEF Excused
<1>2. CASE WorkerCommits(t)
  <2>1. UNCHANGED <<made, origin, backup, rescue>> /\ Commit(t)
    BY <1>2 DEF WorkerCommits
  <2>2. \A u \in Ticket \ {t} :
          dirty'[u] = dirty[u] /\ detached'[u] = detached[u] /\ local'[u] = local[u]
    BY <2>1 DEF Commit, Inv
  <2>3. \A u \in Ticket \ {t} : Lost(u)' = Lost(u)
    BY <2>1, <2>2, UntouchedIsKept
  <2>4. /\ dirty[t] \subseteq local'[t] \cup detached'[t]
        /\ local[t] \subseteq local'[t] /\ detached[t] \subseteq detached'[t]
    BY <2>1 DEF Commit, Inv
  <2>5. Excused(t)
    BY <2>1, <2>4 DEF Excused, Lost
  <2> QED
    BY <2>3, <2>5 DEF Excused
<1>3. CASE WorkerEndsRebase(t)
  <2>1. UNCHANGED <<made, dirty, origin, backup, rescue>> /\ head[t] = "rebase"
    BY <1>3 DEF WorkerEndsRebase
  <2>2. \A u \in Ticket \ {t} : detached'[u] = detached[u] /\ local'[u] = local[u]
    BY <1>3 DEF WorkerEndsRebase, Inv
  <2>3. \A u \in Ticket \ {t} : Lost(u)' = Lost(u)
    BY <2>1, <2>2, UntouchedIsKept
  <2> QED
    BY <2>1, <2>3 DEF Excused
<1>4. CASE WorkerReports(t) \/ WorkerExits(t) \/ StrayExits(t)
  <2>1. \A u \in Ticket : Lost(u)' = Lost(u)
    BY <1>4, UntouchedIsKept DEF WorkerReports, WorkerExits, StrayExits
  <2> QED
    BY <2>1 DEF Excused
<1> QED
  BY <1>1, <1>2, <1>3, <1>4 DEF Worker

\* No order of gates, exceptions and failing git, disk and cleanup steps loses an edit
\* in another way than the six that LossesAreKnown names, whatever the number of
\* tickets and edits (commit_wip_state, cleanup_worktree, cleanup_orphaned_worktrees,
\* create_pr).
THEOREM NoOtherLoss == Spec => LossesAreKnown
<1>1. ASSUME Inv, [Next]_vars PROVE [\A t \in Ticket : Excused(t)]_vars
  <2>1. CASE Down
    <3>1. \A u \in Ticket : Lost(u)' = Lost(u)
      BY <2>1, UntouchedIsKept DEF Down
    <3> QED
      BY <3>1 DEF Excused
  <2>2. CASE Restart
    BY <2>2 DEF Restart, Excused
  <2> QED
    BY <1>1, <2>1, <2>2, DispatchLosses, JudgeLosses, WrapUpLosses, WorkerLosses
    DEF Next, Daemon, Finalize
<1>2. Inv /\ [Next]_vars => [\A t \in Ticket : Excused(t)]_vars
  BY <1>1
<1> QED
  BY <1>2, Invariant, PTL DEF Spec, LossesAreKnown, Excused

\* As long as attempts reach their wrap-up, the operator's plan file comes back from
\* each: the one that moved it is the one that restores it (backup_plan_files,
\* restore_plan_files), with any number of workers that share the directory.
THEOREM PlanComesBack == Spec => PlanIsPutBack
<1> DEFINE Back == Stranded' => \/ Stranded
                               \/ ~ up'
                               \/ \E t \in Ticket :
                                    /\ phase[t] \notin {"ready", "wip", "kept", "ended"}
                                    /\ phase'[t] = "ended"
<1>1. ASSUME Inv, [Next]_vars PROVE [Back]_vars
  <2> SUFFICES ASSUME Next, Stranded', ~ Stranded PROVE Back
    BY <1>1
  <2> USE DEF Inv, Others, TypeOK, Phase
  <2>1. CASE \E t \in Ticket : Launch(t)
    <3> PICK t \in Ticket : Launch(t)
      BY <2>1
    <3>1. phase[t] = "created" /\ plan' = "backup" /\ moved' = SetTo(moved, t, plan = "plans")
      BY DEF Launch, Noted
    <3>2. plan = "backup" /\ ~ moved[t]
      BY <1>1, <3>1 DEF MovedOK, Stranded
    <3>3. \A u \in Ticket : moved'[u] = moved[u]
      BY <1>1, <3>1, <3>2
    <3> QED
      BY <3>2, <3>3 DEF Stranded
  <2>2. CASE \E t \in Ticket : Salvage(t)
    <3> PICK t \in Ticket : Salvage(t)
      BY <2>2
    <3>1. RestorePlans(t)
      BY DEF Salvage
    <3>2. ~ moved[t] /\ plan' = plan
      BY <1>1, <3>1 DEF RestorePlans, Stranded
    <3>3. \A u \in Ticket : moved'[u] = moved[u]
      BY <1>1, <3>1, <3>2 DEF RestorePlans
    <3> QED
      BY <3>1, <3>2, <3>3 DEF Stranded
  <2>3. CASE \E t \in Ticket : Raise(t)
    <3> PICK t \in Ticket : Raise(t)
      BY <2>3
    <3>1. CASE phase[t] = "wip"
      <4>1. ~ moved[t] /\ plan' = plan /\ moved' = SetTo(moved, t, FALSE)
        BY <1>1, <3>1 DEF Raise, MovedOK
      <4>2. \A u \in Ticket : moved'[u] = moved[u]
        BY <1>1, <4>1
      <4> QED
        BY <4>1, <4>2 DEF Stranded
    <3>2. CASE phase[t] # "wip"
      BY <1>1, <3>2 DEF Raise
    <3> QED
      BY <3>1, <3>2
  <2>4. CASE \E t \in Ticket : GateRefuses(t) \/ ForceStop(t) \/ LaunchFails(t)
    BY <1>1, <2>4 DEF GateRefuses, ForceStop, LaunchFails
  <2>5. CASE Down
    BY <2>5 DEF Down
  <2>6. CASE UNCHANGED plans
    BY <2>6 DEF Stranded
  <2> QED
    BY <2>1, <2>2, <2>3, <2>4, <2>5, <2>6
    DEF Next, Daemon, Finalize, Worker, CreateWorktree, CreateFails, ReadReport, Relaunch, GiveUp,
        HandOver, Publish, PublishFails, PrFails, Remove, Restart, Requeue, WorkerEdits,
        WorkerCommits, WorkerEndsRebase, WorkerReports, WorkerExits, StrayExits
<1>2. Inv /\ [Next]_vars => [Back]_vars
  BY <1>1
<1> QED
  BY <1>2, Invariant, PTL DEF Spec, PlanIsPutBack
=============================================================================
