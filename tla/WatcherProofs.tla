---------------------------- MODULE WatcherProofs ----------------------------
(***************************************************************************)
(* Proofs about the daemon of Watcher for every project, pool size, worker *)
(* mode and set of faults.                                                 *)
(***************************************************************************)
EXTENDS Ownership, FiniteSetTheorems, TLAPS

(***************************************************************************)
(* The invariant that carries the type invariant: which steps use which    *)
(* part of the state.                                                      *)
(***************************************************************************)
Owned(w) == pool[w] # "none" \/ w \in Live

HandlesOK ==
    \A w \in Worker :
        /\ Owned(w) => ticketOf[w] \in Ticket
        /\ pool[w] # "none" => proc[w] # "free"

ReapingOK ==
    /\ reaped # {} => pc \in {"joinLocal", "joinCloud"}
    /\ \A w \in reaped : pool[w] # "none" /\ proc[w] = "exited"

PassOK ==
    /\ queue # {} => pc \in {"dispatch", "claim", "spawn"}
    /\ pc \in {"claim", "spawn"} =>
         cur \in queue /\ mode \in PoolName /\ dispatched < MaxDispatch

Inv == TypeOK /\ HandlesOK /\ ReapingOK /\ PassOK

USE DEF At, Goto

LEMMA InitInv == Init => Inv
<1> SUFFICES ASSUME Init PROVE Inv
  OBVIOUS
<1>1. linear \in [Ticket -> LinearState] /\ status \in [Ticket -> ManifestStatus]
  BY ManifestAssumption DEF Init, ManifestStatus
<1>2. dispatched \in 0 .. MaxDispatch /\ restarts \in 0 .. MaxRestarts
  BY PoolAssumption, EnvironmentAssumption DEF Init
<1>3. TypeOK
  BY <1>1, <1>2 DEF Init, TypeOK, Step, PoolName
<1>4. HandlesOK /\ ReapingOK /\ PassOK
  BY DEF Init, HandlesOK, ReapingOK, PassOK, Owned, Live
<1> QED
  BY <1>3, <1>4 DEF Inv

LEMMA SetStateType ==
  ASSUME NEW states \in [Ticket -> LinearState], NEW t, NEW s \in LinearState,
         NEW new \in AfterSetState(states, t, s)
  PROVE  new \in [Ticket -> LinearState]
  BY DEF AfterSetState

USE DEF vars, control, workers, reaping, passing, outside, operator

LEMMA SentinelStepsInv ==
  ASSUME Inv, CheckSoftstop \/ CheckPause \/ CheckPauseResumption
  PROVE  Inv'
<1>1. TypeOK'
  BY DEF Inv, TypeOK, Step, CheckSoftstop, CheckPause, CheckPauseResumption
<1>2. HandlesOK' /\ ReapingOK' /\ PassOK'
  BY DEF Inv, HandlesOK, ReapingOK, PassOK, Owned, Live,
         CheckSoftstop, CheckPause, CheckPauseResumption
<1> QED
  BY <1>1, <1>2 DEF Inv

\* What dropping the active lists does to the handles.
LEMMA DisownedHandles ==
  ASSUME TypeOK, HandlesOK,
         NEW procs \in [Worker -> {"free", "running", "terminating", "exited"}],
         \A w \in Worker : procs[w] \in {"running", "terminating"} => w \in Live,
         Disowned(procs)
  PROVE  /\ pool' \in [Worker -> PoolName \cup {"none"}]
         /\ ticketOf' \in [Worker -> Ticket \cup {NoTicket}]
         /\ proc' \in [Worker -> {"free", "running", "terminating", "exited"}]
         /\ HandlesOK'
  BY DEF TypeOK, HandlesOK, Owned, Live, Disowned, PoolName

LEMMA TerminatedProcs ==
  ASSUME TypeOK, NEW W
  PROVE  /\ Terminated(W) \in [Worker -> {"free", "running", "terminating", "exited"}]
         /\ \A w \in Worker :
              /\ Terminated(W)[w] \in {"running", "terminating"} <=> w \in Live
              /\ Terminated(W)[w] = "free" <=> proc[w] = "free"
              /\ Terminated(W)[w] = "exited" <=> proc[w] = "exited"
  BY DEF TypeOK, Terminated, Live

LEMMA ForcestopInv == ASSUME Inv, CheckForcestop PROVE Inv'
<1>1. CASE "forcestop" \in sentinels /\ ~ forcestopping
  <2>1. /\ pool' \in [Worker -> PoolName \cup {"none"}]
        /\ ticketOf' \in [Worker -> Ticket \cup {NoTicket}]
        /\ proc' \in [Worker -> {"free", "running", "terminating", "exited"}]
        /\ HandlesOK'
    BY <1>1, DisownedHandles, TerminatedProcs DEF Inv, CheckForcestop
  <2>2. TypeOK'
    BY <1>1, <2>1 DEF Inv, TypeOK, Step, CheckForcestop
  <2>3. ReapingOK' /\ PassOK'
    BY <1>1 DEF Inv, ReapingOK, PassOK, CheckForcestop
  <2> QED
    BY <2>1, <2>2, <2>3 DEF Inv
<1>2. CASE ~ ("forcestop" \in sentinels /\ ~ forcestopping)
  <2>1. TypeOK'
    BY <1>2 DEF Inv, TypeOK, Step, CheckForcestop
  <2>2. HandlesOK' /\ ReapingOK' /\ PassOK'
    BY <1>2 DEF Inv, HandlesOK, ReapingOK, PassOK, Owned, Live, CheckForcestop
  <2> QED
    BY <2>1, <2>2 DEF Inv
<1> QED
  BY <1>1, <1>2

LEMMA KillInv == ASSUME Inv, CheckKill PROVE Inv'
<1>1. TypeOK'
  BY TerminatedProcs DEF Inv, TypeOK, Step, CheckKill
<1>2. HandlesOK'
  BY TerminatedProcs DEF Inv, HandlesOK, Owned, Live, CheckKill
<1>3. ReapingOK' /\ PassOK'
  BY DEF Inv, ReapingOK, PassOK, CheckKill
<1> QED
  BY <1>1, <1>2, <1>3 DEF Inv

LEMMA OverrunInv == ASSUME Inv, TerminateOverrun PROVE Inv'
<1> PICK stalled \in SUBSET {w \in Active : proc[w] = "running"},
         expired \in SUBSET {w \in Active : proc[w] = "terminating"} :
      proc' = [w \in Worker |-> IF w \in expired THEN "exited" ELSE Terminated(stalled)[w]]
  BY DEF TerminateOverrun
<1>1. proc' \in [Worker -> {"free", "running", "terminating", "exited"}]
  BY TerminatedProcs DEF Inv
<1>2. TypeOK'
  BY <1>1 DEF Inv, TypeOK, Step, TerminateOverrun
<1>3. HandlesOK'
  BY TerminatedProcs DEF Inv, HandlesOK, Owned, Live, TerminateOverrun
<1>4. ReapingOK' /\ PassOK'
  BY DEF Inv, ReapingOK, PassOK, TerminateOverrun
<1> QED
  BY <1>2, <1>3, <1>4 DEF Inv

LEMMA ReapPollInv ==
  ASSUME Inv, NEW p \in PoolName, NEW here \in Step,
         NEW next \in {"joinLocal", "joinCloud"},
         here \notin {"dispatch", "claim", "spawn"},
         ReapPoll(p, here, next)
  PROVE  Inv'
<1>1. TypeOK'
  BY DEF Inv, TypeOK, Step, ReapPoll, Pool
<1>2. HandlesOK' /\ ReapingOK' /\ PassOK'
  BY DEF Inv, HandlesOK, ReapingOK, PassOK, Owned, Live, ReapPoll, Pool, Finished, PoolName
<1> QED
  BY <1>1, <1>2 DEF Inv

LEMMA ReapDoneInv ==
  ASSUME Inv, NEW here \in {"joinLocal", "joinCloud"}, NEW next \in {"reapCloud", "promote"},
         ReapDone(here, next)
  PROVE  Inv'
<1>1. TypeOK'
  BY DEF Inv, TypeOK, Step, ReapDone
<1>2. HandlesOK'
  BY DEF Inv, TypeOK, HandlesOK, ReapingOK, Owned, Live, ReapDone
<1>3. ReapingOK' /\ PassOK'
  BY DEF Inv, TypeOK, ReapingOK, PassOK, ReapDone
<1> QED
  BY <1>1, <1>2, <1>3 DEF Inv

LEMMA ReapInv == ASSUME Inv, Reap PROVE Inv'
  BY ReapPollInv, ReapDoneInv DEF Reap, Step, PoolName

LEMMA FinalizeInv == ASSUME Inv, NEW w \in Worker, FinalizeWorker(w) PROVE Inv'
<1>1. linear' \in [Ticket -> LinearState]
  <2>1. PICK s \in LinearState : linear' = [linear EXCEPT ![ticketOf[w]] = s]
    BY DEF FinalizeWorker
  <2> QED
    BY <2>1 DEF Inv, TypeOK
<1>2. processed' \in BOOLEAN
  BY DEF FinalizeWorker
<1>3. ticketOf[w] \in Ticket
  BY DEF Inv, TypeOK, ReapingOK, HandlesOK, Owned, FinalizeWorker
<1>4. CASE UNCHANGED workers
  <2>1. TypeOK'
    BY <1>1, <1>2, <1>4 DEF Inv, TypeOK, Step, FinalizeWorker
  <2>2. HandlesOK' /\ ReapingOK' /\ PassOK'
    BY <1>4 DEF Inv, HandlesOK, ReapingOK, PassOK, Owned, Live, FinalizeWorker
  <2> QED
    BY <2>1, <2>2 DEF Inv
<1>5. CASE \E v \in Free : /\ proc' = [proc EXCEPT ![v] = "running"]
                            /\ ticketOf' = [ticketOf EXCEPT ![v] = ticketOf[w]]
                            /\ UNCHANGED pool
  <2> PICK v \in Free : /\ proc' = [proc EXCEPT ![v] = "running"]
                         /\ ticketOf' = [ticketOf EXCEPT ![v] = ticketOf[w]]
                         /\ UNCHANGED pool
    BY <1>5
  <2>1. TypeOK'
    BY <1>1, <1>2, <1>3 DEF Inv, TypeOK, Step, FinalizeWorker, Free
  <2>2. HandlesOK' /\ ReapingOK' /\ PassOK'
    BY <1>3 DEF Inv, TypeOK, HandlesOK, ReapingOK, PassOK, Owned, Live, FinalizeWorker, Free
  <2> QED
    BY <2>1, <2>2 DEF Inv
<1> QED
  BY <1>4, <1>5 DEF FinalizeWorker, MayRelaunch

LEMMA PromoteInv == ASSUME Inv, Promote PROVE Inv'
<1>1. linear' \in [Ticket -> LinearState] /\ status' \in [Ticket -> ManifestStatus]
  <2>1. CASE Held
    BY <2>1 DEF Promote, Inv, TypeOK
  <2>2. CASE ~ Held
    <3>1. PICK new \in [Ticket -> ManifestStatus], refused \in SUBSET Ticket :
            /\ status' = new
            /\ linear' = [t \in Ticket |->
                 IF new[t] # status[t] /\ Manifest[t].linearId /\ t \notin refused
                 THEN new[t] ELSE linear[t]]
      BY <2>2 DEF Promote
    <3> QED
      BY <3>1 DEF Inv, TypeOK, ManifestStatus, LinearState
  <2> QED
    BY <2>1, <2>2
<1>2. TypeOK'
  BY <1>1 DEF Inv, TypeOK, Step, Promote
<1>3. HandlesOK' /\ ReapingOK' /\ PassOK'
  BY DEF Inv, HandlesOK, ReapingOK, PassOK, Owned, Live, Promote
<1> QED
  BY <1>2, <1>3 DEF Inv

LEMMA ActiveTickets ==
  ASSUME Inv PROVE TicketsOf(Active) \subseteq Ticket
  BY DEF Inv, HandlesOK, Owned, TicketsOf, Active

LEMMA ListInv == ASSUME Inv, ListReady \/ SkipDispatch PROVE Inv'
<1>1. CASE ListReady
  <2>1. queue' \subseteq Ticket
    BY <1>1 DEF ListReady, Eligible
  <2>2. parents' \subseteq {Manifest[t].epic : t \in Ticket}
    BY <1>1, ActiveTickets DEF ListReady
  <2>3. sorted' \in BOOLEAN
    BY <1>1 DEF ListReady
  <2>4. TypeOK'
    BY <1>1, <2>1, <2>2, <2>3 DEF Inv, TypeOK, Step, ListReady
  <2>5. HandlesOK' /\ ReapingOK' /\ PassOK'
    BY <1>1 DEF Inv, HandlesOK, ReapingOK, PassOK, Owned, Live, ListReady
  <2> QED
    BY <2>4, <2>5 DEF Inv
<1>2. CASE SkipDispatch
  <2>1. TypeOK'
    BY <1>2 DEF Inv, TypeOK, Step, SkipDispatch
  <2>2. HandlesOK' /\ ReapingOK' /\ PassOK'
    BY <1>2 DEF Inv, HandlesOK, ReapingOK, PassOK, Owned, Live, SkipDispatch
  <2> QED
    BY <2>1, <2>2 DEF Inv
<1> QED
  BY <1>1, <1>2

LEMMA StartFailsType ==
  ASSUME TypeOK, NEW t \in Ticket, StartFails(t)
  PROVE  linear' \in [Ticket -> LinearState]
<1>1. "Blocked" \in LinearState
  BY DEF LinearState
<1> QED
  BY <1>1, SetStateType DEF TypeOK, StartFails, AfterStartFailure

LEMMA PreflightInv == ASSUME Inv, NEW t \in Ticket, RunPreflight(t) PROVE Inv'
<1>1. /\ t \in queue /\ dispatched < MaxDispatch /\ pc = "dispatch"
      /\ UNCHANGED <<control, workers, reaping, processed, sorted, parents, status,
                     operator, restarts>>
  BY DEF RunPreflight, MayTry, NextCandidate
<1>2. HandlesOK' /\ ReapingOK'
  BY <1>1 DEF Inv, HandlesOK, ReapingOK, Owned, Live
<1>3. CASE StartFails(t)
  <2>1. linear' \in [Ticket -> LinearState]
    BY <1>3, StartFailsType DEF Inv
  <2>2. TypeOK' /\ PassOK'
    BY <1>1, <1>3, <2>1 DEF Inv, TypeOK, PassOK, Step, StartFails
  <2> QED
    BY <1>2, <2>2 DEF Inv
<1>4. CASE /\ pc' = "dispatch" /\ dispatched' \in {dispatched, dispatched + 1}
           /\ queue' = queue \ {t} /\ UNCHANGED <<cur, mode>>
           /\ linear' = linear \/ linear' \in AfterSetState(linear, t, "Backlog")
  <2>1. "Backlog" \in LinearState
    BY DEF LinearState
  <2>2. linear' \in [Ticket -> LinearState]
    BY <1>4, <2>1, SetStateType DEF Inv, TypeOK
  <2>3. dispatched' \in 0 .. MaxDispatch
    BY <1>1, <1>4, PoolAssumption DEF Inv, TypeOK
  <2>4. TypeOK' /\ PassOK'
    BY <1>1, <1>4, <2>2, <2>3 DEF Inv, TypeOK, PassOK, Step
  <2> QED
    BY <1>2, <2>4 DEF Inv
<1>5. CASE /\ pc' = "claim" /\ cur' = t /\ mode' \in PoolName
           /\ UNCHANGED <<dispatched, queue, linear>>
  <2>1. TypeOK' /\ PassOK'
    BY <1>1, <1>5 DEF Inv, TypeOK, PassOK, Step
  <2> QED
    BY <1>2, <2>1 DEF Inv
<1> QED
  BY <1>3, <1>4, <1>5 DEF RunPreflight

LEMMA ClaimInv == ASSUME Inv, Claim PROVE Inv'
<1>1. cur \in Ticket /\ cur \in queue /\ dispatched < MaxDispatch
  BY DEF Inv, TypeOK, PassOK, Claim
<1>2. HandlesOK' /\ ReapingOK'
  BY DEF Inv, HandlesOK, ReapingOK, Owned, Live, Claim
<1>3. "InProgressLocal" \in LinearState
  BY DEF LinearState
<1>4. linear' \in [Ticket -> LinearState]
  BY <1>1, <1>3, SetStateType, StartFailsType DEF Inv, TypeOK, Claim, Locked
<1>5. TypeOK' /\ PassOK'
  BY <1>1, <1>4 DEF Inv, TypeOK, PassOK, Step, Claim, StartFails
<1> QED
  BY <1>2, <1>5 DEF Inv

LEMMA SpawnInv == ASSUME Inv, Spawn PROVE Inv'
<1>1. cur \in Ticket /\ cur \in queue /\ dispatched < MaxDispatch /\ mode \in PoolName
  BY DEF Inv, TypeOK, PassOK, Spawn
<1>2. CASE "spawn" \in Faults /\ StartFails(cur) /\ UNCHANGED workers
  <2>1. linear' \in [Ticket -> LinearState]
    BY <1>1, <1>2, StartFailsType DEF Inv
  <2>2. TypeOK' /\ PassOK'
    BY <1>2, <2>1 DEF Inv, TypeOK, PassOK, Step, Spawn, StartFails
  <2>3. HandlesOK' /\ ReapingOK'
    BY <1>2 DEF Inv, HandlesOK, ReapingOK, PassOK, Owned, Live, Spawn, StartFails
  <2> QED
    BY <2>2, <2>3 DEF Inv
<1>3. CASE ~ ("spawn" \in Faults /\ StartFails(cur) /\ UNCHANGED workers)
  <2>1. PICK w \in Free :
          /\ pool' = [pool EXCEPT ![w] = mode]
          /\ ticketOf' = [ticketOf EXCEPT ![w] = cur]
          /\ proc' = [proc EXCEPT ![w] = "running"]
    BY <1>3 DEF Spawn
  <2>2. /\ pc' = "dispatch" /\ dispatched' = dispatched + 1 /\ queue' = queue \ {cur}
        /\ cur' = NoTicket /\ mode' = "none" /\ UNCHANGED linear
    BY <1>3 DEF Spawn
  <2>3. dispatched' \in 0 .. MaxDispatch
    BY <1>1, <2>2, PoolAssumption DEF Inv, TypeOK
  <2>4. TypeOK' /\ PassOK'
    BY <1>1, <2>1, <2>2, <2>3 DEF Inv, TypeOK, PassOK, Step, Spawn, Free
  <2>5. HandlesOK' /\ ReapingOK'
    BY <1>1, <2>1, <2>2
    DEF Inv, TypeOK, HandlesOK, ReapingOK, PassOK, Owned, Live, Spawn, Free, PoolName
  <2> QED
    BY <2>4, <2>5 DEF Inv
<1> QED
  BY <1>2, <1>3

LEMMA EndOfPollInv ==
  ASSUME Inv, EndDispatch \/ CheckEpicCompletion \/ CheckDrained \/ WakeUp
  PROVE  Inv'
<1>1. TypeOK'
  <2>1. CASE EndDispatch
    <3>1. dispatched' \in 0 .. MaxDispatch
      BY <2>1, PoolAssumption DEF EndDispatch, NoPass
    <3>2. /\ queue' = {} /\ sorted' = FALSE /\ parents' = {}
          /\ cur' = NoTicket /\ mode' = "none" /\ pc' = "epic"
      BY <2>1 DEF EndDispatch, NoPass
    <3> QED
      BY <2>1, <3>1, <3>2 DEF Inv, TypeOK, Step, EndDispatch
  <2>2. CASE CheckEpicCompletion
    BY <2>2 DEF Inv, TypeOK, Step, CheckEpicCompletion
  <2>3. CASE CheckDrained
    <3>1. running' \in BOOLEAN /\ sentinels' \subseteq sentinels /\ pc' \in Step
      BY <2>3 DEF Inv, TypeOK, Step, CheckDrained
    <3> QED
      BY <2>3, <3>1 DEF Inv, TypeOK, CheckDrained
  <2>4. CASE WakeUp
    BY <2>4 DEF Inv, TypeOK, Step, WakeUp
  <2> QED
    BY <2>1, <2>2, <2>3, <2>4
<1>2. HandlesOK' /\ ReapingOK' /\ PassOK'
  BY DEF Inv, HandlesOK, ReapingOK, PassOK, Owned, Live,
         EndDispatch, CheckEpicCompletion, CheckDrained, WakeUp, NoPass
<1> QED
  BY <1>1, <1>2 DEF Inv

LEMMA EndOfRunInv == ASSUME Inv, FinalizeRun \/ Crash PROVE Inv'
<1>1. /\ pool' \in [Worker -> PoolName \cup {"none"}]
      /\ ticketOf' \in [Worker -> Ticket \cup {NoTicket}]
      /\ proc' \in [Worker -> {"free", "running", "terminating", "exited"}]
      /\ HandlesOK'
  <2>1. CASE FinalizeRun
    BY <2>1, DisownedHandles, TerminatedProcs DEF Inv, FinalizeRun
  <2>2. CASE Crash
    <3>1. \A w \in Worker : proc[w] \in {"running", "terminating"} => w \in Live
      BY DEF Live
    <3> QED
      BY <2>2, <3>1, DisownedHandles DEF Inv, TypeOK, Crash
  <2> QED
    BY <2>1, <2>2
<1>2. TypeOK'
  <2>1. /\ dispatched' \in 0 .. MaxDispatch
        /\ UNCHANGED <<linear, status, sentinels, killList, restarts>>
        /\ Forgotten /\ pc' = "down"
    BY PoolAssumption DEF FinalizeRun, Crash, Forgotten, NoPass
  <2> QED
    BY <1>1, <2>1 DEF Inv, TypeOK, Step, Forgotten, NoPass
<1>3. ReapingOK' /\ PassOK'
  BY DEF ReapingOK, PassOK, FinalizeRun, Crash, Forgotten, NoPass
<1> QED
  BY <1>1, <1>2, <1>3 DEF Inv

LEMMA OperatorInv ==
  ASSUME Inv,
         \/ \E gesture \in Gestures : Request(gesture)
         \/ Resume
         \/ \E tickets \in SUBSET Ticket \ {{}} : RequestKill(tickets)
         \/ Signal \/ Restart
         \/ \E t \in Ticket : HumanMove(t)
  PROVE  Inv'
<1>1. HandlesOK' /\ ReapingOK' /\ PassOK'
  BY DEF Inv, HandlesOK, ReapingOK, PassOK, Owned, Live,
         Request, Resume, RequestKill, Signal, Restart, HumanMove
<1>2. CASE \/ \E gesture \in Gestures : Request(gesture)
           \/ Resume
           \/ \E tickets \in SUBSET Ticket \ {{}} : RequestKill(tickets)
           \/ Signal
  BY <1>1, <1>2 DEF Inv, TypeOK, Request, Resume, RequestKill, Signal
<1>3. CASE Restart
  <2>1. restarts' \in 0 .. MaxRestarts
    BY <1>3, EnvironmentAssumption DEF Inv, TypeOK, Restart
  <2> QED
    BY <1>1, <1>3, <2>1 DEF Inv, TypeOK, Step, Restart
<1>4. CASE \E t \in Ticket : HumanMove(t)
  <2>1. linear' \in [Ticket -> LinearState]
    BY <1>4, EnvironmentAssumption DEF Inv, TypeOK, HumanMove
  <2> QED
    BY <1>1, <1>4, <2>1 DEF Inv, TypeOK, HumanMove
<1> QED
  BY <1>2, <1>3, <1>4

LEMMA WorkerExitInv == ASSUME Inv, NEW w \in Worker, WorkerExit(w) PROVE Inv'
<1>1. TypeOK'
  BY DEF Inv, TypeOK, Step, WorkerExit
<1>2. HandlesOK'
  BY DEF Inv, TypeOK, HandlesOK, Owned, Live, WorkerExit
<1>3. ReapingOK' /\ PassOK'
  BY DEF Inv, TypeOK, ReapingOK, PassOK, Live, WorkerExit
<1> QED
  BY <1>1, <1>2, <1>3 DEF Inv

LEMMA StutterInv == ASSUME Inv, UNCHANGED vars PROVE Inv'
  BY DEF Inv, TypeOK, HandlesOK, ReapingOK, PassOK, Owned, Live

LEMMA NextInv == Inv /\ [Next]_vars => Inv'
<1> SUFFICES ASSUME Inv, [Next]_vars PROVE Inv'
  OBVIOUS
<1>1. CASE Daemon
  BY <1>1, SentinelStepsInv, ForcestopInv, KillInv, OverrunInv, ReapInv, FinalizeInv,
     PromoteInv, ListInv, PreflightInv, ClaimInv, SpawnInv, EndOfPollInv, EndOfRunInv
  DEF Daemon
<1>2. CASE Environment
  BY <1>2, OperatorInv, EndOfRunInv DEF Environment
<1>3. CASE \E w \in Worker : WorkerExit(w)
  BY <1>3, WorkerExitInv
<1>4. CASE UNCHANGED vars
  BY <1>4, StutterInv
<1> QED
  BY <1>1, <1>2, <1>3, <1>4 DEF Next

\* Every reachable state of the daemon is well-typed: in particular
\* dispatch_count never passes MAX_DISPATCHES_PER_CYCLE.
THEOREM TypeCorrect == Spec => []TypeOK
<1>1. Inv => TypeOK
  BY DEF Inv
<1> QED
  BY <1>1, InitInv, NextInv, PTL DEF Spec
-----------------------------------------------------------------------------
(***************************************************************************)
(* Proofs that the admission gates do what they are for, over any number   *)
(* of polls, reaps, force-stops, crashes and restarts: the tickets that    *)
(* hold slots at the same time are distinct, share no path, sit on one     *)
(* epic branch (local pool) and fit the cloud pool; and that no slot is    *)
(* taken under a drain or a pause.                                         *)
(*                                                                         *)
(* A gate is evaluated once, before the worktree is created, and its       *)
(* verdict is used two steps later.  Admitted says that the verdict is     *)
(* still good then; QueueFresh that the list fetched from Linear is.  Both *)
(* hold because one thread both launches and reaps, so that between the    *)
(* gate and the launch a slot can be freed but never taken.                *)
(***************************************************************************)
QueueFresh == \A w \in Active : ticketOf[w] \notin queue

Admitted ==
    pc \in {"claim", "spawn"} =>
        /\ \A w \in Active : ~ PathConflict(cur, ticketOf[w])
        /\ \A w \in Pool("local") : ~ OnOtherEpic(cur, ticketOf[w])
        /\ mode = "cloud" => Cardinality(Pool("cloud")) < MaxCloud

Admission ==
    /\ NoDoubleDispatch
    /\ ActivePathsDisjoint
    /\ LocalEpicExclusive
    /\ CloudPoolBounded
    /\ QueueFresh
    /\ Admitted

LEMMA ConflictSymmetric ==
  ASSUME NEW t, NEW u
  PROVE  /\ PathConflict(t, u) <=> PathConflict(u, t)
         /\ OnOtherEpic(t, u) <=> OnOtherEpic(u, t)
<1>1. Manifest[t].allowed \cap Manifest[u].allowed = Manifest[u].allowed \cap Manifest[t].allowed
  OBVIOUS
<1>2. PathConflict(t, u) <=> PathConflict(u, t)
  BY <1>1 DEF PathConflict, Overlap
<1>3. OnOtherEpic(t, u) <=> OnOtherEpic(u, t)
  BY DEF OnOtherEpic
<1> QED
  BY <1>2, <1>3

\* What a verdict that launches says of the tickets in flight.
LEMMA PreflightAdmits ==
  ASSUME NEW t, NEW local, NEW cloud, NEW count, NEW states, NEW healthy,
         Preflight(t, local, cloud, count, states, healthy) \in PoolName
  PROVE  /\ ~ OverlapsActive(t, local, cloud)
         /\ ~ EpicBranchBusy(t, local)
         /\ Preflight(t, local, cloud, count, states, healthy) = "cloud" =>
              ~ PoolFull("cloud", count)
  BY DEF Preflight, PoolName

LEMMA PoolsFinite ==
  /\ \A p : IsFiniteSet(Pool(p)) /\ Cardinality(Pool(p)) \in Nat
  /\ \A p : \A W : W \subseteq Pool(p) =>
        IsFiniteSet(W) /\ Cardinality(W) \in Nat /\ Cardinality(W) <= Cardinality(Pool(p))
<1>1. \A p : IsFiniteSet(Pool(p))
  BY WorkerAssumption, FS_Subset DEF Pool
<1> QED
  BY <1>1, FS_Subset, FS_CardinalityType

\* A step that takes no slot, lists no ticket and reaches no verdict.
SlotsOnlyFreed ==
    /\ \A w \in Worker : pool'[w] # "none" => pool'[w] = pool[w] /\ ticketOf'[w] = ticketOf[w]
    /\ queue' \subseteq queue
    /\ pc' \in {"claim", "spawn"} => pc \in {"claim", "spawn"} /\ cur' = cur /\ mode' = mode

LEMMA PreflightFrees ==
  ASSUME NEW t \in Ticket, RunPreflight(t), pc' # "claim" PROVE SlotsOnlyFreed
  BY DEF RunPreflight, StartFails, SlotsOnlyFreed

\* Every step but the three that the gates are about.
LEMMA OtherStepsFree ==
  ASSUME Inv, [Next]_vars, ~ ListReady, \A t \in Ticket : ~ RunPreflight(t), ~ Spawn
  PROVE  SlotsOnlyFreed
<1> USE DEF SlotsOnlyFreed
<1>1. CASE Daemon
  <2>1. CASE \/ CheckSoftstop \/ CheckPause \/ CheckPauseResumption \/ CheckForcestop
             \/ CheckKill \/ TerminateOverrun
    BY <2>1 DEF CheckSoftstop, CheckPause, CheckPauseResumption, CheckForcestop, CheckKill,
                TerminateOverrun, Disowned
  <2>2. CASE Reap
    BY <2>2 DEF Reap, ReapPoll, ReapDone
  <2>3. CASE \E w \in Worker : FinalizeWorker(w)
    <3> PICK w \in Worker : FinalizeWorker(w)
      BY <2>3
    <3>1. /\ pool' = pool
          /\ \A v \in Worker : pool[v] # "none" => ticketOf'[v] = ticketOf[v]
      BY DEF Inv, TypeOK, FinalizeWorker, MayRelaunch, Free
    <3> QED
      BY <3>1 DEF FinalizeWorker
  <2>4. CASE Promote \/ SkipDispatch \/ Claim
    BY <2>4 DEF Promote, SkipDispatch, Claim, StartFails
  <2>5. CASE EndDispatch \/ CheckEpicCompletion \/ CheckDrained \/ WakeUp
    BY <2>5 DEF EndDispatch, NoPass, CheckEpicCompletion, CheckDrained, WakeUp
  <2>6. CASE FinalizeRun
    BY <2>6 DEF FinalizeRun, Forgotten, NoPass, Disowned
  <2> QED
    BY <1>1, <2>1, <2>2, <2>3, <2>4, <2>5, <2>6 DEF Daemon
<1>2. CASE Environment
  <2>1. CASE \/ (\E gesture \in Gestures : Request(gesture)) \/ Resume \/ Signal \/ Restart
             \/ (\E tickets \in SUBSET Ticket \ {{}} : RequestKill(tickets))
             \/ (\E t \in Ticket : HumanMove(t))
    BY <2>1 DEF Request, Resume, Signal, Restart, RequestKill, HumanMove
  <2>2. CASE Crash
    BY <2>2 DEF Crash, Forgotten, NoPass, Disowned
  <2> QED
    BY <1>2, <2>1, <2>2 DEF Environment
<1>3. CASE \E w \in Worker : WorkerExit(w)
  BY <1>3 DEF Inv, TypeOK, WorkerExit
<1>4. CASE UNCHANGED vars
  BY <1>4
<1> QED
  BY <1>1, <1>2, <1>3, <1>4 DEF Next

\* Such a step keeps the verdicts good.
LEMMA SlotsShrink == ASSUME Admission, SlotsOnlyFreed PROVE Admission'
<1> USE DEF SlotsOnlyFreed
<1>1. /\ Active' \subseteq Active
      /\ \A p \in PoolName : Pool(p)' \subseteq Pool(p)
      /\ \A w \in Active' : ticketOf'[w] = ticketOf[w]
      /\ \A w \in Pool("local")' : w \in Active'
  BY DEF Active, Pool, PoolName
<1>2. NoDoubleDispatch' /\ ActivePathsDisjoint' /\ QueueFresh'
  BY <1>1 DEF Admission, NoDoubleDispatch, ActivePathsDisjoint, QueueFresh, PathConflict
<1>3. LocalEpicExclusive'
  BY <1>1 DEF Admission, LocalEpicExclusive, OnOtherEpic, PoolName
<1>4. /\ Cardinality(Pool("cloud")') <= Cardinality(Pool("cloud"))
      /\ Cardinality(Pool("cloud")') \in Nat /\ Cardinality(Pool("cloud")) \in Nat
  BY <1>1, PoolsFinite DEF PoolName
<1>5. CloudPoolBounded'
  BY <1>4, PoolAssumption DEF Admission, CloudPoolBounded
<1>6. Admitted'
  <2> SUFFICES ASSUME pc' \in {"claim", "spawn"}
               PROVE  /\ \A w \in Active' : ~ PathConflict(cur, ticketOf[w])'
                      /\ \A w \in Pool("local")' : ~ OnOtherEpic(cur, ticketOf[w])'
                      /\ mode' = "cloud" => Cardinality(Pool("cloud")') < MaxCloud
    BY DEF Admitted
  <2>1. /\ \A w \in Active : ~ PathConflict(cur, ticketOf[w])
        /\ \A w \in Pool("local") : ~ OnOtherEpic(cur, ticketOf[w])
        /\ mode = "cloud" => Cardinality(Pool("cloud")) < MaxCloud
        /\ cur' = cur /\ mode' = mode
    BY DEF Admission, Admitted
  <2>2. \A w \in Active' : ~ PathConflict(cur, ticketOf[w])'
    BY <1>1, <2>1 DEF PathConflict
  <2>3. \A w \in Pool("local")' : ~ OnOtherEpic(cur, ticketOf[w])'
    BY <1>1, <2>1 DEF OnOtherEpic, PoolName
  <2>4. mode' = "cloud" => Cardinality(Pool("cloud")') < MaxCloud
    BY <1>4, <2>1, PoolAssumption
  <2> QED
    BY <2>2, <2>3, <2>4
<1> QED
  BY <1>2, <1>3, <1>5, <1>6 DEF Admission

LEMMA AdmissionInit == Init => Admission
<1> SUFFICES ASSUME Init PROVE Admission
  OBVIOUS
<1>1. Active = {} /\ Pool("cloud") = {} /\ Pool("local") = {}
  BY DEF Init, Active, Pool
<1>2. Cardinality(Pool("cloud")) = 0
  BY <1>1, FS_EmptySet
<1> QED
  BY <1>1, <1>2, PoolAssumption
  DEF Init, Admission, NoDoubleDispatch, ActivePathsDisjoint, LocalEpicExclusive,
      CloudPoolBounded, QueueFresh, Admitted

\* The list fetched from Linear leaves out what holds a slot.
LEMMA ListAdmission == ASSUME Inv, Admission, ListReady PROVE Admission'
<1>1. UNCHANGED <<pool, ticketOf>> /\ pc' = "dispatch"
  BY DEF ListReady
<1>2. Active' = Active /\ \A p : Pool(p)' = Pool(p)
  BY <1>1 DEF Active, Pool
<1>3. QueueFresh'
  BY <1>1, <1>2 DEF QueueFresh, ListReady, Eligible, TicketsOf
<1> QED
  BY <1>1, <1>2, <1>3
  DEF Admission, NoDoubleDispatch, ActivePathsDisjoint, LocalEpicExclusive,
      CloudPoolBounded, Admitted

LEMMA PreflightAdmission ==
  ASSUME Inv, Admission, NEW t \in Ticket, RunPreflight(t) PROVE Admission'
<1>1. UNCHANGED <<pool, ticketOf>> /\ queue' \subseteq queue /\ pc = "dispatch"
  BY DEF RunPreflight, StartFails
<1>2. CASE pc' # "claim"
  BY <1>2, PreflightFrees, SlotsShrink
<1>3. CASE pc' = "claim"
  <2> DEFINE verdict(healthy) ==
        Preflight(t, TicketsOf(Pool("local")), TicketsOf(Pool("cloud")),
                  Cardinality(Pool("cloud")), linear, healthy)
  <2>1. PICK healthy \in BOOLEAN :
          verdict(healthy) \in PoolName /\ cur' = t /\ mode' = verdict(healthy)
    BY <1>3 DEF RunPreflight, StartFails
  <2>2. /\ ~ OverlapsActive(t, TicketsOf(Pool("local")), TicketsOf(Pool("cloud")))
        /\ ~ EpicBranchBusy(t, TicketsOf(Pool("local")))
        /\ verdict(healthy) = "cloud" => ~ PoolFull("cloud", Cardinality(Pool("cloud")))
    BY <2>1, PreflightAdmits
  <2>3. Active' = Active /\ \A p : Pool(p)' = Pool(p)
    BY <1>1 DEF Active, Pool
  <2>4. \A w \in Active : w \in Pool("local") \/ w \in Pool("cloud")
    BY DEF Inv, TypeOK, Active, Pool, PoolName
  <2>5. \A w \in Active : ~ PathConflict(t, ticketOf[w])
    BY <2>2, <2>4 DEF OverlapsActive, TicketsOf
  <2>6. \A w \in Pool("local") : ~ OnOtherEpic(t, ticketOf[w])
    BY <2>2 DEF EpicBranchBusy, TicketsOf
  <2>7. mode' = "cloud" => Cardinality(Pool("cloud")) < MaxCloud
    BY <2>1, <2>2, PoolsFinite, PoolAssumption DEF PoolFull
  <2>8. Admitted'
    BY <1>1, <2>1, <2>3, <2>5, <2>6, <2>7 DEF Admitted, PathConflict, OnOtherEpic
  <2>9. QueueFresh'
    BY <1>1, <2>3 DEF Admission, QueueFresh
  <2> QED
    BY <1>1, <2>3, <2>8, <2>9
    DEF Admission, NoDoubleDispatch, ActivePathsDisjoint, LocalEpicExclusive,
        CloudPoolBounded
<1> QED
  BY <1>2, <1>3

LEMMA SpawnAdmission == ASSUME Inv, Admission, Spawn PROVE Admission'
<1>1. CASE StartFails(cur) /\ UNCHANGED workers
  BY <1>1, SlotsShrink DEF StartFails, SlotsOnlyFreed
<1>2. CASE ~ (StartFails(cur) /\ UNCHANGED workers)
  <2>1. PICK v \in Free :
          /\ pool' = [pool EXCEPT ![v] = mode]
          /\ ticketOf' = [ticketOf EXCEPT ![v] = cur]
    BY <1>2 DEF Spawn
  <2>2. pc = "spawn" /\ pc' = "dispatch" /\ queue' = queue \ {cur}
    BY <1>2 DEF Spawn
  <2>3. /\ cur \in queue /\ mode \in PoolName
        /\ pool \in [Worker -> PoolName \cup {"none"}]
        /\ ticketOf \in [Worker -> Ticket \cup {NoTicket}]
    BY <2>2 DEF Inv, TypeOK, PassOK
  <2>4. /\ \A w \in Active : ~ PathConflict(cur, ticketOf[w])
        /\ \A w \in Pool("local") : ~ OnOtherEpic(cur, ticketOf[w])
        /\ mode = "cloud" => Cardinality(Pool("cloud")) < MaxCloud
    BY <2>2 DEF Admission, Admitted
  <2>5. /\ v \in Worker /\ v \notin Active
        /\ Active' = Active \cup {v}
        /\ ticketOf'[v] = cur
        /\ \A w \in Active : w # v /\ ticketOf'[w] = ticketOf[w]
    BY <2>1, <2>3 DEF Active, Free, PoolName
  <2>6. NoDoubleDispatch' /\ QueueFresh'
    BY <2>2, <2>3, <2>5 DEF Admission, NoDoubleDispatch, QueueFresh
  <2>7. ActivePathsDisjoint'
    <3> SUFFICES ASSUME NEW u \in Active', NEW w \in Active', u # w
                 PROVE  ~ PathConflict(ticketOf'[u], ticketOf'[w])
      BY DEF ActivePathsDisjoint, PathConflict
    <3>1. CASE u = v
      BY <2>4, <2>5, <3>1
    <3>2. CASE w = v
      BY <2>4, <2>5, <3>2, ConflictSymmetric
    <3>3. CASE u # v /\ w # v
      BY <2>5, <3>3 DEF Admission, ActivePathsDisjoint
    <3> QED
      BY <3>1, <3>2, <3>3
  <2>8. LocalEpicExclusive'
    <3> SUFFICES ASSUME NEW u \in Pool("local")', NEW w \in Pool("local")'
                 PROVE  ~ OnOtherEpic(ticketOf'[u], ticketOf'[w])
      BY DEF LocalEpicExclusive, OnOtherEpic
    <3>1. \A x \in Pool("local")' : x # v => x \in Pool("local") /\ ticketOf'[x] = ticketOf[x]
      BY <2>1, <2>3, <2>5 DEF Pool
    <3>2. CASE u = v /\ w = v
      BY <3>2 DEF OnOtherEpic
    <3>3. CASE u = v /\ w # v
      BY <2>4, <2>5, <3>1, <3>3
    <3>4. CASE u # v /\ w = v
      BY <2>4, <2>5, <3>1, <3>4, ConflictSymmetric
    <3>5. CASE u # v /\ w # v
      BY <3>1, <3>5 DEF Admission, LocalEpicExclusive
    <3> QED
      BY <3>2, <3>3, <3>4, <3>5
  <2>9. CloudPoolBounded'
    <3>1. CASE mode = "cloud"
      <4>1. Pool("cloud")' = Pool("cloud") \cup {v} /\ v \notin Pool("cloud")
        BY <2>1, <2>3, <2>5, <3>1 DEF Pool, Active
      <4>2. Cardinality(Pool("cloud")') = Cardinality(Pool("cloud")) + 1
        BY <4>1, PoolsFinite, FS_AddElement
      <4> QED
        BY <2>4, <3>1, <4>2, PoolsFinite, PoolAssumption DEF CloudPoolBounded
    <3>2. CASE mode # "cloud"
      <4>1. Pool("cloud")' = Pool("cloud")
        BY <2>1, <2>3, <2>5, <3>2 DEF Pool, Active, Free
      <4> QED
        BY <4>1 DEF Admission, CloudPoolBounded
    <3> QED
      BY <3>1, <3>2
  <2>10. Admitted'
    BY <2>2 DEF Admitted
  <2> QED
    BY <2>6, <2>7, <2>8, <2>9, <2>10 DEF Admission
<1> QED
  BY <1>1, <1>2

LEMMA AdmissionStep == ASSUME Inv, Admission, [Next]_vars PROVE Admission'
<1>1. ListReady \/ (\E t \in Ticket : RunPreflight(t)) \/ Spawn => Admission'
  BY ListAdmission, PreflightAdmission, SpawnAdmission
<1> QED
  BY <1>1, OtherStepsFree, SlotsShrink

LEMMA AdmissionInvariant == Spec => [](Inv /\ Admission)
<1>1. Init => Inv /\ Admission
  BY InitInv, AdmissionInit
<1>2. Inv /\ Admission /\ [Next]_vars => (Inv /\ Admission)'
  BY NextInv, AdmissionStep
<1> QED
  BY <1>1, <1>2, PTL DEF Spec

\* No ticket ever has two slots, whatever people, Linear and the workers do
\* between the list fetched at the start of a pass and its last launch.
THEOREM EachTicketOneSlot == Spec => []NoDoubleDispatch
<1>1. Admission => NoDoubleDispatch
  BY DEF Admission
<1> QED
  BY <1>1, AdmissionInvariant, PTL

\* Two workers that hold slots never work on a common path, across both pools:
\* the overlap gate compares with the pools as they were at preflight, and no
\* launch can come between.
THEOREM WorkersNeverCollide == Spec => []ActivePathsDisjoint
<1>1. Admission => ActivePathsDisjoint
  BY DEF Admission
<1> QED
  BY <1>1, AdmissionInvariant, PTL

\* Local workers that run together never sit on two epic branches.
THEOREM LocalPoolOnOneEpic == Spec => []LocalEpicExclusive
<1>1. Admission => LocalEpicExclusive
  BY DEF Admission
<1> QED
  BY <1>1, AdmissionInvariant, PTL

\* The cloud pool never holds more than --max-cloud-workers, in every worker
\* mode and however many workers one poll launches.
THEOREM CloudPoolWithinLimit == Spec => []CloudPoolBounded
<1>1. Admission => CloudPoolBounded
  BY DEF Admission
<1> QED
  BY <1>1, AdmissionInvariant, PTL

\* Between the check of a pass and its last launch nobody changes the flags: only
\* the sentinel checks do, and the one thread is past them.
HoldOK == pc \in {"dispatch", "claim", "spawn"} => ~ draining /\ ~ paused

LEMMA HoldStep == ASSUME Inv, HoldOK, Next PROVE HoldOK'
<1>1. CASE Daemon
  <2>1. CASE \/ CheckSoftstop \/ CheckPause \/ CheckPauseResumption \/ CheckForcestop
             \/ CheckKill \/ TerminateOverrun
    BY <2>1 DEF HoldOK, CheckSoftstop, CheckPause, CheckPauseResumption, CheckForcestop,
                CheckKill, TerminateOverrun
  <2>2. CASE Reap \/ (\E w \in Worker : FinalizeWorker(w)) \/ Promote
    BY <2>2 DEF HoldOK, Reap, ReapPoll, ReapDone, FinalizeWorker, Promote, control
  <2>3. CASE ListReady \/ SkipDispatch \/ EndDispatch
    BY <2>3 DEF HoldOK, ListReady, SkipDispatch, EndDispatch, Held, control
  <2>4. CASE (\E t \in Ticket : RunPreflight(t)) \/ Claim \/ Spawn
    BY <2>4 DEF HoldOK, RunPreflight, Claim, Spawn, StartFails, control
  <2>5. CASE CheckEpicCompletion \/ CheckDrained \/ WakeUp \/ FinalizeRun
    BY <2>5 DEF HoldOK, CheckEpicCompletion, CheckDrained, WakeUp, FinalizeRun
  <2> QED
    BY <1>1, <2>1, <2>2, <2>3, <2>4, <2>5 DEF Daemon
<1>2. CASE Environment
  BY <1>2 DEF Environment, HoldOK, Request, Resume, RequestKill, Signal, Crash, Restart,
              HumanMove, control
<1>3. CASE \E w \in Worker : WorkerExit(w)
  BY <1>3 DEF HoldOK, WorkerExit, control
<1> QED
  BY <1>1, <1>2, <1>3 DEF Next

\* No other step takes a slot, also not the retry of a finalize, which keeps no handle.
LEMMA OnlySpawnLaunches ==
  ASSUME Inv, Next, NEW w \in Worker, Launched(w)
  PROVE  Spawn
<1>1. CASE Daemon
  <2>1. CASE \/ CheckSoftstop \/ CheckPause \/ CheckPauseResumption \/ CheckForcestop
             \/ CheckKill \/ TerminateOverrun
    BY <2>1 DEF Launched, CheckSoftstop, CheckPause, CheckPauseResumption, CheckForcestop,
                CheckKill, TerminateOverrun, Disowned, workers
  <2>2. CASE Reap \/ Promote
    BY <2>2 DEF Launched, Reap, ReapPoll, ReapDone, Promote, workers
  <2>3. CASE \E v \in Worker : FinalizeWorker(v)
    BY <2>3 DEF Launched, FinalizeWorker, MayRelaunch, workers
  <2>4. CASE ListReady \/ SkipDispatch \/ EndDispatch
    BY <2>4 DEF Launched, ListReady, SkipDispatch, EndDispatch, workers
  <2>5. CASE (\E t \in Ticket : RunPreflight(t)) \/ Claim
    BY <2>5 DEF Launched, RunPreflight, Claim, StartFails, workers
  <2>6. CASE CheckEpicCompletion \/ CheckDrained \/ WakeUp \/ FinalizeRun
    BY <2>6 DEF Launched, CheckEpicCompletion, CheckDrained, WakeUp, FinalizeRun, Disowned,
                workers
  <2> QED
    BY <1>1, <2>1, <2>2, <2>3, <2>4, <2>5, <2>6 DEF Daemon
<1>2. CASE Environment
  BY <1>2 DEF Environment, Launched, Request, Resume, RequestKill, Signal, Crash, Restart,
              HumanMove, Disowned, workers
<1>3. CASE \E v \in Worker : WorkerExit(v)
  BY <1>3 DEF Launched, WorkerExit, Inv, TypeOK
<1> QED
  BY <1>1, <1>2, <1>3 DEF Next

\* No worker is launched under a drain, a pause or a force-stop that the poll has
\* seen, though the launch comes many network calls after the check.
THEOREM HoldsAreKept == Spec => NoLaunchWhileHeld
<1>1. Init => HoldOK
  BY DEF Init, HoldOK
<1>2. Inv /\ HoldOK /\ [Next]_vars => HoldOK'
  <2>1. HoldOK /\ UNCHANGED vars => HoldOK'
    BY DEF HoldOK, vars, control
  <2> QED
    BY <2>1, HoldStep
<1>3. Inv /\ HoldOK /\ [Next]_vars
        => [\A w \in Worker : Launched(w) => ~ draining /\ ~ paused]_vars
  <2>1. ASSUME Inv, HoldOK, Next, NEW w \in Worker, Launched(w)
        PROVE  ~ draining /\ ~ paused
    BY <2>1, OnlySpawnLaunches DEF Spawn, HoldOK
  <2> QED
    BY <2>1
<1> QED
  BY <1>1, <1>2, <1>3, InitInv, NextInv, PTL DEF Spec, NoLaunchWhileHeld
-----------------------------------------------------------------------------
(***************************************************************************)
(* Proof that the reservations of the local workers fit the KV budget.     *)
(* The gate adds up the tickets in flight before a worktree is created;    *)
(* KvGranted says that the sum still fits when the worker joins them.      *)
(*                                                                         *)
(* With --worker-mode local a cloud_preferred ticket joins the local pool  *)
(* and the gate, which looks at the routing, lets it pass: a project that  *)
(* has such tickets in that mode does not keep the budget.                 *)
(***************************************************************************)
GateSeesLocalPool ==
    WorkerMode = "local" => \A t \in Ticket : Manifest[t].routing # "cloud_preferred"

Units(t) == {t} \X (1 .. Manifest[t].kv)

LEMMA UnitsOfTicket ==
  ASSUME NEW t \in Ticket
  PROVE  IsFiniteSet(Units(t)) /\ Cardinality(Units(t)) = Manifest[t].kv
<1>1. PICK n \in Nat : n = Manifest[t].kv
  BY ManifestAssumption
<1>2. IsFiniteSet(1 .. n) /\ Cardinality(1 .. n) = n
  <2>1. 1 \in Int /\ n \in Int
    OBVIOUS
  <2>2. IsFiniteSet(1 .. n) /\ Cardinality(1 .. n) = IF 1 > n THEN 0 ELSE n - 1 + 1
    BY <2>1, FS_Interval
  <2> QED
    BY <2>2
<1>3. IsFiniteSet({t}) /\ Cardinality({t}) = 1
  BY FS_Singleton
<1>4. IsFiniteSet({t} \X (1 .. n)) /\ Cardinality({t} \X (1 .. n)) = 1 * n
  BY <1>2, <1>3, FS_Product
<1> QED
  BY <1>1, <1>4 DEF Units

\* The sum over a finite set of tickets is a number, and no smaller than that
\* over a part of them.
LEMMA KvMonotone ==
  ASSUME NEW S \in SUBSET Ticket, IsFiniteSet(S), NEW R \in SUBSET S
  PROVE  /\ IsFiniteSet(UNION {Units(u) : u \in S})
         /\ KvInFlight(S) \in Nat /\ KvInFlight(R) \in Nat
         /\ KvInFlight(R) <= KvInFlight(S)
<1> DEFINE AllUnits == {Units(u) : u \in S}
           unitsOf == [u \in S |-> Units(u)]
<1>1. unitsOf \in Surjection(S, AllUnits)
  BY DEF Surjection
<1>2. IsFiniteSet(AllUnits)
  BY <1>1, FS_Surjection
<1>3. \A T \in AllUnits : IsFiniteSet(T)
  BY UnitsOfTicket
<1>4. IsFiniteSet(UNION AllUnits)
  BY <1>2, <1>3, FS_UNION
<1>5. UNION {Units(u) : u \in R} \in SUBSET UNION AllUnits
  OBVIOUS
<1>6. /\ KvInFlight(S) = Cardinality(UNION AllUnits)
      /\ KvInFlight(R) = Cardinality(UNION {Units(u) : u \in R})
  BY DEF KvInFlight, Units
<1> QED
  BY <1>4, <1>5, <1>6, FS_Subset, FS_CardinalityType

LEMMA KvOfOneMore ==
  ASSUME NEW S \in SUBSET Ticket, IsFiniteSet(S), NEW t \in Ticket
  PROVE  KvInFlight(S \cup {t}) <= KvInFlight(S) + Manifest[t].kv
<1> DEFINE all == UNION {Units(u) : u \in S}
<1>1. UNION {Units(u) : u \in S \cup {t}} = all \cup Units(t)
  OBVIOUS
<1>2. IsFiniteSet(all) /\ IsFiniteSet(Units(t)) /\ Cardinality(Units(t)) = Manifest[t].kv
  BY KvMonotone, UnitsOfTicket
<1>3. /\ Cardinality(all \cup Units(t))
            = Cardinality(all) + Cardinality(Units(t)) - Cardinality(all \cap Units(t))
      /\ IsFiniteSet(all \cap Units(t))
  BY <1>2, FS_Union, FS_Intersection
<1>4. /\ Cardinality(all) \in Nat /\ Cardinality(Units(t)) \in Nat
      /\ Cardinality(all \cap Units(t)) \in Nat
  BY <1>2, <1>3, FS_CardinalityType
<1>5. KvInFlight(S) = Cardinality(all)
  BY DEF KvInFlight, Units
<1>6. KvInFlight(S \cup {t}) = Cardinality(all \cup Units(t))
  <2>1. KvInFlight(S \cup {t}) = Cardinality(UNION {Units(u) : u \in S \cup {t}})
    BY DEF KvInFlight, Units
  <2> QED
    BY <1>1, <2>1
<1> HIDE DEF all
<1> QED
  BY <1>2, <1>3, <1>4, <1>5, <1>6

\* A verdict that sends a ticket to the local pool passed the gate.
LEMMA PreflightGrantsKv ==
  ASSUME NEW t \in Ticket, NEW local, NEW cloud, NEW count, NEW states, NEW healthy,
         GateSeesLocalPool,
         Preflight(t, local, cloud, count, states, healthy) = "local"
  PROVE  KvInFlight(local) + Manifest[t].kv <= KvBudget
<1>1. EffectiveMode(WorkerMode, Manifest[t].routing) = "local" /\ KvAdmitted(t, local)
  BY DEF Preflight
<1>2. Manifest[t].routing = "local"
  BY <1>1, PoolAssumption, ManifestAssumption DEF EffectiveMode, Routing, GateSeesLocalPool
<1> QED
  BY <1>1, <1>2 DEF KvAdmitted

KvGranted ==
    pc \in {"claim", "spawn"} /\ mode = "local" =>
        KvInFlight(TicketsOf(Pool("local"))) + Manifest[cur].kv <= KvBudget

KvOK == KvWithinBudget /\ KvGranted

LEMMA LocalTickets ==
  ASSUME Inv
  PROVE  TicketsOf(Pool("local")) \in SUBSET Ticket /\ IsFiniteSet(TicketsOf(Pool("local")))
<1> DEFINE f == [w \in Pool("local") |-> ticketOf[w]]
<1>1. f \in Surjection(Pool("local"), TicketsOf(Pool("local")))
  BY DEF Surjection, TicketsOf
<1>2. TicketsOf(Pool("local")) \in SUBSET Ticket
  BY DEF Inv, HandlesOK, Owned, TicketsOf, Pool
<1> QED
  BY <1>1, <1>2, PoolsFinite, FS_Surjection

LEMMA KvShrinks == ASSUME Inv, KvOK, SlotsOnlyFreed PROVE KvOK'
<1> DEFINE here == TicketsOf(Pool("local"))
<1>1. here' \in SUBSET here
  BY DEF SlotsOnlyFreed, TicketsOf, Pool
<1>2. KvInFlight(here') <= KvInFlight(here) /\ KvInFlight(here') \in Nat /\ KvInFlight(here) \in Nat
  BY <1>1, LocalTickets, KvMonotone
<1>3. (KvInFlight(here))' = KvInFlight(here')
  BY DEF KvInFlight
<1>4. KvWithinBudget'
  BY <1>2, <1>3, PoolAssumption DEF KvOK, KvWithinBudget
<1>5. KvGranted'
  <2> SUFFICES ASSUME pc' \in {"claim", "spawn"}, mode' = "local"
               PROVE  KvInFlight(here') + Manifest[cur'].kv <= KvBudget
    BY <1>3 DEF KvGranted
  <2>1. /\ KvInFlight(here) + Manifest[cur].kv <= KvBudget /\ cur' = cur
        /\ cur \in Ticket
    BY DEF SlotsOnlyFreed, KvOK, KvGranted, Inv, TypeOK, PassOK
  <2>2. Manifest[cur].kv \in Nat
    BY <2>1, ManifestAssumption
  <2> QED
    BY <1>2, <2>1, <2>2, PoolAssumption
<1> QED
  BY <1>4, <1>5 DEF KvOK

LEMMA KvPreflight ==
  ASSUME GateSeesLocalPool, Inv, KvOK, NEW t \in Ticket, RunPreflight(t)
  PROVE  KvOK'
<1>1. CASE pc' # "claim"
  BY <1>1, PreflightFrees, KvShrinks
<1>2. CASE pc' = "claim"
  <2>1. UNCHANGED <<pool, ticketOf>> /\ cur' = t
    BY <1>2 DEF RunPreflight, StartFails
  <2>2. TicketsOf(Pool("local"))' = TicketsOf(Pool("local"))
    BY <2>1 DEF TicketsOf, Pool
  <2>3. mode' = "local" => KvInFlight(TicketsOf(Pool("local"))) + Manifest[t].kv <= KvBudget
    BY <1>2, PreflightGrantsKv DEF RunPreflight, StartFails
  <2> QED
    BY <2>1, <2>2, <2>3 DEF KvOK, KvWithinBudget, KvGranted, KvInFlight
<1> QED
  BY <1>1, <1>2

LEMMA KvSpawn == ASSUME Inv, KvOK, Spawn PROVE KvOK'
<1> DEFINE here == TicketsOf(Pool("local"))
<1>1. CASE StartFails(cur) /\ UNCHANGED workers
  BY <1>1, KvShrinks DEF StartFails, SlotsOnlyFreed
<1>2. CASE ~ (StartFails(cur) /\ UNCHANGED workers)
  <2>1. PICK v \in Free :
          /\ pool' = [pool EXCEPT ![v] = mode]
          /\ ticketOf' = [ticketOf EXCEPT ![v] = cur]
    BY <1>2 DEF Spawn
  <2>2. pc = "spawn" /\ pc' = "dispatch" /\ cur \in Ticket
    BY <1>2 DEF Spawn, Inv, TypeOK, PassOK
  <2>3. KvGranted'
    BY <2>2 DEF KvGranted
  <2>4. KvWithinBudget'
    <3>1. CASE mode = "local"
      <4>1. here' = here \cup {cur}
        BY <2>1, <3>1 DEF TicketsOf, Pool, Free, Inv, TypeOK
      <4>2. KvInFlight(here') <= KvInFlight(here) + Manifest[cur].kv
        BY <2>2, <4>1, LocalTickets, KvOfOneMore
      <4>3. KvInFlight(here) + Manifest[cur].kv <= KvBudget
        BY <2>2, <3>1 DEF KvOK, KvGranted
      <4>4. IsFiniteSet(here') /\ here' \in SUBSET Ticket
        BY <2>2, <4>1, LocalTickets, FS_AddElement
      <4>5. KvInFlight(here') \in Nat /\ KvInFlight(here) \in Nat
        BY <4>4, LocalTickets, KvMonotone
      <4>6. Manifest[cur].kv \in Nat
        BY <2>2, ManifestAssumption
      <4> QED
        BY <4>2, <4>3, <4>5, <4>6, PoolAssumption DEF KvWithinBudget, KvInFlight
    <3>2. CASE mode # "local"
      <4>1. here' = here
        BY <2>1, <3>2 DEF TicketsOf, Pool, Free, Inv, TypeOK
      <4> QED
        BY <4>1 DEF KvOK, KvWithinBudget, KvInFlight
    <3> QED
      BY <3>1, <3>2
  <2> QED
    BY <2>3, <2>4 DEF KvOK
<1> QED
  BY <1>1, <1>2

\* The reservations of the local workers never exceed --kv-budget, though the
\* gate adds them up before a worktree is created and the state in Linear
\* written; but for cloud_preferred tickets under --worker-mode local, which
\* the gate lets into the local pool unseen.
THEOREM KvFitsBudget == ASSUME GateSeesLocalPool PROVE Spec => []KvWithinBudget
<1>1. Init => KvOK
  <2> SUFFICES ASSUME Init PROVE KvOK
    OBVIOUS
  <2>1. UNION {{u} \X (1 .. Manifest[u].kv) : u \in TicketsOf(Pool("local"))} = {}
    BY DEF Init, Pool, TicketsOf
  <2>2. KvInFlight(TicketsOf(Pool("local"))) = 0
    BY <2>1, FS_EmptySet DEF KvInFlight
  <2> QED
    BY <2>2, PoolAssumption DEF Init, KvOK, KvWithinBudget, KvGranted
<1>2. Inv /\ KvOK /\ [Next]_vars => KvOK'
  <2> SUFFICES ASSUME Inv, KvOK, [Next]_vars PROVE KvOK'
    OBVIOUS
  <2>1. ListReady => KvOK'
    BY DEF ListReady, KvOK, KvWithinBudget, KvGranted, KvInFlight, TicketsOf, Pool
  <2> QED
    BY <2>1, KvPreflight, KvSpawn, OtherStepsFree, KvShrinks
<1>3. KvOK => KvWithinBudget
  BY DEF KvOK
<1> QED
  BY <1>1, <1>2, <1>3, InitInv, NextInv, PTL DEF Spec
-----------------------------------------------------------------------------
(***************************************************************************)
(* Proof that a ticket has one owner, over any number of force-stops,      *)
(* crashes, signals and restarts, whatever fails and whoever moves other   *)
(* tickets.                                                                *)
(*                                                                         *)
(* The daemon writes the state that locks a ticket before it starts the    *)
(* process, and reads it several steps earlier, from a list.  QueueFree    *)
(* says that a ticket is still free when it is taken from that list;       *)
(* AtSpawn that the lock just taken holds; WaitingFree that promotion,     *)
(* which writes states without reading them, leaves owned tickets alone.   *)
(* Each is said of the tickets that are not excused.                       *)
(***************************************************************************)
Holders == Active \cup Live

Exclusive ==
    \A v, w \in Holders :
        ticketOf[v] = ticketOf[w] /\ ticketOf[v] \notin excused => v = w

LiveWorkerHoldsLock ==
    \A w \in Live : ticketOf[w] \notin excused => linear[ticketOf[w]] = "InProgressLocal"

QueueFree ==
    \A t \in queue : t \notin excused =>
        /\ status[t] # "WaitingForDeps"
        /\ \A w \in Holders : ticketOf[w] # t

AtSpawn == pc = "spawn" /\ cur \notin excused => linear[cur] = "InProgressLocal"

WaitingFree ==
    \A t \in Ticket : status[t] = "WaitingForDeps" /\ t \notin excused =>
        /\ linear[t] # "ReadyForLocal"
        /\ \A w \in Holders : ticketOf[w] # t

OwnedOK ==
    /\ Exclusive
    /\ LiveWorkerHoldsLock
    /\ QueueFree
    /\ AtSpawn
    /\ WaitingFree

OwnInv == Inv /\ Admission /\ OwnedOK

\* What a step writes down in excused.
Excuses ==
    /\ excused \subseteq excused'
    /\ \A t \in Ticket : LostAtClaim(t) \/ MovedInUse(t) \/ LaunchedAgain(t) => t \in excused'

LEMMA OwnershipInit == ASSUME OwnInit PROVE OwnedOK
<1>1. Active = {} /\ Live = {} /\ queue = {} /\ pc = "softstop"
  BY DEF OwnInit, Init, Active, Live
<1>2. \A t \in Ticket : status[t] = "WaitingForDeps" /\ t \notin excused => linear[t] # "ReadyForLocal"
  BY DEF OwnInit, Init, FiledTwice
<1> QED
  BY <1>1, <1>2
  DEF OwnedOK, Exclusive, LiveWorkerHoldsLock, QueueFree, AtSpawn, WaitingFree, Holders

\* A step whose new processes are of excused tickets, and that writes the state of a
\* ticket only if it is excused, free, or being locked.
LEMMA Undisturbed ==
  ASSUME OwnedOK, excused \subseteq excused', status' = status,
         \A w \in Holders' : ticketOf'[w] \notin excused' =>
             w \in Holders /\ ticketOf'[w] = ticketOf[w],
         \A w \in Live' : ticketOf'[w] \notin excused' => w \in Live,
         queue' \subseteq queue,
         \A w \in Live' : ticketOf'[w] \in Ticket,
         \A t \in Ticket : t \notin excused' /\ linear'[t] # linear[t] =>
             /\ \A w \in Live : ticketOf[w] # t
             /\ status[t] # "WaitingForDeps",
         pc' = "spawn" /\ cur' \notin excused' =>
             \/ pc = "spawn" /\ cur' = cur /\ linear'[cur] = linear[cur]
             \/ linear'[cur'] = "InProgressLocal"
  PROVE  OwnedOK'
<1>1. \A w \in Live' : w \in Holders'
  BY DEF Holders
<1>2. Exclusive'
  BY DEF OwnedOK, Exclusive
<1>3. LiveWorkerHoldsLock'
  <2> SUFFICES ASSUME NEW w \in Live', ticketOf'[w] \notin excused'
               PROVE  linear'[ticketOf'[w]] = "InProgressLocal"
    BY DEF LiveWorkerHoldsLock
  <2>1. w \in Live /\ ticketOf'[w] = ticketOf[w] /\ ticketOf[w] \in Ticket
    BY <1>1
  <2>2. linear[ticketOf[w]] = "InProgressLocal"
    BY <2>1 DEF OwnedOK, LiveWorkerHoldsLock
  <2> QED
    BY <2>1, <2>2
<1>4. QueueFree'
  <2> SUFFICES ASSUME NEW t \in queue', t \notin excused'
               PROVE  status[t] # "WaitingForDeps" /\ \A w \in Holders' : ticketOf'[w] # t
    BY DEF QueueFree
  <2> QED
    BY DEF OwnedOK, QueueFree
<1>5. AtSpawn'
  BY DEF OwnedOK, AtSpawn
<1>6. WaitingFree'
  BY DEF OwnedOK, WaitingFree
<1> QED
  BY <1>2, <1>3, <1>4, <1>5, <1>6 DEF OwnedOK

LEMMA LiveTickets == ASSUME Inv PROVE \A w \in Live : ticketOf[w] \in Ticket
  BY DEF Inv, HandlesOK, Owned, Live

\* A step that starts no process and writes no state.
LEMMA HoldersShrink ==
  ASSUME OwnInv, Excuses, linear' = linear, status' = status,
         Holders' \subseteq Holders, Live' \subseteq Live,
         \A w \in Holders' : ticketOf'[w] = ticketOf[w],
         queue' \subseteq queue,
         pc' = "spawn" => pc = "spawn" /\ cur' = cur
  PROVE  OwnedOK'
<1>1. \A w \in Live' : w \in Holders' /\ ticketOf'[w] \in Ticket
  BY LiveTickets DEF OwnInv, Holders
<1> QED
  BY <1>1, Undisturbed DEF OwnInv, Excuses

\* Handles after SIGTERM, and after the active lists are dropped.
LEMMA DisownedHolders ==
  ASSUME Inv, NEW procs \in [Worker -> {"free", "running", "terminating", "exited"}],
         \A w \in Worker : procs[w] \in {"running", "terminating"} => w \in Live,
         Disowned(procs)
  PROVE  /\ Holders' \subseteq Holders /\ Live' \subseteq Live
         /\ \A w \in Holders' : ticketOf'[w] = ticketOf[w]
<1>1. Active' = {}
  BY DEF Disowned, Active
<1>2. Live' \subseteq Live
  BY DEF Disowned, Live
<1>3. \A w \in Live' : ticketOf'[w] = ticketOf[w]
  BY DEF Disowned, Live
<1> QED
  BY <1>1, <1>2, <1>3 DEF Holders

LEMMA SentinelStepsOwn ==
  ASSUME OwnInv, Excuses,
         \/ CheckSoftstop \/ CheckPause \/ CheckPauseResumption \/ CheckForcestop
         \/ CheckKill \/ TerminateOverrun
  PROVE  OwnedOK'
<1> USE DEF OwnInv
<1>1. CASE CheckSoftstop \/ CheckPause \/ CheckPauseResumption
  <2>1. Active' = Active /\ Live' = Live
    BY <1>1 DEF CheckSoftstop, CheckPause, CheckPauseResumption, Active, Live
  <2> QED
    BY <1>1, <2>1, HoldersShrink
    DEF CheckSoftstop, CheckPause, CheckPauseResumption, Holders
<1>2. CASE CheckForcestop
  <2>1. CASE "forcestop" \in sentinels /\ ~ forcestopping
    <3>1. /\ Holders' \subseteq Holders /\ Live' \subseteq Live
          /\ \A w \in Holders' : ticketOf'[w] = ticketOf[w]
      BY <1>2, <2>1, DisownedHolders, TerminatedProcs DEF CheckForcestop, Inv
    <3> QED
      BY <1>2, <3>1, HoldersShrink DEF CheckForcestop
  <2>2. CASE ~ ("forcestop" \in sentinels /\ ~ forcestopping)
    <3>1. Active' = Active /\ Live' = Live
      BY <1>2, <2>2 DEF CheckForcestop, Active, Live
    <3> QED
      BY <1>2, <2>2, <3>1, HoldersShrink DEF CheckForcestop, Holders
  <2> QED
    BY <2>1, <2>2
<1>3. CASE CheckKill
  <2>1. Active' = Active /\ Live' = Live
    BY <1>3, TerminatedProcs DEF CheckKill, Active, Live, Inv
  <2> QED
    BY <1>3, <2>1, HoldersShrink DEF CheckKill, Holders
<1>4. CASE TerminateOverrun
  <2> PICK stalled \in SUBSET {w \in Active : proc[w] = "running"},
           expired \in SUBSET {w \in Active : proc[w] = "terminating"} :
        proc' = [w \in Worker |-> IF w \in expired THEN "exited" ELSE Terminated(stalled)[w]]
    BY <1>4 DEF TerminateOverrun
  <2>1. Active' = Active /\ Live' \subseteq Live
    BY <1>4, TerminatedProcs DEF TerminateOverrun, Active, Live, Inv
  <2> QED
    BY <1>4, <2>1, HoldersShrink DEF TerminateOverrun, Holders
<1> QED
  BY <1>1, <1>2, <1>3, <1>4

LEMMA ReapOwn == ASSUME OwnInv, Excuses, Reap PROVE OwnedOK'
<1>1. CASE ReapPoll("local", "reapLocal", "joinLocal") \/ ReapPoll("cloud", "reapCloud", "joinCloud")
  <2>1. Active' = Active /\ Live' = Live
    BY <1>1 DEF ReapPoll, Active, Live
  <2> QED
    BY <1>1, <2>1, HoldersShrink DEF ReapPoll, Holders, OwnInv
<1>2. CASE ReapDone("joinLocal", "reapCloud") \/ ReapDone("joinCloud", "promote")
  <2>1. /\ Active' \subseteq Active \ reaped
        /\ Live' \subseteq Live \ reaped
        /\ \A w \in Worker \ reaped : ticketOf'[w] = ticketOf[w]
    BY <1>2 DEF ReapDone, Active, Live, OwnInv, Inv, TypeOK
  <2>2. \A w \in Holders' : w \in Worker \ reaped
    BY <2>1 DEF Holders, Active, Live
  <2> QED
    BY <1>2, <2>1, <2>2, HoldersShrink DEF ReapDone, Holders, OwnInv
<1> QED
  BY <1>1, <1>2 DEF Reap

\* A finalize writes the state of a ticket whose process has ended; the process its
\* retry loop may leave behind excuses the ticket.
LEMMA FinalizeOwn ==
  ASSUME OwnInv, Excuses, NEW w \in Worker, FinalizeWorker(w)
  PROVE  OwnedOK'
<1> DEFINE t == ticketOf[w]
<1>1. w \in Active /\ w \notin Live /\ t \in Ticket /\ pc \in {"joinLocal", "joinCloud"}
  BY DEF FinalizeWorker, OwnInv, Inv, TypeOK, ReapingOK, HandlesOK, Owned, Active, Live
<1>2. UNCHANGED <<pc, status, queue, cur>>
  BY <1>1 DEF FinalizeWorker
<1>3. \A u \in Ticket : u # t => linear'[u] = linear[u]
  BY DEF FinalizeWorker, OwnInv, Inv, TypeOK
<1>4. t \notin excused => /\ \A v \in Live : ticketOf[v] # t
                          /\ status[t] # "WaitingForDeps"
  BY <1>1 DEF OwnInv, OwnedOK, Exclusive, WaitingFree, Holders
<1>5. /\ \A v \in Live' : ticketOf'[v] \in Ticket
      /\ \A v \in Live' : v \in Live \/ ticketOf'[v] \in excused'
      /\ \A v \in Holders' : \/ v \in Holders /\ ticketOf'[v] = ticketOf[v]
                             \/ ticketOf'[v] \in excused'
  <2>1. CASE UNCHANGED workers
    BY <2>1, LiveTickets DEF OwnInv, Active, Live, Holders
  <2>2. CASE ~ UNCHANGED workers
    <3>1. PICK f \in Free :
            /\ proc' = [proc EXCEPT ![f] = "running"]
            /\ ticketOf' = [ticketOf EXCEPT ![f] = t]
            /\ UNCHANGED pool
      BY <2>2 DEF FinalizeWorker, MayRelaunch
    <3>2. /\ f \in Worker /\ f \notin Live /\ f \notin Active
          /\ Active' = Active /\ Live' = Live \cup {f} /\ ticketOf'[f] = t
          /\ \A v \in Worker : v # f => ticketOf'[v] = ticketOf[v]
      BY <3>1 DEF Free, Active, Live, OwnInv, Inv, TypeOK
    <3>3. t \in excused'
      BY <1>1, <3>2 DEF LaunchedAgain, Excuses
    <3> QED
      BY <1>1, <3>2, <3>3, LiveTickets DEF OwnInv, Holders, Active, Live
  <2> QED
    BY <2>1, <2>2
<1> QED
  BY <1>1, <1>2, <1>3, <1>4, <1>5, Undisturbed DEF OwnInv, Excuses

\* Promotion writes the states of waiting tickets only.
LEMMA PromoteOwn == ASSUME OwnInv, Excuses, Promote PROVE OwnedOK'
<1>1. UNCHANGED <<workers, queue>> /\ pc = "promote" /\ pc' = "list"
  BY DEF Promote
<1>2. Active' = Active /\ Live' = Live /\ Holders' = Holders
  BY <1>1 DEF Active, Live, Holders
<1>3. queue = {}
  BY <1>1 DEF OwnInv, Inv, PassOK
<1>4. CASE Held
  BY <1>1, <1>2, <1>4, HoldersShrink DEF Promote
<1>5. CASE ~ Held
  <2>1. PICK new \in [Ticket -> ManifestStatus], refused \in SUBSET Ticket :
          /\ \A t \in Ticket : status[t] # "WaitingForDeps" => new[t] = status[t]
          /\ status' = new
          /\ linear' = [t \in Ticket |->
               IF new[t] # status[t] /\ Manifest[t].linearId /\ t \notin refused
               THEN new[t] ELSE linear[t]]
    BY <1>5 DEF Promote
  <2>2. \A t \in Ticket : status[t] # "WaitingForDeps" => linear'[t] = linear[t]
    BY <2>1 DEF OwnInv, Inv, TypeOK
  <2>3. \A w \in Live : ticketOf[w] \in Ticket
                        /\ (ticketOf[w] \notin excused => status[ticketOf[w]] # "WaitingForDeps")
    BY LiveTickets DEF OwnInv, Holders, OwnedOK, WaitingFree
  <2>4. Exclusive' /\ LiveWorkerHoldsLock'
    BY <1>1, <1>2, <2>2, <2>3
    DEF OwnInv, OwnedOK, Exclusive, LiveWorkerHoldsLock, Excuses
  <2>5. \A t \in Ticket : status'[t] = "WaitingForDeps" =>
          status[t] = "WaitingForDeps" /\ linear'[t] = linear[t]
    BY <2>1 DEF OwnInv, Inv, TypeOK
  <2>6. WaitingFree'
    BY <1>1, <1>2, <2>5 DEF OwnInv, OwnedOK, WaitingFree, Excuses
  <2> QED
    BY <1>1, <1>3, <2>4, <2>6 DEF OwnedOK, QueueFree, AtSpawn
<1> QED
  BY <1>4, <1>5

\* What is listed is ready, so nothing holds it.
LEMMA ListOwn == ASSUME OwnInv, Excuses, ListReady \/ SkipDispatch PROVE OwnedOK'
<1>1. UNCHANGED <<workers, outside>> /\ pc = "list" /\ pc' # "spawn"
  BY DEF ListReady, SkipDispatch
<1>2. Active' = Active /\ Live' = Live /\ Holders' = Holders
  BY <1>1 DEF Active, Live, Holders
<1>3. CASE SkipDispatch
  BY <1>1, <1>2, <1>3, HoldersShrink DEF SkipDispatch
<1>4. CASE ListReady
  <2>1. \A t \in queue' : /\ t \in Ticket /\ linear[t] = "ReadyForLocal"
                          /\ \A w \in Active : ticketOf[w] # t
    BY <1>4 DEF ListReady, Eligible, TicketsOf
  <2>2. QueueFree'
    BY <1>1, <1>2, <2>1
    DEF QueueFree, OwnInv, OwnedOK, LiveWorkerHoldsLock, WaitingFree, Holders, Excuses
  <2> QED
    BY <1>1, <1>2, <2>2
    DEF OwnInv, OwnedOK, Exclusive, LiveWorkerHoldsLock, AtSpawn, WaitingFree, Excuses
<1> QED
  BY <1>3, <1>4

\* A ticket of the pass is given up, sent back or locked.
LEMMA WriteToQueued ==
  ASSUME OwnInv, Excuses, UNCHANGED <<workers, status>>, queue' \subseteq queue,
         NEW t \in queue,
         \A u \in Ticket : u # t => linear'[u] = linear[u],
         pc' = "spawn" => t = cur' /\ (linear'[t] = "InProgressLocal" \/ t \in excused')
  PROVE  OwnedOK'
<1>1. Active' = Active /\ Live' = Live /\ Holders' = Holders
  BY DEF Active, Live, Holders
<1>2. t \notin excused => /\ \A w \in Live : ticketOf[w] # t
                          /\ status[t] # "WaitingForDeps"
  BY DEF OwnInv, OwnedOK, QueueFree, Holders
<1> QED
  BY <1>1, <1>2, LiveTickets, Undisturbed DEF OwnInv, Excuses

LEMMA StartFailureWrites ==
  ASSUME OwnInv, NEW t, NEW new \in AfterStartFailure(t)
  PROVE  \A u \in Ticket : u # t => new[u] = linear[u]
  BY DEF AfterStartFailure, AfterSetState, OwnInv, Inv, TypeOK

LEMMA PreflightOwn ==
  ASSUME OwnInv, Excuses, NEW t \in Ticket, RunPreflight(t) PROVE OwnedOK'
<1>1. /\ UNCHANGED <<workers, status>> /\ t \in queue /\ queue' \subseteq queue /\ pc' # "spawn"
  BY DEF RunPreflight, NextCandidate, StartFails, PoolName
<1>2. \/ linear' = linear \/ linear' \in AfterStartFailure(t)
      \/ linear' \in AfterSetState(linear, t, "Backlog")
  BY DEF RunPreflight, StartFails
<1>3. \A u \in Ticket : u # t => linear'[u] = linear[u]
  BY <1>2, StartFailureWrites DEF AfterSetState, OwnInv, Inv, TypeOK
<1> QED
  BY <1>1, <1>3, WriteToQueued

\* The lock is taken, or the ticket excused.
LEMMA ClaimOwn == ASSUME OwnInv, Excuses, Claim PROVE OwnedOK'
<1>1. UNCHANGED <<workers, status>> /\ pc = "claim" /\ cur \in queue /\ cur \in Ticket
  BY DEF Claim, OwnInv, Inv, PassOK, TypeOK
<1>2. CASE linear' \in Locked(cur) /\ pc' = "spawn" /\ UNCHANGED <<queue, cur, mode, dispatched>>
  <2>1. \A u \in Ticket : u # cur => linear'[u] = linear[u]
    BY <1>2 DEF Locked, AfterSetState, OwnInv, Inv, TypeOK
  <2>2. linear'[cur] = "InProgressLocal" \/ cur \in excused'
    BY <1>1, <1>2 DEF Excuses, LostAtClaim
  <2> QED
    BY <1>1, <1>2, <2>1, <2>2, WriteToQueued
<1>3. CASE StartFails(cur)
  <2>1. queue' \subseteq queue /\ pc' # "spawn"
    BY <1>3 DEF StartFails
  <2>2. \A u \in Ticket : u # cur => linear'[u] = linear[u]
    BY <1>3, StartFailureWrites DEF StartFails
  <2> QED
    BY <1>1, <2>1, <2>2, WriteToQueued
<1> QED
  BY <1>2, <1>3 DEF Claim

\* The process starts under the lock, and nothing else does.
LEMMA SpawnOwn == ASSUME OwnInv, Excuses, Spawn PROVE OwnedOK'
<1>1. /\ pc = "spawn" /\ pc' = "dispatch" /\ cur \in queue /\ cur \in Ticket
      /\ status' = status /\ queue' = queue \ {cur}
  BY DEF Spawn, StartFails, OwnInv, Inv, PassOK, TypeOK
<1>2. CASE UNCHANGED workers
  <2>1. linear' = linear \/ linear' \in AfterStartFailure(cur)
    BY DEF Spawn, StartFails
  <2>2. \A u \in Ticket : u # cur => linear'[u] = linear[u]
    BY <2>1, StartFailureWrites
  <2> QED
    BY <1>1, <1>2, <2>2, WriteToQueued
<1>3. CASE ~ UNCHANGED workers
  <2>1. PICK v \in Free :
          /\ pool' = [pool EXCEPT ![v] = mode]
          /\ ticketOf' = [ticketOf EXCEPT ![v] = cur]
          /\ proc' = [proc EXCEPT ![v] = "running"]
    BY <1>3 DEF Spawn
  <2>2. linear' = linear
    BY <1>3 DEF Spawn
  <2>3. cur \notin excused => /\ linear[cur] = "InProgressLocal"
                              /\ status[cur] # "WaitingForDeps"
                              /\ \A w \in Holders : ticketOf[w] # cur
    BY <1>1 DEF OwnInv, OwnedOK, AtSpawn, QueueFree
  <2>4. /\ v \in Worker /\ v \notin Holders /\ v \notin Live
        /\ Live' = Live \cup {v} /\ Holders' = Holders \cup {v}
        /\ ticketOf'[v] = cur
        /\ \A w \in Holders : w # v /\ ticketOf'[w] = ticketOf[w]
        /\ \A w \in Live : w \in Holders
    <3>1. mode \in PoolName
      BY <1>1 DEF OwnInv, Inv, PassOK
    <3>2. v \in Worker /\ v \notin Active /\ v \notin Live
      BY <2>1 DEF Free, Active, Live
    <3>3. Active' = Active \cup {v} /\ Live' = Live \cup {v}
      BY <2>1, <3>1, <3>2 DEF OwnInv, Inv, TypeOK, Active, Live, PoolName
    <3>4. ticketOf'[v] = cur /\ \A w \in Worker : w # v => ticketOf'[w] = ticketOf[w]
      BY <2>1, <3>2 DEF OwnInv, Inv, TypeOK
    <3> QED
      BY <3>2, <3>3, <3>4 DEF Holders, Active, Live
  <2>5. Exclusive'
    BY <2>3, <2>4 DEF OwnInv, OwnedOK, Exclusive, Excuses
  <2>6. LiveWorkerHoldsLock'
    BY <2>2, <2>3, <2>4 DEF OwnInv, OwnedOK, LiveWorkerHoldsLock, Excuses
  <2>7. QueueFree' /\ AtSpawn'
    BY <1>1, <2>4 DEF OwnInv, OwnedOK, QueueFree, AtSpawn, Excuses
  <2>8. WaitingFree'
    BY <1>1, <2>2, <2>3, <2>4 DEF OwnInv, OwnedOK, WaitingFree, Excuses
  <2> QED
    BY <2>5, <2>6, <2>7, <2>8 DEF OwnedOK
<1> QED
  BY <1>2, <1>3

LEMMA EndOfPollOwn ==
  ASSUME OwnInv, Excuses,
         \/ EndDispatch \/ CheckEpicCompletion \/ CheckDrained \/ WakeUp
         \/ FinalizeRun \/ Crash
  PROVE  OwnedOK'
<1> USE DEF OwnInv
<1>1. CASE EndDispatch \/ CheckEpicCompletion \/ CheckDrained \/ WakeUp
  <2>1. /\ UNCHANGED <<workers, outside>> /\ pc # "spawn" /\ pc' # "spawn"
        /\ queue' \subseteq queue
    BY <1>1 DEF EndDispatch, NoPass, CheckEpicCompletion, CheckDrained, WakeUp
  <2>2. Active' = Active /\ Live' = Live
    BY <2>1 DEF Active, Live
  <2> QED
    BY <2>1, <2>2, HoldersShrink DEF Holders
<1>2. CASE FinalizeRun \/ Crash
  <2>1. UNCHANGED outside /\ pc' = "down" /\ queue' = {}
    BY <1>2 DEF FinalizeRun, Crash, Forgotten, NoPass
  <2>2. /\ Holders' \subseteq Holders /\ Live' \subseteq Live
        /\ \A w \in Holders' : ticketOf'[w] = ticketOf[w]
    <3>1. CASE FinalizeRun
      BY <3>1, DisownedHolders, TerminatedProcs DEF FinalizeRun, Inv
    <3>2. CASE Crash
      BY <3>2, DisownedHolders DEF Crash, Inv, TypeOK, Live
    <3> QED
      BY <1>2, <3>1, <3>2
  <2> QED
    BY <2>1, <2>2, HoldersShrink
<1> QED
  BY <1>1, <1>2

LEMMA OthersOwn ==
  ASSUME OwnInv, Excuses,
         \/ \E gesture \in Gestures : Request(gesture)
         \/ Resume \/ \E tickets \in SUBSET Ticket \ {{}} : RequestKill(tickets)
         \/ Signal \/ Restart \/ \E t \in Ticket : HumanMove(t)
         \/ \E w \in Worker : WorkerExit(w)
         \/ UNCHANGED vars
  PROVE  OwnedOK'
<1>1. CASE \/ \E gesture \in Gestures : Request(gesture)
           \/ Resume \/ \E tickets \in SUBSET Ticket \ {{}} : RequestKill(tickets)
           \/ Signal \/ UNCHANGED vars
  <2>1. UNCHANGED <<pc, workers, passing, outside>>
    BY <1>1 DEF Request, Resume, RequestKill, Signal
  <2>2. Active' = Active /\ Live' = Live
    BY <2>1 DEF Active, Live
  <2> QED
    BY <2>1, <2>2, HoldersShrink DEF Holders
<1>2. CASE Restart
  <2>1. Active' = Active /\ Live' = Live
    BY <1>2 DEF Restart, Active, Live
  <2> QED
    BY <1>2, <2>1, HoldersShrink DEF Restart, Holders
<1>3. CASE \E w \in Worker : WorkerExit(w)
  <2> PICK w \in Worker : WorkerExit(w)
    BY <1>3
  <2>1. /\ Active' = Active /\ Live' \subseteq Live
        /\ \A v \in Holders' : ticketOf'[v] = ticketOf[v]
    BY DEF WorkerExit, Active, Live, Holders, OwnInv, Inv, TypeOK
  <2> QED
    BY <2>1, HoldersShrink DEF WorkerExit, Holders
<1>4. CASE \E t \in Ticket : HumanMove(t)
  <2>1. PICK t \in Ticket : HumanMove(t)
    BY <1>4
  <2>2. /\ UNCHANGED <<pc, workers, queue, cur, status>>
        /\ \A u \in Ticket : u # t => linear'[u] = linear[u]
    BY <2>1 DEF HumanMove, OwnInv, Inv, TypeOK
  <2>3. Active' = Active /\ Live' = Live /\ Holders' = Holders
    BY <2>2 DEF Active, Live, Holders
  <2>4. t \notin excused' /\ linear'[t] # linear[t] =>
          /\ \A w \in Live : ticketOf[w] # t
          /\ t # cur /\ status[t] # "WaitingForDeps"
    BY <2>1 DEF Excuses, MovedInUse, InUse
  <2>5. pc = "spawn" => cur \in Ticket
    BY DEF OwnInv, Inv, TypeOK, PassOK
  <2>6. pc' = "spawn" /\ cur' \notin excused' =>
          pc = "spawn" /\ cur' = cur /\ linear'[cur] = linear[cur]
    BY <2>2, <2>4, <2>5
  <2> QED
    BY <2>2, <2>3, <2>4, <2>6, LiveTickets, Undisturbed DEF OwnInv, Excuses
<1> QED
  BY <1>1, <1>2, <1>3, <1>4

LEMMA ExcusesStep == ASSUME [OwnNext]_ownVars PROVE [Next]_vars /\ excused \subseteq excused'
  BY DEF OwnNext, ownVars

LEMMA OwnInvariant == OwnSpec => []OwnInv
<1>1. OwnInit => OwnInv
  BY InitInv, AdmissionInit, OwnershipInit DEF OwnInv, OwnInit
<1>2. OwnInv /\ [OwnNext]_ownVars => OwnInv'
  <2> SUFFICES ASSUME OwnInv, [OwnNext]_ownVars PROVE OwnInv'
    OBVIOUS
  <2>1. Inv'
    BY NextInv, ExcusesStep DEF OwnInv
  <2>2. Admission'
    BY AdmissionStep, ExcusesStep DEF OwnInv
  <2>3. CASE OwnNext
    <3>1. Next /\ Excuses
      BY <2>3 DEF OwnNext, Excuses
    <3>2. Daemon => OwnedOK'
      BY <3>1, SentinelStepsOwn, ReapOwn, FinalizeOwn, PromoteOwn, ListOwn,
         PreflightOwn, ClaimOwn, SpawnOwn, EndOfPollOwn DEF Daemon
    <3>3. ~ Daemon => OwnedOK'
      BY <3>1, EndOfPollOwn, OthersOwn DEF Next, Environment
    <3> QED
      BY <2>1, <2>2, <3>2, <3>3 DEF OwnInv
  <2>4. CASE UNCHANGED ownVars
    <3>1. Active' = Active /\ Live' = Live /\ Holders' = Holders
      BY <2>4 DEF ownVars, Active, Live, Holders
    <3> QED
      BY <2>1, <2>2, <2>4, <3>1
      DEF OwnInv, OwnedOK, Exclusive, LiveWorkerHoldsLock, QueueFree, AtSpawn, WaitingFree,
          ownVars
  <2> QED
    BY <2>3, <2>4
<1> QED
  BY <1>1, <1>2, PTL DEF OwnSpec

\* While a process of a ticket lives, in a pool or left over from a force-stop, a
\* crash or a shutdown, it is the only one and Linear says InProgressLocal: a daemon
\* that has forgotten everything still launches nothing on top of it (start_ticket,
\* _check_in_progress_local).  Only a ticket at which the write of that state was
\* refused, which people moved while it was in use, or which a retry launched again
\* is left out, and its neighbours are not.
THEOREM OneOwnerPerTicket == OwnSpec => []OneOwner
<1>1. OwnInv => OneOwner
  <2>1. \A w \in Live : w \in Holders
    BY DEF Holders
  <2> QED
    BY <2>1 DEF OwnInv, OwnedOK, Exclusive, LiveWorkerHoldsLock, OneOwner
<1> QED
  BY <1>1, OwnInvariant, PTL
=============================================================================
