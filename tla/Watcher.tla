------------------------------- MODULE Watcher -------------------------------
(***************************************************************************)
(* The daemon of app/core/watcher/watcher.py: one thread that walks the    *)
(* steps of _poll_iteration in order (pc names the next one), the worker   *)
(* processes it spawns, the operator's sentinel files, and Linear, which   *)
(* the daemon and people both write.  A step that another actor can get in *)
(* between of (a network call, a sentinel check, a thread of the finalize  *)
(* pool) is an action of its own.                                          *)
(***************************************************************************)
EXTENDS Dispatch

CONSTANTS
    Worker,         \* handles of worker processes; reused once a process is gone
    NoTicket,
    NoEpicShutdown, \* --no-epic-shutdown
    Outcomes,       \* what finalize_worker may return here
    Faults,         \* which calls may fail: see FaultKind
    Gestures,       \* which sentinel files the operator may write
    HumanStates,    \* Linear states people may move a ticket to
    MaxRestarts     \* bound on the daemon's restarts

FaultKind == {"list", "read", "write", "worktree", "spawn", "vllm"}
Gesture == {"softstop", "pause", "forcestop", "kill", "signal", "crash"}

ASSUME WorkerAssumption == IsFiniteSet(Worker) /\ NoTicket \notin Ticket

ASSUME EnvironmentAssumption ==
    /\ NoEpicShutdown \in BOOLEAN
    /\ Outcomes \subseteq OutcomeKind
    /\ Faults \subseteq FaultKind
    /\ Gestures \subseteq Gesture
    /\ HumanStates \subseteq LinearState
    /\ MaxRestarts \in Nat

VARIABLES
    pc,            \* the daemon thread's next step
    running,       \* self._running
    draining,      \* self._draining
    paused,        \* self._paused
    forcestopping, \* self._forcestopping
    pool,          \* pool[w]: the active list w is in, or "none"
    ticketOf,      \* ticketOf[w]: the ticket w was started for
    proc,          \* proc[w]: the process behind w
    reaped,        \* the pool members _reap_pool found exited in this pass
    finalizing,    \* those of them whose finalize has not returned
    processed,     \* self._processed_tickets is not empty
    queue,         \* tickets still to try in this pass of _dispatch_next_ticket
    sorted,        \* the pass is in picker_sort_key order, not in Linear's
    parents,       \* active_parent_ids of the pass
    dispatched,    \* dispatch_count
    cur,           \* the ticket start_ticket is launching
    mode,          \* its effective_mode
    linear,        \* linear[t]: t's workflow state in Linear
    status,        \* status[t]: the status field of t's manifest on disk
    sentinels,     \* sentinel files under .claude/ (all but kill)
    killList,      \* the ticket IDs in the kill sentinel
    restarts

control == <<running, draining, paused, forcestopping>>
workers == <<pool, ticketOf, proc>>
reaping == <<reaped, finalizing>>
passing == <<queue, sorted, parents, dispatched, cur, mode>>
outside == <<linear, status>>
operator == <<sentinels, killList>>
vars == <<pc, control, workers, reaping, processed, passing, outside, operator, restarts>>

Step ==
    {"softstop", "pause", "resume", "forcestop", "kill", "overrun",
     "reapLocal", "joinLocal", "reapCloud", "joinCloud", "promote",
     "list", "dispatch", "claim", "spawn", "epic", "drain", "sleep",
     "teardown", "down"}

ManifestStatus == {"ReadyForLocal", "WaitingForDeps", "Backlog"}

TypeOK ==
    /\ pc \in Step
    /\ running \in BOOLEAN /\ draining \in BOOLEAN
    /\ paused \in BOOLEAN /\ forcestopping \in BOOLEAN
    /\ pool \in [Worker -> PoolName \cup {"none"}]
    /\ ticketOf \in [Worker -> Ticket \cup {NoTicket}]
    /\ proc \in [Worker -> {"free", "running", "terminating", "exited"}]
    /\ reaped \subseteq Worker
    /\ finalizing \subseteq reaped
    /\ processed \in BOOLEAN
    /\ queue \subseteq Ticket
    /\ sorted \in BOOLEAN
    /\ parents \subseteq {Manifest[t].epic : t \in Ticket}
    /\ dispatched \in 0 .. MaxDispatch
    /\ cur \in Ticket \cup {NoTicket}
    /\ mode \in PoolName \cup {"none"}
    /\ linear \in [Ticket -> LinearState]
    /\ status \in [Ticket -> ManifestStatus]
    /\ sentinels \subseteq {"softstop", "pause", "forcestop"}
    /\ killList \subseteq Ticket
    /\ restarts \in 0 .. MaxRestarts
-----------------------------------------------------------------------------
(* State formulae *)

Pool(p) == {w \in Worker : pool[w] = p}
Active == {w \in Worker : pool[w] # "none"}
TicketsOf(W) == {ticketOf[w] : w \in W}
Live == {w \in Worker : proc[w] \in {"running", "terminating"}}
Free == {w \in Worker : pool[w] = "none" /\ proc[w] = "free"}

HeldByDrainOnly == draining
Held == draining \/ paused

DrainedOnceUsed == draining /\ Active = {} /\ processed
Drained == draining /\ Active = {}

HasCapacity ==
    Cardinality(Pool("local")) < MaxLocal \/ Cardinality(Pool("cloud")) < MaxCloud

Goto(step) == pc = step
At(step, next) == pc = step /\ pc' = next

\* safe_set_state: the write, or nothing when Linear refuses it.
AfterSetState(states, t, s) ==
    {[states EXCEPT ![t] = s]} \cup (IF "write" \in Faults THEN {states} ELSE {})

\* The except clause of _dispatch_next_ticket around _start_ticket.
AfterStartFailure(t) ==
    IF linear[t] # "ReadyForLocal" THEN {linear}
    ELSE AfterSetState(linear, t, "Blocked")
            \cup (IF "read" \in Faults THEN {linear} ELSE {})

\* SIGTERM to a set of processes.
Terminated(W) ==
    [w \in Worker |-> IF w \in W /\ proc[w] = "running" THEN "terminating" ELSE proc[w]]

\* The active lists are dropped while processes may still be alive.
Disowned(procs) ==
    /\ pool' = [w \in Worker |-> "none"]
    /\ proc' = [w \in Worker |-> IF procs[w] = "exited" THEN "free" ELSE procs[w]]
    /\ ticketOf' = [w \in Worker |-> IF proc'[w] = "free" THEN NoTicket ELSE ticketOf[w]]

NoPass ==
    /\ queue' = {} /\ sorted' = FALSE /\ parents' = {}
    /\ dispatched' = 0 /\ cur' = NoTicket /\ mode' = "none"

\* Everything a Watcher object remembers is gone with its process.
Forgotten ==
    /\ running' = FALSE /\ draining' = FALSE /\ paused' = FALSE
    /\ forcestopping' = FALSE /\ processed' = FALSE
    /\ reaped' = {} /\ finalizing' = {}
    /\ NoPass
-----------------------------------------------------------------------------
Init ==
    /\ pc = "softstop"
    /\ running = TRUE /\ draining = FALSE /\ paused = FALSE /\ forcestopping = FALSE
    /\ pool = [w \in Worker |-> "none"]
    /\ ticketOf = [w \in Worker |-> NoTicket]
    /\ proc = [w \in Worker |-> "free"]
    /\ reaped = {} /\ finalizing = {} /\ processed = FALSE
    /\ queue = {} /\ sorted = FALSE /\ parents = {}
    /\ dispatched = 0 /\ cur = NoTicket /\ mode = "none"
    /\ linear = [t \in Ticket |-> Issue[t].state]
    /\ status = [t \in Ticket |-> Manifest[t].status]
    /\ sentinels = {} /\ killList = {}
    /\ restarts = 0
-----------------------------------------------------------------------------
(* The sentinel checks at the top of a poll *)

CheckSoftstop ==
    /\ At("softstop", "pause")
    /\ draining' = (draining \/ "softstop" \in sentinels)
    /\ UNCHANGED <<running, paused, forcestopping, workers, reaping, processed,
                   passing, outside, operator, restarts>>

CheckPause ==
    /\ At("pause", "resume")
    /\ paused' = (paused \/ "pause" \in sentinels)
    /\ UNCHANGED <<running, draining, forcestopping, workers, reaping, processed,
                   passing, outside, operator, restarts>>

CheckPauseResumption ==
    /\ At("resume", "forcestop")
    /\ paused' = (paused /\ "pause" \in sentinels)
    /\ UNCHANGED <<running, draining, forcestopping, workers, reaping, processed,
                   passing, outside, operator, restarts>>

CheckForcestop ==
    /\ At("forcestop", "kill")
    /\ IF "forcestop" \in sentinels /\ ~ forcestopping
       THEN /\ forcestopping' = TRUE
            /\ paused' = TRUE
            /\ Disowned(Terminated(Active))
            /\ processed' = FALSE
       ELSE UNCHANGED <<forcestopping, paused, workers, processed>>
    /\ UNCHANGED <<running, draining, reaping, passing, outside, operator, restarts>>

CheckKill ==
    /\ At("kill", "overrun")
    /\ proc' = Terminated({w \in Active : ticketOf[w] \in killList})
    /\ killList' = {}
    /\ UNCHANGED <<control, pool, ticketOf, reaping, processed, passing, outside,
                   sentinels, restarts>>

\* SIGTERM to workers whose log is idle, SIGKILL to those past the grace period.
TerminateOverrun ==
    /\ At("overrun", "reapLocal")
    /\ \E stalled \in SUBSET {w \in Active : proc[w] = "running"} :
       \E expired \in SUBSET {w \in Active : proc[w] = "terminating"} :
          proc' = [w \in Worker |-> IF w \in expired THEN "exited" ELSE Terminated(stalled)[w]]
    /\ UNCHANGED <<control, pool, ticketOf, reaping, processed, passing, outside,
                   operator, restarts>>
-----------------------------------------------------------------------------
(* _reap_pool: poll, finalize concurrently, join, free the slots *)

\* process.poll() returned a code.
FinishedWhenSignalled(w) == proc[w] # "running"
FinishedUnlessDraining(w) == proc[w] = "exited" /\ ~ draining
Finished(w) == proc[w] = "exited"

ReapPoll(p, here, next) ==
    /\ At(here, next)
    /\ reaped' = {w \in Pool(p) : Finished(w)}
    /\ finalizing' = reaped'
    /\ UNCHANGED <<control, workers, processed, passing, outside, operator, restarts>>

\* _run_retry_loop launches the worker again and keeps no handle of the process.
MayRelaunch(t) ==
    \/ UNCHANGED workers
    \/ /\ MaxRetries(t) > 0
       /\ \E w \in Free :
            /\ proc' = [proc EXCEPT ![w] = "running"]
            /\ ticketOf' = [ticketOf EXCEPT ![w] = t]
            /\ UNCHANGED pool

FinalizeWorker(w) ==
    /\ pc \in {"joinLocal", "joinCloud"}
    /\ w \in finalizing
    /\ \E outcome \in Outcomes, s \in LinearState :
        /\ s \in FinalStates(ticketOf[w], outcome, linear[ticketOf[w]], "write" \in Faults)
        /\ linear' = [linear EXCEPT ![ticketOf[w]] = s]
        /\ processed' = (processed \/ outcome # "raised")
    /\ finalizing' = finalizing \ {w}
    /\ MayRelaunch(ticketOf[w])
    /\ UNCHANGED <<pc, control, reaped, passing, status, operator, restarts>>

\* Slots are freed whether finalize returned or raised.
ReapDone(here, next) ==
    /\ At(here, next)
    /\ finalizing = {}
    /\ pool' = [w \in Worker |-> IF w \in reaped THEN "none" ELSE pool[w]]
    /\ ticketOf' = [w \in Worker |-> IF w \in reaped THEN NoTicket ELSE ticketOf[w]]
    /\ proc' = [w \in Worker |-> IF w \in reaped THEN "free" ELSE proc[w]]
    /\ reaped' = {}
    /\ UNCHANGED <<control, finalizing, processed, passing, outside, operator, restarts>>

Reap ==
    \/ ReapPoll("local", "reapLocal", "joinLocal")
    \/ ReapDone("joinLocal", "reapCloud")
    \/ ReapPoll("cloud", "reapCloud", "joinCloud")
    \/ ReapDone("joinCloud", "promote")
-----------------------------------------------------------------------------
(* _promote_waiting_tickets *)

\* What the scan may make of one waiting manifest; a blocker whose state cannot
\* be fetched counts as neither cancelled nor satisfied.
Promotions(t) ==
    LET blockers == Manifest[t].blockedBy
        fetched == IF \E b \in blockers : linear[b] = "Cancelled" THEN "Backlog"
                   ELSE IF \A b \in blockers : linear[b] \in CompletedState THEN "ReadyForLocal"
                   ELSE "WaitingForDeps"
    IN {fetched} \cup (IF "read" \in Faults /\ blockers # {} THEN {"WaitingForDeps"} ELSE {})

Promote ==
    /\ At("promote", "list")
    /\ IF Held THEN UNCHANGED outside
       ELSE \E new \in [Ticket -> ManifestStatus], refused \in SUBSET Ticket :
              /\ \A t \in Ticket :
                   IF status[t] = "WaitingForDeps" THEN new[t] \in Promotions(t)
                   ELSE new[t] = status[t]
              /\ refused = {} \/ "write" \in Faults
              /\ \A t \in refused : new[t] # status[t]
              /\ status' = new
              /\ linear' = [t \in Ticket |->
                   IF /\ new[t] # status[t]
                      /\ Manifest[t].linearId
                      /\ t \notin refused
                   THEN new[t] ELSE linear[t]]
    /\ UNCHANGED <<control, workers, reaping, processed, passing, operator, restarts>>
-----------------------------------------------------------------------------
(* _dispatch_next_ticket and start_ticket *)

ListReady ==
    /\ At("list", "dispatch")
    /\ ~ Held /\ HasCapacity
    /\ queue' = Eligible(linear, TicketsOf(Active))
    /\ sorted' = (Active # {})
    /\ parents' = {Manifest[t].epic : t \in TicketsOf(Active)} \ {"none"}
    /\ UNCHANGED <<control, workers, reaping, processed, dispatched, cur, mode,
                   outside, operator, restarts>>

SkipDispatch ==
    /\ At("list", "epic")
    /\ Held \/ ~ HasCapacity \/ "list" \in Faults
    /\ UNCHANGED <<control, workers, reaping, processed, passing, outside, operator, restarts>>

\* The call of _start_ticket for t raised: dispatch_count does not move.
StartFails(t) ==
    /\ linear' \in AfterStartFailure(t)
    /\ pc' = "dispatch"
    /\ queue' = queue \ {t}
    /\ cur' = NoTicket /\ mode' = "none"
    /\ UNCHANGED dispatched

MayTry == dispatched < MaxDispatch

\* One pass of the loop up to the verdict of _run_preflight.  A refused ticket
\* also gets a comment; when that cannot be posted the call raised.
RunPreflight(t) ==
    /\ Goto("dispatch")
    /\ MayTry
    /\ NextCandidate(t, queue, sorted, parents)
    /\ \/ \E healthy \in {TRUE} \cup (IF "vllm" \in Faults THEN {FALSE} ELSE {}) :
            LET verdict == Preflight(t, TicketsOf(Pool("local")), TicketsOf(Pool("cloud")),
                                     Cardinality(Pool("cloud")), linear, healthy)
            IN \/ /\ verdict = "defer"
                  /\ pc' = "dispatch"
                  /\ dispatched' = dispatched + 1
                  /\ queue' = queue \ {t}
                  /\ UNCHANGED <<cur, mode, linear>>
               \/ /\ verdict = "backlog"
                  /\ pc' = "dispatch"
                  /\ \/ dispatched' = dispatched + 1
                     \/ "read" \in Faults /\ UNCHANGED dispatched
                  /\ queue' = queue \ {t}
                  /\ linear' \in AfterSetState(linear, t, "Backlog")
                  /\ UNCHANGED <<cur, mode>>
               \/ /\ verdict \in PoolName
                  /\ pc' = "claim"
                  /\ cur' = t /\ mode' = verdict
                  /\ UNCHANGED <<dispatched, queue, linear>>
       \/ "read" \in Faults /\ StartFails(t)
    /\ UNCHANGED <<control, workers, reaping, processed, sorted, parents, status,
                   operator, restarts>>

Locked(t) == AfterSetState(linear, t, "InProgressLocal")

\* create_worktree, then the state that locks the ticket in Linear.
Claim ==
    /\ Goto("claim")
    /\ \/ /\ linear' \in Locked(cur)
          /\ pc' = "spawn"
          /\ UNCHANGED <<queue, cur, mode, dispatched>>
       \/ "worktree" \in Faults /\ StartFails(cur)
    /\ UNCHANGED <<control, workers, reaping, processed, sorted, parents, status,
                   operator, restarts>>

\* launch_worker and the append to the pool of the effective mode.
Spawn ==
    /\ Goto("spawn")
    /\ \/ /\ \E w \in Free :
               /\ pool' = [pool EXCEPT ![w] = mode]
               /\ ticketOf' = [ticketOf EXCEPT ![w] = cur]
               /\ proc' = [proc EXCEPT ![w] = "running"]
          /\ pc' = "dispatch"
          /\ dispatched' = dispatched + 1
          /\ queue' = queue \ {cur}
          /\ cur' = NoTicket /\ mode' = "none"
          /\ UNCHANGED linear
       \/ /\ "spawn" \in Faults
          /\ StartFails(cur)
          /\ UNCHANGED workers
    /\ UNCHANGED <<control, reaping, processed, sorted, parents, status, operator, restarts>>

EndDispatch ==
    /\ At("dispatch", "epic")
    /\ queue = {} \/ ~ MayTry
    /\ NoPass
    /\ UNCHANGED <<control, workers, reaping, processed, outside, operator, restarts>>
-----------------------------------------------------------------------------
(* The end of a poll, and the end of the run *)

EpicCompleteWhileActive ==
    /\ \A t \in Ticket : linear[t] # "ReadyForLocal"
    /\ \A t \in Ticket : status[t] # "WaitingForDeps"
    /\ processed

EpicComplete ==
    /\ Active = {}
    /\ \A t \in Ticket : linear[t] # "ReadyForLocal"
    /\ \A t \in Ticket : status[t] # "WaitingForDeps"
    /\ processed

CheckEpicCompletion ==
    /\ At("epic", "drain")
    /\ \/ running' = (running /\ ~ (~ Held /\ EpicComplete /\ ~ NoEpicShutdown))
       \/ "list" \in Faults /\ UNCHANGED running
    /\ UNCHANGED <<draining, paused, forcestopping, workers, reaping, processed,
                   passing, outside, operator, restarts>>

CheckDrained ==
    /\ Goto("drain")
    /\ IF Drained
       THEN running' = FALSE /\ sentinels' = sentinels \ {"softstop"}
       ELSE UNCHANGED <<running, sentinels>>
    /\ pc' = IF running' THEN "sleep" ELSE "teardown"
    /\ UNCHANGED <<draining, paused, forcestopping, workers, reaping, processed,
                   passing, outside, killList, restarts>>

WakeUp ==
    /\ Goto("sleep")
    /\ pc' = IF running THEN "softstop" ELSE "teardown"
    /\ UNCHANGED <<control, workers, reaping, processed, passing, outside, operator, restarts>>

\* _finalize_run: wait for each worker, SIGTERM after the timeout, never finalize.
FinalizeRun ==
    /\ At("teardown", "down")
    /\ Disowned(Terminated(Active))
    /\ Forgotten
    /\ UNCHANGED <<outside, operator, restarts>>
-----------------------------------------------------------------------------
(* The environment: operator, signals, crashes, people, worker processes *)

Request(gesture) ==
    /\ pc # "down"
    /\ gesture \in Gestures \cap {"softstop", "pause", "forcestop"}
    /\ sentinels' = sentinels \cup {gesture}
    /\ UNCHANGED <<pc, control, workers, reaping, processed, passing, outside,
                   killList, restarts>>

Resume ==
    /\ pc # "down"
    /\ "pause" \in sentinels
    /\ sentinels' = sentinels \ {"pause"}
    /\ UNCHANGED <<pc, control, workers, reaping, processed, passing, outside,
                   killList, restarts>>

RequestKill(tickets) ==
    /\ pc # "down"
    /\ "kill" \in Gestures
    /\ killList' = tickets
    /\ UNCHANGED <<pc, control, workers, reaping, processed, passing, outside,
                   sentinels, restarts>>

Signal ==
    /\ pc # "down"
    /\ "signal" \in Gestures
    /\ running' = FALSE
    /\ UNCHANGED <<pc, draining, paused, forcestopping, workers, reaping, processed,
                   passing, outside, operator, restarts>>

\* The daemon dies between two steps; its workers live on.
Crash ==
    /\ pc # "down"
    /\ "crash" \in Gestures
    /\ pc' = "down"
    /\ Disowned(proc)
    /\ Forgotten
    /\ UNCHANGED <<outside, operator, restarts>>

\* run(): a new Watcher, which first removes the sentinels of the prior run.
Restart ==
    /\ At("down", "softstop")
    /\ restarts < MaxRestarts
    /\ restarts' = restarts + 1
    /\ running' = TRUE
    /\ sentinels' = {} /\ killList' = {}
    /\ UNCHANGED <<draining, paused, forcestopping, workers, reaping, processed,
                   passing, outside>>

HumanMove(t) ==
    /\ \E s \in HumanStates : linear' = [linear EXCEPT ![t] = s]
    /\ UNCHANGED <<pc, control, workers, reaping, processed, passing, status,
                   operator, restarts>>

\* A process ends by itself or because of SIGTERM.
WorkerExit(w) ==
    /\ w \in Live
    /\ proc' = [proc EXCEPT ![w] = IF pool[w] = "none" THEN "free" ELSE "exited"]
    /\ ticketOf' = [ticketOf EXCEPT ![w] = IF pool[w] = "none" THEN NoTicket ELSE @]
    /\ UNCHANGED <<pc, control, pool, reaping, processed, passing, outside, operator, restarts>>
-----------------------------------------------------------------------------
Daemon ==
    \/ CheckSoftstop \/ CheckPause \/ CheckPauseResumption
    \/ CheckForcestop \/ CheckKill \/ TerminateOverrun
    \/ Reap \/ \E w \in Worker : FinalizeWorker(w)
    \/ Promote
    \/ ListReady \/ SkipDispatch \/ EndDispatch
    \/ (\E t \in Ticket : RunPreflight(t)) \/ Claim \/ Spawn
    \/ CheckEpicCompletion \/ CheckDrained \/ WakeUp \/ FinalizeRun

Environment ==
    \/ \E gesture \in Gestures : Request(gesture)
    \/ Resume
    \/ \E tickets \in SUBSET Ticket \ {{}} : RequestKill(tickets)
    \/ Signal \/ Crash \/ Restart
    \/ \E t \in Ticket : HumanMove(t)

Next == Daemon \/ Environment \/ \E w \in Worker : WorkerExit(w)

Spec == Init /\ [][Next]_vars

\* The poll loop never stops taking steps; a worker process ends at some time.
Fairness ==
    /\ WF_vars(Daemon)
    /\ \A w \in Worker : WF_vars(WorkerExit(w))

FairSpec == Spec /\ Fairness
-----------------------------------------------------------------------------
(* What the daemon promises *)

\* No ticket has two slots: the active lists together hold each ticket at most
\* once, over any number of polls (watcher.py _dispatch_next_ticket, _reap_pool).
NoDoubleDispatch ==
    \A v, w \in Active : ticketOf[v] = ticketOf[w] => v = w

\* Workers that run together never share a path that is not a package barrel
\* (check_allowed_paths_overlap), in whichever pools they are.
ActivePathsDisjoint ==
    \A v, w \in Active : v # w => ~ PathConflict(ticketOf[v], ticketOf[w])

\* --max-cloud-workers holds although one poll launches several workers
\* (_check_pool_capacity reads the live list).
CloudPoolBounded == Cardinality(Pool("cloud")) <= MaxCloud

\* Two local workers never run on different epic branches
\* (_check_epic_branch_overlap).
LocalEpicExclusive ==
    \A v, w \in Pool("local") : ~ OnOtherEpic(ticketOf[v], ticketOf[w])

\* The KV reservations of the local workers fit --kv-budget (_check_kv_budget).
KvWithinBudget == KvInFlight(TicketsOf(Pool("local"))) <= KvBudget

Launched(w) == pool[w] = "none" /\ pool'[w] # "none"

\* A drain or a pause that the poll has seen stops every launch of that poll.
NoLaunchWhileHeld ==
    [][\A w \in Worker : Launched(w) => ~ draining /\ ~ paused]_vars

\* A drained daemon exits, whatever its workers do meanwhile.
DrainTerminates == draining ~> pc = "down"

\* Every slot is given back in the end, also when finalize raises (WOR-334).
SlotsAreFreed == \A w \in Worker : pool[w] # "none" ~> pool[w] = "none"

\* With workers that succeed, every ticket whose manifest passes the quality gate
\* is delivered: the gates never leave tickets waiting on each other, and the
\* daemon does not exit before that.
EveryTicketDelivered ==
    <>(\A t \in Ticket : ManifestRefused(t) \/ linear[t] \in {"InReview", "MergedToEpic"})
=============================================================================
