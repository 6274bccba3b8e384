---------------------------- MODULE Supervision ----------------------------
(***************************************************************************)
(* How the daemon is reached and watches its workers (watcher_signals.py,   *)
(* the gestures of cli/operator.py): the pid file and the sentinel files    *)
(* around a start, the clocks of stuck-worker detection, the drain warning  *)
(* and the wait of a shutdown.  Times are ages, which Tick advances.  The   *)
(* names are not those of Promotion, so that a module can extend both.      *)
(***************************************************************************)
EXTENDS Naturals, FiniteSets

CONSTANTS
    Worker,        \* a worker is named by its ticket
    Timeout,       \* _WORKER_HEARTBEAT_TIMEOUT_SECONDS
    Grace,         \* _WORKER_KILL_GRACE_SECONDS
    WarnAfter,     \* _SOFTSTOP_WARN_AFTER_MIN
    Gestures,      \* what operators do
    MaxStarts,     \* bound: daemons started
    MaxRequests    \* bound: gestures made

Gesture == {"softstop", "forcestop", "pause", "kill"}

ASSUME SupervisionAssumption ==
    /\ {Timeout, Grace, WarnAfter, MaxStarts, MaxRequests} \subseteq Nat
    /\ Gestures \subseteq Gesture \cup {"resume", "signal", "crash"}

VARIABLES
    step,          \* the daemon's next step; a Gesture: the stale sentinel to remove next
    looping,       \* _running
    draining, paused, forcestopping,
    drainAge,      \* time since _draining_since
    warned,        \* _softstop_warned_stuck
    pidFile,       \* .claude/watcher.pid exists
    sentinels,     \* the sentinel files there are; the kill file lists every ticket
    requested,     \* ghost: gestures made to this daemon
    stuck,         \* ghost: stale sentinels that it could not remove
    active,        \* the handles in the pools
    awaited,       \* the handles a shutdown still waits for
    alive,         \* worker processes
    asked,         \* those of them that were sent SIGTERM
    killed,        \* those of them that were sent SIGKILL
    termed,        \* handles whose terminated_at is set
    termAge,       \* time since terminated_at
    idle,          \* idle[t]: time since t's log was written
    starts, requests,
    logless        \* tickets whose log cannot be read

daemon == <<step, looping, draining, paused, forcestopping, drainAge, warned, awaited>>
files == <<pidFile, sentinels, requested, stuck>>
processes == <<alive, asked, killed>>
handles == <<active, termed, termAge>>
counts == <<starts, requests, logless>>
supervised == <<daemon, files, processes, handles, idle, counts>>

Zero == [t \in Worker |-> 0]

SupInit ==
    /\ step = "down" /\ looping = FALSE
    /\ draining = FALSE /\ paused = FALSE /\ forcestopping = FALSE
    /\ drainAge = 0 /\ warned = FALSE
    /\ pidFile = FALSE /\ sentinels = {} /\ requested = {} /\ stuck = {}
    /\ active = {} /\ awaited = {} /\ alive = {} /\ asked = {} /\ killed = {}
    /\ termed = {} /\ termAge = Zero
    /\ idle = Zero /\ starts = 0 /\ requests = 0
    /\ logless \in SUBSET Worker

\* The last daemon has stopped.
Over == step = "down" /\ starts = MaxStarts

Lesser(m, n) == IF m < n THEN m ELSE n

Sigterm(S) == asked' = asked \cup (S \cap alive)
-----------------------------------------------------------------------------
(* run: the pid file first, then the sweep, then the stale sentinels *)

Start ==
    /\ step = "down" /\ starts < MaxStarts
    /\ starts' = starts + 1
    /\ step' = "softstop" /\ looping' = TRUE
    /\ pidFile' = TRUE
    /\ UNCHANGED <<draining, paused, forcestopping, drainAge, warned, awaited, sentinels,
                   requested, stuck, processes, handles, idle, requests, logless>>

\* Softstop, forcestop, pause, kill, in this order.
AfterStale ==
    CASE step = "softstop" -> "forcestop"
      [] step = "forcestop" -> "pause"
      [] step = "pause" -> "kill"
      [] step = "kill" -> "poll"

StaleKept(g) == sentinels \ ({g} \ {"pause"})
StaleRemoved(g) == sentinels \ {g}

\* An unlink that fails is logged, and the start goes on.
RemoveStale ==
    /\ step \in Gesture
    /\ \/ sentinels' = StaleRemoved(step) /\ UNCHANGED stuck
       \/ step \in sentinels /\ UNCHANGED sentinels /\ stuck' = stuck \cup {step}
    /\ step' = AfterStale
    /\ UNCHANGED <<looping, draining, paused, forcestopping, drainAge, warned, awaited,
                   pidFile, requested, processes, handles, idle, counts>>
-----------------------------------------------------------------------------
(* _poll_iteration *)

\* _draining_since is set once.
DrainClock == IF draining THEN drainAge ELSE 0

\* The sentinel checks; a pause is what its file says, except that a force-stop
\* pauses the poll in which it is seen.
CheckGestures ==
    /\ step = "poll"
    /\ step' = "overrun"
    /\ draining' = (draining \/ "softstop" \in sentinels)
    /\ drainAge' = IF draining' THEN DrainClock ELSE 0
    /\ LET stopped == "forcestop" \in sentinels /\ ~ forcestopping
           left == IF stopped THEN {} ELSE active
           victims == IF "kill" \in sentinels THEN left ELSE {} IN
        /\ forcestopping' = (forcestopping \/ stopped)
        /\ paused' = ("pause" \in sentinels \/ stopped)
        /\ active' = left
        /\ Sigterm((active \ left) \cup victims)
    /\ sentinels' \in {sentinels, sentinels \ {"kill"}}
    /\ UNCHANGED <<looping, warned, awaited, pidFile, requested, stuck, alive, killed,
                   termed, termAge, idle, starts, requests, logless>>

StalledAgain(t) == idle[t] > Timeout /\ t \in alive

\* send_sigterm_if_stalled
Stalled(t) == t \notin termed /\ idle[t] > Timeout /\ t \in alive

\* send_sigkill_if_grace_expired
GraceExpired(t) == t \in termed /\ termAge[t] > Grace /\ t \in alive

\* terminate_overrun_workers: a worker whose log is missing is left alone.
TerminateOverrun ==
    /\ step = "overrun"
    /\ step' = "reap"
    /\ LET seen == active \ logless
           stalled == {t \in seen : Stalled(t)} IN
        /\ Sigterm(stalled)
        /\ termed' = termed \cup stalled
        /\ termAge' = [t \in Worker |-> IF t \in stalled THEN 0 ELSE termAge[t]]
        /\ killed' = killed \cup {t \in seen \ stalled : GraceExpired(t)}
    /\ UNCHANGED <<looping, draining, paused, forcestopping, drainAge, warned, awaited,
                   files, alive, active, idle, counts>>

Reap ==
    /\ step = "reap"
    /\ step' = "launch"
    /\ active' = active \cap alive
    /\ UNCHANGED <<looping, draining, paused, forcestopping, drainAge, warned, awaited,
                   files, processes, termed, termAge, idle, counts>>

\* start_ticket opens a new log; that t has no process left is what run lifecycle shows.
LaunchWorker(t) ==
    /\ step = "launch" /\ ~ draining /\ ~ paused
    /\ t \notin active \cup alive
    /\ active' = active \cup {t} /\ alive' = alive \cup {t}
    /\ termed' = termed \ {t}                    \* a new ActiveWorker
    /\ idle' = [idle EXCEPT ![t] = 0]
    /\ UNCHANGED <<daemon, files, asked, killed, termAge, counts>>

\* A drain that is complete removes its sentinel, if it can, and ends the loop.
EndPoll ==
    /\ step = "launch"
    /\ LET drained == draining /\ active = {} IN
        /\ sentinels' \in {sentinels, IF drained THEN sentinels \ {"softstop"} ELSE sentinels}
        /\ looping' = (looping /\ ~ drained)
    /\ IF looping' THEN step' = "sleep" /\ UNCHANGED awaited
       ELSE step' = "waiting" /\ awaited' = active
    /\ UNCHANGED <<draining, paused, forcestopping, drainAge, warned, pidFile,
                   requested, stuck, processes, handles, idle, counts>>

\* _emit_post_iteration_signals; a signal during the sleep ends the loop after it.
Emit ==
    /\ step = "sleep"
    /\ warned' = (warned \/ (draining /\ drainAge >= WarnAfter))
    /\ IF looping THEN step' = "poll" /\ UNCHANGED awaited
       ELSE step' = "waiting" /\ awaited' = active
    /\ UNCHANGED <<looping, draining, paused, forcestopping, drainAge,
                   files, processes, handles, idle, counts>>
-----------------------------------------------------------------------------
(* _finalize_run: wait_for_active_workers, remove_pid_file *)

\* The process is gone with what it remembered.
Forgets ==
    /\ step' = "down" /\ looping' = FALSE
    /\ draining' = FALSE /\ paused' = FALSE /\ forcestopping' = FALSE
    /\ drainAge' = 0 /\ warned' = FALSE /\ awaited' = {}
    /\ requested' = {} /\ stuck' = {}
    /\ active' = {} /\ termed' = {} /\ termAge' = Zero

WaitsForever(t) == FALSE

\* wait(timeout=600), after which the worker is sent SIGTERM and not waited for.
TimesOut(t) == TRUE

WaitForWorker(t) ==
    /\ step = "waiting" /\ t \in awaited
    /\ \/ t \notin alive /\ UNCHANGED asked
       \/ TimesOut(t) /\ Sigterm({t})
    /\ awaited' = awaited \ {t}
    /\ UNCHANGED <<step, looping, draining, paused, forcestopping, drainAge, warned,
                   files, alive, killed, handles, idle, counts>>

Stop ==
    /\ step = "waiting" /\ awaited = {}
    /\ pidFile' = FALSE
    /\ Forgets
    /\ UNCHANGED <<sentinels, processes, idle, starts, requests, logless>>
-----------------------------------------------------------------------------
(* Operators, the workers, time *)

\* The subcommands refuse when there is no pid file.
Request(g) ==
    /\ g \in Gestures \cap Gesture /\ pidFile /\ requests < MaxRequests /\ ~ Over
    /\ requests' = requests + 1
    /\ sentinels' = sentinels \cup {g}
    /\ requested' = IF step = "down" THEN requested ELSE requested \cup {g}
    /\ UNCHANGED <<daemon, pidFile, stuck, processes, handles, idle, starts, logless>>

Resume ==
    /\ "resume" \in Gestures /\ pidFile /\ "pause" \in sentinels
    /\ sentinels' = sentinels \ {"pause"}
    /\ UNCHANGED <<daemon, pidFile, requested, stuck, processes, handles, idle, counts>>

Signal ==
    /\ "signal" \in Gestures /\ step # "down" /\ looping
    /\ looping' = FALSE
    /\ UNCHANGED <<step, draining, paused, forcestopping, drainAge, warned, awaited,
                   files, processes, handles, idle, counts>>

\* The process dies; its pid file and its workers stay.
DaemonDies ==
    /\ "crash" \in Gestures /\ step # "down" /\ starts < MaxStarts
    /\ Forgets
    /\ UNCHANGED <<pidFile, sentinels, processes, idle, starts, requests, logless>>

WorkerWrites(t) ==
    /\ t \in alive /\ idle[t] > 0 /\ ~ Over
    /\ idle' = [idle EXCEPT ![t] = 0]
    /\ UNCHANGED <<daemon, files, processes, handles, counts>>

Exits(t) ==
    /\ t \in alive /\ ~ Over
    /\ alive' = alive \ {t} /\ asked' = asked \ {t} /\ killed' = killed \ {t}
    /\ UNCHANGED <<daemon, files, handles, idle, counts>>

\* A worker may end on SIGTERM, or not; on SIGKILL it ends.
WorkerDies(t) == t \in killed /\ Exits(t)

Older(f, S, limit) == [t \in Worker |-> IF t \in S THEN Lesser(f[t] + 1, limit) ELSE f[t]]

\* Time passes while the daemon sleeps, waits or is down; ages are counted as far as
\* they are compared.
Tick ==
    /\ step \in {"sleep", "waiting", "down"} /\ ~ Over
    /\ idle' = Older(idle, alive, Timeout + 1)
    /\ termAge' = Older(termAge, termed, Grace + 1)
    /\ drainAge' = IF draining THEN Lesser(drainAge + 1, WarnAfter) ELSE 0
    /\ UNCHANGED <<step, looping, draining, paused, forcestopping, warned, awaited, files,
                   processes, active, termed, counts>>
-----------------------------------------------------------------------------
RunLoop ==
    \/ RemoveStale \/ CheckGestures \/ TerminateOverrun \/ Reap \/ EndPoll \/ Emit \/ Stop
    \/ \E t \in Worker : LaunchWorker(t) \/ WaitForWorker(t)

SupNext ==
    \/ Start \/ RunLoop
    \/ (\E g \in Gesture : Request(g)) \/ Resume \/ Signal \/ DaemonDies
    \/ (\E t \in Worker : WorkerWrites(t) \/ Exits(t))
    \/ Tick

SupSpec == SupInit /\ [][SupNext]_supervised

SupFairSpec ==
    /\ SupSpec
    /\ WF_supervised(RemoveStale \/ CheckGestures \/ TerminateOverrun \/ Reap \/ EndPoll
                       \/ Emit \/ Stop)
    /\ \A t \in Worker : WF_supervised(WaitForWorker(t)) /\ WF_supervised(WorkerDies(t))
    /\ SF_supervised(Tick)                    \* each sleep takes time
-----------------------------------------------------------------------------
(* What supervision promises *)

\* A worker that writes no more loses its slot, though it ignores SIGTERM and the
\* operator's kill came first, unless its log cannot be read or the daemon goes.
SilentWorkersEnd ==
    \A t \in Worker :
        (t \in active \ logless) ~> (t \notin active \/ idle[t] = 0 \/ step = "down")

\* A daemon obeys what was asked of it, a kill included, never a sentinel left by the
\* last one (remove_stale_*_sentinel), unless the operating system refused to remove
\* that file when it started.
OnlyOwnGestures ==
    LET own == requested \cup stuck IN
    step \notin Gesture \cup {"down"} =>
        /\ sentinels \subseteq own
        /\ draining => "softstop" \in own
        /\ forcestopping => "forcestop" \in own
        /\ paused => own \cap {"pause", "forcestop"} # {}

\* A drain that does not end is reported (maybe_warn_softstop_stuck), and a daemon
\* told to stop does, though its workers do not.
StopsAreAnswered ==
    /\ draining ~> (warned \/ ~ looping \/ step = "down")
    /\ (step \notin Gesture /\ ~ looping) ~> (step = "down")
=============================================================================
