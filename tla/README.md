# Verification of repo-scaffold-desktop

The repository holds a *generator* of project scaffolds, and a *watcher*: a
daemon that takes tickets from Linear, runs one coding worker (a `claude` CLI
process) per ticket in a git worktree of its own, checks the result, opens a
pull request, records what it cost and moves the ticket on. Around the watcher
are a metrics database with its maintenance scripts and a benchmark harness for
the model servers the workers use. Processes, threads, people, files and remote
services meet in the watcher: it is modelled first and most closely.

## 1. The system

### Components

| component | state it keeps | operations | talks to |
|---|---|---|---|
| daemon loop (`watcher.py`) | `_running _draining _paused _forcestopping`, the two active lists, `_processed_tickets` | `_poll_iteration`: sentinels, overrun check, reap, promote, dispatch, epic check, drain, sleep | everything below, by direct calls of one thread |
| operator gestures (`cli/operator.py`, `watcher_signals.py`) | sentinel files in `.claude/` | softstop, pause, resume, forcestop, kill, SIGINT | the loop reads the files once per poll; kill is consumed by reading it |
| dispatch gates (`dispatch.py`, `watcher_helpers.py`) | none | `_run_preflight`: blockers, epic branch, manifest, drift, Linear state, paths, KV budget, mode, cloud pool, vLLM health; `start_ticket` | Linear, git, manifests on disk, vLLM |
| picker (`watcher.py`, `watcher_helpers.py`) | the candidates of one pass | list, filter, sort, cap of 4 per poll | Linear |
| pools and reaping (`watcher.py`) | a list of handles per pool, the child processes | poll, finalize in a thread pool, join, free the slots | finalization |
| stuck workers (`watcher_signals.py`) | SIGTERM time per worker | SIGTERM when the log is idle, SIGKILL after a grace; the wait of a shutdown | the worker process and its log |
| finalization (`watcher_finalize*.py`, `watcher_subprocess.py`) | per thread: attempts, check results, artifact paths; one lock per base branch | gates, checks, policy, retry, Sonar, squash, rebase, push, PR, Linear state, WIP, cleanup | git, GitHub, Linear, metrics, worktree |
| worktrees (`watcher_worktrees.py`) | a directory and a branch per ticket, plan backup, artifact directory | create, rebase, back up plans, preserve artifacts, commit WIP, remove, sweep | git |
| promotion (`watcher.py`) | `status` in the manifests | WaitingForDeps to ReadyForLocal or Backlog | manifests, Linear |
| epic completion (`watcher_epic.py`) | announced epics | decide that nothing is left, announce, exit | Linear, manifests |
| Sonar retry (`watcher.py`) | pending results | fetch again per poll | SonarCloud, metrics |
| Linear client (`linear_client.py`) | cache of state ids | list, read and write states, comment; retry on HTTP errors | Linear |
| log telemetry (`watcher_log_parsing.py`, `worker_waste.py`, `metrics_tags.py`) | none: functions of a log | tokens, turns, retries, waste score, tags; two backfill scripts | worker logs, the stores |
| stores (`metrics_store.py`, `bench_store.py`) | one SQLite file, opened by several processes | migrate, record, upsert, backfill; import of the two older files | disk |
| generator (`cli/generate.py`, `generator.py`, `post_setup.py`) | the output directory, a repository on GitHub | render, skills, git, hooks, create, configure, push, roll back | user, git, GitHub |
| benchmark (`scripts/bench`) | the rows of a sweep, what is loaded in each server | expand a matrix, skip, measure, record, resume, rank | Ollama, vLLM, the stores |
| the rest | files | wizard, preferences, command line, TUI, heartbeat, detached launch | user, disk |

### What is hard about it

* **One thread, but not one actor.** While the daemon is between two network
  calls, workers exit, people move tickets, operators write sentinels, and
  `dispatch` goes on with lists it read before.
* **The lock on a ticket is remote.** What stops a second launch of a ticket
  after a restart is the workflow state in Linear, written by a call that may
  fail, after the check that reads it.
* **Two records of one decision.** Promotion writes the manifest, then Linear; a
  lost answer, a refusal or a crash may fall between the two.
* **Workers outlive their daemon.** Force-stop, shutdown and a crash drop the
  active lists while the processes run on, in worktrees the next daemon sweeps.
* **Finalize runs in threads.** All workers found exited in one poll are
  finalized at once; their slots are freed after the last one, also when one
  raised. A retry launches a worker and does not wait for it.
* **Shared flags, files left over.** Pause, resume and force-stop share `_paused`
  but not a sentinel; sentinels outlive the daemon they were meant for.
* **Budgets.** Pool sizes, the KV budget and the per-poll cap are read at
  different moments of a poll that launches several workers.
* **A log is read while it is written**, by five parsers that one pass was to
  replace; a database is migrated by whoever opens it.
* **Long sequences that are killed and run again**: a sweep of the benchmark, a
  run of the generator, an import.

### What correct means, per component

* gates, picker, pools: a ticket holds one slot at most; workers that run
  together share no path; local workers share one epic branch; pools and KV
  budget are within limits.
* loop and gestures: a drain stops launches and ends; a pause stops launches; a
  daemon obeys no sentinel of its predecessor; one process per ticket across
  restarts; every slot comes back, also that of a worker gone silent.
* promotion, epic completion: a chain of dependent tickets is delivered to its
  end; manifest and Linear agree; the daemon does not exit while something is left.
* finalization, worktrees: Linear agrees with the outcome; no work is removed
  before it was pushed or saved; no result of an earlier attempt is believed; pull
  requests are opened on a current base.
* Linear client: a write is applied once per decision, or its failure is seen.
* telemetry: the one pass agrees with the parsers it replaced; a row is about the
  attempt that is last; a backfill finds what finalize found.
* stores: an open store has its columns; late writers do not undo fresh ones; an
  import is whole.
* generator: success is whole; failure is rolled back; nothing of anybody else is
  touched.
* benchmark: killed and resumed is as if never killed; what is ranked was measured.

PROJECT.json lists the hazards one by one, each at its line.

## 2. The modules

### The daemon: Dispatch, Watcher, Outcomes

`Dispatch.tla` has no variables. It is the decision `dispatch.py` takes on one
ticket as an operator, `Preflight(t, local, cloud, cloudCount, linear, healthy)`,
with one operator per gate, in the order of the code (the order matters: a
blocked ticket with a bad manifest stays ReadyForLocal, it does not go to
Backlog), and the picker (`Eligible`, `SortsBefore`, `NextCandidate`).

`Watcher.tla` EXTENDS it: the daemon as a thread with a program counter `pc`.

| in the model | in the code |
|---|---|
| `pc` | the next step of `_poll_iteration`; a step is one action unless another actor can get in between its parts |
| `pool`, `ticketOf`, `proc` | `_local_active`, `_cloud_active`, `ActiveWorker.ticket_id`, the process. A handle with `pool[w] = "none"` and a live process is an orphan |
| `reaped`, `finalizing` | the `finished` list of `_reap_pool` and the futures not yet done |
| `queue`, `sorted`, `parents`, `dispatched` | the candidates of one pass, and `dispatch_count` |
| `cur`, `mode` | the ticket inside `start_ticket`, split into `RunPreflight`, `Claim` (worktree, then the state write) and `Spawn` |
| `linear`, `status` | workflow states in Linear, `status` in the manifests on disk |
| `sentinels`, `killList` | the sentinel files |
| `Crash`, `Restart` | the process dies and a new `Watcher` runs, which first removes old sentinels |
| `Faults` | which calls may fail: listing, reading, writing Linear, worktree, spawn, vLLM. A failed write is swallowed (`safe_set_state`); a failed read in preflight is a failed start (`StartFails`), that does not count as a dispatch |
| `HumanMove`, `WorkerExit` | the environment: people in Linear; a worker ends by itself or by a signal |

Abstractions: a path is a string compared as a whole, a set of allowed paths
stands for the list; `TerminateOverrun` chooses which workers the log clocks
pick; `FinalizeWorker` is one step with every Linear state and result the
finalization can leave, and the process its retry may leave behind; one
promotion scan reads the states of one moment. Each of these steps has a module
that opens it up: `Supervision`, `Finalize`, `Promotion`. The handles of
processes are reused once a process is gone, and when every handle is taken by an
orphan `Spawn` waits for one to end: a bound of the model, not of the code.

`Ownership.tla` EXTENDS `Watcher` with a history variable. What keeps a restarted
daemon off a ticket is the ticket's state in Linear, and four things take that
away: the write at the claim is refused and `safe_set_state` swallows it
(`LostAtClaim`); people move the ticket while a worker has it, while it is being
launched or while its manifest waits (`MovedInUse`); a retry launches a process
beside the handle it knows (`LaunchedAgain`); a ticket is filed as ready in Linear
and as waiting in its manifest (`FiledTwice`). `excused` remembers the tickets at
which one of them happened, and `OneOwner` is said of every other ticket. The
variable adds nothing to the daemon: each step of `OwnNext` is one of `Next`,
`MaxBroken` being a bound of the run.

`Outcomes.tla` is the contract between daemon and finalization: what one call of
`finalize_worker` may report and the workflow states it may leave its ticket in
(`FinalStates`). `Watcher` uses it for its one step `FinalizeWorker`;
`FinalizeResult.tla` is the same step as an abstract specification, and
`Finalize.tla` is shown to implement that. This is what makes the coarse step
sound: `Interim`, for one, is there because a failed attempt writes Blocked to
Linear before the retry, so a call that ends "aborted" may leave a ticket Blocked.

### Finalize

One reap wave: a thread per exited worker.

| in the model | in the code |
|---|---|
| `pc[t]` | gates, execute, checks, policy, squash, waiting (for the lock), rebase, create, merge, deliver, record, wip, cleanup; "raised" is an exception caught by `_reap_pool` |
| `attempts`, `outcome`, `preserved`, `wip` | `worker.attempt_count`, `outcome`, `artifacts_preserved`, `wip_result.status` |
| `tree`, `dirty`, `saved`, `ahead` | the worktree exists; edits in no commit ("new": in files git does not know, "changed": in files it knows or in its index); those edits are in the backup directory; the branch has commits |
| `diagnosis`, `published` | `last_failure.json` in the worktree and in the main repository |
| `lock` | `_pr_locks` |
| `head`, `onto`, `opened` | how often the wave has merged into `origin/<base>`, where the branch was rebased to, the pull request |
| `rerun` | the process `_run_retry_loop` launches and does not wait for |

A git commit is never lost with its worktree, since branches live in the main
repository; only uncommitted edits are at risk. `dirty` has two kinds because
`git rebase` and the push refuse only the second: an attempt succeeds, and its
worktree is to be removed, with new files that were never added (WOR-347). A wave
starts with worktrees of any kind for the tickets in `Dirty`, and with the diagnosis
of an earlier dispatch for those in `Revisited`. What the checks and the policy
answer is a choice. Merges by people or by GitHub's auto-merge are not counted in
`head`: no lock of the daemon can hold those.

### Worktree

One ticket's worktree over any number of dispatches.

| in the model | in the code |
|---|---|
| `phase[t]` | where the dispatch is: created, running, exited, checking, relaunched ("again"), the pull request refused, failed, preserved, then "wip" or "kept"; "ended" is every way out before the wrap-up, and the end of it |
| `dirty`, `detached`, `local`, `origin`, `backup`, `rescue` | the *sets of edits* in each place an edit can be, so that an edit in none of them is lost (`Lost`) |
| `dir`, `reg`, `head`, `rewritten` | the directory, what git has registered, a rebase left open, a branch that a plain push cannot update |
| `alive`, `old`, `haunted` | a process of this dispatch, of an earlier one, and whether one of these lived when the worktree was made |
| `result`, `copy`, `inBranch`, `trusted` | `result.json` in the worktree, in the main repository, in a commit, and what finalize read last |
| `plan`, `moved` | the operator's plan file, and `worker.backed_up_plans` |

The actions are `create_worktree` with its rebase onto the epic branch, the launch,
the worker's edits, commits and report, and `finalize_worker` by its ways out: a gate
refuses and the call returns at once (`GateRefuses`), an exception leaves it anywhere
(`Raise`), the checks fail and the worker is launched again, upon which the second
attempt reads what the first process left (`Relaunch`, `ReadReport`), it gives up,
hands over or publishes. Only what is left reaches the wrap-up: `Salvage`
(`restore_plan_files`, `commit_wip_state`, the artifacts) and `Remove`. Beside them
are force-stop, a crash, and the two sweeps (`cleanup_orphaned_worktrees`,
`cleanup_orphan_dir`). `Requeue` is a person who dispatches the ticket again, also
while a process of it lives. `PrunableLine` is what `git worktree list --porcelain`
prints of a missing worktree; the code looks for another text, which the model takes
as it is.

### Promotion

`_promote_waiting_tickets` manifest by manifest (`todo`, `cur`, `seen`) and
`watcher_epic.py`. `tries` counts the attempts of the call in flight: an attempt
may be lost before or after Linear applied it (`_query`, `_RETRY_DELAYS`). The
manifest write, the state lookup, the state write and the comment are separate
steps, a crash may fall between any two. Launching and finalizing a ticket are one
step each. Ghosts: `closed` (ever completed), `interrupted` (a crash fell between
the two writes), `touched` (moved by people after the list was read).

### Supervision

The start of a daemon (pid file, orphan sweep, removal of stale sentinels one by
one), the reading of gestures, `terminate_overrun_workers` with its clocks, the
drain warning, and the wait of a shutdown, worker by worker. Times are ages that
`Tick` advances; `idle[t]` goes back to 0 when a worker writes its log. `requested`
is a ghost: the gestures made to *this* daemon. A file that cannot be unlinked is
kept, with a warning: at the start (`RemoveStale`, where the ghost `stuck` notes it),
when a kill is consumed, at the end of a drain.

### Stores

`app.db` statement by statement: `tables`, `columns` (which migrations have been
applied), a row per ticket and project that says which run each of its fields is of,
and the lock an open transaction holds. `Ticket` are the keys of the rows; `NameOf`
gives the ticket's name without the project, by which the backfill fetches them, and
`Ours` are those the daemon records. The backfill takes a log at a time: `Select`
reads all rows of the name at once, `ScoresZero` and `Update` then treat each of
those without a score (`selected`) from what was read (`read`), with the log read
again in between, while others write. Its users are processes that open a store
(`Open`), the daemon (record, tag, first fetch, `_retry_pending_sonar`),
`backfill_waste_score.py` and `migrate_split_db_to_unified.py`.

### WorkerLog, Telemetry

`WorkerLog.tla` has the parsers as functions of a sequence of lines: a fold per
parser where the code carries something from line to line (`UsageStep`,
`WalkStep`, `SignalStep`), the number of the positions at which it counts where it
only counts; the single pass `ParseWorkerTelemetry`, `ComputeWasteScore`, the tags. A
line keeps the fields the parsers tell apart; a torn line, a JSON scalar and
undecodable bytes are kinds of lines. `Telemetry.tla` is the run of one worker
around it: the process writes lines and parts of lines, the tee thread of verbose
mode passes them on later, finalize reads the log twice, relaunches onto it (the
log is truncated), records, tags, archives; then the backfills run.

### Bench

`scripts/bench/runner.py`: `ExpandMatrix` is the order of cases, the actions are
the branches of the case loop (recorded already, larger than what ran out of
memory, concurrency gate, server not ready, pull failed, flush and measure) and
`Crash`/`Resume`, which rebuild `adaptive` from the rows in `store`. `loaded` is
what is in the servers' memory. `Ranked` is `reporter_ranking.py`. `MatrixAssumption`
says what the expansion returns, a list of cases; `DistinctCases`, that it lists
none twice. Both are evaluated on the matrices of the run.

### Generator

`python -m app.cli generate` step by step over a directory (`disk`, `git`) and
two repositories on GitHub (`repos`: the one of the name, and the one of
`--remote-url`). Every step has its failing forms: refused, lost after it was
applied, raising something nobody catches; `Kill` may tear the file being
written; `RunAgain` starts the next command over what is there. An error status of
GitHub is taken to mean that it changed nothing.

### Instances and proofs

`MCWatcher.tla` has the small projects Crowded (shared paths, two epics, a
dependency), Pair and Chain (a promoted ticket, a blocked one, a refused one), and
`MCOwnership` takes them for `Ownership`;
`MCFinalize`, `MCWorktree`, `MCPromotion`, `MCStores`, `MCTelemetry`, `MCBench`,
`MCGenerator` the instances of their modules; `MCSupervision` has only numbers,
given in its cfg. `WatcherProofs`, `FinalizeProofs`, `WorktreeProofs`,
`StoresProofs`, `BenchProofs`, `GeneratorProofs` and `TelemetryProofs` hold the
proofs of the module they are named after, `WatcherProofs` those of `Ownership` as
well; `PollProofs` holds those of `Promotion` and of `Supervision`, the two parts
of a poll that `Watcher` takes in one step.

### How they compose

`Watcher` is the whole; its steps are refined or opened by the others.
`Finalize` implements `FinalizeResult` (`ImplementsResult`), which is the step
`FinalizeWorker` of `Watcher` by `Outcomes`. `NoDoubleDispatch`, proved of
`Watcher`, is what entitles `Finalize` and `Worktree` to one worker per ticket. `Promotion` and
`Supervision` retell a part of the poll with the rest as single steps: a property
of theirs is about all orders of those steps, a superset of the poll's.

## 3. The runs

| run | question | instance and bounds |
|---|---|---|
| `admission` | who may run together; who owns a ticket | Crowded: 3 tickets, 3 handles, 2 local, 1 cloud, 2 launches a poll, every fault, people moving tickets back to ReadyForLocal, finalizes that relaunch, a crash and a restart; one ticket's lock may be broken |
| `lifecycle` | do holds hold, does a drain end, do slots come back, across force-stop, crash, signal, restart | Pair, one restart, every gesture but kill, people taking tickets (InProgressLocal), failing spawns, finalizes that raise |
| `delivery` | how many may run; is everything delivered | Chain: 5 tickets, cloud limit 1, KV budget 2, workers that succeed, operators that kill |
| `finalize` | does each call end with a result that Linear agrees with, with no work lost, no stale diagnosis, no sibling merged in between | two threads on one epic branch: A with every fault, a worktree of any kind, maybe an old diagnosis, and a manifest that asks for more retries than the code allows, B failing at `gh`, with tolerated checks and an escalation |
| `worktree` | where does an edit go; whose result is read; who puts the plan file back | A with 2 edits, every fault and a retry, dispatched, relaunched, force-stopped, swept and dispatched again without a bound; B shares only the plan file, and is dispatched only while A has made one edit at most (`OneThingAtATime`) |
| `promotion` | do manifest and Linear agree; is everything decided before the exit | 4 tickets: one without a manifest, one refused by Linear, one without an issue; 3 answers lost in a row, 2 moves by people, 1 crash, both epic-shutdown modes |
| `supervision` | who is obeyed, who is ended | two daemons one after the other, 2 gestures of any kind at any step, unlinks that fail, timeout and grace of 1, warning after 2 |
| `stores` | what do the users of one file do to each other | 2 tickets, one of them in two projects, five crowds of users, 2 recorded runs, 3 fetches per count, a legacy log of 2 rows |
| `telemetry` | what does a row say of its log | every log of 2 lines out of 12 kinds, cut anywhere, 2 attempts, tee or no tee |
| `bench` | is a resumed sweep the sweep | 5 matrices: contexts and levels in either order, a tier with contexts of its own, two models, two servers; one resumption, one server late |
| `generator` | what is left behind | 6 command lines, 2 templates and a skill, 3 runs over one directory |
| `doc_lost_edit` | what a comment says and the code does not do | one ticket with one retry and no fault |

**Why the bounds are enough.** The admission properties relate two tickets that
hold slots and a candidate: three tickets and three handles. `delivery` has more
tickets than each limit. A second process for a ticket needs two daemons, so
`admission`, `lifecycle` and `supervision` have one restart. One broken lock
(`MaxBroken`) is enough to see whether it costs a neighbour its owner. The cap of one poll is 2 or 3 so
that it bites (4 in the code). Threads meet only in the lock and the head of a
base: two are all that mutual exclusion is about. Two edits are enough for one to
be in a commit while the other is not, one in an old backup and one in the new. B's plan file
and A's second edit meet in no step, which is why `OneThingAtATime` may keep them
apart; the proofs know no such bound. `MaxLost` is
one less than the attempts of `_query`, which gives up after four; that is what
`Refusing` is for. Two runs recorded are a late count and a fresh one,
and three fetches are the fewest with which a count is still pending when the second
run is recorded. Two rows of one ticket and one of another are the least in which a
row can be read together with one that is updated before it. Two
lines and two attempts are every pair of lines that one parser counts and another
does not. The contexts and levels of `bench` are the smallest in which a skip can
be due to the row of an earlier case; the third run of `generator` follows one that
failed after one that succeeded. Symmetry is used for handles in `admission`, which
checks invariants only.

Deadlock is not checked, in any run, since each of these systems may really stop:
a daemon that is down with no restart left, a wave whose threads have ended, a
command that is over with no run left.

**What the runs assume.** `OneOwner` leaves out the tickets in `excused`, of which
it would be false: where `safe_set_state` swallows an error, the worker starts
under a ticket that still says ReadyForLocal, and after a restart the ticket is
launched again.
`KvWithinBudget` leaves out `cloud_preferred` tickets under `--worker-mode local`:
they join the local pool without the KV gate. No matrix of `bench` lists a value
twice: `expand_matrix` does not refuse one that does, and its sweep dies when the
case comes again.
`WorkSurvives` leaves out tickets that were launched again; `doc_lost_edit` shows
why. `LossesAreKnown` names the six ways in which the code does lose edits: the sweep
of the next daemon, that of the next dispatch, a rebase left open, a backup that
replaces an older one, the forced push of a branch whose squash had failed in an
earlier dispatch, and a worktree removed under a process nobody waits for.
`PlanIsPutBack` allows a crash, a force-stop, a failed launch, a gate refusal and an
exception to strand the plan file. `TrustedResultIsOwn` allows a result that a worker
forced into a commit, or whose process outlived its dispatch.
`OnlyOwnGestures` allows a stale sentinel that could not be removed, and
`OnlyFirstTicketIsStale` stale rows of the first ticket the backfill updates.
`FailureIsRolledBack` is said of the failures the command itself reports: a run that
is killed, or dies of a network error, rolls nothing back.

**Fairness.** `Watcher`: weak fairness of the daemon as a whole, since the loop
has no blocking wait but the join of finalizes and sleeps a fixed time, and weak
fairness of each worker's end, since a worker that goes silent is sent SIGTERM
and then SIGKILL (which `supervision` checks). `Finalize`: each thread is fair on
its own; the executor runs every call submitted to it, and waiting for the lock
needs no more, since each thread takes it at most once. `Promotion`: the daemon,
and whoever restarts it. `Stores`: the daemon only. `Supervision`: the steps of
the daemon, the return of its wait for a worker and the death of a process that
was sent SIGKILL are weakly fair; `Tick` is strongly fair, because it is enabled
only while the daemon sleeps, again and again but not for ever, and each sleep
takes time. People and operators have no fairness anywhere.

### Where text and code differ

`doc_lost_edit` has a run whose property is the text and whose counterexample is
the code: the retry launches a worker, keeps no handle and finalizes again at
once; what that worker edits after the WIP commit is removed with its worktree.

Seen while modelling, and modelled as the code does it:

* *Gestures and limits.* The pause a force-stop sets is cleared one poll later,
  because resumption looks for a pause sentinel that force-stop does not write.
  The loop of one poll re-checks the cloud limit, not the local one. With
  `--worker-mode local` a cloud_preferred ticket joins the local pool without the
  KV gate. A full cloud pool defers a cloud_preferred ticket where
  `manifest.py:145` promises a local worker. The epic-branch gate looks at local
  workers only. Deferrals count against the cap of launches, so four blocked
  tickets at the head of the list starve every ticket behind them. The label
  filter for spikes reads labels the query does not ask for. `picker_sort_key`
  compares a Linear UUID with an epic's human identifier.
* *Ownership.* A crash between the state write and `Popen` leaves a ticket
  InProgressLocal that no daemon looks at. A transient error of a read in
  preflight sends a ticket to Blocked. A ticket whose manifest says WaitingForDeps
  while Linear says ReadyForLocal can be launched and then promoted under its
  running worker, which the attempt at the ownership proof showed (`FiledTwice`).
* *Finalization and worktrees.* When the pull request fails, `last_failure.json`
  is written into the worktree after the artifacts were copied out, and removed
  with it. A gate that refuses returns before the wrap-up: the plan files stay in the
  backup and the edits in a worktree that the next dispatch sweeps; an exception does
  the same. After a relaunch the second attempt reads the report of the first process,
  a moment after the second was started. A failed commit in `squash_wip_commits`
  leaves the branch without its commits, and the forced push of a later dispatch takes
  them from origin as well. `squash_wip_commits` looks for `wip: ` subjects where
  `commit_wip_state` writes `wip(failed): `. A rebase left open makes the WIP
  commit one of a detached HEAD, which is then reported as pushed. The startup
  sweep removes the worktrees a force-stop backed up. A backup deletes the older
  backup before it copies. A stale registration of a worktree is never pruned.
* *Promotion.* A crash while a manifest is written leaves it torn and its ticket
  out of every scan. The comment on a finished epic says "All sub-tickets merged"
  also when some are in Backlog or Blocked.
* *Supervision.* A gesture made while a daemon starts may be swept as stale; a stale
  sentinel that cannot be removed is obeyed. A
  worker that ignores SIGTERM survives a shutdown.
* *Stores.* An `ALTER` that meets a lock is swallowed, and the column is missing
  until the next start. The backfill's update does not check that the column is
  still empty: the rows of the first ticket it updates may have been replaced since.
  A late count fills the blank of a later run. The import drops rows whose key is taken.
* *Telemetry.* On a log with undecodable bytes the telemetry is NULL, but the
  waste score raises, so finalize ends before metrics, WIP and cleanup. The one
  pass and the parsers differ on JSON lines that are no object and on null
  contents. A relaunch truncates the log and finalize reads the new one at once.
* *Benchmark.* What was seen of shared prefixes and the model measured last are
  not restored on resume; rows with an error are never measured again; a switch to
  another backend and back does not flush the first model. A value listed twice in a
  matrix makes a case come twice, whose second row raises IntegrityError.
* *Generator.* A network error (rather than an HTTP status) escapes without a
  roll-back and leaves a repository behind, whose name then refuses every rerun.
  Branch protection is asked for before the branch exists, so it only warns.

## 4. The proofs

All are for every set of tickets, manifests, limits, faults and gestures that the
named assumptions of the modules admit (records have the fields the code reads,
tickets and handles are finite, limits are positive). Each module has one
inductive invariant, a conjunction of named parts; the step lemma splits on the
actions. No listed property is inductive alone.

* **Watcher** (`TypeCorrect`). That the dispatch counter stays within its cap rests
  on the guard of the loop; that handles keep their sorts, on *HandlesOK*,
  through orphaning.
* **Admission** (`EachTicketOneSlot`, `WorkersNeverCollide`, `LocalPoolOnOneEpic`,
  `CloudPoolWithinLimit`). A launch takes three steps: the gates see the pools at
  `RunPreflight` and the slot is taken at `Spawn`. *QueueFresh*: a ticket in the
  queue of a pass holds no slot, for the list was filtered once and what a pass
  launches leaves the queue. *Admitted*: while `cur` is in flight, every gate it
  passed still holds of the pools. It is kept because between the two steps only
  workers leave: lemma `SlotsShrink`. `HoldsAreKept` by *HoldOK*: in the middle of a
  pass no drain or pause is set, since the sentinels are read before it.
* **KV budget** (`KvFitsBudget`), under `GateSeesLocalPool`: with
  `--worker-mode local` no manifest prefers the cloud. The budget is the number of
  sequences, counted as the pairs of a local ticket and one of its sequences, so that
  a worker that joins or leaves adds or takes a set of pairs. *KvGranted*: while a
  launch is in flight, the local pool together with its ticket fits. Workers that
  leave in between only make room.
* **Ownership** (`OneOwnerPerTicket`), with no assumption: `excused` keeps apart the
  tickets whose own lock was broken, and each part of the invariant is said of the
  others. *LiveWorkerHoldsLock* (a live process has its ticket InProgressLocal) and
  *Exclusive* (no two processes of a ticket, living or in a pool) alone are not
  kept: the daemon reads a list and launches from it later. *QueueFree* says that
  what it takes from the list is still free, *AtSpawn* that the lock just taken
  holds, *WaitingFree* that promotion, which writes states it has not read, leaves
  owned tickets alone. Lemma `Undisturbed`: all of it is kept by a step whose new
  processes are of excused tickets, if it writes no state of a ticket that is owned
  or waits.
* **Finalize.** `FinalizeTypeCorrect` with *AttemptsOK*: while a thread finalizes,
  its attempts are within the budget. `PullRequestsAreCurrent` by *LockOK* (a
  thread in the pull-request section holds the lock of its base) and *OntoOK*
  (between rebase and create the branch is on the head of its base), which
  survives another thread's merge because by *LockOK* that thread has another
  base. `UncommittedWorkSurvives` by *SalvageOK*: what the status of
  `commit_wip_state` guarantees when `cleanup_worktree` is about to run.
  `ResultRefinement`: `Spec => ImplementsResult`. The mapping hides the ticket's
  state until its call has ended; *ResultOK* says where an attempt may have left it
  meanwhile, and lemma `RaisedAllowsAll` that an exception may come after any of
  it. `SuccessClearsDiagnosis` by *ClearedOK*, which follows the two
  `last_failure.json` files from the checks to the cleanup.
* **Worktree.** `NoOtherLoss` by *BranchOK* (what a plain push may replace is on the
  local branch too; a detached commit exists only in an open rebase) and *SalvageOK*
  (at the cleanup every edit in the directory is on the branch or in the backup,
  unless a process nobody waits for was there). `ResultsAreOwn` by *ResultOK* (while a
  worktree is in use, a stale result in it or in the main repository comes from a
  commit or from a process that outlived its dispatch) and *HauntOK* (such a process
  lived when the worktree was made). `PlanComesBack` by *MovedOK* (whoever is to put
  the plan back has not reached the wrap-up) and *AliveOK*.
* **Promotion.** `NobodyIsPromotedEarly` by *ClosedOK*: a blocker that was read as
  completed was completed, though it may have been moved since.
  `DecisionsReachLinear`, under `MaxLost < Attempts`, by *ScanOK*: the manifest the
  scan is at is the only one that may be decided and not yet written to Linear.
  `ExitIsComplete` by *ListedOK*: from the listing to the exit nothing comes to wait,
  and nothing becomes ready but what people move.
* **Supervision** (`GesturesAreOwn`). *SweptOK*: a sentinel nobody has requested
  of this daemon is one the sweep has still to look at, or could not remove; *SweepOK*: before its end
  no flag is set; *FlagsOK*: a flag was requested.
* **Stores.** `OpenStoresAreWhole` by *SeenOK*: a process past CREATE TABLE knows no
  column that its table lacks, whoever migrates beside it, unless an ALTER of its met
  the lock. `FetchedCountsStay` by *RowsOK*: a row is of a run that was begun, so a
  new one has a larger number, and a count that is pending has a row to go to.
  `LaterUpdatesAreFresh` by *LockOK*: the script holds the lock from its first
  update to its commit, and the rows it reads under the lock stay what it read until
  it has treated them, though it treats them one by one. `FinishedImportIsWhole` by *ImportOK*: after the
  first of its two transactions the metrics are all there, also in a run that
  follows one killed between them, and no identifier of the log is taken.
* **Bench.** `ServersHoldOneModel` by *LoadedOK*: what is in the memory of an Ollama
  server is what was measured last or what the runner has lost from view.
  `RankingIsVouchedFor` by *GateOK*: the gate in memory opens only for what a row
  vouches for, and a row of parallel requests that went through it is vouched for as
  well. The first half is said of a run that has not died, for a second row of a case
  is refused after its outcome was learned. Both hold of every matrix. Under
  `DistinctCases`: `RowsAreWrittenOnce` by *OnceOK*, and `ResumingChangesNothing` by *AsBefore*: the rows are of a first
  part of the cases (*PrefixOK*), what the scheduling has learned is what the rows
  before the case at hand say (*LearnedOK*), and each row is what the rows before
  it entail (*Faithful*). Lemma `LearnRow` is the heart of it: a row teaches the
  same whether it is measured or read again.
* **Generator.** `SuccessDelivers` by *RenderOK* (what is off `todo` is whole),
  *SetupOK* and *PushOK* (what is staged and committed is what is on disk, and
  `origin` is this run's target, whatever an earlier run had set). `FailureRollsBack`
  and `RemoteIsSafe` by *OwnOK*: `mine` holds exactly when the repository on GitHub
  is this run's. `FailureRollsBack` speaks of a run that ends with an error it has
  caught, `RemoteIsSafe` of creation, deletion and pushes.

* **Telemetry.** `OnePassAgrees` says it of every log. What a parser returns is
  proved by induction over the lines, and over the blocks of a line, with
  `SetInduction`: a theorem on sets of numbers, since a theorem on properties takes
  an operator and cannot be cited. `FoldExists` unrolls a fold into its run, a
  function from positions to what has been accumulated; each parser has a lemma
  that says its run step by step, `CountNext` and `PlacesNext` do the same for a
  number of positions, and `OnePass` and `ParsersAgree` compare them.
  `RowsAreOfLastAttempt` by *ReadingsOK*: what a reading returned is what a parser
  finds now, unless the log has gone on, been truncated or is still being written.
  It rests on `TornIsSkipped`: the unfinished last line adds nothing to any fold,
  so the log that finalize reads beside the writer has the lines that are whole.
  `BackfillsFindTheRow` by *RowOK*, which says of every field of the row which
  reading it is of, *WholeOK* (a log that was archived has no torn line left) and
  `UsageIsPaired`: input and output tokens are both counted or both absent. The
  assumption, `TelemetryAssumption`, is the sorts of the fields of a line.

Only model-checked is liveness, which is out of the prover's reach: `DrainTerminates`,
`SlotsAreFreed`, `EveryTicketDelivered`, `EveryThreadEnds`, `WaitersAreDecided`,
`SilentWorkersEnd`, `StopsAreAnswered`, `RetriesEnd`.

## 5. Not modelled

* The terminal display, heartbeat and ticket status: no decision reads them.
* Detached launch: it builds a command line and starts a process. What that
  process does with the pid file is in `Supervision`.
* Preferences and the command line, the wizard's prompts, preset tables: checks
  and merges of data with no state that lasts, next to one small file that each
  command loads, changes and saves.
* Within modelled components: parsing and validation of manifests, the tables of
  the escalation policy, the text of comments and pull requests, the queries that
  only summarise the stores, the workload sessions and GPU sampling of the
  benchmark, the start of the vLLM service (only its health probe is a choice).
* A listing or a query is one step: a page that is lost in the middle of one is
  not modelled, nor is the shape of GraphQL queries.

What would extend the project most: a composition of `Promotion` with `Watcher`
by refinement, in place of the argument in section 2; and `Stores` against an
abstract table in which every write is atomic.
