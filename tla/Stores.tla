------------------------------- MODULE Stores -------------------------------
(***************************************************************************)
(* app.db, the SQLite file that the daemon, the status view, the benchmark  *)
(* and the maintenance scripts share (metrics_store.py, bench_store.py): it *)
(* is migrated in place by whoever opens it, the daemon records finished    *)
(* runs and backfills SonarCloud counts, backfill_waste_score.py fills      *)
(* blanks and migrate_split_db_to_unified.py imports the files before it.   *)
(* A statement is a step; what a row says is the number of the run it is of.*)
(***************************************************************************)
EXTENDS Naturals, FiniteSets

CONSTANTS
    Ticket,            \* a ticket of a project: the key of a row
    NameOf,            \* NameOf[t]: the ticket's name without the project, and of its log
    Ours,              \* the tickets of the daemon's own project
    MetricsOpener,     \* processes that open a MetricsStore, Watcher among them
    BenchOpener,       \* processes that open a BenchStore
    Watcher,
    Crowds,            \* bound: who uses the file, next to the daemon's store
    Budget,            \* fetches of the SonarCloud count per run
    LegacyLog,         \* the ids of the log rows in metrics.db
    MaxRuns,           \* bound: runs recorded
    MaxLog             \* bound: ids given to log rows

Opener == MetricsOpener \cup BenchOpener

ASSUME StoresAssumption ==
    /\ Ours \subseteq Ticket /\ DOMAIN NameOf = Ticket
    /\ Watcher \in MetricsOpener
    /\ Crowds \subseteq SUBSET (Opener \cup {"runs", "backfill", "import"})
    /\ {Budget, MaxRuns, MaxLog} \subseteq Nat /\ LegacyLog \subseteq 1 .. MaxLog

Null == MaxRuns + 1
NoRow == [run |-> Null, sonar |-> Null, tags |-> Null, waste |-> Null]

\* A row as it was recorded before the columns there are now.
OldRow == [NoRow EXCEPT !.run = 0]

VARIABLES
    crowd,             \* who does, of Crowds
    legacyFiles,       \* metrics.db and bench.db exist
    tables,            \* the tables of app.db
    columns,           \* columns[table]: those that some version added or renamed
    row,               \* ticket_metrics by ticket
    log,               \* check_run_log, or ticket_run_log: who wrote the row of each id
    benchRows,         \* the rows of bench.db are in bench_run
    lock,              \* backfill_waste_score has its transaction open
    opening,           \* where each process is with its store
    seen,              \* the columns it read
    expired,           \* ghost: an ALTER of its ran into the lock
    phase,             \* of the poll: "reap" or "retry"
    reaped,            \* the tickets this poll has finalized
    writing,           \* where finalize_worker is with t
    runs,              \* runs recorded or attempted, which numbers them
    fetch,             \* what became of the first fetch: "done", "failed", "none"
    pending,           \* _pending_sonar_workers: attempts made (0 if not in it), and the run
    retrying,          \* those that this poll has still to retry
    script,            \* backfill_waste_score: "idle", "select", "update"
    todo,              \* its logs to come
    selected, read,    \* the rows of the present one that have no score; what it read there
    wrote,             \* ghost: it has updated a row
    late,              \* ghost: it had when it read those
    split,             \* where migrate_split_db_to_unified is
    disturbed          \* ghost: a store was opened before that ended

db == <<tables, columns, row, log, benchRows>>
openers == <<opening, seen, expired, disturbed>>
daemon == <<phase, reaped, writing, runs, fetch, pending, retrying>>
backfill == <<lock, script, todo, selected, read, wrote, late>>
importer == <<legacyFiles, split, crowd>>
vars == <<db, openers, daemon, backfill, importer>>

NothingRead == [t \in Ticket |-> NoRow]
NotPending == [attempts |-> 0, run |-> Null]
Added(table) == IF table = "metrics" THEN {"renamed", "added"} ELSE {"added"}

Init ==
    /\ crowd \in Crowds
    /\ legacyFiles \in BOOLEAN
    /\ \/ /\ tables = {} /\ columns = [table \in {"metrics", "bench"} |-> {}]
          /\ row = [t \in Ticket |-> NoRow]
       \/ /\ ~ legacyFiles
          /\ tables = {"metrics", "log", "bench"}
          /\ columns \in {[metrics |-> c, bench |-> {}] : c \in {{}, {"legacy"}}}
          /\ row \in [Ticket -> {NoRow, OldRow}]
    /\ log = [i \in 1 .. MaxLog |-> "free"]
    /\ benchRows = FALSE
    /\ lock = FALSE /\ script = "idle" /\ todo = {} /\ wrote = FALSE /\ late = FALSE
    /\ selected = {} /\ read = NothingRead
    /\ opening = [p \in Opener |-> "closed"]
    /\ seen = [p \in Opener |-> {}] /\ expired = {} /\ disturbed = FALSE
    /\ phase = "reap" /\ reaped = {} /\ retrying = {}
    /\ writing = [t \in Ticket |-> "no"]
    /\ runs = 0
    /\ fetch = [t \in Ticket |-> "none"]
    /\ pending = [t \in Ticket |-> NotPending]
    /\ split = "idle"

SetTo(f, x, v) == [f EXCEPT ![x] = v]
-----------------------------------------------------------------------------
(* _ensure_schema and _migrate *)

TableOf(p) == IF p \in MetricsOpener THEN "metrics" ELSE "bench"

\* A process whose statement raises does not get its store.
OpenFails(p) ==
    /\ opening' = SetTo(opening, p, "failed")
    /\ UNCHANGED <<db, seen, expired>>

\* What CREATE TABLE gives a new table: bench_run is complete from the start.
Fresh(table) == IF table = "metrics" THEN {"renamed"} ELSE Added(table)

\* CREATE TABLE IF NOT EXISTS
Create(p) ==
    LET table == TableOf(p)
        own == IF p \in MetricsOpener THEN {"metrics", "log"} ELSE {"bench"} IN
    /\ opening[p] = "closed" /\ p \in crowd \cup {Watcher}
    /\ disturbed' = (disturbed \/ split # "done")
    /\ \/ /\ ~ lock
          /\ tables' = tables \cup own
          /\ columns' = IF table \in tables THEN columns
                        ELSE SetTo(columns, table, Fresh(table))
          /\ opening' = SetTo(opening, p, "read")
          /\ UNCHANGED <<row, log, benchRows, seen, expired>>
       \/ lock /\ OpenFails(p)
    /\ UNCHANGED <<daemon, backfill, importer>>

\* PRAGMA table_info; bench_run has nothing to rename.
ReadColumns(p) ==
    LET found == columns[TableOf(p)] IN
    /\ opening[p] = "read"
    /\ seen' = SetTo(seen, p, found)
    /\ opening' = SetTo(opening, p,
            IF "legacy" \in found /\ "renamed" \notin found THEN "rename" ELSE "alter")
    /\ UNCHANGED <<db, expired, disturbed, daemon, backfill, importer>>

\* Not guarded: it fails when another process renamed the column first.
Rename(p) ==
    /\ opening[p] = "rename"
    /\ \/ /\ ~ lock /\ "legacy" \in columns.metrics
          /\ columns' = SetTo(columns, "metrics",
                              (columns.metrics \ {"legacy"}) \cup {"renamed"})
          /\ seen' = SetTo(seen, p, columns'.metrics)
          /\ opening' = SetTo(opening, p, "alter")
          /\ UNCHANGED <<tables, row, log, benchRows, expired>>
       \/ (lock \/ "legacy" \notin columns.metrics) /\ OpenFails(p)
    /\ UNCHANGED <<disturbed, daemon, backfill, importer>>

Missing(p) == Added(TableOf(p)) \ seen[p]

GivesUpRest(p, c) == Missing(p)

\* What is skipped with a column whose ALTER raises: the try is inside the loop.
Skipped(p, c) == {c}

AddColumn(p, c) ==
    /\ opening[p] = "alter" /\ c \in Missing(p)
    /\ \/ /\ ~ lock /\ c \notin columns[TableOf(p)]
          /\ columns' = SetTo(columns, TableOf(p), columns[TableOf(p)] \cup {c})
          /\ seen' = SetTo(seen, p, seen[p] \cup {c})
          /\ UNCHANGED <<tables, row, log, benchRows, opening, expired>>
       \/ /\ lock \/ c \in columns[TableOf(p)]
          /\ p \in MetricsOpener
          /\ seen' = SetTo(seen, p, seen[p] \cup Skipped(p, c))
          /\ expired' = IF lock THEN expired \cup {p} ELSE expired
          /\ UNCHANGED <<db, opening>>
       \/ /\ lock \/ c \in columns[TableOf(p)]
          /\ p \in BenchOpener
          /\ OpenFails(p)
    /\ UNCHANGED <<disturbed, daemon, backfill, importer>>

Opened(p) ==
    /\ opening[p] = "alter" /\ Missing(p) = {}
    /\ opening' = SetTo(opening, p, "open")
    /\ UNCHANGED <<db, seen, expired, disturbed, daemon, backfill, importer>>

\* The process is started again.
Reopen(p) ==
    /\ opening[p] = "failed" /\ ~ lock
    /\ opening' = SetTo(opening, p, "closed")
    /\ expired' = expired \ {p}
    /\ UNCHANGED <<db, seen, disturbed, daemon, backfill, importer>>
-----------------------------------------------------------------------------
(* finalize_worker of the daemon, one worker per ticket at a time *)

Up == opening[Watcher] = "open"

\* A write raises when the transaction of the script outlasts its timeout, or the
\* table lacks a column; the worker is freed and nothing else is recorded.
Raises == lock \/ ~ (Added("metrics") \subseteq columns.metrics)

Abort(t) ==
    /\ writing' = SetTo(writing, t, "no")
    /\ UNCHANGED <<db, pending>>

\* metrics.record, INSERT OR REPLACE, with the count if SonarCloud was asked and answered.
Record(t) ==
    /\ "runs" \in crowd
    /\ Up /\ phase = "reap" /\ t \in Ours \ reaped /\ runs < MaxRuns
    /\ reaped' = reaped \cup {t}
    /\ runs' = runs + 1
    /\ \E f \in {"done", "failed", "none"} :
        /\ fetch' = SetTo(fetch, t, f)
        /\ \/ /\ ~ Raises
              /\ row' = SetTo(row, t,
                    [run |-> runs', waste |-> runs', tags |-> Null,
                     sonar |-> IF f = "done" THEN runs' ELSE Null])
              /\ writing' = SetTo(writing, t, "log")
              /\ UNCHANGED <<tables, columns, log, benchRows, pending>>
           \/ Raises /\ Abort(t)
    /\ UNCHANGED <<phase, retrying, openers, backfill, importer>>

NextId == CHOOSE i \in 1 .. MaxLog + 1 :
            /\ \A j \in 1 .. MaxLog : j >= i => log[j] = "free"
            /\ i = 1 \/ log[i - 1] # "free"

\* metrics.record_run, AUTOINCREMENT; beyond MaxLog the row is not followed.
RecordRun(t) ==
    /\ writing[t] = "log"
    /\ \/ /\ ~ lock
          /\ log' = IF NextId > MaxLog THEN log ELSE SetTo(log, NextId, "app")
          /\ writing' = SetTo(writing, t, "tags")
          /\ UNCHANGED <<tables, columns, row, benchRows, pending>>
       \/ lock /\ Abort(t)
    /\ UNCHANGED <<phase, reaped, runs, fetch, retrying, openers, backfill, importer>>

\* _apply_auto_tags, which writes only if there are tags; then the end of
\* _finalize_one_worker, which remembers a fetch that failed.
Tag(t) ==
    /\ writing[t] = "tags"
    /\ \/ /\ \/ UNCHANGED row
             \/ ~ lock /\ row' = [row EXCEPT ![t].tags = row[t].run]
          /\ writing' = SetTo(writing, t, "no")
          /\ pending' = IF fetch[t] = "failed"
                        THEN SetTo(pending, t, [attempts |-> 1, run |-> row[t].run])
                        ELSE pending
          /\ fetch' = SetTo(fetch, t, "none")
          /\ UNCHANGED <<tables, columns, log, benchRows>>
       \/ lock /\ Abort(t) /\ UNCHANGED fetch
    /\ UNCHANGED <<phase, reaped, runs, retrying, openers, backfill, importer>>

\* All finalizes joined, the poll goes on to _retry_pending_sonar.
Joined ==
    /\ Up /\ phase = "reap" /\ \A t \in Ticket : writing[t] = "no"
    /\ phase' = "retry"
    /\ retrying' = {t \in Ticket : pending[t] # NotPending}
    /\ UNCHANGED <<reaped, writing, runs, fetch, pending, db, openers, backfill, importer>>

CountAnyway(t) == TRUE

\* update_sonar_count: WHERE sonar_findings_count IS NULL
CountIfNull(t) == row[t].sonar = Null

AttemptsKept(t) == pending

AttemptMade(t) == [pending EXCEPT ![t].attempts = @ + 1]

\* The daemon ends: nothing around the retry catches what the update raises.
DaemonEnds ==
    /\ opening' = SetTo(opening, Watcher, "failed")
    /\ phase' = "reap" /\ retrying' = {} /\ reaped' = {}
    /\ pending' = [t \in Ticket |-> NotPending]

RetrySonar(t) ==
    /\ Up /\ phase = "retry" /\ t \in retrying
    /\ \/ /\ pending[t].attempts >= Budget
          /\ pending' = SetTo(pending, t, NotPending)
          /\ retrying' = retrying \ {t}
          /\ UNCHANGED <<row, phase, reaped, opening>>
       \/ /\ pending[t].attempts < Budget
          /\ pending' = AttemptMade(t)
          /\ retrying' = retrying \ {t}
          /\ UNCHANGED <<row, phase, reaped, opening>>
       \/ /\ pending[t].attempts < Budget /\ ~ lock
          /\ row' = IF CountIfNull(t) THEN [row EXCEPT ![t].sonar = pending[t].run] ELSE row
          /\ pending' = SetTo(pending, t, NotPending)
          /\ retrying' = retrying \ {t}
          /\ UNCHANGED <<phase, reaped, opening>>
       \/ /\ pending[t].attempts < Budget /\ lock
          /\ DaemonEnds
          /\ UNCHANGED row
    /\ UNCHANGED <<tables, columns, log, benchRows, seen, expired, disturbed,
                   writing, runs, fetch, backfill, importer>>

NextPoll ==
    /\ Up /\ phase = "retry" /\ retrying = {}
    /\ phase' = "reap" /\ reaped' = {}
    /\ UNCHANGED <<writing, runs, fetch, pending, retrying, db, openers, backfill, importer>>
-----------------------------------------------------------------------------
(* backfill_waste_score --apply: the first UPDATE opens a transaction that lasts *)
(* until the commit at the end                                                   *)

\* Over the logs by name; a name that has none is like one whose log scores 0.
StartBackfill ==
    /\ "backfill" \in crowd
    /\ script = "idle" /\ "metrics" \in tables /\ "added" \in columns.metrics
    /\ script' = "select" /\ todo' = {NameOf[t] : t \in Ticket}
    /\ UNCHANGED <<lock, selected, read, wrote, late, db, openers, daemon, importer>>

\* All rows of the name at once, whatever their project; those with a score are skipped.
Select(name) ==
    /\ script = "select" /\ name \in todo
    /\ selected' = {t \in Ticket : /\ NameOf[t] = name
                                   /\ row[t] # NoRow /\ row[t].waste = Null}
    /\ read' = [t \in Ticket |-> IF t \in selected' THEN row[t] ELSE NoRow]
    /\ late' = wrote
    /\ todo' = todo \ {name}
    /\ script' = IF selected' = {} THEN "select" ELSE "update"
    /\ UNCHANGED <<lock, wrote, db, openers, daemon, importer>>

Treated(t) ==
    /\ script = "update" /\ t \in selected
    /\ selected' = selected \ {t}
    /\ script' = IF selected' = {} THEN "select" ELSE "update"

\* The log, read now, scores 0.
ScoresZero(t) ==
    /\ Treated(t)
    /\ UNCHANGED <<lock, todo, read, wrote, late, db, openers, daemon, importer>>

CommittedEach == FALSE

\* After an UPDATE the transaction stays open.
LockAfterUpdate == TRUE

\* The UPDATE names the ticket and its project, whatever the row holds by now.
Update(t) ==
    /\ Treated(t)
    /\ row' = [row EXCEPT ![t].waste = read[t].run]
    /\ lock' = LockAfterUpdate /\ wrote' = TRUE
    /\ UNCHANGED <<todo, read, late, tables, columns, log, benchRows, openers, daemon, importer>>

CommitBackfill ==
    /\ script = "select" /\ todo = {}
    /\ script' = "idle" /\ lock' = FALSE
    /\ read' = NothingRead /\ wrote' = FALSE /\ late' = FALSE
    /\ UNCHANGED <<todo, selected, db, openers, daemon, importer>>
-----------------------------------------------------------------------------
(* migrate_split_db_to_unified: check, the metrics tables, bench_run *)

\* "Nothing to do" if all the tables are there, whoever made them.
CheckSplit ==
    /\ "import" \in crowd
    /\ split = "idle" /\ legacyFiles
    /\ split' = IF {"metrics", "log", "bench"} \subseteq tables THEN "nothing" ELSE "metrics"
    /\ UNCHANGED <<legacyFiles, crowd, db, openers, daemon, backfill>>

\* The key of every imported log row: as it was, or left out if it is taken.
ImportedFresh == {i \in 1 .. MaxLog : i >= NextId /\ i < NextId + Cardinality(LegacyLog)}
Imported == {i \in LegacyLog : log[i] = "free"}

\* INSERT OR IGNORE
IgnoringRows(t) == IF row[t] = NoRow THEN OldRow ELSE row[t]

\* One transaction; a table that is missing is created as it was in metrics.db.
ImportMetrics ==
    /\ split = "metrics" /\ ~ lock
    /\ split' = "bench"
    /\ tables' = tables \cup {"metrics", "log"}
    /\ columns' = IF "metrics" \in tables THEN columns
                  ELSE SetTo(columns, "metrics", {"legacy"})
    /\ row' = [t \in Ticket |-> IgnoringRows(t)]
    /\ log' = [i \in 1 .. MaxLog |-> IF i \in Imported THEN "legacy" ELSE log[i]]
    /\ UNCHANGED <<benchRows, legacyFiles, crowd, openers, daemon, backfill>>

\* The DDL of bench_run is executed as it is: the script dies if the table exists.
ImportBench ==
    /\ split = "bench" /\ ~ lock
    /\ IF "bench" \in tables
       THEN split' = "idle" /\ UNCHANGED <<tables, columns, benchRows>>
       ELSE /\ split' = "done" /\ benchRows' = TRUE
            /\ tables' = tables \cup {"bench"}
            /\ UNCHANGED columns
    /\ UNCHANGED <<row, log, legacyFiles, crowd, openers, daemon, backfill>>

\* Killed, or out of patience with the lock; its transaction is rolled back.
SplitDies ==
    /\ split \in {"metrics", "bench"}
    /\ split' = "idle"
    /\ UNCHANGED <<legacyFiles, crowd, db, openers, daemon, backfill>>
-----------------------------------------------------------------------------
Open(p) ==
    \/ Create(p) \/ ReadColumns(p) \/ Rename(p) \/ Opened(p) \/ Reopen(p)
    \/ \E c \in {"renamed", "added"} : AddColumn(p, c)

Daemon ==
    \/ Joined \/ NextPoll
    \/ \E t \in Ticket : RecordRun(t) \/ Tag(t) \/ RetrySonar(t)

Backfill ==
    \/ CommitBackfill \/ \E name \in todo : Select(name)
    \/ \E t \in Ticket : ScoresZero(t) \/ Update(t)

Import == CheckSplit \/ ImportMetrics \/ ImportBench \/ SplitDies

Next ==
    \/ \E p \in Opener : Open(p)
    \/ Daemon
    \/ \E t \in Ticket : Record(t)
    \/ StartBackfill \/ Backfill
    \/ Import

Spec == Init /\ [][Next]_vars

\* The poll loop runs while its store is open.
FairSpec == Spec /\ WF_vars(Daemon)
-----------------------------------------------------------------------------
(* What the stores promise *)

\* A process that has its store finds every column it writes, whoever migrated the
\* file at the same time, unless an ALTER of its ran into a lock (_migrate).
OpenMeansWhole ==
    \A p \in Opener \ expired :
        opening[p] = "open" => Added(TableOf(p)) \subseteq columns[TableOf(p)]

\* A count that was fetched is never replaced by one fetched for an earlier run whose
\* retry came late (update_sonar_count).
FetchedCountStays ==
    [][\A t \in Ticket :
        row[t] # NoRow /\ row[t].sonar # Null /\ row'[t].run = row[t].run
            => row'[t].sonar = row[t].sonar]_vars

\* A deferred count is fetched or given up after Budget attempts (_retry_pending_sonar).
RetriesEnd == \A t \in Ours : (pending[t] # NotPending) ~> (pending[t] = NotPending)

\* Only rows of the first ticket a backfill updates can have been replaced since they
\* were read (all at once): what it reads afterwards, it reads under its own
\* transaction, which keeps the daemon out.
OnlyFirstTicketIsStale ==
    [][\A t \in Ticket : Update(t) /\ late => row[t] = read[t]]_vars

\* An import that reports its end has copied everything, and once, though it was
\* killed and run again, if nothing opened a store before.
ImportIsWhole ==
    split = "done" /\ ~ disturbed =>
        /\ benchRows /\ \A t \in Ticket : row[t] # NoRow
        /\ {i \in 1 .. MaxLog : log[i] = "legacy"} = LegacyLog
=============================================================================
