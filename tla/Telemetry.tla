----------------------------- MODULE Telemetry ------------------------------
(***************************************************************************)
(* The log of one dispatched worker from its first line to the metrics row  *)
(* and to the scripts that fill that row in later: the worker writes it,    *)
(* directly or through the tee thread of verbose mode, while finalize_worker *)
(* reads it twice, for the telemetry and for the waste score, relaunches    *)
(* the worker onto it, and copies it to the artifacts.                      *)
(***************************************************************************)
EXTENDS WorkerLog

CONSTANTS
    Line,              \* the lines a worker writes
    Way,               \* how a run may go next to its log: flags, result.json, PRs
    MaxLines,          \* bound: lines of an attempt
    MaxAttempts,       \* 1 + the retries of a dispatch
    HighWaste,         \* a waste score above it is tagged
    Unstable           \* so many API retries are tagged

Torn == [kind |-> "torn"]
Cut == [kind |-> "cut"]
Part == {Torn, Cut}

\* A content is null or a list; a usage has integers where it has anything.
ASSUME TelemetryAssumption ==
    /\ None \notin Int
    /\ \A l \in Line :
         /\ l.kind \notin {"torn", "cut"}
         /\ l.kind = "assistant" =>
               /\ l.content = None \/ l.content \in Seq(Range(l.content))
               /\ {l.in, l.out} \subseteq Int \cup {None}
    /\ {MaxLines, MaxAttempts, HighWaste, Unstable} \subseteq Nat

VARIABLES
    eff,               \* the effective mode
    verbose,           \* the running attempt writes through the tee thread
    out,               \* what is written to the log, its last line maybe a part
    earlier,           \* how many of these lines are of earlier attempts
    teed,              \* how many of these lines the tee thread has passed on
    running,           \* the worker process
    attempt,
    pc,                \* where finalize_worker is
    outcome,
    tele,              \* telemetry, when it has been read
    row,               \* the row of ticket_metrics
    archive            \* the copy of the log in the artifacts

vars == <<eff, verbose, out, earlier, teed, running, attempt, pc, outcome, tele, row, archive>>

Log == IF verbose THEN SubSeq(out, 1, teed) ELSE out

Init ==
    /\ eff \in {"local", "cloud"} /\ verbose \in BOOLEAN
    /\ out = <<>> /\ earlier = 0 /\ teed = 0 /\ running = TRUE /\ attempt = 1
    /\ pc = "work" /\ outcome = None /\ tele = None /\ row = None /\ archive = None
-----------------------------------------------------------------------------
(* The worker and its log file.                                             *)

EndsInPart == out # <<>> /\ Last(out) \in Part
WholeLines == IF EndsInPart THEN Front(out) ELSE out

Write(l) ==
    /\ running /\ Len(WholeLines) < MaxLines
    /\ out' = Append(WholeLines, l)
    /\ UNCHANGED <<eff, verbose, earlier, teed, running, attempt, pc, outcome, tele, row, archive>>

\* The first bytes of a line are in the file and the rest is not.
WritePart(p) ==
    /\ running /\ ~EndsInPart /\ Len(out) < MaxLines
    /\ out' = Append(out, p)
    /\ UNCHANGED <<eff, verbose, earlier, teed, running, attempt, pc, outcome, tele, row, archive>>

\* The worker exits or is killed.
Stop ==
    /\ running
    /\ running' = FALSE
    /\ UNCHANGED <<eff, verbose, out, earlier, teed, attempt, pc, outcome, tele, row, archive>>

\* The thread hands on whole lines, and what is left when the pipe ends.
Tee ==
    /\ verbose
    /\ teed < Len(IF running THEN WholeLines ELSE out)
    /\ teed' = teed + 1
    /\ UNCHANGED <<eff, verbose, out, earlier, running, attempt, pc, outcome, tele, row, archive>>
-----------------------------------------------------------------------------
(* finalize_worker.                                                         *)

\* The poll sees that the process is gone; it does not wait for the thread.
Reap ==
    /\ pc = "work" /\ ~running
    /\ pc' = "attempt"
    /\ UNCHANGED <<eff, verbose, out, earlier, teed, running, attempt, outcome, tele, row, archive>>

\* Opened with "ab".
Appended == out

\* open(log_path, "wb").
Truncated == <<>>

\* A check failed: the worker is launched again, onto an emptied log, without
\* the tee thread, and nobody waits for it.  The checks have run in between,
\* so the earlier thread has long ended.
Relaunch ==
    /\ pc = "attempt" /\ attempt < MaxAttempts
    /\ verbose => teed = Len(out)
    /\ out' = Truncated /\ earlier' = Len(Truncated) /\ teed' = 0 /\ verbose' = FALSE
    /\ running' = TRUE /\ attempt' = attempt + 1
    /\ UNCHANGED <<eff, pc, outcome, tele, row, archive>>

\* The last attempt's outcome; the log of an escalated one is copied first.
EndAttempt(o) ==
    /\ pc = "attempt"
    /\ outcome' = o
    /\ archive' = IF o = "escalated" THEN Log ELSE archive
    /\ pc' = "telemetry"
    /\ UNCHANGED <<eff, verbose, out, earlier, teed, running, attempt, tele, row>>

ReadTelemetry ==
    /\ pc = "telemetry"
    /\ tele' = ParseWorkerTelemetry(Log)
    /\ pc' = "waste"
    /\ UNCHANGED <<eff, verbose, out, earlier, teed, running, attempt, outcome, row, archive>>

\* Input and output mixed up.
CostSwapped(in, o) ==
    LET both == in # None /\ o # None
        local == eff = "local"
    IN [cloudTokens |-> IF eff = "cloud" /\ both THEN in + o ELSE None,
        localIn |-> IF local THEN o ELSE None,
        localOut |-> IF local THEN in ELSE None,
        localTokens |-> IF local /\ both THEN in + o ELSE None,
        rate |-> IF local THEN in ELSE None]

\* The wall time is left out: a rate is written as the tokens it divides.
BuildCostMetrics(in, o) ==
    LET both == in # None /\ o # None
        local == eff = "local"
    IN [cloudTokens |-> IF eff = "cloud" /\ both THEN in + o ELSE None,
        localIn |-> IF local THEN in ELSE None,
        localOut |-> IF local THEN o ELSE None,
        localTokens |-> IF local /\ both THEN in + o ELSE None,
        rate |-> IF local THEN o ELSE None]

\* attempt_count has been counted up after each attempt.
RetryCount == attempt - 1

NewRow(waste) ==
    LET u == tele.usage
        cost == BuildCostMetrics(u[1], u[2])
    IN [waste |-> waste, outcome |-> outcome, retryCount |-> RetryCount,
        cloudTokens |-> cost.cloudTokens, localIn |-> cost.localIn,
        localOut |-> cost.localOut, localTokens |-> cost.localTokens, rate |-> cost.rate,
        compactions |-> u[3], retries |-> tele.retries, behavior |-> tele.behavior,
        tags |-> {}]

\* worker_waste.py decodes the file outside of any try for it: what
\* _parse_worker_telemetry answers with NULLs ends finalize_worker here.
WasteRaises(log) == ~Decodable(log)

ReadWaste ==
    /\ pc = "waste"
    /\ IF WasteRaises(Log) THEN pc' = "raised" /\ UNCHANGED row
       ELSE pc' = "recorded" /\ row' = NewRow(ComputeWasteScore(Log))
    /\ UNCHANGED <<eff, verbose, out, earlier, teed, running, attempt, outcome, tele, archive>>

\* The tags are of the row as it is read back, and the log is copied unless it
\* was before.
TagAndPreserve(w) ==
    /\ pc = "recorded"
    /\ row' = [row EXCEPT !.tags = AnomalyTags(row, w)
                                       \cup CategoryTags(row, w, HighWaste, Unstable)]
    /\ archive' = IF archive = None THEN Log ELSE archive
    /\ pc' = "ended"
    /\ UNCHANGED <<eff, verbose, out, earlier, teed, running, attempt, outcome, tele>>
-----------------------------------------------------------------------------
(* The scripts that run over the copied logs afterwards.                    *)

ColumnsNonNull == \E c \in DOMAIN row.behavior : row.behavior[c] # None

SkipsBehavior(force) == ~force /\ ColumnsNonNull

BackfillBehavior(force) ==
    LET b == ParseWorkerBehavior(archive)
    IN /\ pc = "ended" /\ ~SkipsBehavior(force)
       /\ b.turns # None
       /\ row' = [row EXCEPT !.behavior = b]
       /\ UNCHANGED <<eff, verbose, out, earlier, teed, running, attempt, pc, outcome, tele, archive>>

SkipsOutput(force) == ~force /\ row.localOut # None /\ row.localOut > 0

\* What is added to the output: the input the row has, the log's when that is
\* none or nothing.
InputValue(in) ==
    IF row.localIn \notin {None, 0} THEN row.localIn ELSE IF in = None THEN 0 ELSE in

\* Every row of the ticket, of whatever mode.
BackfillOutput(force) ==
    LET u == ParseWorkerUsage(archive)
    IN /\ pc = "ended" /\ ~SkipsOutput(force)
       /\ u[2] # None /\ u[2] > 0
       /\ row' = [row EXCEPT !.localOut = u[2], !.localTokens = InputValue(u[1]) + u[2],
                             !.rate = u[2]]
       /\ UNCHANGED <<eff, verbose, out, earlier, teed, running, attempt, pc, outcome, tele, archive>>

Next ==
    \/ \E l \in Line : Write(l)
    \/ \E p \in Part : WritePart(p)
    \/ Stop \/ Tee \/ Reap \/ Relaunch
    \/ \E o \in {"success", "failure", "escalated"} : EndAttempt(o)
    \/ ReadTelemetry \/ ReadWaste
    \/ \E w \in Way : TagAndPreserve(w)
    \/ \E force \in BOOLEAN : BackfillBehavior(force) \/ BackfillOutput(force)

Spec == Init /\ [][Next]_vars
-----------------------------------------------------------------------------
(* Properties.                                                              *)

\* The one pass of _parse_worker_telemetry finds in every log, also one cut off
\* in the middle of a line, what the parsers it replaced find there, wherever
\* those find anything at all ("matches the per-parser return types exactly",
\* watcher_log_parsing.py:674).
SinglePassAgrees ==
    LET t == ParseWorkerTelemetry(Log)
    IN /\ ParseWorkerUsage(Log) \in {t.usage, <<None, None, None, None>>}
       /\ ParseSubagentSpawns(Log) \in {t.spawns, None}
       /\ ParseApiRetries(Log) \in {t.retries, None}
       /\ ParseHookTrustViolations(Log) \in {t.violations, None}
       /\ ParseWorkerBehavior(Log) = t.behavior

\* Both readings behind a row are of the attempt that is last, never of one it
\* was relaunched over, and the waste score's is not the earlier one.  A worker
\* that was not relaunched and wrote its log itself is recorded with all it
\* wrote; so a row with NULLs for its telemetry is one whose log grew between the
\* two readings: the waste score of an unreadable log raises before a row is
\* written.
ReadsLastAttempt ==
    pc = "recorded" =>
        \E p, q \in Prefixes(SubSeq(out, earlier + 1, Len(out))) :
            /\ Len(p) <= Len(q)
            /\ tele = ParseWorkerTelemetry(p) \/ tele.behavior = UnparseableBehavior
            /\ row.waste = ComputeWasteScore(q)
            /\ attempt = 1 /\ ~verbose =>
                   p = out /\ q = out /\ tele.behavior # UnparseableBehavior

\* Run over the log of a worker that was launched once and has not gone through
\* the tee thread, even a forced script finds what finalize recorded.
BackfillReproduces ==
    [][pc = "ended" /\ attempt = 1 /\ ~verbose /\ eff = "local"
          => row' = row]_row
=============================================================================
