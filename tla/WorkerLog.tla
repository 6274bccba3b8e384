----------------------------- MODULE WorkerLog ------------------------------
(***************************************************************************)
(* What is read out of a worker's stream-json log (watcher_log_parsing.py,  *)
(* worker_waste.py, metrics_tags.py).  A log is a sequence of lines; a line *)
(* is an event, JSON that is no object ("scalar"), text that is no JSON     *)
(* ("torn") or bytes that are no UTF-8 ("cut").  A dictionary of counters   *)
(* is a bag.                                                                *)
(***************************************************************************)
EXTENDS Integers, SequencesExt

CONSTANT None

HookViolationTokens == {"ruff", "mypy", "pytest", "bandit", "lint-imports"}

CheckCommands == {"ruff", "mypy", "pytest", "pre-commit", "bandit", "semgrep", "flake8",
                  "black", "isort", "pylint"}

IsEvent(l) == l.kind \in {"assistant", "system", "result", "tool_use"}
Decodable(log) == \A i \in DOMAIN log : log[i].kind # "cut"
HasScalar(log) == \E i \in DOMAIN log : log[i].kind = "scalar"

SumOver(F(_), s) == FoldLeft(LAMBDA n, x : n + F(x), 0, s)
OrEmpty(content) == IF content = None THEN <<>> ELSE content
-----------------------------------------------------------------------------
(* Tokens.                                                                  *)

CharsPerToken == 4

BlockTextChars(b) == IF b.type \in {"thinking", "text", "tool_use"} THEN b.chars ELSE 0

NoUsage == [in |-> 0, out |-> 0, has |-> FALSE, chars |-> 0, compactions |-> 0,
            duration |-> 0, lastIn |-> None, lastOut |-> None]

AssistantUsage(u, l) ==
    LET has == l.in # None /\ l.out # None
    IN [u EXCEPT !.in = @ + (IF has THEN l.in ELSE 0),
                 !.out = @ + (IF has THEN l.out ELSE 0),
                 !.has = @ \/ has,
                 !.chars = @ + SumOver(BlockTextChars, OrEmpty(l.content))]

CompactBoundary(u, l) ==
    [u EXCEPT !.compactions = @ + 1, !.duration = @ + (IF l.ms = None THEN 0 ELSE l.ms)]

ResultUsage(u, l) == [u EXCEPT !.lastIn = l.in, !.lastOut = l.out]

\* An output count of zero is estimated from the text, and the last result
\* event speaks when no assistant event had a usage.
ResolveUsageTotals(u) ==
    IF u.has
    THEN <<u.in, IF u.out = 0 /\ u.in > 0 /\ u.chars > 0 THEN u.chars \div CharsPerToken
                 ELSE u.out>>
    ELSE IF u.lastIn # None /\ u.lastOut # None THEN <<u.lastIn, u.lastOut>>
    ELSE <<None, None>>

UsageStep(u, l) ==
    CASE l.kind = "assistant" -> AssistantUsage(u, l)
      [] l.kind = "system" /\ l.subtype = "compact_boundary" -> CompactBoundary(u, l)
      [] l.kind = "result" -> ResultUsage(u, l)
      [] OTHER -> u

ParseWorkerUsage(log) ==
    LET u == FoldLeft(UsageStep, NoUsage, log)
    IN IF ~Decodable(log) \/ HasScalar(log) THEN <<None, None, None, None>>
       ELSE ResolveUsageTotals(u) \o <<u.compactions, u.duration>>
-----------------------------------------------------------------------------
(* Tool calls and turns.                                                    *)

IsToolUse(b, name) == b.type = "tool_use" /\ b.name = name

IsViolation(b) == IsToolUse(b, "Bash") /\ b.arg.token \in HookViolationTokens

\* Iterating over a content of null raises; so does asking a scalar for its type.
Uncountable(log) ==
    \/ ~Decodable(log) \/ HasScalar(log)
    \/ \E i \in DOMAIN log : log[i].kind = "assistant" /\ log[i].content = None

Turns(log) == {i \in DOMAIN log : log[i].kind = "assistant"}

Spawns(content) == {j \in DOMAIN content : IsToolUse(content[j], "Task")}

ParseSubagentSpawns(log) ==
    IF Uncountable(log) THEN None
    ELSE Cardinality(UNION {{i} \X Spawns(log[i].content) : i \in Turns(log)})

Violations(content) == {j \in DOMAIN content : IsViolation(content[j])}

ParseHookTrustViolations(log) ==
    IF Uncountable(log) THEN None
    ELSE Cardinality(UNION {{i} \X Violations(log[i].content) : i \in Turns(log)})

IsRetry(l) == l.kind = "system" /\ l.subtype = "api_retry"

ParseApiRetries(log) ==
    IF ~Decodable(log) \/ HasScalar(log) THEN None
    ELSE Cardinality({i \in DOMAIN log : IsRetry(log[i])})

NoBehavior == [turns |-> 0, calls |-> 0, breakdown |-> EmptyBag, thinking |-> 0,
               chars |-> 0, max |-> None, first |-> None, last |-> None, reads |-> EmptyBag]

UpdateInputTokens(b, in) ==
    IF in = None THEN b
    ELSE [b EXCEPT !.first = IF @ = None THEN in ELSE @,
                   !.last = in,
                   !.max = IF @ = None \/ @ < in THEN in ELSE @]

\* A path counts for the file it names, however its slashes are written.
AccumulateContentBlock(b, block) ==
    CASE block.type = "thinking" ->
            [b EXCEPT !.thinking = @ + 1, !.chars = @ + block.chars]
      [] block.type = "tool_use" ->
            [b EXCEPT !.calls = @ + 1,
                      !.breakdown = @ (+) SetToBag({block.name}),
                      !.reads = IF block.name = "Read" THEN @ (+) SetToBag({block.arg.file})
                                ELSE @]
      [] OTHER -> b

BehaviorStep(b, l) ==
    FoldLeft(AccumulateContentBlock, UpdateInputTokens([b EXCEPT !.turns = @ + 1], l.in),
             OrEmpty(l.content))

\* Lines that are no assistant event are passed over.
WalkStep(b, l) == IF l.kind = "assistant" THEN BehaviorStep(b, l) ELSE b

RedundantReads(reads) == Cardinality({f \in BagToSet(reads) : reads[f] > 2})

Summary(b) ==
    [turns |-> b.turns, calls |-> b.calls, breakdown |-> b.breakdown,
     thinking |-> b.thinking, chars |-> b.chars, max |-> b.max, first |-> b.first,
     last |-> b.last, redundant |-> RedundantReads(b.reads)]

UnparseableBehavior == [k \in DOMAIN Summary(NoBehavior) |-> None]

ParseWorkerBehavior(log) ==
    IF ~Decodable(log) THEN UnparseableBehavior
    ELSE Summary(FoldLeft(WalkStep, NoBehavior, log))
-----------------------------------------------------------------------------
(* One pass for all of it.                                                  *)

Accum == [usage |-> NoUsage, behavior |-> NoBehavior, spawns |-> 0, retries |-> 0,
          violations |-> 0]

AccumulateAssistantBlock(acc, block) ==
    [acc EXCEPT !.spawns = IF IsToolUse(block, "Task") THEN @ + 1 ELSE @,
                !.violations = IF IsViolation(block) THEN @ + 1 ELSE @]

\* A turn without content is left out altogether.
HandleTurnWithContent(acc, l) ==
    IF l.content = None THEN acc
    ELSE FoldLeft(AccumulateAssistantBlock,
                  [acc EXCEPT !.usage = AssistantUsage(@, l), !.behavior = BehaviorStep(@, l)],
                  l.content)

HandleAssistantEvent(acc, l) ==
    FoldLeft(AccumulateAssistantBlock,
             [acc EXCEPT !.usage = AssistantUsage(@, l), !.behavior = BehaviorStep(@, l)],
             OrEmpty(l.content))

HandleSystemEvent(acc, l) ==
    CASE l.subtype = "compact_boundary" -> [acc EXCEPT !.usage = CompactBoundary(@, l)]
      [] l.subtype = "api_retry" -> [acc EXCEPT !.retries = @ + 1]
      [] OTHER -> acc

HandleEvent(acc, l) ==
    CASE l.kind = "assistant" -> HandleAssistantEvent(acc, l)
      [] l.kind = "system" -> HandleSystemEvent(acc, l)
      [] l.kind = "result" -> [acc EXCEPT !.usage = ResultUsage(@, l)]
      [] OTHER -> acc

ParseWorkerTelemetry(log) ==
    LET acc == FoldLeft(HandleEvent, Accum, log)
    IN IF Decodable(log)
       THEN [usage |-> ResolveUsageTotals(acc.usage)
                           \o <<acc.usage.compactions, acc.usage.duration>>,
             spawns |-> acc.spawns, retries |-> acc.retries,
             violations |-> acc.violations, behavior |-> Summary(acc.behavior)]
       ELSE [usage |-> <<None, None, None, None>>, spawns |-> None, retries |-> None,
             violations |-> None, behavior |-> UnparseableBehavior]
-----------------------------------------------------------------------------
(* The waste score.                                                         *)

\* A line with a Unicode line separator in it is two lines here, neither of
\* them JSON.
IsWasteEvent(l) == IsEvent(l) /\ ~(l.kind = "assistant" /\ l.separator)

ExtractToolUses(l) ==
    CASE l.kind = "tool_use" -> <<l.block>>
      [] l.kind = "assistant" ->
            SelectSeq(OrEmpty(l.content) \o l.calls, LAMBDA b : b.type = "tool_use")
      [] OTHER -> <<>>

NoSignals == [reads |-> EmptyBag, bash |-> EmptyBag, checks |-> 0, cd |-> 0, chars |-> 0,
              out |-> 0]

IsCd(command) == command.token = "cd"
RunsCheck(command) == command.names \cap CheckCommands # {}

ClassifyBash(s, command) ==
    [s EXCEPT !.cd = IF IsCd(command) THEN @ + 1 ELSE @,
              !.checks = IF RunsCheck(command) THEN @ + 1 ELSE @,
              !.bash = IF IsCd(command) \/ RunsCheck(command) THEN @
                       ELSE @ (+) SetToBag({command})]

AccumulateToolUse(s, b) ==
    CASE b.name = "Read" -> [s EXCEPT !.reads = @ (+) SetToBag({b.arg})]
      [] b.name = "Bash" -> ClassifyBash(s, b.arg)
      [] OTHER -> s

AccumulateThinkingTokens(s, l) ==
    IF l.kind # "assistant" THEN s
    ELSE LET thinking == SelectSeq(OrEmpty(l.content), LAMBDA b : b.type = "thinking")
         IN [s EXCEPT !.chars = @ + SumOver(LAMBDA b : b.chars, thinking),
                      !.out = @ + (IF l.out = None THEN 0 ELSE l.out)]

SignalStep(s, l) ==
    IF IsWasteEvent(l)
    THEN AccumulateThinkingTokens(FoldLeft(AccumulateToolUse, s, ExtractToolUses(l)), l)
    ELSE s

ExtractSignals(log) == FoldLeft(SignalStep, NoSignals, log)

Excess(bag) == BagCardinality(bag) - Cardinality(BagToSet(bag))

AtMost(n, cap) == IF n < cap THEN n ELSE cap

\* The ratio of (chars / 4) to the output counts from above 5, and at most 10.
ThinkingScore(chars, out) ==
    IF out <= 0 \/ chars <= 20 * out THEN 0 ELSE AtMost(chars \div (4 * out), 10)

CompositeScore(s) ==
    AtMost(AtMost(Excess(s.reads) * 2, 30) + AtMost(s.checks * 3, 25)
             + AtMost(Excess(s.bash) * 2, 20) + AtMost(s.cd, 15)
             + ThinkingScore(s.chars, s.out), 100)

ComputeWasteScore(log) ==
    LET s == ExtractSignals(log)
    IN [score |-> CompositeScore(s), reads |-> Excess(s.reads), checks |-> s.checks,
        bash |-> Excess(s.bash), cd |-> s.cd]
-----------------------------------------------------------------------------
(* The tags of a finished run.                                              *)

\* w: how the run went, next to its row.
AnomalyTags(row, w) ==
    {g \in {"zero_tokens_high_wall_time"} : row.localTokens # None /\ w.slow}
    \cup {g \in {"no_diff_against_base"} : row.outcome = "failure" /\ w.noDiff}
    \cup {g \in {"success_outcome_state_mismatch"} :
             w.result = "success" /\ row.outcome = "failure"}
    \cup {g \in {"success_pr_create_failed"} : row.outcome = "success" /\ w.noPrs}

CategoryTags(row, w, highWaste, unstable) ==
    {g \in {"scope_drift"} : w.drift}
    \cup {g \in {"escalated"} : row.outcome = "escalated"}
    \cup {g \in {"high_waste"} : row.waste.score > highWaste}
    \cup {g \in {"rework"} : row.retryCount > 0}
    \cup {g \in {"mid_session_compaction"} : row.compactions # None /\ row.compactions > 0}
    \cup {g \in {"backend_unstable"} : row.retries # None /\ row.retries >= unstable}
=============================================================================
