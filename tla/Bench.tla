------------------------------- MODULE Bench --------------------------------
(***************************************************************************)
(* A benchmark sweep (scripts/bench/runner.py): the cases of a matrix are    *)
(* measured one after the other against local model servers, each is         *)
(* recorded before the next begins, and a sweep that was killed is resumed   *)
(* from its rows, which also have to give back what the adaptive scheduling  *)
(* had learned.  At its end the configurations are ranked.                   *)
(***************************************************************************)
EXTENDS Integers, SequencesExt

CONSTANTS
    None,
    Config,            \* the matrices (see ExpandMatrix) and the filters of their runs
    Vllm,              \* the backends that are no Ollama server
    MaxRuns,           \* bound: the run that starts the sweep and its resumptions
    MaxGaps            \* bound: cases given up because a server is not ready

ASSUME BenchAssumption == {MaxRuns, MaxGaps} \subseteq Nat

VARIABLES
    cfg,
    filter,            \* --tier and --model
    cases,             \* what of the matrix passes it
    resume,            \* --resume
    runs,
    pc,
    i,                 \* the case at hand
    store,             \* the rows of the sweep, by case
    adaptive,          \* the smallest context that ran out of memory, and the gate
    prev,              \* the model and backend measured before
    seen,              \* prefill_shared_seen
    loaded,            \* which models are in which server's memory
    gaps,              \* how many cases have been given up
    mixed,             \* the runs of this sweep had different filters
    left               \* what the runner has no longer in view of what is loaded

vars == <<cfg, filter, cases, resume, runs, pc, i, store, adaptive, prev, seen, loaded, gaps, mixed, left>>

ContextSizes(config, tier) ==
    CASE tier.name = "boundary" -> config.boundary
      [] tier.name # "boundary" /\ tier.sizes # None -> tier.sizes
      [] OTHER -> config.sizes

\* A warm-up at the first concurrency level, then every level and repeat, for
\* each model, tier and context size.
ExpandMatrix(config) ==
    LET enabled == SelectSeq(config.models, LAMBDA m : m.backend \in config.enabled)
        Case(m, t, x, c, r) == [model |-> m.id, backend |-> m.backend, tier |-> t.name,
                                ctx |-> x, conc |-> c, rep |-> r]
        Each(s, F(_)) == FlattenSeq([k \in DOMAIN s |-> F(s[k])])
        Real(m, t, x) == Each(config.levels, LAMBDA c :
                             [r \in 1..config.repeats |-> Case(m, t, x, c, r)])
    IN Each(enabled, LAMBDA m :
         Each(config.tiers, LAMBDA t :
           Each(ContextSizes(config, t), LAMBDA x :
             <<Case(m, t, x, config.levels[1], 0)>> \o Real(m, t, x))))

Passes(c, f) == f.tier \in {None, c.tier} /\ f.model \in {None, c.model}

CasesOf(config, f) == SelectSeq(ExpandMatrix(config), LAMBDA c : Passes(c, f))

BenchCase == [model : STRING, backend : STRING, tier : STRING,
              ctx : Int, conc : Int, rep : Int]

ASSUME MatrixAssumption ==
    /\ None \notin STRING \X STRING
    /\ \A config \in Config :
        /\ config.skipOomLarger \in BOOLEAN /\ config.requireSingle \in BOOLEAN
        /\ \A f \in config.filters : CasesOf(config, f) \in Seq(BenchCase)

\* No matrix lists a value twice. One that does is not refused, and its sweep dies
\* when the case comes again.
DistinctCases ==
    \A config \in Config : \A f \in config.filters :
        \A j, k \in DOMAIN CasesOf(config, f) :
            CasesOf(config, f)[j] = CasesOf(config, f)[k] => j = k

case == cases[i]
Key(c) == <<c.model, c.backend>>
EmptyFunction == [k \in {} |-> None]
Put(f, k, v) == [x \in DOMAIN f \cup {k} |-> IF x = k THEN v ELSE f[x]]
Nothing == [oom |-> EmptyFunction, gate |-> {}]

Init ==
    /\ cfg \in Config /\ filter \in cfg.filters /\ cases = CasesOf(cfg, filter)
    /\ resume = FALSE /\ runs = 1
    /\ pc = "next" /\ i = 1 /\ store = EmptyFunction /\ adaptive = Nothing
    /\ prev = None /\ seen = {} /\ loaded = {} /\ gaps = 0 /\ mixed = FALSE /\ left = {}
-----------------------------------------------------------------------------
(* What a row teaches.                                                      *)

UpdateAdaptiveState(a, c, outcome) ==
    [oom |-> IF outcome = "oom" /\ (Key(c) \notin DOMAIN a.oom \/ c.ctx < a.oom[Key(c)])
             THEN Put(a.oom, Key(c), c.ctx) ELSE a.oom,
     gate |-> IF outcome = "ok" /\ c.conc = 1
              THEN a.gate \cup {<<c.model, c.backend, c.ctx>>} ELSE a.gate]

ShouldSkipOom(c) ==
    cfg.skipOomLarger /\ Key(c) \in DOMAIN adaptive.oom /\ c.ctx > adaptive.oom[Key(c)]

ShouldSkipConcurrencyGate(c) ==
    /\ cfg.requireSingle /\ c.conc > 1
    /\ <<c.model, c.backend, c.ctx>> \notin adaptive.gate
-----------------------------------------------------------------------------
(* The loop over the cases.                                                 *)

\* get_by_run_id without the repeat in the key.
FoundByCase(c) == {d \in DOMAIN store : resume /\ [d EXCEPT !.rep = c.rep] = c}

Found(c) == {d \in DOMAIN store : resume /\ d = c}

\* The rows are passed over.
PassedOver(c) == adaptive

Replayed(c) ==
    LET d == CHOOSE d \in Found(c) : TRUE
    IN UpdateAdaptiveState(adaptive, c, store[d].outcome)

AtCase == pc = "next" /\ i <= Len(cases)

SkipRecorded ==
    /\ AtCase /\ Found(case) # {}
    /\ adaptive' = Replayed(case)
    /\ i' = i + 1
    /\ UNCHANGED <<cfg, filter, cases, resume, runs, pc, store, prev, seen, loaded, gaps, mixed, left>>

\* A second row of a case raises IntegrityError.
Record(outcome, cache) ==
    IF case \in DOMAIN store THEN pc' = "died" /\ UNCHANGED <<store, i>>
    ELSE /\ store' = Put(store, case, [outcome |-> outcome, cache |-> cache])
         /\ pc' = "next" /\ i' = i + 1

SkipOom ==
    /\ AtCase /\ Found(case) = {} /\ ShouldSkipOom(case)
    /\ Record("skipped_oom", None)
    /\ UNCHANGED <<cfg, filter, cases, resume, runs, adaptive, prev, seen, loaded, gaps, mixed, left>>

SkipGate ==
    /\ AtCase /\ Found(case) = {}
    /\ ~ShouldSkipOom(case) /\ ShouldSkipConcurrencyGate(case)
    /\ Record("skipped_concurrency_gate", None)
    /\ UNCHANGED <<cfg, filter, cases, resume, runs, adaptive, prev, seen, loaded, gaps, mixed, left>>

ToMeasure ==
    /\ AtCase /\ Found(case) = {}
    /\ ~ShouldSkipOom(case) /\ ~ShouldSkipConcurrencyGate(case)

\* The server does not answer in time, or a pull does not: the case is left
\* without a row.
NotReady ==
    /\ ToMeasure /\ case.backend \notin Vllm /\ gaps < MaxGaps
    /\ i' = i + 1 /\ gaps' = gaps + 1
    /\ UNCHANGED <<cfg, filter, cases, resume, runs, pc, store, adaptive, prev, seen, loaded, mixed, left>>

\* Any other error of a pull is caught nowhere.
PullFails ==
    /\ ToMeasure /\ case.backend \notin Vllm
    /\ pc' = "died"
    /\ UNCHANGED <<cfg, filter, cases, resume, runs, i, store, adaptive, prev, seen, loaded, gaps, mixed, left>>

MustFlushOnNewBackend(c) ==
    c.backend \notin Vllm /\ prev # None /\ prev[1] # c.model /\ prev[2] # c.backend

MustFlush(c) ==
    c.backend \notin Vllm /\ prev # None /\ (prev[1] # c.model \/ prev[2] # c.backend)

\* The model measured before is unloaded from the server of this case, whichever
\* server it was loaded in; a failure is only logged.
Prepare(fails) ==
    /\ ToMeasure
    /\ fails => MustFlush(case)
    /\ loaded' = IF MustFlush(case) /\ ~fails THEN loaded \ {<<prev[1], case.backend>>}
                 ELSE loaded
    /\ left' = IF prev # None /\ (fails \/ prev[2] # case.backend) THEN left \cup {prev}
               ELSE left
    /\ prev' = Key(case) /\ pc' = "measure"
    /\ UNCHANGED <<cfg, filter, cases, resume, runs, i, store, adaptive, seen, gaps, mixed>>

\* A driver never raises: whatever goes wrong is the text of an error, and some
\* texts mean that memory ran out.
Answer == {"ok", "oom", "error"}

\* One request that ran out of memory is enough; an error is one only when no
\* request got through.
Outcome(results) ==
    CASE "oom" \in results -> "oom"
      [] "oom" \notin results /\ "ok" \in results -> "ok"
      [] results = {"error"} -> "error"

SharedKey(c) == Key(c)

\* case.conc requests at a time, whose answers are in results.  A model may be
\* loaded whatever becomes of them, and the server unloads it by itself later.
Measure(results) ==
    LET shared == case.tier = "prefill_shared"
        outcome == Outcome(results)
    IN /\ pc = "measure" /\ Cardinality(results) \in 1..case.conc
       /\ Record(outcome, IF ~shared THEN None
                          ELSE IF SharedKey(case) \in seen THEN "prefix_warm" ELSE "warm")
       /\ seen' = IF shared THEN seen \cup {SharedKey(case)} ELSE seen
       /\ adaptive' = UpdateAdaptiveState(adaptive, case, outcome)
       /\ loaded' = loaded \cup {Key(case)}
       /\ UNCHANGED <<cfg, filter, cases, resume, runs, prev, gaps, mixed, left>>

Finish ==
    /\ pc = "next" /\ i > Len(cases)
    /\ pc' = "done"
    /\ UNCHANGED <<cfg, filter, cases, resume, runs, i, store, adaptive, prev, seen, loaded, gaps, mixed, left>>
-----------------------------------------------------------------------------
(* Around a run.                                                            *)

\* Killed at any point.
Crash ==
    /\ pc \in {"next", "measure"}
    /\ pc' = "died"
    /\ UNCHANGED <<cfg, filter, cases, resume, runs, i, store, adaptive, prev, seen, loaded, gaps, mixed, left>>

\* Everything but the rows and what the servers have loaded is new.
Resume(f) ==
    /\ pc \in {"died", "done"} /\ runs < MaxRuns
    /\ runs' = runs + 1 /\ resume' = TRUE /\ filter' = f /\ cases' = CasesOf(cfg, f)
    /\ pc' = "next" /\ i' = 1
    /\ adaptive' = Nothing /\ prev' = None /\ seen' = {}
    /\ mixed' = (mixed \/ f # filter) /\ left' = left \cup loaded
    /\ UNCHANGED <<cfg, store, loaded, gaps>>

Next ==
    \/ SkipRecorded \/ SkipOom \/ SkipGate \/ NotReady \/ PullFails
    \/ \E fails \in BOOLEAN : Prepare(fails)
    \/ \E results \in SUBSET Answer : Measure(results)
    \/ Finish \/ Crash
    \/ \E f \in cfg.filters : Resume(f)

Spec == Init /\ [][Next]_vars
-----------------------------------------------------------------------------
(* The ranking of what was measured (reporter_ranking.py).                  *)

ConfigOf(c) == <<c.model, c.backend, c.ctx, c.conc>>

\* Rows that were never run are no errors.
EligibleUnlessError(k) ==
    LET real == {c \in DOMAIN store : ConfigOf(c) = k /\ c.rep >= 1}
    IN real # {} /\ \A c \in real : store[c].outcome \notin {"oom", "error"}

\* The warm-ups do not count, and at most 5% of the rest may be anything but
\* ok.  The gates on memory, speed and quality are left out: they only refuse
\* more.
Eligible(k) ==
    LET real == {c \in DOMAIN store : ConfigOf(c) = k /\ c.rep >= 1}
        errors == {c \in real : store[c].outcome # "ok"}
    IN /\ real # {} /\ \A c \in real : store[c].outcome # "oom"
       /\ 20 * Cardinality(errors) <= Cardinality(real)

Ranked == {k \in {ConfigOf(c) : c \in DOMAIN store} : Eligible(k)}
-----------------------------------------------------------------------------
(* Properties.                                                              *)

\* The rows of the cases that come before case number k.
Earlier(k) == {cases[j] : j \in 1..(k - 1)} \cap DOMAIN store

\* However often it was killed, a sweep that is always resumed with the same
\* filter, and whose server was always there in time, has skipped exactly what
\* an uninterrupted one with these measurements skips.
AsIfUninterrupted ==
    ~mixed /\ gaps = 0 =>
        \A k \in DOMAIN cases :
            LET c == cases[k]
                oom == /\ cfg.skipOomLarger
                       /\ \E d \in Earlier(k) : /\ Key(d) = Key(c) /\ d.ctx < c.ctx
                                                /\ store[d].outcome = "oom"
                alone == \E d \in Earlier(k) :
                            /\ Key(d) = Key(c) /\ d.ctx = c.ctx /\ d.conc = 1
                            /\ store[d].outcome = "ok"
            IN c \in DOMAIN store =>
                /\ store[c].outcome = "skipped_oom" <=> oom
                /\ store[c].outcome = "skipped_concurrency_gate"
                       <=> ~oom /\ cfg.requireSingle /\ c.conc > 1 /\ ~alone

\* "Write before moving to next case (resume safety invariant)" (runner.py:475):
\* no resumed run is about to measure or to skip what has a row, and a run that
\* ends by itself has a row for each of its cases, unless a server was not there
\* in time.
EachCaseOnce ==
    /\ (AtCase /\ Found(case) = {}) \/ pc = "measure" => case \notin DOMAIN store
    /\ pc = "done" /\ gaps = 0 => ToSet(cases) \subseteq DOMAIN store

\* While a model is measured nothing else is in the memory of its server but
\* what an earlier run, a failed unload or a turn to another backend left.
MeasuredAlone ==
    pc = "measure" /\ case.backend \notin Vllm =>
        {m \in loaded : m[2] = case.backend} \subseteq {Key(case)} \cup left

\* With the gate on, nothing is ranked for parallel requests whose context did
\* not work for a single one.
RankedWorkedAlone ==
    cfg.requireSingle =>
        \A k \in Ranked : k[4] > 1 =>
            \E c \in DOMAIN store :
                ConfigOf(c) = <<k[1], k[2], k[3], 1>> /\ store[c].outcome = "ok"
=============================================================================
