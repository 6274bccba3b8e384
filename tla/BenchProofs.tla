---------------------------- MODULE BenchProofs -----------------------------
(***************************************************************************)
(* Proofs about Bench for every matrix, filter and number of resumptions.  *)
(*                                                                         *)
(* First what holds of any matrix: what may be in a server's memory, and   *)
(* that a parallel configuration was measured only where a single request  *)
(* worked.  Then, for matrices that list nothing twice, that the rows of a *)
(* resumed sweep are those of one that was never interrupted.              *)
(***************************************************************************)
EXTENDS Bench, FiniteSetTheorems, TLAPS

Measured == {"ok", "oom", "error"}
RowOutcome == Measured \cup {"skipped_oom", "skipped_concurrency_gate"}

TypeOK ==
    /\ cfg \in Config /\ filter \in cfg.filters /\ cases = CasesOf(cfg, filter)
    /\ resume \in BOOLEAN /\ mixed \in BOOLEAN /\ gaps \in Nat
    /\ pc \in {"next", "measure", "died", "done"}
    /\ i \in 1 .. Len(cases) + 1
    /\ pc = "measure" => i <= Len(cases)
    /\ pc = "done" => i = Len(cases) + 1
    /\ DOMAIN store \subseteq BenchCase /\ IsFiniteSet(DOMAIN store)
    /\ \A c \in DOMAIN store : store[c].outcome \in RowOutcome
    /\ \A k \in DOMAIN adaptive.oom : adaptive.oom[k] \in Int
    /\ prev = None \/ prev \in STRING \X STRING

\* The case that is measured passed both checks, and is the one last prepared.
MeasureOK ==
    pc = "measure" =>
        /\ ~ ShouldSkipOom(case) /\ ~ ShouldSkipConcurrencyGate(case)
        /\ prev = Key(case)

\* In the memory of an Ollama server is what the runner measured last, or what it
\* has lost from view.
LoadedOK == \A m \in loaded : m \in left \/ m[2] \in Vllm \/ (prev # None /\ m = prev)

WorkedAlone(m, b, x) ==
    \E d \in DOMAIN store :
        /\ d.model = m /\ d.backend = b /\ d.ctx = x /\ d.conc = 1
        /\ store[d].outcome = "ok"

\* The gate opens for what a row vouches for, and what went through it as well.
GateOK ==
    /\ pc # "died" =>
         \A m, b, x : <<m, b, x>> \in adaptive.gate => WorkedAlone(m, b, x)
    /\ cfg.requireSingle =>
         \A c \in DOMAIN store :
             c.conc > 1 /\ store[c].outcome = "ok" => WorkedAlone(c.model, c.backend, c.ctx)

Inv == TypeOK /\ MeasureOK /\ LoadedOK /\ GateOK

\* The rows of the first run are of cases it has passed; what is measured has no
\* row; what is passed has one, unless a server was late.
OnceOK ==
    /\ ~ resume => \A c \in DOMAIN store : \E j \in 1 .. i - 1 : c = cases[j]
    /\ pc = "measure" => case \notin DOMAIN store
    /\ gaps = 0 => \A j \in 1 .. i - 1 : cases[j] \in DOMAIN store

\* The rows are those of a first part of the cases.
PrefixOK ==
    \A j \in DOMAIN cases : cases[j] \in DOMAIN store =>
        \A k \in 1 .. j : cases[k] \in DOMAIN store

\* What was learned (a) is what the rows (s) of these cases say.
Learned(a, earlier, s) ==
    /\ \A k \in DOMAIN a.oom : \E d \in earlier :
         Key(d) = k /\ d.ctx = a.oom[k] /\ s[d].outcome = "oom"
    /\ \A d \in earlier : s[d].outcome = "oom" =>
         Key(d) \in DOMAIN a.oom /\ a.oom[Key(d)] <= d.ctx
    /\ \A d \in earlier : d.conc = 1 /\ s[d].outcome = "ok" =>
         <<d.model, d.backend, d.ctx>> \in a.gate
    /\ \A m, b, x : <<m, b, x>> \in a.gate => \E d \in earlier :
         /\ d.model = m /\ d.backend = b /\ d.ctx = x /\ d.conc = 1
         /\ s[d].outcome = "ok"

LearnedOK == pc \in {"next", "measure"} => Learned(adaptive, Earlier(i), store)

OutOfMemoryBefore(k) ==
    /\ cfg.skipOomLarger
    /\ \E d \in Earlier(k) : /\ Key(d) = Key(cases[k]) /\ d.ctx < cases[k].ctx
                             /\ store[d].outcome = "oom"

SingleBefore(k) ==
    \E d \in Earlier(k) : /\ Key(d) = Key(cases[k]) /\ d.ctx = cases[k].ctx /\ d.conc = 1
                          /\ store[d].outcome = "ok"

\* Row k says what the rows before it entail.
Faithful(k) ==
    /\ store[cases[k]].outcome = "skipped_oom" <=> OutOfMemoryBefore(k)
    /\ store[cases[k]].outcome = "skipped_concurrency_gate"
         <=> /\ ~ OutOfMemoryBefore(k) /\ cfg.requireSingle /\ cases[k].conc > 1
             /\ ~ SingleBefore(k)

AsBefore ==
    ~ mixed /\ gaps = 0 =>
        /\ PrefixOK /\ LearnedOK
        /\ \A k \in DOMAIN cases : cases[k] \in DOMAIN store => Faithful(k)

Sweep == OnceOK /\ AsBefore

USE DEF vars

LEMMA CasesType ==
  ASSUME TypeOK
  PROVE  /\ Len(cases) \in Nat /\ DOMAIN cases = 1 .. Len(cases)
         /\ \A j \in 1 .. Len(cases) : cases[j] \in BenchCase
         /\ cfg.skipOomLarger \in BOOLEAN /\ cfg.requireSingle \in BOOLEAN
<1>1. /\ cases \in Seq(BenchCase)
      /\ cfg.skipOomLarger \in BOOLEAN /\ cfg.requireSingle \in BOOLEAN
  BY MatrixAssumption DEF TypeOK
<1> QED
  BY <1>1

LEMMA KeyType ==
  ASSUME NEW c \in BenchCase
  PROVE  /\ Key(c) \in STRING \X STRING /\ Key(c) # None
         /\ Key(c)[1] = c.model /\ Key(c)[2] = c.backend
         /\ c.ctx \in Int /\ c.conc \in Int
  BY MatrixAssumption DEF Key, BenchCase

LEMMA Recorded ==
  ASSUME NEW outcome, NEW cache, Record(outcome, cache), case \notin DOMAIN store
  PROVE  /\ DOMAIN store' = DOMAIN store \cup {case}
         /\ \A c \in DOMAIN store : store'[c] = store[c]
         /\ store'[case].outcome = outcome
         /\ pc' = "next" /\ i' = i + 1
<1>1. /\ store' = Put(store, case, [outcome |-> outcome, cache |-> cache])
      /\ pc' = "next" /\ i' = i + 1
  BY DEF Record
<1>2. DOMAIN store' = DOMAIN store \cup {case}
  BY <1>1 DEF Put
<1>3. \A c \in DOMAIN store : store'[c] = store[c]
  BY <1>1 DEF Put
<1>4. store'[case] = [outcome |-> outcome, cache |-> cache]
  BY <1>1 DEF Put
<1> QED
  BY <1>1, <1>2, <1>3, <1>4

\* What a row adds to what is known.
LEMMA Updated ==
  ASSUME NEW a, NEW c, NEW o, c.ctx \in Int, \A k \in DOMAIN a.oom : a.oom[k] \in Int
  PROVE  LET u == UpdateAdaptiveState(a, c, o) IN
         /\ \A k \in DOMAIN u.oom :
              \/ k \in DOMAIN a.oom /\ u.oom[k] = a.oom[k]
              \/ o = "oom" /\ k = Key(c) /\ u.oom[k] = c.ctx
         /\ \A k \in DOMAIN a.oom : k \in DOMAIN u.oom /\ u.oom[k] <= a.oom[k]
         /\ o = "oom" => Key(c) \in DOMAIN u.oom /\ u.oom[Key(c)] <= c.ctx
         /\ \A g : g \in u.gate <=>
              \/ g \in a.gate
              \/ o = "ok" /\ c.conc = 1 /\ g = <<c.model, c.backend, c.ctx>>
<1> DEFINE u == UpdateAdaptiveState(a, c, o)
           lower == o = "oom" /\ (Key(c) \notin DOMAIN a.oom \/ c.ctx < a.oom[Key(c)])
<1>1. u.oom = IF lower THEN Put(a.oom, Key(c), c.ctx) ELSE a.oom
  BY DEF UpdateAdaptiveState
<1>2. \A g : g \in u.gate <=>
        \/ g \in a.gate
        \/ o = "ok" /\ c.conc = 1 /\ g = <<c.model, c.backend, c.ctx>>
  BY DEF UpdateAdaptiveState
<1>3. CASE lower
  <2>1. /\ DOMAIN u.oom = DOMAIN a.oom \cup {Key(c)} /\ u.oom[Key(c)] = c.ctx
        /\ \A k \in DOMAIN a.oom : k # Key(c) => u.oom[k] = a.oom[k]
    BY <1>1, <1>3 DEF Put
  <2> HIDE DEF u
  <2>2. \A k \in DOMAIN a.oom : u.oom[k] <= a.oom[k]
    BY <1>3, <2>1
  <2> QED
    BY <1>2, <1>3, <2>1, <2>2 DEF u
<1>4. CASE ~ lower
  <2>1. u.oom = a.oom
    BY <1>1, <1>4
  <2>2. o = "oom" => Key(c) \in DOMAIN a.oom /\ a.oom[Key(c)] <= c.ctx
    BY <1>4
  <2> HIDE DEF u
  <2> QED
    BY <1>2, <2>1, <2>2 DEF u
<1> QED
  BY <1>3, <1>4

\* The row that a resumed run finds is the row of the case itself.
LEMMA FoundIsCase ==
  ASSUME NEW c, Found(c) # {}
  PROVE  c \in DOMAIN store /\ Replayed(c) = UpdateAdaptiveState(adaptive, c, store[c].outcome)
<1>1. Found(c) = {c} /\ c \in DOMAIN store
  BY DEF Found
<1>2. (CHOOSE d \in Found(c) : TRUE) = c
  BY <1>1
<1> QED
  BY <1>1, <1>2 DEF Replayed

LEMMA OutcomeType ==
  ASSUME NEW results \in SUBSET Answer, NEW n, Cardinality(results) \in 1 .. n
  PROVE  Outcome(results) \in Measured
<1>1. results # {}
  BY FS_EmptySet
<1>2. "oom" \in results \/ "ok" \in results \/ results = {"error"}
  BY <1>1 DEF Answer
<1>3. "oom" \in results => Outcome(results) = "oom"
  BY DEF Outcome
<1>4. "oom" \notin results /\ "ok" \in results => Outcome(results) = "ok"
  BY DEF Outcome
<1>5. results = {"error"} => Outcome(results) = "error"
  BY DEF Outcome
<1> QED
  BY <1>2, <1>3, <1>4, <1>5 DEF Measured
-----------------------------------------------------------------------------
(* Every matrix.                                                            *)

LEMMA AtHand ==
  ASSUME TypeOK, AtCase \/ pc = "measure"
  PROVE  i \in 1 .. Len(cases) /\ case \in BenchCase
<1>1. i \in 1 .. Len(cases)
  BY CasesType DEF TypeOK, AtCase
<1> QED
  BY <1>1, CasesType DEF case

\* A row is written once: the case before it has none, and all others stay.
LEMMA RowsStay ==
  ASSUME [Next]_vars
  PROVE  /\ DOMAIN store \subseteq DOMAIN store'
         /\ \A c \in DOMAIN store : store'[c] = store[c]
<1>1. ASSUME NEW outcome, NEW cache, Record(outcome, cache)
      PROVE  /\ DOMAIN store \subseteq DOMAIN store'
             /\ \A c \in DOMAIN store : store'[c] = store[c]
  <2>1. CASE case \in DOMAIN store
    BY <1>1, <2>1 DEF Record
  <2>2. CASE case \notin DOMAIN store
    BY <1>1, <2>2, Recorded
  <2> QED
    BY <2>1, <2>2
<1>2. CASE SkipOom
  BY <1>1, <1>2 DEF SkipOom
<1>3. CASE SkipGate
  BY <1>1, <1>3 DEF SkipGate
<1>4. ASSUME NEW results \in SUBSET Answer, Measure(results)
      PROVE  /\ DOMAIN store \subseteq DOMAIN store'
             /\ \A c \in DOMAIN store : store'[c] = store[c]
  BY <1>1, <1>4 DEF Measure
<1>5. \/ UNCHANGED store \/ SkipOom \/ SkipGate
      \/ \E results \in SUBSET Answer : Measure(results)
  BY DEF Next, SkipRecorded, NotReady, PullFails, Prepare, Finish, Crash, Resume
<1> QED
  BY <1>2, <1>3, <1>4, <1>5

LEMMA WorkedStays ==
  ASSUME [Next]_vars, NEW CONSTANT m, NEW CONSTANT b, NEW CONSTANT x, WorkedAlone(m, b, x)
  PROVE  WorkedAlone(m, b, x)'
<1>1. PICK d \in DOMAIN store :
        /\ d.model = m /\ d.backend = b /\ d.ctx = x /\ d.conc = 1
        /\ store[d].outcome = "ok"
  BY DEF WorkedAlone
<1>2. d \in DOMAIN store' /\ store'[d].outcome = "ok"
  BY <1>1, RowsStay
<1> QED
  BY <1>1, <1>2 DEF WorkedAlone

LEMMA RecordType ==
  ASSUME TypeOK, AtCase \/ pc = "measure", NEW outcome \in RowOutcome, NEW cache,
         Record(outcome, cache), UNCHANGED cases
  PROVE  /\ pc' \in {"next", "died"}
         /\ i' \in 1 .. Len(cases') + 1
         /\ DOMAIN store' \subseteq BenchCase /\ IsFiniteSet(DOMAIN store')
         /\ \A c \in DOMAIN store' : store'[c].outcome \in RowOutcome
<1>1. i \in 1 .. Len(cases) /\ case \in BenchCase /\ Len(cases) \in Nat
  BY AtHand, CasesType
<1>2. CASE case \in DOMAIN store
  BY <1>1, <1>2 DEF Record, TypeOK
<1>3. CASE case \notin DOMAIN store
  <2>1. /\ DOMAIN store' = DOMAIN store \cup {case}
        /\ \A c \in DOMAIN store : store'[c] = store[c]
        /\ store'[case].outcome = outcome
        /\ pc' = "next" /\ i' = i + 1
    BY <1>3, Recorded
  <2>2. IsFiniteSet(DOMAIN store')
    BY <2>1, FS_AddElement DEF TypeOK
  <2>3. DOMAIN store' \subseteq BenchCase
    BY <1>1, <2>1 DEF TypeOK
  <2>4. \A c \in DOMAIN store' : store'[c].outcome \in RowOutcome
    BY <2>1 DEF TypeOK
  <2> QED
    BY <1>1, <2>1, <2>2, <2>3, <2>4
<1> QED
  BY <1>2, <1>3

\* The contexts that ran out of memory are numbers.
LEMMA LearnedType ==
  ASSUME TypeOK, NEW c \in BenchCase, NEW o, adaptive' = UpdateAdaptiveState(adaptive, c, o)
  PROVE  \A k \in DOMAIN adaptive'.oom : adaptive'.oom[k] \in Int
<1>1. /\ c.ctx \in Int
      /\ \A k \in DOMAIN adaptive.oom : adaptive.oom[k] \in Int
  BY KeyType DEF TypeOK
<1>2. \A k \in DOMAIN adaptive'.oom :
        \/ k \in DOMAIN adaptive.oom /\ adaptive'.oom[k] = adaptive.oom[k]
        \/ o = "oom" /\ k = Key(c) /\ adaptive'.oom[k] = c.ctx
  BY <1>1, Updated
<1> QED
  BY <1>1, <1>2

LEMMA TypeInit ==
  ASSUME Init
  PROVE  TypeOK
<1>1. DOMAIN store = {}
  BY DEF Init, EmptyFunction
<1>2. IsFiniteSet({})
  BY FS_EmptySet
<1>3. DOMAIN adaptive.oom = {}
  BY DEF Init, Nothing, EmptyFunction
<1>4. cases \in Seq(BenchCase)
  BY MatrixAssumption DEF Init
<1>5. Len(cases) \in Nat
  BY <1>4
<1>6. cfg \in Config /\ filter \in cfg.filters /\ cases = CasesOf(cfg, filter)
  BY DEF Init
<1>7. i \in 1 .. Len(cases) + 1
  BY <1>5 DEF Init
<1> QED
  BY <1>1, <1>2, <1>3, <1>6, <1>7 DEF Init, TypeOK

LEMMA TypeStep ==
  ASSUME TypeOK, [Next]_vars
  PROVE  TypeOK'
<1>0. Len(cases) \in Nat
  BY CasesType
<1>1. CASE SkipRecorded
  <2>1. i \in 1 .. Len(cases) /\ case \in BenchCase
    BY <1>1, AtHand DEF SkipRecorded
  <2>2. adaptive' = UpdateAdaptiveState(adaptive, case, store[case].outcome)
    BY <1>1, FoundIsCase DEF SkipRecorded
  <2>3. \A k \in DOMAIN adaptive'.oom : adaptive'.oom[k] \in Int
    BY <2>1, <2>2, LearnedType
  <2>4. i' \in 1 .. Len(cases') + 1
    BY <1>0, <1>1, <2>1 DEF SkipRecorded
  <2> QED
    BY <1>1, <2>3, <2>4 DEF SkipRecorded, AtCase, TypeOK
<1>2. CASE SkipOom
  <2>1. "skipped_oom" \in RowOutcome
    BY DEF RowOutcome
  <2>2. /\ pc' \in {"next", "died"} /\ i' \in 1 .. Len(cases') + 1
        /\ DOMAIN store' \subseteq BenchCase /\ IsFiniteSet(DOMAIN store')
        /\ \A c \in DOMAIN store' : store'[c].outcome \in RowOutcome
    BY <1>2, <2>1, RecordType DEF SkipOom
  <2> QED
    BY <1>2, <2>2 DEF SkipOom, TypeOK
<1>3. CASE SkipGate
  <2>1. "skipped_concurrency_gate" \in RowOutcome
    BY DEF RowOutcome
  <2>2. /\ pc' \in {"next", "died"} /\ i' \in 1 .. Len(cases') + 1
        /\ DOMAIN store' \subseteq BenchCase /\ IsFiniteSet(DOMAIN store')
        /\ \A c \in DOMAIN store' : store'[c].outcome \in RowOutcome
    BY <1>3, <2>1, RecordType DEF SkipGate
  <2> QED
    BY <1>3, <2>2 DEF SkipGate, TypeOK
<1>4. CASE NotReady
  <2>1. i \in 1 .. Len(cases)
    BY <1>4, AtHand DEF NotReady, ToMeasure
  <2>2. i' \in 1 .. Len(cases') + 1 /\ gaps' \in Nat
    BY <1>0, <1>4, <2>1 DEF NotReady, TypeOK
  <2> QED
    BY <1>4, <2>2 DEF NotReady, ToMeasure, AtCase, TypeOK
<1>5. CASE PullFails \/ Crash
  BY <1>5 DEF PullFails, Crash, TypeOK
<1>6. ASSUME NEW fails \in BOOLEAN, Prepare(fails)
      PROVE  TypeOK'
  <2>1. i \in 1 .. Len(cases) /\ Key(case) \in STRING \X STRING
    BY <1>6, AtHand, KeyType DEF Prepare, ToMeasure
  <2>2. i' <= Len(cases')
    BY <1>0, <1>6, <2>1 DEF Prepare
  <2> QED
    BY <1>6, <2>1, <2>2 DEF Prepare, TypeOK
<1>7. ASSUME NEW results \in SUBSET Answer, Measure(results)
      PROVE  TypeOK'
  <2> DEFINE outcome == Outcome(results)
  <2>1. outcome \in Measured
    BY <1>7, OutcomeType DEF Measure
  <2>2. PICK cache : Record(outcome, cache)
    BY <1>7 DEF Measure
  <2>3. case \in BenchCase
    BY <1>7, AtHand DEF Measure
  <2>4. \A k \in DOMAIN adaptive'.oom : adaptive'.oom[k] \in Int
    BY <1>7, <2>3, LearnedType DEF Measure
  <2>5. /\ pc = "measure" /\ UNCHANGED <<cfg, filter, cases, resume, prev, gaps, mixed>>
    BY <1>7 DEF Measure
  <2> HIDE DEF outcome
  <2>6. outcome \in RowOutcome
    BY <2>1 DEF RowOutcome
  <2>7. /\ pc' \in {"next", "died"} /\ i' \in 1 .. Len(cases') + 1
        /\ DOMAIN store' \subseteq BenchCase /\ IsFiniteSet(DOMAIN store')
        /\ \A c \in DOMAIN store' : store'[c].outcome \in RowOutcome
    BY <2>2, <2>5, <2>6, RecordType
  <2> QED
    BY <2>4, <2>5, <2>7 DEF TypeOK
<1>8. CASE Finish
  <2>1. i' = Len(cases') + 1
    BY <1>0, <1>8 DEF Finish, TypeOK
  <2> QED
    BY <1>8, <2>1 DEF Finish, TypeOK
<1>9. ASSUME NEW f \in cfg.filters, Resume(f)
      PROVE  TypeOK'
  <2>1. DOMAIN adaptive'.oom = {}
    BY <1>9 DEF Resume, Nothing, EmptyFunction
  <2>2. cases' \in Seq(BenchCase)
    BY <1>9, MatrixAssumption DEF Resume, TypeOK
  <2>3. i' \in 1 .. Len(cases') + 1
    BY <1>9, <2>2 DEF Resume
  <2>4. mixed' \in BOOLEAN
    BY <1>9 DEF Resume, TypeOK
  <2>5. /\ cfg' = cfg /\ filter' \in cfg'.filters /\ cases' = CasesOf(cfg', filter')
    BY <1>9 DEF Resume
  <2>6. resume' = TRUE /\ pc' = "next" /\ prev' = None /\ UNCHANGED <<store, gaps>>
    BY <1>9 DEF Resume
  <2> QED
    BY <2>1, <2>3, <2>4, <2>5, <2>6 DEF TypeOK
<1>10. CASE UNCHANGED vars
  BY <1>10 DEF TypeOK
<1> QED
  BY <1>1, <1>2, <1>3, <1>4, <1>5, <1>6, <1>7, <1>8, <1>9, <1>10 DEF Next

LEMMA RecordEnds ==
  ASSUME TypeOK, [Next]_vars, ~ \E fails \in BOOLEAN : Prepare(fails), ~ UNCHANGED vars
  PROVE  pc' # "measure"
<1>1. ASSUME NEW outcome, NEW cache, Record(outcome, cache)
      PROVE  pc' # "measure"
  BY <1>1 DEF Record
<1> QED
  BY <1>1 DEF Next, SkipRecorded, SkipOom, SkipGate, NotReady, PullFails, Measure,
              Finish, Crash, Resume, AtCase, ToMeasure

LEMMA MeasureStep ==
  ASSUME TypeOK, MeasureOK, [Next]_vars
  PROVE  MeasureOK'
<1>1. ASSUME NEW fails \in BOOLEAN, Prepare(fails)
      PROVE  MeasureOK'
  BY <1>1 DEF Prepare, ToMeasure, MeasureOK, ShouldSkipOom, ShouldSkipConcurrencyGate, case, Key
<1>2. CASE UNCHANGED vars
  BY <1>2 DEF MeasureOK, ShouldSkipOom, ShouldSkipConcurrencyGate, case, Key
<1>3. CASE pc' # "measure"
  BY <1>3 DEF MeasureOK
<1> QED
  BY <1>1, <1>2, <1>3, RecordEnds

LEMMA LoadedStep ==
  ASSUME TypeOK, MeasureOK, LoadedOK, [Next]_vars
  PROVE  LoadedOK'
<1>1. ASSUME NEW fails \in BOOLEAN, Prepare(fails), NEW m \in loaded'
      PROVE  m \in left' \/ m[2] \in Vllm \/ (prev' # None /\ m = prev')
  <2>1. case \in BenchCase
    BY <1>1, AtHand DEF Prepare, ToMeasure
  <2>2. /\ prev' = Key(case) /\ prev' # None
        /\ Key(case) = <<case.model, case.backend>>
    BY <1>1, <2>1, KeyType DEF Prepare, Key
  <2>3. /\ m \in loaded
        /\ MustFlush(case) /\ ~ fails => m # <<prev[1], case.backend>>
    BY <1>1 DEF Prepare
  <2>4. /\ left \subseteq left'
        /\ prev # None /\ (fails \/ prev[2] # case.backend) => prev \in left'
    BY <1>1 DEF Prepare
  <2>5. m \in left \/ m[2] \in Vllm \/ (prev # None /\ m = prev)
    BY <2>3 DEF LoadedOK
  <2>6. CASE m \in left \/ m[2] \in Vllm
    BY <2>4, <2>6
  <2>7. CASE prev # None /\ m = prev /\ (fails \/ prev[2] # case.backend)
    BY <2>4, <2>7
  <2>8. CASE prev # None /\ m = prev /\ ~ fails /\ prev[2] = case.backend
    <3>1. prev = <<prev[1], prev[2]>>
      BY <2>8 DEF TypeOK
    <3>2. CASE case.backend \in Vllm
      BY <2>8, <3>2
    <3>3. CASE case.backend \notin Vllm
      <4>1. ~ MustFlush(case)
        BY <2>3, <2>8, <3>1
      <4>2. prev[1] = case.model
        BY <2>8, <3>3, <4>1 DEF MustFlush
      <4> QED
        BY <2>2, <2>8, <3>1, <4>2
    <3> QED
      BY <3>2, <3>3
  <2> QED
    BY <2>5, <2>6, <2>7, <2>8
<1>2. ASSUME NEW results \in SUBSET Answer, Measure(results)
      PROVE  LoadedOK'
  <2>1. /\ loaded' = loaded \cup {Key(case)} /\ UNCHANGED <<prev, left>>
        /\ pc = "measure" /\ prev = Key(case)
    BY <1>2 DEF Measure, MeasureOK
  <2>2. Key(case) # None
    BY <2>1, AtHand, KeyType
  <2> QED
    BY <2>1, <2>2 DEF LoadedOK
<1>3. ASSUME NEW f \in cfg.filters, Resume(f)
      PROVE  LoadedOK'
  BY <1>3 DEF Resume, LoadedOK
<1>4. CASE UNCHANGED <<loaded, left, prev>>
  BY <1>4 DEF LoadedOK
<1>5. \/ UNCHANGED <<loaded, left, prev>>
      \/ \E fails \in BOOLEAN : Prepare(fails)
      \/ \E results \in SUBSET Answer : Measure(results)
      \/ \E f \in cfg.filters : Resume(f)
  BY DEF Next, SkipRecorded, SkipOom, SkipGate, NotReady, PullFails, Finish, Crash
<1> QED
  BY <1>1, <1>2, <1>3, <1>4, <1>5 DEF LoadedOK

\* The first half: what the gate lets through is vouched for by a row.
LEMMA GateStep ==
  ASSUME TypeOK, GateOK, [Next]_vars, pc' # "died",
         NEW CONSTANT m, NEW CONSTANT b, NEW CONSTANT x, <<m, b, x>> \in adaptive'.gate
  PROVE  WorkedAlone(m, b, x)'
<1>0. WorkedAlone(m, b, x) => WorkedAlone(m, b, x)'
  BY WorkedStays
<1>1. ASSUME pc # "died", <<m, b, x>> \in adaptive.gate
      PROVE  WorkedAlone(m, b, x)'
  BY <1>0, <1>1 DEF GateOK
<1>2. CASE SkipRecorded
  <2>1. pc = "next" /\ case \in BenchCase
    BY <1>2, AtHand DEF SkipRecorded, AtCase
  <2>2. /\ case \in DOMAIN store
        /\ adaptive' = UpdateAdaptiveState(adaptive, case, store[case].outcome)
    BY <1>2, FoundIsCase DEF SkipRecorded
  <2>3. case.ctx \in Int /\ \A k \in DOMAIN adaptive.oom : adaptive.oom[k] \in Int
    BY <2>1, KeyType DEF TypeOK
  <2>4. \/ <<m, b, x>> \in adaptive.gate
        \/ /\ store[case].outcome = "ok" /\ case.conc = 1
           /\ <<m, b, x>> = <<case.model, case.backend, case.ctx>>
    BY <2>2, <2>3, Updated
  <2>5. ASSUME store[case].outcome = "ok", case.conc = 1,
               <<m, b, x>> = <<case.model, case.backend, case.ctx>>
        PROVE  WorkedAlone(m, b, x)
    BY <2>2, <2>5 DEF WorkedAlone
  <2> QED
    BY <1>0, <1>1, <2>1, <2>4, <2>5
<1>3. ASSUME NEW results \in SUBSET Answer, Measure(results)
      PROVE  WorkedAlone(m, b, x)'
  <2> DEFINE outcome == Outcome(results)
  <2>1. pc = "measure" /\ case \in BenchCase
    BY <1>3, AtHand DEF Measure
  <2>2. PICK cache : Record(outcome, cache)
    BY <1>3 DEF Measure
  <2>3. adaptive' = UpdateAdaptiveState(adaptive, case, outcome)
    BY <1>3 DEF Measure
  <2> HIDE DEF outcome
  <2>4. case \notin DOMAIN store
    BY <2>2 DEF Record
  <2>5. DOMAIN store' = DOMAIN store \cup {case} /\ store'[case].outcome = outcome
    BY <2>2, <2>4, Recorded
  <2>6. case.ctx \in Int /\ \A k \in DOMAIN adaptive.oom : adaptive.oom[k] \in Int
    BY <2>1, KeyType DEF TypeOK
  <2>7. \/ <<m, b, x>> \in adaptive.gate
        \/ /\ outcome = "ok" /\ case.conc = 1
           /\ <<m, b, x>> = <<case.model, case.backend, case.ctx>>
    BY <2>3, <2>6, Updated
  <2>8. ASSUME outcome = "ok", case.conc = 1,
               <<m, b, x>> = <<case.model, case.backend, case.ctx>>
        PROVE  WorkedAlone(m, b, x)'
    <3>1. PICK d \in DOMAIN store' : d = case
      BY <2>5
    <3>2. /\ d.model = m /\ d.backend = b /\ d.ctx = x /\ d.conc = 1
          /\ store'[d].outcome = "ok"
      BY <2>5, <2>8, <3>1
    <3> QED
      BY <3>2 DEF WorkedAlone
  <2> QED
    BY <1>1, <2>1, <2>7, <2>8
<1>4. ASSUME NEW f \in cfg.filters, Resume(f)
      PROVE  FALSE
  BY <1>4 DEF Resume, Nothing
<1>5. CASE pc # "died" /\ adaptive' = adaptive
  BY <1>1, <1>5
<1>6. \/ pc # "died" /\ adaptive' = adaptive
      \/ SkipRecorded
      \/ \E results \in SUBSET Answer : Measure(results)
      \/ \E f \in cfg.filters : Resume(f)
  BY DEF Next, SkipOom, SkipGate, NotReady, PullFails, Prepare, Finish, Crash,
         ToMeasure, AtCase
<1> QED
  BY <1>2, <1>3, <1>4, <1>5, <1>6

\* The second half: with the gate on, a row of parallel requests that worked has
\* one of a single request before it.
LEMMA ParallelStep ==
  ASSUME TypeOK, MeasureOK, GateOK, [Next]_vars, cfg'.requireSingle,
         NEW CONSTANT c, c \in DOMAIN store', c.conc > 1, store'[c].outcome = "ok"
  PROVE  WorkedAlone(c.model, c.backend, c.ctx)'
<1>1. WorkedAlone(c.model, c.backend, c.ctx) => WorkedAlone(c.model, c.backend, c.ctx)'
  BY WorkedStays
<1>2. cfg.requireSingle
  BY DEF Next, SkipRecorded, SkipOom, SkipGate, NotReady, PullFails, Prepare, Measure,
         Finish, Crash, Resume
<1>3. CASE c \in DOMAIN store
  BY <1>1, <1>2, <1>3, RowsStay DEF GateOK
<1>4. ASSUME NEW outcome, NEW cache, Record(outcome, cache), c \notin DOMAIN store
      PROVE  c = case /\ outcome = "ok"
  BY <1>4, Recorded DEF Record
<1>5. CASE c \notin DOMAIN store
  <2>1. PICK results \in SUBSET Answer : Measure(results)
    BY <1>4, <1>5 DEF Next, SkipRecorded, SkipOom, SkipGate, NotReady, PullFails, Prepare,
                      Finish, Crash, Resume
  <2>2. c = case /\ pc = "measure"
    BY <1>4, <1>5, <2>1 DEF Measure
  <2>3. <<c.model, c.backend, c.ctx>> \in adaptive.gate
    BY <1>2, <2>2 DEF MeasureOK, ShouldSkipConcurrencyGate
  <2>4. WorkedAlone(c.model, c.backend, c.ctx)
    BY <2>2, <2>3 DEF GateOK
  <2> QED
    BY <1>1, <2>4
<1> QED
  BY <1>3, <1>5

LEMMA InvInit ==
  ASSUME Init
  PROVE  Inv
BY TypeInit DEF Init, Nothing, EmptyFunction, Inv, MeasureOK, LoadedOK, GateOK

LEMMA InvStep ==
  ASSUME Inv, [Next]_vars
  PROVE  Inv'
<1>1. TypeOK' /\ MeasureOK' /\ LoadedOK'
  BY TypeStep, MeasureStep, LoadedStep DEF Inv
<1>2. GateOK'
  BY GateStep, ParallelStep DEF Inv, GateOK
<1> QED
  BY <1>1, <1>2 DEF Inv

\* MeasuredAlone: nothing the runner knows of shares an Ollama server's memory with
\* the model it measures.
THEOREM ServersHoldOneModel == Spec => []MeasuredAlone
<1>1. Inv => MeasuredAlone
  BY DEF Inv, MeasureOK, LoadedOK, MeasuredAlone
<1> QED
  BY <1>1, InvInit, InvStep, PTL DEF Spec

LEMMA WorkedBeforeRanked ==
  ASSUME Inv
  PROVE  RankedWorkedAlone
<1> SUFFICES ASSUME cfg.requireSingle, NEW k \in Ranked, k[4] > 1
             PROVE  \E c \in DOMAIN store :
                      ConfigOf(c) = <<k[1], k[2], k[3], 1>> /\ store[c].outcome = "ok"
  BY DEF RankedWorkedAlone
<1> DEFINE real == {c \in DOMAIN store : ConfigOf(c) = k /\ c.rep >= 1}
           errors == {c \in real : store[c].outcome # "ok"}
<1>1. real # {} /\ 20 * Cardinality(errors) <= Cardinality(real)
  BY DEF Ranked, Eligible
<1>2. IsFiniteSet(real) /\ Cardinality(real) \in Nat
  BY FS_Subset, FS_CardinalityType DEF Inv, TypeOK
<1>3. Cardinality(real) # 0
  BY <1>1, <1>2, FS_EmptySet
<1>4. real # errors
  <2> HIDE DEF real, errors
  <2> QED
    BY <1>1, <1>2, <1>3
<1>5. PICK c \in real : store[c].outcome = "ok"
  BY <1>4
<1>6. /\ c \in DOMAIN store /\ <<c.model, c.backend, c.ctx, c.conc>> = k
  BY <1>5 DEF ConfigOf
<1>7. PICK d \in DOMAIN store :
        /\ d.model = c.model /\ d.backend = c.backend /\ d.ctx = c.ctx /\ d.conc = 1
        /\ store[d].outcome = "ok"
  BY <1>5, <1>6 DEF Inv, GateOK, WorkedAlone
<1> QED
  BY <1>6, <1>7 DEF ConfigOf

\* RankedWorkedAlone: what is ranked for parallel requests has a row, from this run
\* or an earlier one, of a single request that worked.
THEOREM RankingIsVouchedFor == Spec => []RankedWorkedAlone
BY WorkedBeforeRanked, InvInit, InvStep, PTL DEF Spec
-----------------------------------------------------------------------------
(* Matrices that list nothing twice.                                        *)

LEMMA Distinct ==
  ASSUME DistinctCases, TypeOK, NEW j \in 1 .. Len(cases), NEW k \in 1 .. Len(cases),
         cases[j] = cases[k]
  PROVE  j = k
BY CasesType DEF DistinctCases, TypeOK

\* What is about to be measured or skipped has no row.
LEMMA NoRow ==
  ASSUME DistinctCases, TypeOK, OnceOK, (AtCase /\ Found(case) = {}) \/ pc = "measure"
  PROVE  case \notin DOMAIN store
<1>1. CASE pc = "measure"
  BY <1>1 DEF OnceOK
<1>2. CASE AtCase /\ Found(case) = {} /\ resume
  BY <1>2 DEF Found
<1>3. CASE AtCase /\ ~ resume
  <2>1. i \in 1 .. Len(cases) /\ Len(cases) \in Nat
    BY <1>3, AtHand, CasesType
  <2>2. ASSUME NEW j \in 1 .. i - 1, case = cases[j]
        PROVE  FALSE
    <3>1. j \in 1 .. Len(cases) /\ j # i
      BY <2>1
    <3> QED
      BY <2>1, <2>2, <3>1, Distinct DEF case
  <2> QED
    BY <1>3, <2>2 DEF OnceOK
<1> QED
  BY <1>1, <1>2, <1>3 DEF TypeOK

LEMMA Recording ==
  ASSUME DistinctCases, TypeOK, OnceOK, [Next]_vars,
         NEW outcome, NEW cache, Record(outcome, cache),
         (AtCase /\ Found(case) = {}) \/ pc = "measure", UNCHANGED <<cases, resume, gaps>>
  PROVE  OnceOK'
<1>1. case \notin DOMAIN store
  BY NoRow
<1>2. /\ DOMAIN store' = DOMAIN store \cup {case} /\ pc' = "next" /\ i' = i + 1
  BY <1>1, Recorded
<1>3. i \in 1 .. Len(cases) /\ case = cases[i]
  BY AtHand DEF case
<1>4. ~ resume' => \A c \in DOMAIN store' : \E j \in 1 .. i' - 1 : c = cases'[j]
  BY <1>2, <1>3 DEF OnceOK
<1>5. gaps' = 0 => \A j \in 1 .. i' - 1 : cases'[j] \in DOMAIN store'
  BY <1>2, <1>3 DEF OnceOK
<1> QED
  BY <1>2, <1>4, <1>5 DEF OnceOK

LEMMA OnceStep ==
  ASSUME DistinctCases, TypeOK, OnceOK, [Next]_vars
  PROVE  OnceOK'
<1>1. CASE SkipRecorded
  <2>1. i \in 1 .. Len(cases) /\ case = cases[i]
    BY <1>1, AtHand DEF SkipRecorded, case
  <2>2. case \in DOMAIN store /\ resume
    BY <1>1 DEF SkipRecorded, Found
  <2> QED
    BY <1>1, <2>1, <2>2 DEF SkipRecorded, AtCase, OnceOK
<1>2. CASE SkipOom \/ SkipGate
  BY <1>2, Recording DEF SkipOom, SkipGate
<1>3. CASE NotReady
  <2>1. i \in 1 .. Len(cases)
    BY <1>3, AtHand DEF NotReady, ToMeasure
  <2>2. gaps' # 0
    BY <1>3 DEF NotReady, TypeOK
  <2> QED
    BY <1>3, <2>1, <2>2 DEF NotReady, ToMeasure, AtCase, OnceOK
<1>4. ASSUME NEW fails \in BOOLEAN, Prepare(fails)
      PROVE  OnceOK'
  <2>1. case \notin DOMAIN store
    BY <1>4, NoRow DEF Prepare, ToMeasure
  <2> QED
    BY <1>4, <2>1 DEF Prepare, OnceOK, case
<1>5. ASSUME NEW results \in SUBSET Answer, Measure(results)
      PROVE  OnceOK'
  <2>1. PICK outcome, cache : Record(outcome, cache)
    BY <1>5 DEF Measure
  <2>2. pc = "measure" /\ UNCHANGED <<cases, resume, gaps>>
    BY <1>5 DEF Measure
  <2> QED
    BY <2>1, <2>2, Recording
<1>6. CASE PullFails \/ Finish \/ Crash \/ UNCHANGED vars
  BY <1>6 DEF PullFails, Finish, Crash, OnceOK, case
<1>7. ASSUME NEW f \in cfg.filters, Resume(f)
      PROVE  OnceOK'
  BY <1>7 DEF Resume, OnceOK
<1> QED
  BY <1>1, <1>2, <1>3, <1>4, <1>5, <1>6, <1>7 DEF Next

\* EachCaseOnce.
THEOREM RowsAreWrittenOnce ==
  ASSUME DistinctCases
  PROVE  Spec => []EachCaseOnce
<1>1. Init => TypeOK /\ OnceOK
  <2> SUFFICES ASSUME Init PROVE TypeOK /\ OnceOK
    OBVIOUS
  <2>1. DOMAIN store = {} /\ pc = "next" /\ i = 1
    BY DEF Init, EmptyFunction
  <2> QED
    BY <2>1, TypeInit DEF OnceOK
<1>2. TypeOK /\ OnceOK /\ [Next]_vars => (TypeOK /\ OnceOK)'
  BY DistinctCases, TypeStep, OnceStep
<1>3. TypeOK /\ OnceOK => EachCaseOnce
  <2> SUFFICES ASSUME TypeOK, OnceOK PROVE EachCaseOnce
    OBVIOUS
  <2>1. (AtCase /\ Found(case) = {}) \/ pc = "measure" => case \notin DOMAIN store
    BY DistinctCases, NoRow
  <2>2. ASSUME pc = "done", gaps = 0, NEW c \in ToSet(cases)
        PROVE  c \in DOMAIN store
    <3>1. PICK j \in 1 .. Len(cases) : c = cases[j]
      BY CasesType DEF ToSet
    <3> QED
      BY <2>2, <3>1, CasesType DEF TypeOK, OnceOK
  <2> QED
    BY <2>1, <2>2 DEF EachCaseOnce
<1> QED
  BY <1>1, <1>2, <1>3, PTL DEF Spec

\* A row teaches the same whether it is measured or read again.
LEMMA LearnRow ==
  ASSUME NEW a, NEW E, NEW s, NEW t, NEW c, Learned(a, E, s), c.ctx \in Int,
         \A k \in DOMAIN a.oom : a.oom[k] \in Int, \A d \in E : d.ctx \in Int,
         \A d \in E : t[d].outcome = s[d].outcome
  PROVE  Learned(UpdateAdaptiveState(a, c, t[c].outcome), E \cup {c}, t)
<1> DEFINE o == t[c].outcome
           u == UpdateAdaptiveState(a, c, o)
           F == E \cup {c}
<1>1. /\ \A k \in DOMAIN u.oom :
           \/ k \in DOMAIN a.oom /\ u.oom[k] = a.oom[k]
           \/ o = "oom" /\ k = Key(c) /\ u.oom[k] = c.ctx
      /\ \A k \in DOMAIN a.oom : k \in DOMAIN u.oom /\ u.oom[k] <= a.oom[k]
      /\ o = "oom" => Key(c) \in DOMAIN u.oom /\ u.oom[Key(c)] <= c.ctx
      /\ \A g : g \in u.gate <=>
           \/ g \in a.gate
           \/ o = "ok" /\ c.conc = 1 /\ g = <<c.model, c.backend, c.ctx>>
  BY Updated
<1> HIDE DEF u
<1>2. \A k \in DOMAIN u.oom : \E d \in F :
        Key(d) = k /\ d.ctx = u.oom[k] /\ t[d].outcome = "oom"
  <2> TAKE k \in DOMAIN u.oom
  <2>1. CASE k \in DOMAIN a.oom /\ u.oom[k] = a.oom[k]
    BY <2>1 DEF Learned
  <2>2. CASE o = "oom" /\ k = Key(c) /\ u.oom[k] = c.ctx
    BY <2>2
  <2> QED
    BY <1>1, <2>1, <2>2
<1>3. ASSUME NEW d \in F, t[d].outcome = "oom"
      PROVE  Key(d) \in DOMAIN u.oom /\ u.oom[Key(d)] <= d.ctx
  <2>1. CASE d = c
    BY <1>1, <1>3, <2>1
  <2>2. CASE d \in E
    <3>1. Key(d) \in DOMAIN a.oom /\ a.oom[Key(d)] <= d.ctx /\ d.ctx \in Int
      BY <1>3, <2>2 DEF Learned
    <3>2. Key(d) \in DOMAIN u.oom /\ u.oom[Key(d)] <= a.oom[Key(d)]
      BY <1>1, <3>1
    <3>3. u.oom[Key(d)] \in Int
      BY <1>1, <3>2
    <3> QED
      BY <3>1, <3>2, <3>3
  <2> QED
    BY <2>1, <2>2
<1>4. ASSUME NEW d \in F, d.conc = 1, t[d].outcome = "ok"
      PROVE  <<d.model, d.backend, d.ctx>> \in u.gate
  <2>1. CASE d = c
    BY <1>1, <1>4, <2>1
  <2>2. CASE d \in E
    <3>1. <<d.model, d.backend, d.ctx>> \in a.gate
      BY <1>4, <2>2 DEF Learned
    <3> QED
      BY <1>1, <3>1
  <2> QED
    BY <2>1, <2>2
<1>5. ASSUME NEW m, NEW b, NEW x, <<m, b, x>> \in u.gate
      PROVE  \E d \in F : /\ d.model = m /\ d.backend = b /\ d.ctx = x /\ d.conc = 1
                          /\ t[d].outcome = "ok"
  <2>1. CASE <<m, b, x>> \in a.gate
    BY <2>1 DEF Learned
  <2>2. CASE o = "ok" /\ c.conc = 1 /\ <<m, b, x>> = <<c.model, c.backend, c.ctx>>
    BY <2>2
  <2> QED
    BY <1>1, <1>5, <2>1, <2>2
<1>6. Learned(u, F, t)
  BY <1>2, <1>3, <1>4, <1>5 DEF Learned
<1> QED
  BY <1>6 DEF u

\* A row that was skipped teaches nothing.
LEMMA LearnSkipped ==
  ASSUME NEW a, NEW E, NEW s, NEW t, NEW c, Learned(a, E, s),
         \A d \in E : t[d].outcome = s[d].outcome, t[c].outcome \notin {"ok", "oom"}
  PROVE  Learned(a, E \cup {c}, t)
BY DEF Learned

\* What the scheduling skips is what the rows before the case say.
LEMMA Decisions ==
  ASSUME TypeOK, AtCase \/ pc = "measure", Learned(adaptive, Earlier(i), store)
  PROVE  /\ ShouldSkipOom(case) <=> OutOfMemoryBefore(i)
         /\ ShouldSkipConcurrencyGate(case)
              <=> cfg.requireSingle /\ case.conc > 1 /\ ~ SingleBefore(i)
<1>1. case = cases[i] /\ case \in BenchCase
  BY AtHand DEF case
<1>2. /\ Earlier(i) \subseteq DOMAIN store /\ Earlier(i) \subseteq BenchCase
      /\ case.ctx \in Int /\ \A d \in Earlier(i) : d.ctx \in Int
  BY <1>1, KeyType DEF Earlier, TypeOK
<1>3. ASSUME Key(case) \in DOMAIN adaptive.oom, case.ctx > adaptive.oom[Key(case)]
      PROVE  \E d \in Earlier(i) : /\ Key(d) = Key(case) /\ d.ctx < case.ctx
                                   /\ store[d].outcome = "oom"
  <2>1. PICK d \in Earlier(i) : /\ Key(d) = Key(case) /\ d.ctx = adaptive.oom[Key(case)]
                                /\ store[d].outcome = "oom"
    BY <1>3 DEF Learned
  <2> QED
    BY <1>2, <1>3, <2>1
<1>4. ASSUME NEW d \in Earlier(i), Key(d) = Key(case), d.ctx < case.ctx,
             store[d].outcome = "oom"
      PROVE  Key(case) \in DOMAIN adaptive.oom /\ case.ctx > adaptive.oom[Key(case)]
  <2>1. Key(case) \in DOMAIN adaptive.oom /\ adaptive.oom[Key(case)] <= d.ctx
    BY <1>4 DEF Learned
  <2>2. adaptive.oom[Key(case)] \in Int
    BY <2>1 DEF TypeOK
  <2> QED
    BY <1>2, <1>4, <2>1, <2>2
<1>5. ShouldSkipOom(case) <=> OutOfMemoryBefore(i)
  BY <1>1, <1>3, <1>4 DEF ShouldSkipOom, OutOfMemoryBefore
<1>6. <<case.model, case.backend, case.ctx>> \in adaptive.gate <=> SingleBefore(i)
  <2>1. ASSUME <<case.model, case.backend, case.ctx>> \in adaptive.gate
        PROVE  SingleBefore(i)
    <3>1. PICK d \in Earlier(i) :
            /\ d.model = case.model /\ d.backend = case.backend /\ d.ctx = case.ctx
            /\ d.conc = 1 /\ store[d].outcome = "ok"
      BY <2>1 DEF Learned
    <3>2. Key(d) = Key(case)
      BY <3>1 DEF Key
    <3> QED
      BY <1>1, <3>1, <3>2 DEF SingleBefore
  <2>2. ASSUME SingleBefore(i)
        PROVE  <<case.model, case.backend, case.ctx>> \in adaptive.gate
    <3>1. PICK d \in Earlier(i) : /\ Key(d) = Key(case) /\ d.ctx = case.ctx /\ d.conc = 1
                                  /\ store[d].outcome = "ok"
      BY <1>1, <2>2 DEF SingleBefore
    <3>2. d.model = case.model /\ d.backend = case.backend
      BY <3>1 DEF Key
    <3> QED
      BY <3>1, <3>2 DEF Learned
  <2> QED
    BY <2>1, <2>2
<1>7. cfg.requireSingle \in BOOLEAN
  BY CasesType
<1>8. ShouldSkipConcurrencyGate(case)
        <=> cfg.requireSingle /\ case.conc > 1 /\ ~ SingleBefore(i)
  BY <1>6, <1>7 DEF ShouldSkipConcurrencyGate
<1> QED
  BY <1>5, <1>8

\* A new row is the next one, and leaves what comes before the others alone.
LEMMA NewRow ==
  ASSUME DistinctCases, TypeOK, OnceOK, gaps = 0, PrefixOK,
         \A k \in DOMAIN cases : cases[k] \in DOMAIN store => Faithful(k),
         i \in 1 .. Len(cases), case \notin DOMAIN store,
         NEW outcome, NEW cache, Record(outcome, cache), UNCHANGED <<cfg, cases>>,
         outcome = "skipped_oom" <=> OutOfMemoryBefore(i),
         outcome = "skipped_concurrency_gate"
           <=> /\ ~ OutOfMemoryBefore(i) /\ cfg.requireSingle /\ case.conc > 1
               /\ ~ SingleBefore(i)
  PROVE  /\ PrefixOK'
         /\ (\A k \in DOMAIN cases : cases[k] \in DOMAIN store => Faithful(k))'
         /\ Earlier(i)' = Earlier(i) \cup {case}
         /\ \A d \in Earlier(i) : store'[d].outcome = store[d].outcome
         /\ store'[case].outcome = outcome /\ pc' = "next"
<1>1. /\ DOMAIN store' = DOMAIN store \cup {case}
      /\ \A c \in DOMAIN store : store'[c] = store[c]
      /\ store'[case].outcome = outcome
      /\ pc' = "next" /\ i' = i + 1
  BY Recorded
<1>2. /\ DOMAIN cases = 1 .. Len(cases) /\ Len(cases) \in Nat /\ case = cases[i]
      /\ cases' = cases /\ cfg' = cfg
  BY CasesType DEF case
<1>3. \A j \in 1 .. Len(cases) : cases[j] = case => j = i
  BY <1>2, Distinct
<1>4. \A j \in 1 .. i - 1 : j \in 1 .. Len(cases) /\ cases[j] \in DOMAIN store
  BY <1>2 DEF OnceOK
<1>5. \A j \in 1 .. Len(cases) : cases[j] \in DOMAIN store => j < i
  <2> SUFFICES ASSUME NEW j \in 1 .. Len(cases), cases[j] \in DOMAIN store, ~ (j < i)
               PROVE  FALSE
    OBVIOUS
  <2>1. i \in 1 .. j
    OBVIOUS
  <2>2. cases[i] \in DOMAIN store
    BY <1>2, <2>1 DEF PrefixOK
  <2> QED
    BY <1>2, <2>2
<1>6. PrefixOK'
  <2> SUFFICES ASSUME NEW j \in 1 .. Len(cases), cases[j] \in DOMAIN store',
                      NEW k \in 1 .. j
               PROVE  cases[k] \in DOMAIN store'
    BY <1>2 DEF PrefixOK
  <2>1. j <= i
    BY <1>1, <1>3, <1>5
  <2>2. k = i \/ k \in 1 .. i - 1
    BY <2>1
  <2> QED
    BY <1>1, <1>2, <1>4, <2>2
<1>7. ASSUME NEW CONSTANT k, k \in 1 .. i
      PROVE  Earlier(k)' = Earlier(k)
  <2>1. \A j \in 1 .. k - 1 : cases[j] # case
    BY <1>2, <1>3, <1>7
  <2> QED
    BY <1>1, <1>2, <2>1 DEF Earlier
<1>8. \A k : Earlier(k) \subseteq DOMAIN store
  BY DEF Earlier
<1>9. ASSUME NEW CONSTANT k, k \in 1 .. i
      PROVE  /\ OutOfMemoryBefore(k)' <=> OutOfMemoryBefore(k)
             /\ SingleBefore(k)' <=> SingleBefore(k)
  <2>1. \A d \in Earlier(k) : store'[d] = store[d]
    BY <1>1, <1>8
  <2> QED
    BY <1>2, <1>7, <1>9, <2>1 DEF OutOfMemoryBefore, SingleBefore, Key
<1>10. ASSUME NEW CONSTANT k, k \in 1 .. Len(cases), cases[k] \in DOMAIN store'
       PROVE  Faithful(k)'
  <2>1. k = i \/ (k < i /\ cases[k] \in DOMAIN store)
    BY <1>1, <1>3, <1>5, <1>10
  <2>2. k \in 1 .. i
    BY <1>10, <2>1
  <2>3. CASE k = i
    BY <1>1, <1>2, <1>9, <2>2, <2>3 DEF Faithful
  <2>4. CASE k < i /\ cases[k] \in DOMAIN store
    <3>1. Faithful(k) /\ store'[cases[k]] = store[cases[k]]
      BY <1>1, <1>2, <1>10, <2>4
    <3> QED
      BY <1>2, <1>9, <2>2, <3>1 DEF Faithful
  <2> QED
    BY <2>1, <2>3, <2>4
<1>11. Earlier(i)' = Earlier(i) \cup {case}
  <2>1. 1 .. (i + 1) - 1 = (1 .. i - 1) \cup {i}
    BY <1>2
  <2>2. {cases[j] : j \in 1 .. (i + 1) - 1} = {cases[j] : j \in 1 .. i - 1} \cup {case}
    BY <1>2, <2>1
  <2>3. case \notin {cases[j] : j \in 1 .. i - 1}
    BY <1>2, <1>3, <1>4
  <2> QED
    BY <1>1, <1>2, <2>2, <2>3 DEF Earlier
<1> QED
  BY <1>1, <1>2, <1>6, <1>8, <1>10, <1>11

LEMMA BeforeStep ==
  ASSUME DistinctCases, Inv, OnceOK, AsBefore, [Next]_vars
  PROVE  AsBefore'
<1> SUFFICES ASSUME ~ mixed', gaps' = 0
             PROVE  (/\ PrefixOK /\ LearnedOK
                     /\ \A k \in DOMAIN cases : cases[k] \in DOMAIN store => Faithful(k))'
  BY DEF AsBefore
<1>0. TypeOK /\ MeasureOK
  BY DEF Inv
<1>1. ~ mixed /\ gaps = 0 /\ ~ NotReady
  <2>1. ~ mixed
    BY DEF Next, SkipRecorded, SkipOom, SkipGate, NotReady, PullFails, Prepare, Measure,
           Finish, Crash, Resume
  <2>2. gaps \in Nat
    BY <1>0 DEF TypeOK
  <2>3. ~ NotReady
    BY <2>2 DEF NotReady
  <2>4. gaps' = gaps
    BY <2>3 DEF Next, SkipRecorded, SkipOom, SkipGate, PullFails, Prepare, Measure,
                Finish, Crash, Resume
  <2> QED
    BY <2>1, <2>3, <2>4
<1>2. /\ PrefixOK /\ LearnedOK
      /\ \A k \in DOMAIN cases : cases[k] \in DOMAIN store => Faithful(k)
  BY <1>1 DEF AsBefore
<1>3. ASSUME UNCHANGED <<cfg, cases, store>>
      PROVE  /\ PrefixOK'
             /\ (\A k \in DOMAIN cases : cases[k] \in DOMAIN store => Faithful(k))'
  <2>1. PrefixOK'
    BY <1>2, <1>3 DEF PrefixOK
  <2>2. ASSUME NEW CONSTANT k, k \in DOMAIN cases, cases[k] \in DOMAIN store
        PROVE  Faithful(k)'
    BY <1>2, <1>3, <2>2 DEF Faithful, OutOfMemoryBefore, SingleBefore, Earlier, Key
  <2> QED
    BY <1>3, <2>1, <2>2
<1>4. ASSUME NEW outcome, NEW cache, Record(outcome, cache), UNCHANGED <<cfg, cases>>,
             (AtCase /\ Found(case) = {}) \/ pc = "measure",
             outcome = "skipped_oom" <=> ShouldSkipOom(case),
             outcome = "skipped_concurrency_gate"
               <=> ~ ShouldSkipOom(case) /\ ShouldSkipConcurrencyGate(case),
             \/ outcome \notin {"ok", "oom"} /\ adaptive' = adaptive
             \/ adaptive' = UpdateAdaptiveState(adaptive, case, outcome)
      PROVE  (/\ PrefixOK /\ LearnedOK
              /\ \A k \in DOMAIN cases : cases[k] \in DOMAIN store => Faithful(k))'
  <2>1. /\ i \in 1 .. Len(cases) /\ case \in BenchCase /\ case \notin DOMAIN store
        /\ case.ctx \in Int
    BY <1>0, <1>4, AtHand, NoRow, KeyType
  <2>2. Learned(adaptive, Earlier(i), store)
    BY <1>2, <1>4 DEF LearnedOK, AtCase
  <2>3. /\ ShouldSkipOom(case) <=> OutOfMemoryBefore(i)
        /\ ShouldSkipConcurrencyGate(case)
             <=> cfg.requireSingle /\ case.conc > 1 /\ ~ SingleBefore(i)
    BY <1>0, <1>4, <2>2, Decisions
  <2>4. /\ PrefixOK'
        /\ (\A k \in DOMAIN cases : cases[k] \in DOMAIN store => Faithful(k))'
        /\ Earlier(i)' = Earlier(i) \cup {case}
        /\ \A d \in Earlier(i) : store'[d].outcome = store[d].outcome
        /\ store'[case].outcome = outcome /\ pc' = "next"
    BY <1>0, <1>1, <1>2, <1>4, <2>1, <2>3, NewRow
  <2>5. /\ \A k \in DOMAIN adaptive.oom : adaptive.oom[k] \in Int
        /\ \A d \in Earlier(i) : d.ctx \in Int
    BY <1>0, KeyType DEF TypeOK, Earlier
  <2>6. CASE outcome \notin {"ok", "oom"} /\ adaptive' = adaptive
    <3>1. Learned(adaptive, Earlier(i) \cup {case}, store')
      BY <2>2, <2>4, <2>6, LearnSkipped
    <3> QED
      BY <2>4, <2>6, <3>1 DEF LearnedOK, Learned, Key
  <2>7. CASE adaptive' = UpdateAdaptiveState(adaptive, case, outcome)
    <3>1. Learned(UpdateAdaptiveState(adaptive, case, store'[case].outcome),
                  Earlier(i) \cup {case}, store')
      BY <2>1, <2>2, <2>4, <2>5, LearnRow
    <3>2. Learned(adaptive', Earlier(i)', store')
      BY <2>4, <2>7, <3>1
    <3> QED
      BY <2>4, <3>2 DEF LearnedOK, Learned, Key
  <2> QED
    BY <1>4, <2>6, <2>7
<1>5. CASE SkipRecorded
  <2>1. /\ i \in 1 .. Len(cases) /\ case = cases[i] /\ case \in BenchCase
        /\ case.ctx \in Int /\ Len(cases) \in Nat /\ DOMAIN cases = 1 .. Len(cases)
    BY <1>0, <1>5, AtHand, KeyType, CasesType DEF SkipRecorded, case
  <2>2. /\ case \in DOMAIN store
        /\ adaptive' = UpdateAdaptiveState(adaptive, case, store[case].outcome)
    BY <1>5, FoundIsCase DEF SkipRecorded
  <2>3. UNCHANGED <<cfg, cases, store, pc>> /\ pc = "next" /\ i' = i + 1
    BY <1>5 DEF SkipRecorded, AtCase
  <2>4. Earlier(i)' = Earlier(i) \cup {case}
    <3>1. 1 .. (i + 1) - 1 = (1 .. i - 1) \cup {i}
      BY <2>1
    <3>2. {cases[j] : j \in 1 .. (i + 1) - 1} = {cases[j] : j \in 1 .. i - 1} \cup {case}
      BY <2>1, <3>1
    <3> QED
      BY <2>2, <2>3, <3>2 DEF Earlier
  <2>5. /\ \A k \in DOMAIN adaptive.oom : adaptive.oom[k] \in Int
        /\ \A d \in Earlier(i) : d.ctx \in Int
    BY <1>0, KeyType DEF TypeOK, Earlier
  <2>6. Learned(adaptive, Earlier(i), store)
    BY <1>2, <2>3 DEF LearnedOK
  <2>7. Learned(UpdateAdaptiveState(adaptive, case, store[case].outcome),
                Earlier(i) \cup {case}, store)
    BY <2>1, <2>5, <2>6, LearnRow
  <2>8. Learned(adaptive', Earlier(i)', store')
    BY <2>2, <2>3, <2>4, <2>7
  <2>9. LearnedOK'
    BY <2>8 DEF LearnedOK, Learned, Key
  <2> QED
    BY <1>3, <2>3, <2>9
<1>6. CASE SkipOom
  BY <1>4, <1>6 DEF SkipOom
<1>7. CASE SkipGate
  BY <1>4, <1>7 DEF SkipGate
<1>8. ASSUME NEW results \in SUBSET Answer, Measure(results)
      PROVE  (/\ PrefixOK /\ LearnedOK
              /\ \A k \in DOMAIN cases : cases[k] \in DOMAIN store => Faithful(k))'
  <2> DEFINE outcome == Outcome(results)
  <2>1. outcome \in Measured
    BY <1>8, OutcomeType DEF Measure
  <2>2. PICK cache : Record(outcome, cache)
    BY <1>8 DEF Measure
  <2>3. /\ pc = "measure" /\ UNCHANGED <<cfg, cases>>
        /\ adaptive' = UpdateAdaptiveState(adaptive, case, outcome)
    BY <1>8 DEF Measure
  <2> HIDE DEF outcome
  <2>4. ~ ShouldSkipOom(case) /\ ~ ShouldSkipConcurrencyGate(case)
    BY <1>0, <2>3 DEF MeasureOK
  <2>5. outcome # "skipped_oom" /\ outcome # "skipped_concurrency_gate"
    BY <2>1 DEF Measured
  <2> QED
    BY <1>4, <2>2, <2>3, <2>4, <2>5
<1>9. ASSUME NEW fails \in BOOLEAN, Prepare(fails)
      PROVE  LearnedOK' /\ UNCHANGED <<cfg, cases, store>>
  <2>1. pc = "next" /\ UNCHANGED <<cfg, cases, store, i, adaptive>>
    BY <1>9 DEF Prepare, ToMeasure, AtCase
  <2> QED
    BY <1>2, <2>1 DEF LearnedOK, Learned, Earlier, Key
<1>10. CASE PullFails \/ Finish \/ Crash
  <2>1. pc' \in {"died", "done"} /\ UNCHANGED <<cfg, cases, store>>
    BY <1>10 DEF PullFails, Finish, Crash
  <2>2. LearnedOK'
    BY <2>1 DEF LearnedOK
  <2> QED
    BY <1>3, <2>1, <2>2
<1>11. ASSUME NEW f \in cfg.filters, Resume(f)
       PROVE  LearnedOK' /\ UNCHANGED <<cfg, cases, store>>
  <2>1. f = filter
    BY <1>11 DEF Resume
  <2>2. UNCHANGED <<cfg, cases, store>>
    BY <1>0, <1>11, <2>1 DEF Resume, TypeOK
  <2>3. /\ i' = 1 /\ DOMAIN adaptive'.oom = {} /\ adaptive'.gate = {}
    BY <1>11 DEF Resume, Nothing, EmptyFunction
  <2>4. Earlier(i)' = {}
    BY <2>3 DEF Earlier
  <2>5. Learned(adaptive', Earlier(i)', store')
    BY <2>3, <2>4 DEF Learned
  <2> QED
    BY <2>2, <2>5 DEF LearnedOK, Learned, Key
<1>12. CASE UNCHANGED vars
  <2>1. LearnedOK'
    BY <1>2, <1>12 DEF LearnedOK, Learned, Earlier, Key
  <2> QED
    BY <1>3, <1>12, <2>1
<1> QED
  BY <1>1, <1>3, <1>5, <1>6, <1>7, <1>8, <1>9, <1>10, <1>11, <1>12 DEF Next

LEMMA SweepInit ==
  ASSUME Init
  PROVE  OnceOK /\ AsBefore
<1>1. DOMAIN store = {} /\ pc = "next" /\ i = 1
  BY DEF Init, EmptyFunction
<1>2. DOMAIN adaptive.oom = {} /\ adaptive.gate = {}
  BY DEF Init, Nothing, EmptyFunction
<1>3. Earlier(i) = {}
  BY <1>1 DEF Earlier
<1> QED
  BY <1>1, <1>2, <1>3 DEF OnceOK, AsBefore, PrefixOK, LearnedOK, Learned

\* AsIfUninterrupted: however often a sweep was killed and resumed with its filter,
\* each row is what the rows before it entail.
THEOREM ResumingChangesNothing ==
  ASSUME DistinctCases
  PROVE  Spec => []AsIfUninterrupted
<1>1. Init => Inv /\ Sweep
  BY InvInit, SweepInit DEF Sweep
<1>2. Inv /\ Sweep /\ [Next]_vars => (Inv /\ Sweep)'
  BY DistinctCases, InvStep, OnceStep, BeforeStep DEF Sweep, Inv
<1>3. Inv /\ Sweep => AsIfUninterrupted
  BY DEF Sweep, AsBefore, Faithful, OutOfMemoryBefore, SingleBefore, AsIfUninterrupted
<1> QED
  BY <1>1, <1>2, <1>3, PTL DEF Spec
=============================================================================
