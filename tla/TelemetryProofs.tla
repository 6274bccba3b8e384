-------------------------- MODULE TelemetryProofs ---------------------------
(***************************************************************************)
(* Proofs about the log of a worker, for logs of any length: the one pass   *)
(* finds what the five parsers found, a row is of the last attempt, and the *)
(* backfill scripts find what finalize recorded.                            *)
(***************************************************************************)
EXTENDS Telemetry, FiniteSetTheorems, WellFoundedInduction, TLAPS

\* A set of numbers stands for a property of them: the lemma is cited with the set.
LEMMA SetInduction ==
  ASSUME NEW S, 0 \in S, \A n \in Nat : n \in S => n + 1 \in S
  PROVE  Nat \subseteq S
<1> SUFFICES ASSUME NEW k \in Nat, k \notin S PROVE FALSE
  OBVIOUS
<1>1. Nat \ S # {} /\ Nat \ S \subseteq Nat
  OBVIOUS
<1>2. PICK m \in Nat \ S : \A j \in Nat \ S : <<j, m>> \notin OpToRel(<, Nat)
  BY <1>1, WFMin, NatLessThanWellFounded, Zenon
<1>3. \A j \in Nat \ S : ~ (j < m)
  BY <1>2, Zenon DEF OpToRel
<1>4. m # 0
  OBVIOUS
<1>5. m - 1 \in Nat /\ m - 1 < m /\ (m - 1) + 1 = m
  BY <1>4
<1>6. m - 1 \in S
  BY <1>3, <1>5
<1> QED
  BY <1>5, <1>6

LEMMA MaxIsLast ==
  ASSUME NEW n \in Nat, NEW T \in SUBSET (1 .. n), n \in T
  PROVE  Max(T) = n
<1>1. \A y \in T : n >= y
  OBVIOUS
<1>2. \A x \in T : x >= n => x = n
  OBVIOUS
<1> QED
  BY <1>1, <1>2, Zenon DEF Max
-----------------------------------------------------------------------------
(* The folds.  A fold is a function on sets of positions; a run of it is    *)
(* the accumulator after each line.                                         *)

\* The step of each fold, so that what they share is said once.
StepOf(k, acc, x) ==
    CASE k = "event" -> HandleEvent(acc, x)
      [] k = "usage" -> UsageStep(acc, x)
      [] k = "walk" -> WalkStep(acc, x)
      [] k = "block" -> AccumulateAssistantBlock(acc, x)
      [] k = "content" -> AccumulateContentBlock(acc, x)
      [] k = "signal" -> SignalStep(acc, x)

Kinds == {"event", "usage", "walk", "block", "content", "signal"}

FoldOf(k, base, s, N, g) ==
    g = [T \in SUBSET (1 .. N) |->
            IF T = {} THEN base ELSE StepOf(k, g[T \ {Max(T)}], s[Max(T)])]

RunOf(k, base, s, N, f) ==
    /\ f[0] = base
    /\ \A n \in 0 .. N - 1 : f[n + 1] = StepOf(k, f[n], s[n + 1])

LEMMA FoldGrows ==
  ASSUME NEW k, NEW base, NEW s, NEW n \in Nat, NEW g, FoldOf(k, base, s, n, g)
  PROVE  \E h : FoldOf(k, base, s, n + 1, h)
<1> DEFINE Body(f, T) == IF T = {} THEN base ELSE StepOf(k, f[T \ {Max(T)}], s[Max(T)])
           h == [T \in SUBSET (1 .. n + 1) |->
                    IF n + 1 \in T THEN StepOf(k, g[T \ {n + 1}], s[n + 1]) ELSE g[T]]
<1>1. ASSUME NEW T \in SUBSET (1 .. n + 1), n + 1 \in T
      PROVE  h[T] = Body(h, T)
  <2>1. Max(T) = n + 1
    BY <1>1, MaxIsLast
  <2>2. T \ {n + 1} \in SUBSET (1 .. n)
    OBVIOUS
  <2>3. h[T \ {n + 1}] = g[T \ {n + 1}]
    BY <2>2
  <2> QED
    BY <1>1, <2>1, <2>3
<1>2. ASSUME NEW T \in SUBSET (1 .. n + 1), n + 1 \notin T
      PROVE  h[T] = Body(h, T)
  <2>1. T \in SUBSET (1 .. n) /\ h[T] = g[T]
    BY <1>2
  <2>2. g[T] = Body(g, T)
    BY <2>1 DEF FoldOf
  <2>3. CASE T = {}
    BY <2>1, <2>2, <2>3
  <2>4. CASE T # {}
    <3>1. T \ {Max(T)} \in SUBSET (1 .. n)
      BY <2>1
    <3>2. h[T \ {Max(T)}] = g[T \ {Max(T)}]
      BY <3>1
    <3> QED
      BY <2>1, <2>2, <3>2
  <2> QED
    BY <2>3, <2>4
<1>3. FoldOf(k, base, s, n + 1, h)
  BY <1>1, <1>2 DEF FoldOf
<1> QED
  BY <1>3

LEMMA FoldExists ==
  ASSUME NEW k, NEW base, NEW s, NEW N \in Nat
  PROVE  \E g : FoldOf(k, base, s, N, g)
<1> DEFINE S == {n \in Nat : \E g : FoldOf(k, base, s, n, g)}
<1>1. FoldOf(k, base, s, 0, [T \in {{}} |-> base])
  BY DEF FoldOf
<1>2. 0 \in S
  BY <1>1
<1>3. \A n \in Nat : n \in S => n + 1 \in S
  BY FoldGrows
<1> HIDE DEF S
<1>4. Nat \subseteq S
  BY <1>2, <1>3, SetInduction
<1> QED
  BY <1>4 DEF S

\* The values of a fold at the initial segments of the positions are a run of it.
LEMMA FoldRun ==
  ASSUME NEW k, NEW base, NEW s, NEW N \in Nat, NEW g, FoldOf(k, base, s, N, g)
  PROVE  RunOf(k, base, s, N, [n \in 0 .. N |-> g[1 .. n]])
<1>1. g[1 .. 0] = base
  <2>1. 1 .. 0 = {} /\ {} \in SUBSET (1 .. N)
    OBVIOUS
  <2> QED
    BY <2>1 DEF FoldOf
<1>2. ASSUME NEW n \in 0 .. N - 1
      PROVE  g[1 .. n + 1] = StepOf(k, g[1 .. n], s[n + 1])
  <2>1. n + 1 \in Nat /\ n + 1 <= N /\ n + 1 \in 1 .. n + 1
    OBVIOUS
  <2>2. 1 .. n + 1 \in SUBSET (1 .. N) /\ 1 .. n + 1 # {}
    <3>1. \A i \in 1 .. n + 1 : i \in 1 .. N
      BY <2>1
    <3> QED
      BY <2>1, <3>1, Zenon
  <2>3. Max(1 .. n + 1) = n + 1
    BY <2>1, MaxIsLast
  <2>4. (1 .. n + 1) \ {n + 1} = 1 .. n
    OBVIOUS
  <2> QED
    BY <2>2, <2>3, <2>4 DEF FoldOf
<1> QED
  BY <1>1, <1>2 DEF RunOf

\* A run along the lines there were before goes on from where they ended.
LEMMA RunsAgree ==
  ASSUME NEW k, NEW base, NEW s, NEW t, NEW N \in Nat, NEW M \in Nat, NEW f, NEW g,
         RunOf(k, base, s, N, f), RunOf(k, base, t, M, g),
         N <= M, \A i \in 1 .. N : s[i] = t[i]
  PROVE  f[N] = g[N]
<1> DEFINE S == {n \in Nat : n <= N => f[n] = g[n]}
<1>1. 0 \in S
  BY DEF RunOf
<1>2. ASSUME NEW n \in Nat, n \in S PROVE n + 1 \in S
  <2> SUFFICES ASSUME n + 1 <= N PROVE f[n + 1] = g[n + 1]
    OBVIOUS
  <2>1. n \in 0 .. N - 1 /\ n \in 0 .. M - 1 /\ n + 1 \in 1 .. N /\ n <= N
    OBVIOUS
  <2>2. f[n] = g[n] /\ s[n + 1] = t[n + 1]
    BY <1>2, <2>1
  <2>3. /\ f[n + 1] = StepOf(k, f[n], s[n + 1])
        /\ g[n + 1] = StepOf(k, g[n], t[n + 1])
    BY <2>1 DEF RunOf
  <2> QED
    BY <2>2, <2>3
<1>3. \A n \in Nat : n \in S => n + 1 \in S
  BY <1>2
<1> HIDE DEF S
<1>4. Nat \subseteq S
  BY <1>1, <1>3, SetInduction
<1>5. N \in S
  BY <1>4
<1> QED
  BY <1>5 DEF S

LEMMA EventRun ==
  ASSUME NEW s, NEW N \in Nat, DOMAIN s = 1 .. N
  PROVE  \E f : RunOf("event", Accum, s, N, f) /\ FoldLeft(HandleEvent, Accum, s) = f[N]
<1> DEFINE Fun(g) == g = [T \in SUBSET (1 .. N) |->
                             IF T = {} THEN Accum
                             ELSE HandleEvent(g[T \ {Max(T)}], s[Max(T)])]
           G == CHOOSE g : Fun(g)
<1>1. \A g : Fun(g) <=> FoldOf("event", Accum, s, N, g)
  BY DEF FoldOf, StepOf
<1>2. FoldLeft(HandleEvent, Accum, s) = G[1 .. N]
  BY DEF FoldLeft, MapThenFoldSet
<1> HIDE DEF Fun
<1>3. \E g : Fun(g)
  BY <1>1, FoldExists
<1>4. FoldOf("event", Accum, s, N, G)
  BY <1>1, <1>3
<1> HIDE DEF G
<1>5. RunOf("event", Accum, s, N, [n \in 0 .. N |-> G[1 .. n]])
  BY <1>4, FoldRun
<1> QED
  BY <1>2, <1>5

LEMMA UsageRun ==
  ASSUME NEW s, NEW N \in Nat, DOMAIN s = 1 .. N
  PROVE  \E f : RunOf("usage", NoUsage, s, N, f) /\ FoldLeft(UsageStep, NoUsage, s) = f[N]
<1> DEFINE Fun(g) == g = [T \in SUBSET (1 .. N) |->
                             IF T = {} THEN NoUsage
                             ELSE UsageStep(g[T \ {Max(T)}], s[Max(T)])]
           G == CHOOSE g : Fun(g)
<1>1. \A g : Fun(g) <=> FoldOf("usage", NoUsage, s, N, g)
  BY DEF FoldOf, StepOf
<1>2. FoldLeft(UsageStep, NoUsage, s) = G[1 .. N]
  BY DEF FoldLeft, MapThenFoldSet
<1> HIDE DEF Fun
<1>3. \E g : Fun(g)
  BY <1>1, FoldExists
<1>4. FoldOf("usage", NoUsage, s, N, G)
  BY <1>1, <1>3
<1> HIDE DEF G
<1>5. RunOf("usage", NoUsage, s, N, [n \in 0 .. N |-> G[1 .. n]])
  BY <1>4, FoldRun
<1> QED
  BY <1>2, <1>5

LEMMA WalkRun ==
  ASSUME NEW s, NEW N \in Nat, DOMAIN s = 1 .. N
  PROVE  \E f : RunOf("walk", NoBehavior, s, N, f) /\ FoldLeft(WalkStep, NoBehavior, s) = f[N]
<1> DEFINE Fun(g) == g = [T \in SUBSET (1 .. N) |->
                             IF T = {} THEN NoBehavior
                             ELSE WalkStep(g[T \ {Max(T)}], s[Max(T)])]
           G == CHOOSE g : Fun(g)
<1>1. \A g : Fun(g) <=> FoldOf("walk", NoBehavior, s, N, g)
  BY DEF FoldOf, StepOf
<1>2. FoldLeft(WalkStep, NoBehavior, s) = G[1 .. N]
  BY DEF FoldLeft, MapThenFoldSet
<1> HIDE DEF Fun
<1>3. \E g : Fun(g)
  BY <1>1, FoldExists
<1>4. FoldOf("walk", NoBehavior, s, N, G)
  BY <1>1, <1>3
<1> HIDE DEF G
<1>5. RunOf("walk", NoBehavior, s, N, [n \in 0 .. N |-> G[1 .. n]])
  BY <1>4, FoldRun
<1> QED
  BY <1>2, <1>5

LEMMA BlockRun ==
  ASSUME NEW base, NEW s, NEW N \in Nat, DOMAIN s = 1 .. N
  PROVE  \E f : RunOf("block", base, s, N, f) /\ FoldLeft(AccumulateAssistantBlock, base, s) = f[N]
<1> DEFINE Fun(g) == g = [T \in SUBSET (1 .. N) |->
                             IF T = {} THEN base
                             ELSE AccumulateAssistantBlock(g[T \ {Max(T)}], s[Max(T)])]
           G == CHOOSE g : Fun(g)
<1>1. \A g : Fun(g) <=> FoldOf("block", base, s, N, g)
  BY DEF FoldOf, StepOf
<1>2. FoldLeft(AccumulateAssistantBlock, base, s) = G[1 .. N]
  BY DEF FoldLeft, MapThenFoldSet
<1> HIDE DEF Fun
<1>3. \E g : Fun(g)
  BY <1>1, FoldExists
<1>4. FoldOf("block", base, s, N, G)
  BY <1>1, <1>3
<1> HIDE DEF G
<1>5. RunOf("block", base, s, N, [n \in 0 .. N |-> G[1 .. n]])
  BY <1>4, FoldRun
<1> QED
  BY <1>2, <1>5

LEMMA ContentRun ==
  ASSUME NEW base, NEW s, NEW N \in Nat, DOMAIN s = 1 .. N
  PROVE  \E f : RunOf("content", base, s, N, f) /\ FoldLeft(AccumulateContentBlock, base, s) = f[N]
<1> DEFINE Fun(g) == g = [T \in SUBSET (1 .. N) |->
                             IF T = {} THEN base
                             ELSE AccumulateContentBlock(g[T \ {Max(T)}], s[Max(T)])]
           G == CHOOSE g : Fun(g)
<1>1. \A g : Fun(g) <=> FoldOf("content", base, s, N, g)
  BY DEF FoldOf, StepOf
<1>2. FoldLeft(AccumulateContentBlock, base, s) = G[1 .. N]
  BY DEF FoldLeft, MapThenFoldSet
<1> HIDE DEF Fun
<1>3. \E g : Fun(g)
  BY <1>1, FoldExists
<1>4. FoldOf("content", base, s, N, G)
  BY <1>1, <1>3
<1> HIDE DEF G
<1>5. RunOf("content", base, s, N, [n \in 0 .. N |-> G[1 .. n]])
  BY <1>4, FoldRun
<1> QED
  BY <1>2, <1>5

LEMMA SignalRun ==
  ASSUME NEW s, NEW N \in Nat, DOMAIN s = 1 .. N
  PROVE  \E f : RunOf("signal", NoSignals, s, N, f) /\ FoldLeft(SignalStep, NoSignals, s) = f[N]
<1> DEFINE Fun(g) == g = [T \in SUBSET (1 .. N) |->
                             IF T = {} THEN NoSignals
                             ELSE SignalStep(g[T \ {Max(T)}], s[Max(T)])]
           G == CHOOSE g : Fun(g)
<1>1. \A g : Fun(g) <=> FoldOf("signal", NoSignals, s, N, g)
  BY DEF FoldOf, StepOf
<1>2. FoldLeft(SignalStep, NoSignals, s) = G[1 .. N]
  BY DEF FoldLeft, MapThenFoldSet
<1> HIDE DEF Fun
<1>3. \E g : Fun(g)
  BY <1>1, FoldExists
<1>4. FoldOf("signal", NoSignals, s, N, G)
  BY <1>1, <1>3
<1> HIDE DEF G
<1>5. RunOf("signal", NoSignals, s, N, [n \in 0 .. N |-> G[1 .. n]])
  BY <1>4, FoldRun
<1> QED
  BY <1>2, <1>5
-----------------------------------------------------------------------------
(* Counting positions up to one of them.                                    *)

CountTo(J, n) == Cardinality({j \in J : j <= n})

LEMMA CountNext ==
  ASSUME NEW J, \A j \in J : j \in Nat /\ j > 0, NEW n \in Nat
  PROVE  /\ IsFiniteSet({j \in J : j <= n}) /\ CountTo(J, n) \in Nat
         /\ CountTo(J, 0) = 0
         /\ CountTo(J, n + 1) = IF n + 1 \in J THEN CountTo(J, n) + 1 ELSE CountTo(J, n)
<1> DEFINE Before == {j \in J : j <= n}
<1>1. IsFiniteSet(Before)
  <2>1. Before \in SUBSET (1 .. n)
    OBVIOUS
  <2>2. IsFiniteSet(1 .. n)
    BY FS_Interval
  <2> HIDE DEF Before
  <2> QED
    BY <2>1, <2>2, FS_Subset
<1>2. {j \in J : j <= 0} = {}
  OBVIOUS
<1>3. {j \in J : j <= n + 1} = IF n + 1 \in J THEN Before \cup {n + 1} ELSE Before
  OBVIOUS
<1>4. n + 1 \notin Before
  OBVIOUS
<1> HIDE DEF Before
<1>5. Cardinality(Before) \in Nat
      /\ Cardinality(Before \cup {n + 1}) = Cardinality(Before) + 1
  BY <1>1, <1>4, FS_AddElement, FS_CardinalityType
<1>6. CountTo(J, n) = Cardinality(Before)
  BY DEF CountTo, Before
<1>7. CountTo(J, 0) = 0
  BY <1>2, FS_EmptySet DEF CountTo
<1>8. CountTo(J, n + 1) = IF n + 1 \in J THEN CountTo(J, n) + 1 ELSE CountTo(J, n)
  BY <1>3, <1>5, <1>6 DEF CountTo
<1> QED
  BY <1>1, <1>5, <1>6, <1>7, <1>8 DEF Before

LEMMA CountAll ==
  ASSUME NEW N \in Nat, NEW J, \A j \in J : j \in 1 .. N PROVE CountTo(J, N) = Cardinality(J)
<1>1. {j \in J : j <= N} = J
  OBVIOUS
<1> QED
  BY <1>1 DEF CountTo

\* Places: pairs of a line and a position in it.
PlacesTo(I, J, n) == UNION {{i} \X J[i] : i \in {i \in I : i <= n}}

LEMMA PlacesNext ==
  ASSUME NEW I, NEW J, \A i \in I : i \in Nat /\ i > 0, NEW n \in Nat,
         \A i \in I : IsFiniteSet(J[i]), IsFiniteSet(PlacesTo(I, J, n))
  PROVE  /\ IsFiniteSet(PlacesTo(I, J, n + 1))
         /\ Cardinality(PlacesTo(I, J, n + 1)) =
              IF n + 1 \in I THEN Cardinality(PlacesTo(I, J, n)) + Cardinality(J[n + 1])
              ELSE Cardinality(PlacesTo(I, J, n))
<1>1. CASE n + 1 \notin I
  <2>1. {i \in I : i <= n + 1} = {i \in I : i <= n}
    BY <1>1
  <2> QED
    BY <1>1, <2>1 DEF PlacesTo
<1>2. CASE n + 1 \in I
  <2> DEFINE P == PlacesTo(I, J, n)
             Q == {n + 1} \X J[n + 1]
  <2>1. {i \in I : i <= n + 1} = {i \in I : i <= n} \cup {n + 1}
    BY <1>2
  <2>2. PlacesTo(I, J, n + 1) = P \cup Q
    BY <2>1 DEF PlacesTo
  <2>3. P \cap Q = {}
    <3>1. \A i \in I : i <= n => i # n + 1
      OBVIOUS
    <3>2. \A p \in P : \E i \in I : i <= n /\ p \in {i} \X J[i]
      BY DEF PlacesTo
    <3> HIDE DEF P
    <3> QED
      BY <3>1, <3>2
  <2>4. IsFiniteSet({n + 1}) /\ Cardinality({n + 1}) = 1
    BY FS_Singleton
  <2>5. IsFiniteSet(J[n + 1]) /\ Cardinality(J[n + 1]) \in Nat
    BY <1>2, FS_CardinalityType
  <2>6. IsFiniteSet(Q) /\ Cardinality(Q) = Cardinality(J[n + 1])
    BY <2>4, <2>5, FS_Product
  <2>7. IsFiniteSet(P) /\ Cardinality(P) \in Nat
    BY FS_CardinalityType
  <2> HIDE DEF P, Q
  <2>8. /\ IsFiniteSet(P \cup Q)
        /\ Cardinality(P \cup Q) = Cardinality(P) + Cardinality(Q) - Cardinality(P \cap Q)
    BY <2>6, <2>7, FS_Union
  <2>9. Cardinality(P \cap Q) = 0
    BY <2>3, FS_EmptySet
  <2>10. Cardinality(P \cup Q) = Cardinality(P) + Cardinality(J[n + 1])
    BY <2>5, <2>6, <2>7, <2>8, <2>9
  <2> QED
    BY <1>2, <2>2, <2>8, <2>10 DEF P
<1> QED
  BY <1>1, <1>2

LEMMA PlacesStart ==
  ASSUME NEW I, NEW J, \A i \in I : i \in Nat /\ i > 0
  PROVE  IsFiniteSet(PlacesTo(I, J, 0)) /\ Cardinality(PlacesTo(I, J, 0)) = 0
<1>1. {i \in I : i <= 0} = {}
  OBVIOUS
<1>2. PlacesTo(I, J, 0) = {}
  BY <1>1 DEF PlacesTo
<1> QED
  BY <1>2, FS_EmptySet

LEMMA PlacesAll ==
  ASSUME NEW N \in Nat, NEW I, NEW J, \A i \in I : i \in 1 .. N
  PROVE  PlacesTo(I, J, N) = UNION {{i} \X J[i] : i \in I}
<1>1. {i \in I : i <= N} = I
  OBVIOUS
<1> QED
  BY <1>1 DEF PlacesTo
-----------------------------------------------------------------------------
(* One pass finds what the parsers find.                                    *)

Sequence(content) == \E n \in Nat : DOMAIN content = 1 .. n

\* The shape of the accumulator of the one pass.
AccumOK(acc) ==
    /\ DOMAIN acc = {"usage", "behavior", "spawns", "retries", "violations"}
    /\ acc.spawns \in Nat /\ acc.violations \in Nat /\ acc.retries \in Nat

LEMMA BlockStep ==
  ASSUME NEW acc, AccumOK(acc), NEW block
  PROVE  LET new == AccumulateAssistantBlock(acc, block)
         IN /\ AccumOK(new)
            /\ new.usage = acc.usage /\ new.behavior = acc.behavior
            /\ new.retries = acc.retries
            /\ new.spawns = IF IsToolUse(block, "Task") THEN acc.spawns + 1 ELSE acc.spawns
            /\ new.violations =
                 IF IsViolation(block) THEN acc.violations + 1 ELSE acc.violations
  BY DEF AccumOK, AccumulateAssistantBlock

\* The blocks of a content add the calls among them to two counters and nothing else.
LEMMA BlocksCounted ==
  ASSUME NEW acc, AccumOK(acc), NEW content, Sequence(content)
  PROVE  LET new == FoldLeft(AccumulateAssistantBlock, acc, content)
         IN /\ AccumOK(new)
            /\ new.usage = acc.usage /\ new.behavior = acc.behavior
            /\ new.retries = acc.retries
            /\ new.spawns = acc.spawns + Cardinality(Spawns(content))
            /\ new.violations = acc.violations + Cardinality(Violations(content))
            /\ IsFiniteSet(Spawns(content)) /\ IsFiniteSet(Violations(content))
<1>1. PICK N \in Nat : DOMAIN content = 1 .. N
  BY DEF Sequence
<1>2. PICK f : /\ RunOf("block", acc, content, N, f)
               /\ FoldLeft(AccumulateAssistantBlock, acc, content) = f[N]
  BY <1>1, BlockRun
<1> DEFINE A == Spawns(content)
           B == Violations(content)
<1>3. /\ \A j \in A : j \in 1 .. N /\ j \in Nat /\ j > 0
      /\ \A j \in B : j \in 1 .. N /\ j \in Nat /\ j > 0
  BY <1>1 DEF Spawns, Violations
<1>4. \A j \in 1 .. N : /\ j \in A <=> IsToolUse(content[j], "Task")
                        /\ j \in B <=> IsViolation(content[j])
  BY <1>1 DEF Spawns, Violations
<1> HIDE DEF A, B
<1> DEFINE Done(n) ==
             /\ AccumOK(f[n]) /\ f[n].usage = acc.usage /\ f[n].behavior = acc.behavior
             /\ f[n].retries = acc.retries
             /\ f[n].spawns = acc.spawns + CountTo(A, n)
             /\ f[n].violations = acc.violations + CountTo(B, n)
           S == {n \in Nat : n <= N => Done(n)}
<1>5. 0 \in S
  <2>1. CountTo(A, 0) = 0 /\ CountTo(B, 0) = 0
    BY <1>3, CountNext
  <2>2. f[0] = acc
    BY <1>2 DEF RunOf
  <2> QED
    BY <2>1, <2>2 DEF AccumOK
<1>6. ASSUME NEW n \in Nat, n \in S PROVE n + 1 \in S
  <2> SUFFICES ASSUME n + 1 <= N PROVE Done(n + 1)
    OBVIOUS
  <2>1. n <= N /\ n \in 0 .. N - 1 /\ n + 1 \in 1 .. N
    OBVIOUS
  <2>2. Done(n)
    BY <1>6, <2>1
  <2>3. f[n + 1] = AccumulateAssistantBlock(f[n], content[n + 1])
    BY <1>2, <2>1 DEF RunOf, StepOf
  <2>4. /\ CountTo(A, n) \in Nat /\ CountTo(B, n) \in Nat
        /\ CountTo(A, n + 1) = IF n + 1 \in A THEN CountTo(A, n) + 1 ELSE CountTo(A, n)
        /\ CountTo(B, n + 1) = IF n + 1 \in B THEN CountTo(B, n) + 1 ELSE CountTo(B, n)
    BY <1>3, CountNext
  <2>5. /\ n + 1 \in A <=> IsToolUse(content[n + 1], "Task")
        /\ n + 1 \in B <=> IsViolation(content[n + 1])
    BY <1>4, <2>1
  <2>6. acc.spawns \in Nat /\ acc.violations \in Nat
    BY DEF AccumOK
  <2> QED
    BY <2>2, <2>3, <2>4, <2>5, <2>6, BlockStep
<1>7. Done(N)
  <2> HIDE DEF Done
  <2>1. \A n \in Nat : n \in S => n + 1 \in S
    BY <1>6
  <2> HIDE DEF S
  <2>2. Nat \subseteq S
    BY <1>5, <2>1, SetInduction
  <2> QED
    BY <2>2 DEF S
<1>8. CountTo(A, N) = Cardinality(A) /\ CountTo(B, N) = Cardinality(B)
  BY <1>3, CountAll
<1>9. IsFiniteSet(A) /\ IsFiniteSet(B)
  <2>1. A \in SUBSET (1 .. N) /\ B \in SUBSET (1 .. N) /\ IsFiniteSet(1 .. N)
    BY <1>3, FS_Interval
  <2> QED
    BY <2>1, FS_Subset
<1> QED
  BY <1>2, <1>7, <1>8, <1>9 DEF A, B

LEMMA ContentIsSequence ==
  ASSUME NEW l \in Line \cup Part, l.kind = "assistant"
  PROVE  Sequence(OrEmpty(l.content))
<1>1. l \in Line
  BY DEF Part, Torn, Cut
<1>2. CASE l.content = None
  <2>1. DOMAIN <<>> = 1 .. 0
    OBVIOUS
  <2> QED
    BY <1>2, <2>1 DEF OrEmpty, Sequence
<1>3. CASE l.content \in Seq(Range(l.content)) /\ l.content # None
  <2>1. DOMAIN l.content = 1 .. Len(l.content) /\ Len(l.content) \in Nat
    BY <1>3
  <2> QED
    BY <1>3, <2>1 DEF OrEmpty, Sequence
<1> QED
  BY <1>1, <1>2, <1>3, TelemetryAssumption

LEMMA EventStep ==
  ASSUME NEW acc, AccumOK(acc), NEW l \in Line \cup Part
  PROVE  LET new == HandleEvent(acc, l)
             content == OrEmpty(l.content)
         IN /\ AccumOK(new)
            /\ new.usage = UsageStep(acc.usage, l)
            /\ new.behavior = WalkStep(acc.behavior, l)
            /\ new.retries = IF IsRetry(l) THEN acc.retries + 1 ELSE acc.retries
            /\ l.kind # "assistant" =>
                 new.spawns = acc.spawns /\ new.violations = acc.violations
            /\ l.kind = "assistant" =>
                 /\ new.spawns = acc.spawns + Cardinality(Spawns(content))
                 /\ new.violations = acc.violations + Cardinality(Violations(content))
                 /\ IsFiniteSet(Spawns(content)) /\ IsFiniteSet(Violations(content))
<1>1. CASE l.kind = "assistant"
  <2> DEFINE content == OrEmpty(l.content)
             noted == [acc EXCEPT !.usage = AssistantUsage(@, l),
                                  !.behavior = BehaviorStep(@, l)]
  <2>1. Sequence(content)
    BY <1>1, ContentIsSequence
  <2>2. /\ AccumOK(noted)
        /\ noted.usage = AssistantUsage(acc.usage, l)
        /\ noted.behavior = BehaviorStep(acc.behavior, l)
        /\ noted.spawns = acc.spawns /\ noted.violations = acc.violations
        /\ noted.retries = acc.retries
    BY DEF AccumOK
  <2>3. HandleEvent(acc, l) = FoldLeft(AccumulateAssistantBlock, noted, content)
    BY <1>1 DEF HandleEvent, HandleAssistantEvent
  <2> HIDE DEF noted, content
  <2>4. /\ UsageStep(acc.usage, l) = AssistantUsage(acc.usage, l)
        /\ WalkStep(acc.behavior, l) = BehaviorStep(acc.behavior, l)
        /\ ~ IsRetry(l)
    BY <1>1 DEF UsageStep, WalkStep, IsRetry
  <2>5. LET new == FoldLeft(AccumulateAssistantBlock, noted, content)
        IN /\ AccumOK(new)
           /\ new.usage = noted.usage /\ new.behavior = noted.behavior
           /\ new.retries = noted.retries
           /\ new.spawns = noted.spawns + Cardinality(Spawns(content))
           /\ new.violations = noted.violations + Cardinality(Violations(content))
           /\ IsFiniteSet(Spawns(content)) /\ IsFiniteSet(Violations(content))
    BY <2>1, <2>2, BlocksCounted
  <2> QED
    BY <1>1, <2>2, <2>3, <2>4, <2>5 DEF content
<1>2. CASE l.kind = "system"
  BY <1>2 DEF HandleEvent, HandleSystemEvent, UsageStep, WalkStep, IsRetry, AccumOK
<1>3. CASE l.kind = "result"
  BY <1>3 DEF HandleEvent, UsageStep, WalkStep, IsRetry, AccumOK
<1>4. CASE l.kind \notin {"assistant", "system", "result"}
  BY <1>4 DEF HandleEvent, UsageStep, WalkStep, IsRetry, AccumOK
<1> QED
  BY <1>1, <1>2, <1>3, <1>4

LogOK(log) == log \in Seq(Line \cup Part)

LEMMA LogDomain ==
  ASSUME NEW log, LogOK(log)
  PROVE  /\ Len(log) \in Nat /\ DOMAIN log = 1 .. Len(log)
         /\ \A i \in 1 .. Len(log) : log[i] \in Line \cup Part
  BY DEF LogOK

LEMMA NoAccum == AccumOK(Accum)
  BY DEF AccumOK, Accum

\* What the one pass has found up to each line is what the others would find there.
LEMMA OnePass ==
  ASSUME NEW log, LogOK(log)
  PROVE  LET acc == FoldLeft(HandleEvent, Accum, log)
         IN /\ acc.usage = FoldLeft(UsageStep, NoUsage, log)
            /\ acc.behavior = FoldLeft(WalkStep, NoBehavior, log)
            /\ acc.retries = Cardinality({i \in DOMAIN log : IsRetry(log[i])})
<1> DEFINE N == Len(log)
           R == {i \in DOMAIN log : IsRetry(log[i])}
<1>1. N \in Nat /\ DOMAIN log = 1 .. N /\ \A i \in 1 .. N : log[i] \in Line \cup Part
  BY LogDomain
<1> HIDE DEF N
<1>2. PICK t : RunOf("event", Accum, log, N, t) /\ FoldLeft(HandleEvent, Accum, log) = t[N]
  BY <1>1, EventRun
<1>3. PICK u : RunOf("usage", NoUsage, log, N, u) /\ FoldLeft(UsageStep, NoUsage, log) = u[N]
  BY <1>1, UsageRun
<1>4. PICK b : /\ RunOf("walk", NoBehavior, log, N, b)
               /\ FoldLeft(WalkStep, NoBehavior, log) = b[N]
  BY <1>1, WalkRun
<1>5. /\ \A i \in R : i \in 1 .. N /\ i \in Nat /\ i > 0
      /\ \A i \in 1 .. N : i \in R <=> IsRetry(log[i])
  BY <1>1
<1> HIDE DEF R
<1> DEFINE Same(n) == /\ AccumOK(t[n])
                      /\ t[n].usage = u[n] /\ t[n].behavior = b[n]
                      /\ t[n].retries = CountTo(R, n)
           S == {n \in Nat : n <= N => Same(n)}
<1>6. 0 \in S
  <2>1. CountTo(R, 0) = 0
    BY <1>5, CountNext
  <2>2. t[0] = Accum /\ u[0] = NoUsage /\ b[0] = NoBehavior
    BY <1>2, <1>3, <1>4 DEF RunOf
  <2>3. Accum.usage = NoUsage /\ Accum.behavior = NoBehavior /\ Accum.retries = 0
    BY DEF Accum
  <2> QED
    BY <2>1, <2>2, <2>3, NoAccum
<1>7. ASSUME NEW n \in Nat, n \in S PROVE n + 1 \in S
  <2> SUFFICES ASSUME n + 1 <= N PROVE Same(n + 1)
    OBVIOUS
  <2>1. n <= N /\ n \in 0 .. N - 1 /\ n + 1 \in 1 .. N
    BY <1>1
  <2>2. Same(n)
    BY <1>7, <2>1
  <2> DEFINE l == log[n + 1]
  <2>3. t[n + 1] = HandleEvent(t[n], l)
    BY <1>2, <2>1 DEF RunOf, StepOf
  <2>4. u[n + 1] = UsageStep(u[n], l)
    BY <1>3, <2>1 DEF RunOf, StepOf
  <2>5. b[n + 1] = WalkStep(b[n], l)
    BY <1>4, <2>1 DEF RunOf, StepOf
  <2>6. CountTo(R, n + 1) = IF IsRetry(l) THEN CountTo(R, n) + 1 ELSE CountTo(R, n)
    BY <1>5, <2>1, CountNext
  <2>7. l \in Line \cup Part
    BY <1>1, <2>1
  <2> HIDE DEF l
  <2> QED
    BY <2>2, <2>3, <2>4, <2>5, <2>6, <2>7, EventStep
<1>8. Same(N)
  <2> HIDE DEF Same
  <2>1. \A n \in Nat : n \in S => n + 1 \in S
    BY <1>7
  <2> HIDE DEF S
  <2>2. Nat \subseteq S
    BY <1>6, <2>1, SetInduction
  <2> QED
    BY <1>1, <2>2 DEF S
<1>9. CountTo(R, N) = Cardinality(R)
  BY <1>1, <1>5, CountAll
<1> QED
  BY <1>2, <1>3, <1>4, <1>8, <1>9 DEF R

\* The calls the one pass has counted are those at the places the parsers count.
LEMMA OnePassCalls ==
  ASSUME NEW log, LogOK(log), ~ Uncountable(log)
  PROVE  LET acc == FoldLeft(HandleEvent, Accum, log)
         IN /\ acc.spawns = Cardinality(UNION {{i} \X Spawns(log[i].content) : i \in Turns(log)})
            /\ acc.violations =
                 Cardinality(UNION {{i} \X Violations(log[i].content) : i \in Turns(log)})
<1> DEFINE N == Len(log)
           I == Turns(log)
           A == [i \in I |-> Spawns(log[i].content)]
           B == [i \in I |-> Violations(log[i].content)]
<1>1. N \in Nat /\ DOMAIN log = 1 .. N /\ \A i \in 1 .. N : log[i] \in Line \cup Part
  BY LogDomain
<1> HIDE DEF N
<1>2. PICK t : RunOf("event", Accum, log, N, t) /\ FoldLeft(HandleEvent, Accum, log) = t[N]
  BY <1>1, EventRun
<1>3. /\ \A i \in I : i \in 1 .. N /\ i \in Nat /\ i > 0
      /\ \A i \in 1 .. N : i \in I <=> log[i].kind = "assistant"
  BY <1>1 DEF Turns
<1>4. ASSUME NEW i \in I
      PROVE  /\ OrEmpty(log[i].content) = log[i].content
             /\ A[i] = Spawns(log[i].content) /\ B[i] = Violations(log[i].content)
             /\ IsFiniteSet(A[i]) /\ IsFiniteSet(B[i])
  <2>1. log[i].kind = "assistant" /\ i \in DOMAIN log /\ log[i] \in Line \cup Part
    BY <1>1, <1>3
  <2>2. log[i].content # None
    BY <2>1 DEF Uncountable
  <2>3. Sequence(OrEmpty(log[i].content))
    BY <2>1, ContentIsSequence
  <2>4. OrEmpty(log[i].content) = log[i].content
    BY <2>2 DEF OrEmpty
  <2> QED
    BY <2>3, <2>4, NoAccum, BlocksCounted
<1> HIDE DEF I, A, B
<1> DEFINE Same(n) == /\ AccumOK(t[n])
                      /\ IsFiniteSet(PlacesTo(I, A, n)) /\ IsFiniteSet(PlacesTo(I, B, n))
                      /\ t[n].spawns = Cardinality(PlacesTo(I, A, n))
                      /\ t[n].violations = Cardinality(PlacesTo(I, B, n))
           S == {n \in Nat : n <= N => Same(n)}
<1>5. 0 \in S
  <2>1. t[0] = Accum
    BY <1>2 DEF RunOf
  <2>2. Accum.spawns = 0 /\ Accum.violations = 0
    BY DEF Accum
  <2>3. \A i \in I : i \in Nat /\ i > 0
    BY <1>3
  <2>4. /\ IsFiniteSet(PlacesTo(I, A, 0)) /\ Cardinality(PlacesTo(I, A, 0)) = 0
        /\ IsFiniteSet(PlacesTo(I, B, 0)) /\ Cardinality(PlacesTo(I, B, 0)) = 0
    BY <2>3, PlacesStart
  <2> QED
    BY <2>1, <2>2, <2>4, NoAccum
<1>6. ASSUME NEW n \in Nat, n \in S PROVE n + 1 \in S
  <2> SUFFICES ASSUME n + 1 <= N PROVE Same(n + 1)
    OBVIOUS
  <2>1. n <= N /\ n \in 0 .. N - 1 /\ n + 1 \in 1 .. N
    BY <1>1
  <2>2. Same(n)
    BY <1>6, <2>1
  <2> DEFINE l == log[n + 1]
  <2>3. t[n + 1] = HandleEvent(t[n], l)
    BY <1>2, <2>1 DEF RunOf, StepOf
  <2>4. l \in Line \cup Part
    BY <1>1, <2>1
  <2>5. \A i \in I : i \in Nat /\ i > 0 /\ IsFiniteSet(A[i]) /\ IsFiniteSet(B[i])
    BY <1>3, <1>4
  <2>6. /\ IsFiniteSet(PlacesTo(I, A, n + 1))
        /\ Cardinality(PlacesTo(I, A, n + 1)) =
             IF n + 1 \in I THEN Cardinality(PlacesTo(I, A, n)) + Cardinality(A[n + 1])
             ELSE Cardinality(PlacesTo(I, A, n))
    BY <2>2, <2>5, PlacesNext
  <2>7. /\ IsFiniteSet(PlacesTo(I, B, n + 1))
        /\ Cardinality(PlacesTo(I, B, n + 1)) =
             IF n + 1 \in I THEN Cardinality(PlacesTo(I, B, n)) + Cardinality(B[n + 1])
             ELSE Cardinality(PlacesTo(I, B, n))
    BY <2>2, <2>5, PlacesNext
  <2>8. n + 1 \in I <=> l.kind = "assistant"
    BY <1>3, <2>1
  <2>9. n + 1 \in I => /\ A[n + 1] = Spawns(OrEmpty(l.content))
                       /\ B[n + 1] = Violations(OrEmpty(l.content))
    BY <1>4
  <2>10. AccumOK(t[n])
    BY <2>2
  <2> HIDE DEF l
  <2>11. LET new == HandleEvent(t[n], l)
         IN /\ AccumOK(new)
            /\ l.kind # "assistant" =>
                 new.spawns = t[n].spawns /\ new.violations = t[n].violations
            /\ l.kind = "assistant" =>
                 /\ new.spawns = t[n].spawns + Cardinality(Spawns(OrEmpty(l.content)))
                 /\ new.violations = t[n].violations + Cardinality(Violations(OrEmpty(l.content)))
    BY <2>4, <2>10, EventStep
  <2> QED
    BY <2>2, <2>3, <2>6, <2>7, <2>8, <2>9, <2>11
<1>7. Same(N)
  <2> HIDE DEF Same
  <2>1. \A n \in Nat : n \in S => n + 1 \in S
    BY <1>6
  <2> HIDE DEF S
  <2>2. Nat \subseteq S
    BY <1>5, <2>1, SetInduction
  <2> QED
    BY <1>1, <2>2 DEF S
<1>8. /\ PlacesTo(I, A, N) = UNION {{i} \X A[i] : i \in I}
      /\ PlacesTo(I, B, N) = UNION {{i} \X B[i] : i \in I}
  BY <1>1, <1>3, PlacesAll
<1>9. /\ UNION {{i} \X A[i] : i \in I} = UNION {{i} \X Spawns(log[i].content) : i \in I}
      /\ UNION {{i} \X B[i] : i \in I} = UNION {{i} \X Violations(log[i].content) : i \in I}
  BY <1>4
<1> QED
  BY <1>2, <1>7, <1>8, <1>9 DEF I

\* In one log; for a log with a part of a line, too.
LEMMA ParsersAgree ==
  ASSUME NEW log, LogOK(log)
  PROVE  LET t == ParseWorkerTelemetry(log)
         IN /\ ParseWorkerUsage(log) \in {t.usage, <<None, None, None, None>>}
            /\ ParseSubagentSpawns(log) \in {t.spawns, None}
            /\ ParseApiRetries(log) \in {t.retries, None}
            /\ ParseHookTrustViolations(log) \in {t.violations, None}
            /\ ParseWorkerBehavior(log) = t.behavior
<1> DEFINE acc == FoldLeft(HandleEvent, Accum, log)
<1>1. /\ acc.usage = FoldLeft(UsageStep, NoUsage, log)
      /\ acc.behavior = FoldLeft(WalkStep, NoBehavior, log)
      /\ acc.retries = Cardinality({i \in DOMAIN log : IsRetry(log[i])})
  BY OnePass
<1>2. ~ Uncountable(log) =>
        /\ acc.spawns = Cardinality(UNION {{i} \X Spawns(log[i].content) : i \in Turns(log)})
        /\ acc.violations =
             Cardinality(UNION {{i} \X Violations(log[i].content) : i \in Turns(log)})
  BY OnePassCalls
<1>3. CASE ~ Decodable(log)
  BY <1>3 DEF ParseWorkerTelemetry, ParseWorkerUsage, ParseSubagentSpawns, ParseApiRetries,
              ParseHookTrustViolations, ParseWorkerBehavior, Uncountable
<1>4. CASE Decodable(log)
  <2> DEFINE counts == ResolveUsageTotals(acc.usage)
                           \o <<acc.usage.compactions, acc.usage.duration>>
             t == ParseWorkerTelemetry(log)
  <2>1. t = [usage |-> counts, spawns |-> acc.spawns, retries |-> acc.retries,
             violations |-> acc.violations, behavior |-> Summary(acc.behavior)]
    BY <1>4 DEF ParseWorkerTelemetry
  <2> HIDE DEF acc
  <2>2. ParseWorkerUsage(log) \in {counts, <<None, None, None, None>>}
    BY <1>1, <1>4 DEF ParseWorkerUsage
  <2>3. ParseSubagentSpawns(log) \in {acc.spawns, None}
    BY <1>2 DEF ParseSubagentSpawns
  <2>4. ParseHookTrustViolations(log) \in {acc.violations, None}
    BY <1>2 DEF ParseHookTrustViolations
  <2>5. ParseApiRetries(log) \in {acc.retries, None}
    BY <1>1 DEF ParseApiRetries
  <2>6. ParseWorkerBehavior(log) = Summary(acc.behavior)
    BY <1>1, <1>4 DEF ParseWorkerBehavior
  <2> HIDE DEF counts, t
  <2>7. /\ t.usage = counts /\ t.spawns = acc.spawns /\ t.retries = acc.retries
        /\ t.violations = acc.violations /\ t.behavior = Summary(acc.behavior)
    BY <2>1
  <2>8. /\ ParseWorkerUsage(log) \in {t.usage, <<None, None, None, None>>}
        /\ ParseSubagentSpawns(log) \in {t.spawns, None}
        /\ ParseApiRetries(log) \in {t.retries, None}
        /\ ParseHookTrustViolations(log) \in {t.violations, None}
        /\ ParseWorkerBehavior(log) = t.behavior
    BY <2>2, <2>3, <2>4, <2>5, <2>6, <2>7
  <2> QED
    BY <2>8 DEF t
<1> QED
  BY <1>3, <1>4
-----------------------------------------------------------------------------
(* A line that is cut off.                                                  *)

LEMMA TornStep ==
  /\ \A acc : HandleEvent(acc, Torn) = acc
  /\ \A s : SignalStep(s, Torn) = s
  BY DEF HandleEvent, SignalStep, IsWasteEvent, IsEvent, Torn

\* Text that is no JSON is passed over by both readings.
LEMMA TornIsSkipped ==
  ASSUME NEW log, LogOK(log)
  PROVE  /\ ParseWorkerTelemetry(Append(log, Torn)) = ParseWorkerTelemetry(log)
         /\ ComputeWasteScore(Append(log, Torn)) = ComputeWasteScore(log)
<1> DEFINE N == Len(log)
           longer == Append(log, Torn)
<1>1. N \in Nat /\ DOMAIN log = 1 .. N
  BY LogDomain
<1>2. /\ DOMAIN longer = 1 .. N + 1 /\ longer[N + 1] = Torn
      /\ \A i \in 1 .. N : longer[i] = log[i]
  BY DEF LogOK
<1>3. Decodable(longer) <=> Decodable(log)
  <2>1. Torn.kind # "cut"
    BY DEF Torn
  <2>2. \A i \in 1 .. N + 1 : i \in 1 .. N \/ i = N + 1
    BY <1>1
  <2>3. \A i \in 1 .. N : i \in 1 .. N + 1
    BY <1>1
  <2> HIDE DEF N, longer
  <2> QED
    BY <1>1, <1>2, <2>1, <2>2, <2>3 DEF Decodable
<1> HIDE DEF N, longer
<1> DEFINE M == N + 1
<1>4. /\ M \in Nat /\ N \in 0 .. M - 1 /\ N <= N /\ N <= M /\ DOMAIN longer = 1 .. M
      /\ longer[N + 1] = Torn /\ \A i \in 1 .. N : log[i] = longer[i]
  BY <1>1, <1>2
<1> HIDE DEF M
<1>5. FoldLeft(HandleEvent, Accum, longer) = FoldLeft(HandleEvent, Accum, log)
  <2>1. PICK f : RunOf("event", Accum, log, N, f) /\ FoldLeft(HandleEvent, Accum, log) = f[N]
    BY <1>1, EventRun
  <2>2. PICK g : /\ RunOf("event", Accum, longer, M, g)
                 /\ FoldLeft(HandleEvent, Accum, longer) = g[M]
    BY <1>4, EventRun
  <2>3. f[N] = g[N]
    BY <1>1, <1>4, <2>1, <2>2, RunsAgree
  <2>4. g[N + 1] = HandleEvent(g[N], Torn)
    BY <1>4, <2>2 DEF RunOf, StepOf
  <2> QED
    BY <2>1, <2>2, <2>3, <2>4, TornStep DEF M
<1>6. FoldLeft(SignalStep, NoSignals, longer) = FoldLeft(SignalStep, NoSignals, log)
  <2>1. PICK f : /\ RunOf("signal", NoSignals, log, N, f)
                 /\ FoldLeft(SignalStep, NoSignals, log) = f[N]
    BY <1>1, SignalRun
  <2>2. PICK g : /\ RunOf("signal", NoSignals, longer, M, g)
                 /\ FoldLeft(SignalStep, NoSignals, longer) = g[M]
    BY <1>4, SignalRun
  <2>3. f[N] = g[N]
    BY <1>1, <1>4, <2>1, <2>2, RunsAgree
  <2>4. g[N + 1] = SignalStep(g[N], Torn)
    BY <1>4, <2>2 DEF RunOf, StepOf
  <2> QED
    BY <2>1, <2>2, <2>3, <2>4, TornStep DEF M
<1>7. ParseWorkerTelemetry(longer) = ParseWorkerTelemetry(log)
  BY <1>3, <1>5 DEF ParseWorkerTelemetry
<1>8. ComputeWasteScore(longer) = ComputeWasteScore(log)
  BY <1>6 DEF ComputeWasteScore, ExtractSignals
<1> QED
  BY <1>7, <1>8 DEF longer

LEMMA CutIsUnparseable ==
  ASSUME NEW log, ~ Decodable(log)
  PROVE  ParseWorkerTelemetry(log).behavior = UnparseableBehavior
  BY DEF ParseWorkerTelemetry
-----------------------------------------------------------------------------
(* What a log that can be decoded always yields.                            *)

BehaviorOK(b) == DOMAIN b = DOMAIN NoBehavior /\ b.turns \in Nat

LEMMA ContentKeepsTurns ==
  ASSUME NEW b, BehaviorOK(b), NEW content, Sequence(content)
  PROVE  BehaviorOK(FoldLeft(AccumulateContentBlock, b, content))
<1>1. PICK N \in Nat : DOMAIN content = 1 .. N
  BY DEF Sequence
<1>2. PICK f : /\ RunOf("content", b, content, N, f)
               /\ FoldLeft(AccumulateContentBlock, b, content) = f[N]
  BY <1>1, ContentRun
<1> DEFINE S == {n \in Nat : n <= N => BehaviorOK(f[n])}
<1>3. 0 \in S
  BY <1>2 DEF RunOf
<1>4. ASSUME NEW n \in Nat, n \in S PROVE n + 1 \in S
  <2> SUFFICES ASSUME n + 1 <= N PROVE BehaviorOK(f[n + 1])
    OBVIOUS
  <2>1. n \in 0 .. N - 1 /\ n <= N
    OBVIOUS
  <2>2. f[n + 1] = AccumulateContentBlock(f[n], content[n + 1])
    BY <1>2, <2>1 DEF RunOf, StepOf
  <2>3. BehaviorOK(f[n])
    BY <1>4, <2>1
  <2>4. ASSUME NEW block PROVE BehaviorOK(AccumulateContentBlock(f[n], block))
    BY <2>3 DEF BehaviorOK, NoBehavior, AccumulateContentBlock
  <2> QED
    BY <2>2, <2>4
<1>5. \A n \in Nat : n \in S => n + 1 \in S
  BY <1>4
<1> HIDE DEF S
<1>6. Nat \subseteq S
  BY <1>3, <1>5, SetInduction
<1>7. BehaviorOK(f[N])
  BY <1>6 DEF S
<1> QED
  BY <1>2, <1>7

LEMMA WalkCountsTurns ==
  ASSUME NEW log, LogOK(log)
  PROVE  BehaviorOK(FoldLeft(WalkStep, NoBehavior, log))
<1> DEFINE N == Len(log)
<1>1. N \in Nat /\ DOMAIN log = 1 .. N /\ \A i \in 1 .. N : log[i] \in Line \cup Part
  BY LogDomain
<1> HIDE DEF N
<1>2. PICK f : RunOf("walk", NoBehavior, log, N, f) /\ FoldLeft(WalkStep, NoBehavior, log) = f[N]
  BY <1>1, WalkRun
<1> DEFINE S == {n \in Nat : n <= N => BehaviorOK(f[n])}
<1>3. 0 \in S
  <2>1. BehaviorOK(NoBehavior)
    BY DEF BehaviorOK, NoBehavior
  <2> QED
    BY <1>2, <2>1 DEF RunOf
<1>4. ASSUME NEW n \in Nat, n \in S PROVE n + 1 \in S
  <2> SUFFICES ASSUME n + 1 <= N PROVE BehaviorOK(f[n + 1])
    OBVIOUS
  <2>1. n \in 0 .. N - 1 /\ n <= N /\ n + 1 \in 1 .. N
    BY <1>1
  <2> DEFINE l == log[n + 1]
  <2>2. f[n + 1] = WalkStep(f[n], l)
    BY <1>2, <2>1 DEF RunOf, StepOf
  <2>3. BehaviorOK(f[n]) /\ l \in Line \cup Part
    BY <1>1, <1>4, <2>1
  <2> HIDE DEF l
  <2>4. ASSUME l.kind = "assistant" PROVE BehaviorOK(BehaviorStep(f[n], l))
    <3> DEFINE b == UpdateInputTokens([f[n] EXCEPT !.turns = @ + 1], l.in)
    <3>1. BehaviorOK(b)
      BY <2>3 DEF BehaviorOK, NoBehavior, UpdateInputTokens
    <3>2. Sequence(OrEmpty(l.content))
      BY <2>3, <2>4, ContentIsSequence
    <3>3. BehaviorStep(f[n], l) = FoldLeft(AccumulateContentBlock, b, OrEmpty(l.content))
      BY DEF BehaviorStep
    <3> HIDE DEF b
    <3> QED
      BY <3>1, <3>2, <3>3, ContentKeepsTurns
  <2> QED
    BY <2>2, <2>3, <2>4 DEF WalkStep
<1>5. \A n \in Nat : n \in S => n + 1 \in S
  BY <1>4
<1> HIDE DEF S
<1>6. Nat \subseteq S
  BY <1>3, <1>5, SetInduction
<1>7. BehaviorOK(f[N])
  BY <1>1, <1>6 DEF S
<1> QED
  BY <1>2, <1>7

LEMMA DecodableIsParsed ==
  ASSUME NEW log, LogOK(log), Decodable(log)
  PROVE  ParseWorkerTelemetry(log).behavior # UnparseableBehavior
<1> DEFINE b == FoldLeft(WalkStep, NoBehavior, log)
<1>1. ParseWorkerTelemetry(log).behavior = Summary(b)
  BY ParsersAgree DEF ParseWorkerBehavior
<1>2. BehaviorOK(b)
  BY WalkCountsTurns
<1> HIDE DEF b
<1>3. Summary(b).turns = b.turns
  BY DEF Summary
<1>4. UnparseableBehavior.turns = None
  <2>1. "turns" \in DOMAIN Summary(NoBehavior)
    BY DEF Summary
  <2> QED
    BY <2>1 DEF UnparseableBehavior
<1> QED
  BY <1>1, <1>2, <1>3, <1>4, TelemetryAssumption DEF BehaviorOK

UsageOK(u) == DOMAIN u = DOMAIN NoUsage /\ u.in \in Int

\* An output count comes with an input count.
LEMMA UsageIsPaired ==
  ASSUME NEW log, LogOK(log), ParseWorkerTelemetry(log).usage[2] # None
  PROVE  ParseWorkerTelemetry(log).usage[1] # None
<1> DEFINE N == Len(log)
           u == FoldLeft(UsageStep, NoUsage, log)
<1>1. N \in Nat /\ DOMAIN log = 1 .. N /\ \A i \in 1 .. N : log[i] \in Line \cup Part
  BY LogDomain
<1> HIDE DEF N
<1>2. PICK f : RunOf("usage", NoUsage, log, N, f) /\ u = f[N]
  BY <1>1, UsageRun
<1>3. FoldLeft(HandleEvent, Accum, log).usage = u
  BY OnePass
<1> HIDE DEF u
<1> DEFINE S == {n \in Nat : n <= N => UsageOK(f[n])}
<1>4. 0 \in S
  <2>1. UsageOK(NoUsage)
    BY DEF UsageOK, NoUsage
  <2> QED
    BY <1>2, <2>1 DEF RunOf
<1>5. ASSUME NEW n \in Nat, n \in S PROVE n + 1 \in S
  <2> SUFFICES ASSUME n + 1 <= N PROVE UsageOK(f[n + 1])
    OBVIOUS
  <2>1. n \in 0 .. N - 1 /\ n <= N /\ n + 1 \in 1 .. N
    BY <1>1
  <2> DEFINE l == log[n + 1]
  <2>2. f[n + 1] = UsageStep(f[n], l)
    BY <1>2, <2>1 DEF RunOf, StepOf
  <2>3. UsageOK(f[n]) /\ l \in Line \cup Part
    BY <1>1, <1>5, <2>1
  <2> HIDE DEF l
  <2>4. l.kind = "assistant" => l.in \in Int \cup {None}
    BY <2>3, TelemetryAssumption DEF Part, Torn, Cut
  <2> DEFINE chars == SumOver(BlockTextChars, OrEmpty(l.content))
  <2>5. l.kind = "assistant" => UsageOK(AssistantUsage(f[n], l))
    <3>1. AssistantUsage(f[n], l) =
            LET has == l.in # None /\ l.out # None
            IN [f[n] EXCEPT !.in = @ + (IF has THEN l.in ELSE 0),
                            !.out = @ + (IF has THEN l.out ELSE 0),
                            !.has = @ \/ has, !.chars = @ + chars]
      BY DEF AssistantUsage
    <3> HIDE DEF chars
    <3> QED
      BY <2>3, <2>4, <3>1 DEF UsageOK, NoUsage
  <2> QED
    BY <2>2, <2>3, <2>5 DEF UsageStep, CompactBoundary, ResultUsage, UsageOK, NoUsage
<1>6. UsageOK(u)
  <2>1. \A n \in Nat : n \in S => n + 1 \in S
    BY <1>5
  <2> HIDE DEF S
  <2>2. Nat \subseteq S
    BY <1>4, <2>1, SetInduction
  <2> QED
    BY <1>1, <1>2, <2>2 DEF S
<1>7. CASE ~ Decodable(log)
  BY <1>7 DEF ParseWorkerTelemetry
<1>8. CASE Decodable(log)
  <2>1. ParseWorkerTelemetry(log).usage = ResolveUsageTotals(u) \o <<u.compactions, u.duration>>
    BY <1>3, <1>8 DEF ParseWorkerTelemetry
  <2>2. PICK a, b : /\ ResolveUsageTotals(u) = <<a, b>>
                    /\ b # None => a # None
    BY <1>6, TelemetryAssumption DEF ResolveUsageTotals, UsageOK
  <2>3. /\ (<<a, b>> \o <<u.compactions, u.duration>>)[1] = a
        /\ (<<a, b>> \o <<u.compactions, u.duration>>)[2] = b
    OBVIOUS
  <2> QED
    BY <2>1, <2>2, <2>3
<1> QED
  BY <1>7, <1>8
-----------------------------------------------------------------------------
(* The state machine.                                                       *)

Steps == {"work", "attempt", "telemetry", "waste", "raised", "recorded", "ended"}

TypeOK ==
    /\ eff \in {"local", "cloud"} /\ verbose \in BOOLEAN /\ running \in BOOLEAN
    /\ LogOK(out) /\ earlier = 0 /\ teed \in Nat
    /\ attempt \in Nat \ {0} /\ pc \in Steps

\* Only the last line may be a part of one.
PartsLast == \A i \in 1 .. Len(out) - 1 : out[i] \in Line

\* The lines that stay what they are.
Settled == Len(IF running THEN WholeLines ELSE out)

TeedOK == teed <= Settled

\* A first attempt has ended when finalize_worker looks at it, and only a first
\* attempt has a tee thread.
EndedOK ==
    /\ verbose => attempt = 1
    /\ attempt = 1 /\ pc # "work" => ~ running

\* Each reading was of lines that are still there.
ReadingsOK ==
    pc \in {"waste", "recorded"} =>
        \E k \in 0 .. Settled :
            /\ verbose => k <= teed
            /\ tele = ParseWorkerTelemetry(SubSeq(out, 1, k))
                 \/ tele.behavior = UnparseableBehavior
            /\ pc = "recorded" =>
                 \E m \in k .. Settled : row.waste = ComputeWasteScore(SubSeq(out, 1, m))

Direct == attempt = 1 /\ ~ verbose

\* A first attempt that wrote its log itself was read as a whole.
WholeOK ==
    Direct =>
        /\ pc \in {"work", "attempt"} => archive = None
        /\ pc \in {"waste", "recorded", "ended"} => tele = ParseWorkerTelemetry(out)
        /\ pc = "recorded" => Decodable(out) /\ row.waste = ComputeWasteScore(out)
        /\ pc \in {"telemetry", "waste", "recorded"} => archive \in {None, out}
        /\ pc = "ended" => archive = out

\* The row of a local worker has what was read.
RowOK ==
    Direct /\ eff = "local" /\ pc \in {"recorded", "ended"} =>
        /\ row = [waste |-> row.waste, outcome |-> row.outcome, retryCount |-> row.retryCount,
                  cloudTokens |-> row.cloudTokens, localIn |-> tele.usage[1],
                  localOut |-> tele.usage[2], localTokens |-> row.localTokens,
                  rate |-> tele.usage[2], compactions |-> row.compactions,
                  retries |-> row.retries, behavior |-> tele.behavior, tags |-> row.tags]
        /\ tele.usage[1] # None /\ tele.usage[2] # None =>
             row.localTokens = tele.usage[1] + tele.usage[2]

\* The inductive invariant.
Inv == TypeOK /\ PartsLast /\ TeedOK /\ EndedOK /\ ReadingsOK /\ WholeOK /\ RowOK
LEMMA InitInv == Init => Inv
  BY TelemetryAssumption
  DEF Init, Inv, TypeOK, PartsLast, TeedOK, EndedOK, ReadingsOK, WholeOK, RowOK, Direct,
      Settled, WholeLines, EndsInPart, LogOK, Steps

LEMMA SamePrefix ==
  ASSUME NEW s, NEW t, LogOK(s), LogOK(t), NEW k \in Nat, k <= Len(s), k <= Len(t),
         \A i \in 1 .. k : s[i] = t[i]
  PROVE  LogOK(SubSeq(s, 1, k)) /\ SubSeq(s, 1, k) = SubSeq(t, 1, k)
  BY DEF LogOK

LEMMA WholePrefix == ASSUME NEW s, LogOK(s) PROVE SubSeq(s, 1, Len(s)) = s
  BY DEF LogOK

LEMMA KindsApart ==
  /\ Torn \notin Line /\ Cut \notin Line /\ Torn # Cut
  /\ \A l \in Line : l \notin Part /\ l.kind # "cut"
  BY TelemetryAssumption DEF Part, Torn, Cut

LEMMA SameLog ==
  ASSUME NEW s, NEW t, LogOK(s), LogOK(t), Len(s) = Len(t), \A i \in 1 .. Len(s) : s[i] = t[i]
  PROVE  s = t
  BY DEF LogOK

LEMMA LastOrBefore ==
  ASSUME NEW n \in Nat, NEW i \in 1 .. n PROVE i \in 1 .. n - 1 \/ i = n
  OBVIOUS

\* A log is its whole lines and perhaps a part of one more.
LEMMA WholeAndPart ==
  ASSUME TypeOK, PartsLast
  PROVE  /\ LogOK(WholeLines) /\ Len(WholeLines) \in Nat /\ Len(WholeLines) <= Len(out)
         /\ \A i \in 1 .. Len(WholeLines) : WholeLines[i] = out[i] /\ out[i] \in Line
         /\ ~ EndsInPart => WholeLines = out
         /\ EndsInPart => \/ out = Append(WholeLines, Torn)
                          \/ ~ Decodable(out)
<1>1. LogOK(out) /\ Len(out) \in Nat /\ DOMAIN out = 1 .. Len(out)
      /\ \A i \in 1 .. Len(out) : out[i] \in Line \cup Part
  BY LogDomain DEF TypeOK
<1>2. CASE ~ EndsInPart
  <2>1. WholeLines = out
    BY <1>2 DEF WholeLines
  <2>2. out # <<>> => out[Len(out)] \notin Part
    BY <1>2 DEF EndsInPart, Last
  <2>3. ASSUME NEW i \in 1 .. Len(out) PROVE out[i] \in Line
    <3>1. out # <<>>
      BY <1>1
    <3>2. i \in 1 .. Len(out) - 1 \/ i = Len(out)
      BY <1>1, LastOrBefore
    <3> QED
      BY <1>1, <2>2, <3>1, <3>2 DEF PartsLast
  <2>4. \A i \in 1 .. Len(WholeLines) : WholeLines[i] = out[i] /\ out[i] \in Line
    BY <2>1, <2>3
  <2>5. LogOK(WholeLines) /\ Len(WholeLines) \in Nat /\ Len(WholeLines) <= Len(out)
    BY <1>1, <2>1
  <2> QED
    BY <1>2, <2>1, <2>4, <2>5
<1>3. CASE EndsInPart
  <2>1. out # <<>> /\ Len(out) > 0 /\ out[Len(out)] \in Part
    BY <1>1, <1>3 DEF EndsInPart, Last, LogOK
  <2>2. WholeLines = SubSeq(out, 1, Len(out) - 1)
    BY <1>3 DEF WholeLines, Front
  <2>3. LogOK(WholeLines) /\ Len(WholeLines) = Len(out) - 1
        /\ \A i \in 1 .. Len(WholeLines) : WholeLines[i] = out[i]
    BY <1>1, <2>1, <2>2 DEF LogOK
  <2>4. ASSUME out[Len(out)] = Torn PROVE out = Append(WholeLines, Torn)
    <3> DEFINE s == Append(WholeLines, Torn)
    <3>1. LogOK(s) /\ Len(s) = Len(WholeLines) + 1 /\ s[Len(WholeLines) + 1] = Torn
          /\ \A i \in 1 .. Len(WholeLines) : s[i] = WholeLines[i]
      BY <2>3 DEF LogOK, Part
    <3> HIDE DEF s
    <3>2. ASSUME NEW i \in 1 .. Len(out) PROVE out[i] = s[i]
      <4>1. i \in 1 .. Len(out) - 1 \/ i = Len(out)
        BY <1>1, LastOrBefore
      <4>2. Len(out) - 1 = Len(WholeLines) /\ Len(out) = Len(WholeLines) + 1
        BY <1>1, <2>3
      <4> QED
        BY <2>3, <2>4, <3>1, <4>1, <4>2
    <3>3. Len(out) = Len(s)
      BY <1>1, <2>3, <3>1
    <3> QED
      BY <1>1, <3>1, <3>2, <3>3, SameLog DEF s
  <2>5. out[Len(out)] = Cut => ~ Decodable(out)
    BY <1>1, <2>1 DEF Decodable, Cut
  <2>6. ASSUME NEW i \in 1 .. Len(WholeLines) PROVE out[i] \in Line
    BY <1>1, <2>3 DEF PartsLast
  <2>7. out = Append(WholeLines, Torn) \/ ~ Decodable(out)
    BY <2>1, <2>4, <2>5 DEF Part
  <2>8. Len(WholeLines) \in Nat /\ Len(WholeLines) <= Len(out)
    BY <1>1, <2>1, <2>3
  <2> QED
    BY <1>3, <2>3, <2>6, <2>7, <2>8
<1> QED
  BY <1>2, <1>3

\* What is settled is read alike whatever follows it.
Kept ==
    /\ Settled \in Nat /\ Settled' \in Nat /\ Settled <= Settled'
    /\ \A k \in 0 .. Settled : SubSeq(out', 1, k) = SubSeq(out, 1, k)

LEMMA WriteKeeps ==
  ASSUME Inv, NEW l \in Line \cup Part, running,
         out' = Append(WholeLines, l), UNCHANGED running,
         l \in Part => ~ EndsInPart
  PROVE  /\ Kept /\ LogOK(out')
         /\ PartsLast'
<1> USE DEF Inv
<1>1. /\ LogOK(WholeLines) /\ Len(WholeLines) \in Nat /\ Len(WholeLines) <= Len(out)
      /\ \A i \in 1 .. Len(WholeLines) : WholeLines[i] = out[i] /\ out[i] \in Line
  BY WholeAndPart
<1>2. LogOK(out) /\ Len(out) \in Nat
  BY LogDomain DEF TypeOK
<1>3. /\ LogOK(out') /\ Len(out') = Len(WholeLines) + 1 /\ out'[Len(out')] = l
      /\ \A i \in 1 .. Len(WholeLines) : out'[i] = WholeLines[i]
  BY <1>1 DEF LogOK
<1>4. PartsLast'
  BY <1>1, <1>3 DEF PartsLast
<1>5. Settled = Len(WholeLines)
  BY DEF Settled
<1>6. Settled' \in Nat /\ Settled' >= Len(WholeLines)
  <2>1. CASE l \in Part
    <3>1. EndsInPart'
      BY <1>1, <1>3, <2>1 DEF EndsInPart, Last, LogOK
    <3>2. WholeLines' = SubSeq(out', 1, Len(out') - 1)
      BY <3>1 DEF WholeLines, Front
    <3>3. Len(WholeLines') = Len(WholeLines)
      BY <1>1, <1>3, <3>2 DEF LogOK
    <3> QED
      BY <1>1, <3>3 DEF Settled
  <2>2. CASE l \notin Part
    <3>1. ~ EndsInPart'
      BY <1>3, <2>2 DEF EndsInPart, Last
    <3>2. WholeLines' = out'
      BY <3>1 DEF WholeLines
    <3> QED
      BY <1>1, <1>3, <3>2 DEF Settled
  <2> QED
    BY <2>1, <2>2
<1>7. ASSUME NEW k \in 0 .. Settled PROVE SubSeq(out', 1, k) = SubSeq(out, 1, k)
  <2>1. /\ k \in Nat /\ k <= Len(out) /\ k <= Len(out')
        /\ \A i \in 1 .. k : out'[i] = out[i]
    BY <1>1, <1>2, <1>3, <1>5
  <2> QED
    BY <1>2, <1>3, <2>1, SamePrefix
<1> QED
  BY <1>1, <1>3, <1>4, <1>5, <1>6, <1>7 DEF Kept

LEMMA SettledBound ==
  ASSUME Inv PROVE Settled \in Nat /\ Settled <= Len(out) /\ Len(out) \in Nat
<1>1. Len(out) \in Nat
  BY LogDomain DEF Inv, TypeOK
<1> QED
  BY <1>1, WholeAndPart DEF Inv, Settled

LEMMA ReadingsKept ==
  ASSUME Inv, Kept, UNCHANGED <<pc, verbose, tele, row>>, verbose => teed <= teed', teed' \in Nat
  PROVE  ReadingsOK'
<1> SUFFICES ASSUME pc \in {"waste", "recorded"} PROVE ReadingsOK'
  BY DEF ReadingsOK
<1>1. PICK k \in 0 .. Settled :
        /\ verbose => k <= teed
        /\ tele = ParseWorkerTelemetry(SubSeq(out, 1, k)) \/ tele.behavior = UnparseableBehavior
        /\ pc = "recorded" =>
             \E m \in k .. Settled : row.waste = ComputeWasteScore(SubSeq(out, 1, m))
  BY DEF Inv, ReadingsOK
<1>2. k \in 0 .. Settled' /\ SubSeq(out', 1, k) = SubSeq(out, 1, k)
  BY DEF Kept
<1>3. verbose' => k <= teed'
  BY <1>1 DEF Inv, TypeOK
<1>4. ASSUME pc = "recorded"
      PROVE  \E m \in k .. Settled' : row'.waste = ComputeWasteScore(SubSeq(out', 1, m))
  <2>1. PICK m \in k .. Settled : row.waste = ComputeWasteScore(SubSeq(out, 1, m))
    BY <1>1, <1>4
  <2>2. m \in 0 .. Settled /\ m \in k .. Settled'
    BY DEF Kept
  <2>3. SubSeq(out', 1, m) = SubSeq(out, 1, m)
    BY <2>2 DEF Kept
  <2> QED
    BY <2>1, <2>2, <2>3
<1>5. tele' = ParseWorkerTelemetry(SubSeq(out', 1, k)) \/ tele'.behavior = UnparseableBehavior
  BY <1>1, <1>2
<1> QED
  BY <1>2, <1>3, <1>4, <1>5 DEF ReadingsOK

LEMMA WriteInv ==
  ASSUME Inv, \/ \E l \in Line : Write(l)
              \/ \E p \in Part : WritePart(p)
  PROVE  Inv'
<1>1. PICK l \in Line \cup Part : /\ out' = Append(WholeLines, l)
                                  /\ l \in Part => ~ EndsInPart
  BY KindsApart DEF Write, WritePart, WholeLines
<1>2. /\ running
      /\ UNCHANGED <<eff, verbose, earlier, teed, running, attempt, pc, outcome, tele, row, archive>>
  BY DEF Write, WritePart
<1>3. Kept /\ LogOK(out') /\ PartsLast'
  BY <1>1, <1>2, WriteKeeps
<1>4. attempt = 1 => pc = "work"
  BY <1>2 DEF Inv, EndedOK
<1>5. ReadingsOK'
  BY <1>2, <1>3, ReadingsKept DEF Inv, TypeOK
<1>6. TypeOK' /\ EndedOK'
  BY <1>2, <1>3 DEF Inv, TypeOK, EndedOK
<1>7. TeedOK'
  BY <1>2, <1>3 DEF Inv, TypeOK, TeedOK, Kept
<1>8. WholeOK' /\ RowOK'
  BY <1>2, <1>4 DEF Inv, WholeOK, RowOK, Direct
<1> QED
  BY <1>3, <1>5, <1>6, <1>7, <1>8 DEF Inv

LEMMA StopInv == ASSUME Inv, Stop PROVE Inv'
<1>1. /\ running /\ running' = FALSE
      /\ UNCHANGED <<eff, verbose, out, earlier, teed, attempt, pc, outcome, tele, row, archive>>
  BY DEF Stop
<1>2. Settled' = Len(out) /\ Settled <= Len(out) /\ Settled \in Nat /\ Len(out) \in Nat
  BY <1>1, SettledBound DEF Settled
<1>3. Kept
  BY <1>1, <1>2 DEF Kept
<1>4. ReadingsOK'
  BY <1>1, <1>3, ReadingsKept DEF Inv, TypeOK
<1>5. TypeOK' /\ EndedOK' /\ PartsLast'
  BY <1>1 DEF Inv, TypeOK, EndedOK, PartsLast
<1>6. TeedOK'
  BY <1>1, <1>2 DEF Inv, TypeOK, TeedOK
<1>7. WholeOK' /\ RowOK'
  BY <1>1 DEF Inv, WholeOK, RowOK, Direct
<1> QED
  BY <1>4, <1>5, <1>6, <1>7 DEF Inv

LEMMA TeeInv == ASSUME Inv, Tee PROVE Inv'
<1>1. /\ teed < Settled /\ teed' = teed + 1
      /\ UNCHANGED <<eff, verbose, out, earlier, running, attempt, pc, outcome, tele, row, archive>>
  BY DEF Tee, Settled
<1>2. UNCHANGED <<Settled, WholeLines>> /\ Settled \in Nat /\ teed \in Nat
  BY <1>1, SettledBound DEF Inv, TypeOK, Settled, WholeLines, EndsInPart
<1>3. Kept
  BY <1>1, <1>2 DEF Kept
<1>4. ReadingsOK'
  BY <1>1, <1>2, <1>3, ReadingsKept
<1>5. TypeOK' /\ EndedOK' /\ PartsLast'
  BY <1>1 DEF Inv, TypeOK, EndedOK, PartsLast
<1>6. TeedOK'
  BY <1>1, <1>2 DEF TeedOK
<1>7. WholeOK' /\ RowOK'
  BY <1>1 DEF Inv, WholeOK, RowOK, Direct
<1> QED
  BY <1>4, <1>5, <1>6, <1>7 DEF Inv

\* The relaunched worker starts an empty log, which nothing has been read from.
LEMMA RelaunchInv == ASSUME Inv, Relaunch PROVE Inv'
<1>1. /\ pc = "attempt" /\ out' = <<>> /\ earlier' = 0 /\ teed' = 0 /\ verbose' = FALSE
      /\ running' = TRUE /\ attempt' = attempt + 1
      /\ UNCHANGED <<eff, pc, outcome, tele, row, archive>>
  BY DEF Relaunch, Truncated
<1>2. LogOK(out') /\ Len(out') = 0
  BY <1>1 DEF LogOK
<1>3. WholeLines' = <<>>
  BY <1>1 DEF WholeLines, EndsInPart
<1>4. Settled' = 0
  BY <1>1, <1>3 DEF Settled
<1>5. attempt' \in Nat \ {0} /\ attempt' # 1
  BY <1>1 DEF Inv, TypeOK
<1>6. PartsLast'
  BY <1>2 DEF PartsLast
<1>7. TypeOK'
  BY <1>1, <1>2, <1>5 DEF Inv, TypeOK
<1>8. TeedOK' /\ EndedOK' /\ ReadingsOK' /\ WholeOK' /\ RowOK'
  BY <1>1, <1>4, <1>5 DEF TeedOK, EndedOK, ReadingsOK, WholeOK, RowOK, Direct
<1> QED
  BY <1>6, <1>7, <1>8 DEF Inv

\* The steps of finalize_worker leave the log and the worker alone.
Looks == UNCHANGED <<eff, verbose, out, earlier, teed, running, attempt>> /\ pc' \in Steps

LEMMA LooksKeep ==
  ASSUME Inv, Looks, attempt = 1 /\ pc' # "work" => ~ running
  PROVE  /\ TypeOK' /\ PartsLast' /\ TeedOK' /\ EndedOK'
         /\ Settled' = Settled
  BY DEF Inv, Looks, TypeOK, PartsLast, TeedOK, EndedOK, Settled, WholeLines, EndsInPart

LEMMA ReapInv == ASSUME Inv, Reap PROVE Inv'
<1>1. /\ pc = "work" /\ ~ running /\ pc' = "attempt" /\ Looks
      /\ UNCHANGED <<tele, row, archive>>
  BY DEF Reap, Looks, Steps
<1>2. TypeOK' /\ PartsLast' /\ TeedOK' /\ EndedOK'
  BY <1>1, LooksKeep
<1>3. ReadingsOK' /\ WholeOK' /\ RowOK'
  BY <1>1 DEF Inv, ReadingsOK, WholeOK, RowOK, Direct, Looks
<1> QED
  BY <1>2, <1>3 DEF Inv

LEMMA EndAttemptInv == ASSUME Inv, NEW o, EndAttempt(o) PROVE Inv'
<1>1. /\ pc = "attempt" /\ pc' = "telemetry" /\ Looks /\ archive' \in {Log, archive}
  BY DEF EndAttempt, Looks, Steps
<1>2. TypeOK' /\ PartsLast' /\ TeedOK' /\ EndedOK'
  BY <1>1, LooksKeep DEF Inv, EndedOK
<1>3. Direct => Log = out /\ archive = None
  BY <1>1 DEF Inv, WholeOK, Direct, Log
<1>4. ReadingsOK' /\ WholeOK' /\ RowOK'
  BY <1>1, <1>3 DEF ReadingsOK, WholeOK, RowOK, Direct, Looks
<1> QED
  BY <1>2, <1>4 DEF Inv

\* What a reading finds is in the lines that stay.
LEMMA ReadNow ==
  ASSUME Inv
  PROVE  \E n \in 0 .. Settled :
            /\ IF verbose THEN n = teed ELSE n = Settled
            /\ \/ ~ Decodable(Log)
               \/ /\ ParseWorkerTelemetry(Log) = ParseWorkerTelemetry(SubSeq(out, 1, n))
                  /\ ComputeWasteScore(Log) = ComputeWasteScore(SubSeq(out, 1, n))
<1>1. Settled \in Nat /\ teed \in Nat /\ teed <= Settled /\ Settled \in 0 .. Settled
  BY SettledBound DEF Inv, TypeOK, TeedOK
<1>2. CASE verbose
  <2>1. Log = SubSeq(out, 1, teed)
    BY <1>2 DEF Log
  <2>2. teed \in 0 .. Settled
    BY <1>1
  <2> QED
    BY <1>2, <2>1, <2>2
<1>3. CASE ~ verbose
  <2>1. Log = out
    BY <1>3 DEF Log
  <2>2. LogOK(out) /\ SubSeq(out, 1, Len(out)) = out
    BY WholePrefix DEF Inv, TypeOK
  <2>3. CASE ~ running \/ ~ EndsInPart
    <3>1. Settled = Len(out)
      BY <2>3 DEF Settled, WholeLines
    <3>2. SubSeq(out, 1, Settled) = Log
      BY <2>1, <2>2, <3>1
    <3> QED
      BY <1>1, <1>3, <3>2
  <2>4. CASE running /\ EndsInPart
    <3>1. /\ LogOK(WholeLines) /\ Len(WholeLines) \in Nat /\ Len(WholeLines) <= Len(out)
          /\ \A i \in 1 .. Len(WholeLines) : WholeLines[i] = out[i]
          /\ out = Append(WholeLines, Torn) \/ ~ Decodable(out)
      BY <2>4, WholeAndPart DEF Inv
    <3>2. Settled = Len(WholeLines)
      BY <2>4 DEF Settled
    <3>3. SubSeq(out, 1, Settled) = WholeLines
      <4>1. Len(WholeLines) <= Len(WholeLines)
        BY <3>1
      <4>2. SubSeq(WholeLines, 1, Len(WholeLines)) = SubSeq(out, 1, Len(WholeLines))
        BY <2>2, <3>1, <4>1, SamePrefix
      <4> QED
        BY <3>1, <3>2, <4>2, WholePrefix
    <3>4. ~ Decodable(out) \/ /\ ParseWorkerTelemetry(out) = ParseWorkerTelemetry(WholeLines)
                              /\ ComputeWasteScore(out) = ComputeWasteScore(WholeLines)
      BY <3>1, TornIsSkipped
    <3>5. \/ ~ Decodable(Log)
          \/ /\ ParseWorkerTelemetry(Log) = ParseWorkerTelemetry(SubSeq(out, 1, Settled))
             /\ ComputeWasteScore(Log) = ComputeWasteScore(SubSeq(out, 1, Settled))
      BY <2>1, <3>3, <3>4
    <3> QED
      BY <1>1, <1>3, <3>5
  <2> QED
    BY <2>3, <2>4
<1> QED
  BY <1>2, <1>3

LEMMA ReadTelemetryInv == ASSUME Inv, ReadTelemetry PROVE Inv'
<1>1. /\ pc = "telemetry" /\ pc' = "waste" /\ Looks /\ UNCHANGED archive
      /\ tele' = ParseWorkerTelemetry(Log)
  BY DEF ReadTelemetry, Looks, Steps
<1>2. TypeOK' /\ PartsLast' /\ TeedOK' /\ EndedOK' /\ Settled' = Settled
  BY <1>1, LooksKeep DEF Inv, EndedOK
<1>3. PICK n \in 0 .. Settled :
        /\ IF verbose THEN n = teed ELSE n = Settled
        /\ ~ Decodable(Log) \/ ParseWorkerTelemetry(Log) = ParseWorkerTelemetry(SubSeq(out, 1, n))
  BY ReadNow
<1>4. ReadingsOK'
  <2>1. tele' = ParseWorkerTelemetry(SubSeq(out', 1, n)) \/ tele'.behavior = UnparseableBehavior
    BY <1>1, <1>3, CutIsUnparseable DEF Looks
  <2>2. verbose' => n <= teed'
    BY <1>1, <1>3, <1>2 DEF Looks, TypeOK
  <2>3. n \in 0 .. Settled' /\ pc' # "recorded"
    BY <1>1, <1>2
  <2> QED
    BY <2>1, <2>2, <2>3 DEF ReadingsOK
<1>5. WholeOK' /\ RowOK'
  <2>1. Direct => Log = out /\ archive \in {None, out}
    BY <1>1 DEF Inv, WholeOK, Direct, Log
  <2> QED
    BY <1>1, <2>1 DEF WholeOK, RowOK, Direct, Looks
<1> QED
  BY <1>2, <1>4, <1>5 DEF Inv

\* The row has what was read, in the columns of the mode.
LEMMA NewRowOK ==
  ASSUME NEW waste
  PROVE  LET new == NewRow(waste)
             in == tele.usage[1]
             o == tele.usage[2]
         IN /\ new.waste = waste
            /\ eff = "local" =>
                 /\ new = [waste |-> new.waste, outcome |-> new.outcome,
                           retryCount |-> new.retryCount, cloudTokens |-> new.cloudTokens,
                           localIn |-> in, localOut |-> o, localTokens |-> new.localTokens,
                           rate |-> o, compactions |-> new.compactions,
                           retries |-> new.retries, behavior |-> tele.behavior,
                           tags |-> new.tags]
                 /\ in # None /\ o # None => new.localTokens = in + o
  BY DEF NewRow, BuildCostMetrics

LEMMA ReadWasteInv == ASSUME Inv, ReadWaste PROVE Inv'
<1>1. /\ pc = "waste" /\ Looks /\ UNCHANGED <<tele, archive>>
  BY DEF ReadWaste, Looks, Steps
<1>2. TypeOK' /\ PartsLast' /\ TeedOK' /\ EndedOK' /\ Settled' = Settled
  BY <1>1, LooksKeep DEF Inv, EndedOK
<1>3. CASE ~ Decodable(Log)
  <2>1. pc' = "raised"
    BY <1>3 DEF ReadWaste, WasteRaises
  <2> QED
    BY <1>1, <1>2, <2>1 DEF Inv, ReadingsOK, WholeOK, RowOK, Direct, Looks
<1>4. CASE Decodable(Log)
  <2> DEFINE waste == ComputeWasteScore(Log)
  <2>1. pc' = "recorded" /\ row' = NewRow(waste) /\ row'.waste = waste
    BY <1>4, NewRowOK DEF ReadWaste, WasteRaises
  <2>2. PICK n \in 0 .. Settled : /\ IF verbose THEN n = teed ELSE n = Settled
                                  /\ waste = ComputeWasteScore(SubSeq(out, 1, n))
    BY <1>4, ReadNow
  <2>3. PICK k \in 0 .. Settled :
          /\ verbose => k <= teed
          /\ tele = ParseWorkerTelemetry(SubSeq(out, 1, k))
               \/ tele.behavior = UnparseableBehavior
    BY <1>1 DEF Inv, ReadingsOK
  <2> HIDE DEF waste
  <2>4. k \in 0 .. Settled' /\ n \in k .. Settled'
    BY <1>2, <2>2, <2>3, SettledBound
  <2>5. /\ row'.waste = ComputeWasteScore(SubSeq(out', 1, n))
        /\ tele' = ParseWorkerTelemetry(SubSeq(out', 1, k))
             \/ tele'.behavior = UnparseableBehavior
        /\ verbose' => k <= teed'
    BY <1>1, <2>1, <2>2, <2>3 DEF Looks
  <2>6. ReadingsOK'
    BY <2>4, <2>5 DEF ReadingsOK
  <2>7. WholeOK'
    <3>1. Direct => Log = out /\ archive \in {None, out} /\ tele = ParseWorkerTelemetry(out)
      BY <1>1 DEF Inv, WholeOK, Direct, Log
    <3> QED
      BY <1>1, <1>4, <2>1, <3>1 DEF WholeOK, Direct, Looks, waste
  <2>8. RowOK'
    BY <1>1, <2>1, NewRowOK DEF RowOK, Direct, Looks
  <2> QED
    BY <1>2, <2>6, <2>7, <2>8 DEF Inv
<1> QED
  BY <1>3, <1>4

LEMMA TagAndPreserveInv == ASSUME Inv, NEW w, TagAndPreserve(w) PROVE Inv'
<1>1. /\ pc = "recorded" /\ pc' = "ended" /\ Looks /\ UNCHANGED tele
      /\ archive' = IF archive = None THEN Log ELSE archive
      /\ \E tags : row' = [row EXCEPT !.tags = tags]
  BY DEF TagAndPreserve, Looks, Steps
<1>2. TypeOK' /\ PartsLast' /\ TeedOK' /\ EndedOK'
  BY <1>1, LooksKeep DEF Inv, EndedOK
<1>3. ReadingsOK'
  BY <1>1 DEF ReadingsOK
<1>4. WholeOK'
  BY <1>1 DEF Inv, WholeOK, Direct, Log, Looks
<1>5. RowOK'
  BY <1>1 DEF Inv, RowOK, Direct, Looks
<1> QED
  BY <1>2, <1>3, <1>4, <1>5 DEF Inv

\* Over the whole log of a local worker the scripts find what the row has.
LEMMA BackfillSame ==
  ASSUME Inv, Direct, eff = "local", NEW force,
         BackfillBehavior(force) \/ BackfillOutput(force)
  PROVE  row' = row
<1> DEFINE t == ParseWorkerTelemetry(out)
           u == ParseWorkerUsage(archive)
<1>1. /\ pc = "ended" /\ archive = out /\ tele = t /\ LogOK(out)
      /\ row.behavior = t.behavior /\ row.localIn = t.usage[1] /\ row.localOut = t.usage[2]
      /\ row.rate = t.usage[2]
      /\ t.usage[1] # None /\ t.usage[2] # None => row.localTokens = t.usage[1] + t.usage[2]
  BY DEF BackfillBehavior, BackfillOutput, Inv, TypeOK, WholeOK, RowOK
<1>2. row = [waste |-> row.waste, outcome |-> row.outcome, retryCount |-> row.retryCount,
             cloudTokens |-> row.cloudTokens, localIn |-> row.localIn,
             localOut |-> row.localOut, localTokens |-> row.localTokens,
             rate |-> row.rate, compactions |-> row.compactions,
             retries |-> row.retries, behavior |-> row.behavior, tags |-> row.tags]
  BY <1>1 DEF Inv, RowOK
<1>3. ParseWorkerBehavior(archive) = row.behavior /\ u \in {t.usage, <<None, None, None, None>>}
  BY <1>1, ParsersAgree
<1>4. CASE BackfillBehavior(force)
  <2>1. row' = [row EXCEPT !.behavior = row.behavior]
    BY <1>3, <1>4 DEF BackfillBehavior
  <2> QED
    BY <1>2, <2>1
<1>5. CASE BackfillOutput(force)
  <2>1. /\ u[2] # None
        /\ row' = [row EXCEPT !.localOut = u[2], !.localTokens = InputValue(u[1]) + u[2],
                              !.rate = u[2]]
    BY <1>5 DEF BackfillOutput
  <2> HIDE DEF t, u
  <2>2. u = t.usage
    BY <1>3, <2>1
  <2>3. t.usage[1] # None
    BY <1>1, <2>1, <2>2, UsageIsPaired DEF t
  <2>4. InputValue(u[1]) = u[1]
    BY <1>1, <2>2, <2>3 DEF InputValue
  <2>5. u[2] = row.localOut /\ u[2] = row.rate /\ InputValue(u[1]) + u[2] = row.localTokens
    BY <1>1, <2>1, <2>2, <2>3, <2>4
  <2>6. row' = [row EXCEPT !.localOut = row.localOut, !.localTokens = row.localTokens,
                           !.rate = row.rate]
    BY <2>1, <2>5
  <2> QED
    BY <1>2, <2>6
<1> QED
  BY <1>4, <1>5

LEMMA BackfillInv ==
  ASSUME Inv, NEW force, BackfillBehavior(force) \/ BackfillOutput(force) PROVE Inv'
<1>1. /\ pc = "ended" /\ pc' = "ended" /\ Looks /\ UNCHANGED <<tele, archive>>
  BY DEF BackfillBehavior, BackfillOutput, Looks, Steps
<1>2. TypeOK' /\ PartsLast' /\ TeedOK' /\ EndedOK'
  BY <1>1, LooksKeep DEF Inv, EndedOK
<1>3. ReadingsOK' /\ WholeOK'
  BY <1>1 DEF Inv, ReadingsOK, WholeOK, Direct, Looks
<1>4. RowOK'
  BY <1>1, BackfillSame DEF Inv, RowOK, Direct, Looks
<1> QED
  BY <1>2, <1>3, <1>4 DEF Inv

LEMMA NextInv == Inv /\ [Next]_vars => Inv'
<1>1. ASSUME Inv, UNCHANGED vars PROVE Inv'
  BY <1>1 DEF Inv, vars, TypeOK, PartsLast, TeedOK, EndedOK, ReadingsOK, WholeOK, RowOK, Direct,
              Settled, WholeLines, EndsInPart
<1> QED
  BY <1>1, WriteInv, StopInv, TeeInv, RelaunchInv, ReapInv, EndAttemptInv, ReadTelemetryInv,
     ReadWasteInv, TagAndPreserveInv, BackfillInv DEF Next

LEMMA Invariant == Spec => []Inv
  BY InitInv, NextInv, PTL DEF Spec

\* Type correctness: only the last line of a log is ever a part of one, and the tee
\* thread never hands on more lines than are whole (_tee_output).
THEOREM TelemetryTypeCorrect == Spec => [](TypeOK /\ PartsLast /\ TeedOK)
<1>1. Inv => TypeOK /\ PartsLast /\ TeedOK
  BY DEF Inv
<1> QED
  BY <1>1, Invariant, PTL

\* Of every log, cut off wherever it may be, the one pass of _parse_worker_telemetry
\* makes what the parsers it replaced make of it, wherever those make anything of it.
THEOREM OnePassAgrees == Spec => []SinglePassAgrees
<1>1. Inv => SinglePassAgrees
  <2> SUFFICES ASSUME Inv PROVE SinglePassAgrees
    OBVIOUS
  <2>1. LogOK(out) /\ teed \in Nat /\ teed <= Len(out)
    <3>1. teed \in Nat /\ teed <= Settled /\ Settled \in Nat /\ Settled <= Len(out)
          /\ Len(out) \in Nat
      BY SettledBound DEF Inv, TypeOK, TeedOK
    <3> QED
      BY <3>1 DEF Inv, TypeOK
  <2>2. LogOK(Log)
    BY <2>1, SamePrefix DEF Log
  <2> QED
    BY <2>2, ParsersAgree DEF SinglePassAgrees
<1> QED
  BY <1>1, Invariant, PTL

\* A row is of the attempt that is last: both readings are of lines of its log, the
\* waste score's of at least as many, and a worker that was launched once and wrote its
\* log itself is recorded with all it wrote (finalize_worker).
THEOREM RowsAreOfLastAttempt == Spec => []ReadsLastAttempt
<1>1. Inv => ReadsLastAttempt
  <2> SUFFICES ASSUME Inv, pc = "recorded"
               PROVE  \E p, q \in Prefixes(SubSeq(out, earlier + 1, Len(out))) :
                        /\ Len(p) <= Len(q)
                        /\ tele = ParseWorkerTelemetry(p) \/ tele.behavior = UnparseableBehavior
                        /\ row.waste = ComputeWasteScore(q)
                        /\ attempt = 1 /\ ~ verbose =>
                             p = out /\ q = out /\ tele.behavior # UnparseableBehavior
    BY DEF ReadsLastAttempt
  <2>1. LogOK(out) /\ earlier = 0
    BY DEF Inv, TypeOK
  <2>2. SubSeq(out, earlier + 1, Len(out)) = out
    BY <2>1, WholePrefix
  <2>3. Settled \in Nat /\ Settled <= Len(out) /\ Len(out) \in Nat
    BY SettledBound
  <2>4. \A k \in 0 .. Len(out) : SubSeq(out, 1, k) \in Prefixes(out)
    BY DEF Prefixes
  <2>5. CASE Direct
    <3>1. /\ tele = ParseWorkerTelemetry(out) /\ Decodable(out)
          /\ row.waste = ComputeWasteScore(out)
      BY <2>5 DEF Inv, WholeOK
    <3>2. out \in Prefixes(out)
      <4>1. Len(out) \in 0 .. Len(out)
        BY <2>3
      <4> QED
        BY <2>1, <2>4, <4>1, WholePrefix
    <3>3. tele.behavior # UnparseableBehavior
      BY <2>1, <3>1, DecodableIsParsed
    <3>4. Len(out) <= Len(out)
      BY <2>3
    <3> QED
      BY <2>2, <3>1, <3>2, <3>3, <3>4
  <2>6. CASE ~ Direct
    <3>1. PICK k, m :
            /\ k \in 0 .. Settled /\ m \in k .. Settled
            /\ tele = ParseWorkerTelemetry(SubSeq(out, 1, k))
                 \/ tele.behavior = UnparseableBehavior
            /\ row.waste = ComputeWasteScore(SubSeq(out, 1, m))
      BY DEF Inv, ReadingsOK
    <3> DEFINE p == SubSeq(out, 1, k)
               q == SubSeq(out, 1, m)
    <3>2. k \in 0 .. Len(out) /\ m \in 0 .. Len(out) /\ k <= m
      BY <2>3, <3>1
    <3>3. p \in Prefixes(out) /\ q \in Prefixes(out)
      BY <2>4, <3>2
    <3>4. Len(p) <= Len(q)
      BY <2>1, <2>3, <3>2 DEF LogOK
    <3> HIDE DEF p, q
    <3>5. tele = ParseWorkerTelemetry(p) \/ tele.behavior = UnparseableBehavior
      BY <3>1 DEF p
    <3>6. row.waste = ComputeWasteScore(q)
      BY <3>1 DEF q
    <3> QED
      BY <2>2, <2>6, <3>3, <3>4, <3>5, <3>6 DEF Direct
  <2> QED
    BY <2>5, <2>6
<1> QED
  BY <1>1, Invariant, PTL

\* Run over the log of a worker that was launched once and wrote it itself, a backfill,
\* even a forced one, leaves the row as finalize_worker recorded it.
THEOREM BackfillsFindTheRow == Spec => BackfillReproduces
<1>1. Inv /\ [Next]_vars =>
        [pc = "ended" /\ attempt = 1 /\ ~ verbose /\ eff = "local" => row' = row]_row
  <2> SUFFICES ASSUME Inv, [Next]_vars,
                      pc = "ended" /\ attempt = 1 /\ ~ verbose /\ eff = "local"
               PROVE  row' = row
    OBVIOUS
  <2>1. ASSUME NEW force, BackfillBehavior(force) \/ BackfillOutput(force) PROVE row' = row
    BY <2>1, BackfillSame DEF Direct
  <2>2. CASE (\E l \in Line : Write(l)) \/ (\E p \in Part : WritePart(p)) \/ Stop \/ Tee
    BY <2>2 DEF Write, WritePart, Stop, Tee
  <2>3. CASE Reap \/ Relaunch \/ (\E o \in {"success", "failure", "escalated"} : EndAttempt(o))
             \/ ReadTelemetry
    BY <2>3 DEF Reap, Relaunch, EndAttempt, ReadTelemetry
  <2>4. CASE ReadWaste \/ (\E w \in Way : TagAndPreserve(w))
    BY <2>4 DEF ReadWaste, TagAndPreserve
  <2>5. CASE UNCHANGED vars
    BY <2>5 DEF vars
  <2> QED
    BY <2>1, <2>2, <2>3, <2>4, <2>5 DEF Next
<1> QED
  BY <1>1, Invariant, PTL DEF Spec, BackfillReproduces
=============================================================================
