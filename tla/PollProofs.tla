----------------------------- MODULE PollProofs ------------------------------
(***************************************************************************)
(* Proofs about what a poll does next to its workers.  Promotion and epic   *)
(* completion, for every dependency graph: no ticket is promoted early, the *)
(* manifest and Linear part ways only where the code cannot help it, and an *)
(* exit leaves nothing behind.  Supervision: a daemon obeys only the        *)
(* gestures made to it, whatever sentinel files earlier daemons have left.  *)
(***************************************************************************)
EXTENDS Promotion, Supervision, WellFoundedInduction, TLAPS

Step ==
    {"start", "scan", "fetch", "write", "resolve", "set", "comment", "work", "list",
     "announce", "exited", "down"}

ManifestStatus == {"none", "WaitingForDeps", "ReadyForLocal", "Backlog", "torn"}

Decided == {"ReadyForLocal", "Backlog"}

TypeOK ==
    /\ pc \in Step
    /\ cur \in Ticket \cup {NoTicket}
    /\ todo \subseteq Planned
    /\ seen \in [Ticket -> {"unread", "open", "completed", "cancelled", "unknown"}]
    /\ tries \in Nat
    /\ status \in [Ticket -> ManifestStatus]
    /\ \A t \in Ticket : status[t] = "WaitingForDeps" => t \in Planned
    /\ linear \in [Ticket -> {"WaitingForDeps", "started", "ReadyForLocal", "Backlog",
                              "InProgressLocal", "MergedToEpic", "Blocked", "Cancelled"}]
    /\ running \subseteq Ticket

\* Where a manifest stands while the scan is at it.
ScanOK ==
    /\ pc \in {"fetch", "write", "resolve", "set", "comment"} => cur \in Planned
    /\ pc \in {"fetch", "write"} => status[cur] = "WaitingForDeps"
    /\ pc \in {"resolve", "set"} => status[cur] \in Decided /\ cur \notin Unfiled

\* What counts as completed was completed.
ClosedOK ==
    \A t \in Ticket : linear[t] = "MergedToEpic" \/ seen[t] = "completed" => t \in closed

\* Once the ready tickets were listed, only people make more of them.
ListedOK ==
    /\ pc \in {"list", "announce", "exited"} => running = {}
    /\ pc \in {"announce", "exited"} =>
         \A t \in Ticket : /\ status[t] # "WaitingForDeps"
                           /\ linear[t] = "ReadyForLocal" => t \in touched

Inv == TypeOK /\ ScanOK /\ ClosedOK /\ ListedOK

USE DEF scan, client, pools, epic, ghosts, bounds, vars

LEMMA InitInv == Init => Inv
  BY PromotionAssumption
  DEF Init, Inv, TypeOK, Step, ManifestStatus, ScanOK, ClosedOK, ListedOK

LEMMA LeastIsMember == ASSUME NEW S \in SUBSET Nat, S # {} PROVE Least(S) \in S
<1>1. PICK m \in S : \A k \in S : <<k, m>> \notin OpToRel(<, Nat)
  BY WFMin, NatLessThanWellFounded, Zenon
<1>2. \A k \in S : ~ (k < m)
  BY <1>1, Zenon DEF OpToRel
<1>3. \A k \in S : m <= k
  BY <1>2
<1> QED
  BY <1>3 DEF Least

\* A decision is read off the blockers alone.
LEMMA Decisions == Decision \in {"WaitingForDeps", "ReadyForLocal", "Backlog"}
  BY DEF Decision

\* An answer that is lost may still have been given effect to.
LEMMA AppliedType ==
  ASSUME Inv, MaybeApplied
  PROVE  /\ linear' = linear \/ (pc = "set" /\ linear' = [linear EXCEPT ![cur] = status[cur]])
         /\ linear' = linear
              \/ (/\ cur \in Ticket /\ linear'[cur] \in Decided
                  /\ \A t \in Ticket : t # cur => linear'[t] = linear[t])
<1>1. pc = "set" => cur \in Ticket /\ status[cur] \in Decided
  BY PromotionAssumption DEF Inv, ScanOK
<1> QED
  BY <1>1 DEF MaybeApplied, Inv, TypeOK

LEMMA ScanInv ==
  ASSUME Inv, StartScan \/ NextManifest \/ EndScan \/ FetchBlocker \/ WriteManifest
  PROVE  Inv'
<1> USE DEF Inv
<1>1. CASE StartScan \/ EndScan
  BY <1>1 DEF StartScan, EndScan, TypeOK, Step, ScanOK, ClosedOK, ListedOK
<1>2. CASE NextManifest
  <2> DEFINE t == Least(todo)
  <2>1. t \in todo /\ t \in Planned /\ t \in Ticket
    BY <1>2, LeastIsMember, PromotionAssumption DEF NextManifest, TypeOK
  <2>2. /\ cur' \in {cur, t} /\ pc' \in {"scan", "write", "fetch"} /\ todo' \subseteq todo
        /\ pc' # "scan" => cur' = t /\ status[t] = "WaitingForDeps"
        /\ seen' = [u \in Ticket |-> "unread"]
        /\ UNCHANGED <<client, status, linear, pools, epic, ghosts, bounds>>
    BY <1>2 DEF NextManifest
  <2>3. TypeOK'
    BY <2>1, <2>2 DEF TypeOK, Step
  <2>4. ScanOK' /\ ClosedOK' /\ ListedOK'
    BY <2>1, <2>2 DEF ScanOK, ClosedOK, ListedOK
  <2> QED
    BY <2>3, <2>4
<1>3. CASE FetchBlocker
  <2>1. /\ pc = "fetch" /\ pc' \in {"fetch", "write"} /\ tries' = 0
        /\ UNCHANGED <<cur, todo, cached, status, linear, pools, epic, ghosts, bounds>>
    BY <1>3 DEF FetchBlocker
  <2> DEFINE b == Least(Unread)
  <2>2. PICK answer \in {TypeOf(linear[b]), "unknown"} : seen' = [seen EXCEPT ![b] = answer]
    BY <1>3 DEF FetchBlocker
  <2>3. /\ answer \in {"open", "completed", "cancelled", "unknown"}
        /\ answer = "completed" => linear[b] = "MergedToEpic"
    BY <2>2 DEF TypeOf
  <2>4. TypeOK'
    BY <2>1, <2>2, <2>3 DEF TypeOK, Step
  <2>5. ScanOK' /\ ListedOK'
    BY <2>1 DEF ScanOK, ListedOK
  <2>6. ClosedOK'
    BY <2>1, <2>2, <2>3 DEF TypeOK, ClosedOK
  <2> QED
    BY <2>4, <2>5, <2>6
<1>4. CASE WriteManifest
  <2>1. /\ pc = "write" /\ status' = [status EXCEPT ![cur] = Decision]
        /\ pc' \in {"scan", "set", "resolve"}
        /\ pc' # "scan" => Decision # "WaitingForDeps" /\ cur \notin Unfiled
        /\ UNCHANGED <<cur, todo, seen, client, linear, pools, epic, ghosts, bounds>>
    BY <1>4 DEF WriteManifest
  <2>2. cur \in Planned /\ cur \in Ticket
    BY <2>1, PromotionAssumption DEF ScanOK
  <2>3. TypeOK'
    BY <2>1, <2>2, Decisions DEF TypeOK, Step, ManifestStatus
  <2>4. ScanOK' /\ ClosedOK' /\ ListedOK'
    BY <2>1, <2>2, Decisions DEF TypeOK, ScanOK, ClosedOK, ListedOK, Decided
  <2> QED
    BY <2>3, <2>4
<1> QED
  BY <1>1, <1>2, <1>3, <1>4

LEMMA CallsInv ==
  ASSUME Inv, Retry \/ ResolveState \/ SetState \/ PostComment PROVE Inv'
<1> USE DEF Inv
<1>1. CASE Retry \/ SetState
  <2>1. /\ \/ linear' = linear
           \/ /\ cur \in Ticket /\ linear'[cur] \in Decided /\ pc = "set"
              /\ \A t \in Ticket : t # cur => linear'[t] = linear[t]
              /\ linear' = [linear EXCEPT ![cur] = status[cur]]
    <3>1. CASE MaybeApplied
      BY <3>1, AppliedType
    <3>2. CASE ~ MaybeApplied
      <4>1. pc = "set" /\ linear' = [linear EXCEPT ![cur] = status[cur]]
        BY <1>1, <3>2 DEF Retry, SetState
      <4> QED
        BY <4>1, PromotionAssumption DEF TypeOK, ScanOK
    <3> QED
      BY <3>1, <3>2
  <2>2. /\ UNCHANGED <<cur, todo, seen, cached, status, pools, epic, ghosts, bounds>>
        /\ pc' = pc \/ (pc = "set" /\ pc' = "comment")
        /\ tries' \in Nat
    BY <1>1 DEF Retry, SetState, TypeOK
  <2>3. TypeOK'
    BY <2>1, <2>2 DEF TypeOK, Step, Decided
  <2>4. ScanOK'
    BY <2>2 DEF ScanOK
  <2>5. ClosedOK'
    BY <2>1, <2>2 DEF ClosedOK, Decided
  <2>6. ListedOK'
    BY <2>1, <2>2 DEF ListedOK
  <2> QED
    BY <2>3, <2>4, <2>5, <2>6
<1>2. CASE ResolveState \/ PostComment
  BY <1>2 DEF ResolveState, PostComment, TypeOK, Step, ScanOK, ClosedOK, ListedOK
<1> QED
  BY <1>1, <1>2

LEMMA WorkInv ==
  ASSUME Inv, (\E t \in Ticket : Launch(t) \/ Finish(t)) \/ EndWork
  PROVE  Inv'
<1> USE DEF Inv
<1>1. CASE \E t \in Ticket : Launch(t) \/ Finish(t)
  BY <1>1 DEF Launch, Finish, TypeOK, Step, ScanOK, ClosedOK, ListedOK
<1>2. CASE EndWork
  BY <1>2 DEF EndWork, TypeOK, Step, ScanOK, ClosedOK, ListedOK
<1> QED
  BY <1>1, <1>2

LEMMA EpicInv == ASSUME Inv, ListReady \/ Announce PROVE Inv'
<1> USE DEF Inv
<1>1. CASE ListReady
  <2>1. /\ pc = "list" /\ pc' \in {"start", "announce", "exited"} /\ tries' = 0
        /\ UNCHANGED <<cur, todo, seen, cached, status, linear, pools, ghosts, bounds>>
    BY <1>1 DEF ListReady, AfterAnnouncement
  <2>2. pc' # "start" => /\ \A t \in Ticket : linear[t] # "ReadyForLocal"
                         /\ NoManifestWaits
    BY <1>1 DEF ListReady, NoneReady
  <2>3. pc' # "start" => \A t \in Ticket : status[t] # "WaitingForDeps"
    BY <2>2 DEF NoManifestWaits, TypeOK
  <2> QED
    BY <2>1, <2>2, <2>3 DEF TypeOK, Step, ScanOK, ClosedOK, ListedOK
<1>2. CASE Announce
  BY <1>2 DEF Announce, AfterAnnouncement, TypeOK, Step, ScanOK, ClosedOK, ListedOK
<1> QED
  BY <1>1, <1>2

LEMMA OutsideInv ==
  ASSUME Inv,
         \/ Crash \/ Restart \/ UNCHANGED vars
         \/ \E t \in Ticket, state \in {"MergedToEpic", "Cancelled", "ReadyForLocal"} :
              HumanMove(t, state)
  PROVE  Inv'
<1> USE DEF Inv
<1>1. CASE Crash
  <2>1. status' = status \/ status' = [status EXCEPT ![cur] = "torn"]
    BY <1>1 DEF Crash
  <2> QED
    BY <1>1, <2>1 DEF Crash, TypeOK, Step, ManifestStatus, ScanOK, ClosedOK, ListedOK
<1>2. CASE Restart \/ UNCHANGED vars
  BY <1>2 DEF Restart, TypeOK, Step, ScanOK, ClosedOK, ListedOK
<1>3. CASE \E t \in Ticket, state \in {"MergedToEpic", "Cancelled", "ReadyForLocal"} :
             HumanMove(t, state)
  BY <1>3 DEF HumanMove, TypeOK, ScanOK, ClosedOK, ListedOK
<1> QED
  BY <1>1, <1>2, <1>3

LEMMA NextInv == Inv /\ [Next]_vars => Inv'
  BY ScanInv, CallsInv, WorkInv, EpicInv, OutsideInv DEF Next, Daemon

LEMMA Invariant == Spec => []Inv
  BY InitInv, NextInv, PTL DEF Spec
-----------------------------------------------------------------------------
\* No ticket becomes ReadyForLocal in its manifest before each of its blockers was
\* completed at some time, whatever answers are lost and whoever moves tickets
\* (_promote_waiting_tickets).
THEOREM NobodyIsPromotedEarly == Spec => NeverPromotedEarly
<1> DEFINE Due == \A t \in Ticket :
                    status[t] # "ReadyForLocal" /\ status'[t] = "ReadyForLocal"
                        => Blockers[t] \subseteq closed
<1>1. ASSUME Inv, [Next]_vars PROVE [Due]_vars
  <2> SUFFICES ASSUME Next, NEW t \in Ticket,
                      status[t] # "ReadyForLocal", status'[t] = "ReadyForLocal"
               PROVE  Blockers[t] \subseteq closed
    BY <1>1
  <2>1. CASE WriteManifest
    <3>1. cur = t /\ Decision = "ReadyForLocal"
      BY <2>1, <1>1 DEF WriteManifest, Inv, TypeOK
    <3>2. \A b \in Blockers[t] : seen[b] = "completed"
      BY <3>1 DEF Decision, AllSatisfied
    <3> QED
      BY <1>1, <3>2, PromotionAssumption DEF Inv, ClosedOK
  <2>2. CASE Crash
    BY <2>2, <1>1 DEF Crash, Inv, TypeOK
  <2>3. CASE UNCHANGED status
    BY <2>3
  <2> QED
    BY <2>1, <2>2, <2>3
    DEF Next, Daemon, Retry, StartScan, NextManifest, EndScan, FetchBlocker, ResolveState,
        SetState, PostComment, Launch, Finish, EndWork, ListReady, Announce, Restart, HumanMove
<1>2. Inv /\ [Next]_vars => [Due]_vars
  BY <1>1
<1> QED
  BY <1>2, Invariant, PTL DEF Spec, NeverPromotedEarly

\* A daemon that exits on a complete epic leaves no waiting manifest, no running
\* worker and no ready ticket but those that people moved meanwhile
\* (no_remaining_ready_or_waiting).
THEOREM ExitIsComplete == Spec => []CompleteMeansComplete
<1>1. Inv => CompleteMeansComplete
  BY DEF Inv, ListedOK, CompleteMeansComplete
<1> QED
  BY <1>1, Invariant, PTL
-----------------------------------------------------------------------------
(* The two writes of a decision *)

\* A call is given up only where Linear refuses it.
LEMMA OnlyRefusedCallsAreGivenUp ==
  ASSUME MaxLost < Attempts, Inv, GivesUp, cur \in Planned PROVE cur \in Refusing
  BY PromotionAssumption DEF GivesUp, Attempts, Inv, TypeOK

\* A step that neither decides nor writes, and keeps its place between the writes.
LEMMA AgreementKept ==
  ASSUME ManifestAndLinearAgree,
         \A t \in Planned : status'[t] \in Decided => status'[t] = status[t],
         \A t \in Planned : linear'[t] = "WaitingForDeps" => linear[t] = "WaitingForDeps",
         interrupted \subseteq interrupted',
         \A t \in Planned : InBetween(t) /\ linear'[t] = "WaitingForDeps" =>
             InBetween(t)' \/ t \in Refusing \cup interrupted'
  PROVE  ManifestAndLinearAgree'
  BY DEF ManifestAndLinearAgree, Decided

LEMMA DecisionAgreement ==
  ASSUME Inv, ManifestAndLinearAgree, WriteManifest PROVE ManifestAndLinearAgree'
<1>1. /\ pc = "write" /\ cur' = cur /\ linear' = linear /\ interrupted' = interrupted
      /\ status' = [status EXCEPT ![cur] = Decision]
      /\ pc' \in {"scan", "set", "resolve"}
      /\ pc' = "scan" => Decision = "WaitingForDeps" \/ cur \in Unfiled
  BY DEF WriteManifest
<1>2. \A t \in Planned : t # cur => status'[t] = status[t] /\ ~ InBetween(t)
  BY <1>1, PromotionAssumption DEF Inv, TypeOK, InBetween
<1>3. status'[cur] = Decision
  BY <1>1, PromotionAssumption DEF Inv, TypeOK, ScanOK
<1>4. Decision # "WaitingForDeps" => InBetween(cur)' \/ cur \in Unfiled
  BY <1>1 DEF InBetween
<1> QED
  BY <1>1, <1>2, <1>3, <1>4, Decisions DEF ManifestAndLinearAgree

LEMMA CallsAgreement ==
  ASSUME MaxLost < Attempts, Inv, ManifestAndLinearAgree,
         Retry \/ ResolveState \/ SetState \/ PostComment
  PROVE  ManifestAndLinearAgree'
<1>1. /\ status' = status /\ cur' = cur /\ interrupted' = interrupted
      /\ pc \in {"resolve", "set"} => cur \in Planned
  BY DEF Retry, ResolveState, SetState, PostComment, Inv, ScanOK
<1>2. \A t \in Planned : linear'[t] = "WaitingForDeps" => linear[t] = "WaitingForDeps"
  <2>1. CASE MaybeApplied \/ UNCHANGED linear
    BY <2>1, AppliedType, PromotionAssumption DEF Decided
  <2>2. CASE SetState /\ linear' = [linear EXCEPT ![cur] = status[cur]]
    BY <2>2, PromotionAssumption DEF SetState, Inv, TypeOK, ScanOK, Decided
  <2> QED
    BY <2>1, <2>2 DEF Retry, ResolveState, SetState, PostComment
<1>3. ASSUME NEW t \in Planned, InBetween(t), linear'[t] = "WaitingForDeps"
      PROVE  InBetween(t)' \/ t \in Refusing
  <2>1. t = cur /\ pc \in {"resolve", "set"} /\ status[cur] \in Decided
    BY <1>3 DEF InBetween, Inv, ScanOK
  <2>2. CASE Retry
    BY <2>1, <2>2 DEF Retry, InBetween
  <2>3. CASE ResolveState
    BY <1>1, <2>1, <2>3, OnlyRefusedCallsAreGivenUp DEF ResolveState, InBetween
  <2>4. CASE SetState
    <3>1. linear' = [linear EXCEPT ![cur] = status[cur]] => linear'[t] # "WaitingForDeps"
      BY <2>1, PromotionAssumption DEF Inv, TypeOK, Decided
    <3> QED
      BY <1>1, <1>3, <2>1, <2>4, <3>1, OnlyRefusedCallsAreGivenUp DEF SetState
  <2> QED
    BY <2>1, <2>2, <2>3, <2>4 DEF PostComment
<1> QED
  BY <1>1, <1>2, <1>3, AgreementKept

\* What the rest of the system does to tickets never sends them back to waiting.
LEMMA OthersAgreement ==
  ASSUME Inv, ManifestAndLinearAgree, [Next]_vars,
         ~ WriteManifest, ~ (Retry \/ ResolveState \/ SetState \/ PostComment)
  PROVE  ManifestAndLinearAgree'
<1>1. CASE StartScan \/ NextManifest \/ EndScan \/ FetchBlocker \/ EndWork \/ ListReady
           \/ Announce \/ Restart \/ UNCHANGED vars
  <2>1. UNCHANGED <<status, linear, interrupted>> /\ (pc \in {"resolve", "set"} => UNCHANGED vars)
    BY <1>1
    DEF StartScan, NextManifest, EndScan, FetchBlocker, EndWork, ListReady, Announce, Restart
  <2> QED
    BY <2>1, AgreementKept DEF InBetween
<1>2. CASE \/ \E t \in Ticket : Launch(t) \/ Finish(t)
           \/ \E t \in Ticket, state \in {"MergedToEpic", "Cancelled", "ReadyForLocal"} :
                HumanMove(t, state)
  <2>1. /\ UNCHANGED <<status, interrupted, pc, cur>>
        /\ \A t \in Ticket : linear'[t] = "WaitingForDeps" => linear[t] = "WaitingForDeps"
    BY <1>2 DEF Launch, Finish, HumanMove, Inv, TypeOK
  <2> QED
    BY <2>1, AgreementKept, PromotionAssumption DEF InBetween
<1>3. CASE Crash
  <2>1. /\ linear' = linear
        /\ interrupted' = IF pc \in {"resolve", "set"} THEN interrupted \cup {cur} ELSE interrupted
        /\ status' = status \/ status' = [status EXCEPT ![cur] = "torn"]
    BY <1>3 DEF Crash
  <2>2. \A t \in Planned : status'[t] \in Decided => status'[t] = status[t]
    BY <2>1, PromotionAssumption DEF Inv, TypeOK, Decided
  <2> QED
    BY <2>1, <2>2, AgreementKept DEF InBetween
<1>4. \/ WriteManifest \/ Retry \/ ResolveState \/ SetState \/ PostComment
      \/ StartScan \/ NextManifest \/ EndScan \/ FetchBlocker \/ EndWork \/ ListReady
      \/ Announce \/ Restart \/ Crash \/ UNCHANGED vars
      \/ \E t \in Ticket : Launch(t) \/ Finish(t)
      \/ \E t \in Ticket, state \in {"MergedToEpic", "Cancelled", "ReadyForLocal"} :
           HumanMove(t, state)
  BY Zenon DEF Next, Daemon
<1> QED
  BY <1>1, <1>2, <1>3, <1>4

\* As long as fewer answers than _query has attempts are lost in a row, a decision
\* that is in the manifest reaches Linear, unless Linear refuses it or a crash falls
\* between the two writes.
THEOREM DecisionsReachLinear ==
  ASSUME MaxLost < Attempts PROVE Spec => []ManifestAndLinearAgree
<1>1. Init => ManifestAndLinearAgree
  BY PromotionAssumption DEF Init, ManifestAndLinearAgree
<1>2. Inv /\ ManifestAndLinearAgree /\ [Next]_vars => ManifestAndLinearAgree'
  BY DecisionAgreement, CallsAgreement, OthersAgreement
<1> QED
  BY <1>1, <1>2, Invariant, PTL DEF Spec
-----------------------------------------------------------------------------
(* Supervision.                                                             *)

\* The sentinels remove_stale_*_sentinel has still to look at.
NotYetSwept ==
    CASE step \in {"down", "softstop"} -> Gesture
      [] step = "forcestop" -> {"forcestop", "pause", "kill"}
      [] step = "pause" -> {"pause", "kill"}
      [] step = "kill" -> {"kill"}
      [] OTHER -> {}

DaemonPcOK ==
    step \in Gesture \cup {"poll", "overrun", "reap", "launch", "sleep", "waiting", "down"}

\* What this daemon may obey: what was asked of it, and what it could not remove.
Own == requested \cup stuck

\* What else is left of an earlier daemon is still to be swept.
SweptOK == sentinels \subseteq Gesture /\ sentinels \ Own \subseteq NotYetSwept

\* Nothing is obeyed before the sweep is over.
SweepOK ==
    step \in Gesture \cup {"down"} => ~ draining /\ ~ paused /\ ~ forcestopping

FlagsOK ==
    /\ draining => "softstop" \in Own
    /\ forcestopping => "forcestop" \in Own
    /\ paused => Own \cap {"pause", "forcestop"} # {}

SupInv == DaemonPcOK /\ SweptOK /\ SweepOK /\ FlagsOK

USE DEF Gesture, Own, daemon, files, processes, handles, counts, supervised

LEMMA InitSup == SupInit => SupInv
  BY DEF SupInit, SupInv, DaemonPcOK, SweptOK, SweepOK, FlagsOK

LEMMA StartSup == ASSUME SupInv, Start PROVE SupInv'
  BY DEF Start, SupInv, DaemonPcOK, SweptOK, SweepOK, FlagsOK, NotYetSwept

\* The sweep looks at each file once: what it leaves there is known to be stuck.
LEMMA RemoveStaleSup == ASSUME SupInv, RemoveStale PROVE SupInv'
<1>1. /\ step \in Gesture /\ step' = AfterStale
      /\ sentinels' \subseteq sentinels /\ stuck \subseteq stuck'
      /\ step \in sentinels' => step \in stuck'
  BY DEF RemoveStale, StaleRemoved
<1>2. UNCHANGED <<draining, paused, forcestopping, requested>>
  BY DEF RemoveStale
<1>3. CASE step = "softstop"
  BY <1>1, <1>2, <1>3
  DEF SupInv, DaemonPcOK, SweptOK, SweepOK, FlagsOK, NotYetSwept, AfterStale
<1>4. CASE step = "forcestop"
  BY <1>1, <1>2, <1>4
  DEF SupInv, DaemonPcOK, SweptOK, SweepOK, FlagsOK, NotYetSwept, AfterStale
<1>5. CASE step = "pause"
  BY <1>1, <1>2, <1>5
  DEF SupInv, DaemonPcOK, SweptOK, SweepOK, FlagsOK, NotYetSwept, AfterStale
<1>6. CASE step = "kill"
  BY <1>1, <1>2, <1>6
  DEF SupInv, DaemonPcOK, SweptOK, SweepOK, FlagsOK, NotYetSwept, AfterStale
<1> QED
  BY <1>1, <1>3, <1>4, <1>5, <1>6

\* After the sweep a sentinel that is seen was requested or is stuck.
LEMMA CheckGesturesSup == ASSUME SupInv, CheckGestures PROVE SupInv'
<1>1. step = "poll" /\ step' = "overrun"
      /\ UNCHANGED <<requested, stuck>> /\ sentinels' \subseteq sentinels
  BY DEF CheckGestures
<1>2. sentinels \subseteq Own
  BY <1>1 DEF SupInv, SweptOK, NotYetSwept
<1>3. /\ draining' => draining \/ "softstop" \in sentinels
      /\ forcestopping' => forcestopping \/ "forcestop" \in sentinels
      /\ paused' => sentinels \cap {"pause", "forcestop"} # {}
  BY DEF CheckGestures
<1>4. FlagsOK'
  BY <1>1, <1>2, <1>3 DEF SupInv, FlagsOK
<1>5. DaemonPcOK' /\ SweptOK' /\ SweepOK'
  BY <1>1, <1>2 DEF SupInv, DaemonPcOK, SweptOK, SweepOK, NotYetSwept
<1> QED
  BY <1>4, <1>5 DEF SupInv

\* The other steps of a poll only remove sentinels.
LEMMA PollSup ==
  ASSUME SupInv, UNCHANGED <<draining, paused, forcestopping, requested, stuck>>,
         sentinels' \subseteq sentinels,
         \/ step' = step
         \/ /\ step \in {"overrun", "reap", "launch", "sleep"}
            /\ step' \in {"poll", "reap", "launch", "sleep", "waiting"}
  PROVE  SupInv'
  BY DEF SupInv, DaemonPcOK, SweptOK, SweepOK, FlagsOK, NotYetSwept

LEMMA RequestSup == ASSUME SupInv, NEW g \in Gesture, Request(g) PROVE SupInv'
<1>1. sentinels' = sentinels \cup {g}
  BY DEF Request
<1>2. UNCHANGED <<step, draining, paused, forcestopping, stuck>>
  BY DEF Request
<1>3. requested' = IF step = "down" THEN requested ELSE requested \cup {g}
  BY DEF Request
<1> QED
  BY <1>1, <1>2, <1>3 DEF SupInv, DaemonPcOK, SweptOK, SweepOK, FlagsOK, NotYetSwept

\* A daemon that ends remembers nothing; what it leaves on disk is stale.
LEMMA ForgetsSup == ASSUME SupInv, Stop \/ DaemonDies PROVE SupInv'
<1>1. Forgets /\ UNCHANGED sentinels
  BY DEF Stop, DaemonDies
<1> QED
  BY <1>1 DEF Forgets, SupInv, DaemonPcOK, SweptOK, SweepOK, FlagsOK, NotYetSwept

LEMMA NextSup == SupInv /\ [SupNext]_supervised => SupInv'
<1> SUFFICES ASSUME SupInv, [SupNext]_supervised PROVE SupInv'
  OBVIOUS
<1>1. CASE TerminateOverrun \/ Reap \/ EndPoll \/ Emit
  BY <1>1, PollSup DEF TerminateOverrun, Reap, EndPoll, Emit
<1>2. CASE \E t \in Worker : LaunchWorker(t) \/ WaitForWorker(t)
  BY <1>2, PollSup DEF LaunchWorker, WaitForWorker
<1>3. CASE Resume \/ Signal
  BY <1>3, PollSup DEF Resume, Signal
<1>4. CASE \E t \in Worker : WorkerWrites(t) \/ Exits(t)
  BY <1>4, PollSup DEF WorkerWrites, Exits
<1>5. CASE Tick \/ UNCHANGED supervised
  BY <1>5, PollSup DEF Tick
<1> QED
  BY <1>1, <1>2, <1>3, <1>4, <1>5, StartSup, RemoveStaleSup, CheckGesturesSup,
     RequestSup, ForgetsSup DEF SupNext, RunLoop

\* A daemon drains, pauses, force-stops or kills only when an operator told this
\* daemon to: the files a predecessor left are swept before the first poll reads them,
\* except one that the operating system refuses to remove, and a request that arrives
\* during the sweep is lost rather than taken for an old one (run,
\* remove_stale_softstop_sentinel and its siblings).
THEOREM GesturesAreOwn == SupSpec => []OnlyOwnGestures
<1>1. ASSUME SupInv PROVE OnlyOwnGestures
  <2>1. step \notin Gesture \cup {"down"} => NotYetSwept = {}
    BY DEF NotYetSwept
  <2> QED
    BY <1>1, <2>1 DEF SupInv, SweptOK, FlagsOK, OnlyOwnGestures
<1> QED
  BY <1>1, InitSup, NextSup, PTL DEF SupSpec
=============================================================================
