----------------------------- MODULE Promotion -----------------------------
(***************************************************************************)
(* WaitingForDeps promotion and epic completion (Watcher._promote_waiting_  *)
(* tickets, watcher_epic.py), with the calls of app/core/linear_client.py   *)
(* attempt by attempt.  A decision is written to the manifest first and to  *)
(* Linear second; answers get lost, people move tickets, the daemon dies.   *)
(* Launching and finalizing, Watcher's subject, are one step each.          *)
(***************************************************************************)
EXTENDS Naturals, FiniteSets

CONSTANTS
    Ticket,        \* numbers: manifests are scanned in the order of their paths
    Blockers,      \* Blockers[t]: blocked_by_tickets of t's manifest
    Planned,       \* tickets that have a manifest
    Unfiled,       \* tickets whose manifest has no linear_id
    Member,        \* tickets whose manifest names the epic
    Refusing,      \* tickets for which Linear may refuse a call
    NoTicket,
    EpicShutdown,  \* what --no-epic-shutdown may say
    MaxLost,       \* bound: answers lost in a row
    MaxMoves,      \* bound: moves by people
    MaxCrashes     \* bound: crashes of the daemon

ASSUME PromotionAssumption ==
    /\ Ticket \subseteq Nat /\ NoTicket \notin Ticket
    /\ Blockers \in [Ticket -> SUBSET Ticket]
    /\ Planned \subseteq Ticket /\ Unfiled \subseteq Planned
    /\ Member \subseteq Ticket /\ Refusing \subseteq Ticket
    /\ EpicShutdown \subseteq BOOLEAN
    /\ MaxLost \in Nat /\ MaxMoves \in Nat /\ MaxCrashes \in Nat

VARIABLES
    pc, cur, todo,     \* the scan: its next step, its manifest, the manifests ahead
    seen,              \* blocker states read for the manifest at hand
    tries,             \* attempts of the call in flight that were lost
    cached,            \* _state_cache is filled
    status,            \* status[t] in the manifest file
    linear,            \* linear[t]: its workflow state
    running,           \* tickets in the pools
    processed,         \* processed[t]: how often t is in _processed_tickets
    failed,            \* tickets in there that did not succeed
    noEpicShutdown,    \* the daemon stays when an epic is complete
    announced,         \* last_announced for the epic
    closed,            \* tickets that were ever completed
    interrupted,       \* tickets at which a crash fell between the two writes
    touched,           \* tickets people moved since the ready tickets were listed
    moves, crashes

scan == <<pc, cur, todo, seen>>
client == <<tries, cached>>
pools == <<running, processed, failed>>
epic == <<noEpicShutdown, announced>>
ghosts == <<closed, interrupted, touched>>
bounds == <<moves, crashes>>
vars == <<scan, client, status, linear, pools, epic, ghosts, bounds>>

NoKey == <<>>

Init ==
    /\ pc = "start" /\ cur = NoTicket /\ todo = {}
    /\ seen = [t \in Ticket |-> "unread"]
    /\ tries = 0 /\ cached = FALSE
    /\ status = [t \in Ticket |-> IF t \in Planned THEN "WaitingForDeps" ELSE "none"]
    /\ linear = [t \in Ticket |-> IF t \in Planned THEN "WaitingForDeps" ELSE "started"]
    /\ running = {} /\ processed = [t \in Ticket |-> 0] /\ failed = {}
    /\ noEpicShutdown \in EpicShutdown /\ announced = NoKey
    /\ closed = {} /\ interrupted = {} /\ touched = {}
    /\ moves = 0 /\ crashes = 0

Least(S) == CHOOSE t \in S : \A u \in S : t <= u

\* get_issue_state_type
TypeOf(state) ==
    CASE state = "MergedToEpic" -> "completed"
      [] state = "Cancelled" -> "cancelled"
      [] OTHER -> "open"
-----------------------------------------------------------------------------
(* LinearClient._query: four attempts at one call *)

AttemptsButLast == 3
Attempts == 4

\* Before or after Linear did what it was asked, the answer is lost.
MaybeApplied ==
    \/ UNCHANGED linear
    \/ pc = "set" /\ linear' = [linear EXCEPT ![cur] = status[cur]]

Calling == pc \in {"fetch", "resolve", "set", "comment", "list", "announce"}

Retry ==
    /\ Calling
    /\ tries < MaxLost /\ tries + 1 < Attempts
    /\ tries' = tries + 1
    /\ MaybeApplied
    /\ UNCHANGED <<scan, cached, status, pools, epic, ghosts, bounds>>

\* LinearError after the last attempt, or at once: an HTTP status that is not
\* retried, an error in the answer, an answer cut off while it is read.
GivesUp ==
    \/ tries < MaxLost /\ tries + 1 >= Attempts
    \/ cur \in Refusing \cup {NoTicket}
-----------------------------------------------------------------------------
(* _promote_waiting_tickets *)

StartScan ==
    /\ pc = "start"
    /\ pc' = "scan" /\ todo' = Planned
    /\ UNCHANGED <<cur, seen, client, status, linear, pools, epic, ghosts, bounds>>

\* Manifests that do not load are skipped like those of other states.
NextManifest ==
    /\ pc = "scan" /\ todo # {}
    /\ LET t == Least(todo) IN
        /\ todo' = todo \ {t}
        /\ IF status[t] = "WaitingForDeps"
           THEN cur' = t /\ pc' = IF Blockers[t] = {} THEN "write" ELSE "fetch"
           ELSE UNCHANGED <<cur, pc>>
    /\ seen' = [t \in Ticket |-> "unread"]
    /\ UNCHANGED <<client, status, linear, pools, epic, ghosts, bounds>>

EndScan ==
    /\ pc = "scan" /\ todo = {}
    /\ pc' = "work" /\ cur' = NoTicket
    /\ UNCHANGED <<todo, seen, client, status, linear, pools, epic, ghosts, bounds>>

Unread == {b \in Blockers[cur] : seen[b] = "unread"}

\* One blocker; an error is stored as unknown.
FetchBlocker ==
    /\ pc = "fetch"
    /\ LET b == Least(Unread) IN
        \E answer \in {TypeOf(linear[b])} \cup (IF GivesUp THEN {"unknown"} ELSE {}) :
            seen' = [seen EXCEPT ![b] = answer]
    /\ tries' = 0
    /\ pc' = IF Cardinality(Unread) = 1 THEN "write" ELSE "fetch"
    /\ UNCHANGED <<cur, todo, cached, status, linear, pools, epic, ghosts, bounds>>

CancelledIgnored == FALSE
CancelledBlocker == \E b \in Blockers[cur] : seen[b] = "cancelled"

NoneKnownOpen == \A b \in Blockers[cur] : seen[b] # "open"
AllSatisfied == \A b \in Blockers[cur] : seen[b] = "completed"

Decision ==
    IF CancelledBlocker THEN "Backlog"
    ELSE IF AllSatisfied THEN "ReadyForLocal" ELSE "WaitingForDeps"

\* The manifest is rewritten with its new status.
WriteManifest ==
    /\ pc = "write"
    /\ status' = [status EXCEPT ![cur] = Decision]
    /\ pc' = IF Decision = "WaitingForDeps" \/ cur \in Unfiled THEN "scan"
             ELSE IF cached THEN "set" ELSE "resolve"
    /\ UNCHANGED <<cur, todo, seen, client, linear, pools, epic, ghosts, bounds>>

\* The first set_state of a client asks for the team's workflow states.
ResolveState ==
    /\ pc = "resolve"
    /\ tries' = 0
    /\ \/ cached' = TRUE /\ pc' = "set"
       \/ GivesUp /\ pc' = "comment" /\ UNCHANGED cached
    /\ UNCHANGED <<cur, todo, seen, status, linear, pools, epic, ghosts, bounds>>

\* safe_set_state; the comment follows in any case.
SetState ==
    /\ pc = "set"
    /\ tries' = 0
    /\ pc' = "comment"
    /\ \/ linear' = [linear EXCEPT ![cur] = status[cur]]
       \/ GivesUp /\ MaybeApplied
    /\ UNCHANGED <<cur, todo, seen, cached, status, pools, epic, ghosts, bounds>>

\* Whether it is posted, posted twice or fails, the scan goes on.
PostComment ==
    /\ pc = "comment"
    /\ tries' = 0
    /\ pc' = "scan"
    /\ UNCHANGED <<cur, todo, seen, cached, status, linear, pools, epic, ghosts, bounds>>
-----------------------------------------------------------------------------
(* What the rest of the poll does to a ticket *)

Launch(t) ==
    /\ pc = "work" /\ linear[t] = "ReadyForLocal" /\ t \notin running
    /\ running' = running \cup {t}
    /\ linear' = [linear EXCEPT ![t] = "InProgressLocal"]
    /\ UNCHANGED <<scan, client, status, processed, failed, epic, ghosts, bounds>>

Finish(t) ==
    /\ pc = "work" /\ t \in running
    /\ running' = running \ {t}
    /\ processed' = [processed EXCEPT ![t] = @ + 1]
    /\ \/ /\ linear' = [linear EXCEPT ![t] = "MergedToEpic"]
          /\ closed' = closed \cup {t}
          /\ UNCHANGED failed
       \/ /\ linear' = [linear EXCEPT ![t] = "Blocked"]
          /\ failed' = failed \cup {t}
          /\ UNCHANGED closed
    /\ UNCHANGED <<scan, client, status, epic, interrupted, touched, bounds>>

EndWork ==
    /\ pc = "work"
    /\ pc' = IF running # {} THEN "start" ELSE "list"
    /\ touched' = {}
    /\ UNCHANGED <<cur, todo, seen, client, status, linear, pools, epic, closed, interrupted, bounds>>
-----------------------------------------------------------------------------
(* check_epic_completion *)

ProcessedAny == \E t \in Ticket : processed[t] > 0
OfEpic == \E t \in Member : processed[t] > 0

\* epic_dedup_state_key: which tickets ran, how often, and whether one failed.
StateKey == <<processed, failed # {}>>

NoneListed(ready) == ready = {} \/ GivesUp

\* Linear's answer; after an error tickets may be left.
NoneReady(ready) == ready = {}

NoManifestWaits == \A t \in Planned : status[t] # "WaitingForDeps"

Repeated == OfEpic /\ announced = StateKey

AfterAnnouncement == IF noEpicShutdown THEN "start" ELSE "exited"

ListReady ==
    /\ pc = "list"
    /\ tries' = 0
    /\ LET ready == {t \in Ticket : linear[t] = "ReadyForLocal"} IN
        \/ /\ NoneReady(ready) /\ NoManifestWaits /\ ProcessedAny /\ ~ Repeated
           /\ announced' = IF OfEpic THEN StateKey ELSE announced
           /\ pc' = IF OfEpic /\ failed = {} THEN "announce" ELSE AfterAnnouncement
           /\ UNCHANGED noEpicShutdown
        \/ /\ GivesUp \/ ready # {} \/ ~ NoManifestWaits \/ ~ ProcessedAny \/ Repeated
           /\ pc' = "start"
           /\ UNCHANGED epic
    /\ UNCHANGED <<cur, todo, seen, cached, status, linear, pools, ghosts, bounds>>

Announce ==
    /\ pc = "announce"
    /\ tries' = 0
    /\ pc' = AfterAnnouncement
    /\ UNCHANGED <<cur, todo, seen, cached, status, linear, pools, epic, ghosts, bounds>>
-----------------------------------------------------------------------------
(* People, crashes, the next daemon *)

HumanMove(t, state) ==
    /\ moves < MaxMoves /\ linear[t] # state /\ t \notin running
    /\ moves' = moves + 1
    /\ linear' = [linear EXCEPT ![t] = state]
    /\ closed' = IF state = "MergedToEpic" THEN closed \cup {t} ELSE closed
    /\ touched' = touched \cup {t}
    /\ UNCHANGED <<scan, client, status, pools, epic, interrupted, crashes>>

\* write_text is not atomic: what a crash leaves of the file does not load.
Crash ==
    /\ pc \notin {"down", "exited"} /\ crashes < MaxCrashes
    /\ crashes' = crashes + 1
    /\ pc' = "down"
    /\ \/ pc = "write" /\ Decision # "WaitingForDeps" /\ status' = [status EXCEPT ![cur] = "torn"]
       \/ UNCHANGED status
    /\ interrupted' = IF pc \in {"resolve", "set"} THEN interrupted \cup {cur} ELSE interrupted
    /\ UNCHANGED <<cur, todo, seen, client, linear, pools, epic, closed, touched, moves>>

\* A crashed daemon is started again; one that exited is not.
Restart ==
    /\ pc = "down"
    /\ pc' = "start" /\ cur' = NoTicket /\ todo' = {}
    /\ tries' = 0 /\ cached' = FALSE
    /\ running' = {} /\ processed' = [t \in Ticket |-> 0] /\ failed' = {}
    /\ announced' = NoKey
    /\ UNCHANGED <<seen, status, linear, noEpicShutdown, ghosts, bounds>>
-----------------------------------------------------------------------------
Daemon ==
    \/ Retry \/ StartScan \/ NextManifest \/ EndScan \/ FetchBlocker \/ WriteManifest
    \/ ResolveState \/ SetState \/ PostComment
    \/ (\E t \in Ticket : Launch(t) \/ Finish(t))
    \/ EndWork \/ ListReady \/ Announce

Next ==
    \/ Daemon \/ Crash \/ Restart
    \/ \E t \in Ticket, state \in {"MergedToEpic", "Cancelled", "ReadyForLocal"} :
        HumanMove(t, state)

Spec == Init /\ [][Next]_vars

FairSpec == Spec /\ WF_vars(Daemon) /\ WF_vars(Restart)
-----------------------------------------------------------------------------
(* What promotion and completion promise *)

\* The manifest and Linear part ways over a promoted ticket only if the manifest
\* names no issue, Linear refused a call, or a crash fell between the two writes:
\* three lost answers in a row are not enough (_RETRY_DELAYS, _query).
InBetween(t) == cur = t /\ pc \in {"resolve", "set"}

ManifestAndLinearAgree ==
    \A t \in Planned :
        status[t] \in {"ReadyForLocal", "Backlog"} /\ linear[t] = "WaitingForDeps"
            => InBetween(t) \/ t \in Unfiled \cup Refusing \cup interrupted

\* A daemon that exits because the epic is complete leaves no ticket behind that
\* waits in a manifest or is ready in Linear, except one that people moved after
\* the ready tickets were listed (no_remaining_ready_or_waiting).
CompleteMeansComplete ==
    pc = "exited" =>
        \A t \in Ticket : /\ status[t] # "WaitingForDeps"
                         /\ linear[t] = "ReadyForLocal" => t \in touched
                         /\ t \notin running

\* A dependent is promoted only if each of its blockers was completed at some time:
\* no blocker that could not be read counts as done.
NeverPromotedEarly ==
    [][\A t \in Ticket :
        status[t] # "ReadyForLocal" /\ status'[t] = "ReadyForLocal"
            => Blockers[t] \subseteq closed]_vars

\* Once all blockers of a ticket are closed for good, it leaves WaitingForDeps: the
\* daemon does not exit before that, and no error wedges the scan.
WaitersAreDecided ==
    \A t \in Planned \ Refusing :
        <>[](\A b \in Blockers[t] : TypeOf(linear[b]) # "open")
            => <>(status[t] # "WaitingForDeps")
=============================================================================
