------------------------------ MODULE Dispatch ------------------------------
(***************************************************************************)
(* The admission gates of app/core/watcher/dispatch.py and the helpers of  *)
(* watcher_helpers.py they call, as state-less operators: what the daemon  *)
(* decides about one candidate ticket, given the Linear states and the     *)
(* tickets that hold a slot of each worker pool.                           *)
(***************************************************************************)
EXTENDS Outcomes

CONSTANTS
    Issue,       \* Issue[t]: the part of t's Linear issue that never changes
    AppendOnly,  \* path patterns that are package barrels (__init__.py)
    EpicBranch,  \* base branches called epic/...
    StaleBase,   \* base branches too many commits behind origin/main
    WorkerMode,  \* --worker-mode
    MaxLocal,    \* --max-local-workers
    MaxCloud,    \* --max-cloud-workers
    MaxDispatch, \* MAX_DISPATCHES_PER_CYCLE
    KvBudget     \* --kv-budget (2^31 when the option is absent)

Routing == {"local", "cloud_preferred", "cloud_only"}
PoolName == {"local", "cloud"}

TerminalState == {"MergedToEpic", "Done", "Cancelled"}

\* The state.type of a workflow state, as far as the daemon tells them apart.
CompletedState == {"MergedToEpic", "Done"}
DoneState == CompletedState \cup {"Cancelled"}

ASSUME ManifestAssumption ==
    /\ \A t \in Ticket :
        /\ Manifest[t].status \in {"ReadyForLocal", "WaitingForDeps", "Backlog"}
        /\ Manifest[t].routing \in Routing
        /\ Manifest[t].blockedBy \subseteq Ticket
        /\ Manifest[t].checks \in BOOLEAN
        /\ Manifest[t].linearId \in BOOLEAN
        /\ Manifest[t].kv \in Nat
    /\ DOMAIN Issue = Ticket
    /\ \A t \in Ticket :
        /\ Issue[t].state \in LinearState
        /\ Issue[t].blockers \subseteq Ticket

ASSUME PoolAssumption ==
    /\ WorkerMode \in {"default", "cloud", "local"}
    /\ MaxLocal \in Nat \ {0}
    /\ MaxCloud \in Nat \ {0}
    /\ MaxDispatch \in Nat \ {0}
    /\ KvBudget \in Nat
-----------------------------------------------------------------------------
(* Routing *)

EffectiveMode(mode, routing) ==
    CASE mode = "default" /\ routing = "local"    -> "local"
      [] mode = "default" /\ routing # "local"    -> "cloud"
      [] mode = "local" /\ routing = "cloud_only" -> "refused"
      [] mode = "local" /\ routing # "cloud_only" -> "local"
      [] mode = "cloud"                           -> "cloud"
-----------------------------------------------------------------------------
(* Allowed paths: an empty list means "no restriction" *)

Overlap(allowed, other) ==
    \/ allowed = {}
    \/ other = {}
    \/ ~ (allowed \cap other \subseteq AppendOnly)

PathConflict(t, u) == Overlap(Manifest[t].allowed, Manifest[u].allowed)

OverlapsLocalOnly(t, local, cloud) == \E u \in local : PathConflict(t, u)

OverlapsActive(t, local, cloud) ==
    \E u \in local \cup cloud : PathConflict(t, u)
-----------------------------------------------------------------------------
(* The other gates *)

BlockersDone(t, linear) ==
    /\ \A b \in Issue[t].blockers : linear[b] \in DoneState
    /\ \A b \in Manifest[t].blockedBy : linear[b] \in DoneState

OnOtherEpic(t, u) ==
    /\ Manifest[t].base \in EpicBranch
    /\ Manifest[u].base \in EpicBranch
    /\ Manifest[t].base # Manifest[u].base

EpicBranchBusyForMain(t, local) ==
    Manifest[t].base \notin EpicBranch /\ \E u \in local : OnOtherEpic(t, u)

EpicBranchBusy(t, local) == \E u \in local : OnOtherEpic(t, u)

ManifestRefused(t) ==
    \/ Manifest[t].routing = "local" /\ Manifest[t].allowed = {}
    \/ ~ Manifest[t].checks

EpicDrifted(t) == Manifest[t].base \in StaleBase

MustNotRun(state) == state = "InProgressLocal" \/ state \in TerminalState

\* The sum of the reservations: each ticket in flight brings kv units of its own.
KvInFlight(local) == Cardinality(UNION {{u} \X (1 .. Manifest[u].kv) : u \in local})

KvAdmittedBefore(t, local) ==
    Manifest[t].routing = "local" => KvInFlight(local) <= KvBudget

KvAdmitted(t, local) ==
    Manifest[t].routing = "local" => KvInFlight(local) + Manifest[t].kv <= KvBudget

PoolOverfull(mode, cloudCount) == mode = "cloud" /\ cloudCount > MaxCloud

PoolFull(mode, cloudCount) == mode = "cloud" /\ cloudCount >= MaxCloud

\* The verdict on t: "local" or "cloud" to launch it there, "backlog" when the
\* manifest is sent back to the planner, "defer" when t stays ReadyForLocal.
Preflight(t, local, cloud, cloudCount, linear, healthy) ==
    LET mode == EffectiveMode(WorkerMode, Manifest[t].routing) IN
    IF ~ BlockersDone(t, linear) \/ EpicBranchBusy(t, local) THEN "defer"
    ELSE IF ManifestRefused(t) \/ EpicDrifted(t) THEN "backlog"
    ELSE IF \/ MustNotRun(linear[t])
            \/ OverlapsActive(t, local, cloud)
            \/ ~ KvAdmitted(t, local)
            \/ mode = "refused"
            \/ PoolFull(mode, cloudCount)
            \/ mode = "local" /\ ~ healthy
    THEN "defer"
    ELSE mode
-----------------------------------------------------------------------------
(* The picker: which of the listed tickets the loop tries next *)

\* The labels of a listed ticket: the query of list_issues_by_state asks for none.
FetchedLabels(t) == {}

EligibleEvenActive(linear, active) == {t \in Ticket : linear[t] = "ReadyForLocal"}

Eligible(linear, active) ==
    {t \in Ticket : /\ linear[t] = "ReadyForLocal"
                    /\ t \notin active
                    /\ "spike" \notin FetchedLabels(t)}

\* The sort key is (parent_match, priority, id); list_issues_by_state fetches
\* no priority, so every candidate has priority 0.
ParentMatch(t, parents) == IF Issue[t].parent \in parents THEN 0 ELSE 1

SortsBefore(t, u, parents) ==
    \/ ParentMatch(t, parents) < ParentMatch(u, parents)
    \/ /\ ParentMatch(t, parents) = ParentMatch(u, parents)
       /\ Issue[t].id < Issue[u].id

TriedBefore(t, u, sorted, parents) ==
    IF sorted THEN SortsBefore(t, u, parents) ELSE Issue[t].created < Issue[u].created

NextCandidate(t, queue, sorted, parents) ==
    /\ t \in queue
    /\ \A u \in queue \ {t} : TriedBefore(t, u, sorted, parents)
=============================================================================
