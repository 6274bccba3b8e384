------------------------------ MODULE MCWatcher ------------------------------
(* Small projects on which TLC runs the daemon of Watcher. *)
EXTENDS Watcher, TLC

CONSTANTS w1, w2, w3

Workers == {w1, w2, w3}
TwoWorkers == {w1, w2}
WorkerSymmetry == Permutations(Workers)

Routed(routing, allowed, base, epic, kv) ==
    [status |-> "ReadyForLocal", routing |-> routing, allowed |-> allowed,
     base |-> base, epic |-> epic, kv |-> kv, checks |-> TRUE, blockedBy |-> {},
     escalate |-> FALSE, retries |-> 0, onCheckFailure |-> "abort", linearId |-> TRUE]

Local(path, base) == Routed("local", {path}, base, "none", 1)
Cloud(path, base) == Routed("cloud_preferred", {path}, base, "none", 1)
WaitsFor(manifest, blockers) ==
    [manifest EXCEPT !.status = "WaitingForDeps", !.blockedBy = blockers]

Filed(n, parent) ==
    [state |-> "ReadyForLocal", blockers |-> {}, created |-> n, id |-> n,
     parent |-> parent]

Barrel == {"pkg/__init__.py"}
Epics == {"epic/x", "epic/y"}

(* Who may run together: A and B share only a barrel and sit on two epic       *)
(* branches, C waits for B and shares a.py with A.                             *)
CrowdedTickets == {"A", "B", "C"}
CrowdedManifest ==
    [A |-> [Routed("local", {"a.py", "pkg/__init__.py"}, "epic/x", "E1", 2)
              EXCEPT !.escalate = TRUE, !.retries = 2],
     B |-> Routed("local", {"pkg/__init__.py"}, "epic/y", "E1", 1),
     C |-> WaitsFor(Cloud("a.py", "main"), {"B"})]
CrowdedIssue ==
    [A |-> Filed(1, "u1"), B |-> Filed(3, "u1"),
     C |-> [Filed(2, "u2") EXCEPT !.state = "WaitingForDeps"]]

(* One local and one cloud ticket. *)
PairTickets == {"A", "B"}
PairManifest == [A |-> Local("a.py", "main"), B |-> Cloud("b.py", "epic/x")]
PairIssue == [A |-> Filed(1, "u1"), B |-> Filed(2, "u1")]

(* A chain: B is promoted once A is merged, D is blocked by C in Linear and    *)
(* wants the one cloud slot as B does; A and C together exceed the KV budget.  *)
(* E declares no paths and is refused.                                         *)
ChainTickets == {"A", "B", "C", "D", "E"}
ChainManifest ==
    [A |-> Local("a.py", "epic/x"),
     B |-> WaitsFor(Cloud("b.py", "epic/x"), {"A"}),
     C |-> Routed("local", {"c.py"}, "epic/x", "none", 2),
     D |-> Cloud("d.py", "main"),
     E |-> Routed("local", {}, "main", "none", 1)]
ChainIssue ==
    [A |-> Filed(2, "u1"),
     B |-> [Filed(3, "u1") EXCEPT !.state = "WaitingForDeps"],
     C |-> Filed(4, "u2"),
     D |-> [Filed(1, "u1") EXCEPT !.blockers = {"C"}],
     E |-> Filed(5, "u2")]
=============================================================================
