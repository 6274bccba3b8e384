---------------------------- MODULE MCTelemetry -----------------------------
(* Twelve lines on which TLC runs Telemetry: every kind of event and of content the *)
(* parsers tell apart, a few in one line so that short logs reach the thresholds.   *)
EXTENDS Telemetry

Thinking(n) == [type |-> "thinking", chars |-> n]
Text(n) == [type |-> "text", chars |-> n]
Tool(name, arg) == [type |-> "tool_use", chars |-> 3, name |-> name, arg |-> arg]
ReadAs(path) == Tool("Read", [file |-> "f", path |-> path])
Bash(token, names) == Tool("Bash", [token |-> token, names |-> names])
Turn(i, o, content) ==
    [kind |-> "assistant", in |-> i, out |-> o, content |-> content, calls |-> <<>>,
     separator |-> FALSE]

Lines == {
    Turn(3, 0, <<Thinking(90), Text(5)>>),
    Turn(2, 1, <<ReadAs("f"), ReadAs("f"), Bash("ruff", {"ruff"})>>),
    Turn(None, None, <<ReadAs("f"), ReadAs("f-backslash"), Tool("Task", None),
                       Bash("cd", {"cd", "ruff"})>>),
    Turn(5, None, None),
    [Turn(0, 0, <<Bash("lint-imports", {"lint-imports"})>>) EXCEPT !.calls = <<ReadAs("g")>>],
    [Turn(2, 1, <<ReadAs("f"), ReadAs("f")>>) EXCEPT !.separator = TRUE],
    [kind |-> "system", subtype |-> "compact_boundary", ms |-> 7],
    [kind |-> "system", subtype |-> "api_retry"],
    [kind |-> "result", in |-> 9, out |-> 4],
    [kind |-> "result", in |-> None, out |-> None],
    [kind |-> "tool_use", block |-> Bash("ls", {"ls"})],
    [kind |-> "scalar"]}

Ways == {[slow |-> FALSE, noDiff |-> FALSE, result |-> "success", noPrs |-> FALSE, drift |-> FALSE],
         [slow |-> TRUE, noDiff |-> TRUE, result |-> "failed", noPrs |-> TRUE, drift |-> TRUE]}
=============================================================================
