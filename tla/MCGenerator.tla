---------------------------- MODULE MCGenerator -----------------------------
(* Command lines with and without each phase, two of them with other files.  *)
EXTENDS Generator

Base == [files |-> <<"f">>, skills |-> FALSE, gitInit |-> TRUE, hooks |-> TRUE, create |-> TRUE,
         ci |-> FALSE, push |-> TRUE, url |-> None, rollback |-> TRUE]
More == [Base EXCEPT !.files = <<"f", "g">>, !.skills = TRUE, !.ci = TRUE]

CommandLines == {
    Base, More, [More EXCEPT !.rollback = FALSE],
    [Base EXCEPT !.create = FALSE, !.url = "given", !.files = <<"g">>],
    [Base EXCEPT !.create = FALSE, !.gitInit = FALSE],
    [More EXCEPT !.create = FALSE, !.push = FALSE]}
=============================================================================
