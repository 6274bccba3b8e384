SPECIFICATION Spec
CONSTANTS
    None = None
    Args <- CommandLines
    File = {"f", "g"}
    Skill = {"s"}
    MaxRuns = 3
INVARIANTS SuccessIsWhole FailureIsRolledBack
PROPERTIES RemoteChangesAreDue
CHECK_DEADLOCK FALSE
