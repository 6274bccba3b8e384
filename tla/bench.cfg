SPECIFICATION Spec
CONSTANTS
    None = None
    Config <- Matrices
    Vllm = {"vllm"}
    MaxRuns = 2
    MaxGaps = 1
INVARIANTS AsIfUninterrupted EachCaseOnce MeasuredAlone RankedWorkedAlone
CHECK_DEADLOCK FALSE
