SPECIFICATION Spec
CONSTANTS
    None = None
    Line <- Lines
    Way <- Ways
    MaxLines = 2
    MaxAttempts = 2
    HighWaste = 3
    Unstable = 1
INVARIANTS SinglePassAgrees ReadsLastAttempt
PROPERTIES BackfillReproduces
CHECK_DEADLOCK FALSE
