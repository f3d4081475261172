SPECIFICATION Spec
CONSTANTS
    Jobs = {j1, j2}
    Callers = {c1, c2}
    MaxRetries = 2
    Verdicts <- MCVerdicts
    NoJob = NoJob
INVARIANTS
    ClosedWhenDone
    FailedWhenExhausted
    CancelWins
PROPERTIES
    CancelAnswered
    KeepsLifecycle
