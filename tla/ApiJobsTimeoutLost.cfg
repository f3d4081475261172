SPECIFICATION SafeSpec
CONSTANTS
    Jobs = {j1}
    Callers = {}
    MaxRetries = 0
    NoJob = NoJob
    Faults = {"timeout"}
CHECK_DEADLOCK FALSE
INVARIANT FailurePersisted
