SPECIFICATION Spec
CONSTANTS
    Jobs = {j1}
    Callers = {c1, c2}
    MaxRetries = 2
    NoJob = NoJob
    Faults = {"timeout", "db", "restart"}
INVARIANTS
    CancelStopsWork
    PassedRunIsClean
PROPERTIES
    NoRegression
    JobsEnd
    UsesQueue
    KeepsService
