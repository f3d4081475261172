SPECIFICATION Spec
CONSTANTS
    Jobs = {j1, j2}
    NoJob = NoJob
    Scans = {j2}
    MaxPolls = 1
CHECK_DEADLOCK FALSE
INVARIANTS
    ToldIsTrue
    WorkspaceIsFreed
PROPERTIES
    PollingEnds
