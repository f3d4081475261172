SPECIFICATION Spec
CONSTANTS
    Findings = {f1, f2}
    Scans = {s1, s2}
    MaxRetries = 1
    MaxPatches = 1
    NoScan = NoScan
SYMMETRY Symmetry
CHECK_DEADLOCK FALSE
INVARIANTS
    NoScanLost
    CountsAreEarned
PROPERTY
    HistoryKept
