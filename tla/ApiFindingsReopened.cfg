SPECIFICATION Spec
CONSTANTS
    Findings = {f1}
    Scans = {s1, s2}
    MaxRetries = 0
    MaxPatches = 1
    NoScan = NoScan
SYMMETRY Symmetry
CHECK_DEADLOCK FALSE
PROPERTY RemediationRetained
