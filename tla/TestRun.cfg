SPECIFICATION Spec
CONSTANTS
    Requests = {r1, r2, r3}
    Blank = Blank
    None = None
    Faults = {"verdict", "crash"}
CHECK_DEADLOCK FALSE
INVARIANTS
    CacheIsTrusted
    StatusIsEarned
PROPERTY RequestsEnd
