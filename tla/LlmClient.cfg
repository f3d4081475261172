SPECIFICATION Spec
CONSTANTS
    Calls = {c1, c2, c3}
    big = big
    small = small
    Models <- MCModels
    Chains <- MCChains
    Reasoning = {big}
    Slots = 2
    MaxRetries = 2
CHECK_DEADLOCK FALSE
INVARIANTS
    SlotsAccounted
    CapIsHeeded
PROPERTIES
    LimitedForCause
    CallsEnd
