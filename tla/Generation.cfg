CONSTANTS
    Requests = {r1, r2, r3}
    Profiles <- MCProfiles
    Quick = 1
    BatchSize = 2
SPECIFICATION Spec
INVARIANTS
    OneSuite
    AnswersHold
    WorkIsKept
PROPERTY RequestsEnd
CHECK_DEADLOCK FALSE
