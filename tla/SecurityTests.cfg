SPECIFICATION Spec
CONSTANTS
    r1 = r1
    r2 = r2
    r3 = r3
    Requests = {r1, r2, r3}
    Kinds <- MCKinds
    MaxItems = 2
    MaxSecond = 2
    Responses <- MCResponses
    NoRequest = NoRequest
CHECK_DEADLOCK FALSE
INVARIANTS
    TypeOK
    StatusIsEarned
    OriginsApart
    SuitesAreOrdered
    ReportIsComplete
PROPERTY RequestsEnd
