SPECIFICATION WorkspaceSpec
CONSTANTS
    r1 = r1
    r2 = r2
    r3 = r3
    Importers = {r1, r2, r3}
    NoDocument = NoDocument
    Names = {"a", "b", "c"}
    Keys = {"k", "l"}
    Schemes = {"bearer", "basic"}
    Assignments <- MCAssignments
    Opened <- MCOpened
    Replies <- MCReplies
    Collections <- MCCollections
    Workflows <- MCWorkflows
    Answers <- MCAnswers
CHECK_DEADLOCK FALSE
INVARIANTS
    WorkspaceTypeOK
    RevisionsFollowAnswers
    CasesReachOperations
    RejectionsAreJudged
    ValuesAreCarried
    ReferencesAreResolved
