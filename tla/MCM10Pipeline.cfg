SPECIFICATION FairSpec
CONSTANTS
    s1 = s1
    s2 = s2
    Situations <- MCTwo
    LastBoundary <- MCBoundaries
    Keys = {k1}
    NoRequest = NoRequest
    EvidenceRequests <- MCEvidence
    Requests <- MCRequests
    Pollers = {w1}
    Tasks = {}
    MaxAttempts = 1
    MaxReplays = 1
    RaisingStages = {"assessment"}
    MayRestart = TRUE
INVARIANTS
    TypeOK
    ReadyReportIsComplete
PROPERTIES
    ClosedSituationIsNotAsked
    ClosedCycleIsCalculated
    FailureIsNotHidden
CHECK_DEADLOCK FALSE
