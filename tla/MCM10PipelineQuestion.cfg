SPECIFICATION Spec
CONSTANTS
    s1 = s1
    s2 = s2
    Situations <- MCOne
    LastBoundary <- MCBoundary
    Keys = {k1}
    NoRequest = NoRequest
    EvidenceRequests <- MCEvidence
    Requests <- MCRequests
    Pollers = {w1}
    Tasks = {}
    MaxAttempts = 1
    MaxReplays = 0
    RaisingStages = {}
    MayRestart = FALSE
INVARIANTS
    WaitingQuestionIsPut
CHECK_DEADLOCK FALSE
