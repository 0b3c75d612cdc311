SPECIFICATION FairSpec
CONSTANTS
    e1 = e1
    a1 = a1
    Requests <- MCRequests
    EvidenceRequests <- MCEvidence
    NoRequest = NoRequest
    Pollers = {w1}
    Tasks = {w2}
    MaxAttempts = 3
INVARIANTS
    OnlyNewestRuns
    AcceptedIsLast
PROPERTIES
    ImplementsAttemptLedger
    RequestSettles
CHECK_DEADLOCK FALSE
