SPECIFICATION FairSpec
CONSTANTS
    Workers = {w1, w2}
    Cases = {c1, c2}
    NoDecision = NoDecision
    Declined = Declined
    MaxOps = 2
    MaxClaims = 2
INVARIANTS
    TypeOK
    OneSituationPresented
    CompletedOperationIsUsable
    PausedSituationInPausedCycle
PROPERTIES
    ClosedSituationStays
    ImplementsFencedQueue
    OperationSettles
CHECK_DEADLOCK FALSE
