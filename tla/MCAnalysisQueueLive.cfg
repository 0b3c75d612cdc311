SPECIFICATION FairSpec
CONSTANTS
    Sessions = {s1}
    Workers = {w1, w2}
    NoWorker = NoWorker
    Clients = {c1}
    LastCompetency = 2
    MaxAttempts = 2
    LeaseTimeout = 2
    MaintenanceInterval = 1
    RetryUnit = 1
    RetryCap = 2
    PunctualHeartbeat = TRUE
    MaxJobs = 2
    MaxClaims = 3
    MaxFaults = 1
INVARIANTS
    ClaimsBounded
PROPERTIES
    JobSettles
    SessionSettles
