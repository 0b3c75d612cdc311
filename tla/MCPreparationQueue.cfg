SPECIFICATION FairSpec
CONSTANTS
    Workers = {w1, w2}
    NoWorker = NoWorker
    LastCase = 2
    MaxAttempts = 2
    PunctualHeartbeat = FALSE
    MaxJobs = 1
    MaxSessions = 2
    MaxClaims = 3
    MaxFaults = 1
INVARIANTS
    TypeOK
PROPERTIES
    ImplementsFencedQueue
    JobSettles
