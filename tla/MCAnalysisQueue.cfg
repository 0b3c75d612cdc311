SPECIFICATION Spec
CONSTANTS
    Sessions = {s1}
    Workers = {w1, w2}
    NoWorker = NoWorker
    Clients = {c1}
    LastCompetency = 2
    MaxAttempts = 2
    LeaseTimeout = 1
    MaintenanceInterval = 1
    RetryUnit = 1
    RetryCap = 2
    PunctualHeartbeat = FALSE
    MaxJobs = 2
    MaxClaims = 3
    MaxFaults = 1
SYMMETRY WorkerSymmetry
INVARIANTS
    TypeOK
    FencedClaim
    OneActiveJobPerSession
    ReportIsWhole
    ReadyReportIsSettled
PROPERTIES
    ImplementsFencedQueue
