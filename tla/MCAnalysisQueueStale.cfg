SPECIFICATION Spec
CONSTANTS
    Sessions = {s1}
    Workers = {w1, w2}
    NoWorker = NoWorker
    Clients = {}
    LastCompetency = 1
    MaxAttempts = 2
    LeaseTimeout = 1
    MaintenanceInterval = 1
    RetryUnit = 1
    RetryCap = 2
    PunctualHeartbeat = FALSE
    MaxJobs = 1
    MaxClaims = 3
    MaxFaults = 0
PROPERTIES
    ReadyReportStays
