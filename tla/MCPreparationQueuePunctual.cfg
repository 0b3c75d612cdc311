SPECIFICATION Spec
CONSTANTS
    Workers = {w1, w2}
    NoWorker = NoWorker
    LastCase = 2
    MaxAttempts = 2
    PunctualHeartbeat = TRUE
    MaxJobs = 2
    MaxSessions = 3
    MaxClaims = 3
    MaxFaults = 1
SYMMETRY WorkerSymmetry
INVARIANTS
    OneOpenSession
    DeliveredSessionIsUsable
    FailedJobHasNoRunningStage
    ClaimsBounded
PROPERTIES
    FinishedSessionIsNotReopened
