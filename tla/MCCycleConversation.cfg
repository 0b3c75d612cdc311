SPECIFICATION FairSpec
CONSTANTS
    Threads = {t1, t2}
    NoThread = NoThread
    Requests = {r1}
    LastSituation = 2
INVARIANTS
    TypeOK
    SessionFollowsCycle
    TimeFollowsCycle
    EffectiveTurnHasWait
PROPERTIES
    HandedDialogueIsFrozen
    ClosedStaysClosed
    EveryCycleCloses
CHECK_DEADLOCK FALSE
