SPECIFICATION Spec
CONSTANTS
    Threads = {t1}
    NoThread = NoThread
    Requests = {r1}
    LastSituation = 1
INVARIANTS
    AbsenceCanBeContinued
CHECK_DEADLOCK FALSE
