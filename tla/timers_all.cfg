CONSTANTS
    NULL = NULL
    Threads = {t1, t2}
    Deltas = {1, 2}
    OneTimeFlags = {TRUE, FALSE}
    DeleteCallers = {t1, t2}
    TIMER_NUM = 20
    MaxTimers = 3
    MaxTime = 3
SPECIFICATION Spec
PROPERTY ExitRemovesTimers
CHECK_DEADLOCK FALSE
