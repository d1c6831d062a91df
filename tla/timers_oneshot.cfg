CONSTANTS
    NULL = NULL
    Threads = {t1, t2}
    Deltas = {1, 2}
    OneTimeFlags = {TRUE}
    DeleteCallers = {}
    TIMER_NUM = 7
    MaxTimers = 3
    MaxTime = 2
SPECIFICATION Spec
PROPERTIES RefinesService DueIsDelivered
CHECK_DEADLOCK FALSE
