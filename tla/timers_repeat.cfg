CONSTANTS
    NULL = NULL
    Threads = {t1, t2}
    Deltas = {1, 2}
    OneTimeFlags = {TRUE, FALSE}
    DeleteCallers = {}
    TIMER_NUM = 20
    MaxTimers = 4
    MaxTime = 2
SYMMETRY Symm
SPECIFICATION Spec
INVARIANT StackRight
PROPERTY NeverEarly
CHECK_DEADLOCK FALSE
