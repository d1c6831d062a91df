CONSTANTS
  t0 = t0
  t1 = t1
  t2 = t2
  Threads = {t0, t1, t2}
  Initial = t0
  NULL = NULL
  TableSize = 3
  Kinds = {"TIME"}
  ThreadOps = {"fork", "exit", "kill", "throw", "wait", "yield", "atomic", "halt"}
  TimerOps = {"fork", "throw"}
  HandlerOps = {"throw", "halt"}
  MaxSignals = 1
  MaxObjects = 3
SYMMETRY Symm
SPECIFICATION Spec
INVARIANT TypeOK
INVARIANT IteratorValid
INVARIANT BlockedConsistent
INVARIANT TableConsistent
INVARIANT NoSleepWhileRunnable
INVARIANT AtomicGoal
INVARIANT NothingFreedUsed
CHECK_DEADLOCK FALSE
