CONSTANTS
  t0 = t0
  t1 = t1
  t2 = t2
  Threads = {t0, t1, t2}
  Initial = t0
  NULL = NULL
  TableSize = 3
  Kinds = {"IO"}
  ThreadOps = {"fork", "exit", "wait", "schedule"}
  TimerOps = {"schedule"}
  HandlerOps = {"wait", "schedule"}
  MaxSignals = 1
  MaxObjects = 1
SYMMETRY Symm
SPECIFICATION Spec
INVARIANT IteratorValid
CHECK_DEADLOCK FALSE
