CONSTANTS
  t0 = t0
  t1 = t1
  t2 = t2
  Threads = {t0, t1, t2}
  Initial = t0
  NULL = NULL
  TableSize = 3
  Kinds = {"IO", "MSG"}
  ThreadOps = {"fork", "exit", "throw", "wait", "yield"}
  TimerOps = {}
  HandlerOps = {}
  MaxSignals = 0
  MaxObjects = 3
SPECIFICATION FairSpec
PROPERTY WalkEnds
PROPERTY UnblockedRuns
CHECK_DEADLOCK FALSE
