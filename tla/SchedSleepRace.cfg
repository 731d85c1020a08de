CONSTANTS
  THREAD_MAX = 3
  Ops = {"sleep", "yield"}
  Sleeps = {1}
  StackAllocFails = FALSE
  InitialThreads = 2
  NIL = NIL
SPECIFICATION Spec
CHECK_DEADLOCK FALSE
INVARIANT ReadyIsOnRunQueue
