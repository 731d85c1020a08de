CONSTANTS
  THREAD_MAX = 5
  Ops = {"yield", "exit", "create", "syscall"}
  Sleeps = {}
  StackAllocFails = FALSE
  InitialThreads = 0
  NIL = NIL
SPECIFICATION FairSpec
INVARIANTS QueueIsSound ThreadCountExact NoPanic
PROPERTIES ReadyEventuallyRuns ZombieEventuallyReaped
