CONSTANTS
  THREAD_MAX = 3
  Ops = {"yield", "sleep", "exit", "create", "syscall", "syscall_blocks", "alloc"}
  Sleeps = {0, 2}
  StackAllocFails = TRUE
  InitialThreads = 1
  NIL = NIL
SPECIFICATION Spec
CHECK_DEADLOCK FALSE
INVARIANTS NoSpinWithInterruptsOff RunningIsCurrent ContextHasStacks NoEarlyWake
