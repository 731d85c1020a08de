SPECIFICATION FairSpec
CONSTANTS
  NVME_QDEPTH = 2
  Frames = {p, q}
  LBAS = 2
  MAX_COUNT = 2
  MAX_CMDS = 4
  MAX_TIMEOUTS = 1
CHECK_DEADLOCK FALSE
INVARIANTS
  PhaseTellsFresh
  SuccessIsItsOwn
  InStepUntilTimeout
  OverrunNeedsTimeouts
PROPERTY
  EveryPollAnswered
