SPECIFICATION Spec
CONSTANTS
  Files = {f, g}
  TOTAL = 5
  MAX_EXTENTS = 2
  MAX_LEN = 3
  MAX_WRITES = 3
  MAX_CRASHES = 1
  MAX_ERRORS = 1
INVARIANTS
  OneOwner
  UseIsMarked
  OnlyTheWindowExposes
  IntactFilesReadBack
