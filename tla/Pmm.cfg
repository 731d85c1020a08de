CONSTANTS
  TOTAL = 6
  LOW_END = 1
  KSTART = 1
  KEND = 2
  FREE_STACK_SIZE = 6
  SMALL_RUN = 2
  BITS_PER_BYTE = 3
  MAX_REQUEST = 3
  heap = heap
  vmm = vmm
  Clients <- MCClients
SYMMETRY ClientSymmetry
SPECIFICATION Spec
INVARIANTS NoSharedFrame FreeFramesReachable
PROPERTY ImplementsFrameAllocator
