SPECIFICATION MCSpec
CONSTANTS
  Names = {m, n, l}
  Long = {l}
  Plain = n
  Target = t
  N_SERVERS = 2
  DNS_RETRIES = 2
  Kinds = {"addr", "cname", "neg", "tc"}
  UDP_BUF_SIZE = 2
  IDS = 65536
  MAX_CALLS = 2
  MAX_RING = 1
CHECK_DEADLOCK FALSE
INVARIANTS
  CachedIsTheNames
  RepliesFromPeer
  FailsOnlyUnheard
PROPERTY
  EveryCallReturns
