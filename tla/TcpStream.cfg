SPECIFICATION Spec
CONSTANTS
  Threads = {t1}
  netd = netd
  Peers = {p}
  TCP_MAX_SOCKETS = 1
  TCP_MAX_BACKLOG = 1
  TCP_BUF_SIZE = 2
  TCP_MSS = 2
  SEQS = 16
  IRS = 3
  STREAM = 3
  SERVICE = SERVICE
  Ops = {"connect", "close", "recv", "send"}
  Resets = TRUE
  none = none
INVARIANTS TypeOK StreamInOrder AckCoversBuffered
