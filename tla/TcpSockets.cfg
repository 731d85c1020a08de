SPECIFICATION Spec
CONSTANTS
  Threads = {t1, t2}
  netd = netd
  Peers = {p}
  TCP_MAX_SOCKETS = 2
  TCP_MAX_BACKLOG = 1
  TCP_BUF_SIZE = 1
  TCP_MSS = 2
  SEQS = 16
  IRS = 3
  STREAM = 0
  SERVICE = SERVICE
  Ops = {"connect", "listen", "close"}
  Resets = FALSE
  none = none
INVARIANTS NoSharedSocket
SYMMETRY Symmetry
