SPECIFICATION Spec
CONSTANTS
  Threads = {t1}
  netd = netd
  Peers = {p}
  TCP_MAX_SOCKETS = 1
  TCP_MAX_BACKLOG = 1
  TCP_BUF_SIZE = 2
  TCP_MSS = 2
  SEQS = 16
  IRS = 3
  STREAM = 2
  SERVICE = SERVICE
  Ops = {"connect", "recv"}
  Resets = FALSE
  none = none
INVARIANT EofMeansDrained
