SPECIFICATION FairSpec
CONSTANTS
  E1000_NUM_TX = 3
  E1000_NUM_RX = 3
  Frame = {f, g}
INVARIANTS
  ReceiveNeverStuck
  BusyMeansWedged
PROPERTIES
  ReceivesInOrder
  SendsInOrder
  QueuedIsSent
