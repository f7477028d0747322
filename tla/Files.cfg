SPECIFICATION FairSpec
CONSTANTS
  MaxTransports = 2
  Downloads = {d1, d2}
  FileSize = 2
  MaxSubscribers = 1
  Grace = 1
  MaxPages = 2
CHECK_DEADLOCK FALSE
INVARIANTS
  TypeOK
  ReceivedInOrder
  NoLostWakeup
  SubscriberIsReachable
PROPERTIES
  RejectedIsLate
  DownloadEnds
