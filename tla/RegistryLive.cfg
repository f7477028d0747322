SPECIFICATION FairSpec
CONSTANTS
  Sockets = {s1, s2}
  NoSocket = NoSocket
  RoomNames = {a, b}
  MaxPeers = 2
  MaxRoomObjects = 2
  RoomLimit = 1
  PeersPerRoom = 1
  GracePeriod = 1
  HelloPeriod = 1
  MaxTime = 2
  MaxCommands = 0
CHECK_DEADLOCK FALSE
PROPERTIES
  GraceEnds
  SilenceEnds
