SPECIFICATION Spec
CONSTANTS
  Sockets = {s1, s2}
  NoSocket = NoSocket
  RoomNames = {a}
  MaxPeers = 2
  MaxRoomObjects = 2
  RoomLimit = 1
  PeersPerRoom = 2
  GracePeriod = 1
  HelloPeriod = 1
  MaxTime = 2
  MaxCommands = 0
CHECK_DEADLOCK FALSE
INVARIANT CurrentRoomsAreRegistered
