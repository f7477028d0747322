SPECIFICATION Spec
CONSTANTS
  Sockets = {s1, s2, s3}
  NoSocket = NoSocket
  RoomNames = {a}
  MaxPeers = 3
  MaxRoomObjects = 3
  RoomLimit = 1
  PeersPerRoom = 2
  GracePeriod = 1
  HelloPeriod = 1
  MaxTime = 2
  MaxCommands = 1
CHECK_DEADLOCK FALSE
SYMMETRY Symmetry
INVARIANTS
  TypeOK
  SingleOwner
  LeaseOrOwner
  BindingIsOwner
  SessionIsMember
  WithinLimits
  EmptyRoomIsAttended
  DetachedIsShown
PROPERTIES
  CommandsWhileJoined
  ExpiryIsFinal
