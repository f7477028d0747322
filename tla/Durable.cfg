SPECIFICATION Spec
CONSTANTS
  Clients = {c1, c2}
  NoClient = NoClient
  Retained = 1
  MaxFrames = 2
  MaxSeen = 2
  FrameLimit = 9
  MaxLog = 3
  MaxGeneration = 2
CHECK_DEADLOCK FALSE
SYMMETRY Symmetry
INVARIANTS
  TypeOK
  ShownIsWindow
  NothingLost
  RosterAgrees
PROPERTY LogRefined
