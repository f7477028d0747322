SPECIFICATION FairSpec
CONSTANTS
  Clients = {c1, c2}
  NoClient = NoClient
  Retained = 2
  MaxFrames = 2
  MaxSeen = 2
  FrameLimit = 1
  MaxLog = 2
  MaxGeneration = 2
CHECK_DEADLOCK FALSE
PROPERTIES
  EventsArrive
  HandshakeEnds
