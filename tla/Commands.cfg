SPECIFICATION FairSpec
CONSTANTS
  MaxCommands = 5
  MaxSessions = 2
  MaxLosses = 2
  MaxOutbox = 2
  MaxDedupe = 2
  MaxFiles = 1
  FileShares = {1, 3}
  Invalid = {4}
  Oversized = {5}
CHECK_DEADLOCK FALSE
INVARIANTS
  TypeOK
  PublishedOnce
  SentIsPublished
  RejectedIsUnpublished
  InOrder
  SameIdentity
PROPERTY Settles
