SPECIFICATION FairSpec
CONSTANTS
  MaxTransports = 3
  ProbeInterval = 1
  Deadline = 4
INVARIANT TypeOK
PROPERTY KeepsWatch
