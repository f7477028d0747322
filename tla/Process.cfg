SPECIFICATION FairSpec
CONSTANTS
  Runners = {"statistics", "persistence"}
  Savers = {"persistence", "main"}
  Missing = Missing
  Invalid = Invalid
  Keys = {k1, k2}
  MaxTime = 3
  MaxEvents = 1
  PushInterval = 1
  MaxPeriod = 1
  MaxPoints = 2
  MaxLaunches = 2
  Configs = {{"state"}, {"tor"}, {"tor", "tls"}}
CHECK_DEADLOCK FALSE
INVARIANTS
  TypeOK
  SavedSurvives
  OnionIsBacked
  CleanExit
PROPERTIES
  FilesArePreserved
  ShutdownEnds
