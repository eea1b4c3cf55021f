CONSTANTS
  SymbolCount = 4
  Calls <- MCCrossCalls
  Plan <- MCCrossPlan
  Concurrency = 2
  MaxRetries = 2
  MaxSessions = 2

SPECIFICATION FairSpec

INVARIANTS
  PlanIsSound
  CallersWait
  RunningHasWorker

PROPERTIES
  FrozenChunksKept
  SessionEnds

CHECK_DEADLOCK FALSE
