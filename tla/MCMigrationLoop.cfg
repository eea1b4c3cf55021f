CONSTANTS
  UnitCount = 2
  DependsOn <- MCCallerFirst
  MaxRetries = 2
  ReasonActions <- ReasonAction
  DebugModel = FALSE
  MaxSessions = 2

SPECIFICATION FairCountedSpec

INVARIANTS
  TypeOK
  EvidenceHolds
  OneInFlight
  CheckpointTruthful
  EndsDecided
  WorkIsBounded

PROPERTIES
  ListedUnitsUntouched
  SessionEnds
  ImplementsLedger

CHECK_DEADLOCK FALSE
