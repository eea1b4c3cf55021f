CONSTANTS
  UnitCount = 2
  DependsOn <- MCCallerFirst
  MaxRetries = 1
  ReasonActions <- MCRuntimeAnswers
  DebugModel = FALSE
  MaxSessions = 1

SPECIFICATION CountedSpec

INVARIANTS
  DependenciesAreFrozen

CHECK_DEADLOCK FALSE
