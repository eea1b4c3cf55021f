CONSTANTS
  UnitCount = 2
  DependsOn <- MCIndependent
  MaxRetries = 2
  ReasonActions <- MCRuntimeAnswers
  DebugModel = FALSE
  MaxSessions = 2

SPECIFICATION CountedSpec


PROPERTIES
  FrozenStaysFrozen

CHECK_DEADLOCK FALSE
