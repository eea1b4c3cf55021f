CONSTANTS
  first = first
  second = second
  UnitCount = 2
  Files = {first, second}
  UnitsOf <- MCUnitsOf
  MaxAttempts = 2
  MaxSessions = 2
  MaxEdits = 1

SPECIFICATION FairSpec

INVARIANTS
  DecisionsHold
  AnswersAreKept
  WithinRecursionLimit
  IndexIsCurrent

PROPERTIES
  SessionEnds

CHECK_DEADLOCK FALSE
