CONSTANTS
  Callers = {c1, c2}
  Slots = 1
  TransientRetries = 1
  ResponseRetries = 1
  LogLimit = 3

SPECIFICATION FairSpec

INVARIANTS
  CallsAreBounded
  StreamsEnd
  NoObservationLost

PROPERTIES
  EveryCallEnds

CHECK_DEADLOCK FALSE
