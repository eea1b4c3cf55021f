CONSTANTS
  Jobs = {j1, j2}
  Workers = {w1, w2}
  Requests = {r1}
  Overlap = FALSE
  MaxEvents = 2
  MaxServers = 2

SPECIFICATION FairSpec

INVARIANTS
  OneRunPerJob
  StatusIsTrue
  ResultsAreOffered

PROPERTIES
  EventsAppended
  EveryRunSettles

CHECK_DEADLOCK FALSE
