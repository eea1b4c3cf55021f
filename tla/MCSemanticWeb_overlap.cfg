CONSTANTS
  Jobs = {j1}
  Workers = {w1, w2}
  Requests = {r1, r2}
  Overlap = TRUE
  MaxEvents = 2
  MaxServers = 2

SPECIFICATION Spec

INVARIANTS
  OneRunPerJob

CHECK_DEADLOCK FALSE
