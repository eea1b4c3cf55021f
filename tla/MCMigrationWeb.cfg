CONSTANTS
  j1 = j1
  j2 = j2
  Jobs <- MCJobs
  MaxServers = 3
  Unwritable <- MCUnwritable

SPECIFICATION FairSpec

INVARIANTS
  OneRunPerJob
  RecordsHold
  StatusIsTrue

PROPERTIES
  EveryRunSettles

CHECK_DEADLOCK FALSE
