CONSTANTS
  Files = 3
  ChunkSize = 1
  MaxWorkers = 2
  MaxJobs = 2
  MaxRuns = 1
  MaxFaults = 1
  MaxStops = 2
  MaxChanges = 1
  MaxResumes = 1
SPECIFICATION Spec

INVARIANTS
  RowsHold
  SettledIsOver

PROPERTIES
  EveryJobSettles

CHECK_DEADLOCK FALSE
