CONSTANTS
  Files <- MCFiles
  Order <- MCOrder
  CallChoices <- MCCalls
  EntryChoices <- MCEntries
  CycleLimit = 3
  Tokens <- MCTokens
  TokenBudget = 4
  HardLimit = 5
  MaxFunctions = 3
  ChunkLimits <- MCChunkLimits
SPECIFICATION Spec

INVARIANTS
  GraphIsExplained
  UnitsAreSound
  PlanIsWhole

CHECK_DEADLOCK FALSE
