CONSTANTS
  FileOf <- MCFileOf
  GraphChoices <- MCGraphs
  MarkedChoices <- MCMarked
  Depths = {2, 3}
  Limits = {1, 2, 3}
SPECIFICATION ViewSpec

INVARIANTS
  ViewsAreTrue
  TreeIsComplete

CHECK_DEADLOCK FALSE
