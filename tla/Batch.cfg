\* Two keys and every host of MCBatch.
SPECIFICATION BatchFairSpec
CONSTANTS
  NumKeys = 2
  Nudges = 1
  Deadline = 3
  Modes <- Hosts
  MaxSends = 2
  None = None
INVARIANTS BoardAgrees LateMeansLost
PROPERTIES BatchesEnd CompleteIsCurrent
CHECK_DEADLOCK FALSE
