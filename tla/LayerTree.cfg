\* Three keys, so that a layer of three children has two pages; layers within
\* layers, a restart, a failed write or draw, and Close or a kill anywhere.
SPECIFICATION FairSpec
CONSTANTS
  KeyCount = 3
  UpKey = 1
  a = a
  b = b
  c = c
  dull = dull
  lit = lit
  Ids = {a, b, c}
  Faces = {dull, lit}
  Empty = dull
  MaxChildren = 3
  MaxDepth = 3
  MaxNodes = 5
  SavedDocs <- Saved
  Requests <- Asked
  None = None
  Mixed = Mixed
  MaxChanges = 2
  MaxFailures = 1
  MaxStarts = 2
INVARIANTS EveryChangeFits PadShowsTree NoticesAgree CleanMeansSaved
PROPERTIES LayerStaysOpen ChangesAreSaved
CHECK_DEADLOCK FALSE
