\* Two keys and a group of one: draws, shows, stores and batches in any order,
\* with a group that desyncs and waits that give up.
SPECIFICATION FairSpec
CONSTANTS
  NumKeys = 2
  NumSlots = 2
  MaxGroup = 1
  MaxMessages = 3
  MaxDesyncs = 1
  None = None
INVARIANTS LatestIsComing FramesStayWhole
PROPERTIES PanelsCatchUp
CHECK_DEADLOCK FALSE
