\* Three channels for the two places of the layer.
SPECIFICATION FairSpec
CONSTANTS
  Channels = {a, b, c}
  TopKey = TopKey
  None = None
  MaxChildren = 2
  QueueSize = 2
  MaxWrites = 1
  MaxUses = 1
  MaxTroubles = 1
INVARIANTS VersionCoversRows PadShowsPlan
PROPERTIES OpenLayerKeepsKeys PadCatchesUp
CHECK_DEADLOCK FALSE
