\* One key and one slot, whose frame may have been stored before: calls, two
\* plug-ins, a code reload and a Close at any moment, and what a board that
\* stays can count on.
CONSTANTS
  NumKeys = 1
  NumSlots = 1
  black = black
  red = red
  g = g
  Colors = {black, red}
  Glyphs = {g}
  Drawn <- PlainAndGlyph
  Sent <- PlainStates
  Before <- PlainOnly
  DefaultColor = black
  None = None
  MaxPip = 1
  MaxCalls = 2
  MaxSessions = 2
  MaxReloads = 1
  DownCap = 1
  UpCap = 1
  MayClose = TRUE
SPECIFICATION FairSpec
CHECK_DEADLOCK FALSE
INVARIANTS MemoryAgrees FramesHeld PadShowsMemory
PROPERTIES ShowIsBacked SilentAfterClose Restored CloseOfConnectedReturns
