\* One key: counts above the cap, looks, a bulky picture that no slot takes,
\* a failed write, and the preload against redraws, presses and Close.
SPECIFICATION FairSpec
CONSTANTS
  NumKeys = 1
  NumSlots = 2
  FrameKeys = {f0, f1, f2, f3}
  BlankFrame = f0
  Bulky = {f3}
  MaxCount = 2
  CountCap = 1
  Looks = {plain}
  Extras = {{}, {f1, f2}}
  None = None
  Mixed = Mixed
  MaxMutations = 1
  MaxPresses = 1
  MaxFailures = 1
INVARIANTS PadShowsObject PreloadIsComplete ShownIsDrawn
PROPERTIES StoresSpareShown PreloadCatchesUp PreloadStops
CHECK_DEADLOCK FALSE
