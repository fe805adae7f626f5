\* Two keys, from an empty directory or one of an older daemon, with the
\* daemon ending anywhere, a write that fails and a file that is spoiled.
SPECIFICATION Spec
CONSTANTS
  p1 = p1
  p2 = p2
  NumKeys = 2
  Looks = {plain}
  Pictures = {p1, p2}
  OldGlyphs <- OldOne
  BareSentinel = FALSE
  DefaultLook = plain
  None = None
  Cut = Cut
  MaxCalls = 3
  MaxStarts = 2
  MaxFailures = 1
  MaxDamage = 1
INVARIANTS NoForeignPicture
PROPERTIES Durable
CHECK_DEADLOCK FALSE
