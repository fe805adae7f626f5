\* A timer fires, and a press gets the lock before its goroutine.
SPECIFICATION ClickSpec
CONSTANTS
  MaxClicks = 3
  MaxPresses = 3
  NoClick = NoClick
PROPERTIES PairDecides
CHECK_DEADLOCK FALSE
