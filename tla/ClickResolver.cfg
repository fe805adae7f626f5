\* Timers whose goroutines run before the next event, or at any time.
SPECIFICATION ClickSpec
CONSTANTS
  MaxClicks = 5
  MaxPresses = 6
  NoClick = NoClick
INVARIANTS ClicksCountOnce
PROPERTIES ClicksAreAnswered
CHECK_DEADLOCK FALSE
