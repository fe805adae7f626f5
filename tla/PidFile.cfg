\* Daemons that start alone or at once; files that earlier ones left.
SPECIFICATION PidSpec
CONSTANTS
  Daemons = {d1, d2}
  Plugins = {basic, ai}
  StalePids = {Ghost, d1}
  MaxTries = 2
  MaxStarts = 3
  MaxEnds = 2
  Ghost = Ghost
  NoPid = NoPid
INVARIANTS OneRuns SomeoneRuns
CHECK_DEADLOCK FALSE
