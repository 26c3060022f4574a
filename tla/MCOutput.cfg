SPECIFICATION Spec
CONSTANTS
  MaxGen = 2
  MaxMedia = 2
  Mode <- AllModes
  MaxSubmits = 2
  MaxClicks = 2
  MaxSweeps = 1
  MaxFaults = 1
INVARIANTS CompleteIsWhole GoneIsTrue
CHECK_DEADLOCK FALSE
