CONSTANTS
  r1 = r1
  r2 = r2
  c1 = c1
  Band <- OneBand
  CodecOf <- OneCodec
  Grids <- TwoGrids
  Size = {1}
  LateSize = {2}
  Slots = 1
  MaxAttempts = 2
  MaxRuns = 2
  MaxFaults = 1

SPECIFICATION Spec
CHECK_DEADLOCK FALSE

INVARIANTS
  DeliversWhole
  LeavesNoOrphan
  PackagingFailsForCause
