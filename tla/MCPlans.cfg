SPECIFICATION Spec
CONSTANTS
  Period = 5
  GridUnit = 12
  MinTail = 4
  Threshold = 1
  Partial = 3
  Gop = 4
  DefaultSegment = 8
  FixedSegment = 12
  GroupMaxHeight = 1080
  CodecCost <- Cost
  Bands = 5
  Levels = 250
  Clips <- TheClips
  Ladders <- TheLadders
  Options <- TheOptions
  Passes <- TwoPasses
  Rank = 0
  MaxRuns = 2
  MaxFaults = 1
INVARIANTS
  FramesOnce
  RowsFilled
  ManifestsAgree
