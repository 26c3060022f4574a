CONSTANTS
  j1 = j1
  j2 = j2
  h264 = h264
  hevc = hevc
  NoJob = NoJob
  Job <- TwoJobs
  Dir <- Codecs
  Piece <- TwoFiles
  OneMover = TRUE
  MaxResumes = 1
  MaxRestarts = 2

SPECIFICATION Spec
CHECK_DEADLOCK FALSE

PROPERTIES
  PreservesOutputs
  DoneIsWhole
