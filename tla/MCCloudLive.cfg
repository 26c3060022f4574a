CONSTANTS
  Job <- ThreeJobs
  Cloud <- TwoYounger
  NFiles = 1
  MaxConcurrent = 3
  MaxExecs = 2
  MaxCancels = 0
  MaxResumes = 1
  MaxRestarts = 0

SPECIFICATION FairSpec
CHECK_DEADLOCK FALSE

PROPERTIES
  TurnComes
