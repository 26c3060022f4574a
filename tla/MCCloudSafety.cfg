CONSTANTS
  Job <- TwoJobs
  Cloud <- TwoJobs
  NFiles = 2
  MaxConcurrent = 2
  MaxExecs = 2
  MaxCancels = 1
  MaxResumes = 2
  MaxRestarts = 2

SPECIFICATION Spec
CHECK_DEADLOCK FALSE

INVARIANTS
  NoDuplicate
  NoOrphan
  OwnFile
  InQueueOrder
  AsleepForCause
