CONSTANTS
  j1 = j1
  j2 = j2
  r1 = r1
  r2 = r2
  r3 = r3
  q1 = q1
  q2 = q2
  NoJob = NoJob
  Job <- OneJob
  Run <- ThreeRuns
  Req <- TwoReqs
  NFiles = 1
  MaxConcurrent = 1
  ForceReencode = FALSE
  Impatient = TRUE
  TornWrites = FALSE
  MaxResumes = 2
  MaxRestarts = 1

SPECIFICATION FairSpec
CHECK_DEADLOCK FALSE

PROPERTIES
  Accepted
