CONSTANTS
  j1 = j1
  j2 = j2
  r1 = r1
  r2 = r2
  r3 = r3
  q1 = q1
  q2 = q2
  NoJob = NoJob
  Job <- TwoJobs
  Run <- TwoRuns
  Req <- OneReq
  NFiles = 2
  MaxConcurrent = 1
  ForceReencode = FALSE
  Impatient = FALSE
  TornWrites = FALSE
  MaxResumes = 1
  MaxRestarts = 1

SPECIFICATION Spec
CHECK_DEADLOCK FALSE

SYMMETRY Symmetry

INVARIANTS
  TypeOK
  SlotDiscipline
  OneRun
  ActivePersisted
  RestartFindsAll
  FinishedIsQuiet
  DoneDelivers

PROPERTIES
  ImplementsLifecycle
