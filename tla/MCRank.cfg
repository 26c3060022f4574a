CONSTANTS
  Job <- FourJobs
  MaxRank = 2
  MaxResumes = 1
  MaxRestarts = 2

SPECIFICATION RankSpec
CHECK_DEADLOCK FALSE

INVARIANTS
  TypeOK
  OlderFirst
  RanksAscend
