CONSTANTS
  j1 = j1
  j2 = j2
  j3 = j3
  k1 = k1
  k2 = k2
  CloudJob <- ThreeJobs
  Key <- TwoKeys
  KeyOf <- SameKey
  Gate = {g1, g2, g3}
  NoGate = NoGate
  NoJob = NoJob
  MaxAttempts = 2
  ProbeErrors = FALSE

SPECIFICATION FairGateSpec
CHECK_DEADLOCK FALSE

INVARIANTS
  MutualExclusion
  BuiltOnce
  RefsAreJobs

PROPERTIES
  ImplementsKeyMutex
  EveryoneLeaves
