CONSTANTS
  p1 = p1
  p2 = p2
  p3 = p3
  s1 = s1
  s2 = s2
  Process = {p1, p2, p3}
  Source = {s1, s2}
  SourceOf <- SourcesOf
  Audits = {p1, p2}
  Keep = 1
  Disk = {1, 2}
  MaxFaults = 1

SPECIFICATION Spec
CHECK_DEADLOCK FALSE

INVARIANTS
  OneWriter
  ReadsWhole

PROPERTY
  HangsAlone
