---------------------------- MODULE MCJobManager ----------------------------
EXTENDS JobManager, TLC

CONSTANTS j1, j2, r1, r2, r3, q1, q2

OneJob    == {j1}
TwoJobs   == {j1, j2}
TwoRuns   == {r1, r2}
ThreeRuns == {r1, r2, r3}
OneReq    == {q1}
TwoReqs   == {q1, q2}

Symmetry == Permutations(Job) \cup Permutations(Run) \cup Permutations(Req)
=============================================================================
