---------------------------- MODULE MCMezzGate ----------------------------
EXTENDS MezzGate

CONSTANTS j1, j2, j3, k1, k2

ThreeJobs == {j1, j2, j3}
TwoKeys   == {k1, k2}
SameKey   == [j \in ThreeJobs |-> k1]
=============================================================================
