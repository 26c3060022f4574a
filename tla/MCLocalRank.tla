---------------------------- MODULE MCLocalRank ----------------------------
EXTENDS LocalRank

TwoJobs   == 1 .. 2
ThreeJobs == 1 .. 3
FourJobs  == 1 .. 4
FiveJobs  == 1 .. 5
=============================================================================
