--------------------------- MODULE MCCloudLaunch ---------------------------
(* Job IDs are 1, 2 and 3; a job outside Cloud is a local one.             *)
EXTENDS CloudLaunch

ThreeJobs  == 1 .. 3
TwoJobs    == 1 .. 2
TwoYounger == 2 .. 3
=============================================================================
