---------------------------- MODULE MCStageRows ----------------------------
EXTENDS StageRows

TwoWorkers == 1 .. 2
=============================================================================
