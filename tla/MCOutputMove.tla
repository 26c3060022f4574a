---------------------------- MODULE MCOutputMove ----------------------------
EXTENDS OutputMove

CONSTANTS j1, j2, h264, hevc

TwoJobs == {j1, j2}
Codecs  == {h264, hevc}
TwoFiles == 1 .. 2
=============================================================================
