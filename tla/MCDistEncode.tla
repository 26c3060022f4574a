---------------------------- MODULE MCDistEncode ----------------------------
(* One band of two rungs, cut into one chunk or into two.                  *)
EXTENDS DistEncode, TLC

CONSTANTS r1, r2, c1

Shared    == <<r1, r2>>
OneBand   == {Shared}
OneCodec  == Shared :> c1
TwoGrids  == {Shared :> 1, Shared :> 2}
=============================================================================
