----------------------------- MODULE MCBoxCache -----------------------------
EXTENDS BoxCache, TLC

CONSTANTS p1, p2, p3, s1, s2

SourcesOf == p1 :> s1 @@ p2 :> s1 @@ p3 :> s2
=============================================================================
