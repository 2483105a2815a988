--------------------------- MODULE MCViewerCounts ---------------------------
(***************************************************************************)
(* An instance of ViewerCounts for TLC: one user with two tabs.            *)
(***************************************************************************)
EXTENDS ViewerCounts, TLC

CONSTANTS s1, s2, u1, t1, t2

Tabs == s1 :> u1 @@ s2 :> u1
=============================================================================
