----------------------------- MODULE MCBetBook -----------------------------
(***************************************************************************)
(* Instances of BetBook, with the figures it shows, for TLC.               *)
(***************************************************************************)
EXTENDS BetFigures, TLC

CONSTANTS u1, u2, r1, r2, o1, o2, p1, b1, b2

\* A round of two options and a round of one.
TwoRounds == o1 :> r1 @@ o2 :> r1 @@ p1 :> r2

BothCoins == Gold :> 2 @@ Sweep :> 2000
Ample == Gold :> 100 @@ Sweep :> 100000

Symmetry2 == Permutations({u1, u2}) \cup Permutations({b1, b2})
=============================================================================
