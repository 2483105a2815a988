------------------------- MODULE MCBettingRequests -------------------------
(***************************************************************************)
(* Instances of BettingRequests for TLC.                                   *)
(***************************************************************************)
EXTENDS BettingRequests

CONSTANTS u1, u2, u3, r1, o1, o2, b1, b2, b3

OneRound == o1 :> r1 @@ o2 :> r1
GoldOnly == Gold :> 3 @@ Sweep :> 0
Ample == Gold :> 100 @@ Sweep :> 100000

\* Users bet at the same time; the administrator acts when nobody does.
UsersInParallel(r, s) ==
  /\ {r.kind, s.kind} \subseteq {"place", "edit", "cancel"}
  /\ r.user # s.user

\* Bets arrive late, while the round is locked and its winner declared, and
\* declared once more.
SettlingInParallel(r, s) ==
  {r.kind, s.kind} \in {{"place", "lock"}, {"place", "declare"}, {"declare"}}

Anything(r, s) == TRUE

Symmetry2 == Permutations({u1, u2}) \cup Permutations({b1, b2})
Symmetry3 == Permutations({u1, u2, u3}) \cup Permutations({b1, b2, b3})
=============================================================================
