---------------------------- MODULE MCRoundEvents ----------------------------
(***************************************************************************)
(* An instance of RoundEvents for TLC.                                     *)
(***************************************************************************)
EXTENDS RoundEvents, TLC

CONSTANTS u1, u2, o1, o2, h1, h2

MCUsers == {u1, u2}
MCOptions == {o1, o2}
MCHandlers == {h1, h2}

Symmetry ==
  Permutations(MCUsers) \cup Permutations(MCOptions) \cup Permutations(MCHandlers)
=============================================================================
