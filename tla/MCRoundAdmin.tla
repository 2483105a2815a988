---------------------------- MODULE MCRoundAdmin ----------------------------
(***************************************************************************)
(* An instance of RoundAdmin for TLC.                                      *)
(***************************************************************************)
EXTENDS RoundAdmin, TLC

CONSTANTS o1, o2, b1, b2, b3

MCOptions == {o1, o2}
MCBets == {b1, b2, b3}
MCSymmetry == Permutations(MCOptions) \cup Permutations(MCBets)
=============================================================================
