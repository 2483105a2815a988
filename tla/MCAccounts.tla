----------------------------- MODULE MCAccounts -----------------------------
(***************************************************************************)
(* Instances of Accounts for TLC.                                          *)
(***************************************************************************)
EXTENDS Accounts, TLC

CONSTANTS r1, r2, r3, u1, u2

MCRequests == {r1, r2}
MCUsers == {u1, u2}
MCSymmetry == Permutations(MCRequests) \cup Permutations(MCUsers)
=============================================================================
