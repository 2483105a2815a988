--------------------------- MODULE MCWalletLedger ---------------------------
(***************************************************************************)
(* An instance of WalletLedger for TLC.                                    *)
(***************************************************************************)
EXTENDS WalletLedger, TLC

CONSTANTS w1, w2, both, bonus, card

MCWorkers == {w1, w2}
MCBothAndBonus == {both, bonus}
MCStripe == {card}

\* A package of both kinds of coins, one of sweep coins only, and a Stripe
\* package, which has no gold.
MCPackage == [p \in Purchases |-> [c \in Currencies |->
  IF c = "sweep" THEN 1 ELSE IF p = both THEN 2 ELSE 0]]

MCMoves == {-1, 1}
MCAdminAmounts == {3}
MCSymmetry == Permutations(MCWorkers)
=============================================================================
