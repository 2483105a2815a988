----------------------------- MODULE BetFigures -----------------------------
(***************************************************************************)
(* What users and administrators are shown of the bets: what a bet would   *)
(* win, what was bet, who won how much, and the state of a stream's        *)
(* rounds (the queries of betting.service.ts and stream.service.ts).       *)
(*                                                                         *)
(* Some queries add up the totals kept on the options, others the rows of  *)
(* bets; handlers must keep the two in step for the figures to agree with  *)
(* each other and with what declareWinner pays.  A forecast of sweep coins *)
(* is shown unrounded; it is taken here to the unit of the payout.         *)
(***************************************************************************)
EXTENDS BetBook

\* Totals are added up over options.
ASSUME OptionsAssumption == IsFiniteSet(Options)

\* A sum of a table of totals or counts over some options.
Over(table, os, c) == SumOf([o \in Options |-> table[o][c]], os)

OptionsOf(rs) == {o \in Options : RoundOf[o] \in rs}

----------------------------------------------------------------------------
(***************************************************************************)
(* The forecast of a bet (potentialAmountCal).                             *)
(***************************************************************************)
\* Mutation of RoundTotal: "all bets on other options".
OthersTotal(o, c) == Over(total, OptionsOf({RoundOf[o]}) \ {o}, c)

RoundTotal(o, c) == Over(total, OptionsOf({RoundOf[o]}), c)

\* The stake itself where the user's option counts no bet of the currency.
Potential(b) ==
  LET o == bets[b].option
      c == bets[b].currency
  IN IF count[o][c] > 0
       THEN Share(c, bets[b].amount, total[o][c], RoundTotal(o, c))
       ELSE bets[b].amount * Unit(c)

\* findPotentialAmount: that of one of the user's active bets in the round.
Forecast(u, r) == {Potential(b) : b \in {e \in ActiveIn(r) : bets[e].user = u}}

----------------------------------------------------------------------------
(***************************************************************************)
(* What was bet.                                                           *)
(***************************************************************************)
RoundsIn(statuses) == {r \in Rounds : roundStatus[r] \in statuses}

\* getBetStatsByStream, from the rows.
StatsBets(c) ==
  {b \in BetIds : /\ Active(b) /\ bets[b].round \in RoundsIn({"open"})
                  /\ bets[b].currency = c}

\* getTotalBetValueForStream, from the rows.
ValuedBets(c) ==
  {b \in BetIds :
     /\ bets[b].status \notin {"none", "cancelled", "pending", "refunded"}
     /\ bets[b].currency = c}

----------------------------------------------------------------------------
(***************************************************************************)
(* The result of a round (getStreamRoundsWithWinners).                     *)
(***************************************************************************)
\* Mutation of WinningBets: of any bet on the winning option.
BetsOnWinner(r, c) ==
  {b \in BetIds : /\ bets[b] # NoBet
                  /\ RoundOf[bets[b].option] = r /\ bets[b].currency = c
                  /\ winning[bets[b].option]}

WinningBets(r, c) ==
  {b \in BetIds : /\ bets[b].status = "won"
                  /\ RoundOf[bets[b].option] = r /\ bets[b].currency = c
                  /\ winning[bets[b].option]}

\* What the options that did not win count.
WinnerAmount(r, c) == Over(total, {o \in OptionsOf({r}) : ~winning[o]}, c)

----------------------------------------------------------------------------
(***************************************************************************)
(* The state of a stream's rounds: the first of these that occurs          *)
(* (findStreamDetailsForAdmin), and the cases of allStreamsForAdmin.       *)
(***************************************************************************)
Precedence == <<"open", "locked", "created", "closed", "cancelled">>

DetailsStatus(statuses) ==
  IF \E i \in DOMAIN Precedence : Precedence[i] \in statuses
    THEN LET first == CHOOSE i \in DOMAIN Precedence :
               /\ Precedence[i] \in statuses
               /\ \A j \in 1 .. i - 1 : Precedence[j] \notin statuses
         IN Precedence[first]
    ELSE "no_bet_round"

ListStatus(statuses) ==
  CASE "open" \in statuses -> "open"
    [] "locked" \in statuses /\ "open" \notin statuses -> "locked"
    [] "created" \in statuses /\ statuses \cap {"open", "locked"} = {} -> "created"
    [] "closed" \in statuses
       /\ statuses \cap {"open", "locked", "created"} = {} -> "closed"
    [] statuses = {"cancelled"} -> "cancelled"
    [] OTHER -> "no_bet_round"

----------------------------------------------------------------------------
(***************************************************************************)
(* Properties.                                                             *)
(***************************************************************************)
\* The open rounds' pools are those of the rows an administrator is shown
\* (bettingUpdate carries both), and all pools together exceed the value
\* bet by the stakes that were refunded.
PoolsMatchRows(c) ==
  LET open == OptionsOf(RoundsIn({"open"}))
      refunded == {b \in BetIds : bets[b].status = "refunded" /\ bets[b].currency = c}
  IN /\ Over(total, open, c) = Stakes(StatsBets(c))
     /\ Over(count, open, c) = Cardinality(StatsBets(c))
     /\ Over(total, Options, c) = Stakes(ValuedBets(c)) + Stakes(refunded)

\* Who is shown to have won gold has the stakes back and the amount shown,
\* up to a coin per winner for the rounding.
WinnersGetAmount(r) ==
  LET won == WinningBets(r, Gold)
      paid == SumOf([b \in BetIds |-> bets[b].payout], won)
  IN won # {} =>
       Stakes(won) + WinnerAmount(r, Gold) - paid \in 0 .. Cardinality(won)

\* Figures that are computed twice, from the options and from the bets, or
\* by two queries, agree after every request.
FiguresAgree ==
  /\ \A c \in Currencies : PoolsMatchRows(c)
  /\ \A r \in Rounds : WinnersGetAmount(r)
  /\ LET statuses == {roundStatus[r] : r \in Rounds}
     IN ListStatus(statuses) = DetailsStatus(statuses)

Paid(b) == bets'[b].payout

\* A bet that wins is paid what was shown for it just before the result,
\* short of a unit where doubles fall on a boundary; one that bet gold on the
\* winner alone was shown the stake it gets back.  The totals, which placing,
\* editing and cancelling keep, must say what the bets say.
PotentialIsPaid ==
  [][\A b \in BetIds : Active(b) =>
       LET shown == Forecast(bets[b].user, bets[b].round) IN
         /\ bets'[b].status = "won" => {Paid(b), Paid(b) + 1} \cap shown # {}
         /\ (bets'[b].status = "refunded" /\ bets[b].currency = Gold
              /\ winning'[bets[b].option]) => bets[b].amount \in shown]_vars
=============================================================================
