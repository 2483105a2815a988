------------------------------ MODULE BetBook ------------------------------
(***************************************************************************)
(* The betting service of one stream as its handlers describe it when each *)
(* request runs alone: one action per handler of betting.service.ts, from  *)
(* its first read to its commit.  A request that is refused changes        *)
(* nothing, so a refusal is an action that is not enabled.                 *)
(*                                                                         *)
(* BettingRequests takes the same handlers apart into reads and commits    *)
(* that interleave.                                                        *)
(***************************************************************************)
EXTENDS BettingData

CONSTANT OpeningBalance  \* a wallet at the start, in units, per currency

ASSUME OpeningAssumption ==
  /\ OpeningBalance \in [Currencies -> Nat]
  /\ \A c \in Currencies : OpeningBalance[c] <= LedgerMax[c]

VARIABLES
  roundStatus,  \* BettingRound.status
  optionStatus, \* BettingVariable.status
  winning,      \* BettingVariable.is_winning_option
  total,        \* BettingVariable.totalBetsGoldCoinAmount / ...SweepCoinAmount
  count,        \* BettingVariable.betCountGoldCoin / betCountSweepCoin
  bets,         \* rows of bets
  wallet,       \* Wallet.goldCoins / sweepCoins, in units
  streamEnded   \* Stream.status = 'ended'

vars == <<roundStatus, optionStatus, winning, total, count, bets, wallet,
          streamEnded>>
pools == <<total, count>>
options == <<optionStatus, winning>>

TypeOK ==
  /\ roundStatus \in [Rounds -> RoundStatus]
  /\ optionStatus \in [Options -> OptionStatus]
  /\ winning \in [Options -> BOOLEAN]
  /\ total \in PoolTable /\ count \in PoolTable
  /\ bets \in [BetIds -> Bet \cup {NoBet}]
  /\ wallet \in WalletTable
  /\ streamEnded \in BOOLEAN

Active(b) == bets[b].status = "active"

\* Mutation of ActiveRows: the status of the rows is not asked for.
RowsOf(rows, r) == {b \in BetIds : rows[b] # NoBet /\ rows[b].round = r}

\* Handlers work on the rows they read, which need not be those of bets.
ActiveRows(rows, r) ==
  {b \in BetIds : rows[b].status = "active" /\ rows[b].round = r}

ActiveIn(r) == ActiveRows(bets, r)

\* Every wallet movement writes a transactions row, whose balanceAfter must
\* fit its column, and refuses a negative balance (updateBalance).
Payable(w) ==
  \A u \in Users, c \in Currencies :
    w[u][c] # wallet[u][c] => w[u][c] \in 0 .. LedgerMax[c]

Init ==
  /\ roundStatus = [r \in Rounds |-> "created"]
  /\ optionStatus = [o \in Options |-> "active"]
  /\ winning = [o \in Options |-> FALSE]
  /\ total = [o \in Options |-> [c \in Currencies |-> 0]]
  /\ count = [o \in Options |-> [c \in Currencies |-> 0]]
  /\ bets = [b \in BetIds |-> NoBet]
  /\ wallet = [u \in Users |-> OpeningBalance]
  /\ streamEnded = FALSE

----------------------------------------------------------------------------
(***************************************************************************)
(* The administrator's handling of a round before its result.              *)
(***************************************************************************)
OpenRound(r) ==
  /\ roundStatus[r] = "created"
  /\ roundStatus' = [roundStatus EXCEPT ![r] = "open"]
  /\ UNCHANGED <<options, pools, bets, wallet, streamEnded>>

\* A round is locked only when at least two of its bets are active.
LockRound(r) ==
  /\ roundStatus[r] = "open"
  /\ Cardinality(ActiveIn(r)) > 1
  /\ roundStatus' = [roundStatus EXCEPT ![r] = "locked"]
  /\ UNCHANGED <<options, pools, bets, wallet, streamEnded>>

\* PATCH betting-variables/:id/lock writes the option's status in any state.
LockOption(o) ==
  /\ optionStatus' = [optionStatus EXCEPT ![o] = "locked"]
  /\ UNCHANGED <<roundStatus, winning, pools, bets, wallet, streamEnded>>

----------------------------------------------------------------------------
(***************************************************************************)
(* The user's handling of a bet.  Placing, Editing, Cancelling, and below  *)
(* Settling, are what the transactions of the handlers write, given the    *)
(* wallets w, totals t and counts n as they read them; old is the row of   *)
(* the bet as the handler read it, saved back with all its columns.        *)
(***************************************************************************)
BettingOn(o) == roundStatus[RoundOf[o]] = "open" /\ ~streamEnded

Placing(w, t, n, u, o, c, a, b) ==
  /\ bets[b] = NoBet
  /\ wallet' = Credited(w, u, c, -a)
  /\ Payable(wallet')
  /\ bets' = [bets EXCEPT ![b] = NewBet(u, o, c, a)]
  /\ total' = Staked(t, o, c, a)
  /\ count' = Staked(n, o, c, 1)
  /\ UNCHANGED <<roundStatus, options, streamEnded>>

PlaceBet(u, o, c, a, b) ==
  /\ BettingOn(o)
  /\ \A e \in ActiveIn(RoundOf[o]) : bets[e].user # u
  /\ Placing(wallet, total, count, u, o, c, a, b)

Editing(w, t, n, old, b, o, c, a) ==
  /\ wallet' = Exchanged(w, old.user, old.currency, old.amount, c, a)
  /\ Payable(wallet')
  /\ bets' = [bets EXCEPT ![b] = [old EXCEPT !.option = o, !.round = RoundOf[o],
                                            !.currency = c, !.amount = a]]
  /\ total' = Restaked(t, old.option, old.currency, old.amount, o, c, a)
  /\ count' = Recounted(n, old.option, old.currency, o, c)
  /\ UNCHANGED <<roundStatus, options, streamEnded>>

\* Mutation of EditBet: the round of the old option is checked.
EditBetInOldRound(b, o, c, a) ==
  /\ Active(b)
  /\ BettingOn(bets[b].option)
  /\ Editing(wallet, total, count, bets[b], b, o, c, a)

\* Mutation of EditBet: the bet may have a result.
EditBetInAnyState(b, o, c, a) ==
  /\ bets[b] # NoBet
  /\ BettingOn(o)
  /\ Editing(wallet, total, count, bets[b], b, o, c, a)

\* Only the new option's round is required to be open.
EditBet(b, o, c, a) ==
  /\ Active(b)
  /\ BettingOn(o)
  /\ Editing(wallet, total, count, bets[b], b, o, c, a)

Cancelling(w, t, n, old, b) ==
  /\ wallet' = Credited(w, old.user, old.currency, old.amount)
  /\ Payable(wallet')
  /\ bets' = [bets EXCEPT ![b] = [old EXCEPT !.status = "cancelled"]]
  /\ total' = Unstaked(t, old.option, old.currency, old.amount)
  /\ count' = Unstaked(n, old.option, old.currency, 1)
  /\ UNCHANGED <<roundStatus, options, streamEnded>>

\* Mutation of CancelBet: the bet may be cancelled already.
CancelBetAgain(b) ==
  /\ bets[b] # NoBet
  /\ roundStatus[bets[b].round] = "open"
  /\ Cancelling(wallet, total, count, bets[b], b)

CancelBet(b) ==
  /\ Active(b)
  /\ roundStatus[bets[b].round] = "open"
  /\ Cancelling(wallet, total, count, bets[b], b)

----------------------------------------------------------------------------
(***************************************************************************)
(* The result of a round.  In each currency the stakes on the winning      *)
(* option o share the stakes of the round; when one of the two sides is    *)
(* empty the stakes of that currency are refunded.  rows and table are the *)
(* bets and the totals as the transaction reads them.                      *)
(***************************************************************************)
Side(rows, o, c, side) ==
  {b \in ActiveRows(rows, RoundOf[o]) :
     rows[b].currency = c /\ rows[b].option \in side}

Contested(rows, o, c) ==
  Side(rows, o, c, {o}) # {} /\ Side(rows, o, c, Options \ {o}) # {}

StakesOf(rows, S) == SumOf([b \in BetIds |-> rows[b].amount], S)

Pot(rows, o, c) == StakesOf(rows, Side(rows, o, c, Options))

\* Dividing by a total of zero gives a payout that no column can hold.
Divisible(rows, table, o) ==
  \A c \in Currencies : Contested(rows, o, c) => table[o][c] > 0

\* The winning bets whose payout may fall one unit short of Share.
Roundable(rows, table, o) ==
  {b \in ActiveRows(rows, RoundOf[o]) :
     LET c == rows[b].currency IN
       /\ rows[b].option = o /\ Contested(rows, o, c)
       /\ OnBoundary(c, rows[b].amount, table[o][c], Pot(rows, o, c))}

Payout(rows, table, b, o, short) ==
  LET c == rows[b].currency IN
    Share(c, rows[b].amount, table[o][c], Pot(rows, o, c))
      - (IF b \in short THEN 1 ELSE 0)

SettledBet(rows, table, b, o, short) ==
  IF ~ Contested(rows, o, rows[b].currency)
    THEN [rows[b] EXCEPT !.status = "refunded", !.payout = 0]
  ELSE IF rows[b].option = o
    THEN [rows[b] EXCEPT !.status = "won",
                         !.payout = Payout(rows, table, b, o, short)]
  ELSE [rows[b] EXCEPT !.status = "lost", !.payout = 0]

\* What settling bet b pays to its owner, in units.
Credit(rows, table, b, o, short) ==
  IF ~ Contested(rows, o, rows[b].currency)
    THEN rows[b].amount * Unit(rows[b].currency)
  ELSE IF rows[b].option = o THEN Payout(rows, table, b, o, short)
  ELSE 0

CreditsOf(rows, table, u, c, o, short) ==
  SumOf([b \in BetIds |-> Credit(rows, table, b, o, short)],
      {b \in ActiveRows(rows, RoundOf[o]) :
         rows[b].user = u /\ rows[b].currency = c})

WalletsSettled(w, rows, table, o, short) ==
  [u \in Users |-> [c \in Currencies |->
     w[u][c] + CreditsOf(rows, table, u, c, o, short)]]

\* rest are the rows of the bets that are not settled.
Settling(w, o, rows, table, rest) ==
  LET r == RoundOf[o] IN
  /\ Divisible(rows, table, o)
  /\ \E short \in SUBSET Roundable(rows, table, o) :
       /\ bets' = [b \in BetIds |->
                     IF b \in ActiveRows(rows, r)
                       THEN SettledBet(rows, table, b, o, short) ELSE rest[b]]
       /\ wallet' = WalletsSettled(w, rows, table, o, short)
  /\ Payable(wallet')
  /\ winning' = [winning EXCEPT ![o] = TRUE]
  /\ optionStatus' = [p \in Options |->
                        IF p = o THEN "winner"
                        ELSE IF RoundOf[p] = r THEN "loser"
                        ELSE optionStatus[p]]
  /\ roundStatus' = [roundStatus EXCEPT ![r] = "closed"]
  /\ total' = table
  /\ UNCHANGED streamEnded

\* Mutation of DeclareWinner: the round may be closed already.
DeclareWinnerAgain(o) ==
  /\ roundStatus[RoundOf[o]] \in {"locked", "closed"}
  /\ Settling(wallet, o, bets, total, bets)
  /\ UNCHANGED count

DeclareWinner(o) ==
  /\ roundStatus[RoundOf[o]] = "locked"
  /\ Settling(wallet, o, bets, total, bets)
  /\ UNCHANGED count

Stakes(S) == StakesOf(bets, S)

\* The bets that the loaded options of a round carry.
CarriedBy(o, c) ==
  {b \in BetIds : Active(b) /\ bets[b].option = o /\ bets[b].currency = c}

\* Cancelling takes any round, a settled one too; its active bets are refunded.
\* This is the cancellation whose refunds all succeed: each is a transaction of
\* its own, and what a failure between two of them leaves is not modelled here.
CancelRound(r) ==
  LET mine == {o \in Options : RoundOf[o] = r}
      gone == {b \in BetIds : Active(b) /\ bets[b].option \in mine}
      refund(u, c) == SumOf([b \in BetIds |-> bets[b].amount * Unit(c)],
                          {b \in gone : bets[b].user = u /\ bets[b].currency = c})
  IN
  /\ roundStatus' = [roundStatus EXCEPT ![r] = "cancelled"]
  /\ optionStatus' = [o \in Options |->
                        IF o \in mine THEN "cancelled" ELSE optionStatus[o]]
  /\ wallet' = [u \in Users |-> [c \in Currencies |->
                  wallet[u][c] + refund(u, c)]]
  /\ Payable(wallet')
  /\ bets' = [b \in BetIds |-> IF b \in gone
                THEN [bets[b] EXCEPT !.status = "cancelled"] ELSE bets[b]]
  /\ total' = [o \in Options |-> [c \in Currencies |->
                 IF o \in mine THEN total[o][c] - Stakes(CarriedBy(o, c))
                               ELSE total[o][c]]]
  /\ count' = [o \in Options |-> [c \in Currencies |->
                 IF o \in mine THEN count[o][c] - Cardinality(CarriedBy(o, c))
                               ELSE count[o][c]]]
  /\ UNCHANGED <<winning, streamEnded>>

----------------------------------------------------------------------------
(***************************************************************************)
(* The stream: betting only asks whether it has ended.  Ending it checks   *)
(* its rounds; the administrator's status update does not, and may put an  *)
(* ended stream back.                                                      *)
(***************************************************************************)
EndStream ==
  /\ \A r \in Rounds : roundStatus[r] \notin {"open", "locked"}
  /\ streamEnded' = TRUE
  /\ UNCHANGED <<roundStatus, options, pools, bets, wallet>>

UpdateStreamStatus ==
  /\ streamEnded' \in BOOLEAN
  /\ UNCHANGED <<roundStatus, options, pools, bets, wallet>>

Next ==
  \/ \E r \in Rounds : OpenRound(r) \/ LockRound(r) \/ CancelRound(r)
  \/ \E o \in Options : LockOption(o) \/ DeclareWinner(o)
  \/ \E u \in Users, o \in Options, c \in Currencies, a \in Amounts, b \in BetIds :
       PlaceBet(u, o, c, a, b)
  \/ \E b \in BetIds, o \in Options, c \in Currencies, a \in Amounts :
       EditBet(b, o, c, a)
  \/ \E b \in BetIds : CancelBet(b)
  \/ EndStream \/ UpdateStreamStatus

Spec == Init /\ [][Next]_vars

----------------------------------------------------------------------------
(***************************************************************************)
(* Properties.                                                             *)
(***************************************************************************)

Counted(o, c) ==
  {b \in BetIds : /\ bets[b].status \notin {"none", "cancelled"}
                  /\ bets[b].option = o /\ bets[b].currency = c}

With(statuses, c) ==
  {b \in BetIds : bets[b].status \in statuses /\ bets[b].currency = c}

\* A bet's own round_id is the round of its option, and a bet is active only
\* while its round still awaits a result: declareWinner finds the bets by
\* round_id, cancelRoundAndRefund by option, and neither may strand one.
NoStrandedBet ==
  \A b \in BetIds : bets[b] # NoBet =>
    /\ bets[b].round = RoundOf[bets[b].option]
    /\ Active(b) => roundStatus[bets[b].round] \in {"open", "locked"}

\* The totals and counts kept on an option are those of its bets, whatever
\* placing, editing, cancelling and settling did to them: declareWinner
\* divides by the total.
PoolsMatchBets ==
  \A o \in Options, c \in Currencies :
    /\ total[o][c] = Stakes(Counted(o, c))
    /\ count[o][c] = Cardinality(Counted(o, c))

\* A closed round has exactly one winning option, a round still to be decided
\* none, and the results of its bets agree with it.
ResultsAgree ==
  /\ \A o, p \in Options :
       RoundOf[o] = RoundOf[p] /\ winning[o] /\ winning[p] => o = p
  /\ \A o \in Options :
       winning[o] => roundStatus[RoundOf[o]] \in {"closed", "cancelled"}
  /\ \A r \in Rounds : roundStatus[r] = "closed" =>
       \E o \in Options : RoundOf[o] = r /\ winning[o]
  /\ \A b \in BetIds :
       /\ bets[b].status \in {"won", "lost", "refunded"} =>
            roundStatus[bets[b].round] \in {"closed", "cancelled"}
       /\ bets[b].status = "won" => winning[bets[b].option]
       /\ bets[b].status = "lost" => ~ winning[bets[b].option]

(***************************************************************************)
(* Money.  What the users hold is in their wallets and in active stakes.   *)
(***************************************************************************)
Held(c) ==
  SumOf([u \in Users |-> wallet[u][c]], Users)
    + Stakes(With({"active"}, c)) * Unit(c)

Opening(c) == SumOf([u \in Users |-> OpeningBalance[c]], Users)

\* The 15% of every contested pot of sweep coins; gold pots pay out in full.
Fee(c) == IF c = Gold THEN 0 ELSE 150 * Stakes(With({"won", "lost"}, c))

\* No coin is created or lost: what the users no longer hold is the fee, up
\* to one unit per payout for the rounding, and never less than nothing.
MoneyAccounted ==
  \A c \in Currencies :
    LET kept == Opening(c) - Held(c)
        payouts == Cardinality(With({"won"}, c)) IN
      /\ kept >= 0
      /\ kept - Fee(c) \in -payouts .. payouts

BetsKept ==
  \A b \in BetIds : bets[b].status \notin {"none", "active"} => bets'[b] = bets[b]

PoolsKept ==
  \A o \in Options : roundStatus[RoundOf[o]] = "closed" =>
    total'[o] = total[o] /\ count'[o] = count[o]

\* A bet that was settled, refunded or cancelled never changes again, and
\* neither do the pools of a closed round: no handler pays a bet twice.
SettledStaysSettled == [][BetsKept /\ PoolsKept]_vars
=============================================================================
