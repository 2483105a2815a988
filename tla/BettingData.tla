---------------------------- MODULE BettingData ----------------------------
(***************************************************************************)
(* The rows of the betting tables and the arithmetic on them, shared by    *)
(* the modules that model betting.service.ts.  Nothing here has state.     *)
(*                                                                         *)
(* Amounts.  Bet.amount and the totals of a betting variable are whole     *)
(* coins (bigint).  A wallet keeps gold as a bigint and sweep coins as a   *)
(* decimal with three places, so a wallet is counted in units: one unit is *)
(* a gold coin, or a thousandth of a sweep coin.                           *)
(*                                                                         *)
(* That a stake is positive and in one of two currencies is what the DTOs  *)
(* demand (PlaceBetDto, EditBetDto).  They are validated over HTTP: the    *)
(* pipe that main.ts sets does not reach the gateways, and placeBet itself *)
(* checks neither (editBet refuses amounts that are not positive).  Here   *)
(* and in the modules that extend this one, requests are those that the    *)
(* DTOs admit.                                                             *)
(***************************************************************************)
EXTENDS Integers, FiniteSets, Functions

Gold  == "gold_coins"
Sweep == "sweep_coins"
Currencies == {Gold, Sweep}

CONSTANTS
  Users,      \* account holders
  Rounds,     \* rows of betting_rounds, all of one stream
  Options,    \* rows of betting_variables
  RoundOf,    \* the round an option belongs to (round_id)
  BetIds,     \* primary keys available for rows of bets: bounds the bets
  Amounts,    \* stakes a request may carry (@IsNumber @IsPositive, bigint)
  LedgerMax   \* largest transactions.balanceAfter, decimal(12,3), in units

ASSUME RoundOfAssumption == RoundOf \in [Options -> Rounds]
\* Of the requests the DTOs admit, which the gateway does not enforce.
ASSUME AmountsAssumption == Amounts \subseteq Nat \ {0}
ASSUME BetIdsAssumption  == IsFiniteSet(BetIds)
ASSUME UsersAssumption   == IsFiniteSet(Users)
ASSUME LedgerMaxAssumption == LedgerMax \in [Currencies -> Nat]

RoundStatus  == {"created", "open", "locked", "closed", "cancelled"}
OptionStatus == {"active", "locked", "winner", "loser", "cancelled"}
BetStatus    == {"active", "won", "lost", "cancelled", "refunded"}

\* A row that has not been inserted yet.
NoBet == [status |-> "none"]

Bet == [user : Users, option : Options, round : Rounds, currency : Currencies,
        amount : Amounts, status : BetStatus, payout : Int]

NewBet(u, o, c, a) ==
  [user |-> u, option |-> o, round |-> RoundOf[o], currency |-> c,
   amount |-> a, status |-> "active", payout |-> 0]

\* A number per option and currency, and per user and currency.
PoolTable   == [Options -> [Currencies -> Int]]
WalletTable == [Users -> [Currencies -> Int]]

\* Wallet units of one coin.
Unit(c) == IF c = Gold THEN 1 ELSE 1000

Max0(n) == IF n < 0 THEN 0 ELSE n

SumOf(f, S) == SumFunctionOnSet(f, S)

(***************************************************************************)
(* The pools.  A table is a function of option and currency: the totals    *)
(* total_bets_*_amount or the counts bet_count_*.                          *)
(***************************************************************************)
Staked(table, o, c, n) == [table EXCEPT ![o][c] = @ + n]

Unstaked(table, o, c, n) == [table EXCEPT ![o][c] = @ - n]

\* Mutation of Restaked: the currencies are not compared.
RestakedByOption(table, o1, c1, n1, o2, c2, n2) ==
  IF o1 = o2 THEN [table EXCEPT ![o2][c2] = Max0(@ - n1 + n2)]
             ELSE [table EXCEPT ![o1][c1] = Max0(@ - n1), ![o2][c2] = @ + n2]

\* Editing a stake of n1 on (o1, c1) into n2 on (o2, c2): what is taken away
\* is clamped at zero, and on the same pool only the difference is written.
Restaked(table, o1, c1, n1, o2, c2, n2) ==
  IF o1 = o2 /\ c1 = c2
    THEN [table EXCEPT ![o1][c1] = Max0(@ - n1 + n2)]
    ELSE [table EXCEPT ![o1][c1] = Max0(@ - n1), ![o2][c2] = @ + n2]

\* The same for the counts, which an edit inside one pool does not write.
Recounted(table, o1, c1, o2, c2) ==
  IF o1 = o2 /\ c1 = c2 THEN table ELSE Restaked(table, o1, c1, 1, o2, c2, 1)

(***************************************************************************)
(* Wallets: a function of user and currency, in units.                     *)
(***************************************************************************)
Credited(wallet, u, c, n) == [wallet EXCEPT ![u][c] = @ + n * Unit(c)]

\* The wallet after the refund of an old stake and the debit of a new one.
Exchanged(wallet, u, c1, n1, c2, n2) ==
  Credited(Credited(wallet, u, c1, n1), u, c2, -n2)

(***************************************************************************)
(* Payouts.  A winning stake a of a pool that totals t takes, of a pot of  *)
(* p coins, floor(a / t * p) gold coins, or 85% of a / t * p sweep coins   *)
(* rounded to three places.  Both are computed with doubles: where the     *)
(* exact value sits on the boundary of the rounding, a / t rounded down    *)
(* gives one unit less, so a payout may fall short by one there.           *)
(***************************************************************************)

Share(c, a, t, p) ==
  IF c = Gold THEN (a * p) \div t ELSE (2 * a * p * 850 + t) \div (2 * t)

OnBoundary(c, a, t, p) ==
  IF c = Gold THEN (a * p) % t = 0 ELSE (2 * a * p * 850 + t) % (2 * t) = 0
=============================================================================
