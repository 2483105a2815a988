--------------------------- MODULE BettingProofs ---------------------------
(***************************************************************************)
(* Proofs about the betting service, for every number of users, rounds,    *)
(* options, bets, stakes and requests.                                     *)
(*                                                                         *)
(* First about BetBook and BetFigures: the inductive invariant, what a     *)
(* step may never do, that no coin is created or lost, and that the        *)
(* figures that are shown agree and are paid.  Then about BettingRequests: *)
(* what the row locks keep whichever requests overlap, and what else holds *)
(* as long as certain requests do not.                                     *)
(***************************************************************************)
EXTENDS BetFigures, BettingRequests, SumTheorems, TLAPS

----------------------------------------------------------------------------
(***************************************************************************)
(* The rows and the tables.                                                *)
(***************************************************************************)

\* A row that was inserted has all its columns, of their types.
LEMMA BetFacts ==
  ASSUME TypeOK, NEW b \in BetIds, bets[b].status # "none"
  PROVE  /\ bets[b] \in Bet
         /\ bets[b].user \in Users /\ bets[b].option \in Options
         /\ bets[b].round \in Rounds /\ bets[b].currency \in Currencies
         /\ bets[b].amount \in Nat \ {0}
         /\ bets[b].status \in BetStatus
<1>1. bets[b] \in Bet \cup {NoBet}
  BY DEF TypeOK
<1>2. bets[b] # NoBet
  BY DEF NoBet
<1>3. bets[b] \in Bet
  BY <1>1, <1>2
<1> QED BY <1>3, AmountsAssumption DEF Bet

\* placeBet inserts a complete row.
LEMMA NewBetType ==
  ASSUME NEW u \in Users, NEW o \in Options, NEW c \in Currencies, NEW a \in Amounts
  PROVE  NewBet(u, o, c, a) \in Bet
<1>1. RoundOf[o] \in Rounds
  BY RoundOfAssumption
<1> QED BY <1>1 DEF NewBet, Bet, BetStatus

\* A coin is a whole positive number of units.
LEMMA UnitType == ASSUME NEW c \in Currencies PROVE Unit(c) \in Nat \ {0}
BY DEF Unit

\* Crediting or debiting a user leaves a wallet table.
LEMMA CreditedType ==
  ASSUME NEW w \in WalletTable,
         NEW u \in Users, NEW c \in Currencies, NEW n \in Int
  PROVE  Credited(w, u, c, n) \in WalletTable
<1> DEFINE k == n * Unit(c)
<1>1. k \in Int
  BY UnitType
<1> HIDE DEF k
<1>2. [w EXCEPT ![u][c] = @ + k] \in WalletTable
  BY <1>1 DEF WalletTable
<1> QED BY <1>2 DEF Credited, k

\* What the handlers write on the pools leaves a pool table.
LEMMA StakedType ==
  ASSUME NEW t \in PoolTable, NEW o \in Options, NEW c \in Currencies, NEW n \in Int
  PROVE  Staked(t, o, c, n) \in PoolTable /\ Unstaked(t, o, c, n) \in PoolTable
<1>1. Staked(t, o, c, n) \in PoolTable
  BY DEF Staked, PoolTable
<1>2. Unstaked(t, o, c, n) \in PoolTable
  BY DEF Unstaked, PoolTable
<1> QED BY <1>1, <1>2

\* Editing a stake keeps a table of totals or counts a table of integers.
LEMMA RestakedType ==
  ASSUME NEW t \in PoolTable, NEW o \in Options, NEW c \in Currencies, NEW j \in Int,
         NEW p \in Options, NEW d \in Currencies, NEW k \in Int
  PROVE  Restaked(t, o, c, j, p, d, k) \in PoolTable
<1>1. [t EXCEPT ![o][c] = Max0(@ - j + k)] \in PoolTable
  BY DEF Max0, PoolTable
<1> DEFINE t1 == [t EXCEPT ![o][c] = Max0(@ - j)]
<1>2. t1 \in PoolTable
  BY DEF Max0, PoolTable
<1> HIDE DEF t1
<1>3. [t1 EXCEPT ![p][d] = @ + k] \in PoolTable
  BY <1>2 DEF PoolTable
<1> QED BY <1>1, <1>3 DEF Restaked, t1

\* The same for an edit's change of the counts.
LEMMA RecountedType ==
  ASSUME NEW t \in PoolTable, NEW o \in Options, NEW c \in Currencies,
         NEW p \in Options, NEW d \in Currencies
  PROVE  Recounted(t, o, c, p, d) \in PoolTable
<1>1. 1 \in Int
  OBVIOUS
<1>2. Restaked(t, o, c, 1, p, d, 1) \in PoolTable
  BY <1>1, RestakedType, Zenon
<1> QED BY <1>2 DEF Recounted

\* A share of a pot that was staked is a whole number.
LEMMA ShareType ==
  ASSUME NEW c \in Currencies, NEW a \in Nat, NEW t \in Nat \ {0}, NEW p \in Nat
  PROVE  Share(c, a, t, p) \in Int
<1> DEFINE x == a * p
           y == 2 * a * p * 850 + t
           d == 2 * t
<1>1. x \in Nat /\ y \in Nat /\ d \in Nat \ {0}
  OBVIOUS
<1> HIDE DEF x, y, d
<1>2. x \div t \in Int /\ y \div d \in Int
  BY <1>1
<1> QED BY <1>2 DEF Share, x, y, d

\* The stakes of any set of inserted rows add up to a natural number.
LEMMA StakesType ==
  ASSUME TypeOK, NEW S \in SUBSET BetIds, \A b \in S : bets[b].status # "none"
  PROVE  /\ IsFiniteSet(S)
         /\ \A b \in S : [e \in BetIds |-> bets[e].amount][b] \in Nat \ {0}
         /\ Stakes(S) \in Nat
<1> DEFINE f == [e \in BetIds |-> bets[e].amount]
<1>1. IsFiniteSet(S)
  BY BetIdsAssumption, FS_Subset
<1>2. \A b \in S : f[b] \in Nat \ {0}
  BY BetFacts
<1>3. SumFunctionOnSet(f, S) \in Nat
  <2> HIDE DEF f
  <2> QED BY <1>1, <1>2, SumNonNegative
<1> QED BY <1>1, <1>2, <1>3 DEF Stakes, StakesOf, SumOf

----------------------------------------------------------------------------
(***************************************************************************)
(* Type correctness, action by action.                                     *)
(***************************************************************************)

\* What placeBet writes keeps the types: its row is a new bet, its table
\* entries are integers.
LEMMA PlacingType ==
  ASSUME TypeOK, NEW u \in Users, NEW o \in Options, NEW c \in Currencies,
         NEW a \in Amounts, NEW b \in BetIds,
         Placing(wallet, total, count, u, o, c, a, b)
  PROVE  TypeOK'
<1>1. a \in Int /\ -a \in Int /\ 1 \in Int
  BY AmountsAssumption
<1>2. wallet' \in WalletTable
  BY <1>1, CreditedType DEF TypeOK, Placing
<1>3. total' \in PoolTable /\ count' \in PoolTable
  BY <1>1, StakedType DEF TypeOK, Placing
<1>4. bets' \in [BetIds -> Bet \cup {NoBet}]
  BY NewBetType DEF TypeOK, Placing
<1> QED BY <1>2, <1>3, <1>4 DEF TypeOK, Placing, options
\* The columns of a bet.
LEMMA RowColumns ==
  ASSUME NEW row \in Bet
  PROVE  /\ row.user \in Users /\ row.option \in Options /\ row.round \in Rounds
         /\ row.currency \in Currencies /\ row.status \in BetStatus
         /\ row.amount \in Nat \ {0} /\ row.payout \in Int
         /\ row.status # "none" /\ row # NoBet
<1>1. row.status \in BetStatus /\ row.amount \in Nat \ {0} /\ row.status # "none"
  BY AmountsAssumption DEF Bet, BetStatus
<1> QED BY <1>1 DEF Bet, NoBet

\* What editBet writes keeps the types, for any row it has read.
LEMMA EditingType ==
  ASSUME TypeOK, NEW old \in Bet, NEW b \in BetIds, NEW o \in Options,
         NEW c \in Currencies, NEW a \in Amounts,
         Editing(wallet, total, count, old, b, o, c, a)
  PROVE  TypeOK'
<1>1. a \in Int /\ -a \in Int
  BY AmountsAssumption
<1>2. /\ old.user \in Users /\ old.option \in Options
      /\ old.currency \in Currencies /\ old.amount \in Int
  BY RowColumns
<1>3. wallet' \in WalletTable
  <2>1. Credited(wallet, old.user, old.currency, old.amount) \in WalletTable
    BY <1>2, CreditedType DEF TypeOK
  <2> QED BY <1>1, <1>2, <2>1, CreditedType DEF Editing, Exchanged
<1>4. total' \in PoolTable /\ count' \in PoolTable
  BY <1>1, <1>2, RestakedType, RecountedType DEF TypeOK, Editing
<1>5. [old EXCEPT !.option = o, !.round = RoundOf[o], !.currency = c, !.amount = a] \in Bet
  <2>1. RoundOf[o] \in Rounds
    BY RoundOfAssumption
  <2> QED BY <2>1 DEF Bet
<1>6. bets' \in [BetIds -> Bet \cup {NoBet}]
  BY <1>5 DEF TypeOK, Editing
<1> QED BY <1>3, <1>4, <1>6 DEF TypeOK, Editing, options
\* What cancelBet writes keeps the types, for any row it has read.
LEMMA CancellingType ==
  ASSUME TypeOK, NEW old \in Bet, NEW b \in BetIds,
         Cancelling(wallet, total, count, old, b)
  PROVE  TypeOK'
<1>1. /\ old.user \in Users /\ old.option \in Options
      /\ old.currency \in Currencies /\ old.amount \in Int /\ 1 \in Int
  BY RowColumns
<1>2. wallet' \in WalletTable
  BY <1>1, CreditedType DEF TypeOK, Cancelling
<1>3. total' \in PoolTable /\ count' \in PoolTable
  BY <1>1, StakedType DEF TypeOK, Cancelling
<1>4. [old EXCEPT !.status = "cancelled"] \in Bet
  BY DEF Bet, BetStatus
<1>5. bets' \in [BetIds -> Bet \cup {NoBet}]
  BY <1>4 DEF TypeOK, Cancelling
<1> QED BY <1>2, <1>3, <1>5 DEF TypeOK, Cancelling, options
----------------------------------------------------------------------------
(***************************************************************************)
(* The pools and the bets counted in them.                                 *)
(***************************************************************************)

\* The bets of a pool are finitely many inserted rows.
LEMMA CountedFacts ==
  ASSUME TypeOK, NEW o \in Options, NEW c \in Currencies
  PROVE  /\ Counted(o, c) \in SUBSET BetIds /\ IsFiniteSet(Counted(o, c))
         /\ \A b \in Counted(o, c) :
              [e \in BetIds |-> bets[e].amount][b] \in Nat \ {0}
         /\ Stakes(Counted(o, c)) \in Nat
         /\ Cardinality(Counted(o, c)) \in Nat
<1>1. Counted(o, c) \in SUBSET BetIds /\ \A b \in Counted(o, c) : bets[b].status # "none"
  BY DEF Counted
<1>2. IsFiniteSet(Counted(o, c))
  BY <1>1, StakesType
<1> QED BY <1>1, <1>2, StakesType, FS_CardinalityType

\* A bet of a pool has staked no more than the pool's total.
LEMMA StakeInPool ==
  ASSUME TypeOK, PoolsMatchBets, NEW o \in Options, NEW c \in Currencies,
         NEW b \in Counted(o, c)
  PROVE  /\ total[o][c] \in Nat /\ bets[b].amount <= total[o][c]
         /\ bets[b].amount \in Nat \ {0}
         /\ count[o][c] \in Nat /\ 1 <= count[o][c]
<1> DEFINE f == [e \in BetIds |-> bets[e].amount]
           S == Counted(o, c)
<1>1. /\ S \in SUBSET BetIds /\ IsFiniteSet(S) /\ b \in S
      /\ \A e \in S : f[e] \in Nat \ {0}
  BY CountedFacts
<1>2. f[b] = bets[b].amount
  BY <1>1
<1>3. f[b] <= SumFunctionOnSet(f, S)
  <2> HIDE DEF f, S
  <2> QED BY <1>1, SumBounds
<1>4. total[o][c] = SumFunctionOnSet(f, S) /\ total[o][c] \in Nat
  BY CountedFacts DEF PoolsMatchBets, Stakes, StakesOf, SumOf
<1>5. Cardinality(S) # 0 /\ Cardinality(S) \in Nat
  <2> HIDE DEF S
  <2> QED BY <1>1, FS_EmptySet, FS_CardinalityType
<1> QED BY <1>1, <1>2, <1>3, <1>4, <1>5 DEF PoolsMatchBets

\* A bet joins a pool.
LEMMA PoolGains ==
  ASSUME TypeOK, NEW o \in Options, NEW c \in Currencies, NEW b \in BetIds,
         b \notin Counted(o, c), Counted(o, c)' = Counted(o, c) \cup {b},
         bets'[b].amount \in Int, \A e \in BetIds \ {b} : bets'[e] = bets[e]
  PROVE  /\ Stakes(Counted(o, c))' = Stakes(Counted(o, c)) + bets'[b].amount
         /\ Cardinality(Counted(o, c))' = Cardinality(Counted(o, c)) + 1
<1> DEFINE f == [e \in BetIds |-> bets[e].amount]
           g == [e \in BetIds |-> bets'[e].amount]
           S == Counted(o, c)
<1>1. /\ S \in SUBSET BetIds /\ IsFiniteSet(S) /\ b \notin S
      /\ \A e \in S : f[e] \in Int /\ g[e] = f[e]
  BY CountedFacts
<1>2. g[b] = bets'[b].amount
  OBVIOUS
<1>3. SumFunctionOnSet(g, S \cup {b}) = SumFunctionOnSet(f, S) + g[b]
  <2>1. g[b] \in Int
    BY <1>2
  <2> HIDE DEF f, g, S
  <2> QED BY <1>1, <2>1, SumJoin
<1>4. Cardinality(S \cup {b}) = Cardinality(S) + 1
  BY <1>1, FS_AddElement
<1> QED BY <1>2, <1>3, <1>4 DEF Stakes, StakesOf, SumOf

\* A bet leaves a pool.
LEMMA PoolLoses ==
  ASSUME TypeOK, NEW o \in Options, NEW c \in Currencies, NEW b \in Counted(o, c),
         Counted(o, c)' = Counted(o, c) \ {b},
         \A e \in BetIds \ {b} : bets'[e] = bets[e]
  PROVE  /\ Stakes(Counted(o, c))' = Stakes(Counted(o, c)) - bets[b].amount
         /\ Cardinality(Counted(o, c))' = Cardinality(Counted(o, c)) - 1
<1> DEFINE f == [e \in BetIds |-> bets[e].amount]
           g == [e \in BetIds |-> bets'[e].amount]
           S == Counted(o, c)
<1>1. /\ S \in SUBSET BetIds /\ IsFiniteSet(S) /\ b \in S
      /\ \A e \in S : f[e] \in Int
      /\ \A e \in S \ {b} : g[e] = f[e]
  BY CountedFacts
<1>2. f[b] = bets[b].amount
  BY <1>1
<1>3. SumFunctionOnSet(g, S \ {b}) = SumFunctionOnSet(f, S) - f[b]
  <2> HIDE DEF f, g, S
  <2> QED BY <1>1, SumLeave
<1>4. Cardinality(S \ {b}) = Cardinality(S) - 1
  BY <1>1, FS_RemoveElement
<1> QED BY <1>2, <1>3, <1>4 DEF Stakes, StakesOf, SumOf

\* A bet stays in its pool with another stake.
LEMMA PoolRestakes ==
  ASSUME TypeOK, NEW o \in Options, NEW c \in Currencies, NEW b \in Counted(o, c),
         Counted(o, c)' = Counted(o, c), bets'[b].amount \in Int,
         \A e \in BetIds \ {b} : bets'[e] = bets[e]
  PROVE  Stakes(Counted(o, c))'
           = Stakes(Counted(o, c)) - bets[b].amount + bets'[b].amount
<1> DEFINE f == [e \in BetIds |-> bets[e].amount]
           g == [e \in BetIds |-> bets'[e].amount]
           S == Counted(o, c)
<1>1. /\ S \in SUBSET BetIds /\ IsFiniteSet(S) /\ b \in S
      /\ \A e \in S : f[e] \in Int /\ g[e] \in Int
      /\ \A e \in S \ {b} : f[e] = g[e]
  BY CountedFacts
<1>2. f[b] = bets[b].amount /\ g[b] = bets'[b].amount
  BY <1>1
<1>3. SumFunctionOnSet(g, S) = SumFunctionOnSet(f, S) - f[b] + g[b]
  <2> HIDE DEF f, g, S
  <2> QED BY <1>1, SumChange
<1> QED BY <1>2, <1>3 DEF Stakes, StakesOf, SumOf

\* A pool none of whose bets changes its stake.
LEMMA PoolKeeps ==
  ASSUME TypeOK, NEW o \in Options, NEW c \in Currencies,
         Counted(o, c)' = Counted(o, c),
         \A e \in Counted(o, c) : bets'[e].amount = bets[e].amount
  PROVE  /\ Stakes(Counted(o, c))' = Stakes(Counted(o, c))
         /\ Cardinality(Counted(o, c))' = Cardinality(Counted(o, c))
<1> DEFINE f == [e \in BetIds |-> bets[e].amount]
           g == [e \in BetIds |-> bets'[e].amount]
           S == Counted(o, c)
<1>1. S \in SUBSET BetIds /\ IsFiniteSet(S) /\ \A e \in S : f[e] \in Int
  BY CountedFacts
<1>2. \A e \in S : g[e] = f[e]
  BY <1>1
<1>3. SumFunctionOnSet(f, S) = SumFunctionOnSet(g, S)
  <2> HIDE DEF f, g, S
  <2> QED BY <1>1, <1>2, SumCongruence
<1> QED BY <1>3 DEF Stakes, StakesOf, SumOf

\* What an edit writes, pool by pool.
LEMMA RestakedAt ==
  ASSUME NEW t \in PoolTable, NEW o \in Options, NEW c \in Currencies, NEW j \in Int,
         NEW p \in Options, NEW d \in Currencies, NEW k \in Int,
         NEW q \in Options, NEW e \in Currencies
  PROVE  Restaked(t, o, c, j, p, d, k)[q][e] =
           IF q = o /\ e = c
             THEN IF q = p /\ e = d THEN Max0(t[q][e] - j + k) ELSE Max0(t[q][e] - j)
             ELSE IF q = p /\ e = d THEN t[q][e] + k ELSE t[q][e]
<1>1. CASE o = p /\ c = d
  BY <1>1 DEF Restaked, PoolTable
<1>2. CASE ~ (o = p /\ c = d)
  <2> DEFINE t1 == [t EXCEPT ![o][c] = Max0(@ - j)]
  <2>1. t1 \in PoolTable
    BY DEF Max0, PoolTable
  <2>2. t1[q][e] = IF q = o /\ e = c THEN Max0(t[q][e] - j) ELSE t[q][e]
    BY DEF PoolTable
  <2> HIDE DEF t1
  <2>3. [t1 EXCEPT ![p][d] = @ + k][q][e] =
          IF q = p /\ e = d THEN t1[q][e] + k ELSE t1[q][e]
    BY <2>1 DEF PoolTable
  <2>4. Restaked(t, o, c, j, p, d, k) = [t1 EXCEPT ![p][d] = @ + k]
    BY <1>2 DEF Restaked, t1
  <2> QED BY <1>2, <2>2, <2>3, <2>4
<1> QED BY <1>1, <1>2

\* The same for the counts.
LEMMA RecountedAt ==
  ASSUME NEW t \in PoolTable, NEW o \in Options, NEW c \in Currencies,
         NEW p \in Options, NEW d \in Currencies, NEW q \in Options, NEW e \in Currencies
  PROVE  Recounted(t, o, c, p, d)[q][e] =
           IF q = o /\ e = c
             THEN IF q = p /\ e = d THEN t[q][e] ELSE Max0(t[q][e] - 1)
             ELSE IF q = p /\ e = d THEN t[q][e] + 1 ELSE t[q][e]
<1>1. CASE o = p /\ c = d
  BY <1>1 DEF Recounted
<1>2. CASE ~ (o = p /\ c = d)
  <2>1. Recounted(t, o, c, p, d) = Restaked(t, o, c, 1, p, d, 1)
    BY <1>2 DEF Recounted
  <2>2. 1 \in Int
    OBVIOUS
  <2>3. Restaked(t, o, c, 1, p, d, 1)[q][e] =
           IF q = o /\ e = c
             THEN IF q = p /\ e = d THEN Max0(t[q][e] - 1 + 1) ELSE Max0(t[q][e] - 1)
             ELSE IF q = p /\ e = d THEN t[q][e] + 1 ELSE t[q][e]
    BY <2>2, RestakedAt
  <2> QED BY <1>2, <2>1, <2>3
<1> QED BY <1>1, <1>2

\* placeBet adds its stake and its count to the one pool that gains a bet.
LEMMA PlacingPools ==
  ASSUME TypeOK, PoolsMatchBets, NEW u \in Users, NEW o \in Options,
         NEW c \in Currencies, NEW a \in Amounts, NEW b \in BetIds,
         Placing(wallet, total, count, u, o, c, a, b)
  PROVE  PoolsMatchBets'
<1>1. /\ bets[b].status = "none" /\ a \in Int
      /\ bets' = [bets EXCEPT ![b] = NewBet(u, o, c, a)]
      /\ total' = Staked(total, o, c, a) /\ count' = Staked(count, o, c, 1)
  BY AmountsAssumption DEF Placing, NoBet
<1>2. /\ bets'[b].status = "active" /\ bets'[b].option = o
      /\ bets'[b].currency = c /\ bets'[b].amount = a
  BY <1>1 DEF TypeOK, NewBet
<1>3. \A e \in BetIds \ {b} : bets'[e] = bets[e]
  BY <1>1 DEF TypeOK
<1> SUFFICES ASSUME NEW p \in Options, NEW d \in Currencies
             PROVE  /\ total'[p][d] = Stakes(Counted(p, d))'
                    /\ count'[p][d] = Cardinality(Counted(p, d))'
  BY DEF PoolsMatchBets
<1>4. /\ total[p][d] = Stakes(Counted(p, d))
      /\ count[p][d] = Cardinality(Counted(p, d))
  BY DEF PoolsMatchBets
<1>5. CASE p = o /\ d = c
  <2>1. b \notin Counted(p, d) /\ Counted(p, d)' = Counted(p, d) \cup {b}
    BY <1>1, <1>2, <1>3, <1>5 DEF Counted
  <2>2. /\ Stakes(Counted(p, d))' = Stakes(Counted(p, d)) + a
        /\ Cardinality(Counted(p, d))' = Cardinality(Counted(p, d)) + 1
    <3>1. bets'[b].amount \in Int
      BY <1>1, <1>2
    <3> QED BY <1>2, <1>3, <2>1, <3>1, PoolGains
  <2>3. total'[p][d] = total[p][d] + a /\ count'[p][d] = count[p][d] + 1
    BY <1>1, <1>5 DEF Staked, TypeOK, PoolTable
  <2> QED BY <1>4, <2>2, <2>3
<1>6. CASE ~ (p = o /\ d = c)
  <2>1. Counted(p, d)' = Counted(p, d)
    BY <1>1, <1>2, <1>3, <1>6 DEF Counted
  <2>2. \A e \in Counted(p, d) : bets'[e].amount = bets[e].amount
    BY <1>1, <1>3 DEF Counted
  <2>3. total'[p][d] = total[p][d] /\ count'[p][d] = count[p][d]
    BY <1>1, <1>6 DEF Staked, TypeOK, PoolTable
  <2> QED BY <1>4, <2>1, <2>2, <2>3, PoolKeeps
<1> QED BY <1>5, <1>6

\* editBet takes the old stake out of its pool and adds the new one to its
\* own; what Math.max(0, ...) clamps is never negative, so nothing is clamped.
LEMMA EditingPools ==
  ASSUME TypeOK, PoolsMatchBets, NEW b \in BetIds, NEW o \in Options,
         NEW c \in Currencies, NEW a \in Amounts, Active(b),
         Editing(wallet, total, count, bets[b], b, o, c, a)
  PROVE  PoolsMatchBets'
<1> DEFINE p0 == bets[b].option
           d0 == bets[b].currency
           a0 == bets[b].amount
<1>1. /\ bets[b].status = "active" /\ a \in Nat /\ a \in Int /\ 1 \in Int
      /\ bets[b] \in Bet /\ p0 \in Options /\ d0 \in Currencies /\ a0 \in Int
  BY AmountsAssumption, BetFacts DEF Editing, Active
<1>2. /\ bets'[b].status = "active" /\ bets'[b].option = o
      /\ bets'[b].currency = c /\ bets'[b].amount = a
  BY <1>1 DEF TypeOK, Editing, Bet
<1>3. \A e \in BetIds \ {b} : bets'[e] = bets[e]
  BY DEF TypeOK, Editing
<1>4. /\ total' = Restaked(total, p0, d0, a0, o, c, a)
      /\ count' = Recounted(count, p0, d0, o, c)
  BY DEF Editing
<1> SUFFICES ASSUME NEW p \in Options, NEW d \in Currencies
             PROVE  /\ total'[p][d] = Stakes(Counted(p, d))'
                    /\ count'[p][d] = Cardinality(Counted(p, d))'
  BY DEF PoolsMatchBets
<1>5. /\ total[p][d] = Stakes(Counted(p, d)) /\ total[p][d] \in Int
      /\ count[p][d] = Cardinality(Counted(p, d)) /\ count[p][d] \in Int
  BY DEF PoolsMatchBets, TypeOK, PoolTable
<1> DEFINE from == p = p0 /\ d = d0
           into == p = o /\ d = c
<1>6. total'[p][d] =
        IF from THEN IF into THEN Max0(total[p][d] - a0 + a) ELSE Max0(total[p][d] - a0)
                ELSE IF into THEN total[p][d] + a ELSE total[p][d]
  BY <1>1, <1>4, RestakedAt DEF TypeOK
<1>7. count'[p][d] =
        IF from THEN IF into THEN count[p][d] ELSE Max0(count[p][d] - 1)
                ELSE IF into THEN count[p][d] + 1 ELSE count[p][d]
  <2>1. count \in PoolTable
    BY DEF TypeOK
  <2>2. Recounted(count, p0, d0, o, c)[p][d] =
          IF from THEN IF into THEN count[p][d] ELSE Max0(count[p][d] - 1)
                  ELSE IF into THEN count[p][d] + 1 ELSE count[p][d]
    <3> HIDE DEF p0, d0
    <3> QED BY <1>1, <2>1, RecountedAt
  <2> QED BY <1>4, <2>2
<1>8. from <=> b \in Counted(p, d)
  BY <1>1 DEF Counted
<1>9. into <=> b \in Counted(p, d)'
  BY <1>2 DEF Counted
<1>10. \A e \in BetIds \ {b} : e \in Counted(p, d)' <=> e \in Counted(p, d)
  BY <1>3 DEF Counted
<1>11. Counted(p, d) \subseteq BetIds /\ Counted(p, d)' \subseteq BetIds
  BY DEF Counted
<1>12. from => /\ a0 <= total[p][d] /\ 1 <= count[p][d]
               /\ Max0(total[p][d] - a0 + a) = total[p][d] - a0 + a
               /\ Max0(total[p][d] - a0) = total[p][d] - a0
               /\ Max0(count[p][d] - 1) = count[p][d] - 1
  BY <1>1, <1>5, <1>8, StakeInPool DEF Max0
<1> HIDE DEF from, into
<1>13. CASE from /\ into
  <2>1. Counted(p, d)' = Counted(p, d) /\ b \in Counted(p, d)
    BY <1>8, <1>9, <1>10, <1>11, <1>13
  <2>2. Stakes(Counted(p, d))' = Stakes(Counted(p, d)) - a0 + a
    BY <1>1, <1>2, <1>3, <2>1, PoolRestakes
  <2> QED BY <1>5, <1>6, <1>7, <1>12, <1>13, <2>1, <2>2
<1>14. CASE from /\ ~ into
  <2>1. Counted(p, d)' = Counted(p, d) \ {b} /\ b \in Counted(p, d)
    BY <1>8, <1>9, <1>10, <1>11, <1>14
  <2>2. /\ Stakes(Counted(p, d))' = Stakes(Counted(p, d)) - a0
        /\ Cardinality(Counted(p, d))' = Cardinality(Counted(p, d)) - 1
    BY <1>3, <2>1, PoolLoses
  <2> QED BY <1>5, <1>6, <1>7, <1>12, <1>14, <2>2
<1>15. CASE ~ from /\ into
  <2>1. b \notin Counted(p, d) /\ Counted(p, d)' = Counted(p, d) \cup {b}
    BY <1>8, <1>9, <1>10, <1>11, <1>15
  <2>2. /\ Stakes(Counted(p, d))' = Stakes(Counted(p, d)) + a
        /\ Cardinality(Counted(p, d))' = Cardinality(Counted(p, d)) + 1
    BY <1>1, <1>2, <1>3, <2>1, PoolGains
  <2> QED BY <1>5, <1>6, <1>7, <1>15, <2>2
<1>16. CASE ~ from /\ ~ into
  <2>1. Counted(p, d)' = Counted(p, d)
    BY <1>8, <1>9, <1>10, <1>11, <1>16
  <2>2. \A e \in Counted(p, d) : bets'[e].amount = bets[e].amount
    BY <1>3, <1>8, <1>11, <1>16
  <2> QED BY <1>5, <1>6, <1>7, <1>16, <2>1, <2>2, PoolKeeps
<1> QED BY <1>13, <1>14, <1>15, <1>16

\* cancelBet takes the stake and the count of the one bet its pool loses.
LEMMA CancellingPools ==
  ASSUME TypeOK, PoolsMatchBets, NEW b \in BetIds, Active(b),
         Cancelling(wallet, total, count, bets[b], b)
  PROVE  PoolsMatchBets'
<1> DEFINE p0 == bets[b].option
           d0 == bets[b].currency
           a0 == bets[b].amount
<1>1. /\ bets[b].status = "active" /\ bets[b] \in Bet
      /\ p0 \in Options /\ d0 \in Currencies /\ a0 \in Int
  BY BetFacts DEF Cancelling, Active
<1>2. bets'[b].status = "cancelled"
  BY <1>1 DEF TypeOK, Cancelling, Bet
<1>3. \A e \in BetIds \ {b} : bets'[e] = bets[e]
  BY DEF TypeOK, Cancelling
<1> SUFFICES ASSUME NEW p \in Options, NEW d \in Currencies
             PROVE  /\ total'[p][d] = Stakes(Counted(p, d))'
                    /\ count'[p][d] = Cardinality(Counted(p, d))'
  BY DEF PoolsMatchBets
<1>4. /\ total[p][d] = Stakes(Counted(p, d))
      /\ count[p][d] = Cardinality(Counted(p, d))
  BY DEF PoolsMatchBets
<1>5. CASE p = p0 /\ d = d0
  <2>1. b \in Counted(p, d) /\ Counted(p, d)' = Counted(p, d) \ {b}
    BY <1>1, <1>2, <1>3, <1>5 DEF Counted
  <2>2. /\ Stakes(Counted(p, d))' = Stakes(Counted(p, d)) - a0
        /\ Cardinality(Counted(p, d))' = Cardinality(Counted(p, d)) - 1
    BY <1>3, <2>1, PoolLoses
  <2>3. total'[p][d] = total[p][d] - a0 /\ count'[p][d] = count[p][d] - 1
    BY <1>1, <1>5 DEF Cancelling, Unstaked, TypeOK, PoolTable
  <2> QED BY <1>4, <2>2, <2>3
<1>6. CASE ~ (p = p0 /\ d = d0)
  <2>1. Counted(p, d)' = Counted(p, d)
    BY <1>1, <1>2, <1>3, <1>6 DEF Counted
  <2>2. \A e \in Counted(p, d) : bets'[e].amount = bets[e].amount
    BY <1>1, <1>3, <1>6 DEF Counted
  <2>3. total'[p][d] = total[p][d] /\ count'[p][d] = count[p][d]
    BY <1>1, <1>6 DEF Cancelling, Unstaked, TypeOK, PoolTable
  <2> QED BY <1>4, <2>1, <2>2, <2>3, PoolKeeps
<1> QED BY <1>5, <1>6

\* A settled bet keeps its columns but for its status and payout.
LEMMA SettledBetFacts ==
  ASSUME TypeOK, PoolsMatchBets, NEW o \in Options, NEW short,
         NEW b \in ActiveIn(RoundOf[o])
  PROVE  LET s == SettledBet(bets, total, b, o, short) IN
         /\ s \in Bet /\ s.status \in {"won", "lost", "refunded"}
         /\ s.status = "won" => s.option = o
         /\ s.status = "lost" => s.option # o
         /\ s.user = bets[b].user /\ s.option = bets[b].option
         /\ s.round = bets[b].round /\ s.currency = bets[b].currency
         /\ s.amount = bets[b].amount
<1> DEFINE c == bets[b].currency
<1>1. b \in BetIds /\ bets[b].status = "active" /\ bets[b] \in Bet /\ c \in Currencies
  BY BetFacts DEF ActiveIn, ActiveRows, Active
<1>2. CASE ~ Contested(bets, o, c)
  <2> DEFINE zero == 0
  <2>1. SettledBet(bets, total, b, o, short) = [bets[b] EXCEPT !.status = "refunded", !.payout = zero]
    BY <1>2 DEF SettledBet
  <2>2. zero \in Int
    OBVIOUS
  <2> HIDE DEF c, zero
  <2> QED BY <2>2, <1>1, <2>1 DEF Bet, BetStatus
<1>3. CASE Contested(bets, o, c) /\ bets[b].option = o
  <2>1. Payout(bets, total, b, o, short) \in Int
    <3>1. b \in Counted(o, c)
      BY <1>1, <1>3 DEF Counted
    <3>2. total[o][c] \in Nat \ {0} /\ bets[b].amount \in Nat
      BY <1>1, <3>1, StakeInPool
    <3>3. Pot(bets, o, c) \in Nat
      <4>1. Side(bets, o, c, Options) \in SUBSET BetIds
        BY DEF Side, ActiveIn, ActiveRows
      <4>2. \A e \in Side(bets, o, c, Options) : bets[e].status # "none"
        BY DEF Side, ActiveIn, ActiveRows, Active
      <4> QED BY <4>1, <4>2, StakesType DEF Pot, Stakes
    <3>4. Share(c, bets[b].amount, total[o][c], Pot(bets, o, c)) \in Int
      BY <1>1, <3>2, <3>3, ShareType
    <3> QED BY <3>4 DEF Payout
  <2>2. SettledBet(bets, total, b, o, short)
          = [bets[b] EXCEPT !.status = "won", !.payout = Payout(bets, total, b, o, short)]
    BY <1>3 DEF SettledBet
  <2> HIDE DEF c
  <2> QED BY <1>1, <1>3, <2>1, <2>2 DEF Bet, BetStatus
<1>4. CASE Contested(bets, o, c) /\ bets[b].option # o
  <2> DEFINE zero == 0
  <2>1. SettledBet(bets, total, b, o, short) = [bets[b] EXCEPT !.status = "lost", !.payout = zero]
    BY <1>4 DEF SettledBet
  <2>2. zero \in Int
    OBVIOUS
  <2> HIDE DEF c, zero
  <2> QED BY <2>2, <1>1, <1>4, <2>1 DEF Bet, BetStatus
<1> QED BY <1>2, <1>3, <1>4

\* declareWinner changes results and payouts, not what a pool counts.
LEMMA SettlingPools ==
  ASSUME TypeOK, PoolsMatchBets, NEW o \in Options,
         Settling(wallet, o, bets, total, bets), count' = count
  PROVE  PoolsMatchBets'
<1>1. PICK short \in SUBSET Roundable(bets, total, o) :
        bets' = [b \in BetIds |-> IF b \in ActiveIn(RoundOf[o])
                                    THEN SettledBet(bets, total, b, o, short) ELSE bets[b]]
  BY DEF Settling, ActiveIn
<1>2. \A b \in BetIds :
        /\ bets'[b].status \notin {"none", "cancelled"}
             <=> bets[b].status \notin {"none", "cancelled"}
        /\ bets[b].status # "none" =>
             /\ bets'[b].option = bets[b].option
             /\ bets'[b].currency = bets[b].currency
             /\ bets'[b].amount = bets[b].amount
  <2> SUFFICES ASSUME NEW b \in BetIds
               PROVE  /\ bets'[b].status \notin {"none", "cancelled"}
                            <=> bets[b].status \notin {"none", "cancelled"}
                      /\ bets[b].status # "none" =>
                            /\ bets'[b].option = bets[b].option
                            /\ bets'[b].currency = bets[b].currency
                            /\ bets'[b].amount = bets[b].amount
    OBVIOUS
  <2>1. CASE b \in ActiveIn(RoundOf[o])
    <3>1. bets'[b] = SettledBet(bets, total, b, o, short) /\ bets[b].status = "active"
      BY <1>1, <2>1 DEF ActiveIn, ActiveRows, Active
    <3> QED BY <2>1, <3>1, SettledBetFacts
  <2>2. CASE b \notin ActiveIn(RoundOf[o])
    BY <1>1, <2>2
  <2> QED BY <2>1, <2>2
<1>3. ASSUME NEW p \in Options, NEW d \in Currencies
      PROVE  /\ Counted(p, d)' = Counted(p, d)
             /\ \A e \in Counted(p, d) : bets'[e].amount = bets[e].amount
  BY <1>2 DEF Counted
<1>4. total' = total /\ count' = count
  BY DEF Settling, pools
<1>5. ASSUME NEW p \in Options, NEW d \in Currencies
      PROVE  /\ total'[p][d] = Stakes(Counted(p, d))'
             /\ count'[p][d] = Cardinality(Counted(p, d))'
  <2>1. /\ total[p][d] = Stakes(Counted(p, d))
        /\ count[p][d] = Cardinality(Counted(p, d))
    BY DEF PoolsMatchBets
  <2> QED BY <1>3, <1>4, <2>1, PoolKeeps
<1> QED BY <1>5 DEF PoolsMatchBets

\* declareWinner keeps the types; the wallets fit because Payable bounds them.
LEMMA DeclaringType ==
  ASSUME TypeOK, PoolsMatchBets, NEW o \in Options,
         Settling(wallet, o, bets, total, bets), count' = count
  PROVE  TypeOK'
<1>1. PICK short \in SUBSET Roundable(bets, total, o) :
        /\ bets' = [b \in BetIds |-> IF b \in ActiveIn(RoundOf[o])
                                      THEN SettledBet(bets, total, b, o, short) ELSE bets[b]]
        /\ wallet' = [u \in Users |-> [c \in Currencies |->
                        wallet[u][c] + CreditsOf(bets, total, u, c, o, short)]]
  BY DEF Settling, WalletsSettled, ActiveIn
<1>2. bets' \in [BetIds -> Bet \cup {NoBet}]
  BY <1>1, SettledBetFacts DEF TypeOK
<1>3. wallet' \in WalletTable
  <2>1. \A u \in Users, c \in Currencies : wallet'[u][c] \in Int
    BY LedgerMaxAssumption DEF Settling, Payable, TypeOK, WalletTable
  <2> QED BY <1>1, <2>1 DEF WalletTable
<1>4. /\ roundStatus' \in [Rounds -> RoundStatus]
      /\ optionStatus' \in [Options -> OptionStatus]
      /\ winning' \in [Options -> BOOLEAN]
  BY RoundOfAssumption DEF TypeOK, Settling, RoundStatus, OptionStatus
<1> QED BY <1>2, <1>3, <1>4 DEF TypeOK, Settling, pools

\* The active bets on an option are part of its pool.
LEMMA CarriedFacts ==
  ASSUME TypeOK, NEW o \in Options, NEW c \in Currencies
  PROVE  /\ CarriedBy(o, c) \in SUBSET Counted(o, c)
         /\ IsFiniteSet(CarriedBy(o, c))
         /\ Stakes(CarriedBy(o, c)) \in Nat
         /\ Cardinality(CarriedBy(o, c)) \in Nat
<1>1. CarriedBy(o, c) \in SUBSET Counted(o, c)
  BY DEF CarriedBy, Counted, Active
<1>2. /\ CarriedBy(o, c) \in SUBSET BetIds
      /\ \A b \in CarriedBy(o, c) : bets[b].status # "none"
  BY DEF CarriedBy, Active
<1> QED BY <1>1, <1>2, StakesType, FS_CardinalityType

\* What cancelling a round does to a bet.
LEMMA CancelRoundBets ==
  ASSUME TypeOK, NEW r \in Rounds, CancelRound(r), NEW b \in BetIds
  PROVE  LET gone == Active(b) /\ RoundOf[bets[b].option] = r IN
         /\ gone => bets'[b] = [bets[b] EXCEPT !.status = "cancelled"]
         /\ ~ gone => bets'[b] = bets[b]
<1>1. CASE Active(b)
  <2>1. bets[b].option \in Options
    BY <1>1, BetFacts DEF Active
  <2> QED BY <1>1, <2>1 DEF CancelRound
<1>2. CASE ~ Active(b)
  BY <1>2 DEF CancelRound
<1> QED BY <1>1, <1>2

\* cancelRoundAndRefund keeps the types.
LEMMA CancelRoundType ==
  ASSUME TypeOK, NEW r \in Rounds, CancelRound(r)
  PROVE  TypeOK'
<1>1. \A o \in Options, c \in Currencies :
        /\ total[o][c] \in Int /\ Stakes(CarriedBy(o, c)) \in Int
        /\ count[o][c] \in Int /\ Cardinality(CarriedBy(o, c)) \in Int
  BY CarriedFacts DEF TypeOK, PoolTable
<1>2. total' \in PoolTable /\ count' \in PoolTable
  BY <1>1 DEF CancelRound, PoolTable
<1>3. wallet' \in WalletTable
  <2>1. \A u \in Users, c \in Currencies : wallet'[u][c] \in Int
    <3>1. Payable(wallet') /\ \A u \in Users, c \in Currencies : wallet[u][c] \in Int
      BY DEF CancelRound, TypeOK, WalletTable
    <3> QED BY <3>1, LedgerMaxAssumption DEF Payable
  <2>2. wallet' = [u \in Users |-> [c \in Currencies |-> wallet'[u][c]]]
    BY DEF CancelRound
  <2> QED BY <2>1, <2>2 DEF WalletTable
<1>4. bets' \in [BetIds -> Bet \cup {NoBet}]
  <2>1. ASSUME NEW b \in BetIds PROVE bets'[b] \in Bet \cup {NoBet}
    <3>1. CASE Active(b) /\ RoundOf[bets[b].option] = r
      <4>1. bets[b] \in Bet /\ bets'[b] = [bets[b] EXCEPT !.status = "cancelled"]
        BY <3>1, BetFacts, CancelRoundBets DEF Active
      <4> QED BY <4>1 DEF Bet, BetStatus
    <3>2. CASE ~ (Active(b) /\ RoundOf[bets[b].option] = r)
      BY <3>2, CancelRoundBets DEF TypeOK
    <3> QED BY <3>1, <3>2
  <2>2. bets' = [b \in BetIds |-> bets'[b]]
    BY DEF CancelRound
  <2> QED BY <2>1, <2>2
<1>5. /\ roundStatus' \in [Rounds -> RoundStatus]
      /\ optionStatus' \in [Options -> OptionStatus]
  BY DEF TypeOK, CancelRound, RoundStatus, OptionStatus
<1> QED BY <1>2, <1>3, <1>4, <1>5 DEF TypeOK, CancelRound

\* cancelRoundAndRefund takes out of every pool of the round its active bets.
LEMMA CancelRoundPools ==
  ASSUME TypeOK, PoolsMatchBets, NEW r \in Rounds, CancelRound(r)
  PROVE  PoolsMatchBets'
<1> SUFFICES ASSUME NEW p \in Options, NEW d \in Currencies
             PROVE  /\ total'[p][d] = Stakes(Counted(p, d))'
                    /\ count'[p][d] = Cardinality(Counted(p, d))'
  BY DEF PoolsMatchBets
<1>1. /\ total[p][d] = Stakes(Counted(p, d))
      /\ count[p][d] = Cardinality(Counted(p, d))
  BY DEF PoolsMatchBets
<1>2. \A b \in BetIds : LET gone == Active(b) /\ RoundOf[bets[b].option] = r IN
        /\ gone => /\ bets'[b].status = "cancelled"
                   /\ bets'[b].amount = bets[b].amount
        /\ ~ gone => bets'[b] = bets[b]
  <2>1. ASSUME NEW b \in BetIds, Active(b), RoundOf[bets[b].option] = r
        PROVE  bets'[b].status = "cancelled" /\ bets'[b].amount = bets[b].amount
    <3>1. bets[b] \in Bet /\ bets'[b] = [bets[b] EXCEPT !.status = "cancelled"]
      BY <2>1, BetFacts, CancelRoundBets DEF Active
    <3> QED BY <3>1 DEF Bet
  <2> QED BY <2>1, CancelRoundBets
<1>3. CASE RoundOf[p] = r
  <2> DEFINE f == [e \in BetIds |-> bets[e].amount]
             g == [e \in BetIds |-> bets'[e].amount]
             S == Counted(p, d)
             T == CarriedBy(p, d)
  <2>1. Counted(p, d)' = S \ T
    BY <1>2, <1>3 DEF Counted, CarriedBy, Active
  <2>2. /\ S \in SUBSET BetIds /\ IsFiniteSet(S) /\ T \in SUBSET S /\ IsFiniteSet(T)
        /\ \A e \in S : f[e] \in Int
    BY CountedFacts, CarriedFacts
  <2>3. \A e \in S \ T : g[e] = f[e]
    BY <1>2, <2>2
  <2>4. SumFunctionOnSet(g, S \ T) = SumFunctionOnSet(f, S) - SumFunctionOnSet(f, T)
    <3> HIDE DEF f, g, S, T
    <3>1. IsFiniteSet(S \ T) /\ \A e \in S \ T : f[e] \in Int
      BY <2>2, FS_Difference
    <3>2. SumFunctionOnSet(f, S \ T) = SumFunctionOnSet(g, S \ T)
      BY <2>3, <3>1, SumCongruence
    <3>3. SumFunctionOnSet(f, S) = SumFunctionOnSet(f, T) + SumFunctionOnSet(f, S \ T)
      BY <2>2, SumSplit
    <3>4. SumFunctionOnSet(f, T) \in Int /\ SumFunctionOnSet(f, S \ T) \in Int
      BY <2>2, <3>1, SumType
    <3> QED BY <3>2, <3>3, <3>4
  <2>5. Cardinality(S \ T) = Cardinality(S) - Cardinality(T)
    <3>1. S \cap T = T
      BY <2>2
    <3> HIDE DEF S, T
    <3> QED BY <2>2, <3>1, FS_Difference, ZenonT(40)
  <2>6. /\ total'[p][d] = total[p][d] - Stakes(T)
        /\ count'[p][d] = count[p][d] - Cardinality(T)
    BY <1>3 DEF CancelRound
  <2> QED BY <1>1, <2>1, <2>4, <2>5, <2>6 DEF Stakes, StakesOf, SumOf
<1>4. CASE RoundOf[p] # r
  <2>1. Counted(p, d)' = Counted(p, d)
    BY <1>2, <1>4 DEF Counted, Active
  <2>2. \A e \in Counted(p, d) : bets'[e].amount = bets[e].amount
    BY <1>2 DEF Counted
  <2>3. total'[p][d] = total[p][d] /\ count'[p][d] = count[p][d]
    BY <1>4 DEF CancelRound
  <2> QED BY <1>1, <2>1, <2>2, <2>3, PoolKeeps
<1> QED BY <1>3, <1>4

----------------------------------------------------------------------------
(***************************************************************************)
(* The inductive invariant.  Settling divides by the pool of the winning   *)
(* option, so the types need PoolsMatchBets; cancelling a round and        *)
(* declaring its winner look for its bets along different columns, so what *)
(* they leave behind needs NoStrandedBet.                                  *)
(***************************************************************************)
IInv == TypeOK /\ NoStrandedBet /\ PoolsMatchBets /\ ResultsAgree

\* Nothing is staked at the start.
LEMMA InitIInv == Init => IInv
<1> SUFFICES ASSUME Init PROVE IInv
  OBVIOUS
<1>1. TypeOK
  <2>1. OpeningBalance \in [Currencies -> Int]
    BY OpeningAssumption
  <2>2. wallet \in WalletTable
    BY <2>1 DEF Init, WalletTable
  <2>3. total \in PoolTable /\ count \in PoolTable
    BY DEF Init, PoolTable
  <2>4. bets \in [BetIds -> Bet \cup {NoBet}]
    BY DEF Init
  <2> QED BY <2>2, <2>3, <2>4 DEF Init, TypeOK, RoundStatus, OptionStatus
<1>2. \A b \in BetIds : bets[b] = NoBet /\ bets[b].status = "none"
  BY DEF Init, NoBet
<1>3. NoStrandedBet
  BY <1>2 DEF NoStrandedBet
<1>4. PoolsMatchBets
  <2>1. \A o \in Options, c \in Currencies : Counted(o, c) = {}
    BY <1>2 DEF Counted
  <2> QED BY <2>1, SumEmpty, FS_EmptySet DEF Init, PoolsMatchBets, Stakes, StakesOf, SumOf
<1>5. ResultsAgree
  BY <1>2 DEF Init, ResultsAgree
<1> QED BY <1>1, <1>3, <1>4, <1>5 DEF IInv

\* Handlers that touch neither bets nor pools nor results.
LEMMA StatusStep ==
  ASSUME IInv,
         \/ \E r \in Rounds : OpenRound(r) \/ LockRound(r)
         \/ \E o \in Options : LockOption(o)
         \/ EndStream \/ UpdateStreamStatus
         \/ UNCHANGED vars
  PROVE  IInv'
<1>1. bets' = bets /\ winning' = winning /\ total' = total /\ count' = count
  BY DEF OpenRound, LockRound, LockOption, EndStream, UpdateStreamStatus, options,
         pools, vars
<1>2. TypeOK'
  BY DEF IInv, TypeOK, OpenRound, LockRound, LockOption, EndStream, UpdateStreamStatus,
         options, pools, vars, RoundStatus, OptionStatus
<1>3. \A r \in Rounds :
        /\ roundStatus[r] \in {"open", "locked"} => roundStatus'[r] \in {"open", "locked"}
        /\ roundStatus[r] \in {"closed", "cancelled"} => roundStatus'[r] = roundStatus[r]
        /\ roundStatus'[r] = "closed" => roundStatus[r] = "closed"
  BY DEF IInv, TypeOK, OpenRound, LockRound, LockOption, EndStream, UpdateStreamStatus,
         vars
<1>4. \A b \in BetIds : bets[b].status # "none" => bets[b].round \in Rounds
  BY BetFacts DEF IInv
<1>5. \A b \in BetIds : bets[b] # NoBet => bets[b].round \in Rounds
  BY DEF IInv, TypeOK, Bet
<1>6. NoStrandedBet'
  BY <1>1, <1>3, <1>5 DEF IInv, NoStrandedBet, Active
<1>7. ResultsAgree'
  BY <1>1, <1>3, <1>4, RoundOfAssumption DEF IInv, ResultsAgree
<1>8. PoolsMatchBets'
  BY <1>1, SMTT(30) DEF IInv, PoolsMatchBets, Counted, Stakes, StakesOf
<1> QED BY <1>2, <1>6, <1>7, <1>8 DEF IInv

\* Placing, editing or cancelling a bet leaves results alone, and only an
\* active bet of an open round enters a pool.
LEMMA BetStep ==
  ASSUME IInv, NEW b \in BetIds,
         \/ \E u \in Users, o \in Options, c \in Currencies, a \in Amounts :
              PlaceBet(u, o, c, a, b)
         \/ \E o \in Options, c \in Currencies, a \in Amounts : EditBet(b, o, c, a)
         \/ CancelBet(b)
  PROVE  IInv'
<1>1. roundStatus' = roundStatus /\ winning' = winning
  BY DEF PlaceBet, Placing, EditBet, Editing, CancelBet, Cancelling, options
<1>2. TypeOK'
  <2>1. ASSUME NEW u \in Users, NEW o \in Options, NEW c \in Currencies,
               NEW a \in Amounts, PlaceBet(u, o, c, a, b)
        PROVE  TypeOK'
    BY <2>1, PlacingType DEF PlaceBet, IInv
  <2>2. ASSUME NEW o \in Options, NEW c \in Currencies, NEW a \in Amounts,
               EditBet(b, o, c, a)
        PROVE  TypeOK'
    BY <2>2, BetFacts, EditingType DEF EditBet, Active, IInv
  <2>3. ASSUME CancelBet(b) PROVE TypeOK'
    BY <2>3, BetFacts, CancellingType DEF CancelBet, Active, IInv
  <2> QED BY <2>1, <2>2, <2>3
<1>3. PoolsMatchBets'
  <2>1. ASSUME NEW u \in Users, NEW o \in Options, NEW c \in Currencies,
               NEW a \in Amounts, PlaceBet(u, o, c, a, b)
        PROVE  PoolsMatchBets'
    BY <2>1, PlacingPools DEF PlaceBet, IInv
  <2>2. ASSUME NEW o \in Options, NEW c \in Currencies, NEW a \in Amounts,
               EditBet(b, o, c, a)
        PROVE  PoolsMatchBets'
    BY <2>2, EditingPools DEF EditBet, IInv
  <2>3. ASSUME CancelBet(b) PROVE PoolsMatchBets'
    BY <2>3, CancellingPools DEF CancelBet, IInv
  <2> QED BY <2>1, <2>2, <2>3
<1>4. \A e \in BetIds \ {b} : bets'[e] = bets[e]
  BY ZenonT(40) DEF PlaceBet, Placing, EditBet, Editing, CancelBet, Cancelling, IInv, TypeOK
<1> DEFINE Sound ==
             /\ bets'[b].status \in {"active", "cancelled"}
             /\ bets'[b].round = RoundOf[bets'[b].option]
             /\ bets'[b].status = "active" =>
                  roundStatus[bets'[b].round] \in {"open", "locked"}
<1>5. Sound
  <2>1. ASSUME NEW u \in Users, NEW o \in Options, NEW c \in Currencies,
               NEW a \in Amounts, PlaceBet(u, o, c, a, b)
        PROVE  Sound
    BY <2>1 DEF PlaceBet, Placing, NewBet, BettingOn, IInv, TypeOK
  <2>2. ASSUME NEW o \in Options, NEW c \in Currencies, NEW a \in Amounts,
               EditBet(b, o, c, a)
        PROVE  Sound
    <3>1. /\ bets[b] \in Bet /\ bets[b].status = "active"
          /\ bets'[b] = [bets[b] EXCEPT !.option = o, !.round = RoundOf[o],
                                        !.currency = c, !.amount = a]
      BY <2>2, BetFacts DEF EditBet, Editing, Active, IInv, TypeOK
    <3>2. roundStatus[RoundOf[o]] = "open"
      BY <2>2 DEF EditBet, Editing, BettingOn
    <3> QED BY <3>1, <3>2 DEF Bet
  <2>3. ASSUME CancelBet(b) PROVE Sound
    <3>1. /\ bets[b] \in Bet /\ bets[b] # NoBet
          /\ bets'[b] = [bets[b] EXCEPT !.status = "cancelled"]
      BY <2>3, BetFacts DEF CancelBet, Cancelling, Active, IInv, TypeOK, NoBet
    <3>2. bets[b].round = RoundOf[bets[b].option]
      BY <3>1 DEF IInv, NoStrandedBet
    <3> QED BY <3>1, <3>2 DEF Bet
  <2> QED BY <2>1, <2>2, <2>3
<1>6. NoStrandedBet'
  BY <1>1, <1>4, <1>5 DEF IInv, NoStrandedBet, Active
<1>7. ResultsAgree'
  BY <1>1, <1>4, <1>5 DEF IInv, ResultsAgree
<1> QED BY <1>2, <1>3, <1>6, <1>7 DEF IInv

\* A locked round gets its winner and all its active bets their result.
LEMMA DeclareWinnerStep ==
  ASSUME IInv, NEW o \in Options, DeclareWinner(o)
  PROVE  IInv'
<1> DEFINE r == RoundOf[o]
<1>1. TypeOK' /\ PoolsMatchBets'
  BY DeclaringType, SettlingPools DEF DeclareWinner, IInv
<1>2. /\ r \in Rounds /\ roundStatus[r] = "locked"
      /\ roundStatus' = [roundStatus EXCEPT ![r] = "closed"]
      /\ winning' = [winning EXCEPT ![o] = TRUE]
  BY RoundOfAssumption DEF DeclareWinner, Settling
<1>3. PICK short \in SUBSET Roundable(bets, total, o) :
        bets' = [b \in BetIds |-> IF b \in ActiveIn(r)
                                    THEN SettledBet(bets, total, b, o, short) ELSE bets[b]]
  BY DEF DeclareWinner, Settling, ActiveIn
<1>4. \A b \in ActiveIn(r) :
        /\ bets'[b].status \in {"won", "lost", "refunded"}
        /\ bets'[b].status = "won" => bets'[b].option = o
        /\ bets'[b].status = "lost" => bets'[b].option # o
        /\ bets'[b].option = bets[b].option /\ bets'[b].round = bets[b].round
        /\ bets[b].round = r /\ bets[b] # NoBet /\ b \in BetIds
  BY <1>3, SettledBetFacts DEF IInv, ActiveIn, ActiveRows, Active, NoBet
<1>5. \A b \in BetIds : b \notin ActiveIn(r) => bets'[b] = bets[b]
  BY <1>3
<1>6. \A b \in BetIds : bets[b] # NoBet =>
        bets[b].round \in Rounds /\ bets[b].option \in Options
        /\ bets[b].round = RoundOf[bets[b].option]
  BY DEF IInv, TypeOK, Bet, NoStrandedBet
<1>7. NoStrandedBet'
  <2> SUFFICES ASSUME NEW b \in BetIds, bets'[b] # NoBet
               PROVE  /\ bets'[b].round = RoundOf[bets'[b].option]
                      /\ bets'[b].status = "active" =>
                           roundStatus'[bets'[b].round] \in {"open", "locked"}
    BY DEF NoStrandedBet, Active
  <2>1. CASE b \in ActiveIn(r)
    BY <1>4, <1>6, <2>1
  <2>2. CASE b \notin ActiveIn(r)
    <3>1. bets'[b] = bets[b]
      BY <1>5, <2>2
    <3>2. bets[b].status = "active" => bets[b].round # r
      BY <2>2 DEF ActiveIn, ActiveRows, Active
    <3> QED BY <1>2, <1>6, <3>1, <3>2 DEF IInv, NoStrandedBet, Active, TypeOK
  <2> QED BY <2>1, <2>2
<1>8. \A p \in Options : winning[p] => RoundOf[p] # r
  BY <1>2 DEF IInv, ResultsAgree
<1>9. \A p \in Options : winning'[p] <=> winning[p] \/ p = o
  BY <1>2 DEF IInv, TypeOK
<1>10. \A q \in Rounds : /\ q = r => roundStatus'[q] = "closed"
                         /\ q # r => roundStatus'[q] = roundStatus[q]
  BY <1>2 DEF IInv, TypeOK
<1>11. ResultsAgree'
  <2>1. \A p, q \in Options :
          RoundOf[p] = RoundOf[q] /\ winning'[p] /\ winning'[q] => p = q
    BY <1>8, <1>9 DEF IInv, ResultsAgree
  <2>2. \A p \in Options :
          winning'[p] => roundStatus'[RoundOf[p]] \in {"closed", "cancelled"}
    BY <1>8, <1>9, <1>10, RoundOfAssumption DEF IInv, ResultsAgree
  <2>3. \A q \in Rounds : roundStatus'[q] = "closed" =>
          \E p \in Options : RoundOf[p] = q /\ winning'[p]
    BY <1>9, <1>10 DEF IInv, ResultsAgree
  <2>4. ASSUME NEW b \in BetIds
        PROVE  /\ bets'[b].status \in {"won", "lost", "refunded"} =>
                    roundStatus'[bets'[b].round] \in {"closed", "cancelled"}
               /\ bets'[b].status = "won" => winning'[bets'[b].option]
               /\ bets'[b].status = "lost" => ~ winning'[bets'[b].option]
    <3>1. CASE b \in ActiveIn(r)
      BY <1>2, <1>4, <1>6, <1>8, <1>9, <1>10, <3>1
    <3>2. CASE b \notin ActiveIn(r)
      <4>1. bets'[b] = bets[b]
        BY <1>5, <3>2
      <4>2. bets[b].status \in {"won", "lost", "refunded"} =>
              /\ bets[b] # NoBet /\ bets[b].round # r
              /\ roundStatus[bets[b].round] \in {"closed", "cancelled"}
        BY <1>2 DEF IInv, ResultsAgree, NoBet
      <4>3. bets[b].status \in {"won", "lost", "refunded"} =>
              /\ bets[b].round \in Rounds /\ bets[b].option \in Options
              /\ bets[b].option # o
        BY <1>6, <4>2
      <4>4. /\ bets[b].status = "won" => winning[bets[b].option]
            /\ bets[b].status = "lost" => ~ winning[bets[b].option]
        BY DEF IInv, ResultsAgree
      <4> QED BY <1>9, <1>10, <4>1, <4>2, <4>3, <4>4
    <3> QED BY <3>1, <3>2
  <2> QED BY <2>1, <2>2, <2>3, <2>4 DEF ResultsAgree
<1> QED BY <1>1, <1>7, <1>11 DEF IInv

\* A cancelled round is left without active bets.
LEMMA CancelRoundStep ==
  ASSUME IInv, NEW r \in Rounds, CancelRound(r)
  PROVE  IInv'
<1>1. TypeOK' /\ PoolsMatchBets'
  BY CancelRoundType, CancelRoundPools DEF IInv
<1>2. /\ roundStatus' = [roundStatus EXCEPT ![r] = "cancelled"]
      /\ winning' = winning
  BY DEF CancelRound
<1>3. \A q \in Rounds : /\ q = r => roundStatus'[q] = "cancelled"
                        /\ q # r => roundStatus'[q] = roundStatus[q]
  BY <1>2 DEF IInv, TypeOK
<1>4. \A b \in BetIds : bets[b] # NoBet =>
        bets[b].round \in Rounds /\ bets[b].round = RoundOf[bets[b].option]
  BY DEF IInv, TypeOK, Bet, NoStrandedBet
<1>5. ASSUME NEW b \in BetIds, Active(b), RoundOf[bets[b].option] = r
      PROVE  /\ bets'[b].status = "cancelled"
             /\ bets'[b].round = bets[b].round /\ bets'[b].option = bets[b].option
             /\ bets[b] # NoBet
  <2>1. bets[b] \in Bet /\ bets'[b] = [bets[b] EXCEPT !.status = "cancelled"]
    BY <1>5, BetFacts, CancelRoundBets DEF Active, IInv
  <2> QED BY <1>5, <2>1 DEF Bet, Active, NoBet
<1>6. ASSUME NEW b \in BetIds, ~ (Active(b) /\ RoundOf[bets[b].option] = r)
      PROVE  bets'[b] = bets[b]
  BY <1>6, CancelRoundBets DEF IInv
<1>7. NoStrandedBet'
  <2> SUFFICES ASSUME NEW b \in BetIds, bets'[b] # NoBet
               PROVE  /\ bets'[b].round = RoundOf[bets'[b].option]
                      /\ bets'[b].status = "active" =>
                           roundStatus'[bets'[b].round] \in {"open", "locked"}
    BY DEF NoStrandedBet, Active
  <2>1. CASE Active(b) /\ RoundOf[bets[b].option] = r
    BY <1>4, <1>5, <2>1
  <2>2. CASE ~ (Active(b) /\ RoundOf[bets[b].option] = r)
    BY <1>3, <1>4, <1>6, <2>2 DEF IInv, NoStrandedBet, Active
  <2> QED BY <2>1, <2>2
<1>8. ResultsAgree'
  <2>1. ASSUME NEW b \in BetIds
        PROVE  /\ bets'[b].status \in {"won", "lost", "refunded"} =>
                    roundStatus'[bets'[b].round] \in {"closed", "cancelled"}
               /\ bets'[b].status = "won" => winning'[bets'[b].option]
               /\ bets'[b].status = "lost" => ~ winning'[bets'[b].option]
    <3>1. CASE Active(b) /\ RoundOf[bets[b].option] = r
      BY <1>5, <3>1
    <3>2. CASE ~ (Active(b) /\ RoundOf[bets[b].option] = r)
      <4>1. bets'[b] = bets[b]
        BY <1>6, <3>2
      <4>2. bets[b].status \in {"won", "lost", "refunded"} => bets[b].round \in Rounds
        BY <1>4 DEF NoBet
      <4> QED BY <1>2, <1>3, <4>1, <4>2 DEF IInv, ResultsAgree
    <3> QED BY <3>1, <3>2
  <2> QED BY <1>2, <1>3, <2>1, RoundOfAssumption DEF IInv, ResultsAgree
<1> QED BY <1>1, <1>7, <1>8 DEF IInv

\* Every handler preserves the inductive invariant.
LEMMA NextIInv == IInv /\ [Next]_vars => IInv'
<1> SUFFICES ASSUME IInv, [Next]_vars PROVE IInv'
  OBVIOUS
<1>1. CASE \/ \E r \in Rounds : OpenRound(r) \/ LockRound(r)
           \/ \E o \in Options : LockOption(o)
           \/ EndStream \/ UpdateStreamStatus \/ UNCHANGED vars
  BY <1>1, StatusStep
<1>2. ASSUME NEW b \in BetIds,
             \/ \E u \in Users, o \in Options, c \in Currencies, a \in Amounts :
                  PlaceBet(u, o, c, a, b)
             \/ \E o \in Options, c \in Currencies, a \in Amounts : EditBet(b, o, c, a)
             \/ CancelBet(b)
      PROVE  IInv'
  BY <1>2, BetStep
<1>3. ASSUME NEW o \in Options, DeclareWinner(o) PROVE IInv'
  BY <1>3, DeclareWinnerStep
<1>4. ASSUME NEW r \in Rounds, CancelRound(r) PROVE IInv'
  BY <1>4, CancelRoundStep
<1> QED BY <1>1, <1>2, <1>3, <1>4 DEF Next

----------------------------------------------------------------------------
(***************************************************************************)
(* The theorems.                                                           *)
(***************************************************************************)

\* The inductive invariant holds in every reachable state, for any users,
\* rounds, options and stakes.
THEOREM Invariance == Spec => []IInv
BY InitIInv, NextIInv, PTL DEF Spec

\* Every row and table keeps its type, payouts included.
THEOREM TypeCorrect == Spec => []TypeOK
<1>1. IInv => TypeOK
  BY DEF IInv
<1> QED BY <1>1, Invariance, PTL

\* No bet stays active in a round that will never be settled again.
THEOREM NoBetStranded == Spec => []NoStrandedBet
<1>1. IInv => NoStrandedBet
  BY DEF IInv
<1> QED BY <1>1, Invariance, PTL

\* The totals the payouts divide by are the stakes on the option.
THEOREM PoolsCorrect == Spec => []PoolsMatchBets
<1>1. IInv => PoolsMatchBets
  BY DEF IInv
<1> QED BY <1>1, Invariance, PTL

\* Every closed round has one winner, and its bets agree with it.
THEOREM ResultsCorrect == Spec => []ResultsAgree
<1>1. IInv => ResultsAgree
  BY DEF IInv
<1> QED BY <1>1, Invariance, PTL

----------------------------------------------------------------------------
(***************************************************************************)
(* What a step may never do.  It rests on the inductive invariant: that a  *)
(* bet which is still active has its option in a round without a result is *)
(* what keeps the pools of a closed round out of reach of editBet and      *)
(* cancelBet.                                                              *)
(***************************************************************************)

\* Placing, editing and cancelling write one row, new or active.
LEMMA UserKeepsBets ==
  ASSUME TypeOK, NEW b \in BetIds,
         \/ \E u \in Users, o \in Options, c \in Currencies, a \in Amounts :
              PlaceBet(u, o, c, a, b)
         \/ \E o \in Options, c \in Currencies, a \in Amounts : EditBet(b, o, c, a)
         \/ CancelBet(b)
  PROVE  BetsKept
<1> SUFFICES ASSUME NEW e \in BetIds, bets[e].status \notin {"none", "active"}
             PROVE  bets'[e] = bets[e]
  BY DEF BetsKept
<1>1. bets[b].status \in {"none", "active"}
  BY DEF PlaceBet, Placing, EditBet, CancelBet, Active, NoBet
<1>2. e # b
  BY <1>1, SMTT(30)
<1>3. \E row : bets' = [bets EXCEPT ![b] = row]
  BY DEF PlaceBet, Placing, EditBet, Editing, CancelBet, Cancelling
<1> QED BY <1>2, <1>3 DEF TypeOK

\* declareWinner and cancelRoundAndRefund write rows of active bets only.
LEMMA RoundKeepsBets ==
  ASSUME TypeOK,
         \/ \E o \in Options : DeclareWinner(o)
         \/ \E r \in Rounds : CancelRound(r)
  PROVE  BetsKept
<1> SUFFICES ASSUME NEW e \in BetIds, bets[e].status \notin {"none", "active"}
             PROVE  bets'[e] = bets[e]
  BY DEF BetsKept
<1>1. ASSUME NEW o \in Options, DeclareWinner(o) PROVE bets'[e] = bets[e]
  <2>1. e \notin ActiveRows(bets, RoundOf[o])
    BY DEF ActiveRows
  <2> QED BY <1>1, <2>1 DEF DeclareWinner, Settling
<1>2. ASSUME NEW r \in Rounds, CancelRound(r) PROVE bets'[e] = bets[e]
  BY <1>2, CancelRoundBets DEF Active
<1> QED BY <1>1, <1>2

----------------------------------------------------------------------------
(***************************************************************************)
(* Pools.                                                                  *)
(***************************************************************************)

\* The option of an active bet is not in a closed round.
LEMMA ActiveBetAwaits ==
  ASSUME IInv, NEW b \in BetIds, Active(b)
  PROVE  /\ bets[b].option \in Options /\ bets[b].currency \in Currencies
         /\ roundStatus[RoundOf[bets[b].option]] # "closed"
<1>1. bets[b].status # "none" /\ bets[b] # NoBet
  BY DEF Active, NoBet
<1> QED BY <1>1, BetFacts DEF IInv, NoStrandedBet

\* A pool table in which other options than o were written still has o's row.
LEMMA OtherRow ==
  ASSUME NEW t \in PoolTable, NEW o \in Options,
         NEW o1 \in Options, NEW o2 \in Options, o # o1, o # o2,
         NEW c1 \in Currencies, NEW c2 \in Currencies, NEW n1, NEW n2
  PROVE  /\ Staked(t, o1, c1, n1)[o] = t[o]
         /\ Unstaked(t, o1, c1, n1)[o] = t[o]
         /\ Restaked(t, o1, c1, n1, o2, c2, n2)[o] = t[o]
         /\ Recounted(t, o1, c1, o2, c2)[o] = t[o]
<1>1. /\ Staked(t, o1, c1, n1)[o] = t[o]
      /\ Unstaked(t, o1, c1, n1)[o] = t[o]
  BY DEF Staked, Unstaked, PoolTable
<1>2. \A m1, m2 : Restaked(t, o1, c1, m1, o2, c2, m2)[o] = t[o]
  BY DEF Restaked, PoolTable
<1> QED BY <1>1, <1>2 DEF Recounted

\* placeBet asks for an open round.
LEMMA PlaceKeepsPools ==
  ASSUME IInv, NEW u \in Users, NEW o \in Options, NEW c \in Currencies,
         NEW a \in Amounts, NEW b \in BetIds, PlaceBet(u, o, c, a, b)
  PROVE  PoolsKept
<1> SUFFICES ASSUME NEW p \in Options, roundStatus[RoundOf[p]] = "closed"
             PROVE  total'[p] = total[p] /\ count'[p] = count[p]
  BY DEF PoolsKept
<1>1. p # o
  BY DEF PlaceBet, BettingOn
<1>2. total \in PoolTable /\ count \in PoolTable
  BY DEF IInv, TypeOK
<1>3. total' = Staked(total, o, c, a) /\ count' = Staked(count, o, c, 1)
  BY DEF PlaceBet, Placing
<1> QED BY <1>1, <1>2, <1>3, OtherRow

\* editBet asks for an open round of the new option only: the old option is
\* in no closed round because its bet is active.
LEMMA EditKeepsPools ==
  ASSUME IInv, NEW b \in BetIds, NEW o \in Options, NEW c \in Currencies,
         NEW a \in Amounts, EditBet(b, o, c, a)
  PROVE  PoolsKept
<1> SUFFICES ASSUME NEW p \in Options, roundStatus[RoundOf[p]] = "closed"
             PROVE  total'[p] = total[p] /\ count'[p] = count[p]
  BY DEF PoolsKept
<1> DEFINE old == bets[b]
<1>1. Active(b) /\ roundStatus[RoundOf[o]] = "open"
  BY DEF EditBet, BettingOn
<1>2. /\ old.option \in Options /\ old.currency \in Currencies
      /\ p # old.option /\ p # o
  BY <1>1, ActiveBetAwaits
<1>3. total \in PoolTable /\ count \in PoolTable
  BY DEF IInv, TypeOK
<1>4. /\ total' = Restaked(total, old.option, old.currency, old.amount, o, c, a)
      /\ count' = Recounted(count, old.option, old.currency, o, c)
  BY DEF EditBet, Editing
<1> DEFINE n == old.amount
           k == old.currency
           q == old.option
<1>5. /\ q \in Options /\ k \in Currencies /\ p # q /\ p # o
      /\ total' = Restaked(total, q, k, n, o, c, a)
      /\ count' = Recounted(count, q, k, o, c)
  BY <1>2, <1>4
<1> HIDE DEF old, n, k, q
<1>6. total'[p] = total[p]
  BY <1>3, <1>5, OtherRow
<1>7. count'[p] = count[p]
  BY <1>3, <1>5, OtherRow
<1> QED BY <1>6, <1>7

\* cancelBet takes the stake of an active bet.
LEMMA CancelKeepsPools ==
  ASSUME IInv, NEW b \in BetIds, CancelBet(b)
  PROVE  PoolsKept
<1> SUFFICES ASSUME NEW p \in Options, roundStatus[RoundOf[p]] = "closed"
             PROVE  total'[p] = total[p] /\ count'[p] = count[p]
  BY DEF PoolsKept
<1> DEFINE old == bets[b]
<1>1. Active(b)
  BY DEF CancelBet
<1>2. old.option \in Options /\ old.currency \in Currencies /\ p # old.option
  BY <1>1, ActiveBetAwaits
<1>3. total \in PoolTable /\ count \in PoolTable
  BY DEF IInv, TypeOK
<1>4. /\ total' = Unstaked(total, old.option, old.currency, old.amount)
      /\ count' = Unstaked(count, old.option, old.currency, 1)
  BY DEF CancelBet, Cancelling
<1> DEFINE n == old.amount
           one == 1
           k == old.currency
           q == old.option
<1>5. /\ q \in Options /\ k \in Currencies /\ p # q
      /\ total' = Unstaked(total, q, k, n)
      /\ count' = Unstaked(count, q, k, one)
  BY <1>2, <1>4
<1> HIDE DEF old, n, one, k, q
<1>6. total'[p] = total[p]
  BY <1>3, <1>5, OtherRow
<1>7. count'[p] = count[p]
  BY <1>3, <1>5, OtherRow
<1> QED BY <1>6, <1>7

\* cancelRoundAndRefund takes a closed round as well, and finds no bet in it.
LEMMA CancelRoundKeepsPools ==
  ASSUME IInv, NEW r \in Rounds, CancelRound(r)
  PROVE  PoolsKept
<1> SUFFICES ASSUME NEW p \in Options, roundStatus[RoundOf[p]] = "closed"
             PROVE  total'[p] = total[p] /\ count'[p] = count[p]
  BY DEF PoolsKept
<1>1. total \in PoolTable /\ count \in PoolTable
  BY DEF IInv, TypeOK
<1>2. \A d \in Currencies : CarriedBy(p, d) = {}
  BY ActiveBetAwaits DEF CarriedBy
<1>3. \A d \in Currencies : Stakes(CarriedBy(p, d)) = 0
  BY <1>2, SumEmpty DEF Stakes, StakesOf, SumOf
<1>4. \A d \in Currencies : Cardinality(CarriedBy(p, d)) = 0
  BY <1>2, FS_EmptySet
<1>5. /\ total'[p] = [d \in Currencies |->
           IF RoundOf[p] = r THEN total[p][d] - Stakes(CarriedBy(p, d)) ELSE total[p][d]]
      /\ count'[p] = [d \in Currencies |->
           IF RoundOf[p] = r THEN count[p][d] - Cardinality(CarriedBy(p, d))
                             ELSE count[p][d]]
  BY DEF CancelRound
<1>6. \A d \in Currencies : total'[p][d] = total[p][d] /\ count'[p][d] = count[p][d]
  BY <1>1, <1>3, <1>4, <1>5 DEF PoolTable
<1> QED BY <1>1, <1>5, <1>6 DEF PoolTable

----------------------------------------------------------------------------
\* No step of a handler touches a settled bet or the pools of a closed round.
LEMMA NextKeeps == IInv /\ [Next]_vars => [BetsKept /\ PoolsKept]_vars
<1> SUFFICES ASSUME IInv, Next PROVE BetsKept /\ PoolsKept
  OBVIOUS
<1> USE DEF IInv
<1>1. CASE \/ \E r \in Rounds : OpenRound(r) \/ LockRound(r)
           \/ \E o \in Options : LockOption(o)
           \/ EndStream \/ UpdateStreamStatus
  BY <1>1 DEF OpenRound, LockRound, LockOption, EndStream, UpdateStreamStatus,
              pools, BetsKept, PoolsKept
<1>2. ASSUME NEW u \in Users, NEW o \in Options, NEW c \in Currencies,
             NEW a \in Amounts, NEW b \in BetIds, PlaceBet(u, o, c, a, b)
      PROVE  BetsKept /\ PoolsKept
  BY <1>2, UserKeepsBets, PlaceKeepsPools
<1>3. ASSUME NEW b \in BetIds, NEW o \in Options, NEW c \in Currencies,
             NEW a \in Amounts, EditBet(b, o, c, a)
      PROVE  BetsKept /\ PoolsKept
  BY <1>3, UserKeepsBets, EditKeepsPools
<1>4. ASSUME NEW b \in BetIds, CancelBet(b) PROVE BetsKept /\ PoolsKept
  BY <1>4, UserKeepsBets, CancelKeepsPools
<1>5. ASSUME NEW o \in Options, DeclareWinner(o) PROVE BetsKept /\ PoolsKept
  <2>1. PoolsKept
    BY <1>5 DEF DeclareWinner, Settling, PoolsKept
  <2> QED BY <1>5, <2>1, RoundKeepsBets
<1>6. ASSUME NEW r \in Rounds, CancelRound(r) PROVE BetsKept /\ PoolsKept
  BY <1>6, RoundKeepsBets, CancelRoundKeepsPools
<1> QED BY <1>1, <1>2, <1>3, <1>4, <1>5, <1>6 DEF Next

\* A bet is settled once, and a closed round keeps the totals it was paid by.
THEOREM SettlementIsFinal == Spec => SettledStaysSettled
<1>1. IInv /\ [Next]_vars => [BetsKept /\ PoolsKept]_vars
  BY NextKeeps
<1> QED BY <1>1, Invariance, PTL DEF Spec, SettledStaysSettled

----------------------------------------------------------------------------
(***************************************************************************)
(* What declareWinner divides.  The total that the stake is divided by is  *)
(* the sum of the winning stakes (PoolsMatchBets), and a contested pot is  *)
(* larger than it.                                                         *)
(***************************************************************************)
\* In a round without a result, the bets its option counts are active.
LEMMA CountedAwaits ==
  ASSUME IInv, NEW o \in Options, NEW c \in Currencies,
         roundStatus[RoundOf[o]] = "locked"
  PROVE  Counted(o, c) = Side(bets, o, c, {o})
<1>1. ASSUME NEW b \in Counted(o, c) PROVE b \in Side(bets, o, c, {o})
  <2>1. /\ b \in BetIds /\ bets[b].status \notin {"none", "cancelled"}
        /\ bets[b].option = o /\ bets[b].currency = c /\ bets[b] # NoBet
    BY DEF Counted, NoBet
  <2>2. bets[b].round = RoundOf[o]
    BY <2>1 DEF IInv, NoStrandedBet
  <2>3. bets[b].status \in BetStatus
    BY <2>1, BetFacts DEF IInv
  <2>4. bets[b].status = "active"
    BY <2>1, <2>2, <2>3 DEF IInv, ResultsAgree, BetStatus
  <2> QED BY <2>1, <2>2, <2>4 DEF Side, ActiveRows
<1>2. ASSUME NEW b \in Side(bets, o, c, {o}) PROVE b \in Counted(o, c)
  BY DEF Side, ActiveRows, Counted
<1> QED BY <1>1, <1>2

\* A contested pot holds more than the stakes on the winning option.
LEMMA PotExceedsTotal ==
  ASSUME TypeOK, PoolsMatchBets, NEW o \in Options, NEW c \in Currencies,
         Counted(o, c) = Side(bets, o, c, {o}), Contested(bets, o, c)
  PROVE  /\ total[o][c] \in Nat \ {0} /\ Pot(bets, o, c) \in Nat
         /\ Pot(bets, o, c) > total[o][c]
<1> DEFINE f == [e \in BetIds |-> bets[e].amount]
           S == Side(bets, o, c, Options)
           T == Side(bets, o, c, {o})
           R == Side(bets, o, c, Options \ {o})
<1>1. S \in SUBSET BetIds /\ \A b \in S : bets[b].status # "none"
  BY DEF Side, ActiveRows
<1>2. IsFiniteSet(S) /\ \A b \in S : f[b] \in Nat \ {0}
  BY <1>1, StakesType
<1>3. T \in SUBSET S /\ S \ T = R /\ R # {} /\ T # {}
  BY DEF Side, Contested
<1>4. IsFiniteSet(T) /\ IsFiniteSet(R)
  BY <1>2, <1>3, FS_Subset
<1>5. /\ SumFunctionOnSet(f, S) = SumFunctionOnSet(f, T) + SumFunctionOnSet(f, R)
      /\ SumFunctionOnSet(f, T) \in Nat /\ SumFunctionOnSet(f, R) \in Nat
      /\ SumFunctionOnSet(f, R) > 0 /\ SumFunctionOnSet(f, T) > 0
  <2> HIDE DEF f, S, T, R
  <2>1. SumFunctionOnSet(f, S) = SumFunctionOnSet(f, T) + SumFunctionOnSet(f, S \ T)
    BY <1>2, <1>3, SumSplit
  <2>2. SumFunctionOnSet(f, T) \in Nat
    BY <1>2, <1>3, <1>4, SumNonNegative
  <2>3. SumFunctionOnSet(f, R) \in Nat
    BY <1>2, <1>3, <1>4, SumNonNegative
  <2>4. PICK e \in R : TRUE
    BY <1>3
  <2>5. \A b \in R : f[b] \in Nat
    BY <1>2, <1>3
  <2>6. f[e] <= SumFunctionOnSet(f, R) /\ f[e] \in Nat \ {0}
    BY <1>2, <1>3, <1>4, <2>5, SumBounds
  <2>7. PICK d \in T : TRUE
    BY <1>3
  <2>8. \A b \in T : f[b] \in Nat
    BY <1>2, <1>3
  <2>9. f[d] <= SumFunctionOnSet(f, T) /\ f[d] \in Nat \ {0}
    BY <1>2, <1>3, <1>4, <2>8, SumBounds
  <2> QED BY <1>3, <2>1, <2>2, <2>3, <2>6, <2>9
<1>6. total[o][c] = SumFunctionOnSet(f, T)
  BY DEF PoolsMatchBets, Stakes, StakesOf, SumOf
<1>7. Pot(bets, o, c) = SumFunctionOnSet(f, S)
  BY DEF Pot, StakesOf, SumOf
<1> HIDE DEF f, S, T, R
<1> QED BY <1>5, <1>6, <1>7

----------------------------------------------------------------------------
(***************************************************************************)
(* No coin is created or lost.  What the users hold is changed             *)
(* by declareWinner alone, by what a contested pot pays less its stakes:   *)
(* the other handlers move coins between a wallet and a stake.             *)
(***************************************************************************)
(***************************************************************************)
(* Sums of payouts.  Every payout is a share of the pot up to a rounding   *)
(* that does not depend on the shares; divided by their total, the         *)
(* payouts add up to the pot up to one rounding per payout.                *)
(***************************************************************************)

\* A positive factor can be cancelled.
LEMMA CancelFactor ==
  ASSUME NEW t \in Nat \ {0}, NEW x \in Int, NEW y \in Int, t * x <= t * y
  PROVE  x <= y
<1> SUFFICES ASSUME x >= y + 1 PROVE FALSE
  OBVIOUS
<1>1. PICK d \in Nat : x = y + 1 + d
  <2>1. x - y - 1 \in Nat /\ x = y + 1 + (x - y - 1)
    OBVIOUS
  <2> QED BY <2>1
<1>2. t * x = t * y + t + t * d
  BY <1>1
<1>3. t * d \in Nat /\ t * y \in Int
  BY <1>1
<1> QED BY <1>2, <1>3

\* If each payout, d times over, is k / t of its stake up to lo below and hi
\* above, the payouts together are k up to as much per payout.
LEMMA ProRata ==
  ASSUME NEW S, IsFiniteSet(S), NEW stake, NEW pay, NEW t \in Nat \ {0},
         NEW k \in Int, NEW d \in Int, NEW lo \in Int, NEW hi \in Int,
         t = SumFunctionOnSet(stake, S),
         \A b \in S : /\ stake[b] \in Int /\ pay[b] \in Int
                      /\ k * stake[b] - lo * t <= d * t * pay[b]
                      /\ d * t * pay[b] <= k * stake[b] + hi * t
  PROVE  /\ k - lo * Cardinality(S) <= d * SumFunctionOnSet(pay, S)
         /\ d * SumFunctionOnSet(pay, S) <= k + hi * Cardinality(S)
<1> DEFINE n == Cardinality(S)
           Q == SumFunctionOnSet(pay, S)
           share == [b \in S |-> k * stake[b]]
           slack(j) == [b \in S |-> j * t]
           bound(j) == [b \in S |-> k * stake[b] + j * t]
           scaled == [b \in S |-> (d * t) * pay[b]]
           low == -lo
<1>1. n \in Nat /\ Q \in Int /\ low \in Int
  BY FS_CardinalityType, SumType
<1>2. SumFunctionOnSet(share, S) = k * t
  <2>1. \A b \in S : stake[b] \in Int /\ share[b] = k * stake[b]
    OBVIOUS
  <2> HIDE DEF share
  <2>2. SumFunctionOnSet(share, S) = k * SumFunctionOnSet(stake, S)
    BY <2>1, SumScale
  <2> QED BY <2>2
<1>3. ASSUME NEW j \in Int PROVE SumFunctionOnSet(slack(j), S) = (j * t) * n
  <2> DEFINE m == j * t
  <2>1. m \in Int /\ \A b \in S : slack(j)[b] = m
    OBVIOUS
  <2> HIDE DEF slack, m
  <2>2. SumFunctionOnSet(slack(j), S) = m * n
    BY <2>1, SumConstant
  <2> QED BY <2>2 DEF m
<1>4. ASSUME NEW j \in Int PROVE SumFunctionOnSet(bound(j), S) = k * t + (j * t) * n
  <2>1. \A b \in S : /\ share[b] \in Int /\ slack(j)[b] \in Int
                     /\ bound(j)[b] = share[b] + slack(j)[b]
    OBVIOUS
  <2> HIDE DEF share, slack, bound
  <2>2. SumFunctionOnSet(bound(j), S)
          = SumFunctionOnSet(share, S) + SumFunctionOnSet(slack(j), S)
    BY <2>1, SumAdd
  <2> QED BY <1>2, <1>3, <2>2
<1>5. SumFunctionOnSet(scaled, S) = (d * t) * Q
  <2> DEFINE m == d * t
  <2>1. m \in Int /\ \A b \in S : pay[b] \in Int /\ scaled[b] = m * pay[b]
    OBVIOUS
  <2> HIDE DEF scaled, m
  <2>2. SumFunctionOnSet(scaled, S) = m * Q
    BY <2>1, SumScale
  <2> QED BY <2>2 DEF m
<1>6. /\ \A b \in S : scaled[b] \in Int /\ bound(low)[b] \in Int /\ bound(hi)[b] \in Int
      /\ \A b \in S : bound(low)[b] <= scaled[b]
      /\ \A b \in S : scaled[b] <= bound(hi)[b]
  OBVIOUS
<1>7. SumFunctionOnSet(bound(low), S) <= SumFunctionOnSet(scaled, S)
  <2> HIDE DEF bound, scaled, low
  <2> QED BY <1>6, SumMonotone
<1>8. SumFunctionOnSet(scaled, S) <= SumFunctionOnSet(bound(hi), S)
  <2> HIDE DEF bound, scaled
  <2> QED BY <1>6, SumMonotone
<1> HIDE DEF n, Q, share, slack, bound, scaled
<1>9. t * (k + low * n) <= t * (d * Q)
  <2>1. k * t + (low * t) * n = t * (k + low * n) /\ (d * t) * Q = t * (d * Q)
    BY <1>1
  <2> QED BY <1>1, <1>4, <1>5, <1>7, <2>1
<1>10. t * (d * Q) <= t * (k + hi * n)
  <2>1. k * t + (hi * t) * n = t * (k + hi * n) /\ (d * t) * Q = t * (d * Q)
    BY <1>1
  <2> QED BY <1>4, <1>5, <1>8, <2>1
<1>11. k + low * n <= d * Q
  <2>1. k + low * n \in Int /\ d * Q \in Int
    BY <1>1
  <2> QED BY <1>9, <2>1, CancelFactor
<1>12. d * Q <= k + hi * n
  <2>1. k + hi * n \in Int /\ d * Q \in Int
    BY <1>1
  <2> QED BY <1>10, <2>1, CancelFactor
<1>13. k + low * n = k - lo * n
  BY <1>1
<1> QED BY <1>11, <1>12, <1>13 DEF n, Q

\* Rounding gold down, and one coin further on a whole share, loses at most
\* one coin and gains nothing.
LEMMA GoldRounding ==
  ASSUME NEW a \in Nat, NEW t \in Nat \ {0}, NEW p \in Nat, NEW s \in {0, 1},
         s = 1 => OnBoundary(Gold, a, t, p)
  PROVE  /\ Share(Gold, a, t, p) - s \in Int
         /\ p * a - t <= t * (Share(Gold, a, t, p) - s)
         /\ t * (Share(Gold, a, t, p) - s) <= p * a
<1> DEFINE x == a * p
           q == x \div t
           m == x % t
<1>1. x \in Nat /\ x = p * a
  OBVIOUS
<1>2. q \in Nat /\ m \in Nat /\ x = q * t + m /\ m < t
  <2> HIDE DEF x
  <2> QED BY <1>1, SMT
<1>3. Share(Gold, a, t, p) = q /\ (OnBoundary(Gold, a, t, p) <=> m = 0)
  BY DEF Share, OnBoundary
<1> HIDE DEF x, q, m
<1>4. t * (q - s) = q * t - t * s
  BY <1>2
<1>5. CASE s = 0
  BY <1>1, <1>2, <1>3, <1>4, <1>5
<1>6. CASE s = 1
  BY <1>1, <1>2, <1>3, <1>4, <1>6
<1> QED BY <1>5, <1>6

\* q is 850 / t of a * p, up to half a unit.
SweepRounded(a, t, p, q) ==
  /\ q \in Int
  /\ 1700 * (p * a) - t <= 2 * (t * q)
  /\ 2 * (t * q) <= 1700 * (p * a) + t

\* Rounding 85% of a share of sweep coins, and one unit less where it is
\* half way, moves it by at most half a unit.
LEMMA SweepRounding ==
  ASSUME NEW a \in Nat, NEW t \in Nat \ {0}, NEW p \in Nat, NEW s \in {0, 1},
         s = 1 => OnBoundary(Sweep, a, t, p)
  PROVE  SweepRounded(a, t, p, Share(Sweep, a, t, p) - s)
<1> DEFINE x == 2 * a * p * 850 + t
           v == 2 * t
           q == x \div v
           m == x % v
<1>1. x \in Nat /\ x = 1700 * (p * a) + t /\ v \in Nat \ {0}
  <2>1. p * a \in Nat /\ 2 * a * p * 850 = 1700 * (p * a)
    OBVIOUS
  <2> QED BY <2>1
<1>2. q \in Nat /\ m \in Nat /\ x = q * v + m /\ m < v
  <2> HIDE DEF x, v
  <2> QED BY <1>1, SMT
<1>3. Share(Sweep, a, t, p) = q /\ (OnBoundary(Sweep, a, t, p) <=> m = 0)
  BY DEF Share, OnBoundary, Gold, Sweep
<1>4. 2 * (t * (q - s)) = q * v - v * s
  <2> HIDE DEF q, x, m
  <2>1. t * (q - s) = t * q - t * s
    BY <1>2
  <2>2. q * v = 2 * (t * q) /\ v * s = 2 * (t * s)
    BY <1>2
  <2>3. t * q \in Int /\ t * s \in Int
    BY <1>2
  <2> QED BY <2>1, <2>2, <2>3
<1>5. v = 2 * t
  OBVIOUS
<1> HIDE DEF x, q, m, v
<1>6. p * a \in Nat
  OBVIOUS
<1>7. /\ q - s \in Int
      /\ 1700 * (p * a) - t <= 2 * (t * (q - s))
      /\ 2 * (t * (q - s)) <= 1700 * (p * a) + t
  <2>1. CASE s = 0
    BY <1>1, <1>2, <1>3, <1>4, <1>5, <1>6, <2>1
  <2>2. CASE s = 1
    BY <1>1, <1>2, <1>3, <1>4, <1>5, <1>6, <2>2
  <2> QED BY <2>1, <2>2
<1> DEFINE rounded == q - s
<1>8. Share(Sweep, a, t, p) - s = rounded
  BY <1>3
<1>9. SweepRounded(a, t, p, rounded)
  BY <1>7 DEF SweepRounded
<1> HIDE DEF rounded
<1> QED BY <1>8, <1>9

\* What the bets on a contested option are paid.
Pays(o, short) == [b \in BetIds |-> Payout(bets, total, b, o, short)]

\* What the winners of a contested currency are paid together, and how many
\* they are.
PaidOf(o, c, short) ==
  LET T == Side(bets, o, c, {o})
      n == Cardinality(T)
      p == Pot(bets, o, c)
      Q == SumFunctionOnSet(Pays(o, short), T) IN
    /\ IsFiniteSet(T) /\ n \in Nat /\ p \in Nat /\ Q \in Int /\ n <= p
    /\ \A b \in T : Pays(o, short)[b] \in Int
    /\ c = Gold => p - n <= Q /\ Q <= p
    /\ c = Sweep => 1700 * p - n <= 2 * Q /\ 2 * Q <= 1700 * p + n

\* The winners of gold share the pot, those of sweep coins 85% of it, up to a
\* unit each.
LEMMA PaidOut ==
  ASSUME TypeOK, PoolsMatchBets, NEW o \in Options, NEW c \in Currencies,
         Counted(o, c) = Side(bets, o, c, {o}), Contested(bets, o, c),
         NEW short \in SUBSET Roundable(bets, total, o)
  PROVE  PaidOf(o, c, short)
<1> DEFINE T == Side(bets, o, c, {o})
           n == Cardinality(T)
           p == Pot(bets, o, c)
           t == total[o][c]
           stake == [b \in BetIds |-> bets[b].amount]
           pay == Pays(o, short)
           Q == SumFunctionOnSet(pay, T)
           s(b) == IF b \in short THEN 1 ELSE 0
<1> SUFFICES /\ IsFiniteSet(T) /\ n \in Nat /\ p \in Nat /\ Q \in Int /\ n <= p
             /\ \A b \in T : pay[b] \in Int
             /\ c = Gold => p - n <= Q /\ Q <= p
             /\ c = Sweep => 1700 * p - n <= 2 * Q /\ 2 * Q <= 1700 * p + n
  BY DEF PaidOf
<1>1. t \in Nat \ {0} /\ p \in Nat /\ p > t
  BY PotExceedsTotal
<1>2. /\ T \in SUBSET BetIds
      /\ \A b \in T : /\ b \in ActiveRows(bets, RoundOf[o]) /\ bets[b].status # "none"
                      /\ bets[b].option = o /\ bets[b].currency = c
  BY DEF Side, ActiveRows
<1>3. IsFiniteSet(T) /\ \A b \in T : stake[b] \in Nat \ {0}
  BY <1>2, StakesType
<1>4. t = SumFunctionOnSet(stake, T)
  BY DEF PoolsMatchBets, Stakes, StakesOf, SumOf
<1>5. n \in Nat
  BY <1>3, FS_CardinalityType
<1>6. n <= t
  <2> DEFINE one == 1
             ones == [b \in T |-> one]
  <2>1. \A b \in T : /\ ones[b] = one /\ ones[b] \in Int /\ stake[b] \in Int
                     /\ ones[b] <= stake[b]
    <3> HIDE DEF stake, T
    <3> QED BY <1>3
  <2>2. one \in Int /\ one * n = n
    BY <1>5
  <2> HIDE DEF one, ones, stake, T, t, n
  <2>3. SumFunctionOnSet(ones, T) <= SumFunctionOnSet(stake, T)
    BY <1>3, <2>1, SumMonotone
  <2>4. SumFunctionOnSet(ones, T) = one * Cardinality(T)
    BY <1>3, <2>1, <2>2, SumConstant
  <2> QED BY <1>4, <2>2, <2>3, <2>4 DEF n
<1>7. \A b \in T : /\ s(b) \in {0, 1} /\ pay[b] = Share(c, stake[b], t, p) - s(b)
                   /\ s(b) = 1 => OnBoundary(c, stake[b], t, p)
  <2> SUFFICES ASSUME NEW b \in T
               PROVE  /\ s(b) \in {0, 1} /\ pay[b] = Share(c, stake[b], t, p) - s(b)
                      /\ s(b) = 1 => OnBoundary(c, stake[b], t, p)
    OBVIOUS
  <2>1. b \in BetIds /\ bets[b].currency = c /\ stake[b] = bets[b].amount
    BY <1>2
  <2>2. pay[b] = Payout(bets, total, b, o, short)
    BY <2>1 DEF Pays
  <2>3. Payout(bets, total, b, o, short) = Share(c, stake[b], t, p) - s(b)
    BY <2>1 DEF Payout
  <2>4. b \in short => OnBoundary(c, stake[b], t, p)
    BY <2>1 DEF Roundable
  <2> HIDE DEF T, t, p, stake, pay
  <2> QED BY <2>2, <2>3, <2>4
<1>8. CASE c = Gold
  <2>1. \A b \in T : /\ pay[b] \in Int /\ p * stake[b] - t <= t * pay[b]
                     /\ t * pay[b] <= p * stake[b]
    <3> HIDE DEF T, t, p, stake, pay, s
    <3> TAKE b \in T
    <3> DEFINE a == stake[b]
               z == s(b)
    <3>1. /\ a \in Nat /\ z \in {0, 1} /\ pay[b] = Share(Gold, a, t, p) - z
          /\ z = 1 => OnBoundary(Gold, a, t, p)
      BY <1>3, <1>7, <1>8
    <3> HIDE DEF a, z
    <3> DEFINE q == Share(Gold, a, t, p) - z
    <3>2. q \in Int /\ p * a - t <= t * q /\ t * q <= p * a
      BY <1>1, <3>1, GoldRounding
    <3>3. pay[b] = q
      BY <3>1
    <3> HIDE DEF q
    <3> QED BY <3>2, <3>3 DEF a
  <2> DEFINE one == 1
             zero == 0
  <2>2. one \in Int /\ zero \in Int /\ p \in Int
    BY <1>1
  <2>3. \A b \in T : /\ stake[b] \in Int /\ pay[b] \in Int
                     /\ p * stake[b] - one * t <= one * t * pay[b]
                     /\ one * t * pay[b] <= p * stake[b] + zero * t
    <3> HIDE DEF T, t, p, stake, pay
    <3>1. one * t = t /\ zero * t = 0
      BY <1>1
    <3>2. \A b \in T : p * stake[b] \in Int
      BY <1>1, <1>3
    <3> QED BY <1>1, <1>3, <2>1, <3>1, <3>2
  <2>4. /\ p - one * n <= one * Q
        /\ one * Q <= p + zero * n
    <3> HIDE DEF one, zero, T, t, p, stake, pay
    <3> QED BY <1>1, <1>3, <1>4, <2>2, <2>3, ProRata
  <2>5. Q \in Int
    <3> HIDE DEF T, t, p, n, stake, pay
    <3> QED BY <1>3, <2>1, SumType
  <2>6. p - n <= Q /\ Q <= p
    <3> HIDE DEF T, n, p, Q
    <3> QED BY <1>1, <1>5, <2>4, <2>5
  <2>7. c # Sweep
    BY <1>8 DEF Gold, Sweep
  <2> HIDE DEF T, t, p, n, Q, stake, pay
  <2> QED BY <1>1, <1>2, <1>3, <1>5, <1>6, <2>1, <2>5, <2>6, <2>7
<1>9. CASE c = Sweep
  <2>1. \A b \in T : /\ pay[b] \in Int /\ 1700 * (p * stake[b]) - t <= 2 * (t * pay[b])
                     /\ 2 * (t * pay[b]) <= 1700 * (p * stake[b]) + t
    <3> HIDE DEF T, t, p, stake, pay, s
    <3> TAKE b \in T
    <3> DEFINE a == stake[b]
               z == s(b)
    <3>1. /\ a \in Nat /\ z \in {0, 1} /\ pay[b] = Share(Sweep, a, t, p) - z
          /\ z = 1 => OnBoundary(Sweep, a, t, p)
      BY <1>3, <1>7, <1>9
    <3> HIDE DEF a, z
    <3> DEFINE q == Share(Sweep, a, t, p) - z
    <3>2. SweepRounded(a, t, p, q)
      BY <1>1, <3>1, SweepRounding
    <3>3. pay[b] = q
      BY <3>1
    <3> HIDE DEF q
    <3> QED BY <3>2, <3>3 DEF SweepRounded, a
  <2> DEFINE one == 1
             two == 2
             k == 1700 * p
  <2>2. one \in Int /\ two \in Int /\ k \in Int
    BY <1>1
  <2>3. \A b \in T : /\ stake[b] \in Int /\ pay[b] \in Int
                     /\ k * stake[b] - one * t <= two * t * pay[b]
                     /\ two * t * pay[b] <= k * stake[b] + one * t
    <3> HIDE DEF T, t, p, stake, pay
    <3>1. one * t = t
      BY <1>1
    <3>2. ASSUME NEW b \in T
          PROVE  /\ k * stake[b] = 1700 * (p * stake[b])
                 /\ two * t * pay[b] = 2 * (t * pay[b])
      BY <1>1, <1>3, <2>1
    <3> QED BY <1>3, <2>1, <3>1, <3>2
  <2>4. /\ k - one * n <= two * Q
        /\ two * Q <= k + one * n
    <3> HIDE DEF one, two, k, T, t, p, stake, pay
    <3> QED BY <1>1, <1>3, <1>4, <2>2, <2>3, ProRata
  <2>5. Q \in Int
    <3> HIDE DEF T, t, p, n, stake, pay
    <3> QED BY <1>3, <2>1, SumType
  <2>6. 1700 * p - n <= 2 * Q /\ 2 * Q <= 1700 * p + n
    <3> HIDE DEF T, n, p, Q
    <3> QED BY <1>1, <1>5, <2>4, <2>5
  <2>7. c # Gold
    BY <1>9 DEF Gold, Sweep
  <2> HIDE DEF T, t, p, n, Q, stake, pay
  <2> QED BY <1>1, <1>2, <1>3, <1>5, <1>6, <2>1, <2>5, <2>6, <2>7
<1> QED BY <1>8, <1>9 DEF Currencies

----------------------------------------------------------------------------
(***************************************************************************)
(* What the users hold.  The active stakes are summed over all rows, of    *)
(* which the others count nothing, so that a step changes single terms.    *)
(***************************************************************************)
RowStake(row, c) ==
  IF row.status = "active" /\ row.currency = c THEN row.amount ELSE 0

Rows == [BetIds -> Bet \cup {NoBet}]

\* A row that was inserted has a stake, in a table as it is or will be.
LEMMA RowFacts ==
  ASSUME NEW rows \in Rows, NEW b \in BetIds, rows[b].status # "none"
  PROVE  /\ rows[b] \in Bet /\ rows[b].amount \in Nat \ {0}
         /\ rows[b].currency \in Currencies /\ rows[b].user \in Users
<1>1. rows[b] # NoBet
  BY DEF NoBet
<1>2. rows[b] \in Bet
  BY <1>1 DEF Rows
<1> QED BY <1>2, AmountsAssumption DEF Bet

\* The active stakes of a currency, summed over all rows.
LEMMA ActiveStakes ==
  ASSUME NEW rows \in Rows, NEW c \in Currencies
  PROVE  /\ StakesOf(rows, {b \in BetIds : rows[b].status \in {"active"}
                                           /\ rows[b].currency = c})
              = SumFunctionOnSet([b \in BetIds |-> RowStake(rows[b], c)], BetIds)
         /\ \A b \in BetIds : RowStake(rows[b], c) \in Nat
<1> DEFINE T == {b \in BetIds : rows[b].status \in {"active"} /\ rows[b].currency = c}
           f == [b \in BetIds |-> rows[b].amount]
           g == [b \in BetIds |-> RowStake(rows[b], c)]
<1>1. \A b \in T : f[b] \in Nat /\ g[b] = f[b] /\ b \in BetIds
  BY RowFacts DEF RowStake
<1>2. \A b \in BetIds \ T : g[b] = 0
  BY DEF RowStake
<1>3. T \in SUBSET BetIds
  OBVIOUS
<1>4. SumFunctionOnSet(g, BetIds) = SumFunctionOnSet(f, T)
  <2> HIDE DEF T, f, g
  <2> QED BY <1>1, <1>2, <1>3, BetIdsAssumption, SumRestrict
<1>5. \A b \in BetIds : RowStake(rows[b], c) \in Nat
  BY RowFacts DEF RowStake
<1> QED BY <1>4, <1>5 DEF StakesOf, SumOf

\* What is held, now and after a step.
LEMMA HeldIs ==
  ASSUME TypeOK, TypeOK', NEW c \in Currencies
  PROVE  /\ Held(c) = SumFunctionOnSet([u \in Users |-> wallet[u][c]], Users)
              + SumFunctionOnSet([b \in BetIds |-> RowStake(bets[b], c)], BetIds) * Unit(c)
         /\ Held(c)' = SumFunctionOnSet([u \in Users |-> wallet'[u][c]], Users)
              + SumFunctionOnSet([b \in BetIds |-> RowStake(bets'[b], c)], BetIds) * Unit(c)
         /\ \A u \in Users : wallet[u][c] \in Int /\ wallet'[u][c] \in Int
         /\ \A b \in BetIds : RowStake(bets[b], c) \in Nat /\ RowStake(bets'[b], c) \in Nat
<1>1. bets \in Rows /\ bets' \in Rows
  BY DEF TypeOK, Rows
<1>2. \A u \in Users : wallet[u][c] \in Int /\ wallet'[u][c] \in Int
  BY DEF TypeOK, WalletTable
<1>3. /\ Stakes(With({"active"}, c))
           = SumFunctionOnSet([b \in BetIds |-> RowStake(bets[b], c)], BetIds)
      /\ \A b \in BetIds : RowStake(bets[b], c) \in Nat
  BY <1>1, ActiveStakes DEF Stakes, With
<1>4. /\ Stakes(With({"active"}, c))'
           = SumFunctionOnSet([b \in BetIds |-> RowStake(bets'[b], c)], BetIds)
      /\ \A b \in BetIds : RowStake(bets'[b], c) \in Nat
  BY <1>1, ActiveStakes DEF Stakes, With
<1> QED BY <1>2, <1>3, <1>4 DEF Held, SumOf

\* What is held is a number of units.
LEMMA HeldType == ASSUME TypeOK, TypeOK', NEW c \in Currencies PROVE Held(c) \in Int
<1> DEFINE w0 == [u \in Users |-> wallet[u][c]]
           s0 == [b \in BetIds |-> RowStake(bets[b], c)]
<1>1. Held(c) = SumFunctionOnSet(w0, Users) + SumFunctionOnSet(s0, BetIds) * Unit(c)
  BY HeldIs
<1>2. /\ \A u \in Users : wallet[u][c] \in Int
      /\ \A b \in BetIds : RowStake(bets[b], c) \in Nat
  BY HeldIs
<1>3. (\A u \in Users : w0[u] \in Int) /\ \A b \in BetIds : s0[b] \in Int
  BY <1>2
<1> HIDE DEF w0, s0
<1>4. SumFunctionOnSet(w0, Users) \in Int /\ SumFunctionOnSet(s0, BetIds) \in Int
  BY <1>3, UsersAssumption, BetIdsAssumption, SumType
<1> QED BY <1>1, <1>4, UnitType

\* One user and one row change: what leaves the wallet is in the stake.
LEMMA UserMoney ==
  ASSUME TypeOK, TypeOK', NEW c \in Currencies, NEW u \in Users, NEW b \in BetIds,
         \A e \in BetIds \ {b} : bets'[e] = bets[e],
         \A v \in Users \ {u} : wallet'[v][c] = wallet[v][c],
         wallet'[u][c] = wallet[u][c]
           + (RowStake(bets[b], c) - RowStake(bets'[b], c)) * Unit(c)
  PROVE  Held(c)' = Held(c)
<1> DEFINE w0 == [v \in Users |-> wallet[v][c]]
           w1 == [v \in Users |-> wallet'[v][c]]
           s0 == [e \in BetIds |-> RowStake(bets[e], c)]
           s1 == [e \in BetIds |-> RowStake(bets'[e], c)]
           k == Unit(c)
<1>1. /\ Held(c) = SumFunctionOnSet(w0, Users) + SumFunctionOnSet(s0, BetIds) * k
      /\ Held(c)' = SumFunctionOnSet(w1, Users) + SumFunctionOnSet(s1, BetIds) * k
      /\ \A v \in Users : w0[v] \in Int /\ w1[v] \in Int
      /\ \A e \in BetIds : s0[e] \in Int /\ s1[e] \in Int
  <2>1. /\ Held(c) = SumFunctionOnSet(w0, Users) + SumFunctionOnSet(s0, BetIds) * k
        /\ Held(c)' = SumFunctionOnSet(w1, Users) + SumFunctionOnSet(s1, BetIds) * k
    BY HeldIs
  <2>2. /\ \A v \in Users : wallet[v][c] \in Int /\ wallet'[v][c] \in Int
        /\ \A e \in BetIds : RowStake(bets[e], c) \in Nat /\ RowStake(bets'[e], c) \in Nat
    BY HeldIs
  <2> QED BY <2>1, <2>2
<1>2. /\ \A v \in Users \ {u} : w0[v] = w1[v]
      /\ \A e \in BetIds \ {b} : s0[e] = s1[e]
      /\ w1[u] = w0[u] + (s0[b] - s1[b]) * k
  OBVIOUS
<1>3. k \in Nat
  BY UnitType
<1> HIDE DEF w0, w1, s0, s1, k
<1>4. SumFunctionOnSet(w1, Users) = SumFunctionOnSet(w0, Users) - w0[u] + w1[u]
  BY <1>1, <1>2, UsersAssumption, SumChange
<1>5. SumFunctionOnSet(s1, BetIds) = SumFunctionOnSet(s0, BetIds) - s0[b] + s1[b]
  BY <1>1, <1>2, BetIdsAssumption, SumChange
<1>6. /\ SumFunctionOnSet(w0, Users) \in Int /\ SumFunctionOnSet(s0, BetIds) \in Int
      /\ w0[u] \in Int /\ s0[b] \in Int /\ s1[b] \in Int
  BY <1>1, UsersAssumption, BetIdsAssumption, SumType
<1>7. (SumFunctionOnSet(s0, BetIds) - s0[b] + s1[b]) * k
        = SumFunctionOnSet(s0, BetIds) * k - (s0[b] - s1[b]) * k
  BY <1>3, <1>6
<1>8. (s0[b] - s1[b]) * k \in Int /\ SumFunctionOnSet(s0, BetIds) * k \in Int
  BY <1>3, <1>6
<1> QED BY <1>1, <1>2, <1>4, <1>5, <1>6, <1>7, <1>8

\* The active rows S of a currency are settled, and their owners credited.
LEMMA RoundMoney ==
  ASSUME TypeOK, TypeOK', NEW c \in Currencies, NEW S \in SUBSET BetIds, NEW credit,
         \A b \in S : /\ bets[b].status = "active" /\ bets[b].currency = c
                      /\ bets'[b].status # "active" /\ credit[b] \in Int,
         \A b \in BetIds \ S : RowStake(bets'[b], c) = RowStake(bets[b], c),
         \A u \in Users : wallet'[u][c] = wallet[u][c]
           + SumFunctionOnSet(credit, {b \in S : bets[b].user = u})
  PROVE  Held(c)' = Held(c) + SumFunctionOnSet(credit, S) - Stakes(S) * Unit(c)
<1> DEFINE w0 == [v \in Users |-> wallet[v][c]]
           w1 == [v \in Users |-> wallet'[v][c]]
           s0 == [e \in BetIds |-> RowStake(bets[e], c)]
           s1 == [e \in BetIds |-> RowStake(bets'[e], c)]
           f == [e \in BetIds |-> bets[e].amount]
           owner == [e \in BetIds |-> bets[e].user]
           paid == SumsPerOwner(credit, S, owner, Users)
           R == BetIds \ S
           k == Unit(c)
<1>1. /\ Held(c) = SumFunctionOnSet(w0, Users) + SumFunctionOnSet(s0, BetIds) * k
      /\ Held(c)' = SumFunctionOnSet(w1, Users) + SumFunctionOnSet(s1, BetIds) * k
      /\ \A v \in Users : w0[v] \in Int /\ w1[v] \in Int
      /\ \A e \in BetIds : s0[e] \in Int /\ s1[e] \in Int
  <2>1. /\ Held(c) = SumFunctionOnSet(w0, Users) + SumFunctionOnSet(s0, BetIds) * k
        /\ Held(c)' = SumFunctionOnSet(w1, Users) + SumFunctionOnSet(s1, BetIds) * k
    BY HeldIs
  <2>2. /\ \A v \in Users : wallet[v][c] \in Int /\ wallet'[v][c] \in Int
        /\ \A e \in BetIds : RowStake(bets[e], c) \in Nat /\ RowStake(bets'[e], c) \in Nat
    BY HeldIs
  <2> QED BY <2>1, <2>2
<1>2. k \in Nat /\ IsFiniteSet(S) /\ IsFiniteSet(R)
  BY UnitType, BetIdsAssumption, FS_Subset
<1>3. \A b \in S : /\ credit[b] \in Int /\ owner[b] \in Users
                   /\ s0[b] = f[b] /\ f[b] \in Int /\ s1[b] = 0
  BY BetFacts DEF RowStake
<1>4. \A b \in R : s1[b] = s0[b]
  OBVIOUS
<1>5. SumFunctionOnSet(paid, Users) = SumFunctionOnSet(credit, S)
  <2>1. \A b \in S : credit[b] \in Int /\ owner[b] \in Users
    BY <1>3
  <2> HIDE DEF owner
  <2> QED BY <1>2, <2>1, UsersAssumption, SumByOwner
<1>6. \A v \in Users : paid[v] \in Int /\ w1[v] = w0[v] + paid[v]
  <2> SUFFICES ASSUME NEW v \in Users
               PROVE  paid[v] \in Int /\ w1[v] = w0[v] + paid[v]
    OBVIOUS
  <2> DEFINE mine == {b \in S : bets[b].user = v}
  <2>1. mine = PartOf(S, owner, v)
    BY DEF PartOf
  <2>2. IsFiniteSet(mine) /\ \A b \in mine : credit[b] \in Int
    BY <1>2, <1>3, FS_Subset
  <2>3. SumFunctionOnSet(credit, mine) \in Int
    <3> HIDE DEF mine
    <3> QED BY <2>2, SumType
  <2>4. w1[v] = w0[v] + SumFunctionOnSet(credit, mine)
    OBVIOUS
  <2>5. paid[v] = SumFunctionOnSet(credit, mine)
    BY <2>1 DEF SumsPerOwner
  <2> HIDE DEF mine, paid, w0, w1
  <2> QED BY <2>3, <2>4, <2>5
<1> HIDE DEF w0, w1, s0, s1, owner, paid, k
<1>7. SumFunctionOnSet(w1, Users) = SumFunctionOnSet(w0, Users) + SumFunctionOnSet(credit, S)
  <2>1. SumFunctionOnSet(w1, Users)
          = SumFunctionOnSet(w0, Users) + SumFunctionOnSet(paid, Users)
    BY <1>1, <1>6, UsersAssumption, SumAdd
  <2> QED BY <1>5, <2>1
<1>8. SumFunctionOnSet(s0, BetIds) = SumFunctionOnSet(f, S) + SumFunctionOnSet(s0, R)
  <2>1. SumFunctionOnSet(s0, BetIds) = SumFunctionOnSet(s0, S) + SumFunctionOnSet(s0, R)
    BY <1>1, BetIdsAssumption, SumSplit
  <2>2. SumFunctionOnSet(s0, S) = SumFunctionOnSet(f, S)
    <3>1. \A b \in S : s0[b] \in Int /\ s0[b] = f[b]
      BY <1>3
    <3> HIDE DEF f
    <3> QED BY <1>2, <3>1, SumCongruence
  <2> QED BY <2>1, <2>2
<1>9. SumFunctionOnSet(s1, BetIds) = SumFunctionOnSet(s0, R)
  <2>1. /\ R \in SUBSET BetIds
        /\ \A b \in R : s0[b] \in Int /\ s1[b] = s0[b]
        /\ \A b \in BetIds \ R : s1[b] = 0
    BY <1>1, <1>3, <1>4
  <2> HIDE DEF R
  <2> QED BY <2>1, BetIdsAssumption, SumRestrict
<1>10. /\ SumFunctionOnSet(w0, Users) \in Int /\ SumFunctionOnSet(credit, S) \in Int
       /\ SumFunctionOnSet(f, S) \in Int /\ SumFunctionOnSet(s0, R) \in Int
  <2>1. \A b \in S : credit[b] \in Int /\ f[b] \in Int
    BY <1>3
  <2>2. \A b \in R : s0[b] \in Int
    BY <1>1
  <2> HIDE DEF f, R
  <2> QED BY <1>1, <1>2, <2>1, <2>2, UsersAssumption, SumType
<1>11. Stakes(S) = SumFunctionOnSet(f, S)
  BY DEF Stakes, StakesOf, SumOf
<1> HIDE DEF f, R
<1>12. (SumFunctionOnSet(f, S) + SumFunctionOnSet(s0, R)) * k
         = SumFunctionOnSet(f, S) * k + SumFunctionOnSet(s0, R) * k
  BY <1>2, <1>10
<1>13. SumFunctionOnSet(f, S) * k \in Int /\ SumFunctionOnSet(s0, R) * k \in Int
  BY <1>2, <1>10
<1>14. Held(c)' = Held(c) + SumFunctionOnSet(credit, S) - SumFunctionOnSet(f, S) * k
  BY <1>1, <1>7, <1>8, <1>9, <1>10, <1>12, <1>13
<1> QED BY <1>11, <1>14 DEF k

----------------------------------------------------------------------------
(***************************************************************************)
(* Handlers of one bet: the wallet loses what the stake gains.             *)
(***************************************************************************)

\* A wallet after a credit or a debit.
LEMMA CreditedAt ==
  ASSUME NEW w \in WalletTable, NEW u \in Users, NEW d \in Currencies, NEW n \in Int,
         NEW v \in Users, NEW c \in Currencies
  PROVE  Credited(w, u, d, n)[v][c]
           = IF v = u /\ c = d THEN w[v][c] + n * Unit(d) ELSE w[v][c]
<1> DEFINE k == n * Unit(d)
<1>1. Credited(w, u, d, n) = [w EXCEPT ![u][d] = @ + k]
  BY DEF Credited
<1> HIDE DEF k
<1>2. [w EXCEPT ![u][d] = @ + k][v][c]
        = IF v = u /\ c = d THEN w[v][c] + k ELSE w[v][c]
  BY DEF WalletTable
<1> QED BY <1>1, <1>2 DEF k

\* placeBet takes the stake from the wallet.
LEMMA PlacingHeld ==
  ASSUME TypeOK, TypeOK', NEW u \in Users, NEW o \in Options, NEW d \in Currencies,
         NEW a \in Amounts, NEW b \in BetIds,
         Placing(wallet, total, count, u, o, d, a, b),
         NEW c \in Currencies
  PROVE  Held(c)' = Held(c)
<1> DEFINE debit == -a
<1>1. a \in Nat /\ debit \in Int /\ wallet \in WalletTable
  BY AmountsAssumption DEF TypeOK
<1>2. /\ wallet' = Credited(wallet, u, d, debit)
      /\ bets[b] = NoBet /\ bets' = [bets EXCEPT ![b] = NewBet(u, o, d, a)]
  BY DEF Placing
<1>3. /\ bets'[b] = NewBet(u, o, d, a)
      /\ \A e \in BetIds \ {b} : bets'[e] = bets[e]
  BY <1>2 DEF TypeOK
<1>4. RowStake(bets[b], c) = 0 /\ RowStake(bets'[b], c) = IF d = c THEN a ELSE 0
  BY <1>2, <1>3 DEF RowStake, NoBet, NewBet
<1> HIDE DEF debit
<1>5. \A v \in Users : wallet'[v][c]
        = IF v = u /\ c = d THEN wallet[v][c] + debit * Unit(d) ELSE wallet[v][c]
  BY <1>1, <1>2, CreditedAt
<1>6. wallet[u][c] \in Int /\ Unit(c) \in Nat
  BY <1>1, UnitType DEF WalletTable
<1>7. wallet'[u][c] = wallet[u][c] + (RowStake(bets[b], c) - RowStake(bets'[b], c)) * Unit(c)
  <2>1. CASE c = d
    <3>1. wallet'[u][c] = wallet[u][c] + debit * Unit(c)
      BY <1>5, <2>1
    <3>2. RowStake(bets[b], c) - RowStake(bets'[b], c) = debit
      BY <1>1, <1>4, <2>1 DEF debit
    <3> QED BY <3>1, <3>2
  <2>2. CASE c # d
    <3>1. RowStake(bets[b], c) - RowStake(bets'[b], c) = 0
      BY <1>4, <2>2
    <3> QED BY <1>5, <1>6, <2>2, <3>1
  <2> QED BY <2>1, <2>2
<1>8. \A v \in Users \ {u} : wallet'[v][c] = wallet[v][c]
  BY <1>5
<1> QED BY <1>3, <1>7, <1>8, UserMoney

\* editBet returns the old stake and takes the new one.
LEMMA EditingHeld ==
  ASSUME TypeOK, TypeOK', NEW b \in BetIds, NEW o \in Options, NEW d \in Currencies,
         NEW a \in Amounts, Active(b),
         Editing(wallet, total, count, bets[b], b, o, d, a), NEW c \in Currencies
  PROVE  Held(c)' = Held(c)
<1> DEFINE u == bets[b].user
           d0 == bets[b].currency
           a0 == bets[b].amount
           debit == -a
           mid == Credited(wallet, u, d0, a0)
<1>1. a \in Nat /\ debit \in Int /\ wallet \in WalletTable
  BY AmountsAssumption DEF TypeOK
<1>2. /\ bets[b] \in Bet /\ bets[b].status = "active"
      /\ u \in Users /\ d0 \in Currencies /\ a0 \in Nat
  BY BetFacts DEF Active
<1>3. /\ wallet' = Credited(mid, u, d, debit)
      /\ bets' = [bets EXCEPT ![b] = [bets[b] EXCEPT !.option = o,
                    !.round = RoundOf[o], !.currency = d, !.amount = a]]
  BY DEF Editing, Exchanged
<1>4. /\ bets'[b].status = "active" /\ bets'[b].currency = d /\ bets'[b].amount = a
      /\ \A e \in BetIds \ {b} : bets'[e] = bets[e]
  BY <1>2, <1>3 DEF TypeOK, Bet
<1>5. /\ RowStake(bets[b], c) = IF d0 = c THEN a0 ELSE 0
      /\ RowStake(bets'[b], c) = IF d = c THEN a ELSE 0
  BY <1>2, <1>4 DEF RowStake
<1> HIDE DEF u, d0, a0, debit
<1>6. mid \in WalletTable
  BY <1>1, <1>2, CreditedType
<1>7. \A v \in Users : mid[v][c]
        = IF v = u /\ c = d0 THEN wallet[v][c] + a0 * Unit(d0) ELSE wallet[v][c]
  BY <1>1, <1>2, CreditedAt
<1> HIDE DEF mid
<1>8. \A v \in Users : wallet'[v][c]
        = IF v = u /\ c = d THEN mid[v][c] + debit * Unit(d) ELSE mid[v][c]
  BY <1>1, <1>2, <1>3, <1>6, CreditedAt
<1>9. wallet[u][c] \in Int /\ Unit(c) \in Nat
  BY <1>1, <1>2, UnitType DEF WalletTable
<1>10. wallet'[u][c] = wallet[u][c] + (RowStake(bets[b], c) - RowStake(bets'[b], c)) * Unit(c)
  <2> DEFINE k == Unit(c)
  <2>1. mid[u][c] = wallet[u][c] + (IF c = d0 THEN a0 ELSE 0) * k
    BY <1>2, <1>7, <1>9
  <2>2. wallet'[u][c] = mid[u][c] + (IF c = d THEN debit ELSE 0) * k
    <3>1. mid[u][c] \in Int
      BY <1>2, <1>6 DEF WalletTable
    <3> QED BY <1>2, <1>8, <1>9, <3>1
  <2>3. /\ RowStake(bets[b], c) \in Int /\ (IF c = d THEN debit ELSE 0) \in Int
        /\ (IF c = d0 THEN a0 ELSE 0) = RowStake(bets[b], c)
        /\ (IF c = d THEN debit ELSE 0) = - RowStake(bets'[b], c)
        /\ RowStake(bets'[b], c) \in Int
    BY <1>1, <1>2, <1>5 DEF debit
  <2> DEFINE s0 == RowStake(bets[b], c)
             s1 == RowStake(bets'[b], c)
  <2>4. wallet'[u][c] = wallet[u][c] + s0 * k + (-s1) * k
    BY <2>1, <2>2, <2>3
  <2>5. s0 \in Int /\ s1 \in Int /\ k \in Nat
    BY <1>9, <2>3
  <2> HIDE DEF s0, s1, k
  <2>6. s0 * k + (-s1) * k = (s0 - s1) * k /\ s0 * k \in Int /\ (-s1) * k \in Int
    BY <2>5
  <2>7. wallet'[u][c] = wallet[u][c] + (s0 - s1) * k
    BY <1>9, <2>4, <2>6
  <2> QED BY <2>7 DEF s0, s1, k
<1>11. \A v \in Users \ {u} : wallet'[v][c] = wallet[v][c]
  BY <1>7, <1>8
<1> QED BY <1>2, <1>4, <1>10, <1>11, UserMoney

\* cancelBet returns the stake.
LEMMA CancellingHeld ==
  ASSUME TypeOK, TypeOK', NEW b \in BetIds, Active(b),
         Cancelling(wallet, total, count, bets[b], b), NEW c \in Currencies
  PROVE  Held(c)' = Held(c)
<1> DEFINE u == bets[b].user
           d == bets[b].currency
           a == bets[b].amount
<1>1. wallet \in WalletTable
  BY DEF TypeOK
<1>2. /\ bets[b] \in Bet /\ bets[b].status = "active"
      /\ u \in Users /\ d \in Currencies /\ a \in Nat
  BY BetFacts DEF Active
<1>3. /\ wallet' = Credited(wallet, u, d, a)
      /\ bets' = [bets EXCEPT ![b] = [bets[b] EXCEPT !.status = "cancelled"]]
  BY DEF Cancelling
<1>4. /\ bets'[b].status = "cancelled"
      /\ \A e \in BetIds \ {b} : bets'[e] = bets[e]
  BY <1>2, <1>3 DEF TypeOK, Bet
<1>5. RowStake(bets[b], c) = (IF d = c THEN a ELSE 0) /\ RowStake(bets'[b], c) = 0
  BY <1>2, <1>4 DEF RowStake
<1> HIDE DEF u, d, a
<1>6. \A v \in Users : wallet'[v][c]
        = IF v = u /\ c = d THEN wallet[v][c] + a * Unit(d) ELSE wallet[v][c]
  BY <1>1, <1>2, <1>3, CreditedAt
<1>7. wallet[u][c] \in Int /\ Unit(c) \in Nat
  BY <1>1, <1>2, UnitType DEF WalletTable
<1>8. wallet'[u][c] = wallet[u][c] + (RowStake(bets[b], c) - RowStake(bets'[b], c)) * Unit(c)
  <2>1. RowStake(bets[b], c) - RowStake(bets'[b], c) = IF d = c THEN a ELSE 0
    BY <1>2, <1>5
  <2> QED BY <1>2, <1>6, <1>7, <2>1
<1>9. \A v \in Users \ {u} : wallet'[v][c] = wallet[v][c]
  BY <1>6
<1> QED BY <1>2, <1>4, <1>8, <1>9, UserMoney

\* A row that does not count for the fee or the payouts of a currency.
Undecided(row, c) == row.currency = c => row.status \notin {"won", "lost"}

\* What is accounted for in one currency.
AccountedIn(c) ==
  LET kept == Opening(c) - Held(c)
      payouts == Cardinality(With({"won"}, c)) IN
    kept >= 0 /\ kept - Fee(c) \in -payouts .. payouts

\* The fee and the payouts are those of the rows with a result.
LEMMA UndecidedAccounted ==
  ASSUME TypeOK, TypeOK', NEW c \in Currencies, AccountedIn(c), Held(c)' = Held(c),
         \A b \in BetIds : \/ bets'[b] = bets[b]
                           \/ Undecided(bets[b], c) /\ Undecided(bets'[b], c)
  PROVE  AccountedIn(c)'
<1> DEFINE W == With({"won", "lost"}, c)
           f == [b \in BetIds |-> bets[b].amount]
           g == [b \in BetIds |-> bets'[b].amount]
<1>1. With({"won"}, c)' = With({"won"}, c) /\ W' = W
  BY DEF With, Undecided
<1>2. /\ W \in SUBSET BetIds /\ \A b \in W : bets[b].status # "none" /\ bets'[b] = bets[b]
  BY DEF With, Undecided
<1>3. IsFiniteSet(W) /\ \A b \in W : f[b] \in Int /\ f[b] = g[b]
  <2>1. IsFiniteSet(W) /\ \A b \in W : f[b] \in Nat \ {0}
    BY <1>2, StakesType
  <2>2. \A b \in W : f[b] = g[b]
    BY <1>2
  <2> QED BY <2>1, <2>2
<1>4. SumFunctionOnSet(f, W) = SumFunctionOnSet(g, W)
  <2> HIDE DEF f, g, W
  <2> QED BY <1>3, SumCongruence
<1>5. Stakes(W)' = Stakes(W)
  BY <1>1, <1>4 DEF Stakes, StakesOf, SumOf
<1>6. Fee(c)' = Fee(c)
  BY <1>5 DEF Fee
<1>7. Opening(c)' = Opening(c)
  BY DEF Opening
<1> QED BY <1>1, <1>6, <1>7 DEF AccountedIn

----------------------------------------------------------------------------
(***************************************************************************)
(* Handlers of a round.                                                    *)
(***************************************************************************)

\* cancelRoundAndRefund returns the stakes it finds.
LEMMA CancelRoundHeld ==
  ASSUME TypeOK, TypeOK', NEW r \in Rounds, CancelRound(r), NEW c \in Currencies
  PROVE  Held(c)' = Held(c)
<1> DEFINE S == {b \in BetIds : /\ Active(b) /\ RoundOf[bets[b].option] = r
                                /\ bets[b].currency = c}
           k == Unit(c)
           f == [b \in BetIds |-> bets[b].amount]
           credit == [b \in BetIds |-> bets[b].amount * Unit(c)]
<1>1. /\ S \in SUBSET BetIds
      /\ \A b \in S : bets[b].status = "active" /\ bets[b].currency = c
  BY DEF Active
<1>2. \A b \in S : bets[b] \in Bet /\ bets[b].status # "none" /\ bets[b].option \in Options
  BY <1>1, BetFacts
<1>3. IsFiniteSet(S) /\ (\A b \in S : f[b] \in Nat \ {0}) /\ Stakes(S) \in Nat
  BY <1>1, <1>2, StakesType
<1>4. k \in Nat
  BY UnitType
<1>5. \A b \in S : credit[b] = k * f[b] /\ f[b] \in Int
  BY <1>1, <1>3, <1>4
<1>6. \A b \in S : credit[b] \in Int
  <2> HIDE DEF credit, f, S, k
  <2> QED BY <1>4, <1>5
<1>7. \A b \in S : bets'[b].status # "active"
  <2> SUFFICES ASSUME NEW b \in S PROVE bets'[b].status # "active"
    OBVIOUS
  <2>1. bets[b] \in Bet /\ bets'[b] = [bets[b] EXCEPT !.status = "cancelled"]
    BY <1>1, <1>2, CancelRoundBets
  <2> QED BY <2>1 DEF Bet
<1>8. \A b \in BetIds \ S : RowStake(bets'[b], c) = RowStake(bets[b], c)
  <2> SUFFICES ASSUME NEW b \in BetIds \ S
               PROVE  RowStake(bets'[b], c) = RowStake(bets[b], c)
    OBVIOUS
  <2>1. CASE Active(b) /\ RoundOf[bets[b].option] = r
    <3>1. bets[b].currency # c
      BY <2>1
    <3>2. bets[b] \in Bet /\ bets'[b] = [bets[b] EXCEPT !.status = "cancelled"]
      BY <2>1, BetFacts, CancelRoundBets DEF Active
    <3> QED BY <3>1, <3>2 DEF Bet, RowStake
  <2>2. CASE ~ (Active(b) /\ RoundOf[bets[b].option] = r)
    BY <2>2, CancelRoundBets
  <2> QED BY <2>1, <2>2
<1>9. \A u \in Users : wallet'[u][c] = wallet[u][c]
        + SumFunctionOnSet(credit, {b \in S : bets[b].user = u})
  <2> SUFFICES ASSUME NEW u \in Users
               PROVE  wallet'[u][c] = wallet[u][c]
                        + SumFunctionOnSet(credit, {b \in S : bets[b].user = u})
    OBVIOUS
  <2> DEFINE gone == {b \in BetIds : Active(b) /\ bets[b].option
                                      \in {o \in Options : RoundOf[o] = r}}
  <2>1. wallet'[u][c] = wallet[u][c] + SumFunctionOnSet(credit,
          {b \in gone : bets[b].user = u /\ bets[b].currency = c})
    BY DEF CancelRound, SumOf
  <2>2. {b \in gone : bets[b].user = u /\ bets[b].currency = c}
          = {b \in S : bets[b].user = u}
    BY <1>2
  <2> QED BY <2>1, <2>2
<1>10. SumFunctionOnSet(credit, S) = k * Stakes(S)
  <2>1. Stakes(S) = SumFunctionOnSet(f, S)
    BY DEF Stakes, StakesOf, SumOf
  <2> HIDE DEF credit, f, S, k
  <2>2. SumFunctionOnSet(credit, S) = k * SumFunctionOnSet(f, S)
    BY <1>3, <1>4, <1>5, SumScale
  <2> QED BY <2>1, <2>2
<1> HIDE DEF S, credit
<1>11. Held(c)' = Held(c) + SumFunctionOnSet(credit, S) - Stakes(S) * Unit(c)
  BY <1>1, <1>6, <1>7, <1>8, <1>9, RoundMoney
<1>12. Held(c) \in Int
  BY HeldType
<1> QED BY <1>3, <1>4, <1>10, <1>11, <1>12 DEF k

----------------------------------------------------------------------------
(***************************************************************************)
(* The result of a round: per currency, a refund or a contested pot.       *)
(***************************************************************************)

\* What declareWinner writes, short being the payouts a unit below Share.
Declared(o, short) ==
  /\ short \in SUBSET Roundable(bets, total, o)
  /\ bets' = [b \in BetIds |-> IF b \in ActiveIn(RoundOf[o])
                                 THEN SettledBet(bets, total, b, o, short) ELSE bets[b]]
  /\ wallet' = WalletsSettled(wallet, bets, total, o, short)

Credits(o, short) == [b \in BetIds |-> Credit(bets, total, b, o, short)]

\* The rows of one currency that are settled, and all the others.
LEMMA DeclaredRows ==
  ASSUME TypeOK, PoolsMatchBets, NEW o \in Options, NEW short, Declared(o, short),
         NEW c \in Currencies, NEW b \in BetIds
  PROVE  LET S == Side(bets, o, c, Options) IN
         /\ b \in S => /\ bets[b].status = "active" /\ bets[b].currency = c
                       /\ bets'[b] = SettledBet(bets, total, b, o, short)
                       /\ bets'[b].status \in {"won", "lost", "refunded"}
                       /\ bets'[b].currency = c /\ bets'[b].amount = bets[b].amount
                       /\ bets[b] \in Bet
         /\ b \notin S => \/ bets'[b] = bets[b]
                          \/ bets[b].currency # c /\ bets'[b].currency # c
<1> DEFINE S == Side(bets, o, c, Options)
<1>1. CASE b \in ActiveIn(RoundOf[o])
  <2>1. /\ bets[b].status = "active" /\ bets[b] \in Bet /\ bets[b].option \in Options
        /\ bets'[b] = SettledBet(bets, total, b, o, short)
    BY <1>1, BetFacts DEF ActiveIn, ActiveRows, Declared
  <2>2. /\ bets'[b].status \in {"won", "lost", "refunded"}
        /\ bets'[b].currency = bets[b].currency /\ bets'[b].amount = bets[b].amount
    BY <1>1, <2>1, SettledBetFacts
  <2>3. b \in S <=> bets[b].currency = c
    BY <1>1, <2>1 DEF Side, ActiveIn
  <2> HIDE DEF S
  <2> QED BY <2>1, <2>2, <2>3 DEF S
<1>2. CASE b \notin ActiveIn(RoundOf[o])
  <2>1. bets'[b] = bets[b] /\ b \notin S
    BY <1>2 DEF Side, ActiveIn, Declared
  <2> QED BY <2>1
<1> QED BY <1>1, <1>2

\* What the users of a currency hold after a result.
LEMMA DeclaredHeld ==
  ASSUME TypeOK, PoolsMatchBets, TypeOK', NEW o \in Options, NEW short, Declared(o, short),
         NEW c \in Currencies,
         \A b \in Side(bets, o, c, Options) : Credits(o, short)[b] \in Int
  PROVE  Held(c)' = Held(c)
           + SumFunctionOnSet(Credits(o, short), Side(bets, o, c, Options))
           - Stakes(Side(bets, o, c, Options)) * Unit(c)
<1> DEFINE S == Side(bets, o, c, Options)
           credit == Credits(o, short)
<1>1. S \in SUBSET BetIds /\ TypeOK
  BY DEF Side, ActiveRows
<1>2. \A b \in S : /\ bets[b].status = "active" /\ bets[b].currency = c
                   /\ bets'[b].status # "active"
  BY <1>1, DeclaredRows
<1>3. \A b \in BetIds \ S : RowStake(bets'[b], c) = RowStake(bets[b], c)
  <2> SUFFICES ASSUME NEW b \in BetIds \ S
               PROVE  RowStake(bets'[b], c) = RowStake(bets[b], c)
    OBVIOUS
  <2>1. bets'[b] = bets[b] \/ (bets[b].currency # c /\ bets'[b].currency # c)
    BY DeclaredRows
  <2> QED BY <2>1 DEF RowStake
<1>4. \A u \in Users : wallet'[u][c] = wallet[u][c]
        + SumFunctionOnSet(credit, {b \in S : bets[b].user = u})
  <2> SUFFICES ASSUME NEW u \in Users
               PROVE  wallet'[u][c] = wallet[u][c]
                        + SumFunctionOnSet(credit, {b \in S : bets[b].user = u})
    OBVIOUS
  <2>1. wallet'[u][c] = wallet[u][c] + SumFunctionOnSet(credit,
          {b \in ActiveRows(bets, RoundOf[o]) : bets[b].user = u /\ bets[b].currency = c})
    BY DEF Declared, WalletsSettled, CreditsOf, SumOf, Credits
  <2>2. \A b \in ActiveRows(bets, RoundOf[o]) : bets[b].option \in Options
    BY <1>1, BetFacts DEF ActiveRows
  <2>3. {b \in ActiveRows(bets, RoundOf[o]) : bets[b].user = u /\ bets[b].currency = c}
          = {b \in S : bets[b].user = u}
    BY <2>2 DEF Side
  <2> QED BY <2>1, <2>3
<1> HIDE DEF S, credit
<1>5. \A b \in S : credit[b] \in Int
  BY DEF S, credit
<1>6. Held(c)' = Held(c) + SumFunctionOnSet(credit, S) - Stakes(S) * Unit(c)
  BY <1>1, <1>2, <1>3, <1>4, <1>5, RoundMoney
<1> QED BY <1>6 DEF S, credit

\* A currency with bets on one side only is refunded.
LEMMA RefundAccounted ==
  ASSUME TypeOK, PoolsMatchBets, TypeOK', NEW o \in Options, NEW short, Declared(o, short),
         NEW c \in Currencies, AccountedIn(c), ~ Contested(bets, o, c)
  PROVE  AccountedIn(c)'
<1> DEFINE S == Side(bets, o, c, Options)
           k == Unit(c)
           f == [b \in BetIds |-> bets[b].amount]
           credit == Credits(o, short)
<1>1. /\ S \in SUBSET BetIds /\ TypeOK
      /\ \A b \in S : bets[b].status # "none" /\ bets[b].currency = c
  BY DEF Side, ActiveRows
<1>2. IsFiniteSet(S) /\ (\A b \in S : f[b] \in Nat \ {0}) /\ Stakes(S) \in Nat
  BY <1>1, StakesType
<1>3. k \in Nat
  BY UnitType
<1>4. \A b \in S : credit[b] = bets[b].amount * Unit(c) /\ f[b] = bets[b].amount
  BY <1>1 DEF Credits, Credit
<1>5. \A b \in S : credit[b] = k * f[b] /\ credit[b] \in Int /\ f[b] \in Int
  <2> HIDE DEF f, credit, S
  <2> QED BY <1>2, <1>3, <1>4
<1>6. SumFunctionOnSet(credit, S) = Stakes(S) * k
  <2>1. Stakes(S) = SumFunctionOnSet(f, S)
    BY DEF Stakes, StakesOf, SumOf
  <2> HIDE DEF credit, f, S, k
  <2>2. SumFunctionOnSet(credit, S) = k * SumFunctionOnSet(f, S)
    BY <1>2, <1>3, <1>5, SumScale
  <2> QED BY <1>2, <1>3, <2>1, <2>2
<1>7. Held(c)' = Held(c) + SumFunctionOnSet(credit, S) - Stakes(S) * k
  BY <1>5, DeclaredHeld
<1>8. Held(c)' = Held(c)
  <2>1. Held(c) \in Int
    BY <1>1, HeldType
  <2>2. Stakes(S) * k \in Int
    <3> HIDE DEF S, k
    <3> QED BY <1>2, <1>3
  <2> HIDE DEF S, k, credit
  <2> QED BY <1>6, <1>7, <2>1, <2>2
<1>9. \A b \in BetIds : \/ bets'[b] = bets[b]
                        \/ Undecided(bets[b], c) /\ Undecided(bets'[b], c)
  <2> SUFFICES ASSUME NEW b \in BetIds, bets'[b] # bets[b]
               PROVE  Undecided(bets[b], c) /\ Undecided(bets'[b], c)
    OBVIOUS
  <2>1. CASE b \in S
    <3>1. /\ bets[b].status = "active" /\ bets[b] \in Bet /\ bets[b].currency = c
          /\ bets'[b] = SettledBet(bets, total, b, o, short)
      BY <2>1, DeclaredRows
    <3>2. bets'[b].status = "refunded"
      BY <3>1 DEF SettledBet, Bet
    <3> QED BY <3>1, <3>2 DEF Undecided
  <2>2. CASE b \notin S
    BY <2>2, DeclaredRows DEF Undecided
  <2> QED BY <2>1, <2>2
<1> QED BY <1>1, <1>8, <1>9, UndecidedAccounted

\* The rows that have a result in the currency, before and after.
LEMMA ContestedResults ==
  ASSUME TypeOK, PoolsMatchBets, NEW o \in Options, NEW short, Declared(o, short),
         NEW c \in Currencies, Contested(bets, o, c)
  PROVE  LET S == Side(bets, o, c, Options)
             T == Side(bets, o, c, {o}) IN
         /\ With({"won"}, c)' = With({"won"}, c) \cup T
         /\ With({"won"}, c) \cap T = {}
         /\ With({"won", "lost"}, c)' = With({"won", "lost"}, c) \cup S
         /\ With({"won", "lost"}, c) \cap S = {}
         /\ \A b \in With({"won", "lost"}, c) \cup S : bets'[b].amount = bets[b].amount
<1> DEFINE S == Side(bets, o, c, Options)
           T == Side(bets, o, c, {o})
<1>1. \A b \in S : /\ b \in BetIds /\ bets[b].status = "active" /\ bets'[b].currency = c
                   /\ bets'[b].amount = bets[b].amount
                   /\ bets'[b].status = IF b \in T THEN "won" ELSE "lost"
  <2> SUFFICES ASSUME NEW b \in S
               PROVE  /\ b \in BetIds /\ bets[b].status = "active" /\ bets'[b].currency = c
                      /\ bets'[b].amount = bets[b].amount
                      /\ bets'[b].status = IF b \in T THEN "won" ELSE "lost"
    OBVIOUS
  <2>1. b \in BetIds
    BY DEF Side, ActiveRows
  <2>2. /\ bets[b].status = "active" /\ bets[b] \in Bet /\ bets[b].currency = c
        /\ bets'[b] = SettledBet(bets, total, b, o, short)
        /\ bets'[b].currency = c /\ bets'[b].amount = bets[b].amount
    BY <2>1, DeclaredRows
  <2>3. b \in T <=> bets[b].option = o
    BY DEF Side
  <2>4. bets'[b].status = IF b \in T THEN "won" ELSE "lost"
    BY <2>2, <2>3 DEF SettledBet, Bet
  <2> HIDE DEF T
  <2> QED BY <2>1, <2>2, <2>4
<1>2. \A b \in BetIds \ S : \/ bets'[b] = bets[b]
                            \/ bets[b].currency # c /\ bets'[b].currency # c
  BY DeclaredRows
<1>3. T \in SUBSET S
  BY DEF Side
<1> HIDE DEF S, T
<1>4. /\ With({"won"}, c)' = With({"won"}, c) \cup T
      /\ With({"won"}, c) \cap T = {}
  BY <1>1, <1>2, <1>3 DEF With
<1>5. /\ With({"won", "lost"}, c)' = With({"won", "lost"}, c) \cup S
      /\ With({"won", "lost"}, c) \cap S = {}
  BY <1>1, <1>2 DEF With
<1>6. \A b \in With({"won", "lost"}, c) \cup S : bets'[b].amount = bets[b].amount
  BY <1>1, <1>2 DEF With
<1> QED BY <1>4, <1>5, <1>6 DEF S, T

\* The fee and the payouts after a contested pot: the sets only grow.
LEMMA ContestedCounts ==
  ASSUME TypeOK, PoolsMatchBets, TypeOK', NEW o \in Options, NEW short, Declared(o, short),
         NEW c \in Currencies, Contested(bets, o, c)
  PROVE  LET S == Side(bets, o, c, Options)
             T == Side(bets, o, c, {o})
             W == With({"won", "lost"}, c) IN
         /\ Cardinality(With({"won"}, c))' = Cardinality(With({"won"}, c)) + Cardinality(T)
         /\ Cardinality(With({"won"}, c)) \in Nat /\ Cardinality(T) \in Nat
         /\ Stakes(W)' = Stakes(W) + Stakes(S)
         /\ Stakes(W) \in Nat /\ Stakes(S) \in Nat
<1> DEFINE S == Side(bets, o, c, Options)
           T == Side(bets, o, c, {o})
           W == With({"won", "lost"}, c)
           V == With({"won"}, c)
           U == W \cup S
           f == [b \in BetIds |-> bets[b].amount]
           g == [b \in BetIds |-> bets'[b].amount]
<1>1. /\ V' = V \cup T /\ V \cap T = {}
      /\ W' = U /\ W \cap S = {}
  BY ContestedResults
<1>12. \A b \in U : bets'[b].amount = bets[b].amount
  BY ContestedResults
<1>13. V \cap T = {}
  BY <1>1
<1>2. /\ T \in SUBSET BetIds /\ V \in SUBSET BetIds /\ U \in SUBSET BetIds
      /\ W \in SUBSET U /\ S = U \ W
      /\ \A b \in U : bets[b].status # "none"
  BY <1>1 DEF Side, ActiveRows, With
<1>3. IsFiniteSet(T) /\ IsFiniteSet(V) /\ IsFiniteSet(U)
  BY <1>2, BetIdsAssumption, FS_Subset
<1>4. /\ Cardinality(V \cup T) = Cardinality(V) + Cardinality(T)
      /\ Cardinality(V) \in Nat /\ Cardinality(T) \in Nat
  <2> DEFINE both == V \cap T
  <2>1. /\ Cardinality(V \cup T) = Cardinality(V) + Cardinality(T) - Cardinality(both)
        /\ Cardinality(V) \in Nat /\ Cardinality(T) \in Nat
    BY <1>3, FS_Union, FS_CardinalityType
  <2>2. both = {}
    BY <1>13
  <2> HIDE DEF V, T, both
  <2>3. Cardinality(both) = 0
    BY <2>2, FS_EmptySet
  <2> QED BY <2>1, <2>3
<1>5. TypeOK
  OBVIOUS
<1>6. \A b \in U : f[b] \in Nat \ {0}
  BY <1>2, <1>5, StakesType
<1>7. \A b \in U : f[b] \in Int /\ f[b] = g[b]
  <2>1. \A b \in U : b \in BetIds /\ bets'[b].amount = bets[b].amount
    BY <1>2, <1>12
  <2> HIDE DEF U
  <2>2. \A b \in U : f[b] = g[b]
    BY <2>1
  <2> HIDE DEF f, g
  <2> QED BY <1>6, <2>2
<1>8. Stakes(W) \in Nat /\ Stakes(S) \in Nat
  <2>1. /\ W \in SUBSET BetIds /\ \A b \in W : bets[b].status # "none"
        /\ S \in SUBSET BetIds /\ \A b \in S : bets[b].status # "none"
    BY <1>2
  <2> HIDE DEF W, S
  <2> QED BY <1>5, <2>1, StakesType
<1>9. /\ Stakes(W) = SumFunctionOnSet(f, W) /\ Stakes(S) = SumFunctionOnSet(f, S)
      /\ Stakes(W)' = SumFunctionOnSet(g, U)
  BY <1>1 DEF Stakes, StakesOf, SumOf
<1> HIDE DEF S, T, W, V, U, f, g
<1>10. SumFunctionOnSet(g, U) = SumFunctionOnSet(f, W) + SumFunctionOnSet(f, S)
  <2>1. SumFunctionOnSet(f, U) = SumFunctionOnSet(g, U)
    BY <1>3, <1>7, SumCongruence
  <2>2. SumFunctionOnSet(f, U) = SumFunctionOnSet(f, W) + SumFunctionOnSet(f, U \ W)
    BY <1>2, <1>3, <1>7, SumSplit
  <2> QED BY <1>2, <2>1, <2>2
<1>11. Cardinality(V)' = Cardinality(V) + Cardinality(T)
  BY <1>1, <1>4
<1> QED BY <1>4, <1>8, <1>9, <1>10, <1>11 DEF S, T, W, V

\* What is kept of a contested pot p of which Q units are paid to n winners:
\* of gold at most a unit a winner, of sweep coins 150 units a coin, up to a
\* unit a winner.
LEMMA KeptOfPot ==
  ASSUME NEW kept \in Int, NEW payouts \in Nat, NEW staked \in Nat,
         NEW n \in Nat, NEW p \in Nat, NEW Q \in Int, kept >= 0, n <= p
  PROVE  /\ (kept \in -payouts .. payouts /\ p - n <= Q /\ Q <= p)
              => LET after == kept - Q + p IN
                   after >= 0 /\ after \in -(payouts + n) .. (payouts + n)
         /\ (/\ kept - 150 * staked \in -payouts .. payouts
             /\ 1700 * p - n <= 2 * Q /\ 2 * Q <= 1700 * p + n)
              => LET after == kept - Q + p * 1000 IN
                   after >= 0 /\ after - 150 * (staked + p) \in -(payouts + n) .. (payouts + n)
OBVIOUS

\* The pay of the winners is all that a contested pot pays out.
LEMMA ContestedCredits ==
  ASSUME TypeOK, PoolsMatchBets, NEW o \in Options, NEW short, Declared(o, short),
         NEW c \in Currencies, Contested(bets, o, c), Counted(o, c) = Side(bets, o, c, {o})
  PROVE  LET S == Side(bets, o, c, Options)
             T == Side(bets, o, c, {o})
             pay == Pays(o, short) IN
         /\ \A b \in S : Credits(o, short)[b] \in Int
         /\ SumFunctionOnSet(Credits(o, short), S) = SumFunctionOnSet(pay, T)
<1> DEFINE S == Side(bets, o, c, Options)
           T == Side(bets, o, c, {o})
           pay == Pays(o, short)
           credit == Credits(o, short)
<1>1. /\ S \in SUBSET BetIds /\ T \in SUBSET S
      /\ \A b \in S : bets[b].currency = c /\ (b \in T <=> bets[b].option = o)
  BY DEF Side, ActiveRows
<1>2. \A b \in T : pay[b] \in Int
  <2>1. short \in SUBSET Roundable(bets, total, o)
    BY DEF Declared
  <2>2. PaidOf(o, c, short)
    BY <2>1, PaidOut
  <2> QED BY <2>2 DEF PaidOf
<1>3. IsFiniteSet(S)
  BY <1>1, BetIdsAssumption, FS_Subset
<1>4. /\ \A b \in T : credit[b] = pay[b]
      /\ \A b \in S \ T : credit[b] = 0
  BY <1>1 DEF Credits, Credit, Pays
<1> HIDE DEF S, T, pay, credit
<1>5. \A b \in S : credit[b] \in Int
  BY <1>2, <1>4
<1>6. SumFunctionOnSet(credit, S) = SumFunctionOnSet(pay, T)
  BY <1>1, <1>2, <1>3, <1>4, SumRestrict
<1> QED BY <1>5, <1>6 DEF S, T, pay, credit

\* A contested pot is paid out, less the fee of sweep coins.
LEMMA PotAccounted ==
  ASSUME TypeOK, PoolsMatchBets, TypeOK', NEW o \in Options, NEW short, Declared(o, short),
         NEW c \in Currencies, AccountedIn(c), Contested(bets, o, c),
         Counted(o, c) = Side(bets, o, c, {o})
  PROVE  AccountedIn(c)'
<1> DEFINE S == Side(bets, o, c, Options)
           T == Side(bets, o, c, {o})
           pay == Pays(o, short)
           Q == SumFunctionOnSet(pay, T)
           n == Cardinality(T)
           p == Stakes(S)
           W == With({"won", "lost"}, c)
           staked == Stakes(W)
           V == With({"won"}, c)
           payouts == Cardinality(V)
           kept == Opening(c) - Held(c)
<1>1. Held(c)' = Held(c) + Q - p * Unit(c)
  BY ContestedCredits, DeclaredHeld
<1>2. /\ payouts' = payouts + n /\ staked' = staked + p
      /\ payouts \in Nat /\ n \in Nat /\ staked \in Nat /\ p \in Nat
  BY ContestedCounts
<1>3. /\ n <= p /\ Q \in Int
      /\ c = Gold => p - n <= Q /\ Q <= p
      /\ c = Sweep => 1700 * p - n <= 2 * Q /\ 2 * Q <= 1700 * p + n
  <2>1. short \in SUBSET Roundable(bets, total, o) /\ p = Pot(bets, o, c)
    BY DEF Declared, Pot, Stakes
  <2>2. PaidOf(o, c, short)
    BY <2>1, PaidOut
  <2> QED BY <2>1, <2>2 DEF PaidOf
<1>4. Held(c) \in Int /\ Opening(c) \in Int
  <2>1. Held(c) \in Int
    BY HeldType
  <2>2. Opening(c) \in Int
    <3> DEFINE w == [u \in Users |-> OpeningBalance[c]]
    <3>1. \A u \in Users : w[u] \in Int
      BY OpeningAssumption
    <3> HIDE DEF w
    <3>2. SumFunctionOnSet(w, Users) \in Int
      BY <3>1, UsersAssumption, SumType
    <3> QED BY <3>2 DEF Opening, SumOf, w
  <2> QED BY <2>1, <2>2
<1>5. Opening(c)' = Opening(c)
  BY DEF Opening
<1>6. kept >= 0 /\ kept - Fee(c) \in -payouts .. payouts
  BY DEF AccountedIn
<1>7. /\ Fee(c) = IF c = Gold THEN 0 ELSE 150 * staked
      /\ Fee(c)' = IF c = Gold THEN 0 ELSE 150 * staked'
  BY DEF Fee
<1>8. AccountedIn(c)' <=>
        LET k == Opening(c)' - Held(c)' IN
          k >= 0 /\ k - Fee(c)' \in -(payouts') .. payouts'
  BY DEF AccountedIn
<1> HIDE DEF S, T, pay, Q, n, p, W, staked, V, payouts
<1>9. CASE c = Gold
  <2>1. Unit(c) = 1 /\ Fee(c) = 0 /\ Fee(c)' = 0
    BY <1>7, <1>9 DEF Unit
  <2>2. Opening(c)' - Held(c)' = kept - Q + p
    BY <1>1, <1>2, <1>3, <1>4, <1>5, <2>1
  <2>3. kept \in Int /\ kept >= 0 /\ kept \in -payouts .. payouts
    BY <1>4, <1>6, <2>1
  <2> HIDE DEF kept
  <2>4. /\ kept - Q + p >= 0
        /\ kept - Q + p \in -(payouts + n) .. (payouts + n)
    BY <1>2, <1>3, <1>9, <2>3, KeptOfPot
  <2> QED BY <1>2, <1>8, <2>1, <2>2, <2>4
<1>10. CASE c = Sweep
  <2>1. Unit(c) = 1000 /\ Fee(c) = 150 * staked /\ Fee(c)' = 150 * (staked + p)
    BY <1>2, <1>7, <1>10 DEF Unit, Gold, Sweep
  <2>2. Opening(c)' - Held(c)' = kept - Q + p * 1000
    BY <1>1, <1>2, <1>3, <1>4, <1>5, <2>1
  <2>3. kept \in Int /\ kept >= 0 /\ kept - 150 * staked \in -payouts .. payouts
    BY <1>4, <1>6, <2>1
  <2> HIDE DEF kept
  <2> DEFINE after == kept - Q + p * 1000
  <2>4. /\ after >= 0
        /\ after - 150 * (staked + p) \in -(payouts + n) .. (payouts + n)
    BY <1>2, <1>3, <1>10, <2>3, KeptOfPot
  <2>5. after = Opening(c)' - Held(c)'
    BY <2>2
  <2> HIDE DEF after
  <2>6. after >= 0 /\ after - Fee(c)' \in -(payouts') .. payouts'
    BY <1>2, <2>1, <2>4
  <2> QED BY <1>8, <2>5, <2>6
<1> QED BY <1>9, <1>10 DEF Currencies

----------------------------------------------------------------------------
(***************************************************************************)
(* Every step.                                                             *)
(***************************************************************************)

\* What is accounted for stays so in every step, whichever the handler.
LEMMA NextAccounted ==
  ASSUME IInv, [Next]_vars, NEW c \in Currencies, AccountedIn(c)
  PROVE  AccountedIn(c)'
<1>1. TypeOK /\ TypeOK'
  BY NextIInv DEF IInv
<1>2. CASE \/ \E r \in Rounds : OpenRound(r) \/ LockRound(r)
           \/ \E o \in Options : LockOption(o)
           \/ EndStream \/ UpdateStreamStatus \/ UNCHANGED vars
  <2>1. bets' = bets /\ wallet' = wallet
    BY <1>2 DEF OpenRound, LockRound, LockOption, EndStream, UpdateStreamStatus, vars
  <2>2. Held(c)' = Held(c)
    BY <2>1 DEF Held, Stakes, StakesOf, With
  <2> QED BY <1>1, <2>1, <2>2, UndecidedAccounted
<1>3. ASSUME NEW b \in BetIds, Held(c)' = Held(c),
             Undecided(bets[b], c), Undecided(bets'[b], c),
             \A e \in BetIds \ {b} : bets'[e] = bets[e]
      PROVE  AccountedIn(c)'
  BY <1>1, <1>3, UndecidedAccounted
<1>4. ASSUME NEW u \in Users, NEW o \in Options, NEW d \in Currencies,
             NEW a \in Amounts, NEW b \in BetIds, PlaceBet(u, o, d, a, b)
      PROVE  AccountedIn(c)'
  <2>1. bets[b] = NoBet /\ bets' = [bets EXCEPT ![b] = NewBet(u, o, d, a)]
    BY <1>4 DEF PlaceBet, Placing
  <2>2. bets[b].status = "none" /\ bets'[b].status = "active"
    BY <1>1, <2>1 DEF TypeOK, NoBet, NewBet
  <2> QED BY <1>1, <1>3, <1>4, <2>1, <2>2, PlacingHeld DEF PlaceBet, Undecided
<1>5. ASSUME NEW b \in BetIds, NEW o \in Options, NEW d \in Currencies,
             NEW a \in Amounts, EditBet(b, o, d, a)
      PROVE  AccountedIn(c)'
  <2>1. /\ bets[b] \in Bet /\ bets[b].status = "active"
        /\ bets' = [bets EXCEPT ![b] = [bets[b] EXCEPT !.option = o,
                      !.round = RoundOf[o], !.currency = d, !.amount = a]]
    BY <1>1, <1>5, BetFacts DEF EditBet, Editing, Active
  <2>2. bets'[b].status = "active" /\ \A e \in BetIds \ {b} : bets'[e] = bets[e]
    BY <1>1, <2>1 DEF TypeOK, Bet
  <2> QED BY <1>1, <1>3, <1>5, <2>1, <2>2, EditingHeld DEF EditBet, Undecided
<1>6. ASSUME NEW b \in BetIds, CancelBet(b) PROVE AccountedIn(c)'
  <2>1. /\ bets[b] \in Bet /\ bets[b].status = "active"
        /\ bets' = [bets EXCEPT ![b] = [bets[b] EXCEPT !.status = "cancelled"]]
    BY <1>1, <1>6, BetFacts DEF CancelBet, Cancelling, Active
  <2>2. bets'[b].status = "cancelled" /\ \A e \in BetIds \ {b} : bets'[e] = bets[e]
    BY <1>1, <2>1 DEF TypeOK, Bet
  <2> QED BY <1>1, <1>3, <1>6, <2>1, <2>2, CancellingHeld DEF CancelBet, Undecided
<1>7. ASSUME NEW r \in Rounds, CancelRound(r) PROVE AccountedIn(c)'
  <2>1. \A b \in BetIds : \/ bets'[b] = bets[b]
                          \/ Undecided(bets[b], c) /\ Undecided(bets'[b], c)
    <3> SUFFICES ASSUME NEW b \in BetIds, bets'[b] # bets[b]
                 PROVE  Undecided(bets[b], c) /\ Undecided(bets'[b], c)
      OBVIOUS
    <3>1. Active(b) /\ bets'[b] = [bets[b] EXCEPT !.status = "cancelled"]
      BY <1>1, <1>7, CancelRoundBets
    <3>2. bets[b] \in Bet
      BY <1>1, <3>1, BetFacts DEF Active
    <3> QED BY <3>1, <3>2 DEF Bet, Active, Undecided
  <2> QED BY <1>1, <1>7, <2>1, CancelRoundHeld, UndecidedAccounted
<1>8. ASSUME NEW o \in Options, DeclareWinner(o) PROVE AccountedIn(c)'
  <2>1. PoolsMatchBets /\ Counted(o, c) = Side(bets, o, c, {o})
    BY <1>8, CountedAwaits DEF DeclareWinner, IInv
  <2>2. PICK short : Declared(o, short)
    BY <1>8 DEF DeclareWinner, Settling, Declared, ActiveIn
  <2>3. CASE Contested(bets, o, c)
    BY <1>1, <2>1, <2>2, <2>3, PotAccounted
  <2>4. CASE ~ Contested(bets, o, c)
    BY <1>1, <2>1, <2>2, <2>4, RefundAccounted
  <2> QED BY <2>3, <2>4
<1> QED BY <1>2, <1>4, <1>5, <1>6, <1>7, <1>8 DEF Next

\* At the start the users hold what they opened with, and no bet has a result.
LEMMA InitAccounted ==
  ASSUME Init, NEW c \in Currencies
  PROVE  AccountedIn(c)
<1> DEFINE W == With({"won", "lost"}, c)
           V == With({"won"}, c)
           A == With({"active"}, c)
<1>1. W = {} /\ V = {} /\ A = {}
  BY DEF Init, NoBet, With
<1>2. Stakes(W) = 0 /\ Stakes(A) = 0 /\ Cardinality(V) = 0
  <2> HIDE DEF W, V, A
  <2> QED BY <1>1, SumEmpty, FS_EmptySet DEF Stakes, StakesOf, SumOf
<1>3. Fee(c) = 0
  BY <1>2 DEF Fee
<1> DEFINE w == [u \in Users |-> OpeningBalance[c]]
<1>4. [u \in Users |-> wallet[u][c]] = w
  BY DEF Init
<1>5. Opening(c) = SumFunctionOnSet(w, Users)
  BY DEF Opening, SumOf
<1>6. Opening(c) \in Int
  <2>1. \A u \in Users : w[u] \in Int
    BY OpeningAssumption
  <2> HIDE DEF w
  <2> QED BY <1>5, <2>1, UsersAssumption, SumType
<1>7. Held(c) = Opening(c) + 0 * Unit(c)
  BY <1>2, <1>4, <1>5 DEF Held, SumOf
<1>8. Held(c) = Opening(c)
  BY <1>6, <1>7, UnitType
<1> QED BY <1>2, <1>3, <1>6, <1>8 DEF AccountedIn

\* No coin is created or lost, for any users, rounds and stakes: what the
\* users no longer hold is the fee of the contested pots of sweep coins, up
\* to a unit per payout for the rounding and the error of the doubles.
THEOREM MoneyIsAccounted == Spec => []MoneyAccounted
<1> DEFINE Accounted == \A c \in Currencies : AccountedIn(c)
<1>1. Accounted <=> MoneyAccounted
  BY DEF AccountedIn, MoneyAccounted
<1>2. Init => Accounted
  BY InitAccounted
<1>3. IInv /\ Accounted /\ [Next]_vars => Accounted'
  BY NextAccounted
<1> HIDE DEF Accounted
<1> QED BY <1>1, <1>2, <1>3, Invariance, PTL DEF Spec

----------------------------------------------------------------------------
(***************************************************************************)
(* The figures that users and administrators are shown.  Those taken from  *)
(* the options agree with those taken from the rows because the pools do   *)
(* (PoolsMatchBets, summed over options), and what was shown of a result   *)
(* stays so because nothing enters, leaves or changes in a round that is   *)
(* over; the pot of a result is the total the forecasts were taken from.   *)
(***************************************************************************)

\* The bets in one currency that the options of a set count.
CountedOn(os, c) ==
  {b \in BetIds : /\ bets[b].status \notin {"none", "cancelled"}
                  /\ bets[b].option \in os /\ bets[b].currency = c}

\* Such bets were inserted.
LEMMA CountedOnFacts ==
  ASSUME TypeOK, NEW os \in SUBSET Options, NEW c \in Currencies
  PROVE  /\ CountedOn(os, c) \in SUBSET BetIds /\ IsFiniteSet(CountedOn(os, c))
         /\ \A b \in CountedOn(os, c) :
              /\ bets[b].status # "none"
              /\ [e \in BetIds |-> bets[e].amount][b] \in Nat \ {0}
         /\ Stakes(CountedOn(os, c)) \in Nat
<1>1. /\ CountedOn(os, c) \in SUBSET BetIds
      /\ \A b \in CountedOn(os, c) : bets[b].status # "none"
  BY DEF CountedOn
<1> QED BY <1>1, StakesType

\* The totals and counts of a set of options are those of the bets on them.
LEMMA OverIsCounted ==
  ASSUME IInv, NEW os \in SUBSET Options, NEW c \in Currencies
  PROVE  /\ Over(total, os, c) = Stakes(CountedOn(os, c))
         /\ Over(count, os, c) = Cardinality(CountedOn(os, c))
<1> DEFINE S == CountedOn(os, c)
           f == [e \in BetIds |-> bets[e].amount]
           one == [e \in BetIds |-> 1]
           on == [e \in BetIds |-> bets[e].option]
           t == [o \in Options |-> total[o][c]]
           n == [o \in Options |-> count[o][c]]
<1>1. /\ S \in SUBSET BetIds /\ IsFiniteSet(S) /\ IsFiniteSet(os)
      /\ \A b \in S : f[b] \in Int /\ on[b] \in os
  <2>1. S \in SUBSET BetIds /\ IsFiniteSet(S) /\ \A b \in S : f[b] \in Nat \ {0}
    BY CountedOnFacts DEF IInv
  <2>2. \A b \in S : on[b] \in os
    BY DEF CountedOn
  <2> QED BY <2>1, <2>2, OptionsAssumption, FS_Subset
<1>2. \A o \in os : Counted(o, c) = PartOf(S, on, o) /\ IsFiniteSet(PartOf(S, on, o))
  <2> SUFFICES ASSUME NEW o \in os
               PROVE  Counted(o, c) = PartOf(S, on, o) /\ IsFiniteSet(PartOf(S, on, o))
    OBVIOUS
  <2>1. Counted(o, c) = PartOf(S, on, o)
    BY DEF CountedOn, Counted, PartOf
  <2>2. PartOf(S, on, o) \in SUBSET S
    BY DEF PartOf
  <2> HIDE DEF S, on
  <2> QED BY <1>1, <2>1, <2>2, FS_Subset
<1>3. \A o \in os : t[o] = SumsPerOwner(f, S, on, os)[o]
  <2> SUFFICES ASSUME NEW o \in os
               PROVE  t[o] = SumsPerOwner(f, S, on, os)[o]
    OBVIOUS
  <2>1. t[o] = SumFunctionOnSet(f, Counted(o, c))
    BY DEF IInv, PoolsMatchBets, Stakes, StakesOf, SumOf
  <2>2. Counted(o, c) = PartOf(S, on, o)
    BY <1>2
  <2> HIDE DEF t, S, f, on
  <2> QED BY <2>1, <2>2 DEF SumsPerOwner
<1>4. \A o \in os : n[o] = SumsPerOwner(one, S, on, os)[o]
  <2> SUFFICES ASSUME NEW o \in os
               PROVE  n[o] = SumsPerOwner(one, S, on, os)[o]
    OBVIOUS
  <2>1. n[o] = Cardinality(Counted(o, c))
    BY DEF IInv, PoolsMatchBets
  <2>2. Counted(o, c) = PartOf(S, on, o) /\ IsFiniteSet(PartOf(S, on, o))
    BY <1>2
  <2>3. \A b \in PartOf(S, on, o) : one[b] = 1
    BY <1>1 DEF PartOf
  <2>5. Cardinality(PartOf(S, on, o)) \in Nat
    BY <2>2, FS_CardinalityType
  <2> HIDE DEF n, S, one, on
  <2>4. SumFunctionOnSet(one, PartOf(S, on, o)) = 1 * Cardinality(PartOf(S, on, o))
    BY <2>2, <2>3, SumConstant
  <2> QED BY <2>1, <2>2, <2>4, <2>5 DEF SumsPerOwner
<1>5. \A b \in S : one[b] \in Int /\ one[b] = 1
  BY <1>1
<1>8. (\A o \in os : t[o] \in Int) /\ (\A o \in os : n[o] \in Int)
  BY DEF IInv, TypeOK, PoolTable
<1>9. /\ Over(total, os, c) = SumFunctionOnSet(t, os)
      /\ Over(count, os, c) = SumFunctionOnSet(n, os)
      /\ Stakes(S) = SumFunctionOnSet(f, S)
  BY DEF Over, SumOf, Stakes, StakesOf
<1> HIDE DEF S, f, one, on, t, n
<1>6. SumFunctionOnSet(t, os) = SumFunctionOnSet(f, S)
  <2>1. SumFunctionOnSet(SumsPerOwner(f, S, on, os), os) = SumFunctionOnSet(f, S)
    BY <1>1, SumByOwner
  <2> QED BY <1>1, <1>3, <1>8, <2>1, SumCongruence
<1>7. SumFunctionOnSet(n, os) = Cardinality(S)
  <2>1. SumFunctionOnSet(SumsPerOwner(one, S, on, os), os) = SumFunctionOnSet(one, S)
    BY <1>1, <1>5, SumByOwner
  <2>2. Cardinality(S) \in Nat
    BY <1>1, FS_CardinalityType
  <2>3. SumFunctionOnSet(one, S) = 1 * Cardinality(S)
    BY <1>1, <1>5, SumConstant
  <2>4. SumFunctionOnSet(n, os) = SumFunctionOnSet(SumsPerOwner(one, S, on, os), os)
    BY <1>1, <1>4, <1>8, SumCongruence
  <2> QED BY <2>1, <2>2, <2>3, <2>4
<1> QED BY <1>6, <1>7, <1>9 DEF S

\* Two sets of bets that make up a third share its stakes.
LEMMA StakesSplit ==
  ASSUME TypeOK, NEW S \in SUBSET BetIds, \A b \in S : bets[b].status # "none",
         NEW T \in SUBSET S
  PROVE  /\ Stakes(S) = Stakes(T) + Stakes(S \ T)
         /\ Stakes(T) \in Nat /\ Stakes(S \ T) \in Nat
<1> DEFINE f == [e \in BetIds |-> bets[e].amount]
<1>1. IsFiniteSet(S) /\ \A b \in S : f[b] \in Nat \ {0}
  BY StakesType
<1>2. Stakes(T) \in Nat /\ Stakes(S \ T) \in Nat
  BY StakesType
<1>3. \A R : Stakes(R) = SumFunctionOnSet(f, R)
  BY DEF Stakes, StakesOf, SumOf
<1> HIDE DEF f
<1>4. SumFunctionOnSet(f, S) = SumFunctionOnSet(f, T) + SumFunctionOnSet(f, S \ T)
  BY <1>1, SumSplit
<1> QED BY <1>2, <1>3, <1>4

----------------------------------------------------------------------------
\* The pools of open rounds, and all pools, against the rows.
LEMMA PoolsAreRows ==
  ASSUME IInv, NEW c \in Currencies
  PROVE  PoolsMatchRows(c)
<1> DEFINE open == OptionsOf(RoundsIn({"open"}))
           refunded == {b \in BetIds : bets[b].status = "refunded" /\ bets[b].currency = c}
           all == CountedOn(Options, c)
<1>1. CountedOn(open, c) = StatsBets(c)
  <2>1. ASSUME NEW b \in CountedOn(open, c) PROVE b \in StatsBets(c)
    <3>1. /\ b \in BetIds /\ bets[b].status \notin {"none", "cancelled"}
          /\ bets[b].option \in Options /\ RoundOf[bets[b].option] \in Rounds
          /\ roundStatus[RoundOf[bets[b].option]] = "open" /\ bets[b].currency = c
      BY DEF CountedOn, OptionsOf, RoundsIn
    <3>2. bets[b] # NoBet /\ bets[b].status \in BetStatus
      BY <3>1, BetFacts DEF NoBet, IInv
    <3>3. bets[b].round = RoundOf[bets[b].option]
      BY <3>1, <3>2 DEF IInv, NoStrandedBet
    <3>4. bets[b].status = "active"
      BY <3>1, <3>2, <3>3 DEF IInv, ResultsAgree, BetStatus
    <3> QED BY <3>1, <3>3, <3>4 DEF StatsBets, RoundsIn, Active
  <2>2. ASSUME NEW b \in StatsBets(c) PROVE b \in CountedOn(open, c)
    <3>1. /\ b \in BetIds /\ bets[b].status = "active" /\ bets[b].currency = c
          /\ bets[b].round \in RoundsIn({"open"}) /\ bets[b] # NoBet
      BY DEF StatsBets, Active, NoBet
    <3>2. bets[b].round = RoundOf[bets[b].option] /\ bets[b].option \in Options
      BY <3>1, BetFacts DEF IInv, NoStrandedBet
    <3> QED BY <3>1, <3>2 DEF CountedOn, OptionsOf
  <2> QED BY <2>1, <2>2
<1>2. /\ Over(total, open, c) = Stakes(StatsBets(c))
      /\ Over(count, open, c) = Cardinality(StatsBets(c))
  <2>1. open \in SUBSET Options
    BY DEF OptionsOf
  <2> QED BY <1>1, <2>1, OverIsCounted
<1>3. ValuedBets(c) = all \ refunded /\ refunded \in SUBSET all
  <2>1. \A b \in BetIds : bets[b].status # "none" =>
          bets[b].option \in Options /\ bets[b].status # "pending"
    BY BetFacts DEF IInv, BetStatus
  <2> QED BY <2>1 DEF ValuedBets, CountedOn
<1>4. /\ all \in SUBSET BetIds /\ TypeOK
      /\ \A b \in all : bets[b].status # "none"
  BY DEF CountedOn, IInv
<1>5. Over(total, Options, c) = Stakes(all)
  BY OverIsCounted
<1> HIDE DEF all, refunded
<1>6. /\ Stakes(all) = Stakes(refunded) + Stakes(all \ refunded)
      /\ Stakes(refunded) \in Nat /\ Stakes(all \ refunded) \in Nat
  BY <1>3, <1>4, StakesSplit
<1>7. Over(total, Options, c) = Stakes(ValuedBets(c)) + Stakes(refunded)
  BY <1>3, <1>5, <1>6
<1> QED BY <1>2, <1>7 DEF PoolsMatchRows, refunded

\* The first status that occurs is the one that is shown.
LEMMA FirstStatus ==
  ASSUME NEW statuses, NEW i \in 1 .. 5, Precedence[i] \in statuses,
         \A j \in 1 .. i - 1 : Precedence[j] \notin statuses
  PROVE  DetailsStatus(statuses) = Precedence[i]
<1> DEFINE First(k) == /\ Precedence[k] \in statuses
                       /\ \A j \in 1 .. k - 1 : Precedence[j] \notin statuses
           first == CHOOSE k \in DOMAIN Precedence : First(k)
<1>1. DOMAIN Precedence = 1 .. 5
  BY DEF Precedence
<1>2. First(first) /\ first \in 1 .. 5
  BY <1>1
<1>3. first = i
  <2> HIDE DEF first
  <2>1. ~ (first \in 1 .. i - 1) /\ ~ (i \in 1 .. first - 1)
    BY <1>2
  <2> QED BY <1>2, <2>1
<1>4. DetailsStatus(statuses) = Precedence[first]
  BY <1>1 DEF DetailsStatus
<1> HIDE DEF first
<1> QED BY <1>3, <1>4

\* The two queries of the state of the rounds say the same.
LEMMA StatusesAgree ==
  ASSUME NEW statuses \in SUBSET RoundStatus
  PROVE  ListStatus(statuses) = DetailsStatus(statuses)
<1>1. /\ DOMAIN Precedence = 1 .. 5
      /\ Precedence[1] = "open" /\ Precedence[2] = "locked" /\ Precedence[3] = "created"
      /\ Precedence[4] = "closed" /\ Precedence[5] = "cancelled"
  BY DEF Precedence
<1>2. CASE "open" \in statuses
  <2>1. DetailsStatus(statuses) = Precedence[1]
    BY <1>1, <1>2, FirstStatus
  <2> QED BY <1>1, <1>2, <2>1 DEF ListStatus
<1>3. CASE "locked" \in statuses /\ "open" \notin statuses
  <2>1. DetailsStatus(statuses) = Precedence[2]
    BY <1>1, <1>3, FirstStatus
  <2> QED BY <1>1, <1>3, <2>1 DEF ListStatus
<1>4. CASE "created" \in statuses /\ statuses \cap {"open", "locked"} = {}
  <2>1. \A j \in 1 .. 3 - 1 : Precedence[j] \notin statuses
    BY <1>1, <1>4
  <2>2. DetailsStatus(statuses) = Precedence[3]
    BY <1>1, <1>4, <2>1, FirstStatus
  <2> QED BY <1>1, <1>4, <2>2 DEF ListStatus
<1>5. CASE "closed" \in statuses /\ statuses \cap {"open", "locked", "created"} = {}
  <2>1. \A j \in 1 .. 4 - 1 : Precedence[j] \notin statuses
    BY <1>1, <1>5
  <2>2. DetailsStatus(statuses) = Precedence[4]
    BY <1>1, <1>5, <2>1, FirstStatus
  <2> QED BY <1>1, <1>5, <2>2 DEF ListStatus
<1>6. CASE statuses = {"cancelled"}
  <2>1. \A j \in 1 .. 5 - 1 : Precedence[j] \notin statuses
    BY <1>1, <1>6
  <2>2. DetailsStatus(statuses) = Precedence[5]
    BY <1>1, <1>6, <2>1, FirstStatus
  <2> QED BY <1>1, <1>6, <2>2 DEF ListStatus
<1>7. CASE statuses = {}
  BY <1>7 DEF ListStatus, DetailsStatus
<1> QED BY <1>2, <1>3, <1>4, <1>5, <1>6, <1>7 DEF RoundStatus

----------------------------------------------------------------------------
\* In a round that is locked, what its options count is what declareWinner
\* finds: all its bets, or those on some of the options.
LEMMA LockedIsSide ==
  ASSUME IInv, NEW o \in Options, NEW c \in Currencies,
         roundStatus[RoundOf[o]] = "locked", NEW os,
         os \in SUBSET OptionsOf({RoundOf[o]})
  PROVE  /\ CountedOn(os, c) = Side(bets, o, c, os)
         /\ os = OptionsOf({RoundOf[o]}) => Side(bets, o, c, os) = Side(bets, o, c, Options)
<1>1. ASSUME NEW b \in CountedOn(os, c) PROVE b \in Side(bets, o, c, os)
  <2>1. /\ b \in BetIds /\ bets[b].status \notin {"none", "cancelled"}
        /\ bets[b].option \in os /\ bets[b].currency = c /\ bets[b] # NoBet
        /\ RoundOf[bets[b].option] = RoundOf[o]
    BY DEF CountedOn, NoBet, OptionsOf
  <2>2. bets[b].round = RoundOf[o]
    BY <2>1 DEF IInv, NoStrandedBet
  <2>3. bets[b].status \in BetStatus
    BY <2>1, BetFacts DEF IInv
  <2>4. bets[b].status = "active"
    BY <2>1, <2>2, <2>3 DEF IInv, ResultsAgree, BetStatus
  <2> QED BY <2>1, <2>2, <2>4 DEF Side, ActiveRows
<1>2. ASSUME NEW b \in Side(bets, o, c, os) PROVE b \in CountedOn(os, c)
  BY DEF Side, ActiveRows, CountedOn
<1>3. ASSUME os = OptionsOf({RoundOf[o]}), NEW b \in Side(bets, o, c, Options)
      PROVE  b \in Side(bets, o, c, os)
  <2>1. /\ b \in BetIds /\ bets[b].status = "active" /\ bets[b] # NoBet
        /\ bets[b].option \in Options /\ bets[b].round = RoundOf[o]
    BY DEF Side, ActiveRows, NoBet
  <2>2. RoundOf[bets[b].option] = RoundOf[o]
    BY <2>1 DEF IInv, NoStrandedBet
  <2> QED BY <1>3, <2>1, <2>2 DEF Side, OptionsOf
<1>4. os = OptionsOf({RoundOf[o]}) =>
        Side(bets, o, c, os) \subseteq Side(bets, o, c, Options)
  BY DEF Side, OptionsOf
<1> QED BY <1>1, <1>2, <1>3, <1>4

\* The pot that declareWinner finds in the rows is the total of the round
\* that the forecasts take from its options.
LEMMA PotIsRoundTotal ==
  ASSUME IInv, NEW o \in Options, NEW c \in Currencies,
         roundStatus[RoundOf[o]] = "locked"
  PROVE  Pot(bets, o, c) = RoundTotal(o, c)
<1> DEFINE os == OptionsOf({RoundOf[o]})
<1>1. os \in SUBSET Options
  BY DEF OptionsOf
<1>2. CountedOn(os, c) = Side(bets, o, c, Options)
  BY LockedIsSide
<1>3. Over(total, os, c) = Stakes(CountedOn(os, c))
  BY <1>1, OverIsCounted
<1> QED BY <1>2, <1>3 DEF Pot, RoundTotal, Stakes

\* How a row changes: with the result of its round, or staying on its option,
\* or coming to an option of an open round.
LEMMA RowStep ==
  ASSUME IInv, [Next]_vars, NEW b \in BetIds
  PROVE  \/ bets'[b] = bets[b]
         \/ \E o \in Options : DeclareWinner(o) /\ b \in ActiveIn(RoundOf[o])
         \/ /\ bets'[b].status \in {"active", "cancelled"}
            /\ \/ Active(b) /\ bets'[b].option = bets[b].option
               \/ /\ bets'[b].option \in Options
                  /\ roundStatus[RoundOf[bets'[b].option]] = "open"
<1> DEFINE Goal ==
      \/ bets'[b] = bets[b]
      \/ \E o \in Options : DeclareWinner(o) /\ b \in ActiveIn(RoundOf[o])
      \/ /\ bets'[b].status \in {"active", "cancelled"}
         /\ \/ Active(b) /\ bets'[b].option = bets[b].option
            \/ /\ bets'[b].option \in Options
               /\ roundStatus[RoundOf[bets'[b].option]] = "open"
<1>0. TypeOK /\ bets \in [BetIds -> Bet \cup {NoBet}]
  BY DEF IInv, TypeOK
<1>1. CASE \/ \E r \in Rounds : OpenRound(r) \/ LockRound(r)
           \/ \E o \in Options : LockOption(o)
           \/ EndStream \/ UpdateStreamStatus \/ UNCHANGED vars
  BY <1>1 DEF OpenRound, LockRound, LockOption, EndStream, UpdateStreamStatus, vars
<1>2. ASSUME NEW u \in Users, NEW o \in Options, NEW c \in Currencies,
             NEW a \in Amounts, NEW e \in BetIds, PlaceBet(u, o, c, a, e)
      PROVE  Goal
  <2>1. bets' = [bets EXCEPT ![e] = NewBet(u, o, c, a)] /\ roundStatus[RoundOf[o]] = "open"
    BY <1>2 DEF PlaceBet, Placing, BettingOn
  <2> QED BY <1>0, <2>1 DEF NewBet
<1>3. ASSUME NEW e \in BetIds, NEW o \in Options, NEW c \in Currencies,
             NEW a \in Amounts, EditBet(e, o, c, a)
      PROVE  Goal
  <2>1. /\ bets[e] \in Bet /\ bets[e].status = "active"
        /\ bets' = [bets EXCEPT ![e] = [bets[e] EXCEPT !.option = o,
                      !.round = RoundOf[o], !.currency = c, !.amount = a]]
        /\ roundStatus[RoundOf[o]] = "open"
    BY <1>0, <1>3, BetFacts DEF EditBet, Editing, Active, BettingOn
  <2> QED BY <1>0, <2>1 DEF Bet
<1>4. ASSUME NEW e \in BetIds, CancelBet(e) PROVE Goal
  <2>1. /\ bets[e] \in Bet /\ Active(e)
        /\ bets' = [bets EXCEPT ![e] = [bets[e] EXCEPT !.status = "cancelled"]]
    BY <1>0, <1>4, BetFacts DEF CancelBet, Cancelling, Active
  <2> QED BY <1>0, <2>1 DEF Bet
<1>5. ASSUME NEW o \in Options, DeclareWinner(o) PROVE Goal
  <2>1. CASE b \notin ActiveRows(bets, RoundOf[o])
    BY <1>5, <2>1 DEF DeclareWinner, Settling
  <2>2. CASE b \in ActiveRows(bets, RoundOf[o])
    BY <1>5, <2>2 DEF ActiveIn
  <2> QED BY <2>1, <2>2
<1>6. ASSUME NEW r \in Rounds, CancelRound(r) PROVE Goal
  <2>1. CASE Active(b) /\ RoundOf[bets[b].option] = r
    <3>1. bets[b] \in Bet /\ bets'[b] = [bets[b] EXCEPT !.status = "cancelled"]
      BY <1>0, <1>6, <2>1, BetFacts, CancelRoundBets DEF Active
    <3> QED BY <2>1, <3>1 DEF Bet
  <2>2. CASE ~ (Active(b) /\ RoundOf[bets[b].option] = r)
    BY <1>0, <1>6, <2>2, CancelRoundBets
  <2> QED BY <2>1, <2>2
<1>7. Goal
  BY <1>1, <1>2, <1>3, <1>4, <1>5, <1>6 DEF Next
<1> QED BY <1>7

\* Nothing comes, goes or changes in a round that is over.
LEMMA OverRoundKeeps ==
  ASSUME IInv, [Next]_vars, NEW r \in Rounds, roundStatus[r] \in {"closed", "cancelled"}
  PROVE  /\ \A b \in BetIds :
              \/ bets[b].status # "none" /\ RoundOf[bets[b].option] = r
              \/ bets'[b].status # "none" /\ RoundOf[bets'[b].option] = r
              => bets'[b] = bets[b]
         /\ \A o \in OptionsOf({r}) : winning'[o] = winning[o]
<1>1. ASSUME NEW b \in BetIds, bets'[b] # bets[b], bets[b].status # "none",
             RoundOf[bets[b].option] = r
      PROVE  FALSE
  <2>1. bets[b] # NoBet /\ bets[b].round = r
    BY <1>1 DEF NoBet, IInv, NoStrandedBet
  <2>2. bets[b].status # "active"
    BY <2>1 DEF IInv, NoStrandedBet, Active
  <2>3. UNCHANGED vars \/ BetsKept
    BY NextKeeps DEF vars
  <2> QED BY <1>1, <2>2, <2>3 DEF BetsKept, vars
<1>2. ASSUME NEW b \in BetIds, bets'[b] # bets[b], bets'[b].status # "none",
             RoundOf[bets'[b].option] = r
      PROVE  FALSE
  <2>1. CASE \E o \in Options : DeclareWinner(o) /\ b \in ActiveIn(RoundOf[o])
    <3>1. PICK o \in Options : DeclareWinner(o) /\ b \in ActiveIn(RoundOf[o])
      BY <2>1
    <3>2. PICK short : Declared(o, short)
      BY <3>1 DEF DeclareWinner, Settling, Declared, ActiveIn
    <3>3. bets'[b] = SettledBet(bets, total, b, o, short) /\ b \in BetIds
      BY <3>1, <3>2 DEF Declared, ActiveIn, ActiveRows
    <3>4. bets'[b].option = bets[b].option
      BY <3>1, <3>3, SettledBetFacts DEF IInv
    <3>5. bets[b].status # "none"
      BY <3>1 DEF ActiveIn, ActiveRows
    <3> QED BY <1>1, <1>2, <3>4, <3>5
  <2>2. CASE Active(b) /\ bets'[b].option = bets[b].option
    BY <1>1, <1>2, <2>2 DEF Active
  <2> QED BY <1>2, <2>1, <2>2, RowStep
<1>3. ASSUME NEW o \in Options, RoundOf[o] = r PROVE winning'[o] = winning[o]
  <2>1. CASE \E p \in Options : DeclareWinner(p)
    <3>1. PICK p \in Options : DeclareWinner(p)
      BY <2>1
    <3>2. roundStatus[RoundOf[p]] = "locked" /\ winning' = [winning EXCEPT ![p] = TRUE]
      BY <3>1 DEF DeclareWinner, Settling
    <3>3. p # o
      BY <1>3, <3>2
    <3>4. winning \in [Options -> BOOLEAN]
      BY DEF IInv, TypeOK
    <3> QED BY <1>3, <3>2, <3>3, <3>4
  <2>2. CASE ~ \E p \in Options : DeclareWinner(p)
    <3>1. CASE \E x \in Rounds : OpenRound(x) \/ LockRound(x) \/ CancelRound(x)
      BY <3>1 DEF OpenRound, LockRound, CancelRound, options
    <3>2. CASE \/ \E p \in Options : LockOption(p)
               \/ EndStream \/ UpdateStreamStatus \/ UNCHANGED vars
      BY <3>2, SMTT(30) DEF LockOption, EndStream, UpdateStreamStatus, options, vars
    <3>3. CASE \/ \E u \in Users, p \in Options, c \in Currencies, a \in Amounts, b \in BetIds :
                    PlaceBet(u, p, c, a, b)
               \/ \E b \in BetIds, p \in Options, c \in Currencies, a \in Amounts :
                    EditBet(b, p, c, a)
               \/ \E b \in BetIds : CancelBet(b)
      BY <3>3, ZenonT(40) DEF PlaceBet, Placing, EditBet, Editing, CancelBet, Cancelling, options
    <3> QED BY <2>2, <3>1, <3>2, <3>3 DEF Next
  <2> QED BY <2>1, <2>2
<1> QED BY <1>1, <1>2, <1>3 DEF OptionsOf

\* The options of a round that did not win.
Losing(r) == {o \in OptionsOf({r}) : ~winning[o]}

\* A sum over rows that do not change does not change.
LEMMA RowsKeepSums ==
  ASSUME TypeOK, TypeOK', NEW S \in SUBSET BetIds,
         \A b \in S : bets'[b] = bets[b] /\ bets[b].status # "none"
  PROVE  /\ StakesOf(bets', S) = StakesOf(bets, S)
         /\ SumOf([b \in BetIds |-> bets'[b].payout], S)
              = SumOf([b \in BetIds |-> bets[b].payout], S)
<1> DEFINE f == [b \in BetIds |-> bets[b].amount]
           g == [b \in BetIds |-> bets'[b].amount]
           p == [b \in BetIds |-> bets[b].payout]
           q == [b \in BetIds |-> bets'[b].payout]
<1>1. \A b \in S : f[b] \in Int /\ f[b] = g[b] /\ p[b] \in Int /\ p[b] = q[b]
  <2> SUFFICES ASSUME NEW b \in S
               PROVE  f[b] \in Int /\ f[b] = g[b] /\ p[b] \in Int /\ p[b] = q[b]
    OBVIOUS
  <2>1. bets[b] \in Bet /\ bets[b].amount \in Nat
    BY BetFacts
  <2> QED BY <2>1 DEF Bet
<1>2. IsFiniteSet(S)
  BY BetIdsAssumption, FS_Subset
<1> HIDE DEF f, g, p, q
<1>3. /\ SumFunctionOnSet(f, S) = SumFunctionOnSet(g, S)
      /\ SumFunctionOnSet(p, S) = SumFunctionOnSet(q, S)
  BY <1>1, <1>2, SumCongruence
<1> QED BY <1>3 DEF f, g, p, q, StakesOf, SumOf

\* The winners of a round and what they are shown, from the rows alone.
LEMMA AmountIsCounted ==
  ASSUME IInv, NEW r \in Rounds
  PROVE  /\ WinnerAmount(r, Gold) = Stakes(CountedOn(Losing(r), Gold))
         /\ \A b \in WinningBets(r, Gold) : bets[b].status # "none" /\ b \in BetIds
         /\ \A b \in CountedOn(Losing(r), Gold) : bets[b].status # "none" /\ b \in BetIds
<1>1. Losing(r) \in SUBSET Options /\ Gold \in Currencies
  BY DEF Losing, OptionsOf, Currencies
<1>2. WinnerAmount(r, Gold) = Over(total, Losing(r), Gold)
  BY DEF WinnerAmount, Losing
<1> QED BY <1>1, <1>2, OverIsCounted DEF WinningBets, CountedOn

\* The same after a step.
LEMMA AmountIsCountedThen ==
  (IInv => \A r \in Rounds :
             /\ WinnerAmount(r, Gold) = Stakes(CountedOn(Losing(r), Gold))
             /\ \A b \in WinningBets(r, Gold) : bets[b].status # "none")'
<1>1. IInv => \A r \in Rounds :
        /\ WinnerAmount(r, Gold) = Stakes(CountedOn(Losing(r), Gold))
        /\ \A b \in WinningBets(r, Gold) : bets[b].status # "none"
  BY AmountIsCounted
<1> QED BY <1>1, PTL

\* What was shown of a round that is over stays as it was paid.
LEMMA WinnersKept ==
  ASSUME IInv, IInv', [Next]_vars, NEW r \in Rounds,
         roundStatus[r] \in {"closed", "cancelled"}, WinnersGetAmount(r)
  PROVE  WinnersGetAmount(r)'
<1> DEFINE won == WinningBets(r, Gold)
           lost == CountedOn(Losing(r), Gold)
<1>1. /\ \A b \in BetIds :
           \/ bets[b].status # "none" /\ RoundOf[bets[b].option] = r
           \/ bets'[b].status # "none" /\ RoundOf[bets'[b].option] = r
           => bets'[b] = bets[b]
      /\ \A o \in OptionsOf({r}) : winning'[o] = winning[o]
  BY OverRoundKeeps
<1>2. Losing(r)' = Losing(r) /\ \A o \in Losing(r) : RoundOf[o] = r
  BY <1>1 DEF Losing, OptionsOf
<1>3. \A b \in BetIds : /\ bets[b].status # "none" => bets[b].option \in Options
                        /\ bets'[b].status # "none" => bets'[b].option \in Options
  <2>1. TypeOK /\ TypeOK'
    BY DEF IInv
  <2>2. \A b \in BetIds : bets[b].status # "none" => bets[b] # NoBet /\ bets[b] \in Bet
    BY <2>1 DEF TypeOK, NoBet
  <2>3. \A b \in BetIds : bets'[b].status # "none" => bets'[b] # NoBet /\ bets'[b] \in Bet
    BY <2>1 DEF TypeOK, NoBet
  <2> QED BY <2>2, <2>3 DEF Bet
<1>4. won' = won
  <2>1. ASSUME NEW b \in BetIds,
               \/ bets[b].status = "won" /\ RoundOf[bets[b].option] = r
               \/ bets'[b].status = "won" /\ RoundOf[bets'[b].option] = r
        PROVE  bets'[b] = bets[b] /\ winning'[bets[b].option] = winning[bets[b].option]
    BY <1>1, <1>3, <2>1 DEF OptionsOf
  <2>2. ASSUME NEW b PROVE b \in won' <=> b \in won
    <3>1. CASE b \in BetIds
      <4>1. b \in won => bets'[b] = bets[b] /\ winning'[bets[b].option]
        BY <2>1, <3>1 DEF WinningBets
      <4>2. b \in won' => bets'[b] = bets[b] /\ winning[bets[b].option]
        BY <2>1, <3>1 DEF WinningBets
      <4>3. CASE b \in won
        BY <3>1, <4>1, <4>3 DEF WinningBets
      <4>4. CASE b \in won'
        BY <3>1, <4>2, <4>4 DEF WinningBets
      <4> QED BY <4>3, <4>4
    <3>2. CASE b \notin BetIds
      BY <3>2 DEF WinningBets
    <3> QED BY <3>1, <3>2
  <2> HIDE DEF won
  <2> QED BY <2>2
<1>5. lost' = lost
  <2>1. ASSUME NEW b \in BetIds,
               \/ bets[b].status # "none" /\ bets[b].option \in Losing(r)
               \/ bets'[b].status # "none" /\ bets'[b].option \in Losing(r)
        PROVE  bets'[b] = bets[b]
    BY <1>1, <1>2, <2>1
  <2> QED BY <1>2, <2>1 DEF CountedOn
<1>6. /\ won \in SUBSET BetIds /\ \A b \in won : bets'[b] = bets[b] /\ bets[b].status # "none"
      /\ lost \in SUBSET BetIds
      /\ \A b \in lost : bets'[b] = bets[b] /\ bets[b].status # "none"
  BY <1>1, <1>2 DEF WinningBets, CountedOn
<1>7. /\ StakesOf(bets', won) = StakesOf(bets, won)
      /\ SumOf([b \in BetIds |-> bets'[b].payout], won)
           = SumOf([b \in BetIds |-> bets[b].payout], won)
      /\ StakesOf(bets', lost) = StakesOf(bets, lost)
  <2>1. TypeOK /\ TypeOK'
    BY DEF IInv
  <2> HIDE DEF won, lost
  <2> QED BY <1>6, <2>1, RowsKeepSums
<1>8. /\ WinnerAmount(r, Gold) = StakesOf(bets, lost)
      /\ WinnerAmount(r, Gold)' = StakesOf(bets', lost)
  <2>1. WinnerAmount(r, Gold) = Stakes(lost)
    BY AmountIsCounted
  <2>2. WinnerAmount(r, Gold)' = Stakes(lost)'
    BY AmountIsCountedThen
  <2> QED BY <1>5, <2>1, <2>2 DEF Stakes
<1>9. WinnersGetAmount(r) <=>
        (won # {} => StakesOf(bets, won) + StakesOf(bets, lost)
           - SumOf([b \in BetIds |-> bets[b].payout], won) \in 0 .. Cardinality(won))
  BY <1>8 DEF WinnersGetAmount, Stakes
<1>10. WinnersGetAmount(r)' <=>
        (won # {} => StakesOf(bets', won) + StakesOf(bets', lost)
           - SumOf([b \in BetIds |-> bets'[b].payout], won) \in 0 .. Cardinality(won))
  BY <1>4, <1>8 DEF WinnersGetAmount, Stakes
<1> QED BY <1>7, <1>9, <1>10

\* After a result the winners of gold have their stakes back and what the
\* other options count, less a coin each at most.
LEMMA DeclareGivesAmount ==
  ASSUME IInv, IInv', NEW o \in Options, DeclareWinner(o),
         WinningBets(RoundOf[o], Gold)' # {}
  PROVE  WinnersGetAmount(RoundOf[o])'
<1> DEFINE r == RoundOf[o]
           T == Side(bets, o, Gold, {o})
           rest == OptionsOf({r}) \ {o}
           L == Side(bets, o, Gold, rest)
           S == Side(bets, o, Gold, Options)
           won == WinningBets(r, Gold)
<1>1. /\ roundStatus[r] = "locked" /\ total' = total /\ r \in Rounds /\ Gold \in Currencies
      /\ winning' = [winning EXCEPT ![o] = TRUE]
      /\ TypeOK /\ TypeOK'
  BY RoundOfAssumption DEF DeclareWinner, Settling, Currencies, IInv
<1>2. PICK short : Declared(o, short)
  BY DEF DeclareWinner, Settling, Declared, ActiveIn
<1>3. \A p \in OptionsOf({r}) : ~ winning[p] /\ (winning'[p] <=> p = o)
  BY <1>1 DEF IInv, ResultsAgree, TypeOK, OptionsOf
\* Who has won in this round has won by this result.
<1>4. ASSUME NEW b \in BetIds, bets'[b].status = "won", RoundOf[bets'[b].option] = r
      PROVE  b \in ActiveIn(r)
  <2>1. CASE b \notin ActiveIn(r)
    <3>1. bets'[b] = bets[b]
      BY <1>2, <2>1 DEF Declared
    <3>2. bets[b] # NoBet /\ bets[b].round = r
      BY <1>4, <3>1 DEF NoBet, IInv, NoStrandedBet
    <3> QED BY <1>1, <1>4, <3>1, <3>2 DEF IInv, ResultsAgree
  <2> QED BY <2>1
<1>5. ASSUME NEW b \in BetIds, bets'[b].status = "won", b \in ActiveIn(r)
      PROVE  /\ Contested(bets, o, bets[b].currency) /\ bets[b].option = o
             /\ bets'[b].payout = Pays(o, short)[b]
             /\ bets'[b].currency = bets[b].currency /\ bets'[b].amount = bets[b].amount
             /\ bets'[b].option = o /\ bets[b].status = "active" /\ bets[b].round = r
  <2>1. /\ bets[b] \in Bet /\ bets[b].status = "active" /\ bets[b].round = r
        /\ bets'[b] = SettledBet(bets, total, b, o, short)
    BY <1>1, <1>2, <1>5, BetFacts DEF Declared, ActiveIn, ActiveRows
  <2>2. /\ bets'[b].currency = bets[b].currency /\ bets'[b].amount = bets[b].amount
        /\ bets'[b].option = bets[b].option /\ bets'[b].option = o
    BY <1>1, <1>5, <2>1, SettledBetFacts DEF IInv
  <2>3. Contested(bets, o, bets[b].currency)
    BY <1>5, <2>1 DEF SettledBet, Bet
  <2>4. bets'[b].payout = Payout(bets, total, b, o, short)
    BY <2>1, <2>2, <2>3 DEF SettledBet, Bet
  <2> QED BY <2>1, <2>2, <2>3, <2>4 DEF Pays
<1>6. ASSUME NEW b \in won'
      PROVE  b \in T /\ Contested(bets, o, Gold)
  <2>1. /\ b \in BetIds /\ bets'[b].status = "won" /\ RoundOf[bets'[b].option] = r
        /\ bets'[b].currency = Gold
    BY DEF WinningBets
  <2>2. b \in ActiveIn(r)
    BY <1>4, <2>1
  <2> QED BY <1>5, <2>1, <2>2 DEF Side, ActiveRows
<1>7. Contested(bets, o, Gold)
  BY <1>6
<1>8. ASSUME NEW b \in T
      PROVE  /\ b \in won' /\ bets'[b].payout = Pays(o, short)[b]
             /\ bets'[b].amount = bets[b].amount /\ b \in BetIds
             /\ bets[b].status # "none"
  <2>1. /\ b \in BetIds /\ bets[b].status = "active" /\ bets[b].option = o
        /\ bets[b].currency = Gold /\ b \in ActiveIn(r) /\ bets[b] \in Bet
    BY <1>1, BetFacts DEF Side, ActiveIn, ActiveRows
  <2>2. bets'[b] = SettledBet(bets, total, b, o, short)
    BY <1>2, <2>1 DEF Declared
  <2>3. bets'[b].status = "won"
    BY <1>7, <2>1, <2>2 DEF SettledBet, Bet
  <2>4. /\ bets'[b].option = o /\ bets'[b].currency = Gold
        /\ bets'[b].payout = Pays(o, short)[b] /\ bets'[b].amount = bets[b].amount
    BY <1>5, <2>1, <2>3
  <2>5. winning'[o]
    BY <1>1 DEF TypeOK
  <2> QED BY <2>1, <2>3, <2>4, <2>5 DEF WinningBets
<1>9. won' = T
  BY <1>6, <1>8
<1>10. /\ PaidOf(o, Gold, short) /\ short \in SUBSET Roundable(bets, total, o)
  <2>1. short \in SUBSET Roundable(bets, total, o)
    BY <1>2 DEF Declared
  <2>2. Counted(o, Gold) = Side(bets, o, Gold, {o})
    BY <1>1, CountedAwaits
  <2> QED BY <1>1, <1>7, <2>1, <2>2, PaidOut DEF IInv
\* The pot is the stakes of the winners and those of the other options.
<1>11. Pot(bets, o, Gold) = Stakes(T) + Stakes(L) /\ Stakes(T) \in Nat /\ Stakes(L) \in Nat
  <2>1. S = Side(bets, o, Gold, OptionsOf({r}))
    BY <1>1, LockedIsSide
  <2>2. T \in SUBSET S /\ L = S \ T
    BY <2>1, RoundOfAssumption DEF Side, OptionsOf
  <2>3. S \in SUBSET BetIds /\ \A b \in S : bets[b].status # "none"
    BY DEF Side, ActiveRows
  <2>4. Pot(bets, o, Gold) = Stakes(S)
    BY DEF Pot, Stakes
  <2> HIDE DEF S, T, L
  <2> QED BY <1>1, <2>2, <2>3, <2>4, StakesSplit
\* What is shown as the amount of the winners.
<1>12. WinnerAmount(r, Gold)' = Stakes(L)
  <2>1. {p \in OptionsOf({r}) : ~ winning'[p]} = rest
    BY <1>3
  <2>2. WinnerAmount(r, Gold)' = Over(total, rest, Gold)
    BY <1>1, <2>1 DEF WinnerAmount, Over
  <2>3. rest \in SUBSET OptionsOf({r}) /\ rest \in SUBSET Options
    BY DEF OptionsOf
  <2>4. CountedOn(rest, Gold) = L
    BY <1>1, <2>3, LockedIsSide
  <2> QED BY <1>1, <2>2, <2>3, <2>4, OverIsCounted
<1>13. /\ StakesOf(bets', T) = StakesOf(bets, T)
       /\ SumOf([b \in BetIds |-> bets'[b].payout], T) = SumFunctionOnSet(Pays(o, short), T)
  <2> DEFINE f == [b \in BetIds |-> bets[b].amount]
             g == [b \in BetIds |-> bets'[b].amount]
             q == [b \in BetIds |-> bets'[b].payout]
             p == Pays(o, short)
  <2>7. IsFiniteSet(T)
    BY <1>10 DEF PaidOf
  <2>8. \A b \in T : Pays(o, short)[b] \in Int
    BY <1>10 DEF PaidOf
  <2>5. IsFiniteSet(T) /\ \A b \in T : Pays(o, short)[b] \in Int
    BY <2>7, <2>8
  <2>6. \A b \in T : /\ bets'[b].payout = Pays(o, short)[b] /\ b \in BetIds
                     /\ bets'[b].amount = bets[b].amount /\ bets[b].status # "none"
    BY <1>8
  <2>2. \A b \in BetIds : bets[b].status # "none" => bets[b].amount \in Nat
    BY <1>1, BetFacts
  <2> HIDE DEF T
  <2>1. \A b \in T : p[b] \in Int
    BY <2>5
  <2>3. \A b \in T : f[b] \in Int /\ f[b] = g[b] /\ q[b] = p[b]
    BY <2>2, <2>6
  <2> HIDE DEF f, g, q, p, T
  <2>4. /\ SumFunctionOnSet(f, T) = SumFunctionOnSet(g, T)
        /\ SumFunctionOnSet(p, T) = SumFunctionOnSet(q, T)
    BY <2>5, <2>1, <2>3, SumCongruence
  <2> QED BY <2>4 DEF f, g, q, p, StakesOf, SumOf
<1>14. /\ Stakes(T) + Stakes(L) - SumFunctionOnSet(Pays(o, short), T) \in 0 .. Cardinality(T)
  <2> DEFINE Q == SumFunctionOnSet(Pays(o, short), T)
             n == Cardinality(T)
  <2>1. /\ n \in Nat /\ Q \in Int
        /\ Pot(bets, o, Gold) - n <= Q /\ Q <= Pot(bets, o, Gold)
    BY <1>10 DEF PaidOf
  <2> HIDE DEF Q, n, T, L
  <2> QED BY <1>11, <2>1 DEF Q, n
<1>15. WinnersGetAmount(r)' <=>
         (T # {} => StakesOf(bets', T) + WinnerAmount(r, Gold)'
            - SumOf([b \in BetIds |-> bets'[b].payout], T) \in 0 .. Cardinality(T))
  BY <1>9 DEF WinnersGetAmount, Stakes
<1> HIDE DEF T, L, won, r, S
<1>16. WinnersGetAmount(r)'
  BY <1>12, <1>13, <1>14, <1>15 DEF Stakes
<1> QED BY <1>16 DEF r

\* Another round gets no winner by the result of one, and keeps those it has.
LEMMA NextWinners ==
  ASSUME IInv, IInv', [Next]_vars, \A r \in Rounds : WinnersGetAmount(r), NEW r \in Rounds
  PROVE  WinnersGetAmount(r)'
<1>1. CASE roundStatus[r] \in {"closed", "cancelled"}
  BY <1>1, WinnersKept
<1>2. CASE roundStatus[r] \notin {"closed", "cancelled"} /\ WinningBets(r, Gold)' # {}
  <2>1. PICK b \in BetIds : bets'[b].status = "won" /\ RoundOf[bets'[b].option] = r
    BY <1>2 DEF WinningBets
  <2>2. bets'[b] # bets[b]
    <3>1. bets[b].status = "won" => bets[b] # NoBet
      BY DEF NoBet
    <3> QED BY <1>2, <2>1, <3>1 DEF IInv, NoStrandedBet, ResultsAgree
  <2>3. PICK o \in Options : DeclareWinner(o) /\ b \in ActiveIn(RoundOf[o])
    BY <2>1, <2>2, RowStep
  <2>4. PICK short : Declared(o, short)
    BY <2>3 DEF DeclareWinner, Settling, Declared, ActiveIn
  <2>5. bets'[b] = SettledBet(bets, total, b, o, short)
    BY <2>3, <2>4 DEF Declared
  <2>6. bets'[b].option = o
    BY <2>1, <2>3, <2>5, SettledBetFacts DEF IInv
  <2> QED BY <1>2, <2>1, <2>3, <2>6, DeclareGivesAmount
<1>3. CASE WinningBets(r, Gold)' = {}
  BY <1>3 DEF WinnersGetAmount
<1> QED BY <1>1, <1>2, <1>3

\* The figures that are shown from the options, from the rows and by two
\* queries agree in every state, for any users, rounds, options and stakes.
THEOREM FiguresAlwaysAgree == Spec => []FiguresAgree
<1> DEFINE Winners == \A r \in Rounds : WinnersGetAmount(r)
<1>1. Init => Winners
  BY DEF Init, NoBet, WinnersGetAmount, WinningBets
<1>2. IInv /\ IInv' /\ Winners /\ [Next]_vars => Winners'
  BY NextWinners
<1>3. IInv /\ Winners => FiguresAgree
  <2> SUFFICES ASSUME IInv, Winners PROVE FiguresAgree
    OBVIOUS
  <2>1. {roundStatus[r] : r \in Rounds} \in SUBSET RoundStatus
    BY DEF IInv, TypeOK
  <2>2. ListStatus({roundStatus[r] : r \in Rounds})
          = DetailsStatus({roundStatus[r] : r \in Rounds})
    BY <2>1, StatusesAgree
  <2> QED BY <2>2, PoolsAreRows DEF FiguresAgree
<1> HIDE DEF Winners
<1> QED BY <1>1, <1>2, <1>3, Invariance, PTL DEF Spec

----------------------------------------------------------------------------
\* What is multiplied by a total and divided by it again is the same.
LEMMA ShareOfOwnPool ==
  ASSUME NEW a \in Nat, NEW t \in Nat \ {0}
  PROVE  Share(Gold, a, t, t) = a
<1> DEFINE q == (a * t) \div t
<1>1. q \in Int /\ t * q <= a * t /\ a * t < t * q + t
  <2> DEFINE x == a * t
  <2>1. x \in Int
    OBVIOUS
  <2> HIDE DEF x
  <2>2. (x \div t) \in Int /\ t * (x \div t) <= x /\ x < t * (x \div t) + t
    BY <2>1
  <2> QED BY <2>2 DEF x
<1> HIDE DEF q
<1>2. q <= a
  <2>1. t * q <= t * a
    BY <1>1
  <2> QED BY <1>1, <2>1, CancelFactor
<1>3. a <= q
  <2>1. t * (q + 1) = t * q + t
    BY <1>1
  <2>2. ~ (t * (q + 1) <= t * a)
    <3>1. t * a = a * t /\ a * t \in Int /\ t * q \in Int
      BY <1>1
    <3> QED BY <1>1, <2>1, <3>1
  <2>3. CASE q + 1 <= a
    <3>1. PICK d \in Nat : a = q + 1 + d
      <4>1. a - q - 1 \in Nat /\ a = q + 1 + (a - q - 1)
        BY <1>1, <2>3
      <4> QED BY <4>1
    <3>2. t * a = t * (q + 1) + t * d /\ t * d \in Nat /\ t * (q + 1) \in Int
      BY <1>1, <3>1
    <3> QED BY <2>2, <3>2
  <2> QED BY <1>1, <2>3
<1> QED BY <1>1, <1>2, <1>3 DEF Share, q

\* What declareWinner does to the row of an active bet of the round.
LEMMA ResultOfBet ==
  ASSUME IInv, [Next]_vars, NEW b \in BetIds, Active(b),
         bets'[b].status \in {"won", "refunded"}
  PROVE  \E o \in Options : \E short :
           /\ roundStatus[RoundOf[o]] = "locked" /\ Declared(o, short)
           /\ winning' = [winning EXCEPT ![o] = TRUE]
           /\ b \in ActiveIn(RoundOf[o])
           /\ bets'[b] = SettledBet(bets, total, b, o, short)
<1>1. bets'[b] # bets[b]
  BY DEF Active
<1>2. PICK o \in Options : DeclareWinner(o) /\ b \in ActiveIn(RoundOf[o])
  BY <1>1, RowStep
<1>3. roundStatus[RoundOf[o]] = "locked" /\ winning' = [winning EXCEPT ![o] = TRUE]
  BY <1>2 DEF DeclareWinner, Settling
<1>4. PICK short : Declared(o, short)
  BY <1>2 DEF DeclareWinner, Settling, Declared, ActiveIn
<1>5. bets'[b] = SettledBet(bets, total, b, o, short)
  BY <1>2, <1>4 DEF Declared
<1> QED BY <1>2, <1>3, <1>4, <1>5

\* The forecast of an active bet on an option of a locked round.
LEMMA ForecastIsShare ==
  ASSUME IInv, NEW o \in Options, NEW b \in ActiveIn(RoundOf[o]), bets[b].option = o,
         roundStatus[RoundOf[o]] = "locked"
  PROVE  LET c == bets[b].currency IN
         /\ Share(c, bets[b].amount, total[o][c], Pot(bets, o, c))
              \in Forecast(bets[b].user, bets[b].round)
         /\ c \in Currencies /\ bets[b].amount \in Nat /\ bets[b] \in Bet
         /\ bets[b].round = RoundOf[o] /\ b \in BetIds /\ total[o][c] \in Nat \ {0}
<1> DEFINE c == bets[b].currency
<1>1. b \in BetIds /\ bets[b].status = "active" /\ bets[b].round = RoundOf[o]
  BY DEF ActiveIn, ActiveRows
<1>2. c \in Currencies /\ bets[b].amount \in Nat /\ bets[b] \in Bet
  BY <1>1, BetFacts DEF IInv
<1>3. b \in Counted(o, c)
  BY <1>1 DEF Counted
<1>4. count[o][c] > 0 /\ total[o][c] \in Nat \ {0}
  BY <1>2, <1>3, StakeInPool DEF IInv
<1>5. Potential(b) = Share(c, bets[b].amount, total[o][c], Pot(bets, o, c))
  BY <1>2, <1>4, PotIsRoundTotal DEF Potential
<1>6. Potential(b) \in Forecast(bets[b].user, bets[b].round)
  BY <1>1 DEF Forecast
<1> QED BY <1>1, <1>2, <1>4, <1>5, <1>6

\* A winner is paid the forecast, or a unit less.
LEMMA WinnerGetsForecast ==
  ASSUME IInv, [Next]_vars, NEW b \in BetIds, Active(b), bets'[b].status = "won"
  PROVE  {Paid(b), Paid(b) + 1} \cap Forecast(bets[b].user, bets[b].round) # {}
<1>0. PICK o \in Options : \E short :
        /\ roundStatus[RoundOf[o]] = "locked" /\ Declared(o, short)
        /\ b \in ActiveIn(RoundOf[o])
        /\ bets'[b] = SettledBet(bets, total, b, o, short)
  BY ResultOfBet
<1>1. PICK short :
        /\ roundStatus[RoundOf[o]] = "locked" /\ Declared(o, short)
        /\ b \in ActiveIn(RoundOf[o])
        /\ bets'[b] = SettledBet(bets, total, b, o, short)
  BY <1>0
<1> DEFINE c == bets[b].currency
           shown == Share(c, bets[b].amount, total[o][c], Pot(bets, o, c))
<1>2. bets[b].option = o
  BY <1>1, SettledBetFacts DEF IInv
<1>3. /\ shown \in Forecast(bets[b].user, bets[b].round)
      /\ c \in Currencies /\ bets[b].amount \in Nat /\ bets[b] \in Bet
      /\ total[o][c] \in Nat \ {0}
  BY <1>1, <1>2, ForecastIsShare
<1>4. Contested(bets, o, c)
  BY <1>1, <1>3 DEF SettledBet, Bet
<1>5. bets'[b].payout = Payout(bets, total, b, o, short)
  BY <1>1, <1>2, <1>3, <1>4 DEF SettledBet, Bet
<1>6. Pot(bets, o, c) \in Nat
  <2>1. Counted(o, c) = Side(bets, o, c, {o})
    BY <1>1, <1>3, CountedAwaits
  <2> QED BY <1>1, <1>3, <1>4, <2>1, PotExceedsTotal DEF IInv
<1>7. shown \in Int
  BY <1>3, <1>6, ShareType
<1>8. Paid(b) = shown - (IF b \in short THEN 1 ELSE 0)
  BY <1>5 DEF Paid, Payout
<1> HIDE DEF shown
<1>9. Paid(b) = shown \/ Paid(b) + 1 = shown
  BY <1>7, <1>8
<1> QED BY <1>3, <1>9

\* Who bet gold on the winner alone was shown the stake.
LEMMA LoneWinnerGetsForecast ==
  ASSUME IInv, [Next]_vars, NEW b \in BetIds, Active(b), bets'[b].status = "refunded",
         bets[b].currency = Gold, winning'[bets[b].option]
  PROVE  bets[b].amount \in Forecast(bets[b].user, bets[b].round)
<1>0. PICK o \in Options : \E short :
        /\ roundStatus[RoundOf[o]] = "locked" /\ Declared(o, short)
        /\ winning' = [winning EXCEPT ![o] = TRUE]
        /\ b \in ActiveIn(RoundOf[o])
        /\ bets'[b] = SettledBet(bets, total, b, o, short)
  BY ResultOfBet
<1>1. PICK short :
        /\ roundStatus[RoundOf[o]] = "locked" /\ Declared(o, short)
        /\ winning' = [winning EXCEPT ![o] = TRUE]
        /\ b \in ActiveIn(RoundOf[o])
        /\ bets'[b] = SettledBet(bets, total, b, o, short)
  BY <1>0
<1>2. /\ bets[b].round = RoundOf[o] /\ bets[b].status = "active" /\ bets[b] \in Bet
      /\ bets[b].option \in Options /\ Gold \in Currencies /\ bets[b] # NoBet
  BY <1>1, BetFacts DEF ActiveIn, ActiveRows, IInv, Currencies, NoBet
<1>3. bets[b].option = o
  <2>1. RoundOf[bets[b].option] = RoundOf[o]
    BY <1>2 DEF IInv, NoStrandedBet
  <2>2. ~ winning[bets[b].option]
    BY <1>1, <1>2, <2>1 DEF IInv, ResultsAgree
  <2> QED BY <1>1, <1>2, <2>2 DEF IInv, TypeOK
<1>4. ~ Contested(bets, o, Gold)
  BY <1>1, <1>2, <1>3 DEF SettledBet, Bet
<1>5. Side(bets, o, Gold, Options) = Side(bets, o, Gold, {o})
  <2>1. b \in Side(bets, o, Gold, {o})
    BY <1>1, <1>3 DEF Side, ActiveIn
  <2>2. Side(bets, o, Gold, Options \ {o}) = {}
    BY <1>4, <2>1 DEF Contested
  <2> QED BY <2>2 DEF Side
<1>6. Pot(bets, o, Gold) = total[o][Gold]
  <2>1. total[o][Gold] = Stakes(Counted(o, Gold))
    BY <1>2 DEF IInv, PoolsMatchBets
  <2>2. Counted(o, Gold) = Side(bets, o, Gold, {o})
    BY <1>1, <1>2, CountedAwaits
  <2> QED BY <1>5, <2>1, <2>2 DEF Pot, Stakes
<1>7. /\ Share(Gold, bets[b].amount, total[o][Gold], Pot(bets, o, Gold))
           \in Forecast(bets[b].user, bets[b].round)
      /\ bets[b].amount \in Nat /\ total[o][Gold] \in Nat \ {0}
  BY <1>1, <1>3, ForecastIsShare
<1> QED BY <1>6, <1>7, ShareOfOwnPool

\* A bet that wins is paid what was forecast just before the result, or one
\* unit less, and a winner without opponents is given back the stake shown.
THEOREM ForecastsArePaid == Spec => PotentialIsPaid
<1>1. IInv /\ [Next]_vars =>
        [\A b \in BetIds : Active(b) =>
           LET shown == Forecast(bets[b].user, bets[b].round) IN
             /\ bets'[b].status = "won" => {Paid(b), Paid(b) + 1} \cap shown # {}
             /\ (bets'[b].status = "refunded" /\ bets[b].currency = Gold
                  /\ winning'[bets[b].option]) => bets[b].amount \in shown]_vars
  BY WinnerGetsForecast, LoneWinnerGetsForecast
<1> QED BY <1>1, Invariance, PTL DEF Spec, PotentialIsPaid

----------------------------------------------------------------------------
(***************************************************************************)
(* Sequences: the requests, and the plans of locks.                        *)
(***************************************************************************)
\* The positions of a sequence and its elements.
IsSeq(s) == \E S : s \in Seq(S)

\* A sequence has a length and is indexed from 1.
LEMMA SeqFacts ==
  ASSUME NEW s, IsSeq(s)
  PROVE  Len(s) \in Nat /\ DOMAIN s = 1 .. Len(s)
BY DEF IsSeq

\* A request that arrives takes the next place; the others keep theirs.
LEMMA AppendFacts ==
  ASSUME NEW s, IsSeq(s), NEW x
  PROVE  /\ IsSeq(Append(s, x)) /\ DOMAIN Append(s, x) = 1 .. Len(s) + 1
         /\ Append(s, x)[Len(s) + 1] = x /\ Len(s) + 1 \notin DOMAIN s
         /\ \A i \in DOMAIN s : i \in DOMAIN Append(s, x) /\ Append(s, x)[i] = s[i]
<1>1. PICK S : s \in Seq(S)
  BY DEF IsSeq
<1>2. s \in Seq(S \cup {x})
  BY <1>1
<1>3. Append(s, x) \in Seq(S \cup {x})
  BY <1>2
<1> QED BY <1>2, <1>3 DEF IsSeq

\* One request changes; the others keep what they know.
LEMMA ChangeFacts ==
  ASSUME NEW s, IsSeq(s), NEW q \in DOMAIN s, NEW x
  PROVE  /\ IsSeq([s EXCEPT ![q] = x]) /\ DOMAIN [s EXCEPT ![q] = x] = DOMAIN s
         /\ [s EXCEPT ![q] = x][q] = x
         /\ \A i \in DOMAIN s \ {q} : [s EXCEPT ![q] = x][i] = s[i]
<1>1. PICK S : s \in Seq(S)
  BY DEF IsSeq
<1>2. s \in Seq(S \cup {x})
  BY <1>1
<1>3. [s EXCEPT ![q] = x] \in Seq(S \cup {x})
  BY <1>2
<1> QED BY <1>2, <1>3 DEF IsSeq

\* The first element of a sequence, and those that follow it.
LEMMA TailFacts ==
  ASSUME NEW S, NEW s \in Seq(S), s # <<>>
  PROVE  /\ Tail(s) \in Seq(S) /\ Head(s) \in S
         /\ \A i \in DOMAIN s : s[i] = Head(s) \/ \E j \in DOMAIN Tail(s) : Tail(s)[j] = s[i]
<1>1. Tail(s) \in Seq(S) /\ Len(s) \in Nat \ {0} /\ DOMAIN s = 1 .. Len(s)
  OBVIOUS
<1>2. Head(s) = s[1] /\ s[1] \in S /\ DOMAIN Tail(s) = 1 .. Len(s) - 1
  BY <1>1
<1>3. \A j \in 1 .. Len(s) - 1 : Tail(s)[j] = s[j + 1]
  BY <1>1
<1>4. \A i \in 1 .. Len(s) : i # 1 => i - 1 \in 1 .. Len(s) - 1 /\ Tail(s)[i - 1] = s[i]
  BY <1>1, <1>3
<1> QED BY <1>1, <1>2, <1>4

\* The elements of two sequences in a row.
LEMMA ConcatFacts ==
  ASSUME NEW S, NEW s \in Seq(S), NEW t \in Seq(S)
  PROVE  /\ s \o t \in Seq(S)
         /\ \A i \in DOMAIN s : i \in DOMAIN (s \o t) /\ (s \o t)[i] = s[i]
         /\ \A i \in DOMAIN t : \E j \in DOMAIN (s \o t) : (s \o t)[j] = t[i]
<1>1. /\ s \o t \in Seq(S) /\ Len(s) \in Nat /\ Len(t) \in Nat
      /\ Len(s \o t) = Len(s) + Len(t)
      /\ DOMAIN s = 1 .. Len(s) /\ DOMAIN t = 1 .. Len(t)
      /\ DOMAIN (s \o t) = 1 .. Len(s) + Len(t)
  OBVIOUS
<1>2. \A i \in 1 .. Len(s) : (s \o t)[i] = s[i]
  BY <1>1
<1>3. ASSUME NEW i \in DOMAIN t
      PROVE  Len(s) + i \in DOMAIN (s \o t) /\ (s \o t)[Len(s) + i] = t[i]
  BY <1>1
<1>4. \A i \in DOMAIN s : i \in DOMAIN (s \o t)
  BY <1>1
<1> QED BY <1>1, <1>2, <1>3, <1>4

\* Every order of a finite set names each of its members.
LEMMA OrderFacts ==
  ASSUME NEW S, IsFiniteSet(S), NEW s \in SetToSeqs(S)
  PROVE  s \in Seq(S) /\ \A x \in S : \E i \in DOMAIN s : s[i] = x
<1> DEFINE n == Cardinality(S)
<1>1. n \in Nat /\ s \in [1 .. n -> S] /\ \A i, j \in 1 .. n : i # j => s[i] # s[j]
  BY FS_CardinalityType DEF SetToSeqs
<1>2. s \in Injection(1 .. n, S)
  BY <1>1 DEF Injection, IsInjective
<1>3. Cardinality(1 .. n) = n /\ IsFiniteSet(1 .. n)
  BY <1>1, FS_Interval
<1>4. s \in Surjection(1 .. n, S)
  BY <1>2, <1>3, FS_Injection
<1> QED BY <1>1, <1>4 DEF Surjection

\* The order that SetToSeq takes lists members of the set.
LEMMA ChosenOrderFacts ==
  ASSUME NEW S, IsFiniteSet(S)
  PROVE  SetToSeq(S) \in Seq(S)
<1> DEFINE n == Cardinality(S)
<1>1. n \in Nat /\ ExistsBijection(1 .. n, S)
  BY FS_CardinalityType
<1>2. PICK f \in Bijection(1 .. n, S) : TRUE
  BY <1>1 DEF ExistsBijection
<1>3. f \in [1 .. n -> S] /\ IsInjective(f)
  BY <1>2 DEF Bijection, Injection, IsInjective
<1>4. SetToSeq(S) \in [1 .. n -> S]
  BY <1>3 DEF SetToSeq
<1> QED BY <1>1, <1>4

\* Any set of natural numbers that is not empty has a least member.
LEMMA LeastNumber ==
  ASSUME NEW B, B \subseteq Nat, B # {}
  PROVE  \E k \in B : \A j \in B : ~ (j < k)
<1>1. IsWellFoundedOn(OpToRel(<, Nat), Nat)
  BY NatLessThanWellFounded
<1>2. PICK k \in B : \A j \in B : ~ (<<j, k>> \in OpToRel(<, Nat))
  BY <1>1, WFMin
<1>3. \A j \in B : ~ (j < k)
  BY <1>2 DEF OpToRel
<1> QED BY <1>3

\* f[i] puts the first i of the sequences in a row.
Flattens(f, seqs, k) ==
  f = [i \in 1 .. k |-> IF i = 1 THEN seqs[i] ELSE f[i - 1] \o seqs[i]]

\* There is a function that gives every prefix flattened.
LEMMA FlattensExists ==
  ASSUME NEW seqs, NEW n \in Nat
  PROVE  \E f : Flattens(f, seqs, n)
<1> DEFINE B == {k \in Nat : ~ \E f : Flattens(f, seqs, k)}
<1>1. SUFFICES ASSUME B # {} PROVE FALSE
  OBVIOUS
<1>2. PICK k \in B : \A j \in B : ~ (j < k)
  <2>1. B \subseteq Nat
    OBVIOUS
  <2> HIDE DEF B
  <2> QED BY <1>1, <2>1, LeastNumber
<1>3. CASE k = 0
  <2> DEFINE f == [i \in 1 .. 0 |-> <<>>]
  <2>1. Flattens(f, seqs, k)
    BY <1>3 DEF Flattens
  <2> QED BY <1>2, <2>1
<1>4. CASE k # 0
  <2>1. k - 1 \in Nat /\ k - 1 < k /\ k - 1 \notin B
    BY <1>2, <1>4
  <2>2. PICK f : Flattens(f, seqs, k - 1)
    BY <2>1
  <2> DEFINE last == IF k = 1 THEN seqs[k] ELSE f[k - 1] \o seqs[k]
             g == [i \in 1 .. k |-> IF i = k THEN last ELSE f[i]]
  <2>3. \A i \in 1 .. k : g[i] = IF i = 1 THEN seqs[i] ELSE g[i - 1] \o seqs[i]
    <3> SUFFICES ASSUME NEW i \in 1 .. k
                 PROVE  g[i] = IF i = 1 THEN seqs[i] ELSE g[i - 1] \o seqs[i]
      OBVIOUS
    <3>1. CASE i = k
      BY <1>4, <2>1, <3>1
    <3>2. CASE i # k
      <4>1. i \in 1 .. k - 1 /\ (i # 1 => i - 1 \in 1 .. k /\ i - 1 # k)
        BY <2>1, <3>2
      <4>2. f[i] = IF i = 1 THEN seqs[i] ELSE f[i - 1] \o seqs[i]
        BY <2>2, <4>1 DEF Flattens
      <4>3. g[i] = f[i] /\ (i # 1 => g[i - 1] = f[i - 1])
        BY <3>2, <4>1
      <4> QED BY <4>2, <4>3
    <3> QED BY <3>1, <3>2
  <2>4. Flattens(g, seqs, k)
    BY <2>3 DEF Flattens
  <2> QED BY <1>2, <2>4
<1> QED BY <1>3, <1>4

\* FlattenSeq keeps every element of every sequence.
LEMMA FlattenFacts ==
  ASSUME NEW S, NEW seqs \in Seq(Seq(S))
  PROVE  /\ FlattenSeq(seqs) \in Seq(S)
         /\ \A i \in DOMAIN seqs : \A j \in DOMAIN seqs[i] :
              \E k \in DOMAIN FlattenSeq(seqs) : FlattenSeq(seqs)[k] = seqs[i][j]
<1> DEFINE n == Len(seqs)
<1>1. n \in Nat /\ DOMAIN seqs = 1 .. n /\ \A i \in 1 .. n : seqs[i] \in Seq(S)
  OBVIOUS
<1>2. CASE n = 0
  <2>1. FlattenSeq(seqs) = seqs /\ seqs = <<>>
    BY <1>2 DEF FlattenSeq
  <2> QED BY <1>1, <1>2, <2>1
<1>3. CASE n # 0
  <2> DEFINE f == CHOOSE g : Flattens(g, seqs, n)
             Has(k, i) == \A j \in DOMAIN seqs[i] :
                            \E m \in DOMAIN f[k] : f[k][m] = seqs[i][j]
             B == {k \in 1 .. n : ~ (f[k] \in Seq(S) /\ \A i \in 1 .. k : Has(k, i))}
  <2>1. FlattenSeq(seqs) = f[n]
    BY <1>3, Zenon DEF FlattenSeq, Flattens
  <2>2. Flattens(f, seqs, n)
    <3>1. \E g : Flattens(g, seqs, n)
      BY <1>1, FlattensExists
    <3> QED BY <3>1
  <2> HIDE DEF f
  <2>3. \A k \in 1 .. n : f[k] = IF k = 1 THEN seqs[k] ELSE f[k - 1] \o seqs[k]
    BY <2>2 DEF Flattens
  <2>4. B = {}
    <3>1. SUFFICES ASSUME B # {} PROVE FALSE
      OBVIOUS
    <3>2. PICK k \in B : \A j \in B : ~ (j < k)
      <4>1. B \subseteq Nat
        BY <1>1
      <4> HIDE DEF B
      <4> QED BY <3>1, <4>1, LeastNumber
    <3>3. k \in 1 .. n /\ seqs[k] \in Seq(S)
      BY <1>1, <3>2
    <3>4. CASE k = 1
      <4>1. f[k] = seqs[k] /\ \A i \in 1 .. k : i = k
        BY <2>3, <3>3, <3>4
      <4> QED BY <3>2, <3>3, <4>1
    <3>5. CASE k # 1
      <4>1. /\ k - 1 \in 1 .. n /\ k - 1 \notin B
            /\ \A i \in 1 .. k : i \in 1 .. k - 1 \/ i = k
        <5>1. k - 1 \in 1 .. n /\ k - 1 < k
          BY <1>1, <3>3, <3>5
        <5>2. k - 1 \notin B
          BY <3>2, <5>1
        <5> QED BY <3>3, <5>1, <5>2
      <4>2. f[k - 1] \in Seq(S) /\ \A i \in 1 .. k - 1 : Has(k - 1, i)
        BY <4>1
      <4>3. f[k] = f[k - 1] \o seqs[k]
        BY <2>3, <3>3, <3>5
      <4>4. /\ f[k] \in Seq(S)
            /\ \A m \in DOMAIN f[k - 1] : m \in DOMAIN f[k] /\ f[k][m] = f[k - 1][m]
            /\ Has(k, k)
        <5> DEFINE p == f[k - 1]
                   t == seqs[k]
        <5>1. p \in Seq(S) /\ t \in Seq(S) /\ f[k] = p \o t
          BY <3>3, <4>2, <4>3
        <5> HIDE DEF p, t
        <5>2. /\ p \o t \in Seq(S)
              /\ \A m \in DOMAIN p : m \in DOMAIN (p \o t) /\ (p \o t)[m] = p[m]
              /\ \A j \in DOMAIN t : \E m \in DOMAIN (p \o t) : (p \o t)[m] = t[j]
          BY <5>1, ConcatFacts
        <5>3. Has(k, k)
          BY <5>1, <5>2 DEF t
        <5> QED BY <5>1, <5>2, <5>3 DEF p
      <4>5. \A i \in 1 .. k - 1 : Has(k, i)
        BY <4>2, <4>4
      <4>6. \A i \in 1 .. k : Has(k, i)
        BY <4>1, <4>4, <4>5, ZenonT(40)
      <4> QED BY <3>2, <4>4, <4>6
    <3> QED BY <3>4, <3>5
  <2>5. n \in 1 .. n
    BY <1>1, <1>3
  <2>6. f[n] \in Seq(S) /\ \A i \in 1 .. n : Has(n, i)
    BY <2>4, <2>5
  <2> QED BY <1>1, <2>1, <2>6
<1> QED BY <1>2, <1>3

----------------------------------------------------------------------------
(***************************************************************************)
(* What a request knows, the locks it still needs and what it has read     *)
(* under those it holds.  RInv holds whichever requests overlap: a row     *)
(* that was read under a lock is still current when it is written.         *)
(***************************************************************************)
\* The row locks there may be.
Locks == [table : {"wallet", "option", "bet"},
          row : Users \cup Options \cup BetIds,
          mode : {"for update", "update", "key share"}]

\* What each kind of request knows.
PlaceKnows(r) ==
  /\ {"user", "option", "currency", "amount"} \subseteq DOMAIN r
  /\ r.user \in Users /\ r.option \in Options
  /\ r.currency \in Currencies /\ r.amount \in Amounts

CancelKnows(r) ==
  /\ {"user", "bet", "seen"} \subseteq DOMAIN r
  /\ r.bet \in BetIds /\ r.seen \in Bet /\ r.seen.status = "active"
  /\ r.user = r.seen.user

EditKnows(r) ==
  /\ CancelKnows(r)
  /\ {"option", "currency", "amount"} \subseteq DOMAIN r
  /\ r.option \in Options /\ r.currency \in Currencies /\ r.amount \in Amounts

RoundKnows(r) == "round" \in DOMAIN r /\ r.round \in Rounds

DeclareKnows(r) ==
  /\ {"option", "total", "count"} \subseteq DOMAIN r /\ r.option \in Options
  /\ r.total \in [Currencies -> Int] /\ r.count \in [Currencies -> Int]
  /\ r.pc = "read" => "carried" \in DOMAIN r /\ r.carried \subseteq BetIds
  /\ r.pc = "locking" =>
       /\ {"rebound", "staleTotal", "staleCount"} \subseteq DOMAIN r
       /\ r.rebound \subseteq BetIds
       /\ "rows" \in DOMAIN r => r.rows \in Rows

LockingKnows(r) ==
  /\ {"plan", "held", "read"} \subseteq DOMAIN r
  /\ r.plan \in Seq(Locks) /\ r.held \in SUBSET Locks
  /\ r.kind \in {"place", "edit", "cancel", "declare"}

Knows(r) ==
  /\ {"pc", "kind"} \subseteq DOMAIN r
  /\ r.pc \in {"read", "counted", "locking"}
  /\ r.kind \in {"place", "edit", "cancel", "open", "lock", "declare"}
  /\ r.kind = "place" => PlaceKnows(r)
  /\ r.kind = "edit" => EditKnows(r)
  /\ r.kind = "cancel" => CancelKnows(r)
  /\ r.kind \in {"open", "lock"} => RoundKnows(r)
  /\ r.kind = "declare" => DeclareKnows(r)
  /\ r.pc = "counted" => r.kind = "lock"
  /\ r.pc = "locking" => LockingKnows(r)

\* The bets of a settlement that move money.
Rewarded(r) ==
  {b \in ActiveRows(r.rows, RoundOf[r.option]) :
     \/ ~ Contested(r.rows, r.option, r.rows[b].currency)
     \/ r.rows[b].option = r.option}

\* l is a lock on a row that request r is going to write.
Needs(r, l) ==
  \/ /\ r.kind = "place"
     /\ l \in {ForUpdate("wallet", r.user), ForUpdate("option", r.option)}
  \/ /\ r.kind = "edit"
     /\ \/ l \in {ForUpdate("option", r.seen.option), ForUpdate("option", r.option)}
        \/ /\ ~ (r.seen.amount = r.amount /\ r.seen.currency = r.currency)
           /\ l = ForUpdate("wallet", r.user)
  \/ /\ r.kind = "cancel"
     /\ l \in {ForUpdate("wallet", r.user), ForUpdate("option", r.seen.option)}
  \/ /\ r.kind = "declare"
     /\ \/ \E p \in Options : RoundOf[p] = RoundOf[r.option] /\ l = Updating("option", p)
        \/ "rows" \in DOMAIN r /\ \E b \in Rewarded(r) : l = ForUpdate("wallet", r.rows[b].user)

\* The locks a transaction needs are held or still to be taken.
LocksCover(r) ==
  \A l \in Locks : Needs(r, l) =>
    l \in r.held \/ \E i \in DOMAIN r.plan : r.plan[i] = l

\* What a transaction has read under a lock is what the tables hold.
ReadsCurrent(r) ==
  /\ \A u \in Users : <<"wallet", u>> \in DOMAIN r.read =>
       ForUpdate("wallet", u) \in r.held /\ r.read[<<"wallet", u>>] = wallet[u]
  /\ \A o \in Options : <<"option", o>> \in DOMAIN r.read =>
       /\ ForUpdate("option", o) \in r.held
       /\ r.read[<<"option", o>>] = [total |-> total[o], count |-> count[o]]

RequestOK(r) ==
  /\ Knows(r)
  /\ r.pc = "locking" => LocksCover(r) /\ ReadsCurrent(r)

\* Two sets of locks that no two transactions may hold.
Compatible(K, L) == \A k \in K, l \in L : ~ Conflict(k, l)

LocksExclude ==
  \A p, q \in Requests : p # q /\ Locking(p) /\ Locking(q) =>
    Compatible(req[p].held, req[q].held)

RInv ==
  /\ TypeOK /\ IsSeq(req)
  /\ \A q \in Requests : InFlight(q) => RequestOK(req[q])
  /\ LocksExclude

----------------------------------------------------------------------------
\* What is paid on the stake of a winner is a number of units.
LEMMA PayoutType ==
  ASSUME NEW rows \in Rows, NEW table \in PoolTable, NEW o \in Options, NEW short,
         Divisible(rows, table, o), NEW b \in ActiveRows(rows, RoundOf[o]),
         Contested(rows, o, rows[b].currency)
  PROVE  Payout(rows, table, b, o, short) \in Int
<1> DEFINE c == rows[b].currency
<1>0. c \in Currencies /\ rows[b].amount \in Nat
  <2>1. rows[b] \in Bet
    BY DEF ActiveRows, Rows, NoBet
  <2> QED BY <2>1, RowColumns
<1>1. table[o][c] \in Nat \ {0}
  BY <1>0 DEF Divisible, PoolTable
<1>2. Pot(rows, o, c) \in Nat
  <2> DEFINE f == [e \in BetIds |-> rows[e].amount]
             S == Side(rows, o, c, Options)
  <2>1. S \subseteq BetIds /\ \A e \in S : rows[e].status = "active"
    BY DEF Side, ActiveRows
  <2>2. \A e \in S : f[e] \in Nat
    <3> SUFFICES ASSUME NEW e \in S PROVE f[e] \in Nat
      OBVIOUS
    <3>1. rows[e] \in Bet /\ e \in BetIds
      BY <2>1 DEF Rows, NoBet
    <3>2. rows[e].amount \in Nat
      BY <3>1, RowColumns
    <3> QED BY <3>1, <3>2
  <2>3. IsFiniteSet(S)
    BY <2>1, BetIdsAssumption, FS_Subset
  <2>4. SumFunctionOnSet(f, S) \in Nat
    <3> HIDE DEF f, S
    <3> QED BY <2>2, <2>3, SumNonNegative
  <2>5. Pot(rows, o, c) = SumFunctionOnSet(f, S)
    BY DEF Pot, StakesOf, SumOf
  <2> QED BY <2>4, <2>5
<1>3. Share(c, rows[b].amount, table[o][c], Pot(rows, o, c)) \in Int
  BY <1>0, <1>1, <1>2, ShareType
<1> QED BY <1>3 DEF Payout

\* A settled bet is a complete row.
LEMMA SettledRowType ==
  ASSUME NEW rows \in Rows, NEW table \in PoolTable, NEW o \in Options, NEW short,
         Divisible(rows, table, o), NEW b \in ActiveRows(rows, RoundOf[o])
  PROVE  SettledBet(rows, table, b, o, short) \in Bet
<1> DEFINE c == rows[b].currency
<1>1. b \in BetIds /\ rows[b].status = "active" /\ rows[b] \in Bet
  BY DEF ActiveRows, Rows, NoBet
<1>2. c \in Currencies /\ rows[b].amount \in Nat
  BY <1>1, RowColumns
<1>3. CASE ~ Contested(rows, o, c)
  <2> DEFINE zero == 0
  <2>1. SettledBet(rows, table, b, o, short) = [rows[b] EXCEPT !.status = "refunded", !.payout = zero]
    BY <1>3 DEF SettledBet
  <2>2. zero \in Int
    OBVIOUS
  <2> HIDE DEF c, zero
  <2> QED BY <2>2, <1>1, <2>1 DEF Bet, BetStatus
<1>4. CASE Contested(rows, o, c) /\ rows[b].option = o
  <2>1. Payout(rows, table, b, o, short) \in Int
    BY <1>4, PayoutType
  <2>2. SettledBet(rows, table, b, o, short)
          = [rows[b] EXCEPT !.status = "won", !.payout = Payout(rows, table, b, o, short)]
    BY <1>4 DEF SettledBet
  <2> HIDE DEF c
  <2> QED BY <1>1, <2>1, <2>2 DEF Bet, BetStatus
<1>5. CASE Contested(rows, o, c) /\ rows[b].option # o
  <2> DEFINE zero == 0
  <2>1. SettledBet(rows, table, b, o, short) = [rows[b] EXCEPT !.status = "lost", !.payout = zero]
    BY <1>5 DEF SettledBet
  <2>2. zero \in Int
    OBVIOUS
  <2> HIDE DEF c, zero
  <2> QED BY <2>2, <1>1, <1>5, <2>1 DEF Bet, BetStatus
<1> QED BY <1>3, <1>4, <1>5

\* A settlement, from whatever rows it read, leaves tables of their types.
LEMMA SettlingType ==
  ASSUME TypeOK, NEW o \in Options, NEW rows \in Rows, NEW rest \in Rows,
         NEW table \in PoolTable, Settling(wallet, o, rows, table, rest),
         count' \in PoolTable
  PROVE  TypeOK'
<1>1. PICK short \in SUBSET Roundable(rows, table, o) :
        /\ bets' = [b \in BetIds |-> IF b \in ActiveRows(rows, RoundOf[o])
                                      THEN SettledBet(rows, table, b, o, short) ELSE rest[b]]
        /\ wallet' = [u \in Users |-> [c \in Currencies |->
                        wallet[u][c] + CreditsOf(rows, table, u, c, o, short)]]
  BY DEF Settling, WalletsSettled
<1>2. bets' \in [BetIds -> Bet \cup {NoBet}]
  <2>1. Divisible(rows, table, o)
    BY DEF Settling
  <2>2. \A b \in ActiveRows(rows, RoundOf[o]) : SettledBet(rows, table, b, o, short) \in Bet
    BY <2>1, SettledRowType
  <2> QED BY <1>1, <2>2 DEF Rows
<1>3. wallet' \in WalletTable
  <2>1. \A u \in Users, c \in Currencies : wallet'[u][c] \in Int
    BY LedgerMaxAssumption DEF Settling, Payable, TypeOK, WalletTable
  <2> QED BY <1>1, <2>1 DEF WalletTable
<1>4. /\ roundStatus' \in [Rounds -> RoundStatus]
      /\ optionStatus' \in [Options -> OptionStatus]
      /\ winning' \in [Options -> BOOLEAN]
  BY RoundOfAssumption DEF TypeOK, Settling, RoundStatus, OptionStatus
<1> QED BY <1>2, <1>3, <1>4 DEF TypeOK, Settling

\* Conflict does not ask which transaction came first.
LEMMA ConflictSymmetric ==
  ASSUME NEW K, NEW L, Compatible(K, L)
  PROVE  Compatible(L, K)
BY DEF Compatible, Conflict

\* What a request knows, when another one moves and the tables it has read
\* under a lock stay.
LEMMA OtherRequestKeeps ==
  ASSUME NEW q, req'[q] = req[q], RequestOK(req[q]),
         req[q].pc = "locking" =>
           /\ \A u \in Users : <<"wallet", u>> \in DOMAIN req[q].read => wallet'[u] = wallet[u]
           /\ \A o \in Options : <<"option", o>> \in DOMAIN req[q].read =>
                total'[o] = total[o] /\ count'[o] = count[o]
  PROVE  RequestOK(req[q])'
BY DEF RequestOK, ReadsCurrent

\* A request arrives.
LEMMA ArriveKeeps ==
  ASSUME RInv, NEW next, Arrive(next), Knows(next), next.pc = "read"
  PROVE  RInv'
<1>1. /\ IsSeq(req) /\ req' = Append(req, next) /\ UNCHANGED vars
  BY DEF RInv, Arrive
<1>2. TypeOK'
  BY <1>1 DEF RInv, TypeOK, vars
<1> DEFINE n == Len(req) + 1
<1>3. /\ IsSeq(req') /\ DOMAIN req' = DOMAIN req \cup {n} /\ req'[n] = next
      /\ \A q \in DOMAIN req : req'[q] = req[q]
  <2>1. Len(req) \in Nat /\ DOMAIN req = 1 .. Len(req)
    BY <1>1, SeqFacts
  <2>2. 1 .. Len(req) + 1 = 1 .. Len(req) \cup {Len(req) + 1}
    BY <2>1
  <2> QED BY <1>1, <2>1, <2>2, AppendFacts
<1> HIDE DEF n
<1>4. ASSUME NEW q \in DOMAIN req', InFlight(q)'
      PROVE  RequestOK(req[q])'
  <2>1. CASE q = n
    <3>1. req'[q].pc # "locking" /\ Knows(req[q])'
      BY <1>3, <2>1
    <3> QED BY <3>1 DEF RequestOK
  <2>2. CASE q \in DOMAIN req
    <3>1. RequestOK(req[q]) /\ req'[q] = req[q]
      BY <1>3, <1>4, <2>2 DEF RInv, InFlight, Requests
    <3>2. UNCHANGED <<wallet, total, count>>
      BY <1>1 DEF vars
    <3> QED BY <3>1, <3>2, OtherRequestKeeps
  <2> QED BY <1>3, <2>1, <2>2
<1>5. \A p \in DOMAIN req' : Locking(p)' => p \in DOMAIN req /\ Locking(p) /\ req'[p] = req[p]
  BY <1>3 DEF Locking, Requests
<1>6. LocksExclude'
  BY <1>5 DEF LocksExclude, Locking, Requests, RInv
<1> QED BY <1>2, <1>3, <1>4, <1>6 DEF RInv, Requests

\* A request goes on without touching the tables.
LEMMA ProceedKeeps ==
  ASSUME RInv, NEW q \in Requests, NEW next, Proceed(q, next), RequestOK(next),
         next.pc = "locking" =>
           \A p \in Requests \ {q} : Locking(p) => Compatible(next.held, req[p].held)
  PROVE  RInv'
<1>1. IsSeq(req) /\ req' = [req EXCEPT ![q] = next] /\ UNCHANGED vars
  BY DEF RInv, Proceed
<1>2. TypeOK'
  BY <1>1 DEF RInv, TypeOK, vars
<1>3. /\ IsSeq(req') /\ DOMAIN req' = DOMAIN req /\ req'[q] = next
      /\ \A p \in DOMAIN req \ {q} : req'[p] = req[p]
  BY <1>1, ChangeFacts DEF Requests
<1>4. ASSUME NEW p \in DOMAIN req', InFlight(p)'
      PROVE  RequestOK(req[p])'
  <2>0. UNCHANGED <<wallet, total, count>>
    BY <1>1 DEF vars
  <2>1. CASE p = q
    BY <1>3, <2>0, <2>1 DEF RequestOK, ReadsCurrent
  <2>2. CASE p # q
    <3>1. RequestOK(req[p]) /\ req'[p] = req[p]
      BY <1>3, <1>4, <2>2 DEF RInv, InFlight, Requests
    <3> QED BY <2>0, <3>1, OtherRequestKeeps
  <2> QED BY <2>1, <2>2
<1>5. \A p \in DOMAIN req' \ {q} : Locking(p)' => Locking(p) /\ req'[p] = req[p]
  BY <1>3 DEF Locking, Requests
<1>6. LocksExclude'
  <2> SUFFICES ASSUME NEW p \in DOMAIN req', NEW s \in DOMAIN req', p # s,
                      Locking(p)', Locking(s)'
               PROVE  Compatible(req'[p].held, req'[s].held)
    BY DEF LocksExclude, Requests
  <2>1. CASE p = q
    BY <1>3, <1>5, <2>1 DEF Locking, Requests
  <2>2. CASE s = q
    <3>1. Compatible(req'[s].held, req'[p].held)
      BY <1>3, <1>5, <2>2 DEF Locking, Requests
    <3> QED BY <3>1, ConflictSymmetric
  <2>3. CASE p # q /\ s # q
    BY <1>3, <1>5, <2>3 DEF RInv, LocksExclude, Requests
  <2> QED BY <2>1, <2>2, <2>3
<1> QED BY <1>2, <1>3, <1>4, <1>6 DEF RInv, Requests

\* Two transactions do not both hold a row that one of them has read under a
\* lock and the other writes.
LEMMA ReadRowIsNotWritten ==
  ASSUME RInv, NEW p \in Requests, NEW q \in Requests, p # q, Locking(p), Locking(q),
         NEW t, NEW x, ForUpdate(t, x) \in req[p].held
  PROVE  ForUpdate(t, x) \notin req[q].held /\ Updating(t, x) \notin req[q].held
<1>1. \A k \in req[p].held, l \in req[q].held : ~ Conflict(k, l)
  BY DEF RInv, LocksExclude, Compatible
<1>2. Conflict(ForUpdate(t, x), ForUpdate(t, x)) /\ Conflict(ForUpdate(t, x), Updating(t, x))
  BY DEF Conflict, ForUpdate, Updating
<1> QED BY <1>1, <1>2

\* A request is answered; what it writes it has locked.
LEMMA AnswerKeeps ==
  ASSUME RInv, NEW q \in Requests, Answer(q), TypeOK',
         \A u \in Users : wallet'[u] # wallet[u] =>
           Locking(q) /\ ForUpdate("wallet", u) \in req[q].held,
         \A o \in Options : total'[o] # total[o] \/ count'[o] # count[o] =>
           /\ Locking(q)
           /\ ForUpdate("option", o) \in req[q].held \/ Updating("option", o) \in req[q].held
  PROVE  RInv'
<1>1. IsSeq(req) /\ req' = [req EXCEPT ![q] = [pc |-> "answered"]]
  BY DEF RInv, Answer
<1>2. /\ IsSeq(req') /\ DOMAIN req' = DOMAIN req /\ req'[q] = [pc |-> "answered"]
      /\ \A p \in DOMAIN req \ {q} : req'[p] = req[p]
  BY <1>1, ChangeFacts DEF Requests
<1>3. ASSUME NEW p \in DOMAIN req', InFlight(p)'
      PROVE  RequestOK(req[p])'
  <2>1. p # q /\ req'[p] = req[p] /\ RequestOK(req[p])
    BY <1>2, <1>3 DEF InFlight, RInv, Requests
  <2>2. ASSUME req[p].pc = "locking"
        PROVE  /\ \A u \in Users : <<"wallet", u>> \in DOMAIN req[p].read =>
                    wallet'[u] = wallet[u]
               /\ \A o \in Options : <<"option", o>> \in DOMAIN req[p].read =>
                    total'[o] = total[o] /\ count'[o] = count[o]
    <3>1. Locking(p) /\ ReadsCurrent(req[p]) /\ p \in Requests
      BY <1>2, <2>1, <2>2 DEF Locking, Requests, RequestOK
    <3>2. ASSUME NEW u \in Users, <<"wallet", u>> \in DOMAIN req[p].read
          PROVE  wallet'[u] = wallet[u]
      <4>1. ForUpdate("wallet", u) \in req[p].held
        BY <3>1, <3>2 DEF ReadsCurrent
      <4> QED BY <2>1, <3>1, <4>1, ReadRowIsNotWritten
    <3>3. ASSUME NEW o \in Options, <<"option", o>> \in DOMAIN req[p].read
          PROVE  total'[o] = total[o] /\ count'[o] = count[o]
      <4>1. ForUpdate("option", o) \in req[p].held
        BY <3>1, <3>3 DEF ReadsCurrent
      <4> QED BY <2>1, <3>1, <4>1, ReadRowIsNotWritten
    <3> QED BY <3>2, <3>3
  <2> QED BY <2>1, <2>2, OtherRequestKeeps
<1>4. \A p \in DOMAIN req' : Locking(p)' => p # q /\ Locking(p) /\ req'[p] = req[p]
  BY <1>2 DEF Locking, Requests
<1>5. LocksExclude'
  BY <1>2, <1>4 DEF LocksExclude, Requests, RInv
<1> QED BY <1>2, <1>3, <1>5 DEF RInv, Requests

\* A refusal.
LEMMA RefuseKeeps ==
  ASSUME RInv, NEW q \in Requests, Refuse(q)
  PROVE  RInv'
<1>1. Answer(q) /\ UNCHANGED vars
  BY DEF Refuse
<1>2. TypeOK' /\ UNCHANGED <<wallet, total, count>>
  BY <1>1 DEF RInv, TypeOK, vars
<1> QED BY <1>1, <1>2, AnswerKeeps

\* The tables as a transaction has read them are the tables.
LEMMA AsReadIsCurrent ==
  ASSUME RInv, NEW q \in Requests, Locking(q)
  PROVE  /\ WalletAsRead(q) = wallet
         /\ TotalAsRead(q) = total /\ CountAsRead(q) = count
<1>1. ReadsCurrent(req[q]) /\ TypeOK
  BY DEF RInv, InFlight, Locking, RequestOK
<1>2. /\ wallet = [u \in Users |-> wallet[u]]
      /\ total = [o \in Options |-> total[o]] /\ count = [o \in Options |-> count[o]]
  BY <1>1 DEF TypeOK, WalletTable, PoolTable
<1>3. WalletAsRead(q) = [u \in Users |-> wallet[u]]
  BY <1>1 DEF WalletAsRead, ReadsCurrent
<1> DEFINE read == req[q].read
<1>4. ASSUME NEW o \in Options, <<"option", o>> \in DOMAIN read
      PROVE  read[<<"option", o>>].total = total[o] /\ read[<<"option", o>>].count = count[o]
  <2>1. read[<<"option", o>>] = [total |-> total[o], count |-> count[o]]
    BY <1>1, <1>4 DEF ReadsCurrent
  <2> QED BY <2>1
<1>5. TotalAsRead(q) = [o \in Options |-> IF <<"option", o>> \in DOMAIN read
                            THEN read[<<"option", o>>].total ELSE total[o]]
  BY DEF TotalAsRead
<1>6. CountAsRead(q) = [o \in Options |-> IF <<"option", o>> \in DOMAIN read
                            THEN read[<<"option", o>>].count ELSE count[o]]
  BY DEF CountAsRead
<1> HIDE DEF read
<1>7. TotalAsRead(q) = [o \in Options |-> total[o]]
  BY <1>4, <1>5
<1>8. CountAsRead(q) = [o \in Options |-> count[o]]
  BY <1>4, <1>6
<1> QED BY <1>2, <1>3, <1>7, <1>8

\* A transaction that is about to commit holds every lock it needs.
LEMMA ReadyHolds ==
  ASSUME RInv, NEW q \in Requests, Locking(q), req[q].plan = <<>>,
         NEW l \in Locks, Needs(req[q], l)
  PROVE  l \in req[q].held
<1>1. LocksCover(req[q])
  BY DEF RInv, InFlight, Locking, RequestOK
<1>2. DOMAIN req[q].plan = {}
  OBVIOUS
<1> QED BY <1>1, <1>2 DEF LocksCover

----------------------------------------------------------------------------
(***************************************************************************)
(* Every step keeps RInv.                                                  *)
(***************************************************************************)
\* A transaction that begins keeps what the request knows and holds no lock.
LEMMA BeginKnows ==
  ASSUME NEW r, Knows(r), r.kind \in {"place", "edit", "cancel"}, NEW plan \in Seq(Locks),
         \A l \in Locks : Needs(r, l) => \E i \in DOMAIN plan : plan[i] = l
  PROVE  RequestOK(Begin(r, plan)) /\ Begin(r, plan).held = {}
<1> DEFINE n == Begin(r, plan)
<1>1. /\ DOMAIN n = DOMAIN r \cup {"plan", "held", "read"} /\ "pc" \in DOMAIN r
      /\ n.pc = "locking" /\ n.plan = plan /\ n.held = {} /\ n.read = <<>>
  BY DEF Begin, Knows
<1>2. n.kind = r.kind
  BY DEF Begin, Knows
<1>3. r.kind = "place" => PlaceKnows(n) /\ n.user = r.user /\ n.option = r.option
  BY DEF Begin, Knows, PlaceKnows
<1>4. r.kind \in {"edit", "cancel"} =>
        CancelKnows(n) /\ n.user = r.user /\ n.seen = r.seen /\ n.bet = r.bet
  <2>1. r.kind \in {"edit", "cancel"} => CancelKnows(r)
    BY DEF Knows, EditKnows
  <2> QED BY <2>1 DEF Begin, CancelKnows
<1>5. r.kind = "edit" =>
        EditKnows(n) /\ n.option = r.option /\ n.currency = r.currency /\ n.amount = r.amount
  <2>1. r.kind = "edit" => EditKnows(r)
    BY DEF Knows
  <2>2. r.kind = "edit" =>
          /\ {"option", "currency", "amount"} \subseteq DOMAIN n
          /\ n.option = r.option /\ n.currency = r.currency /\ n.amount = r.amount
    BY <2>1 DEF Begin, EditKnows
  <2> QED BY <1>4, <2>1, <2>2 DEF EditKnows
<1>6. LockingKnows(n)
  BY <1>1, <1>2 DEF LockingKnows
<1> HIDE DEF n
<1>7. Knows(n)
  BY <1>1, <1>2, <1>3, <1>4, <1>5, <1>6 DEF Knows
<1>8. \A l \in Locks : Needs(n, l) => Needs(r, l)
  BY <1>2, <1>3, <1>4, <1>5 DEF Needs
<1>9. LocksCover(n)
  BY <1>1, <1>8 DEF LocksCover
<1>10. ReadsCurrent(n)
  <2>1. DOMAIN n.read = {}
    BY <1>1
  <2> QED BY <2>1 DEF ReadsCurrent
<1> QED BY <1>1, <1>7, <1>9, <1>10 DEF RequestOK, n

\* Such a step of a request that has read.
LEMMA BeginKeeps ==
  ASSUME RInv, NEW q \in Requests, InFlight(q), req[q].kind \in {"place", "edit", "cancel"},
         NEW plan \in Seq(Locks), Proceed(q, Begin(req[q], plan)),
         \A l \in Locks : Needs(req[q], l) => \E i \in DOMAIN plan : plan[i] = l
  PROVE  RInv'
<1> DEFINE next == Begin(req[q], plan)
<1>1. RequestOK(next) /\ next.held = {}
  <2>1. Knows(req[q])
    BY DEF RInv, RequestOK
  <2> QED BY <2>1, BeginKnows
<1>2. \A L : Compatible({}, L)
  BY DEF Compatible
<1> HIDE DEF next
<1> QED BY <1>1, <1>2, ProceedKeeps DEF next

\* The locks on the rows of the tables.
LEMMA LockType ==
  /\ \A u \in Users : ForUpdate("wallet", u) \in Locks
  /\ \A o \in Options : /\ ForUpdate("option", o) \in Locks
                        /\ Updating("option", o) \in Locks
                        /\ KeyShare("option", o) \in Locks
  /\ \A b \in BetIds : Updating("bet", b) \in Locks
BY DEF Locks, ForUpdate, Updating, KeyShare

\* A plan of three locks, and of four.
LEMMA ThreeLocks ==
  ASSUME NEW j \in Locks, NEW k \in Locks, NEW l \in Locks
  PROVE  /\ <<j, k, l>> \in Seq(Locks)
         /\ \A x \in {j, k, l} : \E i \in DOMAIN <<j, k, l>> : <<j, k, l>>[i] = x
<1> DEFINE s == <<j, k, l>>
<1>1. s \in Seq(Locks) /\ 1 \in DOMAIN s /\ 2 \in DOMAIN s /\ 3 \in DOMAIN s
  OBVIOUS
<1>2. s[1] = j /\ s[2] = k /\ s[3] = l
  OBVIOUS
<1> QED BY <1>1, <1>2

\* The plan of an edit is a sequence of locks that names each of them.
LEMMA FourLocks ==
  ASSUME NEW j \in Locks, NEW k \in Locks, NEW l \in Locks, NEW m \in Locks
  PROVE  /\ <<m>> \o <<j, k, l>> \in Seq(Locks)
         /\ \A x \in {j, k, l, m} :
              \E i \in DOMAIN (<<m>> \o <<j, k, l>>) : (<<m>> \o <<j, k, l>>)[i] = x
<1> DEFINE s == <<m>>
           t == <<j, k, l>>
<1>1. s \in Seq(Locks) /\ t \in Seq(Locks) /\ 1 \in DOMAIN s /\ s[1] = m
  OBVIOUS
<1>2. \A x \in {j, k, l} : \E i \in DOMAIN t : t[i] = x
  BY ThreeLocks
<1> HIDE DEF s, t
<1>3. /\ s \o t \in Seq(Locks)
      /\ \A i \in DOMAIN s : i \in DOMAIN (s \o t) /\ (s \o t)[i] = s[i]
      /\ \A i \in DOMAIN t : \E h \in DOMAIN (s \o t) : (s \o t)[h] = t[i]
  BY <1>1, ConcatFacts
<1>4. \A x \in {j, k, l, m} : \E i \in DOMAIN (s \o t) : (s \o t)[i] = x
  BY <1>1, <1>2, <1>3, ZenonT(40)
<1> QED BY <1>3, <1>4 DEF s, t

----------------------------------------------------------------------------
\* placeBet checks for another bet, and its transaction begins.
LEMMA PlaceChecksKeeps ==
  ASSUME RInv, NEW q, PlaceChecks(q)
  PROVE  RInv'
<1> DEFINE r == req[q]
           plan == <<ForUpdate("wallet", r.user), KeyShare("option", r.option),
                     ForUpdate("option", r.option)>>
<1>1. q \in Requests /\ InFlight(q) /\ r.kind = "place" /\ Knows(r)
  BY DEF PlaceChecks, Reading, InFlight, RInv, RequestOK
<1>2. r.user \in Users /\ r.option \in Options
  BY <1>1 DEF Knows, PlaceKnows
<1>3. plan \in Seq(Locks) /\ \A l \in Locks : Needs(r, l) => \E i \in DOMAIN plan : plan[i] = l
  <2>1. /\ ForUpdate("wallet", r.user) \in Locks /\ ForUpdate("option", r.option) \in Locks
        /\ KeyShare("option", r.option) \in Locks
    BY <1>2, LockType
  <2>2. /\ plan \in Seq(Locks)
        /\ \A x \in {ForUpdate("wallet", r.user), KeyShare("option", r.option),
                     ForUpdate("option", r.option)} : \E i \in DOMAIN plan : plan[i] = x
    BY <2>1, ThreeLocks
  <2> HIDE DEF plan
  <2>3. \A l \in Locks : Needs(r, l) =>
          l \in {ForUpdate("wallet", r.user), ForUpdate("option", r.option)}
    BY <1>1 DEF Needs
  <2> QED BY <2>2, <2>3
<1>4. Refuse(q) \/ Proceed(q, Begin(r, plan))
  BY DEF PlaceChecks
<1> HIDE DEF plan
<1> QED BY <1>1, <1>3, <1>4, RefuseKeeps, BeginKeeps

\* editBet checks the round, and its transaction begins.
LEMMA EditChecksKeeps ==
  ASSUME RInv, NEW q, EditChecks(q)
  PROVE  RInv'
<1> DEFINE r == req[q]
           j == ForUpdate("option", r.seen.option)
           k == ForUpdate("option", r.option)
           l == Updating("bet", r.bet)
           m == ForUpdate("wallet", r.user)
           same == r.seen.amount = r.amount /\ r.seen.currency = r.currency
           wallets == IF same THEN <<>> ELSE <<m>>
           plan == wallets \o <<j, k, l>>
<1>1. q \in Requests /\ InFlight(q) /\ r.kind = "edit" /\ Knows(r)
  BY DEF EditChecks, Reading, InFlight, RInv, RequestOK
<1>2. j \in Locks /\ k \in Locks /\ l \in Locks /\ m \in Locks
  <2>1. r.user \in Users /\ r.option \in Options /\ r.bet \in BetIds /\ r.seen.option \in Options
    BY <1>1, RowColumns DEF Knows, EditKnows, CancelKnows
  <2> QED BY <2>1, LockType
<1>3. \A x \in Locks : Needs(r, x) => x \in {j, k} \/ (x = m /\ ~ same)
  BY <1>1 DEF Needs
<1>4. Refuse(q) \/ Proceed(q, Begin(r, plan))
  BY DEF EditChecks
<1> HIDE DEF j, k, l, m
<1>5. plan \in Seq(Locks) /\ \A x \in Locks : Needs(r, x) => \E i \in DOMAIN plan : plan[i] = x
  <2>1. CASE same
    <3> DEFINE s == <<j, k, l>>
    <3>1. plan = s
      <4>1. <<>> \o s = s
        BY <1>2
      <4> QED BY <2>1, <4>1
    <3>2. s \in Seq(Locks) /\ \A x \in {j, k, l} : \E i \in DOMAIN s : s[i] = x
      BY <1>2, ThreeLocks
    <3> HIDE DEF plan, same, s
    <3> QED BY <1>3, <2>1, <3>1, <3>2
  <2>2. CASE ~ same
    <3> DEFINE s == <<m>> \o <<j, k, l>>
    <3>1. plan = s
      BY <2>2
    <3>2. s \in Seq(Locks) /\ \A x \in {j, k, l, m} : \E i \in DOMAIN s : s[i] = x
      <4>1. m \in Locks /\ j \in Locks /\ k \in Locks /\ l \in Locks
        BY <1>2
      <4>2. \A x \in {j, k, l, m} : \E i \in DOMAIN s : s[i] = x
        BY <4>1, FourLocks, SMTT(60)
      <4>3. s \in Seq(Locks)
        BY <4>1, FourLocks, Zenon
      <4> QED BY <4>2, <4>3
    <3> HIDE DEF plan, same, s
    <3> QED BY <1>3, <3>1, <3>2
  <2> QED BY <2>1, <2>2
<1> HIDE DEF plan
<1> QED BY <1>1, <1>4, <1>5, RefuseKeeps, BeginKeeps

\* cancelBet checks the round, and its transaction begins.
LEMMA CancelChecksKeeps ==
  ASSUME RInv, NEW q, CancelChecks(q)
  PROVE  RInv'
<1> DEFINE r == req[q]
           j == ForUpdate("option", r.seen.option)
           k == ForUpdate("wallet", r.user)
           l == Updating("bet", r.bet)
           plan == <<j, k, l>>
<1>1. q \in Requests /\ InFlight(q) /\ r.kind = "cancel" /\ Knows(r)
  BY DEF CancelChecks, Reading, InFlight, RInv, RequestOK
<1>2. j \in Locks /\ k \in Locks /\ l \in Locks
  <2>1. r.user \in Users /\ r.bet \in BetIds /\ r.seen.option \in Options
    BY <1>1, RowColumns DEF Knows, CancelKnows
  <2> QED BY <2>1, LockType
<1>3. \A x \in Locks : Needs(r, x) => x \in {j, k}
  BY <1>1 DEF Needs
<1>4. Refuse(q) \/ Proceed(q, Begin(r, plan))
  BY DEF CancelChecks
<1> HIDE DEF j, k, l
<1>5. plan \in Seq(Locks) /\ \A x \in {j, k, l} : \E i \in DOMAIN plan : plan[i] = x
  BY <1>2, ThreeLocks
<1> HIDE DEF plan
<1> QED BY <1>1, <1>3, <1>4, <1>5, RefuseKeeps, BeginKeeps

\* A request to lock a round counts its bets.
LEMMA LockCountsKeeps ==
  ASSUME RInv, NEW q, LockCounts(q)
  PROVE  RInv'
<1> DEFINE r == req[q]
           next == [r EXCEPT !.pc = "counted"]
<1>1. q \in Requests /\ r.kind = "lock" /\ Knows(r)
  BY DEF LockCounts, Reading, InFlight, RInv, RequestOK
<1>2. RequestOK(next) /\ next.pc # "locking"
  BY <1>1 DEF RequestOK, Knows, RoundKnows
<1>3. Refuse(q) \/ Proceed(q, next)
  BY DEF LockCounts
<1> HIDE DEF next
<1> QED BY <1>1, <1>2, <1>3, RefuseKeeps, ProceedKeeps

\* The status of a round is saved; no locked row changes.
LEMMA StatusSavedKeeps ==
  ASSUME RInv, NEW q, StatusSaved(q)
  PROVE  RInv'
<1>1. q \in Requests /\ Answer(q) /\ UNCHANGED <<options, pools, bets, wallet, streamEnded>>
  BY DEF StatusSaved, Reading
<1>2. \E status \in {"open", "locked"} : roundStatus' = [roundStatus EXCEPT ![req[q].round] = status]
  BY DEF StatusSaved
<1>3. TypeOK'
  BY <1>1, <1>2 DEF RInv, TypeOK, options, pools, RoundStatus
<1> QED BY <1>1, <1>3, AnswerKeeps DEF pools

\* A transaction takes its next lock, which no other holds, and reads the row.
LEMMA AcquireKeeps ==
  ASSUME RInv, NEW q, Acquire(q)
  PROVE  RInv'
<1> DEFINE r == req[q]
           l == Head(r.plan)
           next == [r EXCEPT !.plan = Tail(@), !.held = @ \cup {l}, !.read = Returned(@, l)]
<1>1. /\ q \in Requests /\ r.pc = "locking" /\ r.plan # <<>> /\ Blockers(q) = {}
      /\ Proceed(q, next) /\ InFlight(q)
  BY DEF Acquire, Locking, InFlight
<1>2. Knows(r) /\ LockingKnows(r) /\ LocksCover(r) /\ ReadsCurrent(r) /\ TypeOK
  BY <1>1 DEF RInv, RequestOK, Knows
<1>3. /\ Tail(r.plan) \in Seq(Locks) /\ l \in Locks
      /\ \A i \in DOMAIN r.plan :
           r.plan[i] = l \/ \E j \in DOMAIN Tail(r.plan) : Tail(r.plan)[j] = r.plan[i]
  <2>1. r.plan \in Seq(Locks)
    BY <1>2 DEF LockingKnows
  <2> QED BY <1>1, <2>1, TailFacts
<1> HIDE DEF l
<1>4. /\ DOMAIN next = DOMAIN r /\ next.pc = "locking" /\ next.kind = r.kind
      /\ next.plan = Tail(r.plan) /\ next.held = r.held \cup {l}
      /\ next.read = Returned(r.read, l)
      /\ \A f \in DOMAIN r : f \notin {"plan", "held", "read"} => next[f] = r[f]
  BY <1>1, <1>2 DEF Knows, LockingKnows
<1>5. /\ PlaceKnows(r) => PlaceKnows(next) /\ next.user = r.user /\ next.option = r.option
      /\ CancelKnows(r) => CancelKnows(next) /\ next.user = r.user /\ next.seen = r.seen
      /\ EditKnows(r) => /\ EditKnows(next) /\ next.option = r.option
                         /\ next.currency = r.currency /\ next.amount = r.amount
                         /\ next.user = r.user /\ next.seen = r.seen
      /\ DeclareKnows(r) => /\ DeclareKnows(next) /\ next.option = r.option
                            /\ "rows" \in DOMAIN r => next.rows = r.rows
  <2>1. PlaceKnows(r) => PlaceKnows(next) /\ next.user = r.user /\ next.option = r.option
    BY <1>4 DEF PlaceKnows
  <2>2. CancelKnows(r) => CancelKnows(next) /\ next.user = r.user /\ next.seen = r.seen
    BY <1>4 DEF CancelKnows
  <2>3. EditKnows(r) => /\ EditKnows(next) /\ next.option = r.option
                        /\ next.currency = r.currency /\ next.amount = r.amount
    BY <1>4, <2>2 DEF EditKnows
  <2>4. DeclareKnows(r) => /\ DeclareKnows(next) /\ next.option = r.option
                           /\ "rows" \in DOMAIN r => next.rows = r.rows
    BY <1>1, <1>4 DEF DeclareKnows
  <2> QED BY <2>1, <2>2, <2>3, <2>4 DEF EditKnows
<1> HIDE DEF next
<1>6. Knows(next)
  <2>1. LockingKnows(next)
    BY <1>2, <1>3, <1>4 DEF LockingKnows
  <2> QED BY <1>2, <1>4, <1>5, <2>1 DEF Knows, LockingKnows
<1>7. \A k \in Locks : Needs(next, k) => Needs(r, k)
  <2>1. CASE r.kind = "place"
    BY <1>2, <1>4, <1>5, <2>1 DEF Knows, Needs
  <2>2. CASE r.kind \in {"edit", "cancel"}
    BY <1>2, <1>4, <1>5, <2>2 DEF Knows, Needs
  <2>3. CASE r.kind = "declare"
    <3>1. Rewarded(next) = Rewarded(r) \/ "rows" \notin DOMAIN r
      BY <1>2, <1>5, <2>3 DEF Knows, Rewarded
    <3> QED BY <1>2, <1>4, <1>5, <2>3, <3>1 DEF Knows, Needs
  <2> QED BY <1>2, <2>1, <2>2, <2>3 DEF LockingKnows
<1>8. LocksCover(next)
  BY <1>2, <1>3, <1>4, <1>7 DEF LocksCover
<1>9. ReadsCurrent(next)
  <2>1. /\ DOMAIN next.read \subseteq DOMAIN r.read
              \cup (IF l.mode = "for update" THEN {<<l.table, l.row>>} ELSE {})
        /\ \A k \in DOMAIN next.read :
             next.read[k] = IF k \in DOMAIN r.read THEN r.read[k] ELSE Row(k)
    BY <1>4 DEF Returned
  <2>2. \A t, x : l.mode = "for update" /\ <<l.table, l.row>> = <<t, x>> => l = ForUpdate(t, x)
    BY <1>3 DEF Locks, ForUpdate
  <2>3. ASSUME NEW u \in Users, <<"wallet", u>> \in DOMAIN next.read
        PROVE  ForUpdate("wallet", u) \in next.held /\ next.read[<<"wallet", u>>] = wallet[u]
    <3>1. CASE <<"wallet", u>> \in DOMAIN r.read
      BY <1>2, <1>4, <2>1, <2>3, <3>1 DEF ReadsCurrent
    <3>2. CASE <<"wallet", u>> \notin DOMAIN r.read
      <4>1. l = ForUpdate("wallet", u)
        BY <2>1, <2>2, <2>3, <3>2
      <4>2. next.read[<<"wallet", u>>] = Row(<<"wallet", u>>)
        BY <2>1, <2>3, <3>2
      <4> QED BY <1>4, <4>1, <4>2 DEF Row
    <3> QED BY <3>1, <3>2
  <2>4. ASSUME NEW o \in Options, <<"option", o>> \in DOMAIN next.read
        PROVE  /\ ForUpdate("option", o) \in next.held
               /\ next.read[<<"option", o>>] = [total |-> total[o], count |-> count[o]]
    <3>1. CASE <<"option", o>> \in DOMAIN r.read
      BY <1>2, <1>4, <2>1, <2>4, <3>1 DEF ReadsCurrent
    <3>2. CASE <<"option", o>> \notin DOMAIN r.read
      <4>1. l = ForUpdate("option", o)
        BY <2>1, <2>2, <2>4, <3>2
      <4>2. next.read[<<"option", o>>] = Row(<<"option", o>>)
        BY <2>1, <2>4, <3>2
      <4> QED BY <1>4, <4>1, <4>2 DEF Row
    <3> QED BY <3>1, <3>2
  <2> QED BY <2>3, <2>4 DEF ReadsCurrent
<1>10. ASSUME NEW p \in Requests \ {q}, Locking(p)
       PROVE  Compatible(next.held, req[p].held)
  <2>1. Compatible(r.held, req[p].held)
    BY <1>1, <1>10 DEF RInv, LocksExclude, Locking
  <2>2. "held" \in DOMAIN req[p]
    BY <1>10 DEF RInv, InFlight, Locking, RequestOK, Knows, LockingKnows
  <2>3. \A k \in req[p].held : ~ Conflict(l, k)
    BY <1>1, <1>10, <2>2 DEF Blockers, Holds, Locking, l
  <2> QED BY <1>4, <2>1, <2>3 DEF Compatible
<1> QED BY <1>1, <1>6, <1>8, <1>9, <1>10, ProceedKeeps DEF RequestOK

----------------------------------------------------------------------------
\* A wallet, a total or a count that is not the one written stays.
LEMMA CreditedElsewhere ==
  ASSUME NEW w \in WalletTable, NEW u, NEW c, NEW n, NEW v \in Users, v # u
  PROVE  Credited(w, u, c, n)[v] = w[v]
BY DEF Credited, WalletTable

\* An edit leaves the pools of all but the two options it locked.
LEMMA RestakedElsewhere ==
  ASSUME NEW t \in PoolTable, NEW o \in Options, NEW c \in Currencies, NEW j,
         NEW p \in Options, NEW d \in Currencies, NEW k, NEW x \in Options, x # o, x # p
  PROVE  Restaked(t, o, c, j, p, d, k)[x] = t[x]
BY DEF Restaked, PoolTable

\* An edit that changes neither amount nor currency moves no money.
LEMMA ExchangedSame ==
  ASSUME NEW w \in WalletTable, NEW u \in Users, NEW c \in Currencies, NEW n \in Int
  PROVE  Exchanged(w, u, c, n, c, n) = w
<1> DEFINE k == n * Unit(c)
           w1 == [w EXCEPT ![u][c] = @ + k]
<1>1. k \in Int /\ (-n) * Unit(c) = -k
  BY UnitType
<1> HIDE DEF k
<1>2. w1 \in WalletTable /\ [w1 EXCEPT ![u][c] = @ + (-k)] \in WalletTable
  BY <1>1 DEF WalletTable
<1>3. ASSUME NEW v \in Users, NEW d \in Currencies
      PROVE  [w1 EXCEPT ![u][c] = @ + (-k)][v][d] = w[v][d]
  BY <1>1 DEF WalletTable
<1>4. [w1 EXCEPT ![u][c] = @ + (-k)] = w
  <2>1. DOMAIN w = Users /\ DOMAIN [w1 EXCEPT ![u][c] = @ + (-k)] = Users
    BY <1>2 DEF WalletTable
  <2>2. \A v \in Users : [w1 EXCEPT ![u][c] = @ + (-k)][v] = w[v]
    BY <1>2, <1>3 DEF WalletTable
  <2> HIDE DEF w1
  <2> QED BY <1>2, <2>1, <2>2 DEF WalletTable
<1>5. Exchanged(w, u, c, n, c, n) = [w1 EXCEPT ![u][c] = @ + (-n) * Unit(c)]
  BY DEF Exchanged, Credited, k
<1> QED BY <1>1, <1>4, <1>5

\* A bet is placed: what it writes was locked.
LEMMA PlaceCommitsKeeps ==
  ASSUME RInv, NEW q, PlaceCommits(q)
  PROVE  RInv'
<1> DEFINE r == req[q]
<1>1. /\ q \in Requests /\ Locking(q) /\ r.kind = "place" /\ r.plan = <<>> /\ Answer(q)
      /\ InFlight(q)
  BY DEF PlaceCommits, Ready, Locking, InFlight
<1>2. /\ r.user \in Users /\ r.option \in Options
      /\ r.currency \in Currencies /\ r.amount \in Amounts
  BY <1>1 DEF RInv, RequestOK, Knows, PlaceKnows
<1>3. PICK b \in BetIds :
        Placing(wallet, total, count, r.user, r.option, r.currency, r.amount, b)
  BY <1>1, AsReadIsCurrent DEF PlaceCommits
<1>4. TypeOK /\ TypeOK'
  BY <1>2, <1>3, PlacingType DEF RInv
<1>5. ForUpdate("wallet", r.user) \in r.held /\ ForUpdate("option", r.option) \in r.held
  <2>1. /\ ForUpdate("wallet", r.user) \in Locks /\ Needs(r, ForUpdate("wallet", r.user))
        /\ ForUpdate("option", r.option) \in Locks /\ Needs(r, ForUpdate("option", r.option))
    BY <1>1, <1>2, LockType DEF Needs
  <2> QED BY <1>1, <2>1, ReadyHolds
<1>6. \A u \in Users : u # r.user => wallet'[u] = wallet[u]
  BY <1>3, <1>4, CreditedElsewhere DEF Placing, TypeOK
<1>7. \A o \in Options : o # r.option => total'[o] = total[o] /\ count'[o] = count[o]
  BY <1>3, <1>4 DEF Placing, Staked, TypeOK, PoolTable
<1> QED BY <1>1, <1>4, <1>5, <1>6, <1>7, AnswerKeeps

\* A bet is edited: what it writes was locked.
LEMMA EditCommitsKeeps ==
  ASSUME RInv, NEW q, EditCommits(q)
  PROVE  RInv'
<1> DEFINE r == req[q]
           s == r.seen
           same == s.amount = r.amount /\ s.currency = r.currency
<1>1. /\ q \in Requests /\ Locking(q) /\ r.kind = "edit" /\ r.plan = <<>> /\ Answer(q)
      /\ InFlight(q)
  BY DEF EditCommits, Ready, Locking, InFlight
<1>2. /\ r.option \in Options /\ r.currency \in Currencies /\ r.amount \in Amounts
      /\ r.bet \in BetIds /\ s \in Bet /\ r.user = s.user
      /\ s.option \in Options /\ s.currency \in Currencies /\ s.user \in Users
      /\ s.amount \in Int
  BY <1>1, RowColumns DEF RInv, RequestOK, Knows, EditKnows, CancelKnows
<1>3. Editing(wallet, total, count, s, r.bet, r.option, r.currency, r.amount)
  BY <1>1, AsReadIsCurrent DEF EditCommits
<1> HIDE DEF s
<1>4. TypeOK /\ TypeOK'
  BY <1>2, <1>3, EditingType DEF RInv
<1>5. /\ ~ same => ForUpdate("wallet", r.user) \in r.held
      /\ ForUpdate("option", s.option) \in r.held /\ ForUpdate("option", r.option) \in r.held
  <2>1. /\ ForUpdate("wallet", r.user) \in Locks
        /\ ~ same => Needs(r, ForUpdate("wallet", r.user))
        /\ ForUpdate("option", s.option) \in Locks /\ Needs(r, ForUpdate("option", s.option))
        /\ ForUpdate("option", r.option) \in Locks /\ Needs(r, ForUpdate("option", r.option))
    BY <1>1, <1>2, LockType DEF Needs, s
  <2> QED BY <1>1, <2>1, ReadyHolds
<1>6. same => wallet' = wallet
  BY <1>2, <1>3, <1>4, ExchangedSame DEF Editing, TypeOK
<1>7. \A u \in Users : u # r.user => wallet'[u] = wallet[u]
  <2> DEFINE w == Credited(wallet, s.user, s.currency, s.amount)
  <2>1. w \in WalletTable /\ wallet' = Credited(w, s.user, r.currency, -r.amount)
    BY <1>2, <1>3, <1>4, CreditedType DEF Editing, Exchanged, TypeOK
  <2>2. \A u \in Users : u # r.user => w[u] = wallet[u]
    BY <1>2, <1>4, CreditedElsewhere DEF TypeOK
  <2> HIDE DEF w
  <2> QED BY <1>2, <2>1, <2>2, CreditedElsewhere
<1>8. ASSUME NEW o \in Options, o # s.option, o # r.option
      PROVE  total'[o] = total[o] /\ count'[o] = count[o]
  <2>1. /\ total' = Restaked(total, s.option, s.currency, s.amount, r.option, r.currency, r.amount)
        /\ \/ count' = count
           \/ count' = Restaked(count, s.option, s.currency, 1, r.option, r.currency, 1)
    BY <1>3 DEF Editing, Recounted
  <2>2. total'[o] = total[o]
    BY <1>2, <1>4, <1>8, <2>1, RestakedElsewhere DEF TypeOK
  <2>3. Restaked(count, s.option, s.currency, 1, r.option, r.currency, 1)[o] = count[o]
    BY <1>2, <1>4, <1>8, RestakedElsewhere DEF TypeOK
  <2> QED BY <2>1, <2>2, <2>3
<1> QED BY <1>1, <1>4, <1>5, <1>6, <1>7, <1>8, AnswerKeeps

\* A bet is cancelled: what it writes was locked.
LEMMA CancelCommitsKeeps ==
  ASSUME RInv, NEW q, CancelCommits(q)
  PROVE  RInv'
<1> DEFINE r == req[q]
           s == r.seen
<1>1. /\ q \in Requests /\ Locking(q) /\ r.kind = "cancel" /\ r.plan = <<>> /\ Answer(q)
      /\ InFlight(q)
  BY DEF CancelCommits, Ready, Locking, InFlight
<1>2. /\ r.bet \in BetIds /\ s \in Bet /\ r.user = s.user
      /\ s.option \in Options /\ s.currency \in Currencies /\ s.user \in Users
      /\ s.amount \in Int
  BY <1>1, RowColumns DEF RInv, RequestOK, Knows, CancelKnows
<1>3. Cancelling(wallet, total, count, s, r.bet)
  BY <1>1, AsReadIsCurrent DEF CancelCommits
<1> HIDE DEF s
<1>4. TypeOK /\ TypeOK'
  BY <1>2, <1>3, CancellingType DEF RInv
<1>5. ForUpdate("wallet", r.user) \in r.held /\ ForUpdate("option", s.option) \in r.held
  <2>1. /\ ForUpdate("wallet", r.user) \in Locks /\ Needs(r, ForUpdate("wallet", r.user))
        /\ ForUpdate("option", s.option) \in Locks /\ Needs(r, ForUpdate("option", s.option))
    BY <1>1, <1>2, LockType DEF Needs, s
  <2> QED BY <1>1, <2>1, ReadyHolds
<1>6. \A u \in Users : u # r.user => wallet'[u] = wallet[u]
  BY <1>2, <1>3, <1>4, CreditedElsewhere DEF Cancelling, TypeOK
<1>7. \A o \in Options : o # s.option => total'[o] = total[o] /\ count'[o] = count[o]
  BY <1>3, <1>4 DEF Cancelling, Unstaked, TypeOK, PoolTable
<1> QED BY <1>1, <1>4, <1>5, <1>6, <1>7, AnswerKeeps

\* declareWinner begins: its plan names every option of the round.
LEMMA DeclareSavesKeeps ==
  ASSUME RInv, NEW q, DeclareSaves(q)
  PROVE  RInv'
<1> DEFINE r == req[q]
           o == r.option
           others == {p \in Options \ {o} : RoundOf[p] = RoundOf[o]}
           away == r.carried \ On(o)
           back == SetToSeq(away)
           known == [pc |-> "read", kind |-> "declare", option |-> o,
                     total |-> r.total, count |-> r.count, rebound |-> away,
                     staleTotal |-> Stale(total[o], r.total),
                     staleCount |-> Stale(count[o], r.count)]
           first == <<Updating("option", o)>>
           second == [i \in DOMAIN back |-> Updating("bet", back[i])]
           third(rest) == [i \in DOMAIN rest |-> Updating("option", rest[i])]
           plan(rest) == first \o second \o third(rest)
<1>1. q \in Requests /\ InFlight(q) /\ r.pc = "read" /\ r.kind = "declare" /\ DeclareKnows(r)
  BY DEF DeclareSaves, Reading, InFlight, RInv, RequestOK, Knows
<1>2. /\ o \in Options /\ r.total \in [Currencies -> Int] /\ r.count \in [Currencies -> Int]
      /\ r.carried \subseteq BetIds
  BY <1>1 DEF DeclareKnows
<1>3. CASE Refuse(q)
  BY <1>1, <1>3, RefuseKeeps
<1>4. CASE ~ Refuse(q)
  <2>1. PICK rest \in SetToSeqs(others) : Proceed(q, Begin(known, plan(rest)))
    BY <1>4 DEF DeclareSaves
  <2>2. IsFiniteSet(others) /\ others \subseteq Options
    BY OptionsAssumption, FS_Subset
  <2>3. rest \in Seq(others) /\ \A p \in others : \E i \in DOMAIN rest : rest[i] = p
    <3> HIDE DEF others
    <3> QED BY <2>2, OrderFacts
  <2>4. back \in Seq(BetIds)
    <3>1. IsFiniteSet(away) /\ away \subseteq BetIds
      BY <1>2, BetIdsAssumption, FS_Subset
    <3>2. back \in Seq(away)
      <4> HIDE DEF away
      <4> QED BY <3>1, ChosenOrderFacts
    <3> HIDE DEF away, back
    <3> QED BY <3>1, <3>2
  <2>5. first \in Seq(Locks) /\ first[1] = Updating("option", o) /\ 1 \in DOMAIN first
    BY <1>2, LockType
  <2>6. second \in Seq(Locks)
    <3> HIDE DEF back
    <3>1. \A i \in DOMAIN back : second[i] \in Locks
      BY <2>4, LockType
    <3>2. second \in [1 .. Len(back) -> Locks] /\ Len(back) \in Nat
      BY <2>4, <3>1
    <3> HIDE DEF second
    <3> QED BY <3>2
  <2>7. third(rest) \in Seq(Locks)
    <3>1. \A i \in DOMAIN rest : third(rest)[i] \in Locks
      BY <2>2, <2>3, LockType
    <3>2. third(rest) \in [1 .. Len(rest) -> Locks] /\ Len(rest) \in Nat
      BY <2>3, <3>1
    <3> HIDE DEF third
    <3> QED BY <3>2
  <2>8. /\ plan(rest) \in Seq(Locks)
        /\ \E i \in DOMAIN plan(rest) : plan(rest)[i] = Updating("option", o)
        /\ \A p \in others : \E i \in DOMAIN plan(rest) : plan(rest)[i] = Updating("option", p)
    <3> DEFINE half == first \o second
    <3>1. \A p \in others : \E i \in DOMAIN third(rest) : third(rest)[i] = Updating("option", p)
      BY <2>3
    <3> HIDE DEF first, second, third, others
    <3>2. half \in Seq(Locks) /\ 1 \in DOMAIN half /\ half[1] = Updating("option", o)
      BY <2>5, <2>6, ConcatFacts
    <3>3. plan(rest) = half \o third(rest)
      OBVIOUS
    <3> HIDE DEF half, plan
    <3>4. /\ half \o third(rest) \in Seq(Locks)
          /\ \A i \in DOMAIN half : /\ i \in DOMAIN (half \o third(rest))
                                    /\ (half \o third(rest))[i] = half[i]
          /\ \A i \in DOMAIN third(rest) :
               \E j \in DOMAIN (half \o third(rest)) : (half \o third(rest))[j] = third(rest)[i]
      BY <2>7, <3>2, ConcatFacts
    <3>5. \A p \in others :
            \E j \in DOMAIN (half \o third(rest)) : (half \o third(rest))[j] = Updating("option", p)
      BY <3>1, <3>4
    <3>6. 1 \in DOMAIN (half \o third(rest)) /\ (half \o third(rest))[1] = Updating("option", o)
      BY <3>2, <3>4
    <3> QED BY <3>3, <3>4, <3>5, <3>6
  <2> DEFINE n == Begin(known, plan(rest))
  <2> HIDE DEF plan, back
  <2>9. /\ DOMAIN n = DOMAIN known \cup {"plan", "held", "read"}
        /\ n.pc = "locking" /\ n.kind = "declare" /\ n.option = o
        /\ n.total = r.total /\ n.count = r.count /\ n.rebound = away
        /\ n.plan = plan(rest) /\ n.held = {} /\ n.read = <<>>
    <3>1. /\ known.kind = "declare" /\ known.option = o /\ known.total = r.total
          /\ known.count = r.count /\ known.rebound = away
          /\ {"pc", "kind", "option", "total", "count", "rebound"} \subseteq DOMAIN known
      BY SMTT(30)
    <3> HIDE DEF known
    <3> QED BY <3>1 DEF Begin
  <2>10. /\ DOMAIN n = {"pc", "kind", "option", "total", "count", "rebound", "staleTotal",
                        "staleCount", "plan", "held", "read"}
         /\ "rows" \notin DOMAIN n
    BY <2>9
  <2> HIDE DEF n, known
  <2>11. Knows(n)
    <3>1. DeclareKnows(n)
      BY <1>2, <2>9, <2>10 DEF DeclareKnows
    <3>2. LockingKnows(n)
      BY <2>8, <2>9, <2>10 DEF LockingKnows
    <3> QED BY <2>9, <2>10, <3>1, <3>2 DEF Knows
  <2>12. LocksCover(n)
    <3>1. \A l \in Locks : Needs(n, l) => \E p \in others \cup {o} : l = Updating("option", p)
      BY <2>9, <2>10 DEF Needs
    <3> HIDE DEF others, o
    <3> QED BY <2>8, <2>9, <3>1 DEF LocksCover
  <2>13. ReadsCurrent(n)
    <3>1. DOMAIN n.read = {}
      BY <2>9
    <3> QED BY <3>1 DEF ReadsCurrent
  <2>14. \A L : Compatible(n.held, L)
    BY <2>9 DEF Compatible
  <2> QED BY <1>1, <2>1, <2>11, <2>12, <2>13, <2>14, ProceedKeeps DEF RequestOK, n
<1> QED BY <1>3, <1>4

\* The rows a settlement takes along are the active ones of its round.
LEMMA FetchedRows ==
  ASSUME NEW rows, NEW o, NEW taken,
         taken = [b \in BetIds |-> IF b \in ActiveRows(rows, RoundOf[o]) THEN rows[b] ELSE NoBet]
  PROVE  /\ ActiveRows(taken, RoundOf[o]) = ActiveRows(rows, RoundOf[o])
         /\ \A b \in ActiveRows(rows, RoundOf[o]) : taken[b] = rows[b]
         /\ \A c, side : Side(taken, o, c, side) = Side(rows, o, c, side)
         /\ \A c : Contested(taken, o, c) <=> Contested(rows, o, c)
<1>1. \A b \in BetIds : b \notin ActiveRows(rows, RoundOf[o]) => taken[b].status = "none"
  BY DEF NoBet
<1>2. \A b \in ActiveRows(rows, RoundOf[o]) : taken[b] = rows[b] /\ b \in BetIds
  BY DEF ActiveRows
<1>3. ActiveRows(taken, RoundOf[o]) = ActiveRows(rows, RoundOf[o])
  BY <1>1, <1>2 DEF ActiveRows
<1>4. ASSUME NEW c, NEW side
      PROVE  Side(taken, o, c, side) = Side(rows, o, c, side)
  BY <1>2, <1>3 DEF Side
<1>5. \A c : Contested(taken, o, c) <=> Contested(rows, o, c)
  BY <1>4 DEF Contested
<1> QED BY <1>2, <1>3, <1>4, <1>5

\* Rows with a bet moved back are rows.
LEMMA ReboundType ==
  ASSUME TypeOK, NEW r, r.option \in Options
  PROVE  Rebound(r) \in Rows
<1> SUFFICES ASSUME NEW b \in BetIds
             PROVE  [bets[b] EXCEPT !.option = r.option] \in Bet \cup {NoBet}
  BY DEF Rebound, Rows, TypeOK
<1>1. bets[b] \in Bet \cup {NoBet}
  BY DEF TypeOK
<1>2. CASE bets[b] \in Bet
  BY <1>2 DEF Bet
<1>3. CASE bets[b] = NoBet
  BY <1>3 DEF NoBet
<1> QED BY <1>1, <1>2, <1>3

\* declareWinner reads the bets: its plan names the wallets it will credit.
LEMMA DeclareFetchesKeeps ==
  ASSUME RInv, NEW q, DeclareFetches(q)
  PROVE  RInv'
<1> DEFINE r == req[q]
           o == r.option
           rows == Rebound(r)
           fetched == ActiveRows(rows, RoundOf[o])
           taken == [b \in BetIds |-> IF b \in fetched THEN rows[b] ELSE NoBet]
           locks(b) ==
             IF ~ Contested(rows, o, rows[b].currency)
               THEN <<ForUpdate("wallet", rows[b].user), Updating("bet", b)>>
             ELSE IF rows[b].option = o
               THEN <<Updating("bet", b), ForUpdate("wallet", rows[b].user)>>
             ELSE <<Updating("bet", b)>>
           seqs(order) == [i \in DOMAIN order |-> locks(order[i])]
           next(order) == [f \in DOMAIN r \cup {"rows"} |->
             CASE f = "plan" -> FlattenSeq(seqs(order))
               [] f = "rows" -> taken
               [] OTHER -> r[f]]
<1>1. /\ q \in Requests /\ Locking(q) /\ r.pc = "locking" /\ r.kind = "declare" /\ r.plan = <<>>
      /\ InFlight(q) /\ "rows" \notin DOMAIN r
  BY DEF DeclareFetches, Ready, Locking, InFlight
<1>2. /\ TypeOK /\ Knows(r) /\ DeclareKnows(r) /\ LockingKnows(r)
      /\ LocksCover(r) /\ ReadsCurrent(r) /\ o \in Options
  BY <1>1 DEF RInv, RequestOK, Knows, DeclareKnows
<1>3. PICK order \in SetToSeqs(fetched) : Proceed(q, next(order))
  BY DEF DeclareFetches
<1>4. rows \in Rows
  BY <1>2, ReboundType
<1> HIDE DEF rows
<1>5. fetched \subseteq BetIds /\ \A b \in fetched : rows[b] \in Bet /\ rows[b].user \in Users
  BY <1>4, RowColumns DEF ActiveRows, Rows, NoBet
<1>6. order \in Seq(fetched) /\ \A b \in fetched : \E i \in DOMAIN order : order[i] = b
  <2>1. IsFiniteSet(fetched)
    BY <1>5, BetIdsAssumption, FS_Subset
  <2> HIDE DEF fetched
  <2> QED BY <2>1, OrderFacts
<1>7. \A b \in fetched : locks(b) \in Seq(Locks)
  <2> SUFFICES ASSUME NEW b \in fetched PROVE locks(b) \in Seq(Locks)
    OBVIOUS
  <2>1. ForUpdate("wallet", rows[b].user) \in Locks /\ Updating("bet", b) \in Locks
    BY <1>5, LockType
  <2> QED BY <2>1
<1>8. \A b \in fetched :
        (~ Contested(rows, o, rows[b].currency) \/ rows[b].option = o) =>
          \E j \in DOMAIN locks(b) : locks(b)[j] = ForUpdate("wallet", rows[b].user)
  <2> SUFFICES ASSUME NEW b \in fetched,
                      ~ Contested(rows, o, rows[b].currency) \/ rows[b].option = o
               PROVE  \E j \in DOMAIN locks(b) : locks(b)[j] = ForUpdate("wallet", rows[b].user)
    OBVIOUS
  <2> DEFINE x == ForUpdate("wallet", rows[b].user)
             y == Updating("bet", b)
  <2>1. CASE ~ Contested(rows, o, rows[b].currency)
    <3>1. locks(b) = <<x, y>>
      BY <2>1
    <3>2. 1 \in DOMAIN <<x, y>> /\ <<x, y>>[1] = x
      OBVIOUS
    <3> HIDE DEF locks
    <3> QED BY <3>1, <3>2
  <2>2. CASE Contested(rows, o, rows[b].currency) /\ rows[b].option = o
    <3>1. locks(b) = <<y, x>>
      BY <2>2
    <3>2. 2 \in DOMAIN <<y, x>> /\ <<y, x>>[2] = x
      OBVIOUS
    <3> HIDE DEF locks
    <3> QED BY <3>1, <3>2
  <2> QED BY <2>1, <2>2
<1> DEFINE plan == FlattenSeq(seqs(order))
<1>9. /\ plan \in Seq(Locks)
      /\ \A b \in fetched :
           (~ Contested(rows, o, rows[b].currency) \/ rows[b].option = o) =>
             \E k \in DOMAIN plan : plan[k] = ForUpdate("wallet", rows[b].user)
  <2> HIDE DEF locks, fetched
  <2>1. seqs(order) \in Seq(Seq(Locks)) /\ DOMAIN seqs(order) = DOMAIN order
    <3>1. seqs(order) \in [1 .. Len(order) -> Seq(Locks)] /\ Len(order) \in Nat
      BY <1>6, <1>7
    <3> HIDE DEF seqs
    <3> QED BY <1>6, <3>1
  <2>2. \A i \in DOMAIN order : seqs(order)[i] = locks(order[i])
    OBVIOUS
  <2> HIDE DEF seqs
  <2>3. /\ plan \in Seq(Locks)
        /\ \A i \in DOMAIN order : \A j \in DOMAIN locks(order[i]) :
             \E k \in DOMAIN plan : plan[k] = locks(order[i])[j]
    BY <2>1, <2>2, FlattenFacts
  <2> HIDE DEF plan
  <2> QED BY <1>6, <1>8, <2>3
<1> DEFINE n == next(order)
<1>10. /\ DOMAIN n = DOMAIN r \cup {"rows"} /\ n.plan = plan /\ n.rows = taken
       /\ \A f \in DOMAIN r : f # "plan" /\ f # "rows" => n[f] = r[f]
  <2> HIDE DEF seqs, taken
  <2> QED BY <1>2 DEF LockingKnows
<1>11. /\ n.pc = r.pc /\ n.kind = r.kind /\ n.option = r.option /\ n.total = r.total
       /\ n.count = r.count /\ n.rebound = r.rebound /\ n.held = r.held /\ n.read = r.read
  <2> HIDE DEF seqs, taken
  <2> QED BY <1>1, <1>2 DEF Knows, LockingKnows, DeclareKnows
<1>12. taken \in Rows
  BY <1>4 DEF Rows
<1> HIDE DEF n, plan, next
<1>13. Knows(n)
  <2>1. DeclareKnows(n)
    BY <1>1, <1>2, <1>10, <1>11, <1>12 DEF DeclareKnows
  <2>2. LockingKnows(n)
    BY <1>2, <1>9, <1>10, <1>11 DEF LockingKnows
  <2> QED BY <1>1, <1>2, <1>10, <1>11, <2>1, <2>2 DEF Knows
<1>14. /\ ActiveRows(taken, RoundOf[o]) = fetched
       /\ \A b \in fetched : taken[b] = rows[b]
       /\ \A c : Contested(taken, o, c) <=> Contested(rows, o, c)
  BY FetchedRows
<1>15. LocksCover(n)
  <2> SUFFICES ASSUME NEW l \in Locks, Needs(n, l)
               PROVE  l \in n.held \/ \E i \in DOMAIN n.plan : n.plan[i] = l
    BY DEF LocksCover
  <2>1. CASE \E p \in Options : RoundOf[p] = RoundOf[o] /\ l = Updating("option", p)
    <3>1. Needs(r, l)
      BY <1>1, <2>1 DEF Needs
    <3> QED BY <1>1, <1>11, <3>1, ReadyHolds
  <2>2. CASE \E b \in Rewarded(n) : l = ForUpdate("wallet", n.rows[b].user)
    <3>1. PICK b \in Rewarded(n) : l = ForUpdate("wallet", n.rows[b].user)
      BY <2>2
    <3>2. b \in fetched /\ (~ Contested(taken, o, taken[b].currency) \/ taken[b].option = o)
      <4> HIDE DEF fetched, taken
      <4> QED BY <1>10, <1>11, <1>14, <3>1 DEF Rewarded
    <3>3. ~ Contested(rows, o, rows[b].currency) \/ rows[b].option = o
      <4> HIDE DEF fetched, taken
      <4> QED BY <1>14, <3>2
    <3>4. l = ForUpdate("wallet", rows[b].user)
      <4> HIDE DEF fetched, taken
      <4> QED BY <1>10, <1>14, <3>1, <3>2
    <3> QED BY <1>9, <1>10, <3>2, <3>3, <3>4
  <2>3. \/ \E p \in Options : RoundOf[p] = RoundOf[o] /\ l = Updating("option", p)
        \/ \E b \in Rewarded(n) : l = ForUpdate("wallet", n.rows[b].user)
    BY <1>1, <1>11 DEF Needs
  <2> QED BY <2>1, <2>2, <2>3
<1>16. ReadsCurrent(n)
  BY <1>2, <1>11 DEF ReadsCurrent
<1>17. \A p \in Requests \ {q} : Locking(p) => Compatible(n.held, req[p].held)
  BY <1>1, <1>11 DEF RInv, LocksExclude
<1> QED BY <1>1, <1>3, <1>13, <1>15, <1>16, <1>17, ProceedKeeps DEF RequestOK, n

\* Writing some columns of an option back leaves the other options.
LEMMA WrittenBackFacts ==
  ASSUME NEW t \in PoolTable, NEW o \in Options, NEW seen \in [Currencies -> Int], NEW columns
  PROVE  /\ WrittenBack(t, o, seen, columns) \in PoolTable
         /\ \A p \in Options \ {o} : WrittenBack(t, o, seen, columns)[p] = t[p]
<1> DEFINE row == [c \in Currencies |-> IF c \in columns THEN seen[c] ELSE t[o][c]]
<1>1. row \in [Currencies -> Int]
  BY DEF PoolTable
<1>2. WrittenBack(t, o, seen, columns) = [t EXCEPT ![o] = row]
  BY DEF WrittenBack
<1> HIDE DEF row
<1> QED BY <1>1, <1>2 DEF PoolTable

\* A user without a bet that moves money is credited nothing.
LEMMA NothingCredited ==
  ASSUME NEW rows \in Rows, NEW table, NEW o \in Options, NEW short, NEW u, NEW c,
         \A b \in ActiveRows(rows, RoundOf[o]) : rows[b].user = u =>
           Contested(rows, o, rows[b].currency) /\ rows[b].option # o
  PROVE  CreditsOf(rows, table, u, c, o, short) = 0
<1> DEFINE f == [b \in BetIds |-> Credit(rows, table, b, o, short)]
           S == {b \in ActiveRows(rows, RoundOf[o]) : rows[b].user = u /\ rows[b].currency = c}
<1>1. S \subseteq BetIds /\ IsFiniteSet(S)
  <2>1. S \subseteq BetIds
    BY DEF ActiveRows
  <2> QED BY <2>1, BetIdsAssumption, FS_Subset
<1>2. \A b \in S : f[b] = 0
  BY <1>1 DEF Credit
<1>3. CreditsOf(rows, table, u, c, o, short) = SumFunctionOnSet(f, S)
  BY DEF CreditsOf, SumOf
<1> HIDE DEF f, S
<1>4. SumFunctionOnSet(f, S) = 0 * Cardinality(S)
  BY <1>1, <1>2, SumConstant
<1>5. Cardinality(S) \in Nat
  BY <1>1, FS_CardinalityType
<1> QED BY <1>3, <1>4, <1>5

\* A winner is declared: the wallets and the option it writes were locked.
LEMMA DeclareCommitsKeeps ==
  ASSUME RInv, NEW q, DeclareCommits(q)
  PROVE  RInv'
<1> DEFINE r == req[q]
           o == r.option
           table == WrittenBack(total, o, r.total, r.staleTotal)
<1>1. /\ q \in Requests /\ Locking(q) /\ r.pc = "locking" /\ r.kind = "declare"
      /\ r.plan = <<>> /\ "rows" \in DOMAIN r /\ Answer(q) /\ InFlight(q)
  BY DEF DeclareCommits, Ready, Locking, InFlight
<1>2. /\ TypeOK /\ DeclareKnows(r) /\ o \in Options /\ r.rows \in Rows
      /\ r.total \in [Currencies -> Int] /\ r.count \in [Currencies -> Int]
  BY <1>1 DEF RInv, RequestOK, Knows, DeclareKnows
<1>3. /\ Settling(wallet, o, r.rows, table, Rebound(r))
      /\ count' = WrittenBack(count, o, r.count, r.staleCount)
  BY <1>1, AsReadIsCurrent DEF DeclareCommits
<1>4. /\ table \in PoolTable /\ count' \in PoolTable
      /\ \A p \in Options \ {o} : table[p] = total[p] /\ count'[p] = count[p]
  BY <1>2, <1>3, WrittenBackFacts DEF TypeOK
<1>5. Rebound(r) \in Rows
  BY <1>2, ReboundType
<1> HIDE DEF table
<1>6. TypeOK'
  BY <1>2, <1>3, <1>4, <1>5, SettlingType
<1>7. Updating("option", o) \in r.held
  <2>1. Updating("option", o) \in Locks /\ Needs(r, Updating("option", o))
    BY <1>1, <1>2, LockType DEF Needs
  <2> QED BY <1>1, <2>1, ReadyHolds
<1>8. \A p \in Options : total'[p] # total[p] \/ count'[p] # count[p] => p = o
  BY <1>3, <1>4 DEF Settling
<1>9. ASSUME NEW u \in Users, wallet'[u] # wallet[u]
      PROVE  ForUpdate("wallet", u) \in r.held
  <2>1. PICK short : wallet' = WalletsSettled(wallet, r.rows, table, o, short)
    BY <1>3 DEF Settling
  <2>2. PICK b \in ActiveRows(r.rows, RoundOf[o]) :
          r.rows[b].user = u /\ ~ (Contested(r.rows, o, r.rows[b].currency) /\ r.rows[b].option # o)
    <3> SUFFICES ASSUME \A b \in ActiveRows(r.rows, RoundOf[o]) : r.rows[b].user = u =>
                          Contested(r.rows, o, r.rows[b].currency) /\ r.rows[b].option # o
                 PROVE  FALSE
      OBVIOUS
    <3>1. \A c : CreditsOf(r.rows, table, u, c, o, short) = 0
      BY <1>2, NothingCredited
    <3>2. wallet'[u] = [c \in Currencies |-> wallet[u][c] + CreditsOf(r.rows, table, u, c, o, short)]
      BY <2>1 DEF WalletsSettled
    <3>3. wallet[u] \in [Currencies -> Int]
      BY <1>2 DEF TypeOK, WalletTable
    <3>4. wallet'[u] = wallet[u]
      BY <3>1, <3>2, <3>3
    <3> QED BY <1>9, <3>4
  <2>3. b \in Rewarded(r)
    BY <2>2 DEF Rewarded
  <2>4. ForUpdate("wallet", u) \in Locks /\ Needs(r, ForUpdate("wallet", u))
    BY <1>1, <2>2, <2>3, LockType DEF Needs
  <2> QED BY <1>1, <2>4, ReadyHolds
<1> QED BY <1>1, <1>6, <1>7, <1>8, <1>9, AnswerKeeps

----------------------------------------------------------------------------
\* What a request knows when it arrives: what it has just read.
JustRead(next) ==
  /\ Knows(next) /\ next.pc = "read"
  /\ next.kind = "place" => BettingOn(next.option)
  /\ next.kind \in {"edit", "cancel"} => next.seen = bets[next.bet]
  /\ next.kind = "open" => roundStatus[next.round] = "created"
  /\ next.kind = "lock" => roundStatus[next.round] = "open"
  /\ next.kind = "declare" =>
       /\ roundStatus[RoundOf[next.option]] = "locked"
       /\ next.total = total[next.option] /\ next.count = count[next.option]
       /\ next.carried = On(next.option)

\* Every request that arrives has just read what it knows.
LEMMA ArrivalFacts ==
  ASSUME TypeOK, Arrival
  PROVE  \E next : Arrive(next) /\ JustRead(next)
<1>1. \A b \in BetIds : Active(b) => bets[b] \in Bet /\ bets[b].user \in Users
  BY RowColumns DEF TypeOK, Active, NoBet
<1>2. CASE \E u \in Users, o \in Options, c \in Currencies, a \in Amounts :
             PlaceArrives(u, o, c, a)
  <2>1. PICK u \in Users, o \in Options, c \in Currencies, a \in Amounts :
          PlaceArrives(u, o, c, a)
    BY <1>2
  <2> DEFINE next == [pc |-> "read", kind |-> "place", user |-> u, option |-> o,
                      currency |-> c, amount |-> a]
  <2>2. Arrive(next) /\ BettingOn(o)
    BY <2>1 DEF PlaceArrives
  <2>3. JustRead(next)
    BY <2>2 DEF JustRead, Knows, PlaceKnows
  <2> HIDE DEF next
  <2> QED BY <2>2, <2>3
<1>3. CASE \E b \in BetIds, o \in Options, c \in Currencies, a \in Amounts :
             EditArrives(b, o, c, a)
  <2>1. PICK b \in BetIds, o \in Options, c \in Currencies, a \in Amounts :
          EditArrives(b, o, c, a)
    BY <1>3
  <2> DEFINE next == [pc |-> "read", kind |-> "edit", user |-> bets[b].user, bet |-> b,
                      seen |-> bets[b], option |-> o, currency |-> c, amount |-> a]
  <2>2. Arrive(next) /\ Active(b)
    BY <2>1 DEF EditArrives
  <2>3. JustRead(next)
    BY <1>1, <2>2 DEF JustRead, Knows, EditKnows, CancelKnows, Active
  <2> HIDE DEF next
  <2> QED BY <2>2, <2>3
<1>4. CASE \E b \in BetIds : CancelArrives(b)
  <2>1. PICK b \in BetIds : CancelArrives(b)
    BY <1>4
  <2> DEFINE next == [pc |-> "read", kind |-> "cancel", user |-> bets[b].user,
                      bet |-> b, seen |-> bets[b]]
  <2>2. Arrive(next) /\ Active(b)
    BY <2>1 DEF CancelArrives
  <2>3. JustRead(next)
    BY <1>1, <2>2 DEF JustRead, Knows, CancelKnows, Active
  <2> HIDE DEF next
  <2> QED BY <2>2, <2>3
<1>5. CASE \E x \in Rounds : OpenArrives(x)
  <2>1. PICK x \in Rounds : OpenArrives(x)
    BY <1>5
  <2> DEFINE next == [pc |-> "read", kind |-> "open", round |-> x]
  <2>2. Arrive(next) /\ roundStatus[x] = "created"
    BY <2>1 DEF OpenArrives
  <2>3. JustRead(next)
    BY <2>2 DEF JustRead, Knows, RoundKnows
  <2> HIDE DEF next
  <2> QED BY <2>2, <2>3
<1>6. CASE \E x \in Rounds : LockArrives(x)
  <2>1. PICK x \in Rounds : LockArrives(x)
    BY <1>6
  <2> DEFINE next == [pc |-> "read", kind |-> "lock", round |-> x]
  <2>2. Arrive(next) /\ roundStatus[x] = "open"
    BY <2>1 DEF LockArrives
  <2>3. JustRead(next)
    BY <2>2 DEF JustRead, Knows, RoundKnows
  <2> HIDE DEF next
  <2> QED BY <2>2, <2>3
<1>7. CASE \E o \in Options : DeclareArrives(o)
  <2>1. PICK o \in Options : DeclareArrives(o)
    BY <1>7
  <2> DEFINE next == [pc |-> "read", kind |-> "declare", option |-> o,
                      total |-> total[o], count |-> count[o], carried |-> On(o)]
  <2>2. Arrive(next) /\ roundStatus[RoundOf[o]] = "locked"
    BY <2>1 DEF DeclareArrives
  <2>3. total[o] \in [Currencies -> Int] /\ count[o] \in [Currencies -> Int] /\ On(o) \subseteq BetIds
    BY DEF TypeOK, PoolTable, On
  <2>4. JustRead(next)
    BY <2>2, <2>3 DEF JustRead, Knows, DeclareKnows
  <2> HIDE DEF next
  <2> QED BY <2>2, <2>4
<1> QED BY <1>2, <1>3, <1>4, <1>5, <1>6, <1>7 DEF Arrival

\* A request arrives; it holds no lock.
LEMMA ArrivalKeeps ==
  ASSUME RInv, Arrival
  PROVE  RInv'
<1>1. PICK next : Arrive(next) /\ JustRead(next)
  BY ArrivalFacts DEF RInv
<1> QED BY <1>1, ArriveKeeps DEF JustRead

\* A transaction that is given up.
LEMMA GivenUp ==
  ASSUME NEW q, DeadlockVictim(q) \/ Fail(q) \/ (Unpayable(q) /\ Refuse(q))
  PROVE  q \in Requests /\ Refuse(q)
<1>1. CASE DeadlockVictim(q)
  BY <1>1 DEF DeadlockVictim, Deadlocked
<1>2. CASE Fail(q)
  BY <1>2 DEF Fail, Locking
<1>3. CASE Unpayable(q) /\ Refuse(q)
  BY <1>3 DEF Unpayable, Ready, Locking
<1> QED BY <1>1, <1>2, <1>3

\* Every handler keeps the locks apart and what was read under them current.
LEMMA HandleKeeps ==
  ASSUME RInv, NEW q, Handle(q) \/ Fail(q)
  PROVE  RInv'
<1>1. CASE PlaceChecks(q) \/ PlaceCommits(q)
  BY <1>1, PlaceChecksKeeps, PlaceCommitsKeeps
<1>2. CASE EditChecks(q) \/ EditCommits(q)
  BY <1>2, EditChecksKeeps, EditCommitsKeeps
<1>3. CASE CancelChecks(q) \/ CancelCommits(q)
  BY <1>3, CancelChecksKeeps, CancelCommitsKeeps
<1>4. CASE LockCounts(q) \/ StatusSaved(q)
  BY <1>4, LockCountsKeeps, StatusSavedKeeps
<1>5. CASE DeclareSaves(q) \/ DeclareFetches(q) \/ DeclareCommits(q)
  BY <1>5, DeclareSavesKeeps, DeclareFetchesKeeps, DeclareCommitsKeeps
<1>6. CASE Acquire(q)
  BY <1>6, AcquireKeeps
<1>7. CASE DeadlockVictim(q) \/ Fail(q) \/ (Unpayable(q) /\ Refuse(q))
  BY <1>7, GivenUp, RefuseKeeps
<1> QED BY <1>1, <1>2, <1>3, <1>4, <1>5, <1>6, <1>7 DEF Handle

\* At the start there is no request.
LEMMA RequestsInitRInv == RequestsInit => RInv
<1> SUFFICES ASSUME RequestsInit PROVE RInv
  OBVIOUS
<1>1. TypeOK
  BY InitIInv DEF RequestsInit, IInv
<1>2. IsSeq(req) /\ DOMAIN req = {}
  BY DEF RequestsInit, IsSeq
<1> QED BY <1>1, <1>2 DEF RInv, LocksExclude, Requests

\* Every step keeps it.
LEMMA RequestsNextRInv == RInv /\ [RequestsNext]_allVars => RInv'
<1> SUFFICES ASSUME RInv, [RequestsNext]_allVars PROVE RInv'
  OBVIOUS
<1>1. CASE Arrival
  BY <1>1, ArrivalKeeps
<1>2. CASE \E q \in 1 .. MaxRequests : Handle(q) \/ Fail(q)
  BY <1>2, HandleKeeps
<1>3. CASE UNCHANGED allVars
  BY <1>3 DEF allVars, vars, RInv, TypeOK, Requests, InFlight, RequestOK, ReadsCurrent,
       LocksExclude, Locking
<1> QED BY <1>1, <1>2, <1>3 DEF RequestsNext

\* No assumption on which requests overlap is needed for it.
THEOREM RequestsInvariance == RequestsSpec => []RInv
BY RequestsInitRInv, RequestsNextRInv, PTL DEF RequestsSpec

\* What a transaction is going to write on is what the tables hold.
ReadsAreCurrent ==
  \A q \in Requests : Locking(q) =>
    WalletAsRead(q) = wallet /\ TotalAsRead(q) = total /\ CountAsRead(q) = count

\* Whatever overlaps, the tables keep their types: every balance, total and row
\* that a handler commits is one.
THEOREM RequestsTypeCorrect == RequestsSpec => []TypeOK
<1>1. RInv => TypeOK
  BY DEF RInv
<1> QED BY <1>1, RequestsInvariance, PTL

\* Whatever overlaps, no two open transactions hold locks that exclude each
\* other on one row.
THEOREM RowLocksExclude == RequestsSpec => []LocksExclude
<1>1. RInv => LocksExclude
  BY DEF RInv
<1> QED BY <1>1, RequestsInvariance, PTL

\* Whatever overlaps, no update of a wallet or of the columns of an option is
\* lost: the handlers compute the new values from those of their commit.
THEOREM NoUpdateIsLost == RequestsSpec => []ReadsAreCurrent
<1>1. RInv => ReadsAreCurrent
  BY AsReadIsCurrent DEF ReadsAreCurrent
<1> QED BY <1>1, RequestsInvariance, PTL

----------------------------------------------------------------------------
(***************************************************************************)
(* Reads without a lock.  EInv holds when edits and cancellations overlap  *)
(* neither with a settlement nor, on one bet, with each other: what a      *)
(* request read before its locks is still so when it commits, so that it   *)
(* writes what it would have written alone.                                *)
(***************************************************************************)
\* What edits and cancellations must be kept apart from for a row that was read
\* before its lock to be still what it was: the result of a round, and each
\* other on the same bet.
Changing(r) == r.kind \in {"edit", "cancel"}

Apart(r, s) ==
  Changing(r) => s.kind # "declare" /\ (Changing(s) => s.bet # r.bet)

EditsKeepApart == \A r, s : Overlap(r, s) => Apart(r, s) /\ Apart(s, r)

KeptApart ==
  \A p, q \in Requests : p # q /\ InFlight(p) /\ InFlight(q) => Apart(req[p], req[q])

\* What a settlement has read and not locked.
DeclareAgrees(r) ==
  LET o == r.option IN
  /\ r.pc = "read" =>
       /\ r.carried \subseteq On(o)
       /\ On(o) \subseteq r.carried => r.total = total[o] /\ r.count = count[o]
  /\ r.pc = "locking" =>
       /\ r.rebound = {} /\ r.staleTotal = {} /\ r.staleCount = {}
       /\ "rows" \in DOMAIN r =>
            /\ \A p \in Options : RoundOf[p] = RoundOf[o] => Updating("option", p) \in r.held
            /\ r.rows = [b \in BetIds |->
                           IF b \in ActiveIn(RoundOf[o]) THEN bets[b] ELSE NoBet]

\* What a request read before it took a lock is still so.
SeenAgrees(r) ==
  /\ Changing(r) => r.seen = bets[r.bet]
  /\ r.kind = "declare" => DeclareAgrees(r)

EInv ==
  /\ PoolsMatchBets /\ KeptApart
  /\ \A q \in Requests : InFlight(q) => SeenAgrees(req[q])

\* What a step writes, as if the request that takes it were alone.
Writes ==
  \/ UNCHANGED <<options, pools, bets, wallet, streamEnded>>
  \/ \E u \in Users, o \in Options, c \in Currencies, a \in Amounts, b \in BetIds :
       Placing(wallet, total, count, u, o, c, a, b)
  \/ \E b \in BetIds, o \in Options, c \in Currencies, a \in Amounts :
       Active(b) /\ Editing(wallet, total, count, bets[b], b, o, c, a)
  \/ \E b \in BetIds : Active(b) /\ Cancelling(wallet, total, count, bets[b], b)
  \/ \E o \in Options : Settling(wallet, o, bets, total, bets) /\ UNCHANGED count

----------------------------------------------------------------------------
\* A settlement that takes along only the active rows of its round writes what
\* one that takes all rows does.
LEMMA FetchedSettles ==
  ASSUME TypeOK, NEW o \in Options, NEW taken,
         taken = [b \in BetIds |-> IF b \in ActiveIn(RoundOf[o]) THEN bets[b] ELSE NoBet],
         Settling(wallet, o, taken, total, bets)
  PROVE  Settling(wallet, o, bets, total, bets)
<1> DEFINE R == ActiveRows(bets, RoundOf[o])
<1>0. bets \in Rows /\ total \in PoolTable
  BY DEF TypeOK, Rows
<1>1. /\ ActiveRows(taken, RoundOf[o]) = R
      /\ \A b \in R : taken[b] = bets[b]
      /\ \A c, side : Side(taken, o, c, side) = Side(bets, o, c, side)
      /\ \A c : Contested(taken, o, c) <=> Contested(bets, o, c)
  BY FetchedRows DEF ActiveIn
<1>2. R \subseteq BetIds /\ IsFiniteSet(R) /\ \A b \in R : bets[b] \in Bet
  BY <1>0, BetIdsAssumption, FS_Subset DEF ActiveRows, Rows, NoBet
<1>3. \A b \in R : bets[b].currency \in Currencies /\ bets[b].amount \in Int
  BY <1>2, RowColumns
<1>4. ASSUME NEW c \in Currencies
      PROVE  Pot(taken, o, c) = Pot(bets, o, c)
  <2> DEFINE S == Side(bets, o, c, Options)
             f == [b \in BetIds |-> bets[b].amount]
             g == [b \in BetIds |-> taken[b].amount]
  <2>1. S \subseteq R /\ IsFiniteSet(S)
    <3>1. S \subseteq R
      BY DEF Side
    <3> HIDE DEF S
    <3> QED BY <3>1, <1>2, FS_Subset
  <2>2. \A b \in S : f[b] \in Int /\ f[b] = g[b]
    BY <1>1, <1>2, <1>3, <2>1
  <2>3. Pot(bets, o, c) = SumFunctionOnSet(f, S) /\ Pot(taken, o, c) = SumFunctionOnSet(g, S)
    BY <1>1 DEF Pot, StakesOf, SumOf
  <2> HIDE DEF S, f, g
  <2> QED BY <2>1, <2>2, <2>3, SumCongruence
<1>5. Divisible(bets, total, o) /\ Roundable(taken, total, o) = Roundable(bets, total, o)
  <2>1. Divisible(bets, total, o)
    BY <1>1 DEF Settling, Divisible
  <2> DEFINE r1(b) == /\ taken[b].option = o /\ Contested(taken, o, taken[b].currency)
                      /\ OnBoundary(taken[b].currency, taken[b].amount,
                                    total[o][taken[b].currency], Pot(taken, o, taken[b].currency))
             r2(b) == /\ bets[b].option = o /\ Contested(bets, o, bets[b].currency)
                      /\ OnBoundary(bets[b].currency, bets[b].amount,
                                    total[o][bets[b].currency], Pot(bets, o, bets[b].currency))
  <2>2. \A b \in R : r1(b) <=> r2(b)
    BY <1>1, <1>3, <1>4
  <2>3. /\ Roundable(taken, total, o) = {b \in R : r1(b)}
        /\ Roundable(bets, total, o) = {b \in R : r2(b)}
    BY <1>1 DEF Roundable
  <2> HIDE DEF r1, r2
  <2> QED BY <2>1, <2>2, <2>3
<1>6. PICK short \in SUBSET Roundable(bets, total, o) :
        /\ bets' = [b \in BetIds |-> IF b \in R
                                      THEN SettledBet(taken, total, b, o, short) ELSE bets[b]]
        /\ wallet' = WalletsSettled(wallet, taken, total, o, short)
  BY <1>1, <1>5 DEF Settling
<1> HIDE DEF R
<1>7. ASSUME NEW b \in R
      PROVE  /\ Payout(taken, total, b, o, short) = Payout(bets, total, b, o, short)
             /\ SettledBet(taken, total, b, o, short) = SettledBet(bets, total, b, o, short)
             /\ Credit(taken, total, b, o, short) = Credit(bets, total, b, o, short)
             /\ Credit(bets, total, b, o, short) \in Int
  <2>1. /\ taken[b] = bets[b] /\ b \in ActiveRows(bets, RoundOf[o])
        /\ bets[b].currency \in Currencies /\ bets[b].amount \in Int
    BY <1>1, <1>3, <1>7 DEF R
  <2>2. Payout(taken, total, b, o, short) = Payout(bets, total, b, o, short)
    BY <1>4, <2>1 DEF Payout
  <2>3. SettledBet(taken, total, b, o, short) = SettledBet(bets, total, b, o, short)
    <3>1. Contested(taken, o, bets[b].currency) <=> Contested(bets, o, bets[b].currency)
      BY <1>1
    <3> DEFINE refunded(x) == [x EXCEPT !.status = "refunded", !.payout = 0]
               won(x, n) == [x EXCEPT !.status = "won", !.payout = n]
               lost(x) == [x EXCEPT !.status = "lost", !.payout = 0]
               row(rows) ==
                 IF ~ Contested(rows, o, rows[b].currency) THEN refunded(rows[b])
                 ELSE IF rows[b].option = o
                   THEN won(rows[b], Payout(rows, total, b, o, short))
                 ELSE lost(rows[b])
    <3>2. /\ SettledBet(taken, total, b, o, short) = row(taken)
          /\ SettledBet(bets, total, b, o, short) = row(bets)
      BY DEF SettledBet
    <3> HIDE DEF refunded, won, lost
    <3>3. row(taken) = row(bets)
      BY <2>1, <2>2, <3>1
    <3> QED BY <3>2, <3>3
  <2>4. Credit(taken, total, b, o, short) = Credit(bets, total, b, o, short)
    BY <1>1, <2>1, <2>2 DEF Credit
  <2>5. Contested(bets, o, bets[b].currency) => Payout(bets, total, b, o, short) \in Int
    BY <1>0, <1>5, <2>1, PayoutType
  <2>6. bets[b].amount * Unit(bets[b].currency) \in Int
    BY <2>1, UnitType
  <2>7. Credit(bets, total, b, o, short) \in Int
    BY <2>5, <2>6 DEF Credit
  <2> QED BY <2>2, <2>3, <2>4, <2>7
<1>8. bets' = [b \in BetIds |-> IF b \in R
                                  THEN SettledBet(bets, total, b, o, short) ELSE bets[b]]
  BY <1>6, <1>7
<1>9. wallet' = WalletsSettled(wallet, bets, total, o, short)
  <2> SUFFICES ASSUME NEW u \in Users, NEW c \in Currencies
               PROVE  CreditsOf(taken, total, u, c, o, short) = CreditsOf(bets, total, u, c, o, short)
    BY <1>6 DEF WalletsSettled
  <2> DEFINE S == {b \in R : bets[b].user = u /\ bets[b].currency = c}
             f == [b \in BetIds |-> Credit(bets, total, b, o, short)]
             g == [b \in BetIds |-> Credit(taken, total, b, o, short)]
  <2>1. S \subseteq R /\ IsFiniteSet(S)
    <3>1. S \subseteq R
      OBVIOUS
    <3> HIDE DEF S
    <3> QED BY <3>1, <1>2, FS_Subset
  <2>2. \A b \in S : f[b] \in Int /\ f[b] = g[b]
    BY <1>2, <1>7, <2>1
  <2>3. CreditsOf(bets, total, u, c, o, short) = SumFunctionOnSet(f, S)
    BY DEF CreditsOf, SumOf, R
  <2>4. {b \in ActiveRows(taken, RoundOf[o]) : taken[b].user = u /\ taken[b].currency = c} = S
    BY <1>1
  <2>5. CreditsOf(taken, total, u, c, o, short) = SumFunctionOnSet(g, S)
    BY <2>4 DEF CreditsOf, SumOf
  <2> HIDE DEF S, f, g
  <2> QED BY <2>1, <2>2, <2>3, <2>5, SumCongruence
<1> QED BY <1>5, <1>8, <1>9 DEF Settling, R

\* The bets with their option, in any rows.
OnRows(rows, o) == {b \in BetIds : rows[b] # NoBet /\ rows[b].option = o}

\* A step of another request leaves true what r has seen.
StillAgrees(r) ==
  /\ Changing(r) => bets'[r.bet] = bets[r.bet]
  /\ r.kind = "declare" =>
       /\ r.pc = "read" =>
            /\ OnRows(bets, r.option) \subseteq OnRows(bets', r.option)
            /\ OnRows(bets', r.option) \subseteq r.carried =>
                 total'[r.option] = total[r.option] /\ count'[r.option] = count[r.option]
       /\ r.pc = "locking" /\ "rows" \in DOMAIN r =>
            /\ ActiveRows(bets', RoundOf[r.option]) = ActiveRows(bets, RoundOf[r.option])
            /\ \A b \in ActiveRows(bets, RoundOf[r.option]) : bets'[b] = bets[b]

\* What r has seen holds after a step that leaves it true.
LEMMA StillAgreesKeeps ==
  ASSUME NEW p, req'[p] = req[p], SeenAgrees(req[p]), StillAgrees(req[p])
  PROVE  SeenAgrees(req[p])'
<1> DEFINE r == req[p]
           o == r.option
<1>0. req'[p] = r
  OBVIOUS
<1>1. /\ On(req[p].option) = OnRows(bets, o)
      /\ On(req[p].option)' = OnRows(bets', o)
      /\ ActiveIn(RoundOf[req[p].option]) = ActiveRows(bets, RoundOf[o])
      /\ ActiveIn(RoundOf[req[p].option])' = ActiveRows(bets', RoundOf[o])
  BY DEF On, OnRows, ActiveIn, ActiveRows
<1>2. ASSUME r.kind = "declare"
      PROVE  DeclareAgrees(req[p])'
  <2>1. DeclareAgrees(r)
    BY <1>2 DEF SeenAgrees
  <2>2. ASSUME r.pc = "read"
        PROVE  /\ r.carried \subseteq OnRows(bets', o)
               /\ OnRows(bets', o) \subseteq r.carried =>
                    r.total = total'[o] /\ r.count = count'[o]
    <3>1. /\ r.carried \subseteq OnRows(bets, o)
          /\ OnRows(bets, o) \subseteq r.carried => r.total = total[o] /\ r.count = count[o]
      BY <1>1, <2>1, <2>2 DEF DeclareAgrees
    <3>2. /\ OnRows(bets, o) \subseteq OnRows(bets', o)
          /\ OnRows(bets', o) \subseteq r.carried => total'[o] = total[o] /\ count'[o] = count[o]
      BY <1>2, <2>2 DEF StillAgrees
    <3> QED BY <3>1, <3>2
  <2>3. ASSUME r.pc = "locking", "rows" \in DOMAIN r
        PROVE  r.rows = [b \in BetIds |-> IF b \in ActiveRows(bets', RoundOf[o]) THEN bets'[b] ELSE NoBet]
    BY <1>1, <1>2, <2>1, <2>3 DEF DeclareAgrees, StillAgrees
  <2>4. r.pc = "locking" =>
          /\ r.rebound = {} /\ r.staleTotal = {} /\ r.staleCount = {}
          /\ "rows" \in DOMAIN r =>
               \A x \in Options : RoundOf[x] = RoundOf[o] => Updating("option", x) \in r.held
    BY <2>1 DEF DeclareAgrees
  <2> QED BY <1>0, <1>1, <2>2, <2>3, <2>4 DEF DeclareAgrees
<1>3. Changing(r) => r.seen = bets'[r.bet]
  BY DEF SeenAgrees, StillAgrees
<1> QED BY <1>0, <1>2, <1>3 DEF SeenAgrees, Changing

\* Nothing is written: what every request has seen still holds.
LEMMA NothingWritten ==
  ASSUME UNCHANGED vars, NEW r
  PROVE  StillAgrees(r)
BY DEF vars, StillAgrees

\* A step that writes nothing keeps the pools.
LEMMA UnchangedWrites ==
  ASSUME UNCHANGED vars, PoolsMatchBets
  PROVE  Writes /\ PoolsMatchBets'
BY DEF vars, Writes, options, pools, PoolsMatchBets, Counted, Stakes, StakesOf

\* A request arrives that has just read the row of its bet or of its option.
LEMMA ArriveKeepsE ==
  ASSUME RInv, EInv, NEW next, Arrive(next), next.pc = "read", SeenAgrees(next),
         \A p \in Requests : InFlight(p) => Apart(next, req[p]) /\ Apart(req[p], next)
  PROVE  EInv' /\ Writes
<1>1. UNCHANGED vars /\ IsSeq(req)
  BY DEF Arrive, RInv
<1> DEFINE n == Len(req) + 1
<1>2. /\ Requests' = 1 .. n /\ req'[n] = next /\ Len(req) \in Nat /\ Requests = 1 .. Len(req)
      /\ \A p \in Requests : req'[p] = req[p]
  BY <1>1, SeqFacts, AppendFacts DEF Arrive, Requests
<1>3. \A p \in Requests' : p = n \/ p \in Requests
  BY <1>2
<1>4. \A p \in Requests : InFlight(p)' <=> InFlight(p)
  BY <1>2 DEF InFlight
<1>5. KeptApart'
  <2>1. \A p \in Requests : InFlight(p) => Apart(next, req[p]) /\ Apart(req[p], next)
    OBVIOUS
  <2>2. \A p, q \in Requests : p # q /\ InFlight(p) /\ InFlight(q) => Apart(req[p], req[q])
    BY DEF EInv, KeptApart
  <2> HIDE DEF n
  <2> SUFFICES ASSUME NEW p \in Requests', NEW q \in Requests', p # q, InFlight(p)', InFlight(q)'
               PROVE  Apart(req'[p], req'[q])
    BY DEF KeptApart
  <2> QED BY <1>2, <1>3, <1>4, <2>1, <2>2
<1>6. ASSUME NEW p \in Requests', InFlight(p)'
      PROVE  SeenAgrees(req[p])'
  <2>1. CASE p \in Requests
    <3>1. SeenAgrees(req[p]) /\ req'[p] = req[p]
      BY <1>2, <1>4, <1>6, <2>1 DEF EInv
    <3> QED BY <1>1, <3>1, NothingWritten, StillAgreesKeeps
  <2>2. CASE p = n
    <3>1. /\ req'[p] = next /\ \A o : On(o)' = On(o)
          /\ \A o : ActiveIn(o)' = ActiveIn(o)
      BY <1>1, <1>2, <2>2 DEF vars, On, ActiveIn, ActiveRows
    <3>2. UNCHANGED <<bets, total, count>>
      BY <1>1 DEF vars
    <3> HIDE DEF n
    <3> QED BY <3>1, <3>2 DEF SeenAgrees, DeclareAgrees, Changing
  <2> QED BY <1>3, <2>1, <2>2
<1>7. PoolsMatchBets' /\ Writes
  BY <1>1, UnchangedWrites DEF EInv
<1> QED BY <1>5, <1>6, <1>7 DEF EInv

----------------------------------------------------------------------------
(***************************************************************************)
(* Every step keeps EInv.                                                  *)
(***************************************************************************)
\* A request that moves on, or is answered, stays apart from the others.
LEMMA StepKeepsApart ==
  ASSUME RInv, KeptApart, NEW q \in Requests, NEW next, req' = [req EXCEPT ![q] = next],
         \/ next.pc = "answered"
         \/ /\ InFlight(q) /\ next.kind = req[q].kind
            /\ Changing(req[q]) => next.bet = req[q].bet
  PROVE  KeptApart'
<1>1. /\ Requests' = Requests /\ req'[q] = next
      /\ \A p \in Requests \ {q} : req'[p] = req[p]
  BY ChangeFacts DEF RInv, Requests
<1>2. SUFFICES ASSUME NEW p \in Requests, NEW s \in Requests, p # s, InFlight(p)', InFlight(s)'
               PROVE  Apart(req'[p], req'[s])
  BY <1>1 DEF KeptApart
<1>3. InFlight(p) /\ InFlight(s)
  BY <1>1, <1>2 DEF InFlight
<1>4. Apart(req[p], req[s])
  BY <1>2, <1>3 DEF KeptApart
<1>5. \A x \in Requests : InFlight(x)' =>
        /\ req'[x].kind = req[x].kind
        /\ Changing(req[x]) => req'[x].bet = req[x].bet
  BY <1>1 DEF InFlight
<1> QED BY <1>2, <1>4, <1>5 DEF Apart, Changing

\* A request that only learns something.
LEMMA ProceedKeepsE ==
  ASSUME RInv, EInv, NEW q \in Requests, InFlight(q), NEW next, Proceed(q, next),
         next.kind = req[q].kind, Changing(req[q]) => next.bet = req[q].bet, SeenAgrees(next)
  PROVE  EInv' /\ Writes
<1>1. UNCHANGED vars /\ req' = [req EXCEPT ![q] = next]
  BY DEF Proceed
<1>2. /\ Requests' = Requests /\ req'[q] = next
      /\ \A p \in Requests \ {q} : req'[p] = req[p]
  BY <1>1, ChangeFacts DEF RInv, Requests
<1>3. KeptApart'
  BY <1>1, StepKeepsApart DEF EInv
<1>4. ASSUME NEW p \in Requests, InFlight(p)'
      PROVE  SeenAgrees(req[p])'
  <2>1. CASE p # q
    <3>1. SeenAgrees(req[p]) /\ req'[p] = req[p]
      BY <1>2, <1>4, <2>1 DEF EInv, InFlight
    <3> QED BY <1>1, <3>1, NothingWritten, StillAgreesKeeps
  <2>2. CASE p = q
    <3>1. /\ req'[p] = next /\ \A o : On(o)' = On(o)
          /\ \A o : ActiveIn(o)' = ActiveIn(o)
      BY <1>1, <1>2, <2>2 DEF vars, On, ActiveIn, ActiveRows
    <3>2. UNCHANGED <<bets, total, count>>
      BY <1>1 DEF vars
    <3> QED BY <3>1, <3>2 DEF SeenAgrees, DeclareAgrees, Changing
  <2> QED BY <2>1, <2>2
<1>5. PoolsMatchBets' /\ Writes
  BY <1>1, UnchangedWrites DEF EInv
<1> QED BY <1>2, <1>3, <1>4, <1>5 DEF EInv

\* A request that is answered, whatever it wrote.
LEMMA AnswerKeepsE ==
  ASSUME RInv, EInv, NEW q \in Requests, Answer(q), PoolsMatchBets',
         \A p \in Requests \ {q} : InFlight(p) => StillAgrees(req[p])
  PROVE  EInv'
<1>1. req' = [req EXCEPT ![q] = [pc |-> "answered"]]
  BY DEF Answer
<1>2. /\ Requests' = Requests /\ req'[q].pc = "answered"
      /\ \A p \in Requests \ {q} : req'[p] = req[p]
  BY <1>1, ChangeFacts DEF RInv, Requests
<1>3. KeptApart'
  <2> DEFINE next == [pc |-> "answered"]
  <2>1. next.pc = "answered" /\ req' = [req EXCEPT ![q] = next]
    BY <1>1
  <2> HIDE DEF next
  <2> QED BY <2>1, StepKeepsApart DEF EInv
<1>4. ASSUME NEW p \in Requests, InFlight(p)'
      PROVE  SeenAgrees(req[p])'
  <2>1. p # q /\ req'[p] = req[p] /\ InFlight(p)
    BY <1>2, <1>4 DEF InFlight
  <2>2. SeenAgrees(req[p]) /\ StillAgrees(req[p])
    BY <2>1 DEF EInv
  <2> QED BY <2>1, <2>2, StillAgreesKeeps
<1> QED BY <1>2, <1>3, <1>4 DEF EInv

\* A request is refused.
LEMMA RefuseKeepsE ==
  ASSUME RInv, EInv, NEW q \in Requests, Refuse(q)
  PROVE  EInv' /\ Writes
<1>1. UNCHANGED vars /\ Answer(q)
  BY DEF Refuse
<1>2. PoolsMatchBets' /\ Writes
  BY <1>1, UnchangedWrites DEF EInv
<1>3. \A p \in Requests \ {q} : StillAgrees(req[p])
  BY <1>1, NothingWritten
<1> QED BY <1>1, <1>2, <1>3, AnswerKeepsE

\* A transaction begins.
LEMMA BeginKeepsE ==
  ASSUME RInv, EInv, NEW q \in Requests, InFlight(q), req[q].kind # "declare",
         NEW plan, Proceed(q, Begin(req[q], plan))
  PROVE  EInv' /\ Writes
<1> DEFINE r == req[q]
           next == Begin(r, plan)
<1>1. SeenAgrees(r) /\ Knows(r)
  BY DEF EInv, RInv, RequestOK
<1>2. next.kind = r.kind
  BY <1>1 DEF Begin, Knows
<1>3. Changing(r) => next.bet = r.bet /\ next.seen = r.seen
  <2>1. Changing(r) => {"bet", "seen"} \subseteq DOMAIN r
    BY <1>1 DEF Changing, Knows, EditKnows, CancelKnows
  <2> QED BY <2>1 DEF Begin
<1> HIDE DEF next
<1>4. SeenAgrees(next)
  BY <1>1, <1>2, <1>3 DEF SeenAgrees, Changing
<1> QED BY <1>2, <1>3, <1>4, ProceedKeepsE DEF next

\* A request of a user checks and begins its transaction.
LEMMA ChecksKeepE ==
  ASSUME RInv, EInv, NEW q, PlaceChecks(q) \/ EditChecks(q) \/ CancelChecks(q)
  PROVE  EInv' /\ Writes
<1>1. q \in Requests /\ InFlight(q) /\ req[q].kind # "declare"
  BY DEF PlaceChecks, EditChecks, CancelChecks, Reading, InFlight
<1>2. CASE Refuse(q)
  BY <1>1, <1>2, RefuseKeepsE
<1>3. CASE ~ Refuse(q)
  <2>1. PICK plan : Proceed(q, Begin(req[q], plan))
    BY <1>3 DEF PlaceChecks, EditChecks, CancelChecks
  <2> QED BY <1>1, <2>1, BeginKeepsE
<1> QED BY <1>2, <1>3

\* A request to lock a round counts its bets.
LEMMA LockCountsKeepsE ==
  ASSUME RInv, EInv, NEW q, LockCounts(q)
  PROVE  EInv' /\ Writes
<1> DEFINE r == req[q]
           next == [r EXCEPT !.pc = "counted"]
<1>1. q \in Requests /\ InFlight(q) /\ r.kind = "lock" /\ Knows(r)
  BY DEF LockCounts, Reading, InFlight, RInv, RequestOK
<1>2. CASE Refuse(q)
  BY <1>1, <1>2, RefuseKeepsE
<1>3. CASE ~ Refuse(q)
  <2>1. Proceed(q, next)
    BY <1>3 DEF LockCounts
  <2>2. next.kind = "lock"
    BY <1>1 DEF Knows
  <2> HIDE DEF next
  <2>3. SeenAgrees(next) /\ ~ Changing(r)
    BY <1>1, <2>2 DEF SeenAgrees, Changing
  <2> QED BY <1>1, <2>1, <2>2, <2>3, ProceedKeepsE
<1> QED BY <1>2, <1>3

\* A transaction takes a lock.
LEMMA AcquireKeepsE ==
  ASSUME RInv, EInv, NEW q, Acquire(q)
  PROVE  EInv' /\ Writes
<1> DEFINE r == req[q]
           l == Head(r.plan)
           next == [r EXCEPT !.plan = Tail(@), !.held = @ \cup {l}, !.read = Returned(@, l)]
<1>1. /\ q \in Requests /\ Locking(q) /\ InFlight(q) /\ r.pc = "locking" /\ Proceed(q, next)
  BY DEF Acquire, Locking, InFlight
<1>2. Knows(r) /\ SeenAgrees(r) /\ LockingKnows(r)
  BY <1>1 DEF RInv, EInv, RequestOK, Knows
<1>3. /\ next.pc = r.pc /\ next.kind = r.kind /\ DOMAIN next = DOMAIN r
      /\ next.held = r.held \cup {l}
      /\ \A f \in DOMAIN r : f \notin {"plan", "held", "read"} => next[f] = r[f]
  BY <1>2 DEF Knows, LockingKnows
<1> HIDE DEF next, l
<1>4. Changing(r) => next.bet = r.bet /\ next.seen = r.seen
  BY <1>2, <1>3 DEF Changing, Knows, EditKnows, CancelKnows
<1>5. ASSUME r.kind = "declare"
      PROVE  DeclareAgrees(next)
  <2>1. {"option", "rebound", "staleTotal", "staleCount"} \subseteq DOMAIN r
    BY <1>1, <1>2, <1>5 DEF Knows, DeclareKnows
  <2>2. /\ next.option = r.option /\ next.rebound = r.rebound
        /\ next.staleTotal = r.staleTotal /\ next.staleCount = r.staleCount
        /\ "rows" \in DOMAIN r => next.rows = r.rows
    BY <1>3, <2>1
  <2>3. DeclareAgrees(r)
    BY <1>2, <1>5 DEF SeenAgrees
  <2> QED BY <1>1, <1>3, <2>2, <2>3 DEF DeclareAgrees
<1>6. SeenAgrees(next)
  BY <1>2, <1>3, <1>4, <1>5 DEF SeenAgrees, Changing
<1> QED BY <1>1, <1>3, <1>4, <1>6, ProceedKeepsE

\* The option is saved while it carries the bets it was loaded with: none is
\* moved back, and no column of it differs.
LEMMA DeclareSavesKeepsE ==
  ASSUME RInv, EInv, NEW q, DeclareSaves(q)
  PROVE  EInv' /\ Writes
<1> DEFINE r == req[q]
           o == r.option
           known == [pc |-> "read", kind |-> "declare", option |-> o,
                     total |-> r.total, count |-> r.count, rebound |-> r.carried \ On(o),
                     staleTotal |-> Stale(total[o], r.total),
                     staleCount |-> Stale(count[o], r.count)]
<1>1. /\ q \in Requests /\ InFlight(q) /\ r.pc = "read" /\ r.kind = "declare"
      /\ DeclareAgrees(r)
  BY DEF DeclareSaves, Reading, InFlight, EInv, SeenAgrees
<1>2. CASE Refuse(q)
  BY <1>1, <1>2, RefuseKeepsE
<1>3. CASE ~ Refuse(q)
  <2>1. PICK plan : Proceed(q, Begin(known, plan))
    BY <1>3 DEF DeclareSaves
  <2>2. On(o) \subseteq r.carried
    BY <1>3 DEF DeclareSaves
  <2>3. /\ known.kind = "declare" /\ known.option = o /\ "rows" \notin DOMAIN known
        /\ known.rebound = {} /\ known.staleTotal = {} /\ known.staleCount = {}
        /\ {"pc", "kind", "option", "rebound", "staleTotal", "staleCount"} \subseteq DOMAIN known
    <3>1. r.carried \ On(o) = {} /\ r.total = total[o] /\ r.count = count[o]
      BY <1>1, <2>2 DEF DeclareAgrees
    <3>2. Stale(total[o], r.total) = {} /\ Stale(count[o], r.count) = {}
      BY <3>1 DEF Stale
    <3> QED BY <3>1, <3>2
  <2> HIDE DEF known
  <2> DEFINE n == Begin(known, plan)
  <2>4. /\ n.kind = "declare" /\ n.option = o /\ "rows" \notin DOMAIN n /\ n.pc = "locking"
        /\ n.rebound = {} /\ n.staleTotal = {} /\ n.staleCount = {}
    <3>0. n.pc = "locking"
      BY <2>3 DEF Begin
    <3>1. n.kind = known.kind /\ n.option = known.option
      BY <2>3 DEF Begin
    <3>2. n.rebound = known.rebound
      BY <2>3 DEF Begin
    <3>3. n.staleTotal = known.staleTotal /\ n.staleCount = known.staleCount
      BY <2>3 DEF Begin
    <3>4. "rows" \notin DOMAIN n
      BY <2>3 DEF Begin
    <3> QED BY <2>3, <3>0, <3>1, <3>2, <3>3, <3>4
  <2> HIDE DEF n
  <2>5. SeenAgrees(n) /\ ~ Changing(r)
    BY <1>1, <2>4 DEF SeenAgrees, Changing, DeclareAgrees
  <2> QED BY <1>1, <2>1, <2>4, <2>5, ProceedKeepsE DEF n
<1> QED BY <1>2, <1>3

\* Once the options of the round are updated the settlement reads the bets.
LEMMA DeclareFetchesKeepsE ==
  ASSUME RInv, EInv, NEW q, DeclareFetches(q)
  PROVE  EInv' /\ Writes
<1> DEFINE r == req[q]
           o == r.option
           fetched == ActiveIn(RoundOf[o])
           taken == [b \in BetIds |-> IF b \in fetched THEN bets[b] ELSE NoBet]
<1>1. /\ q \in Requests /\ Locking(q) /\ r.pc = "locking" /\ r.kind = "declare" /\ r.plan = <<>>
      /\ InFlight(q) /\ "rows" \notin DOMAIN r
  BY DEF DeclareFetches, Ready, Locking, InFlight
<1>2. /\ TypeOK /\ Knows(r) /\ DeclareKnows(r) /\ LockingKnows(r) /\ o \in Options
      /\ DeclareAgrees(r)
  BY <1>1 DEF RInv, EInv, SeenAgrees, RequestOK, Knows, DeclareKnows
<1>3. Rebound(r) = bets
  <2>1. r.rebound = {}
    BY <1>1, <1>2 DEF DeclareAgrees
  <2>2. bets = [b \in BetIds |-> bets[b]]
    BY <1>2 DEF TypeOK
  <2> QED BY <2>1, <2>2 DEF Rebound
<1>4. PICK plan : Proceed(q, [f \in DOMAIN r \cup {"rows"} |->
                               CASE f = "plan" -> plan
                                 [] f = "rows" -> taken
                                 [] OTHER -> r[f]])
  BY <1>3 DEF DeclareFetches, ActiveIn
<1> DEFINE n == [f \in DOMAIN r \cup {"rows"} |->
                   CASE f = "plan" -> plan
                     [] f = "rows" -> taken
                     [] OTHER -> r[f]]
<1>5. /\ n.rows = taken /\ n.kind = r.kind /\ n.pc = r.pc /\ n.option = o /\ n.held = r.held
      /\ n.rebound = r.rebound /\ n.staleTotal = r.staleTotal /\ n.staleCount = r.staleCount
  <2> HIDE DEF taken
  <2> QED BY <1>1, <1>2 DEF Knows, LockingKnows, DeclareKnows
<1> HIDE DEF n
<1>6. \A p \in Options : RoundOf[p] = RoundOf[o] => Updating("option", p) \in r.held
  <2> SUFFICES ASSUME NEW p \in Options, RoundOf[p] = RoundOf[o]
               PROVE  Updating("option", p) \in r.held
    OBVIOUS
  <2>1. Updating("option", p) \in Locks /\ Needs(r, Updating("option", p))
    BY <1>1, LockType DEF Needs
  <2> QED BY <1>1, <2>1, ReadyHolds
<1>7. DeclareAgrees(n)
  BY <1>1, <1>2, <1>5, <1>6 DEF DeclareAgrees
<1>8. SeenAgrees(n) /\ ~ Changing(r)
  BY <1>1, <1>5, <1>7 DEF SeenAgrees, Changing
<1> QED BY <1>1, <1>4, <1>5, <1>8, ProceedKeepsE DEF n

\* The status of a round is saved.
LEMMA StatusSavedKeepsE ==
  ASSUME RInv, EInv, NEW q, StatusSaved(q)
  PROVE  EInv' /\ Writes
<1>1. q \in Requests /\ Answer(q)
  BY DEF StatusSaved, Reading
<1>2. UNCHANGED <<options, pools, bets, wallet, streamEnded>>
  BY DEF StatusSaved
<1>3. UNCHANGED <<total, count, bets>>
  BY <1>2 DEF pools
<1>4. PoolsMatchBets'
  BY <1>3 DEF EInv, PoolsMatchBets, Counted, Stakes, StakesOf
<1>5. \A p \in Requests \ {q} : StillAgrees(req[p])
  BY <1>3 DEF StillAgrees
<1> QED BY <1>1, <1>2, <1>4, <1>5, AnswerKeepsE DEF Writes

\* A bet is placed.
LEMMA PlaceCommitsKeepsE ==
  ASSUME RInv, EInv, NEW q, PlaceCommits(q)
  PROVE  EInv' /\ Writes
<1> DEFINE r == req[q]
           o == r.option
<1>1. /\ q \in Requests /\ Locking(q) /\ r.pc = "locking" /\ r.kind = "place" /\ r.plan = <<>>
      /\ Answer(q) /\ InFlight(q)
  BY DEF PlaceCommits, Ready, Locking, InFlight
<1>2. /\ TypeOK /\ PoolsMatchBets /\ r.user \in Users /\ o \in Options
      /\ r.currency \in Currencies /\ r.amount \in Amounts
  BY <1>1 DEF RInv, EInv, RequestOK, Knows, PlaceKnows
<1>3. PICK b \in BetIds : Placing(wallet, total, count, r.user, o, r.currency, r.amount, b)
  BY <1>1, AsReadIsCurrent DEF PlaceCommits
<1>4. PoolsMatchBets' /\ Writes
  BY <1>2, <1>3, PlacingPools DEF Writes
<1>5. /\ bets[b] = NoBet /\ bets'[b] = NewBet(r.user, o, r.currency, r.amount)
      /\ \A e \in BetIds \ {b} : bets'[e] = bets[e]
      /\ \A p \in Options \ {o} : total'[p] = total[p] /\ count'[p] = count[p]
  <2>1. /\ bets[b] = NoBet /\ bets' = [bets EXCEPT ![b] = NewBet(r.user, o, r.currency, r.amount)]
        /\ total' = Staked(total, o, r.currency, r.amount) /\ count' = Staked(count, o, r.currency, 1)
    BY <1>3 DEF Placing
  <2> HIDE DEF o
  <2> QED BY <1>2, <2>1 DEF TypeOK, PoolTable, Staked
<1>6. /\ NewBet(r.user, o, r.currency, r.amount) # NoBet
      /\ NewBet(r.user, o, r.currency, r.amount).option = o
      /\ NewBet(r.user, o, r.currency, r.amount).round = RoundOf[o]
      /\ NoBet.status # "active"
  BY DEF NewBet, NoBet
<1>7. ForUpdate("option", o) \in r.held
  <2>1. ForUpdate("option", o) \in Locks /\ Needs(r, ForUpdate("option", o))
    BY <1>1, <1>2, LockType DEF Needs
  <2> QED BY <1>1, <2>1, ReadyHolds
<1>8. ASSUME NEW p \in Requests \ {q}, InFlight(p)
      PROVE  StillAgrees(req[p])
  <2>1. Knows(req[p]) /\ SeenAgrees(req[p])
    BY <1>8 DEF RInv, RequestOK, EInv
  <2>2. Changing(req[p]) => bets'[req[p].bet] = bets[req[p].bet]
    <3> SUFFICES ASSUME Changing(req[p]) PROVE bets'[req[p].bet] = bets[req[p].bet]
      OBVIOUS
    <3>1. req[p].bet \in BetIds /\ bets[req[p].bet].status = "active"
      BY <2>1 DEF Changing, Knows, EditKnows, CancelKnows, SeenAgrees
    <3> QED BY <1>5, <1>6, <3>1
  <2>3. ASSUME req[p].kind = "declare", req[p].pc = "read"
        PROVE  /\ OnRows(bets, req[p].option) \subseteq OnRows(bets', req[p].option)
               /\ OnRows(bets', req[p].option) \subseteq req[p].carried =>
                    total'[req[p].option] = total[req[p].option]
                    /\ count'[req[p].option] = count[req[p].option]
    <3>1. req[p].option \in Options /\ req[p].carried \subseteq OnRows(bets, req[p].option)
      BY <2>1, <2>3 DEF Knows, DeclareKnows, SeenAgrees, DeclareAgrees, On, OnRows
    <3>2. OnRows(bets, req[p].option) \subseteq OnRows(bets', req[p].option)
      BY <1>5 DEF OnRows
    <3>3. CASE req[p].option = o
      <4>1. b \in OnRows(bets', o) /\ b \notin OnRows(bets, o)
        BY <1>5, <1>6 DEF OnRows
      <4> QED BY <3>1, <3>2, <3>3, <4>1
    <3>4. CASE req[p].option # o
      BY <1>5, <3>1, <3>2, <3>4
    <3> QED BY <3>3, <3>4
  <2>4. ASSUME req[p].kind = "declare", req[p].pc = "locking", "rows" \in DOMAIN req[p]
        PROVE  /\ ActiveRows(bets', RoundOf[req[p].option]) = ActiveRows(bets, RoundOf[req[p].option])
               /\ \A e \in ActiveRows(bets, RoundOf[req[p].option]) : bets'[e] = bets[e]
    <3>1. RoundOf[o] # RoundOf[req[p].option]
      <4>1. Updating("option", o) \notin req[p].held
        BY <1>1, <1>7, <2>4, ReadRowIsNotWritten DEF Locking
      <4>2. RoundOf[o] = RoundOf[req[p].option] => Updating("option", o) \in req[p].held
        BY <1>2, <2>1, <2>4 DEF SeenAgrees, DeclareAgrees
      <4> QED BY <4>1, <4>2
    <3> HIDE DEF o
    <3> QED BY <1>5, <1>6, <3>1 DEF ActiveRows
  <2> QED BY <2>2, <2>3, <2>4 DEF StillAgrees
<1> QED BY <1>1, <1>4, <1>8, AnswerKeepsE

\* An edit that commits: the bet is active, as it was read, and the tables are
\* those of its commit.
LEMMA EditWrites ==
  ASSUME RInv, EInv, NEW q, EditCommits(q)
  PROVE  /\ q \in Requests /\ InFlight(q) /\ Answer(q) /\ Changing(req[q])
         /\ req[q].pc = "locking" /\ req[q].kind = "edit"
         /\ req[q].bet \in BetIds /\ Active(req[q].bet) /\ bets[req[q].bet] \in Bet
         /\ req[q].option \in Options /\ req[q].currency \in Currencies
         /\ req[q].amount \in Amounts /\ bets[req[q].bet].user = req[q].user
         /\ Editing(wallet, total, count, bets[req[q].bet], req[q].bet, req[q].option,
                    req[q].currency, req[q].amount)
<1> DEFINE r == req[q]
<1>1. /\ q \in Requests /\ Locking(q) /\ r.pc = "locking" /\ r.kind = "edit"
      /\ Answer(q) /\ InFlight(q) /\ Changing(r)
  BY DEF EditCommits, Ready, Locking, InFlight, Changing
<1>2. EditKnows(r) /\ r.seen = bets[r.bet]
  BY <1>1 DEF RInv, EInv, RequestOK, Knows, SeenAgrees
<1>3. /\ r.bet \in BetIds /\ Active(r.bet) /\ bets[r.bet] \in Bet /\ r.option \in Options
      /\ r.currency \in Currencies /\ r.amount \in Amounts /\ bets[r.bet].user = r.user
  BY <1>2 DEF EditKnows, CancelKnows, Active
<1>4. Editing(WalletAsRead(q), TotalAsRead(q), CountAsRead(q), r.seen, r.bet, r.option,
              r.currency, r.amount)
  BY DEF EditCommits
<1>5. WalletAsRead(q) = wallet /\ TotalAsRead(q) = total /\ CountAsRead(q) = count
  BY <1>1, AsReadIsCurrent
<1>6. Editing(wallet, total, count, bets[r.bet], r.bet, r.option, r.currency, r.amount)
  BY <1>2, <1>4, <1>5
<1> QED BY <1>1, <1>3, <1>6

\* A cancellation that commits: likewise.
LEMMA CancelWrites ==
  ASSUME RInv, EInv, NEW q, CancelCommits(q)
  PROVE  /\ q \in Requests /\ InFlight(q) /\ Answer(q) /\ Changing(req[q])
         /\ req[q].pc = "locking" /\ req[q].kind = "cancel" /\ req[q].seen = bets[req[q].bet]
         /\ req[q].bet \in BetIds /\ Active(req[q].bet) /\ bets[req[q].bet] \in Bet
         /\ bets[req[q].bet].user = req[q].user
         /\ Cancelling(wallet, total, count, bets[req[q].bet], req[q].bet)
<1> DEFINE r == req[q]
<1>1. /\ q \in Requests /\ Locking(q) /\ r.pc = "locking" /\ r.kind = "cancel"
      /\ Answer(q) /\ InFlight(q) /\ Changing(r)
  BY DEF CancelCommits, Ready, Locking, InFlight, Changing
<1>2. CancelKnows(r) /\ r.seen = bets[r.bet]
  BY <1>1 DEF RInv, EInv, RequestOK, Knows, SeenAgrees
<1>3. r.bet \in BetIds /\ Active(r.bet) /\ bets[r.bet] \in Bet /\ bets[r.bet].user = r.user
  BY <1>2 DEF CancelKnows, Active
<1>4. Cancelling(WalletAsRead(q), TotalAsRead(q), CountAsRead(q), r.seen, r.bet)
  BY DEF CancelCommits
<1>5. WalletAsRead(q) = wallet /\ TotalAsRead(q) = total /\ CountAsRead(q) = count
  BY <1>1, AsReadIsCurrent
<1>6. Cancelling(wallet, total, count, bets[r.bet], r.bet)
  BY <1>2, <1>4, <1>5
<1> QED BY <1>1, <1>2, <1>3, <1>6

\* What an edit or a cancellation of one bet leaves alone.
LEMMA OwnBetChanges ==
  ASSUME RInv, EInv, NEW q \in Requests, InFlight(q), Changing(req[q]),
         \A e \in BetIds \ {req[q].bet} : bets'[e] = bets[e]
  PROVE  \A p \in Requests \ {q} : InFlight(p) => StillAgrees(req[p])
<1> SUFFICES ASSUME NEW p \in Requests \ {q}, InFlight(p)
             PROVE  StillAgrees(req[p])
  OBVIOUS
<1>1. req[p].kind # "declare" /\ (Changing(req[p]) => req[p].bet # req[q].bet)
  BY DEF EInv, KeptApart, Apart
<1>2. Knows(req[p])
  BY DEF RInv, RequestOK
<1>3. Changing(req[p]) => req[p].bet \in BetIds
  BY <1>2 DEF Changing, Knows, EditKnows, CancelKnows
<1> QED BY <1>1, <1>3 DEF StillAgrees

\* A bet is edited, by the only request that is about it.
LEMMA EditCommitsKeepsE ==
  ASSUME RInv, EInv, NEW q, EditCommits(q)
  PROVE  EInv' /\ Writes
<1> DEFINE r == req[q]
<1>1. /\ q \in Requests /\ InFlight(q) /\ Answer(q) /\ Changing(r)
      /\ r.bet \in BetIds /\ Active(r.bet) /\ r.option \in Options
      /\ r.currency \in Currencies /\ r.amount \in Amounts
      /\ Editing(wallet, total, count, bets[r.bet], r.bet, r.option, r.currency, r.amount)
  BY EditWrites
<1>2. TypeOK /\ PoolsMatchBets
  BY DEF RInv, EInv
<1>3. PoolsMatchBets' /\ Writes
  <2>1. PoolsMatchBets'
    BY <1>1, <1>2, EditingPools
  <2>2. Writes
    BY <1>1 DEF Writes
  <2> QED BY <2>1, <2>2
<1>4. \A e \in BetIds \ {r.bet} : bets'[e] = bets[e]
  BY <1>1, <1>2 DEF Editing, TypeOK
<1> QED BY <1>1, <1>3, <1>4, OwnBetChanges, AnswerKeepsE

\* A bet is cancelled, by the only request that is about it.
LEMMA CancelCommitsKeepsE ==
  ASSUME RInv, EInv, NEW q, CancelCommits(q)
  PROVE  EInv' /\ Writes
<1> DEFINE r == req[q]
<1>1. /\ q \in Requests /\ InFlight(q) /\ Answer(q) /\ Changing(r)
      /\ r.bet \in BetIds /\ Active(r.bet)
      /\ Cancelling(wallet, total, count, bets[r.bet], r.bet)
  BY CancelWrites
<1>2. TypeOK /\ PoolsMatchBets
  BY DEF RInv, EInv
<1>3. PoolsMatchBets' /\ Writes
  <2>1. PoolsMatchBets'
    BY <1>1, <1>2, CancellingPools
  <2>2. Writes
    BY <1>1 DEF Writes
  <2> QED BY <2>1, <2>2
<1>4. \A e \in BetIds \ {r.bet} : bets'[e] = bets[e]
  BY <1>1, <1>2 DEF Cancelling, TypeOK
<1> QED BY <1>1, <1>3, <1>4, OwnBetChanges, AnswerKeepsE

\* Settling a bet leaves its option and its round.
LEMMA SettledPlace ==
  ASSUME TypeOK, NEW o \in Options, NEW short, NEW b \in ActiveIn(RoundOf[o])
  PROVE  LET x == SettledBet(bets, total, b, o, short) IN
         x.option = bets[b].option /\ x.round = RoundOf[o]
           /\ x.status \in {"won", "lost", "refunded"}
<1>1. bets[b] \in Bet /\ bets[b].round = RoundOf[o] /\ b \in BetIds
  BY DEF TypeOK, ActiveIn, ActiveRows, NoBet
<1>2. /\ {"option", "round", "status", "payout"} \subseteq DOMAIN bets[b]
  BY <1>1 DEF Bet
<1> DEFINE zero == 0
           pay == Payout(bets, total, b, o, short)
<1>3. \/ SettledBet(bets, total, b, o, short) = [bets[b] EXCEPT !.status = "refunded", !.payout = zero]
      \/ SettledBet(bets, total, b, o, short) = [bets[b] EXCEPT !.status = "won", !.payout = pay]
      \/ SettledBet(bets, total, b, o, short) = [bets[b] EXCEPT !.status = "lost", !.payout = zero]
  BY DEF SettledBet
<1> HIDE DEF zero, pay
<1> QED BY <1>1, <1>2, <1>3

\* A settlement writes what it would write alone.
LEMMA DeclareCommitsWrites ==
  ASSUME RInv, EInv, NEW q, DeclareCommits(q)
  PROVE  /\ req[q].option \in Options
         /\ Settling(wallet, req[q].option, bets, total, bets) /\ UNCHANGED count
<1> DEFINE r == req[q]
           o == r.option
           table == WrittenBack(total, o, r.total, r.staleTotal)
<1>1. /\ q \in Requests /\ Locking(q) /\ r.pc = "locking" /\ r.kind = "declare"
      /\ "rows" \in DOMAIN r /\ InFlight(q)
  BY DEF DeclareCommits, Ready, Locking, InFlight
<1>2. /\ TypeOK /\ o \in Options /\ DeclareAgrees(r)
  BY <1>1 DEF RInv, EInv, SeenAgrees, RequestOK, Knows, DeclareKnows
<1>3. /\ r.rebound = {} /\ r.staleTotal = {} /\ r.staleCount = {}
      /\ r.rows = [b \in BetIds |-> IF b \in ActiveIn(RoundOf[o]) THEN bets[b] ELSE NoBet]
  BY <1>1, <1>2 DEF DeclareAgrees
<1>4. Rebound(r) = bets
  <2>1. bets = [b \in BetIds |-> bets[b]]
    BY <1>2 DEF TypeOK
  <2> QED BY <1>3, <2>1 DEF Rebound
<1>5. \A t \in PoolTable : \A seen : WrittenBack(t, o, seen, {}) = t
  <2> SUFFICES ASSUME NEW t \in PoolTable, NEW seen
               PROVE  WrittenBack(t, o, seen, {}) = t
    OBVIOUS
  <2>1. t[o] = [c \in Currencies |-> t[o][c]]
    BY <1>2 DEF PoolTable
  <2>2. WrittenBack(t, o, seen, {}) = [t EXCEPT ![o] = [c \in Currencies |-> t[o][c]]]
    BY DEF WrittenBack
  <2> QED BY <1>2, <2>1, <2>2 DEF PoolTable
<1>6. table = total /\ WrittenBack(count, o, r.count, r.staleCount) = count
  BY <1>2, <1>3, <1>5 DEF TypeOK
<1>7. Settling(wallet, o, r.rows, total, bets) /\ count' = count
  <2>1. /\ Settling(wallet, o, r.rows, table, Rebound(r))
        /\ count' = WrittenBack(count, o, r.count, r.staleCount)
    BY <1>1, AsReadIsCurrent DEF DeclareCommits
  <2> QED BY <1>4, <1>6, <2>1
<1> HIDE DEF o
<1>8. Settling(wallet, o, bets, total, bets)
  BY <1>2, <1>3, <1>7, FetchedSettles
<1> QED BY <1>2, <1>7, <1>8 DEF o

\* A winner is declared: another settlement of the round is not between its reads
\* and its commit, for both hold the locks of the options.
LEMMA DeclareCommitsKeepsE ==
  ASSUME RInv, EInv, NEW q, DeclareCommits(q)
  PROVE  EInv' /\ Writes
<1> DEFINE r == req[q]
           o == r.option
           R == RoundOf[o]
<1>1. /\ q \in Requests /\ Locking(q) /\ r.pc = "locking" /\ r.kind = "declare"
      /\ "rows" \in DOMAIN r /\ Answer(q) /\ InFlight(q)
  BY DEF DeclareCommits, Ready, Locking, InFlight
<1>2. /\ TypeOK /\ PoolsMatchBets /\ DeclareAgrees(r)
  BY <1>1 DEF RInv, EInv, SeenAgrees
<1>3. o \in Options /\ Settling(wallet, o, bets, total, bets) /\ UNCHANGED count
  BY DeclareCommitsWrites
<1>4. PoolsMatchBets' /\ Writes
  BY <1>2, <1>3, SettlingPools DEF Writes
<1>5. total' = total /\ UNCHANGED count
  BY <1>3 DEF Settling
<1>6. /\ \A b \in BetIds \ ActiveIn(R) : bets'[b] = bets[b]
      /\ \A b \in ActiveIn(R) :
           /\ b \in BetIds /\ bets[b] # NoBet /\ bets'[b] # NoBet
           /\ bets[b].round = R /\ bets'[b].round = R /\ bets'[b].option = bets[b].option
  <2>1. PICK short : bets' = [b \in BetIds |-> IF b \in ActiveIn(R)
                                THEN SettledBet(bets, total, b, o, short) ELSE bets[b]]
    BY <1>3 DEF Settling, ActiveIn
  <2>2. \A b \in ActiveIn(R) : b \in BetIds /\ bets[b] # NoBet /\ bets[b].round = R
    BY DEF ActiveIn, ActiveRows, NoBet
  <2>3. \A b \in ActiveIn(R) :
          /\ SettledBet(bets, total, b, o, short).option = bets[b].option
          /\ SettledBet(bets, total, b, o, short).round = R
          /\ SettledBet(bets, total, b, o, short).status # "none"
    BY <1>2, <1>3, SettledPlace
  <2> HIDE DEF R, o
  <2> QED BY <2>1, <2>2, <2>3 DEF NoBet
<1> HIDE DEF R
<1>7. ASSUME NEW p \in Requests \ {q}, InFlight(p)
      PROVE  StillAgrees(req[p])
  <2>1. ~ Changing(req[p])
    <3>1. Apart(req[p], r)
      BY <1>1, <1>7 DEF EInv, KeptApart
    <3> QED BY <1>1, <3>1 DEF Apart
  <2>2. \A x : OnRows(bets', x) = OnRows(bets, x)
    BY <1>6 DEF OnRows
  <2>3. ASSUME req[p].kind = "declare", req[p].pc = "locking", "rows" \in DOMAIN req[p]
        PROVE  /\ ActiveRows(bets', RoundOf[req[p].option]) = ActiveRows(bets, RoundOf[req[p].option])
               /\ \A e \in ActiveRows(bets, RoundOf[req[p].option]) : bets'[e] = bets[e]
    <3>1. RoundOf[req[p].option] # R
      <4>1. Updating("option", o) \in r.held
        BY <1>1, <1>2, <1>3 DEF DeclareAgrees
      <4>2. RoundOf[req[p].option] = R => Updating("option", o) \in req[p].held
        BY <1>3, <1>7, <2>3 DEF EInv, SeenAgrees, DeclareAgrees, R
      <4>3. Compatible(r.held, req[p].held)
        BY <1>1, <1>7, <2>3 DEF RInv, LocksExclude, Locking
      <4> QED BY <4>1, <4>2, <4>3 DEF Compatible, Conflict, Updating
    <3> QED BY <1>6, <3>1 DEF ActiveRows
  <2> QED BY <1>5, <2>1, <2>2, <2>3 DEF StillAgrees
<1> QED BY <1>1, <1>4, <1>7, AnswerKeepsE

\* A request that arrives is apart from those in flight.
ArrivesApart ==
  \A next : Arrive(next) /\ JustRead(next) =>
    \A p \in Requests : InFlight(p) => Apart(next, req[p]) /\ Apart(req[p], next)

\* A request arrives with what it has just read.
LEMMA ArrivalKeepsE ==
  ASSUME ArrivesApart, RInv, EInv, Arrival
  PROVE  EInv' /\ Writes
<1>1. PICK next : Arrive(next) /\ JustRead(next)
  BY ArrivalFacts DEF RInv
<1>2. next.pc = "read" /\ SeenAgrees(next)
  BY <1>1 DEF JustRead, SeenAgrees, Changing, DeclareAgrees
<1> QED BY <1>1, <1>2, ArriveKeepsE DEF ArrivesApart

\* Every handler writes as if it were alone.
LEMMA HandleKeepsE ==
  ASSUME RInv, EInv, NEW q, Handle(q) \/ Fail(q)
  PROVE  EInv' /\ Writes
<1>1. CASE PlaceChecks(q) \/ EditChecks(q) \/ CancelChecks(q)
  BY <1>1, ChecksKeepE
<1>2. CASE PlaceCommits(q) \/ EditCommits(q) \/ CancelCommits(q)
  BY <1>2, PlaceCommitsKeepsE, EditCommitsKeepsE, CancelCommitsKeepsE
<1>3. CASE LockCounts(q) \/ StatusSaved(q)
  BY <1>3, LockCountsKeepsE, StatusSavedKeepsE
<1>4. CASE DeclareSaves(q) \/ DeclareFetches(q) \/ DeclareCommits(q)
  BY <1>4, DeclareSavesKeepsE, DeclareFetchesKeepsE, DeclareCommitsKeepsE
<1>5. CASE Acquire(q)
  BY <1>5, AcquireKeepsE
<1>6. CASE DeadlockVictim(q) \/ Fail(q) \/ (Unpayable(q) /\ Refuse(q))
  BY <1>6, GivenUp, RefuseKeepsE
<1> QED BY <1>1, <1>2, <1>3, <1>4, <1>5, <1>6 DEF Handle

\* At the start there is no request and no bet.
LEMMA RequestsInitEInv == RequestsInit => EInv
<1> SUFFICES ASSUME RequestsInit PROVE EInv
  OBVIOUS
<1>1. PoolsMatchBets
  BY InitIInv DEF RequestsInit, IInv
<1>2. DOMAIN req = {}
  BY DEF RequestsInit
<1> QED BY <1>1, <1>2 DEF EInv, KeptApart, Requests

\* Every step keeps it, when those that arrive are apart from the others.
LEMMA RequestsNextEInv ==
  ASSUME Arrival => ArrivesApart, RInv, EInv, [RequestsNext]_allVars
  PROVE  EInv' /\ Writes
<1>1. CASE Arrival
  BY <1>1, ArrivalKeepsE
<1>2. CASE \E q \in 1 .. MaxRequests : Handle(q) \/ Fail(q)
  BY <1>2, HandleKeepsE
<1>3. CASE UNCHANGED allVars
  <2>1. UNCHANGED vars /\ req' = req
    BY <1>3 DEF allVars
  <2>2. \A p \in Requests : InFlight(p) => SeenAgrees(req[p])'
    BY <2>1, NothingWritten, StillAgreesKeeps DEF EInv
  <2>3. KeptApart'
    BY <2>1 DEF EInv, KeptApart, Requests, InFlight
  <2> QED BY <2>1, <2>2, <2>3, UnchangedWrites DEF EInv, Requests, InFlight
<1> QED BY <1>1, <1>2, <1>3 DEF RequestsNext

\* They are, when Overlap keeps them apart.
LEMMA EditsNext ==
  ASSUME EditsKeepApart, RInv, EInv, [RequestsNext]_allVars
  PROVE  EInv' /\ Writes
<1>1. ArrivesApart
  BY DEF ArrivesApart, EditsKeepApart, Arrive
<1> QED BY <1>1, RequestsNextEInv

\* What was read before a lock is still so at every commit.
LEMMA EditsInvariance ==
  ASSUME EditsKeepApart
  PROVE  RequestsSpec => [](RInv /\ EInv)
<1>1. RInv /\ EInv /\ [RequestsNext]_allVars => EInv'
  BY EditsNext
<1> QED BY <1>1, RequestsInitRInv, RequestsInitEInv, RequestsNextRInv, PTL DEF RequestsSpec

\* The columns of every option add up to its bets.
THEOREM PoolsAreKeptApart ==
  ASSUME EditsKeepApart
  PROVE  RequestsSpec => []PoolsMatchBets
<1>1. EInv => PoolsMatchBets
  BY DEF EInv
<1> QED BY <1>1, EditsInvariance, PTL

\* Every step writes what a request that runs alone writes.
THEOREM CommitsAsIfAlone ==
  ASSUME EditsKeepApart
  PROVE  RequestsSpec => [][Writes]_vars
<1>1. RInv /\ EInv /\ [RequestsNext]_allVars => [Writes]_vars
  BY EditsNext
<1> QED BY <1>1, EditsInvariance, PTL DEF RequestsSpec

\* A bet that has its result never changes again.
THEOREM SettledBetsStay ==
  ASSUME EditsKeepApart
  PROVE  RequestsSpec => SettledOnce
<1>1. RInv /\ Writes =>
        [\A b \in BetIds : bets[b].status \notin {"none", "active"} => bets'[b] = bets[b]]_vars
  <2> SUFFICES ASSUME RInv, Writes, NEW b \in BetIds, bets[b].status \notin {"none", "active"}
               PROVE  bets'[b] = bets[b]
    OBVIOUS
  <2>0. TypeOK
    BY DEF RInv
  <2>1. CASE UNCHANGED <<options, pools, bets, wallet, streamEnded>>
    BY <2>1
  <2>2. CASE \E u \in Users, o \in Options, c \in Currencies, a \in Amounts, e \in BetIds :
               Placing(wallet, total, count, u, o, c, a, e)
    BY <2>0, <2>2 DEF Placing, NoBet, TypeOK
  <2>3. CASE \E e \in BetIds, o \in Options, c \in Currencies, a \in Amounts :
               Active(e) /\ Editing(wallet, total, count, bets[e], e, o, c, a)
    BY <2>0, <2>3 DEF Editing, Active, TypeOK
  <2>4. CASE \E e \in BetIds : Active(e) /\ Cancelling(wallet, total, count, bets[e], e)
    BY <2>0, <2>4 DEF Cancelling, Active, TypeOK
  <2>5. CASE \E o \in Options : Settling(wallet, o, bets, total, bets) /\ UNCHANGED count
    BY <2>5 DEF Settling, ActiveRows
  <2> QED BY <2>1, <2>2, <2>3, <2>4, <2>5 DEF Writes
<1>2. RInv /\ EInv /\ [RequestsNext]_allVars =>
        [\A b \in BetIds : bets[b].status \notin {"none", "active"} => bets'[b] = bets[b]]_vars
  BY <1>1, EditsNext
<1> QED BY <1>2, EditsInvariance, PTL DEF RequestsSpec, SettledOnce

----------------------------------------------------------------------------
(***************************************************************************)
(* Money.  MInv holds when, besides, the requests about one round come in  *)
(* turn: the status of a round is still what they have checked, save that  *)
(* a bet may be placed in a round that has just been closed and is empty.  *)
(***************************************************************************)
\* What was asked of a request does not change while it is handled.
SameAsked(next, r) ==
  /\ next.kind = r.kind
  /\ r.kind \in {"place", "edit", "cancel"} => next.user = r.user
  /\ r.kind \in {"place", "edit", "declare"} => next.option = r.option
  /\ r.kind \in {"place", "edit"} => next.currency = r.currency /\ next.amount = r.amount
  /\ r.kind \in {"edit", "cancel"} => next.bet = r.bet /\ next.seen = r.seen
  /\ r.kind \in {"open", "lock"} => next.round = r.round

\* What a transaction of a user has checked when it begins.
Checked(r) ==
  /\ r.kind = "place" =>
       \A b \in ActiveIn(RoundOf[r.option]) : bets[b].user # r.user
  /\ r.kind = "edit" => BettingOn(r.option)
  /\ r.kind = "cancel" => roundStatus[r.seen.round] = "open"

\* A handler that only learns something.
Learns(q) ==
  \/ PlaceChecks(q) \/ EditChecks(q) \/ CancelChecks(q) \/ LockCounts(q)
  \/ DeclareSaves(q) \/ DeclareFetches(q) \/ Acquire(q)

\* Such a handler is one of a request.
LEMMA LearnsRequest == ASSUME NEW q, Learns(q) PROVE q \in Requests
<1>1. CASE PlaceChecks(q) \/ EditChecks(q) \/ CancelChecks(q) \/ LockCounts(q)
  BY <1>1 DEF PlaceChecks, EditChecks, CancelChecks, LockCounts, Reading
<1>2. CASE DeclareSaves(q)
  BY <1>2 DEF DeclareSaves, Reading
<1>3. CASE DeclareFetches(q)
  BY <1>3 DEF DeclareFetches, Ready, Locking
<1>4. CASE Acquire(q)
  BY <1>4 DEF Acquire, Locking
<1> QED BY <1>1, <1>2, <1>3, <1>4 DEF Learns

\* A transaction begins with what its request was asked.
LEMMA BeginSame ==
  ASSUME NEW r, Knows(r), NEW plan
  PROVE  SameAsked(Begin(r, plan), r)
<1> DEFINE n == Begin(r, plan)
<1>1. n.kind = r.kind
  BY DEF Begin, Knows
<1>2. r.kind \in {"place", "edit", "cancel"} => n.user = r.user
  <2>1. r.kind \in {"place", "edit", "cancel"} => "user" \in DOMAIN r
    BY DEF Knows, PlaceKnows, EditKnows, CancelKnows
  <2> QED BY <2>1 DEF Begin
<1>3. r.kind \in {"place", "edit", "declare"} => n.option = r.option
  <2>1. r.kind \in {"place", "edit", "declare"} => "option" \in DOMAIN r
    BY DEF Knows, PlaceKnows, EditKnows, DeclareKnows
  <2> QED BY <2>1 DEF Begin
<1>4. r.kind \in {"place", "edit"} => n.currency = r.currency /\ n.amount = r.amount
  <2>1. r.kind \in {"place", "edit"} => {"currency", "amount"} \subseteq DOMAIN r
    BY DEF Knows, PlaceKnows, EditKnows
  <2> QED BY <2>1 DEF Begin
<1>5. r.kind \in {"edit", "cancel"} => n.bet = r.bet /\ n.seen = r.seen
  <2>1. r.kind \in {"edit", "cancel"} => {"bet", "seen"} \subseteq DOMAIN r
    BY DEF Knows, EditKnows, CancelKnows
  <2> QED BY <2>1 DEF Begin
<1>6. r.kind \in {"open", "lock"} => n.round = r.round
  <2>1. r.kind \in {"open", "lock"} => "round" \in DOMAIN r
    BY DEF Knows, RoundKnows
  <2> QED BY <2>1 DEF Begin
<1> QED BY <1>1, <1>2, <1>3, <1>4, <1>5, <1>6 DEF SameAsked

\* A request keeps what it was asked when only its progress changes.
LEMMA FieldsSame ==
  ASSUME NEW r, Knows(r), NEW next,
         \A f \in DOMAIN r : f \notin {"pc", "plan", "held", "read"} => next[f] = r[f]
  PROVE  SameAsked(next, r)
BY DEF SameAsked, Knows, PlaceKnows, EditKnows, CancelKnows, RoundKnows, DeclareKnows

\* A handler that only learns something writes nothing, and begins a transaction
\* only after its checks.
LEMMA LearnsFacts ==
  ASSUME RInv, NEW q, Learns(q), ~ Refuse(q)
  PROVE  /\ q \in Requests /\ InFlight(q) /\ UNCHANGED vars
         /\ \E next : /\ req' = [req EXCEPT ![q] = next] /\ SameAsked(next, req[q])
                      /\ next.pc # "answered"
                      /\ next.pc = "locking" => req[q].pc = "locking" \/ Checked(req[q])
                      /\ next.pc = "counted" => Cardinality(ActiveIn(req[q].round)) > 1
<1> DEFINE r == req[q]
<1>1. q \in Requests /\ InFlight(q)
  <2>1. r.pc \in {"read", "locking"}
    BY DEF Learns, PlaceChecks, EditChecks, CancelChecks, LockCounts, DeclareSaves,
           DeclareFetches, Acquire, Reading, Ready, Locking
  <2> QED BY <2>1, LearnsRequest, SMTT(30) DEF InFlight
<1>2. Knows(r)
  BY <1>1 DEF RInv, RequestOK
<1>3. ASSUME NEW next, Proceed(q, next), SameAsked(next, r), next.pc # "answered",
             next.pc = "locking" => r.pc = "locking" \/ Checked(r),
             next.pc = "counted" => Cardinality(ActiveIn(r.round)) > 1
      PROVE  /\ UNCHANGED vars
             /\ \E n : /\ req' = [req EXCEPT ![q] = n] /\ SameAsked(n, r)
                       /\ n.pc # "answered"
                       /\ n.pc = "locking" => r.pc = "locking" \/ Checked(r)
                       /\ n.pc = "counted" => Cardinality(ActiveIn(r.round)) > 1
  BY <1>3 DEF Proceed
<1>4. CASE PlaceChecks(q) \/ EditChecks(q) \/ CancelChecks(q)
  <2>1. PICK plan : Proceed(q, Begin(r, plan)) /\ Checked(r)
    BY <1>4 DEF PlaceChecks, EditChecks, CancelChecks, Checked, Reading
  <2>2. Begin(r, plan).pc = "locking"
    BY <1>2 DEF Begin, Knows
  <2>3. SameAsked(Begin(r, plan), r)
    BY <1>2, BeginSame
  <2> QED BY <1>1, <1>3, <2>1, <2>2, <2>3
<1>5. CASE LockCounts(q)
  <2> DEFINE next == [r EXCEPT !.pc = "counted"]
  <2>1. Proceed(q, next) /\ Cardinality(ActiveIn(r.round)) > 1
    BY <1>5 DEF LockCounts
  <2>2. next.pc = "counted" /\ \A f \in DOMAIN r : f # "pc" => next[f] = r[f]
    BY <1>2 DEF Knows
  <2> HIDE DEF next
  <2>3. SameAsked(next, r)
    BY <1>2, <2>2, FieldsSame
  <2> QED BY <1>1, <1>3, <2>1, <2>2, <2>3
<1>6. CASE DeclareSaves(q)
  <2>1. r.kind = "declare"
    BY <1>6 DEF DeclareSaves, Reading
  <2> DEFINE known == [pc |-> "read", kind |-> "declare", option |-> r.option,
                       total |-> r.total, count |-> r.count,
                       rebound |-> r.carried \ On(r.option),
                       staleTotal |-> Stale(total[r.option], r.total),
                       staleCount |-> Stale(count[r.option], r.count)]
  <2>2. PICK plan : Proceed(q, Begin(known, plan))
    BY <1>6 DEF DeclareSaves
  <2>3. {"pc", "kind", "option"} \subseteq DOMAIN known /\ known.kind = "declare"
        /\ known.option = r.option
    OBVIOUS
  <2> HIDE DEF known
  <2> DEFINE n == Begin(known, plan)
  <2>4. n.pc = "locking"
    BY <2>3 DEF Begin
  <2>5. n.kind = "declare" /\ n.option = r.option
    BY <2>3 DEF Begin
  <2> HIDE DEF n
  <2>6. SameAsked(n, r) /\ Checked(r)
    BY <2>1, <2>5 DEF SameAsked, Checked
  <2> QED BY <1>1, <1>3, <2>2, <2>4, <2>6 DEF n
<1>7. CASE DeclareFetches(q)
  <2>0. r.kind = "declare" /\ r.pc = "locking" /\ "rows" \notin DOMAIN r
    BY <1>7 DEF DeclareFetches, Ready, Locking
  <2>1. PICK plan, taken : Proceed(q, [f \in DOMAIN r \cup {"rows"} |->
                               CASE f = "plan" -> plan
                                 [] f = "rows" -> taken
                                 [] OTHER -> r[f]])
    BY <1>7 DEF DeclareFetches
  <2> DEFINE n == [f \in DOMAIN r \cup {"rows"} |->
                     CASE f = "plan" -> plan
                       [] f = "rows" -> taken
                       [] OTHER -> r[f]]
  <2>2. \A f \in DOMAIN r : f \notin {"plan", "rows"} => n[f] = r[f]
    OBVIOUS
  <2>3. {"pc", "kind"} \subseteq DOMAIN r
    BY <1>2 DEF Knows
  <2> HIDE DEF n
  <2>4. SameAsked(n, r)
    BY <1>2, <2>0, <2>2, FieldsSame
  <2>5. n.pc = "locking"
    BY <2>0, <2>2, <2>3
  <2> QED BY <1>1, <1>3, <2>0, <2>1, <2>4, <2>5 DEF n
<1>8. CASE Acquire(q)
  <2> DEFINE l == Head(r.plan)
             n == [r EXCEPT !.plan = Tail(@), !.held = @ \cup {l}, !.read = Returned(@, l)]
  <2>1. Proceed(q, n) /\ r.pc = "locking"
    BY <1>8 DEF Acquire, Locking
  <2>2. \A f \in DOMAIN r : f \notin {"plan", "held", "read"} => n[f] = r[f]
    BY <1>2 DEF Knows
  <2> HIDE DEF n, l
  <2>3. SameAsked(n, r)
    BY <1>2, <2>2, FieldsSame
  <2>4. n.pc = "locking"
    BY <1>2, <2>1, <2>2 DEF Knows
  <2> QED BY <1>1, <1>3, <2>1, <2>3, <2>4
<1> QED BY <1>1, <1>4, <1>5, <1>6, <1>7, <1>8 DEF Learns

\* The round a request is about, when it places a bet or handles the round.
Target(r) == IF r.kind \in {"open", "lock"} THEN r.round ELSE RoundOf[r.option]

\* What must not overlap on one round for its money to be accounted for: two
\* bets that are placed, and the steps of its status with those that follow.
InTurn(r, s) ==
  (/\ r.kind \in {"place", "open", "lock"} /\ s.kind \in {"place", "open", "lock", "declare"}
   /\ Target(r) = Target(s)) =>
    /\ r.kind = "place" => s.kind # "place"
    /\ r.kind = "open" => s.kind = "place"
    /\ r.kind = "lock" => s.kind \in {"place", "lock"}

RoundsInTurn == \A r, s : Overlap(r, s) => InTurn(r, s) /\ InTurn(s, r)

KeptInTurn ==
  \A p, q \in Requests : p # q /\ InFlight(p) /\ InFlight(q) => InTurn(req[p], req[q])

\* The statuses a request can meet, and what is left of a closed round that a
\* bet is still placed in.
StatusAgrees(status, rows, r) ==
  /\ r.kind = "open" => status[r.round] = "created"
  /\ r.kind = "lock" => status[r.round] \in {"open", "locked"}
  /\ r.kind = "declare" => status[RoundOf[r.option]] \in {"locked", "closed"}
  /\ r.kind = "edit" /\ r.pc = "locking" => status[RoundOf[r.option]] \in {"open", "locked"}
  /\ r.kind = "place" /\ status[RoundOf[r.option]] = "closed" =>
       ActiveRows(rows, RoundOf[r.option]) = {}

\* A row names the round of its option, one with a result is in a closed
\* round, and a closed round has at most one bet that came late.
RowsRight(status, rows) ==
  /\ \A b \in BetIds : rows[b] # NoBet => rows[b].round = RoundOf[rows[b].option]
  /\ \A b \in BetIds : rows[b].status \in {"won", "lost", "refunded"} =>
       status[rows[b].round] = "closed"
  /\ \A b, e \in BetIds :
       (/\ rows[b].status = "active" /\ rows[e].status = "active"
        /\ rows[b].round = rows[e].round /\ status[rows[b].round] = "closed") => b = e

MInv ==
  /\ RowsRight(roundStatus, bets) /\ KeptInTurn
  /\ \A q \in Requests : InFlight(q) => StatusAgrees(roundStatus, bets, req[q])
  /\ \A c \in Currencies : AccountedIn(c)

----------------------------------------------------------------------------
\* The money is accounted for while the bets and the wallets stay.
LEMMA UnchangedAccounted ==
  ASSUME bets' = bets, wallet' = wallet, NEW c, AccountedIn(c)
  PROVE  AccountedIn(c)'
<1>1. Held(c)' = Held(c)
  BY DEF Held, Stakes, StakesOf, With
<1>2. Fee(c)' = Fee(c) /\ With({"won"}, c)' = With({"won"}, c)
  BY DEF Fee, Stakes, StakesOf, With
<1>3. Opening(c)' = Opening(c)
  BY DEF Opening
<1> QED BY <1>1, <1>2, <1>3 DEF AccountedIn

\* A request is about the same round as long as it is handled.
LEMMA SameTarget ==
  ASSUME NEW next, NEW r, SameAsked(next, r), r.kind \in {"place", "open", "lock", "declare"}
  PROVE  Target(next) = Target(r)
BY DEF Target, SameAsked

\* A request that moves on, or is answered, stays in turn with the others.
LEMMA StepKeepsInTurn ==
  ASSUME RInv, KeptInTurn, NEW q \in Requests, NEW next, req' = [req EXCEPT ![q] = next],
         next.pc = "answered" \/ (InFlight(q) /\ SameAsked(next, req[q]))
  PROVE  KeptInTurn'
<1>1. /\ Requests' = Requests /\ req'[q] = next
      /\ \A p \in Requests \ {q} : req'[p] = req[p]
  BY ChangeFacts DEF RInv, Requests
<1>2. SUFFICES ASSUME NEW p \in Requests, NEW s \in Requests, p # s, InFlight(p)', InFlight(s)'
               PROVE  InTurn(req'[p], req'[s])
  BY <1>1 DEF KeptInTurn
<1>3. InFlight(p) /\ InFlight(s)
  BY <1>1, <1>2 DEF InFlight
<1>4. InTurn(req[p], req[s])
  BY <1>2, <1>3 DEF KeptInTurn
<1>5. \A x \in Requests : InFlight(x)' =>
        /\ req'[x].kind = req[x].kind
        /\ req[x].kind \in {"place", "open", "lock", "declare"} => Target(req'[x]) = Target(req[x])
  BY <1>1, SameTarget DEF InFlight, SameAsked
<1> QED BY <1>2, <1>4, <1>5 DEF InTurn

\* A handler that writes nothing.
LEMMA LearnsKeepsM ==
  ASSUME RInv, MInv, NEW q, Learns(q), ~ Refuse(q)
  PROVE  MInv'
<1>1. q \in Requests /\ InFlight(q) /\ UNCHANGED vars
  BY LearnsFacts
<1>2. PICK next : /\ req' = [req EXCEPT ![q] = next] /\ SameAsked(next, req[q])
                  /\ next.pc # "answered"
                  /\ next.pc = "locking" => req[q].pc = "locking" \/ Checked(req[q])
  BY LearnsFacts
<1>3. /\ Requests' = Requests /\ req'[q] = next
      /\ \A p \in Requests \ {q} : req'[p] = req[p]
  BY <1>1, <1>2, ChangeFacts DEF RInv, Requests
<1>4. bets' = bets /\ wallet' = wallet /\ roundStatus' = roundStatus
  BY <1>1 DEF vars
<1>5. KeptInTurn'
  BY <1>1, <1>2, StepKeepsInTurn DEF MInv
<1>6. StatusAgrees(roundStatus, bets, next)
  <2>1. StatusAgrees(roundStatus, bets, req[q])
    BY <1>1 DEF MInv
  <2> QED BY <1>2, <2>1 DEF StatusAgrees, SameAsked, Checked, BettingOn
<1>7. ASSUME NEW p \in Requests', InFlight(p)'
      PROVE  StatusAgrees(roundStatus', bets', req'[p])
  <2>1. CASE p = q
    BY <1>3, <1>4, <1>6, <2>1
  <2>2. CASE p # q
    BY <1>3, <1>4, <1>7, <2>2 DEF MInv, InFlight
  <2> QED BY <2>1, <2>2
<1>8. \A c \in Currencies : AccountedIn(c)'
  BY <1>4, UnchangedAccounted DEF MInv
<1>9. RowsRight(roundStatus, bets)'
  BY <1>4 DEF MInv, RowsRight
<1> QED BY <1>5, <1>7, <1>8, <1>9 DEF MInv

\* A request that is answered, whatever it wrote.
LEMMA AnswerKeepsM ==
  ASSUME RInv, MInv, NEW q \in Requests, Answer(q),
         RowsRight(roundStatus', bets'), \A c \in Currencies : AccountedIn(c)',
         \A p \in Requests \ {q} : InFlight(p) => StatusAgrees(roundStatus', bets', req[p])
  PROVE  MInv'
<1>1. req' = [req EXCEPT ![q] = [pc |-> "answered"]]
  BY DEF Answer
<1>2. /\ Requests' = Requests /\ req'[q].pc = "answered"
      /\ \A p \in Requests \ {q} : req'[p] = req[p]
  BY <1>1, ChangeFacts DEF RInv, Requests
<1>3. KeptInTurn'
  <2> DEFINE next == [pc |-> "answered"]
  <2>1. next.pc = "answered" /\ req' = [req EXCEPT ![q] = next]
    BY <1>1
  <2> HIDE DEF next
  <2> QED BY <2>1, StepKeepsInTurn DEF MInv
<1>4. ASSUME NEW p \in Requests', InFlight(p)'
      PROVE  StatusAgrees(roundStatus', bets', req'[p])
  <2>1. p # q /\ p \in Requests /\ req'[p] = req[p] /\ InFlight(p)
    BY <1>2, <1>4 DEF InFlight
  <2> QED BY <2>1
<1>5. RowsRight(roundStatus, bets)'
  BY DEF RowsRight
<1> QED BY <1>3, <1>4, <1>5 DEF MInv

\* A request is refused.
LEMMA RefuseKeepsM ==
  ASSUME RInv, MInv, NEW q \in Requests, Refuse(q)
  PROVE  MInv'
<1>1. bets' = bets /\ wallet' = wallet /\ roundStatus' = roundStatus /\ Answer(q)
  BY DEF Refuse, vars
<1>2. \A c \in Currencies : AccountedIn(c)'
  BY <1>1, UnchangedAccounted DEF MInv
<1> QED BY <1>1, <1>2, AnswerKeepsM DEF MInv

\* A request arrives.
LEMMA ArriveKeepsM ==
  ASSUME RoundsInTurn, RInv, MInv, NEW next, Arrive(next), next.pc = "read",
         StatusAgrees(roundStatus, bets, next)
  PROVE  MInv'
<1>1. UNCHANGED vars /\ IsSeq(req)
  BY DEF Arrive, RInv
<1> DEFINE n == Len(req) + 1
<1>2. /\ Requests' = 1 .. n /\ req'[n] = next /\ Len(req) \in Nat /\ Requests = 1 .. Len(req)
      /\ \A p \in Requests : req'[p] = req[p]
  BY <1>1, SeqFacts, AppendFacts DEF Arrive, Requests
<1>3. \A p \in Requests' : p = n \/ p \in Requests
  BY <1>2
<1>4. \A p \in Requests : InFlight(p)' <=> InFlight(p)
  BY <1>2 DEF InFlight
<1>5. KeptInTurn'
  <2>1. \A p \in Requests : InFlight(p) => InTurn(next, req[p]) /\ InTurn(req[p], next)
    BY DEF Arrive, RoundsInTurn
  <2>2. \A p, q \in Requests : p # q /\ InFlight(p) /\ InFlight(q) => InTurn(req[p], req[q])
    BY DEF MInv, KeptInTurn
  <2> HIDE DEF n
  <2> SUFFICES ASSUME NEW p \in Requests', NEW q \in Requests', p # q, InFlight(p)', InFlight(q)'
               PROVE  InTurn(req'[p], req'[q])
    BY DEF KeptInTurn
  <2> QED BY <1>2, <1>3, <1>4, <2>1, <2>2
<1>6. bets' = bets /\ wallet' = wallet /\ roundStatus' = roundStatus
  BY <1>1 DEF vars
<1>7. ASSUME NEW p \in Requests', InFlight(p)'
      PROVE  StatusAgrees(roundStatus', bets', req'[p])
  <2> HIDE DEF n
  <2>1. CASE p = n
    BY <1>2, <1>6, <2>1
  <2>2. CASE p \in Requests
    BY <1>2, <1>4, <1>6, <1>7, <2>2 DEF MInv
  <2> QED BY <1>3, <2>1, <2>2
<1>8. \A c \in Currencies : AccountedIn(c)'
  BY <1>6, UnchangedAccounted DEF MInv
<1>9. RowsRight(roundStatus, bets)'
  BY <1>6 DEF MInv, RowsRight
<1> QED BY <1>5, <1>7, <1>8, <1>9 DEF MInv

\* The status of a round is saved: it was not closed and is not.
LEMMA StatusSavedKeepsM ==
  ASSUME RInv, MInv, NEW q, StatusSaved(q)
  PROVE  MInv'
<1> DEFINE r == req[q]
           x == r.round
<1>1. /\ q \in Requests /\ Answer(q) /\ InFlight(q) /\ bets' = bets /\ wallet' = wallet
      /\ \/ r.kind = "open" /\ roundStatus' = [roundStatus EXCEPT ![x] = "open"]
         \/ r.kind = "lock" /\ roundStatus' = [roundStatus EXCEPT ![x] = "locked"]
  <2>1. q \in Requests /\ InFlight(q)
    BY DEF StatusSaved, Reading, InFlight
  <2>2. r.pc = "counted" => r.kind = "lock"
    BY <2>1 DEF RInv, RequestOK, Knows
  <2> QED BY <2>1, <2>2 DEF StatusSaved, Reading
<1>2. /\ TypeOK /\ x \in Rounds /\ StatusAgrees(roundStatus, bets, r)
  BY <1>1 DEF RInv, RequestOK, Knows, RoundKnows, MInv
<1>3. /\ roundStatus[x] # "closed" /\ roundStatus'[x] \in {"open", "locked"}
      /\ r.kind = "lock" => roundStatus'[x] = "locked"
      /\ \A y \in Rounds \ {x} : roundStatus'[y] = roundStatus[y]
  BY <1>1, <1>2 DEF TypeOK, StatusAgrees
<1>4. RowsRight(roundStatus', bets')
  <2>1. \A b \in BetIds : bets[b].status # "none" => bets[b].round \in Rounds
    BY <1>2, RowColumns, BetFacts
  <2>2. RowsRight(roundStatus, bets) /\ NoBet.status = "none"
    BY DEF MInv, NoBet
  <2> HIDE DEF x
  <2> QED BY <1>1, <1>3, <2>1, <2>2 DEF RowsRight
<1>5. \A c \in Currencies : AccountedIn(c)'
  BY <1>1, UnchangedAccounted DEF MInv
<1>6. ASSUME NEW p \in Requests \ {q}, InFlight(p)
      PROVE  StatusAgrees(roundStatus', bets', req[p])
  <2>1. Knows(req[p]) /\ StatusAgrees(roundStatus, bets, req[p])
    BY <1>6 DEF RInv, RequestOK, MInv
  <2>2. InTurn(req[p], r) /\ InTurn(r, req[p])
    BY <1>1, <1>6 DEF MInv, KeptInTurn
  <2>3. ASSUME req[p].kind \in {"open", "lock"}
        PROVE  /\ req[p].round \in Rounds
               /\ req[p].round = x => req[p].kind = "lock" /\ r.kind = "lock"
    <3>1. req[p].round \in Rounds
      BY <2>1, <2>3 DEF Knows, RoundKnows
    <3>2. req[p].round = x => Target(req[p]) = Target(r)
      BY <1>1, <2>3 DEF Target
    <3> QED BY <1>1, <2>2, <2>3, <3>1, <3>2 DEF InTurn
  <2>4. ASSUME req[p].kind \in {"place", "edit", "declare"}
        PROVE  /\ RoundOf[req[p].option] \in Rounds
               /\ req[p].kind = "declare" => RoundOf[req[p].option] # x
    <3>1. RoundOf[req[p].option] \in Rounds
      BY <2>1, <2>4, RoundOfAssumption DEF Knows, PlaceKnows, EditKnows, DeclareKnows
    <3>2. req[p].kind = "declare" /\ RoundOf[req[p].option] = x => Target(req[p]) = Target(r)
      BY <1>1 DEF Target
    <3> QED BY <1>1, <2>2, <3>1, <3>2 DEF InTurn
  <2> HIDE DEF x
  <2> QED BY <1>1, <1>3, <2>1, <2>3, <2>4 DEF StatusAgrees
<1> QED BY <1>1, <1>4, <1>5, <1>6, AnswerKeepsM

\* What a bet that is placed, edited or cancelled leaves: the other rows, and
\* the statuses.
LEMMA OneRowKeepsM ==
  ASSUME RInv, RInv', MInv, NEW q \in Requests, InFlight(q), Answer(q),
         roundStatus' = roundStatus, NEW b \in BetIds,
         \A e \in BetIds \ {b} : bets'[e] = bets[e],
         \A c \in Currencies : Held(c)' = Held(c),
         bets[b].status \in {"none", "active"}, bets'[b].status \in {"active", "cancelled"},
         bets'[b].round = RoundOf[bets'[b].option],
         bets'[b].status = "active" =>
           /\ roundStatus[bets'[b].round] = "closed" => ActiveIn(bets'[b].round) = {}
           /\ \A p \in Requests \ {q} : InFlight(p) /\ req[p].kind = "place" =>
                \/ RoundOf[req[p].option] # bets'[b].round
                \/ roundStatus[bets'[b].round] # "closed"
  PROVE  MInv'
<1>1. TypeOK /\ TypeOK' /\ RowsRight(roundStatus, bets)
  BY DEF RInv, MInv
<1>2. RowsRight(roundStatus', bets')
  BY <1>1 DEF RowsRight, ActiveIn, ActiveRows
<1>3. ASSUME NEW c \in Currencies PROVE AccountedIn(c)'
  <2>1. Undecided(bets[b], c) /\ Undecided(bets'[b], c)
    BY DEF Undecided
  <2>2. \A e \in BetIds : \/ bets'[e] = bets[e]
                          \/ Undecided(bets[e], c) /\ Undecided(bets'[e], c)
    BY <2>1
  <2> QED BY <1>1, <2>2, UndecidedAccounted DEF MInv
<1>4. ASSUME NEW p \in Requests \ {q}, InFlight(p)
      PROVE  StatusAgrees(roundStatus', bets', req[p])
  <2>1. StatusAgrees(roundStatus, bets, req[p])
    BY <1>4 DEF MInv
  <2>2. ASSUME req[p].kind = "place", roundStatus[RoundOf[req[p].option]] = "closed"
        PROVE  ActiveRows(bets', RoundOf[req[p].option]) = {}
    <3>1. ActiveRows(bets, RoundOf[req[p].option]) = {}
      BY <2>1, <2>2 DEF StatusAgrees
    <3>2. bets'[b].status = "active" => bets'[b].round # RoundOf[req[p].option]
      BY <1>4, <2>2
    <3> QED BY <3>1, <3>2 DEF ActiveRows
  <2> QED BY <2>1, <2>2 DEF StatusAgrees
<1> QED BY <1>2, <1>3, <1>4, AnswerKeepsM

\* A bet is placed: its stake moves from the wallet, and its round is not closed or
\* has no other active bet.
LEMMA PlaceCommitsKeepsM ==
  ASSUME RInv, RInv', MInv, NEW q, PlaceCommits(q)
  PROVE  MInv'
<1> DEFINE r == req[q]
           o == r.option
<1>1. /\ q \in Requests /\ Locking(q) /\ r.pc = "locking" /\ r.kind = "place"
      /\ Answer(q) /\ InFlight(q)
  BY DEF PlaceCommits, Ready, Locking, InFlight
<1>2. /\ TypeOK /\ TypeOK' /\ r.user \in Users /\ o \in Options
      /\ r.currency \in Currencies /\ r.amount \in Amounts
  BY <1>1 DEF RInv, RequestOK, Knows, PlaceKnows
<1>3. PICK b \in BetIds : Placing(wallet, total, count, r.user, o, r.currency, r.amount, b)
  BY <1>1, AsReadIsCurrent DEF PlaceCommits
<1>4. \A c \in Currencies : Held(c)' = Held(c)
  BY <1>2, <1>3, PlacingHeld
<1>5. /\ roundStatus' = roundStatus /\ bets[b] = NoBet
      /\ bets'[b] = NewBet(r.user, o, r.currency, r.amount)
      /\ \A e \in BetIds \ {b} : bets'[e] = bets[e]
  BY <1>2, <1>3 DEF Placing, TypeOK
<1>6. /\ bets[b].status = "none" /\ bets'[b].status = "active"
      /\ bets'[b].option = o /\ bets'[b].round = RoundOf[o]
  BY <1>5 DEF NewBet, NoBet
<1>7. roundStatus[RoundOf[o]] = "closed" => ActiveIn(RoundOf[o]) = {}
  BY <1>1 DEF MInv, StatusAgrees, ActiveIn
<1>8. ASSUME NEW p \in Requests \ {q}, InFlight(p), req[p].kind = "place"
      PROVE  RoundOf[req[p].option] # RoundOf[o]
  <2>1. InTurn(r, req[p])
    BY <1>1, <1>8 DEF MInv, KeptInTurn
  <2> QED BY <1>1, <1>8, <2>1 DEF InTurn, Target
<1> HIDE DEF o
<1> QED BY <1>1, <1>4, <1>5, <1>6, <1>7, <1>8, OneRowKeepsM

\* A bet is edited, and moves to a round that is not closed.
LEMMA EditCommitsKeepsM ==
  ASSUME RInv, RInv', EInv, MInv, NEW q, EditCommits(q)
  PROVE  MInv'
<1> DEFINE r == req[q]
           b == r.bet
           o == r.option
<1>1. /\ q \in Requests /\ InFlight(q) /\ Answer(q) /\ r.pc = "locking" /\ r.kind = "edit"
      /\ b \in BetIds /\ Active(b) /\ bets[b] \in Bet /\ o \in Options
      /\ r.currency \in Currencies /\ r.amount \in Amounts
      /\ Editing(wallet, total, count, bets[b], b, o, r.currency, r.amount)
  BY EditWrites
<1>2. TypeOK /\ TypeOK'
  BY DEF RInv
<1>5. \A c \in Currencies : Held(c)' = Held(c)
  BY <1>1, <1>2, EditingHeld, SMTT(30)
<1>6. /\ roundStatus' = roundStatus
      /\ bets' = [bets EXCEPT ![b] = [bets[b] EXCEPT !.option = o, !.round = RoundOf[o],
                                            !.currency = r.currency, !.amount = r.amount]]
  BY <1>1 DEF Editing
<1> HIDE DEF b, o
<1>7. /\ \A e \in BetIds \ {b} : bets'[e] = bets[e]
      /\ bets[b].status = "active" /\ bets'[b].status = "active"
      /\ bets'[b].option = o /\ bets'[b].round = RoundOf[o]
  BY <1>1, <1>2, <1>6 DEF TypeOK, Bet, Active
<1>8. roundStatus[RoundOf[o]] # "closed"
  BY <1>1 DEF MInv, StatusAgrees, o
<1> QED BY <1>1, <1>5, <1>6, <1>7, <1>8, OneRowKeepsM

\* A bet is cancelled: its stake moves to the wallet.
LEMMA CancelCommitsKeepsM ==
  ASSUME RInv, RInv', EInv, MInv, NEW q, CancelCommits(q)
  PROVE  MInv'
<1> DEFINE r == req[q]
           b == r.bet
<1>1. /\ q \in Requests /\ InFlight(q) /\ Answer(q) /\ r.kind = "cancel"
      /\ b \in BetIds /\ Active(b) /\ bets[b] \in Bet
      /\ Cancelling(wallet, total, count, bets[b], b)
  BY CancelWrites
<1>2. TypeOK /\ TypeOK'
  BY DEF RInv
<1>5. \A c \in Currencies : Held(c)' = Held(c)
  BY <1>1, <1>2, CancellingHeld, SMTT(30)
<1>6. /\ roundStatus' = roundStatus
      /\ bets' = [bets EXCEPT ![b] = [bets[b] EXCEPT !.status = "cancelled"]]
  BY <1>1 DEF Cancelling
<1> HIDE DEF b
<1>7. /\ \A e \in BetIds \ {b} : bets'[e] = bets[e]
      /\ bets[b].status = "active" /\ bets'[b].status = "cancelled"
      /\ bets'[b].option = bets[b].option /\ bets'[b].round = bets[b].round
  BY <1>1, <1>2, <1>6 DEF TypeOK, Bet, Active
<1>8. bets[b].round = RoundOf[bets[b].option]
  BY <1>1, <1>7 DEF MInv, RowsRight, NoBet
<1> QED BY <1>1, <1>5, <1>6, <1>7, <1>8, OneRowKeepsM

\* A settlement: the round was locked, or it was closed and one bet is left.
LEMMA DeclareCommitsKeepsM ==
  ASSUME RInv, RInv', EInv, MInv, NEW q, DeclareCommits(q)
  PROVE  MInv'
<1> DEFINE r == req[q]
           o == r.option
           R == RoundOf[o]
<1>1. /\ q \in Requests /\ Locking(q) /\ r.pc = "locking" /\ r.kind = "declare"
      /\ Answer(q) /\ InFlight(q)
  BY DEF DeclareCommits, Ready, Locking, InFlight
<1>2. /\ TypeOK /\ TypeOK' /\ PoolsMatchBets /\ RowsRight(roundStatus, bets)
      /\ roundStatus[R] \in {"locked", "closed"}
  BY <1>1 DEF RInv, EInv, MInv, StatusAgrees
<1>3. o \in Options /\ R \in Rounds /\ Settling(wallet, o, bets, total, bets)
  BY DeclareCommitsWrites, RoundOfAssumption
<1>4. PICK short : Declared(o, short)
  BY <1>3 DEF Settling, Declared, ActiveIn
<1>5. roundStatus' = [roundStatus EXCEPT ![R] = "closed"]
  BY <1>3 DEF Settling
<1>6. /\ \A b \in BetIds \ ActiveIn(R) : bets'[b] = bets[b]
      /\ \A b \in ActiveIn(R) :
           /\ b \in BetIds /\ bets[b] # NoBet /\ bets[b].round = R
           /\ bets'[b].round = R /\ bets'[b].option = bets[b].option
           /\ bets'[b].status \in {"won", "lost", "refunded"}
  <2>1. bets' = [b \in BetIds |-> IF b \in ActiveIn(R)
                                    THEN SettledBet(bets, total, b, o, short) ELSE bets[b]]
    BY <1>4 DEF Declared
  <2>2. \A b \in ActiveIn(R) : b \in BetIds /\ bets[b] # NoBet /\ bets[b].round = R
    BY DEF ActiveIn, ActiveRows, NoBet
  <2>3. \A b \in ActiveIn(R) :
          /\ SettledBet(bets, total, b, o, short).option = bets[b].option
          /\ SettledBet(bets, total, b, o, short).round = R
          /\ SettledBet(bets, total, b, o, short).status \in {"won", "lost", "refunded"}
    BY <1>2, <1>3, SettledPlace
  <2> HIDE DEF R, o
  <2> QED BY <2>1, <2>2, <2>3
<1>7. \A y \in Rounds \ {R} : roundStatus'[y] = roundStatus[y]
  BY <1>2, <1>5 DEF TypeOK
<1>8. roundStatus'[R] = "closed"
  BY <1>2, <1>3, <1>5 DEF TypeOK
<1>9. \A b \in BetIds : bets[b].status # "none" =>
        bets[b].round \in Rounds /\ bets[b].status \in BetStatus /\ bets[b].option \in Options
          /\ bets[b].round = RoundOf[bets[b].option]
  BY <1>2, RowColumns, BetFacts DEF RowsRight, NoBet
<1>10. /\ RowsRight(roundStatus', bets')
       /\ \A x : ActiveRows(bets', x) = IF x = R THEN {} ELSE ActiveRows(bets, x)
  <2> HIDE DEF R, o
  <2>1. \A x : ActiveRows(bets', x) = IF x = R THEN {} ELSE ActiveRows(bets, x)
    BY <1>6 DEF ActiveIn, ActiveRows
  <2>2. \A b \in BetIds : bets'[b] # NoBet => bets'[b].round = RoundOf[bets'[b].option]
    BY <1>2, <1>6 DEF RowsRight
  <2>3. \A b \in BetIds : bets'[b].status \in {"won", "lost", "refunded"} =>
          roundStatus'[bets'[b].round] = "closed"
    BY <1>2, <1>6, <1>7, <1>8, <1>9 DEF RowsRight
  <2>4. \A b, e \in BetIds :
          (/\ bets'[b].status = "active" /\ bets'[e].status = "active"
           /\ bets'[b].round = bets'[e].round /\ roundStatus'[bets'[b].round] = "closed") => b = e
    <3> SUFFICES ASSUME NEW b \in BetIds, NEW e \in BetIds, bets'[b].status = "active",
                        bets'[e].status = "active", bets'[b].round = bets'[e].round,
                        roundStatus'[bets'[b].round] = "closed"
                 PROVE  b = e
      OBVIOUS
    <3>1. bets'[b] = bets[b] /\ bets'[e] = bets[e]
      BY <1>6
    <3>2. bets[b].round # R
      BY <3>1, <1>6 DEF ActiveIn, ActiveRows
    <3>3. roundStatus[bets[b].round] = "closed"
      BY <3>1, <3>2, <1>7, <1>9
    <3> QED BY <1>2, <3>1, <3>3 DEF RowsRight
  <2> QED BY <2>1, <2>2, <2>3, <2>4 DEF RowsRight
<1>11. ASSUME NEW c \in Currencies PROVE AccountedIn(c)'
  <2>1. AccountedIn(c)
    BY DEF MInv
  <2>2. CASE ~ Contested(bets, o, c)
    BY <1>2, <1>3, <1>4, <2>1, <2>2, RefundAccounted
  <2>3. CASE Contested(bets, o, c)
    <3>1. roundStatus[R] # "closed"
      <4>1. PICK b \in Side(bets, o, c, {o}), e \in Side(bets, o, c, Options \ {o}) : TRUE
        BY <2>3 DEF Contested
      <4>2. b \in ActiveRows(bets, R) /\ e \in ActiveRows(bets, R) /\ b # e
        BY <4>1 DEF Side
      <4> QED BY <1>2, <4>2 DEF RowsRight, ActiveRows
    <3>2. Counted(o, c) = Side(bets, o, c, {o})
      <4>1. ASSUME NEW b \in Counted(o, c) PROVE b \in Side(bets, o, c, {o})
        <5>1. /\ b \in BetIds /\ bets[b].status \notin {"none", "cancelled"}
              /\ bets[b].option = o /\ bets[b].currency = c
          BY DEF Counted
        <5>2. bets[b].status \in BetStatus /\ bets[b].round = R
          BY <1>9, <5>1
        <5>3. bets[b].status = "active"
          BY <1>2, <3>1, <5>1, <5>2 DEF RowsRight, BetStatus
        <5> QED BY <5>1, <5>2, <5>3 DEF Side, ActiveRows
      <4>2. ASSUME NEW b \in Side(bets, o, c, {o}) PROVE b \in Counted(o, c)
        BY DEF Side, ActiveRows, Counted
      <4> QED BY <4>1, <4>2
    <3> QED BY <1>2, <1>3, <1>4, <2>1, <2>3, <3>2, PotAccounted
  <2> QED BY <2>2, <2>3
<1>12. ASSUME NEW p \in Requests \ {q}, InFlight(p)
       PROVE  StatusAgrees(roundStatus', bets', req[p])
  <2>1. Knows(req[p]) /\ StatusAgrees(roundStatus, bets, req[p])
    BY <1>12 DEF RInv, RequestOK, MInv
  <2>2. InTurn(req[p], r) /\ Apart(req[p], r)
    BY <1>1, <1>12 DEF MInv, KeptInTurn, EInv, KeptApart
  <2>3. req[p].kind # "edit"
    BY <1>1, <2>2 DEF Apart, Changing
  <2>4. ASSUME req[p].kind \in {"open", "lock"}
        PROVE  req[p].round \in Rounds /\ req[p].round # R
    <3>1. req[p].round \in Rounds
      BY <2>1, <2>4 DEF Knows, RoundKnows
    <3>2. req[p].round = R => Target(req[p]) = Target(r)
      BY <1>1, <2>4 DEF Target
    <3> QED BY <1>1, <2>2, <2>4, <3>1, <3>2 DEF InTurn
  <2>5. ASSUME req[p].kind \in {"place", "declare"}
        PROVE  RoundOf[req[p].option] \in Rounds
    BY <2>1, <2>5, RoundOfAssumption DEF Knows, PlaceKnows, DeclareKnows
  <2> HIDE DEF R
  <2> QED BY <1>7, <1>8, <1>10, <2>1, <2>3, <2>4, <2>5 DEF StatusAgrees
<1> HIDE DEF R, o
<1> QED BY <1>1, <1>10, <1>11, <1>12, AnswerKeepsM

\* A request arrives whose round has the status it needs.
LEMMA ArrivalKeepsM ==
  ASSUME RoundsInTurn, RInv, MInv, Arrival
  PROVE  MInv'
<1>1. PICK next : Arrive(next) /\ JustRead(next)
  BY ArrivalFacts DEF RInv
<1>2. next.pc = "read" /\ StatusAgrees(roundStatus, bets, next)
  BY <1>1 DEF JustRead, StatusAgrees, BettingOn
<1> QED BY <1>1, <1>2, ArriveKeepsM

\* Every handler keeps the money accounted for.
LEMMA HandleKeepsM ==
  ASSUME RInv, RInv', EInv, MInv, NEW q, Handle(q) \/ Fail(q)
  PROVE  MInv'
<1>1. CASE Learns(q) /\ ~ Refuse(q)
  BY <1>1, LearnsKeepsM
<1>2. CASE PlaceCommits(q) \/ EditCommits(q) \/ CancelCommits(q)
  BY <1>2, PlaceCommitsKeepsM, EditCommitsKeepsM, CancelCommitsKeepsM
<1>3. CASE StatusSaved(q) \/ DeclareCommits(q)
  BY <1>3, StatusSavedKeepsM, DeclareCommitsKeepsM
<1>4. CASE Learns(q) /\ Refuse(q)
  BY <1>4, LearnsRequest, RefuseKeepsM
<1>5. CASE DeadlockVictim(q) \/ Fail(q) \/ (Unpayable(q) /\ Refuse(q))
  BY <1>5, GivenUp, RefuseKeepsM
<1> QED BY <1>1, <1>2, <1>3, <1>4, <1>5 DEF Handle, Learns

\* At the start the wallets hold all the coins.
LEMMA RequestsInitMInv == RequestsInit => MInv
<1> SUFFICES ASSUME RequestsInit PROVE MInv
  OBVIOUS
<1>1. Init /\ DOMAIN req = {}
  BY DEF RequestsInit
<1>2. \A c \in Currencies : AccountedIn(c)
  BY <1>1, InitAccounted
<1>3. RowsRight(roundStatus, bets)
  BY <1>1 DEF RowsRight, Init, NoBet
<1> QED BY <1>1, <1>2, <1>3 DEF MInv, KeptInTurn, Requests

\* Every step keeps it, when the requests about one round come in turn.
LEMMA RequestsNextMInv ==
  ASSUME RoundsInTurn, RInv, RInv', EInv, MInv, [RequestsNext]_allVars
  PROVE  MInv'
<1>1. CASE Arrival
  BY <1>1, ArrivalKeepsM
<1>2. CASE \E q \in 1 .. MaxRequests : Handle(q) \/ Fail(q)
  BY <1>2, HandleKeepsM
<1>3. CASE UNCHANGED allVars
  <2>1. bets' = bets /\ wallet' = wallet /\ roundStatus' = roundStatus /\ req' = req
    BY <1>3 DEF allVars, vars
  <2>2. \A c \in Currencies : AccountedIn(c)'
    BY <2>1, UnchangedAccounted DEF MInv
  <2>3. RowsRight(roundStatus, bets)' /\ KeptInTurn'
    BY <2>1 DEF MInv, RowsRight, KeptInTurn, Requests, InFlight
  <2>4. \A p \in Requests' : InFlight(p)' => StatusAgrees(roundStatus', bets', req'[p])
    BY <2>1 DEF MInv, Requests, InFlight
  <2> QED BY <2>2, <2>3, <2>4 DEF MInv
<1> QED BY <1>1, <1>2, <1>3 DEF RequestsNext

\* The columns add up and no coin is created or lost.
THEOREM BooksStayKept ==
  ASSUME EditsKeepApart, RoundsInTurn
  PROVE  RequestsSpec => []BooksAreKept
<1>1. RInv /\ RInv' /\ EInv /\ MInv /\ [RequestsNext]_allVars => MInv'
  BY RequestsNextMInv
<1>2. EInv /\ MInv => BooksAreKept
  BY DEF EInv, MInv, AccountedIn, MoneyAccounted, BooksAreKept
<1> QED BY <1>1, <1>2, RequestsInitMInv, EditsInvariance, PTL DEF RequestsSpec

----------------------------------------------------------------------------
(***************************************************************************)
(* The refinement of BetBook.  UInv holds when each user makes one request *)
(* at a time and the administrator handles rounds in which nobody bets     *)
(* meanwhile: all a request has checked is still so when it commits.       *)
(***************************************************************************)
\* Users bet at the same time, each one request after the other, and the
\* administrator handles rounds that nobody bets in.
OneByOne(r, s) ==
  /\ (r.kind \in {"place", "edit", "cancel"} /\ s.kind \in {"place", "edit", "cancel"}) =>
       r.user # s.user
  /\ r.kind \in {"open", "lock", "declare"} =>
       s.kind \notin {"edit", "cancel"} /\ Target(r) # Target(s)

HandledOneByOne == \A r, s : Overlap(r, s) => OneByOne(r, s) /\ OneByOne(s, r)

KeptOneByOne ==
  \A p, q \in Requests : p # q /\ InFlight(p) /\ InFlight(q) => OneByOne(req[p], req[q])

\* What a request has checked is still so.
StillChecked(status, rows, ended, r) ==
  /\ r.kind = "open" => status[r.round] = "created"
  /\ r.kind = "lock" =>
       /\ status[r.round] = "open"
       /\ r.pc = "counted" => Cardinality(ActiveRows(rows, r.round)) > 1
  /\ r.kind = "declare" => status[RoundOf[r.option]] = "locked"
  /\ r.kind = "place" =>
       /\ status[RoundOf[r.option]] = "open" /\ ~ ended
       /\ r.pc = "locking" =>
            \A b \in ActiveRows(rows, RoundOf[r.option]) : rows[b].user # r.user
  /\ r.kind = "edit" /\ r.pc = "locking" => status[RoundOf[r.option]] = "open" /\ ~ ended
  /\ r.kind = "cancel" /\ r.pc = "locking" => status[r.seen.round] = "open"

UInv ==
  /\ KeptOneByOne
  /\ \A q \in Requests : InFlight(q) =>
       StillChecked(roundStatus, bets, streamEnded, req[q])

----------------------------------------------------------------------------
\* A request that moves on, or is answered, stays apart from the others.
LEMMA StepKeepsOneByOne ==
  ASSUME RInv, KeptOneByOne, NEW q \in Requests, NEW next, req' = [req EXCEPT ![q] = next],
         next.pc = "answered" \/ (InFlight(q) /\ SameAsked(next, req[q]))
  PROVE  KeptOneByOne'
<1>1. /\ Requests' = Requests /\ req'[q] = next
      /\ \A p \in Requests \ {q} : req'[p] = req[p]
  BY ChangeFacts DEF RInv, Requests
<1>2. SUFFICES ASSUME NEW p \in Requests, NEW s \in Requests, p # s, InFlight(p)', InFlight(s)'
               PROVE  OneByOne(req'[p], req'[s])
  BY <1>1 DEF KeptOneByOne
<1>3. InFlight(p) /\ InFlight(s)
  BY <1>1, <1>2 DEF InFlight
<1>4. OneByOne(req[p], req[s]) /\ Knows(req[p]) /\ Knows(req[s])
  BY <1>2, <1>3 DEF KeptOneByOne, RInv, RequestOK
<1>5. \A x \in Requests : InFlight(x)' =>
        /\ req'[x].kind = req[x].kind
        /\ req[x].kind \in {"place", "edit", "cancel"} => req'[x].user = req[x].user
        /\ req[x].kind \in {"place", "open", "lock", "declare"} => Target(req'[x]) = Target(req[x])
  BY <1>1, SameTarget DEF InFlight, SameAsked
<1> QED BY <1>2, <1>4, <1>5 DEF OneByOne, Knows

\* A handler that only learns something: what it has checked is so.
LEMMA LearnsKeepsU ==
  ASSUME RInv, UInv, NEW q, Learns(q), ~ Refuse(q)
  PROVE  UInv' /\ UNCHANGED vars
<1>1. q \in Requests /\ InFlight(q) /\ UNCHANGED vars
  BY LearnsFacts
<1>2. PICK next : /\ req' = [req EXCEPT ![q] = next] /\ SameAsked(next, req[q])
                  /\ next.pc # "answered"
                  /\ next.pc = "locking" => req[q].pc = "locking" \/ Checked(req[q])
                  /\ next.pc = "counted" => Cardinality(ActiveIn(req[q].round)) > 1
  BY LearnsFacts
<1>3. /\ Requests' = Requests /\ req'[q] = next
      /\ \A p \in Requests \ {q} : req'[p] = req[p]
  BY <1>1, <1>2, ChangeFacts DEF RInv, Requests
<1>4. bets' = bets /\ streamEnded' = streamEnded /\ roundStatus' = roundStatus
  BY <1>1 DEF vars
<1>5. KeptOneByOne'
  BY <1>1, <1>2, StepKeepsOneByOne DEF UInv
<1>6. StillChecked(roundStatus, bets, streamEnded, next)
  <2>1. StillChecked(roundStatus, bets, streamEnded, req[q])
    BY <1>1 DEF UInv
  <2> QED BY <1>2, <2>1 DEF StillChecked, SameAsked, Checked, BettingOn, ActiveIn
<1>7. ASSUME NEW p \in Requests', InFlight(p)'
      PROVE  StillChecked(roundStatus', bets', streamEnded', req'[p])
  <2>1. CASE p = q
    BY <1>3, <1>4, <1>6, <2>1
  <2>2. CASE p # q
    BY <1>3, <1>4, <1>7, <2>2 DEF UInv, InFlight
  <2> QED BY <2>1, <2>2
<1> QED BY <1>1, <1>5, <1>7 DEF UInv

\* A request is answered, and what the others have checked is still so.
LEMMA AnswerKeepsU ==
  ASSUME RInv, UInv, NEW q \in Requests, Answer(q),
         \A p \in Requests \ {q} : InFlight(p) =>
           StillChecked(roundStatus', bets', streamEnded', req[p])
  PROVE  UInv'
<1>1. req' = [req EXCEPT ![q] = [pc |-> "answered"]]
  BY DEF Answer
<1>2. /\ Requests' = Requests /\ req'[q].pc = "answered"
      /\ \A p \in Requests \ {q} : req'[p] = req[p]
  BY <1>1, ChangeFacts DEF RInv, Requests
<1>3. KeptOneByOne'
  <2> DEFINE next == [pc |-> "answered"]
  <2>1. next.pc = "answered" /\ req' = [req EXCEPT ![q] = next]
    BY <1>1
  <2> HIDE DEF next
  <2> QED BY <2>1, StepKeepsOneByOne DEF UInv
<1>4. ASSUME NEW p \in Requests', InFlight(p)'
      PROVE  StillChecked(roundStatus', bets', streamEnded', req'[p])
  <2>1. p # q /\ p \in Requests /\ req'[p] = req[p] /\ InFlight(p)
    BY <1>2, <1>4 DEF InFlight
  <2> QED BY <2>1
<1> QED BY <1>3, <1>4 DEF UInv

\* A request is refused.
LEMMA RefuseKeepsU ==
  ASSUME RInv, UInv, NEW q \in Requests, Refuse(q)
  PROVE  UInv' /\ UNCHANGED vars
<1>1. bets' = bets /\ streamEnded' = streamEnded /\ roundStatus' = roundStatus
      /\ UNCHANGED vars /\ Answer(q)
  BY DEF Refuse, vars
<1> QED BY <1>1, AnswerKeepsU DEF UInv

\* A request arrives with what it has just checked.
LEMMA ArrivalKeepsU ==
  ASSUME HandledOneByOne, RInv, UInv, Arrival
  PROVE  UInv' /\ UNCHANGED vars
<1>0. PICK next : Arrive(next) /\ JustRead(next)
  BY ArrivalFacts DEF RInv
<1>1. UNCHANGED vars /\ IsSeq(req)
  BY <1>0 DEF Arrive, RInv
<1> DEFINE n == Len(req) + 1
<1>2. /\ Requests' = 1 .. n /\ req'[n] = next /\ Len(req) \in Nat /\ Requests = 1 .. Len(req)
      /\ \A p \in Requests : req'[p] = req[p]
  BY <1>0, <1>1, SeqFacts, AppendFacts DEF Arrive, Requests
<1>3. \A p \in Requests' : p = n \/ p \in Requests
  BY <1>2
<1>4. \A p \in Requests : InFlight(p)' <=> InFlight(p)
  BY <1>2 DEF InFlight
<1>5. KeptOneByOne'
  <2>1. \A p \in Requests : InFlight(p) => OneByOne(next, req[p]) /\ OneByOne(req[p], next)
    BY <1>0 DEF Arrive, HandledOneByOne
  <2>2. \A p, q \in Requests : p # q /\ InFlight(p) /\ InFlight(q) => OneByOne(req[p], req[q])
    BY DEF UInv, KeptOneByOne
  <2> HIDE DEF n
  <2> SUFFICES ASSUME NEW p \in Requests', NEW q \in Requests', p # q, InFlight(p)', InFlight(q)'
               PROVE  OneByOne(req'[p], req'[q])
    BY DEF KeptOneByOne
  <2> QED BY <1>2, <1>3, <1>4, <2>1, <2>2
<1>6. bets' = bets /\ streamEnded' = streamEnded /\ roundStatus' = roundStatus
  BY <1>1 DEF vars
<1>7. StillChecked(roundStatus, bets, streamEnded, next)
  BY <1>0 DEF JustRead, StillChecked, BettingOn
<1>8. ASSUME NEW p \in Requests', InFlight(p)'
      PROVE  StillChecked(roundStatus', bets', streamEnded', req'[p])
  <2> HIDE DEF n
  <2>1. CASE p = n
    BY <1>2, <1>6, <1>7, <2>1
  <2>2. CASE p \in Requests
    BY <1>2, <1>4, <1>6, <1>8, <2>2 DEF UInv
  <2> QED BY <1>3, <2>1, <2>2
<1> QED BY <1>1, <1>5, <1>8 DEF UInv

\* Users who each make one request at a time do not edit the same bet at once.
LEMMA OneByOneArrivesApart ==
  ASSUME HandledOneByOne, RInv, EInv
  PROVE  ArrivesApart
<1> SUFFICES ASSUME NEW next, Arrive(next), JustRead(next), NEW p \in Requests, InFlight(p)
             PROVE  Apart(next, req[p]) /\ Apart(req[p], next)
  BY DEF ArrivesApart
<1>1. OneByOne(next, req[p]) /\ OneByOne(req[p], next)
  BY DEF Arrive, HandledOneByOne
<1>2. Knows(req[p]) /\ SeenAgrees(req[p]) /\ Knows(next)
  BY DEF RInv, RequestOK, EInv, JustRead
<1>3. ASSUME Changing(next), Changing(req[p]) PROVE next.bet # req[p].bet
  <2>1. next.user # req[p].user
    BY <1>1, <1>3 DEF OneByOne, Changing
  <2>2. next.user = bets[next.bet].user
    BY <1>2, <1>3 DEF JustRead, Changing, Knows, EditKnows, CancelKnows
  <2>3. req[p].user = bets[req[p].bet].user
    BY <1>2, <1>3 DEF SeenAgrees, Changing, Knows, EditKnows, CancelKnows
  <2> QED BY <2>1, <2>2, <2>3
<1> QED BY <1>1, <1>3 DEF Apart, OneByOne, Changing

\* What a user's commit leaves to the other requests: it changed a bet of the
\* user's own, and when it added one, in a round that no administrator handles.
LEMMA OwnRowKeepsU ==
  ASSUME RInv, UInv, NEW q \in Requests, InFlight(q), Answer(q),
         req[q].kind \in {"place", "edit", "cancel"},
         roundStatus' = roundStatus, streamEnded' = streamEnded, NEW b \in BetIds,
         \A e \in BetIds \ {b} : bets'[e] = bets[e], bets'[b].user = req[q].user,
         req[q].kind = "place" =>
           bets[b] = NoBet /\ bets'[b].round = RoundOf[req[q].option]
  PROVE  UInv'
<1> DEFINE r == req[q]
<1>1. ASSUME NEW p \in Requests \ {q}, InFlight(p)
      PROVE  StillChecked(roundStatus', bets', streamEnded', req[p])
  <2>1. StillChecked(roundStatus, bets, streamEnded, req[p])
    BY <1>1 DEF UInv
  <2>2. OneByOne(req[p], r)
    BY <1>1 DEF UInv, KeptOneByOne
  <2>3. ASSUME req[p].kind = "lock"
        PROVE  ActiveRows(bets', req[p].round) = ActiveRows(bets, req[p].round)
    <3>1. r.kind = "place" /\ Target(req[p]) # Target(r)
      BY <2>2, <2>3 DEF OneByOne
    <3>2. bets[b] = NoBet /\ bets'[b].round # req[p].round
      BY <2>3, <3>1 DEF Target
    <3> QED BY <3>2 DEF ActiveRows, NoBet
  <2>4. ASSUME req[p].kind = "place", req[p].pc = "locking",
               NEW e \in ActiveRows(bets', RoundOf[req[p].option])
        PROVE  bets'[e].user # req[p].user
    <3>1. r.user # req[p].user
      BY <2>2, <2>4 DEF OneByOne
    <3>2. CASE e = b
      BY <3>1, <3>2
    <3>3. CASE e # b
      <4>1. e \in ActiveRows(bets, RoundOf[req[p].option]) /\ bets'[e] = bets[e]
        BY <2>4, <3>3 DEF ActiveRows
      <4> QED BY <2>1, <2>4, <4>1 DEF StillChecked
    <3> QED BY <3>2, <3>3
  <2> QED BY <2>1, <2>3, <2>4 DEF StillChecked
<1> QED BY <1>1, AnswerKeepsU

\* A bet is placed: the round is open and the user has no bet in it.
LEMMA PlaceCommitsAlone ==
  ASSUME RInv, UInv, NEW q, PlaceCommits(q)
  PROVE  UInv' /\ Next
<1> DEFINE r == req[q]
<1>1. /\ q \in Requests /\ Locking(q) /\ r.pc = "locking" /\ r.kind = "place"
      /\ Answer(q) /\ InFlight(q)
  BY DEF PlaceCommits, Ready, Locking, InFlight
<1>2. /\ TypeOK /\ r.user \in Users /\ r.option \in Options
      /\ r.currency \in Currencies /\ r.amount \in Amounts
  BY <1>1 DEF RInv, RequestOK, Knows, PlaceKnows
<1>3. PICK b \in BetIds :
        Placing(wallet, total, count, r.user, r.option, r.currency, r.amount, b)
  BY <1>1, AsReadIsCurrent DEF PlaceCommits
<1>4. /\ BettingOn(r.option)
      /\ \A e \in ActiveIn(RoundOf[r.option]) : bets[e].user # r.user
  BY <1>1 DEF UInv, StillChecked, BettingOn, ActiveIn
<1>5. PlaceBet(r.user, r.option, r.currency, r.amount, b)
  BY <1>3, <1>4 DEF PlaceBet
<1>6. Next
  BY <1>2, <1>3, <1>5 DEF Next
<1>7. /\ roundStatus' = roundStatus /\ streamEnded' = streamEnded /\ bets[b] = NoBet
      /\ bets'[b] = NewBet(r.user, r.option, r.currency, r.amount)
      /\ \A e \in BetIds \ {b} : bets'[e] = bets[e]
  BY <1>2, <1>3 DEF Placing, TypeOK
<1>8. bets'[b].user = r.user /\ bets'[b].round = RoundOf[r.option]
  BY <1>7 DEF NewBet
<1> QED BY <1>1, <1>6, <1>7, <1>8, OwnRowKeepsU

\* A bet is edited: it is active and the new option's round is open.
LEMMA EditCommitsAlone ==
  ASSUME RInv, EInv, UInv, NEW q, EditCommits(q)
  PROVE  UInv' /\ Next
<1> DEFINE r == req[q]
           b == r.bet
           o == r.option
<1>1. /\ q \in Requests /\ InFlight(q) /\ Answer(q) /\ r.pc = "locking" /\ r.kind = "edit"
      /\ b \in BetIds /\ Active(b) /\ bets[b] \in Bet /\ o \in Options
      /\ r.currency \in Currencies /\ r.amount \in Amounts /\ bets[b].user = r.user
      /\ Editing(wallet, total, count, bets[b], b, o, r.currency, r.amount)
  BY EditWrites
<1>2. TypeOK
  BY DEF RInv
<1>5. BettingOn(o)
  BY <1>1 DEF UInv, StillChecked, BettingOn
<1>6. EditBet(b, o, r.currency, r.amount)
  BY <1>1, <1>5 DEF EditBet
<1>7. Next
  BY <1>1, <1>6, SMTT(30) DEF Next
<1>8. /\ roundStatus' = roundStatus /\ streamEnded' = streamEnded
      /\ bets' = [bets EXCEPT ![b] = [bets[b] EXCEPT !.option = o, !.round = RoundOf[o],
                                            !.currency = r.currency, !.amount = r.amount]]
  BY <1>1 DEF Editing
<1> HIDE DEF b, o
<1>9. /\ \A e \in BetIds \ {b} : bets'[e] = bets[e]
      /\ bets'[b].user = r.user
  BY <1>1, <1>2, <1>8 DEF TypeOK, Bet
<1> QED BY <1>1, <1>7, <1>8, <1>9, OwnRowKeepsU

\* A bet is cancelled: it is active and its round is open.
LEMMA CancelCommitsAlone ==
  ASSUME RInv, EInv, UInv, NEW q, CancelCommits(q)
  PROVE  UInv' /\ Next
<1> DEFINE r == req[q]
           b == r.bet
<1>1. /\ q \in Requests /\ InFlight(q) /\ Answer(q) /\ r.pc = "locking" /\ r.kind = "cancel"
      /\ b \in BetIds /\ Active(b) /\ bets[b] \in Bet /\ bets[b].user = r.user
      /\ r.seen = bets[b] /\ Cancelling(wallet, total, count, bets[b], b)
  BY CancelWrites
<1>2. TypeOK
  BY DEF RInv
<1>5. roundStatus[bets[b].round] = "open"
  BY <1>1 DEF UInv, StillChecked
<1>6. CancelBet(b)
  BY <1>1, <1>5 DEF CancelBet
<1>7. Next
  BY <1>1, <1>6, SMTT(30) DEF Next
<1>8. /\ roundStatus' = roundStatus /\ streamEnded' = streamEnded
      /\ bets' = [bets EXCEPT ![b] = [bets[b] EXCEPT !.status = "cancelled"]]
  BY <1>1 DEF Cancelling
<1> HIDE DEF b
<1>9. /\ \A e \in BetIds \ {b} : bets'[e] = bets[e]
      /\ bets'[b].user = r.user
  BY <1>1, <1>2, <1>8 DEF TypeOK, Bet
<1> QED BY <1>1, <1>7, <1>8, <1>9, OwnRowKeepsU

\* What an administrator's step leaves to the other requests: it changed the
\* status of one round, and bets of that round only.
LEMMA OwnRoundKeepsU ==
  ASSUME RInv, UInv, NEW q \in Requests, InFlight(q), Answer(q),
         req[q].kind \in {"open", "lock", "declare"}, streamEnded' = streamEnded,
         NEW x \in Rounds, Target(req[q]) = x,
         \A y \in Rounds \ {x} :
           /\ roundStatus'[y] = roundStatus[y]
           /\ ActiveRows(bets', y) = ActiveRows(bets, y)
           /\ \A b \in ActiveRows(bets, y) : bets'[b] = bets[b]
  PROVE  UInv'
<1>1. ASSUME NEW p \in Requests \ {q}, InFlight(p)
      PROVE  StillChecked(roundStatus', bets', streamEnded', req[p])
  <2>1. StillChecked(roundStatus, bets, streamEnded, req[p]) /\ Knows(req[p])
    BY <1>1 DEF UInv, RInv, RequestOK
  <2>2. req[p].kind \in {"place", "open", "lock", "declare"} /\ Target(req[p]) # x
    BY <1>1, <2>1 DEF UInv, KeptOneByOne, OneByOne, Knows
  <2>3. Target(req[p]) \in Rounds \ {x}
    BY <2>1, <2>2, RoundOfAssumption
       DEF Target, Knows, RoundKnows, PlaceKnows, DeclareKnows
  <2>4. CASE req[p].kind \in {"open", "lock"}
    BY <2>1, <2>3, <2>4 DEF StillChecked, Target
  <2>5. CASE req[p].kind = "declare"
    BY <2>1, <2>3, <2>5 DEF StillChecked, Target
  <2>6. CASE req[p].kind = "place"
    BY <2>1, <2>3, <2>6 DEF StillChecked, Target
  <2> QED BY <2>2, <2>4, <2>5, <2>6
<1> QED BY <1>1, AnswerKeepsU

\* A round is opened that was created, or one is locked that was open and has
\* two bets.
LEMMA StatusSavedAlone ==
  ASSUME RInv, UInv, NEW q, StatusSaved(q)
  PROVE  UInv' /\ Next
<1> DEFINE r == req[q]
           x == r.round
<1>1. /\ q \in Requests /\ Answer(q) /\ InFlight(q)
      /\ UNCHANGED <<options, pools, bets, wallet, streamEnded>>
      /\ \/ r.kind = "open" /\ roundStatus' = [roundStatus EXCEPT ![x] = "open"]
         \/ r.kind = "lock" /\ r.pc = "counted" /\ roundStatus' = [roundStatus EXCEPT ![x] = "locked"]
  <2>1. q \in Requests /\ InFlight(q)
    BY DEF StatusSaved, Reading, InFlight
  <2>2. r.pc = "counted" => r.kind = "lock"
    BY <2>1 DEF RInv, RequestOK, Knows
  <2> QED BY <2>1, <2>2 DEF StatusSaved, Reading
<1>2. /\ TypeOK /\ x \in Rounds /\ StillChecked(roundStatus, bets, streamEnded, r)
      /\ Target(r) = x
  BY <1>1 DEF RInv, RequestOK, Knows, RoundKnows, UInv, Target
<1>3. OpenRound(x) \/ LockRound(x)
  BY <1>1, <1>2 DEF OpenRound, LockRound, StillChecked, ActiveIn
<1>4. Next
  BY <1>2, <1>3 DEF Next
<1>5. \A y \in Rounds \ {x} : roundStatus'[y] = roundStatus[y]
  BY <1>1, <1>2 DEF TypeOK
<1> HIDE DEF x
<1> QED BY <1>1, <1>2, <1>4, <1>5, OwnRoundKeepsU

\* A winner is declared in a round that is locked.
LEMMA DeclareCommitsAlone ==
  ASSUME RInv, EInv, UInv, NEW q, DeclareCommits(q)
  PROVE  UInv' /\ Next
<1> DEFINE r == req[q]
           o == r.option
           x == RoundOf[o]
<1>1. /\ q \in Requests /\ r.pc = "locking" /\ r.kind = "declare" /\ Answer(q) /\ InFlight(q)
  BY DEF DeclareCommits, Ready, Locking, InFlight
<1>2. TypeOK /\ roundStatus[x] = "locked"
  BY <1>1 DEF RInv, UInv, StillChecked
<1>3. o \in Options /\ Settling(wallet, o, bets, total, bets) /\ UNCHANGED count
  BY DeclareCommitsWrites
<1>4. Next
  BY <1>2, <1>3 DEF DeclareWinner, Next
<1>5. /\ streamEnded' = streamEnded /\ x \in Rounds /\ Target(r) = x
      /\ roundStatus' = [roundStatus EXCEPT ![x] = "closed"]
  BY <1>1, <1>3, RoundOfAssumption DEF Settling, Target
<1>6. /\ \A b \in BetIds \ ActiveIn(x) : bets'[b] = bets[b]
      /\ \A b \in ActiveIn(x) : bets[b].round = x /\ bets'[b].round = x
  <2>1. PICK short : bets' = [b \in BetIds |-> IF b \in ActiveIn(x)
                                THEN SettledBet(bets, total, b, o, short) ELSE bets[b]]
    BY <1>3 DEF Settling, ActiveIn
  <2>2. \A b \in ActiveIn(x) : b \in BetIds /\ bets[b].round = x
    BY DEF ActiveIn, ActiveRows
  <2>3. \A b \in ActiveIn(x) : SettledBet(bets, total, b, o, short).round = x
    BY <1>2, <1>3, SettledPlace
  <2> HIDE DEF x, o
  <2> QED BY <2>1, <2>2, <2>3
<1> HIDE DEF x
<1>7. \A y \in Rounds \ {x} :
        /\ roundStatus'[y] = roundStatus[y]
        /\ ActiveRows(bets', y) = ActiveRows(bets, y)
        /\ \A b \in ActiveRows(bets, y) : bets'[b] = bets[b]
  BY <1>2, <1>5, <1>6 DEF TypeOK, ActiveRows
<1> QED BY <1>1, <1>4, <1>5, <1>7, OwnRoundKeepsU

----------------------------------------------------------------------------
\* Every handler that writes takes a step of BetBook.
LEMMA HandleAlone ==
  ASSUME RInv, EInv, UInv, NEW q, Handle(q) \/ Fail(q)
  PROVE  UInv' /\ [Next]_vars
<1>1. CASE Learns(q) /\ ~ Refuse(q)
  BY <1>1, LearnsKeepsU
<1>2. CASE PlaceCommits(q) \/ EditCommits(q) \/ CancelCommits(q)
  BY <1>2, PlaceCommitsAlone, EditCommitsAlone, CancelCommitsAlone
<1>3. CASE StatusSaved(q) \/ DeclareCommits(q)
  BY <1>3, StatusSavedAlone, DeclareCommitsAlone
<1>4. CASE Learns(q) /\ Refuse(q)
  BY <1>4, LearnsRequest, RefuseKeepsU
<1>5. CASE DeadlockVictim(q) \/ Fail(q) \/ (Unpayable(q) /\ Refuse(q))
  BY <1>5, GivenUp, RefuseKeepsU
<1> QED BY <1>1, <1>2, <1>3, <1>4, <1>5 DEF Handle, Learns

\* Every step is one of BetBook or changes nothing of it.
LEMMA NextAlone ==
  ASSUME HandledOneByOne, RInv, EInv, UInv, [RequestsNext]_allVars
  PROVE  EInv' /\ UInv' /\ [Next]_vars
<1>1. EInv'
  BY OneByOneArrivesApart, RequestsNextEInv
<1>2. CASE Arrival
  BY <1>1, <1>2, ArrivalKeepsU
<1>3. CASE \E q \in 1 .. MaxRequests : Handle(q) \/ Fail(q)
  BY <1>1, <1>3, HandleAlone
<1>4. CASE UNCHANGED allVars
  <2>1. UNCHANGED vars /\ req' = req
    BY <1>4 DEF allVars
  <2>2. bets' = bets /\ streamEnded' = streamEnded /\ roundStatus' = roundStatus
    BY <2>1 DEF vars
  <2>3. UInv'
    BY <2>1, <2>2 DEF UInv, KeptOneByOne, Requests, InFlight
  <2> QED BY <1>1, <2>1, <2>3
<1> QED BY <1>2, <1>3, <1>4 DEF RequestsNext

\* At the start there is no request.
LEMMA RequestsInitUInv == RequestsInit => UInv
<1> SUFFICES ASSUME RequestsInit PROVE UInv
  OBVIOUS
<1>1. DOMAIN req = {}
  BY DEF RequestsInit
<1> QED BY <1>1 DEF UInv, KeptOneByOne, Requests

\* Handlers that run for different users, while the administrator handles rounds
\* nobody bets in, leave the database as if each had run alone.
THEOREM RequestsImplementBook ==
  ASSUME HandledOneByOne
  PROVE  RequestsSpec => ImplementsBook
<1>1. RInv /\ EInv /\ UInv /\ [RequestsNext]_allVars => EInv' /\ UInv' /\ [Next]_vars
  BY NextAlone
<1>2. RequestsInit => Init
  BY DEF RequestsInit
<1>3. RequestsSpec => [][Next]_vars
  BY <1>1, RequestsInitRInv, RequestsInitEInv, RequestsInitUInv, RequestsNextRInv, PTL
     DEF RequestsSpec
<1> QED BY <1>2, <1>3, PTL DEF RequestsSpec, ImplementsBook, Spec
=============================================================================
