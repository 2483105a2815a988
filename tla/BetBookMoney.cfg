SPECIFICATION Spec
CONSTANTS
  u1 = u1
  u2 = u2
  r1 = r1
  r2 = r2
  o1 = o1
  o2 = o2
  p1 = p1
  b1 = b1
  b2 = b2
  Users = {u1, u2}
  Rounds = {r1, r2}
  Options = {o1, o2, p1}
  RoundOf <- TwoRounds
  BetIds = {b1, b2}
  Amounts = {1, 2}
  LedgerMax <- Ample
  OpeningBalance <- BothCoins
SYMMETRY Symmetry2
INVARIANTS NoStrandedBet PoolsMatchBets ResultsAgree MoneyAccounted FiguresAgree
PROPERTIES SettledStaysSettled PotentialIsPaid
