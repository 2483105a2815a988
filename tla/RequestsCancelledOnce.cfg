SPECIFICATION RequestsSpec
CONSTANTS
  u1 = u1
  u2 = u2
  u3 = u3
  r1 = r1
  o1 = o1
  o2 = o2
  b1 = b1
  b2 = b2
  b3 = b3
  Users = {u1, u2}
  Rounds = {r1}
  Options = {o1, o2}
  RoundOf <- OneRound
  BetIds = {b1, b2}
  Amounts = {1}
  LedgerMax <- Ample
  OpeningBalance <- GoldOnly
  MaxRequests = 4
  Overlap <- Anything
  MayFail = FALSE
PROPERTIES CancelledOnce
SYMMETRY Symmetry2
CHECK_DEADLOCK FALSE
