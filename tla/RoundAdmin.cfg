SPECIFICATION Spec
CONSTANTS
  o1 = o1
  o2 = o2
  b1 = b1
  b2 = b2
  b3 = b3
  NoOption = NoOption
  Options <- MCOptions
  Bets <- MCBets
  MaxAdmin = 3
  MaxFaults = 1
SYMMETRY MCSymmetry
INVARIANTS RefundedOnce NoStakeLost CancelledRoundIsSettled TotalsMatchBets
CHECK_DEADLOCK FALSE
