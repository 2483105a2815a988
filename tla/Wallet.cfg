SPECIFICATION LiveSpec
CONSTANTS
  w1 = w1
  w2 = w2
  both = both
  bonus = bonus
  card = card
  NoPurchase = NoPurchase
  Workers <- MCWorkers
  Coinflow <- MCBothAndBonus
  Stripe <- MCStripe
  Identified <- MCBothAndBonus
  Package <- MCPackage
  Moves <- MCMoves
  AdminAmounts <- MCAdminAmounts
  InitialGold = 2
  MaxOthers = 1
  MaxFaults = 1
INVARIANTS CreditedOnce AnsweredIsCredited SweepLedgerExplained GoldLedgerExplained
PROPERTIES PurchaseIsCredited
CHECK_DEADLOCK FALSE
