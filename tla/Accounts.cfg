SPECIFICATION Spec
CONSTANTS
  r1 = r1
  r2 = r2
  r3 = r3
  u1 = u1
  u2 = u2
  NoUser = NoUser
  Requests <- MCRequests
  Users <- MCUsers
  MaxTokens = 3
  MaxBegun = 5
  MaxFaults = 1
SYMMETRY MCSymmetry
INVARIANTS TypeOK OneUserPerName WalletUnlessInterrupted LateRefreshIsRefused
PROPERTIES DeletedUnlessSavedOver
CHECK_DEADLOCK FALSE
