SPECIFICATION Spec
CONSTANTS
  u1 = u1
  u2 = u2
  o1 = o1
  o2 = o2
  h1 = h1
  h2 = h2
  NoUser = NoUser
  NoOption = NoOption
  Users <- MCUsers
  Options <- MCOptions
  Handlers <- MCHandlers
  MaxRequests = 6
  MaxFaults = 1
INVARIANTS TypeOK RoomIsUpToDate NewsIsTrue BettorsAreTold
SYMMETRY Symmetry
CHECK_DEADLOCK FALSE
