SPECIFICATION Spec
CONSTANTS
  a1 = a1
  a2 = a2
  r1 = r1
  r2 = r2
  Admins = {a1, a2}
  Kinds = {"create", "update", "status", "cancel", "delete"}
  Rounds = {r1}
  Edits <- SomeEdits
  MaxClock = 2
  MaxRequests = 4
  MaxFaults = 1
  MaxStops = 1
  Attempts = 3
INVARIANTS TypeOK ScheduledHasJob
SYMMETRY Symmetry
CHECK_DEADLOCK FALSE
