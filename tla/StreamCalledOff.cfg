SPECIFICATION LiveSpec
CONSTANTS
  a1 = a1
  a2 = a2
  r1 = r1
  r2 = r2
  Admins = {a1, a2}
  Kinds = {"create", "cancel", "delete"}
  Rounds = {r1, r2}
  Edits <- SomeEdits
  MaxClock = 2
  MaxRequests = 4
  MaxFaults = 3
  MaxStops = 1
  Attempts = 3
INVARIANTS RoundsFollowStream CalledOffHasNoJob
PROPERTIES LifeOfStream QueuedStreamLeavesSchedule
CHECK_DEADLOCK FALSE
