SPECIFICATION LiveSpec
CONSTANTS
  s1 = s1
  s2 = s2
  u1 = u1
  t1 = t1
  t2 = t2
  Sockets = {s1, s2}
  Users = {u1}
  Streams = {t1, t2}
  UserOf <- Tabs
  NoStream = NoStream
  NoSocket = NoSocket
  NoCount = NoCount
  MaxEvents = 4
INVARIANTS TypeOK CountsAreExact NotifiedSocketIsOpen
PROPERTIES CountsComeToRest
CHECK_DEADLOCK FALSE
