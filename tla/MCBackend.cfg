SPECIFICATION LiveSpec
CONSTANTS
  Requests <- TwoRequests
  r1 = r1
  r2 = r2
  Pings <- TwoPings
  k1 = k1
  k2 = k2
  Interval = 3
  Timeout = 2
  MaxMissed = 3
INVARIANTS OneReply FrozenIsSilent
PROPERTY FrozenIsCut
CHECK_DEADLOCK FALSE
