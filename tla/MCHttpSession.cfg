SPECIFICATION LiveSpec
CONSTANTS
  r1 = r1
  MaxLines = 3
  Requests <- OneRequest
  Ping = ping
  MaxSessions = 4
  MaxEnds = 2
INVARIANTS AtMostOnce WaitersAreServed
PROPERTY EndsUnlessCut
CHECK_DEADLOCK FALSE
