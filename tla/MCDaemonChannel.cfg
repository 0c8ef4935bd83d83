SPECIFICATION LiveSpec
CONSTANTS
  c1 = c1
  c2 = c2
  Clients <- TwoProxies
  MaxDaemons = 4
  MaxTries = 2
  MaxKills = 2
  MayDie <- TwoProxies
INVARIANT HeardIsKept
PROPERTIES Settles StaleFileNoObstacle 
CHECK_DEADLOCK FALSE
