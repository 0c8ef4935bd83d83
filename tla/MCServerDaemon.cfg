SPECIFICATION MCSpec
CONSTANTS
  c1 = c1
  c2 = c2
  perso = perso
  Clients <- TwoClients
  Keys <- OneKey
  Requests <- AllKinds
  Limit = 1
  PortRace = TRUE
  MaxBoots = 2
INVARIANTS OneChromePerDirectory ChromeHasItsDirectory
PROPERTIES Promise ExitLosesNothing NoIdleDaemon NoSilentLoss
PROPERTIES EveryoneAnswered NoOrphanServer
CHECK_DEADLOCK FALSE
