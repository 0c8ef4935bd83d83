CONSTANTS
  c1 = c1
  c2 = c2
  perso = perso
  Clients <- TwoClients
  Keys <- OneKey
  Requests <- OneKind
  Limit = 0
  PortRace = FALSE
  MaxBoots = 1
SPECIFICATION Spec
INVARIANT EveryInstanceHeld
