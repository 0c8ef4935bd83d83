SPECIFICATION Spec
CONSTANTS
  perso = perso
  work = work
  k1 = k1
  k2 = k2
  Profiles <- TwoProfiles
  Keys <- TwoKeys
  KeyOf <- Apart
  Default = perso
  MaxUpdates <- OneUpdate
  OtherKeys <- HisKey
  MaxEntries = 1
  MaxRestarts = 1
INVARIANTS StaleIsConfronted DegradedIsCaughtUp
CHECK_DEADLOCK FALSE
