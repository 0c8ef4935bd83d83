SPECIFICATION RouterSpec
CONSTANTS
  perso = perso
  work = work
  v1 = v1
  v2 = v2
  i1 = i1
  i2 = i2
  i3 = i3
  Profiles <- TwoProfiles
  Specs <- TwoSpecs
  Absent = absent
  Default = perso
  Pinned = absent
  Calls <- ThreeCalls
  Ops <- MostOps
  MaxIds = 2
  MaxEdits = 1
  Clashing <- Homonyms
  MaxAsks = 1
INVARIANTS RightAccount DescriptionFollows AnswersKeepProfile NobodyForgotten
CHECK_DEADLOCK FALSE

