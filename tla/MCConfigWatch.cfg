SPECIFICATION LiveSpec
CONSTANTS
  perso = perso
  both = both
  half = half
  Good <- TwoGood
  Bad <- OneBad
  Slots <- TwoSlots
  Retries = 2
  MaxEdits = 3
INVARIANT InForce
PROPERTIES NeverOlder Followed
CHECK_DEADLOCK FALSE
