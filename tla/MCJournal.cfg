SPECIFICATION JournalSpec
CONSTANTS
  w1 = w1
  w2 = w2
  Writers <- TwoWriters
  MaxBytes = 2
  MaxFiles = 3
  MaxLines = 7
  MaxFailures = 3
INVARIANTS Bounded NewestKept LossIsTold
CHECK_DEADLOCK FALSE
