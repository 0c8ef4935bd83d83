SPECIFICATION LiveSpec
CONSTANTS
  i1 = i1
  i2 = i2
  i3 = i3
  Instances <- Three
  Private <- OneOfProxy
  Platforms <- WindowsAndLinux
  MaxBoots = 2
  MaxReturns = 2
INVARIANT Consistent
PROPERTIES DaemonsKeepTheirs SweptAfterwards
CHECK_DEADLOCK FALSE
