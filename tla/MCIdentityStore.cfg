SPECIFICATION Spec
CONSTANTS
  i1 = i1
  i2 = i2
  s1 = s1
  s2 = s2
  Retention = 1
  MaxTotal = 4
  Now = 2
  Unknown = unknown
  Identities <- TwoIdentities
  Sessions <- TwoSessions
  Sizes <- SmallOrBig
  MaxPerIdentity = 2
  MaxVersions = 3
  MaxPids = 2
INVARIANTS VaultWhole Recoverable
CHECK_DEADLOCK FALSE
