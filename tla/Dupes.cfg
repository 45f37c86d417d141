SPECIFICATION Spec
CONSTANTS
  Nzbs = {a, b, c}
  Attr <- MCAttr
  MaxEvents = 1
  a = a
  b = b
  c = c
INVARIANTS ListsConsistent EqualDuplicatesExclusive BackupNotForgotten MarkedBadStaysAway
CHECK_DEADLOCK FALSE
