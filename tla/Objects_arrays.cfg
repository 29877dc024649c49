SPECIFICATION Spec
CONSTANTS
  Ptr = {p, q}
  MaxLen = 2
INVARIANTS TypeOK EachInPlace CrashIsForeign
CHECK_DEADLOCK FALSE
