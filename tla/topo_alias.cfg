SPECIFICATION MCSpec
CONSTANTS
  MaxConns = 76
  Courses <- OnlyGrowing
  MaxRemovals = 0
INVARIANT NoSelfLink
CHECK_DEADLOCK FALSE
