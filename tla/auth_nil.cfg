SPECIFICATION Spec
CONSTANTS
  Devices = {d}
  Conns = {p, q}
  MaxLosses = 0
  MaxCrashes = 0
  MaxSweeps = 0
  None = None
  Nil = Nil
INVARIANT EntriesAreTokens
CHECK_DEADLOCK FALSE
