SPECIFICATION Spec
CONSTANTS
  Devices = {1, 2, 3}
  Users = {1, 2}
  OwnerOf <- Owners
  Requests = {r1,r2}
  MayFail = {}
  MaxPools = 2
INVARIANT NothingLost
SYMMETRY Symmetry
CHECK_DEADLOCK FALSE
