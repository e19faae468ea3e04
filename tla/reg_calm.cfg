SPECIFICATION CalmSpec
CONSTANTS
  Devices = {1, 2, 3}
  Users = {1, 2}
  OwnerOf <- Owners
  Requests = {r1,r2}
  MayFail = {"join", "connect"}
  MaxPools = 2
INVARIANTS TypeOK NothingLost MemoryMatchesStore OnePool NoNodeLeft
SYMMETRY Symmetry
CHECK_DEADLOCK FALSE
