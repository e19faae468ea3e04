SPECIFICATION FairSpec
CONSTANTS
  Devices = {d}
  Conns = {p, q}
  MaxLosses = 2
  MaxCrashes = 1
  MaxSweeps = 1
  None = None
  Nil = Nil
INVARIANTS
  TypeOK
  ChallengeAnsweredOnce
  TokenAcceptedOnce
  TokensAreRegistered
PROPERTY EventuallyIn
CHECK_DEADLOCK FALSE
