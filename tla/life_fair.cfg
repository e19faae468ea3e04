SPECIFICATION OneWayFairSpec
CONSTANTS
  Conns = {1, 2}
  NodeIDs = {1, 2}
  IdOf <- OwnId
  Relays = {r1}
  None = None
PROPERTIES EventuallyClosed EventuallyAnswered RelaysEnd NewsSpreads
