SPECIFICATION InTurnSpec
CONSTANTS
  Conns = {1, 2, 3}
  NodeIDs = {1, 3}
  IdOf <- SharedId
  Relays = {}
  None = None
PROPERTY EventuallyClosed
CHECK_DEADLOCK FALSE
