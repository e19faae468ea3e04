SPECIFICATION Spec
CONSTANTS
  Conns = {a, b, c}
  NodeIDs = {a, b, c}
  IdOf <- OwnId
  Relays = {}
  None = None
INVARIANTS TypeOK SendsAreTaken PositionFirst GoneForGood
PROPERTY MembershipKept
CONSTRAINT NoneStranded
SYMMETRY Symmetry
