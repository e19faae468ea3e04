SPECIFICATION FreshSpec
CONSTANTS
  PanelSize = 2
  MaxConns = 20
  NodeIDs <- Ids
INVARIANTS
  TypeOK
  SlotsMatchNodes
  MapLeadsIntoTree
  FullAbove
  RemovalDefined
  PlacementDefined
  PromotionHasCandidate
PROPERTY OneLevelUp
CHECK_DEADLOCK FALSE
