SPECIFICATION MCSpec
CONSTANTS
  MaxConns = 28
  Courses <- TwoAndThreeLevels
  MaxRemovals = 2
INVARIANTS
  ViewsMatchTree
  LinksAgree
  LinksMade
  PoolSurvivesOneLoss
PROPERTY
  LinksKept
CHECK_DEADLOCK FALSE
