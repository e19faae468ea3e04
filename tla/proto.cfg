SPECIFICATION FairSpec
CONSTANTS
  Nodes = {a, b}
  None = None
  MaxReports = 3
  MaxUniqueReports = 3
  Calm = TRUE
  MaxLinks = 2
  MaxLosses = 3
INVARIANTS
  TypeOK
  ReportsAreOfLinks
  NoLinkForgotten
  CleanSlate
  ClosedAfterFailures
PROPERTY
  EventuallyConnected
CHECK_DEADLOCK FALSE
