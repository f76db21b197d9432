SPECIFICATION FairSpec
CONSTANTS
  Cap = 2
  Width = 3
  Passing = {1, 2}
  MaxBytes = 3
INVARIANTS
  ReportsAddUp
PROPERTIES
  TrafficIsShown
  ClosedEnds
CHECK_DEADLOCK FALSE
