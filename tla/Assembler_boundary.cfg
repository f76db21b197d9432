SPECIFICATION Spec
CONSTANTS
  Packets <- FromBoundary
  Newest = 3
  Total = 3
  Data = 2
  Lines = 2
  AssemblyCap = 1
  RestoreCap = 1
  MaxCopies = 1
INVARIANTS
  PushedPure
CHECK_DEADLOCK FALSE
