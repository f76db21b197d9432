SPECIFICATION Spec
CONSTANTS
  Packets <- FromAnywhere
  Newest = 4
  Total = 3
  Data = 2
  Lines = 3
  AssemblyCap = 1
  RestoreCap = 1
  MaxCopies = 1
INVARIANTS
  PushedPure PushedRestorable PushedOnce AscendingPushes
CHECK_DEADLOCK FALSE
