SPECIFICATION FairWindowSpec
CONSTANTS
  Csn = {0, 1, 2, 3, 4, 5}
  Size = 2
  DispatchCap = 2
  ResultCap = 1
  MaxCopies = 2
INVARIANTS
  CursorsAgree AwaitedNeverHeld NothingDiscarded
PROPERTIES
  NoStall GaplessStream DeliveredWhenComplete
CHECK_DEADLOCK FALSE
