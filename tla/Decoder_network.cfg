SPECIFICATION DecoderSpec
CONSTANTS
  Packets <- FromEncoder
  Total = 3
  Data = 2
  Lines = 2
  AssemblyCap = 1
  RestoreCap = 1
  MaxCopies = 4
  Depth = 2
  Blocks = 2
  Size = 1
  ArgumentCap = 1
  DispatchCap = 1
  ResultCap = 1
  MaxFaults = 2
  MaxRestarts = 1
  RestartLosses = {0, 4}
  Garbage = {2, 5}
INVARIANTS
  DeliveredWereRestorable DeliveredOnce EnoughIsPushed MixedInProgress
PROPERTIES
  GaplessStream
CHECK_DEADLOCK FALSE
