SPECIFICATION FairInboundSpec
CONSTANTS
  Packets <- FromEncoder
  Total = 2
  Data = 2
  Lines = 2
  AssemblyCap = 1
  RestoreCap = 1
  MaxCopies = 1
  Depth = 1
  Blocks = 2
  Size = 1
  ArgumentCap = 1
  DispatchCap = 1
  ResultCap = 1
  MaxFaults = 0
  MaxRestarts = 0
  RestartLosses = {0}
  Garbage = {}
CHECK_DEADLOCK FALSE
INVARIANTS
  ListenerFollows
PROPERTIES
  ApplicationHears InboundEnds
