SPECIFICATION FairEncoderSpec
CONSTANTS
  Depth = 2
  Total = 2
  EncodeCap = 1
  DispatcherCap = 1
  ResultCap = 1
  MaxChunks = 4
  Capacity = 2
  WriteSizes = {2, 3}
  AggregateCap = 1
  MaxBytes = 5
INVARIANTS
  WireInOrder NoPhantomChunk StreamIntact TimerGuardsBuffer
PROPERTIES
  ByteReachesWire EncoderEnds
CHECK_DEADLOCK FALSE
