SPECIFICATION Spec
CONSTANTS
  DataSize = 3
  HeaderSize = 2
  Data = 3
  Total = 5
  Sizes <- FromAggregator
INVARIANTS
  NeverAltered EnoughSuffices
CHECK_DEADLOCK FALSE
