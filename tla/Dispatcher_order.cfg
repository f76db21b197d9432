SPECIFICATION AscendingSpec
CONSTANTS
  Csn = {1, 2, 3, 4, 5, 6, 7, 8, 9, 10, 11, 12}
  Size = 4
  DispatchCap = 1
  ResultCap = 4
  MaxCopies = 1
PROPERTIES
  OrderedDelivery
CHECK_DEADLOCK FALSE
