SPECIFICATION CodeSpec
CONSTANTS
  Addresses <- MCAddresses
  Programs <- MCOpposite
  Dims = 2
  BlockNumber = 2
  SplitSize = 3
PROPERTY CellsInOrder
CHECK_DEADLOCK FALSE
