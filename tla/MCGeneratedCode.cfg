SPECIFICATION CodeSpec
CONSTANTS
  Addresses <- MCAddresses
  Programs <- MCPrograms
  Dims = 2
  BlockNumber = 2
  SplitSize = 3
INVARIANTS ScheduleInOrder EachCellOnce
PROPERTY CellsInOrder
CHECK_DEADLOCK FALSE
