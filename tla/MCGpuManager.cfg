SPECIFICATION Spec
CONSTANTS
  Matrices = {"a", "m", "o"}
  Parts = {1, 2}
  Programs <- MCPrograms
  MaxNodes = 4
INVARIANT OutputsOnCpu
PROPERTIES ReadersSeeData Terminates
CHECK_DEADLOCK FALSE
