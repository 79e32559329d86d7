SPECIFICATION Spec
CONSTANTS
  First = First
  Second = Second
  NoChild = NoChild
  Retries = 2
INVARIANTS
  NoChildLeft
  MeasuredRanToTheEnd
PROPERTIES
  TestEnds
CHECK_DEADLOCK FALSE
