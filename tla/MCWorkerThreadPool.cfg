SPECIFICATION Spec
CONSTANTS
  m = m
  w1 = w1
  w2 = w2
  w3 = w3
  None = None
  Thread <- MCThread
  Main = m
  MaxWorkers = 7
  MaxRound = 2
  Machines = {TRUE, FALSE}
SYMMETRY MCSymmetry
INVARIANTS
  TableIsExact
  InsertFits
  SearchCanEnd
CHECK_DEADLOCK TRUE
