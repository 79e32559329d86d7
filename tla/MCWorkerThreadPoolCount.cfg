SPECIFICATION Spec
CONSTANTS
  m = m
  w1 = w1
  w2 = w2
  w3 = w3
  None = None
  Thread <- MCThread
  Main = m
  MaxWorkers = 4
  MaxRound = 1
  Machines = {FALSE}
INVARIANTS
  CountPastSlot
CHECK_DEADLOCK FALSE
