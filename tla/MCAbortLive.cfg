SPECIFICATION FairSpec
CONSTANTS
  m = m
  w1 = w1
  w2 = w2
  a1 = a1
  a2 = a2
  t1 = t1
  t2 = t2
  t3 = t3
  t4 = t4
  t5 = t5
  None = None
  Worker <- MCThreeWorkers
  Main = m
  Work <- MCTwoWork
  Aborts <- MCOneAbort
  Task <- MCTask
  Low = 1
  Copies = 3
  SlowThieves = FALSE
  GpuInjects = FALSE
PROPERTIES
  AbortEnds
  LoserIsAborted
CHECK_DEADLOCK FALSE
