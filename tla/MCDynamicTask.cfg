SPECIFICATION FairSpec
CONSTANTS
  a = a
  b = b
  c = c
  d = d
  e = e
  Task = {a, b, c, d, e}
  Worker = {main, w1}
  Main = main
  Utility = util
  None = none
  Programs <- MCPrograms
INVARIANTS NoAssertionFails StartsAfterDependencies PredecessorCount NoUseAfterFree
PROPERTIES Completes
CHECK_DEADLOCK FALSE
