SPECIFICATION FairSpec
CONSTANTS
  Task = {x1, x2, x3, x4}
  Thief = {p1, p2}
  Owner = owner
  None = none
  InitSize = 3
INVARIANTS TypeOK ExactlyOnce InBounds NullOnlyWhenDrained
PROPERTIES ImplementsWorkDeque OwnerReturns
