SPECIFICATION FairSpec
CHECK_DEADLOCK FALSE
CONSTANTS
  a = a  b = b  l1 = l1  l2 = l2  m1 = m1  ua = ua  ub = ub
  None = None  x = x  gc = gc
  Host = {a, b}
  Listener = {l1, m1}
  User = {ua, ub}
  Senders = {ua}
  App = {x}
  Gcs = {gc}
  Home <- MCHome
  Origins <- MCOrigins
INVARIANTS NothingDangles FreedTogether BlockedForAReason
PROPERTIES WaitEnds CollectionEnds
