SPECIFICATION Spec
CONSTANTS
  j1 = j1
  j2 = j2
  j3 = j3
  w1 = w1
  w2 = w2
  l1 = l1
  k1 = k1
  c1 = c1
  c2 = c2
  None = None
  Jobs = {j1}
  Workers = {w1, w2}
  Locations = {l1}
  Keys = {k1}
  Callers = {c1}
  Requests <- AllRequests
  MaxAttempts = 2
  MaxFaults = 1
CHECK_DEADLOCK FALSE
PROPERTIES
  CancelNeverRetried
