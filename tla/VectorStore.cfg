SPECIFICATION Spec
CONSTANTS
  e1 = e1
  e2 = e2
  k1 = k1
  k2 = k2
  i1 = i1
  i2 = i2
  i3 = i3
  i4 = i4
  None = None
  Entries = {e1, e2}
  Structures = {k1, k2}
  Ids = {i1, i2, i3, i4}
  MaxScans = 2
  MaxRequests = 2
  MaxCrashes = 1
  MaxLosses = 1
CHECK_DEADLOCK FALSE
SYMMETRY Symmetry
INVARIANTS IndexedIsSearchable 
PROPERTY CleanupSparesIndexed
