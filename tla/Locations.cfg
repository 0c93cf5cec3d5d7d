SPECIFICATION Spec
CONSTANTS
  l1 = l1
  l2 = l2
  q1 = q1
  q2 = q2
  q3 = q3
  k1 = k1
  k2 = k2
  None = None
  Locs = {l1, l2}
  Requests = {q1, q2, q3}
  Keys = {k1, k2}
  Overlapping <- MCOverlapping
  MaxFaults = 1
SYMMETRY Symmetry
INVARIANTS TypeOK LostUpdateNeedsRace OverlapNeedsRace OrphanNeedsRace OneJobPerKey
