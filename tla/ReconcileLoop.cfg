SPECIFICATION LoopSpec
CONSTANTS
  e1 = e1
  e2 = e2
  e3 = e3
  e4 = e4
  p1 = p1
  p2 = p2
  p3 = p3
  s1 = s1
  s2 = s2
  Add = Add
  Entries = {e1, e2, e3, e4}
  Paths = {p1, p2, p3}
  Shas = {s1, s2}
SYMMETRY EntrySymmetry
INVARIANTS LoopIsReconcile NothingLost
