SPECIFICATION Spec
CONSTANTS
  x = x
  y = y
  z = z
  s = s
  t = t
  r1 = r1
  r2 = r2
  None = None
  Gone = Gone
  N = 4
  Files = {x, y, z}
  TextOf <- MCTextOf
  LocOf <- MCLocOf
  PathOf <- MCPathOf
  From = s
  To = t
  Readers = {r1, r2}
  Limit = 2
  MaxChanges <- MCMaxChanges
SYMMETRY Symmetry
INVARIANTS  ReportIsOne GroupsAreTrue ListingIsFair
