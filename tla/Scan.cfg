SPECIFICATION FairSpec
CONSTANTS
  e1 = e1
  e2 = e2
  p1 = p1
  p2 = p2
  s1 = s1
  s2 = s2
  None = None
  Entries = {e1, e2}
  Paths = {p1, p2}
  Shas = {s1, s2}
  MaxAttempts = 2
  MaxEdits = 1
  MaxFaults = 2
INVARIANT OneEntryPerPath
PROPERTIES FoldsWhatItSaw  
