SPECIFICATION FairSpec
CONSTANTS
  s1 = s1
  s2 = s2
  s3 = s3
  None = None
  Entries = {}
  Paths = {}
  Shas = {s1, s2}
  Unreadable = {s2}
  MaxEdits = 2
  MaxRequests = 1
  MaxAborts = 1
INVARIANT VersionWasObserved
 
