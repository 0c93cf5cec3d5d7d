SPECIFICATION Spec
CONSTANTS
  l1 = l1
  l2 = l2
  a = a
  b = b
  c = c
  None = None
  Locs = {l1, l2}
  Chunks = {"a1", "a2", "b1", "c1"}
  ContentOf <- MCContentOf
  SizeOf <- MCSizeOf
  Filters = {None, l1}
  Home <- MCHome
  TopK = 3
  Budget = 3
  MaxContent = 1
  MaxBlocks = 2
  MaxText = 2
  MaxEdits = 1
INVARIANTS StreamGrammar  ReportIsTrue EvidenceIsFair AnswerCites
 
