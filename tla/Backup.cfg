SPECIFICATION Spec
CONSTANTS
  r1 = r1
  r2 = r2
  Runners = {r1, r2}
  MaxTime = 2
  MaxFaults = 1
  Interrupted <- MCInterrupted
  Day = 1
  Week = 2
  Month = 3
  Daily = 1
  Weekly = 2
  Monthly = 1
CHECK_DEADLOCK FALSE
SYMMETRY Symmetry
INVARIANTS RetainedIsRestorable MarkedIsWhole RestoreFailsByPrune
