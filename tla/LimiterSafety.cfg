\* Late steps, lost EXPIREs and flushes over three windows.
SPECIFICATION Spec
CONSTANTS
  c1 = c1  c2 = c2  c3 = c3  c4 = c4
  Check = {c1, c2, c3, c4}
  Limit = 1
  WindowLen = 2
  MaxTime = 4
  Faults = {"cut", "flush"}
SYMMETRY CheckSymmetry
INVARIANTS
  TypeOK
  NeverTightens
  WindowBudget
CHECK_DEADLOCK FALSE
