SPECIFICATION Spec
CONSTANTS
  Files <- MCFiles
  InitMax = 64
INVARIANTS ReadsWhole InAllocation
PROPERTY Ends
CHECK_DEADLOCK FALSE
