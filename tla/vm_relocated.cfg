SPECIFICATION Spec
CONSTANTS
  MaxLen = 3
  Codes <- MCPrograms
  Depth = 2
  Cap = 17
  Deadline = 1
  MaxCost = 1
  MaxImm = 5
INVARIANT Contained
