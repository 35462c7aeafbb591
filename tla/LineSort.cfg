SPECIFICATION Spec
CONSTANT Inputs <- MCInputs
INVARIANTS
  AscendingWhenDone
  SameLines
  SortInv
PROPERTY SortEnds
CHECK_DEADLOCK FALSE
