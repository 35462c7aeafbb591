SPECIFICATION Spec
CONSTANTS
  Docs = 5
  name <- FiveStops
  Blank <- MCBlank
  Spots <- TwoSpots
  Maps <- StillOrMoving
INVARIANTS TypeOK NamesDistinct FirstIsNearest ShiftIsTheLoop
PROPERTIES FirstNeverFarther RowsSettle
CHECK_DEADLOCK FALSE
