SPECIFICATION Spec
CONSTANTS
  StopDocs <- ThreeDocs
  Positions <- Spots
  NoFix <- Off
  Streets <- TwoStreets
  MaxBuilds = 4
  MaxChanges = 3
  MaxAsked = 6
INVARIANTS TypeOK LeavesAllButLast RoundsOnlyFromChanges
PROPERTIES NeverAtRest RowsRestWhenLeft
CHECK_DEADLOCK FALSE
