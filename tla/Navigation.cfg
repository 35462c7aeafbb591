SPECIFICATION Spec
CONSTANTS
  Stops <- TwoStops
  StopDocs <- TwoDocs
  name <- PoleNames
  NoStop <- MCNoStop
  Blank <- MCBlank
  Gone = Gone
  Rows <- OneRow
  Choosers = {c1, c2}
  Lists = {l1, l2}
  MaxTaps = 2
  MaxLookups = 1
  MaxDepth = 4
SYMMETRY Alike
CHECK_DEADLOCK FALSE
INVARIANTS TypeOK LatePagesOverTheirs ReturnsToHome
PROPERTIES RootStays PicksTapped
