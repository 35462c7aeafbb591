SPECIFICATION Spec
CONSTANTS
  Stops <- TwoStops
  StopDocs <- TwoDocs
  name <- PoleNames
  NoStop <- MCNoStop
  Blank <- MCBlank
  Gone = Gone
  Rows <- OneRow
  Choosers = {c1}
  Lists = {l1}
  MaxTaps = 2
  MaxLookups = 0
  MaxDepth = 4
CHECK_DEADLOCK FALSE
PROPERTIES WybierzChooses
