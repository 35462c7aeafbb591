SPECIFICATION Spec
CONSTANTS
  Stops <- MCStops
  NoStop <- MCNoStop
  Lines <- TwoLines
  linie <- TownLinie
  course <- TownCourse
  StopDocs <- EndsFirst
  MaxSearches = 2
  Lag = 0
  UserWaits = TRUE
  NetworkLoses = FALSE
INVARIANTS DirectInv ShownIsDirect
PROPERTIES KeepsPromise
CHECK_DEADLOCK FALSE
