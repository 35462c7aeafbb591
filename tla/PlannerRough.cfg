SPECIFICATION Spec
CONSTANTS
  Stops <- MCStops
  NoStop <- MCNoStop
  Lines <- TwoLines
  linie <- VillageLinie
  course <- VillageCourse
  StopDocs <- EndsLast
  MaxSearches = 1
  Lag = 1
  UserWaits = TRUE
  NetworkLoses = TRUE
INVARIANTS ShownServesBoth
CHECK_DEADLOCK FALSE
