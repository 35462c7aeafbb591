SPECIFICATION Spec
CONSTANTS
  Stops <- HamletStops
  NoStop <- MCNoStop
  Lines <- TwoLines
  linie <- HamletLinie
  course <- HamletCourse
  StopDocs <- HamletDocs
  MaxSearches = 2
  Lag = 0
  UserWaits = FALSE
  NetworkLoses = FALSE
INVARIANTS NoLineTwice AllShownWhenOver
PROPERTIES AllDirectShown SearchesEnd LatestAddsDirect WorkIsUsedUp
CHECK_DEADLOCK FALSE
