SPECIFICATION Spec
CONSTANTS
  Docs = 5
  name <- FiveStops
  Blank <- MCBlank
  Spots <- TwoSpots
  Maps <- AtHome
INVARIANT ShowsFourNearest
CHECK_DEADLOCK FALSE
