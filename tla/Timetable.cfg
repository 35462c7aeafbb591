SPECIFICATION Spec
CONSTANTS
  Lines <- TwoLines
  MaxVersion = 2
  listing <- TwoListings
  hours <- TwoVersions
  ograniczony <- Restricted
INVARIANTS TypeOK HeaderTellsDeparture
PROPERTIES EndsAtPick NeverToOther
