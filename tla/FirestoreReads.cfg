CONSTANTS
  stops = stops
  get1 = get1
  live = live
  Targets = {stops}
  Gets = {get1}
  Lives = {live}
  asks <- AskTheSame
  MaxVersion = 2
  MaxFaults = 2

SPECIFICATION Spec

INVARIANTS
  TypeOK
  TrackerSound
  InSyncIsFresh
  ToldAtRest

PROPERTIES
  KeepsReading
  GetsAnswered

\* Everything has been asked and told, and nothing breaks any more.
CHECK_DEADLOCK FALSE
