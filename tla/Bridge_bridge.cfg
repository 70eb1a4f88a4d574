\* One press, one pause or adjustment and a fault, over two intervals.
CONSTANTS
  GenerationMax = 3
  Captured <- SomeCaptured
  RestrictGenerations = FALSE
  ConfiguredGeneration = 2
  Interval = 2
  MaxLag = 1
  MaxTime = 7
  Presses = {"OFF"}
  Spans = {1}
  MaxEvents = 1
  MaxFaults = 1
  Company = 1
SPECIFICATION FairSpec
INVARIANTS
  ShowsTheTruth
  OverlaysLapseInTime
  OfflineWhenGone
PROPERTIES
  HomeCatchesUp
\* With neither hub nor broker there, the refresher is asleep in the end.
CHECK_DEADLOCK FALSE
