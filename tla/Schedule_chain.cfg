\* Clock and solar schedules, plain, paused and adjusted.  A tick is a second.
CONSTANTS
  GapUnit = 300
  MinuteTicks = 60
  CycleUnits = 2016
  MaxGapUnits = 199
  FiringLists <- SomeFirings
  Orders <- SomeOrders
  Sun <- Spring
SPECIFICATION Spec
INVARIANTS
  PulledInOrder
  InnerGapsAreShort
  LastGapIsTheRest
  RoundingIsBounded
  EveryDayIsServed
  AdjustedTheRightWay
\* build returns: the last state has no successor.
CHECK_DEADLOCK FALSE
