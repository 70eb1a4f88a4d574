\* Every chain around the limits.
CONSTANTS
  CycleUnits = 2016
  Room = 211
  Chains <- EdgeChains
SPECIFICATION Spec
INVARIANTS
  MisreadExactlyIfAmbiguous
\* decode_schedule returns: the last state has no successor.
CHECK_DEADLOCK FALSE
