\* Two requests may be in flight, and the five captured generations come round.
CONSTANTS
  GenerationMax = 9
  Captured <- SomeCaptured
  RestrictGenerations = TRUE
  ConfiguredGeneration = 7
  SlotsPerWeek = 2
  Capacity = 2
  Overrun = {}
  Names = {"home", "away"}
  ConfigEvents <- TwoSchedules
  ActiveName = "home"
  EditEvents = {{}, {0}}
  PauseSpans = {}
  AdjustSpans = {}
  Commands = {"water", "stop"}
  Faults = {"restart", "reboot", "save"}
  h1 = h1
  h2 = h2
  Handlers = {h1, h2}
  MaxEvents = 2
  MaxTime = 2
SYMMETRY ThreadSymmetry
SPECIFICATION Spec
INVARIANTS
  HubIsCurrent
PROPERTIES
  ClearedOnlyAfterActing
  Delivers
