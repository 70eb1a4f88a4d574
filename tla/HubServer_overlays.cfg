\* Three weeks of pauses and adjustments.  A programme holds one watering, so
\* some edits are refused and some programmes cannot be served.
CONSTANTS
  GenerationMax = 99
  Captured <- SomeCaptured
  RestrictGenerations = FALSE
  ConfiguredGeneration = 98
  SlotsPerWeek = 2
  Capacity = 1
  Overrun = {{4}}
  Names = {"home"}
  ConfigEvents <- OneSchedule
  ActiveName = "home"
  EditEvents = {{0, 1}}
  PauseSpans = {0, 1}
  AdjustSpans = {0, 2}
  Commands = {}
  Faults = {}
  h1 = h1
  h2 = h2
  Handlers = {h1}
  MaxEvents = 2
  MaxTime = 6
SPECIFICATION Spec
INVARIANTS
  IInv
  SavedSettingsInForce
  AtMostAWeekBehind
