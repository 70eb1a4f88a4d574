\* A restart gives out generations the hub already holds.
CONSTANTS
  GenerationMax = 99
  Captured <- SomeCaptured
  RestrictGenerations = FALSE
  ConfiguredGeneration = 1
  SlotsPerWeek = 2
  Capacity = 2
  Overrun = {}
  Names = {"home"}
  ConfigEvents <- OneSchedule
  ActiveName = "home"
  EditEvents = {}
  PauseSpans = {}
  AdjustSpans = {}
  Commands = {}
  Faults = {"restart"}
  h1 = h1
  h2 = h2
  Handlers = {h1}
  MaxEvents = 2
  MaxTime = 2
SPECIFICATION Spec
INVARIANTS
  HubAlwaysRefetches
