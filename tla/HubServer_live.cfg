\* Everything the hub is told to do gets done, for any losses that do not
\* last for ever.
CONSTANTS
  GenerationMax = 99
  Captured <- SomeCaptured
  RestrictGenerations = FALSE
  ConfiguredGeneration = 1
  SlotsPerWeek = 2
  Capacity = 2
  Overrun = {}
  Names = {"home"}
  ConfigEvents <- OneSchedule
  ActiveName = "home"
  EditEvents = {}
  PauseSpans = {}
  AdjustSpans = {}
  Commands = {"water"}
  Faults = {"reboot"}
  h1 = h1
  h2 = h2
  Handlers = {h1, h2}
  MaxEvents = 2
  MaxTime = 2
SPECIFICATION FairSpec
PROPERTIES
  NoLateRepetition
  CommandIsCleared
  HubCatchesUp
