\* A confirmation arrives between the two statements of _queue.
CONSTANTS
  GenerationMax = 99
  Captured <- SomeCaptured
  RestrictGenerations = FALSE
  ConfiguredGeneration = 1
  mqtt = mqtt
  refresher = refresher
  h1 = h1
  h2 = h2
  Handlers = {h1}
  Commands = {"water"}
  MaxChanges = 2
  MaxRefreshes = 1
  MaxLosses = 1
SPECIFICATION Spec
PROPERTIES
  OnlyEchoedCommandsAreCleared
