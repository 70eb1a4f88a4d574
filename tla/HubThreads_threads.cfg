\* A change from MQTT and an expiring overlay against the requests.
CONSTANTS
  GenerationMax = 99
  Captured <- SomeCaptured
  RestrictGenerations = FALSE
  ConfiguredGeneration = 98
  mqtt = mqtt
  refresher = refresher
  h1 = h1
  h2 = h2
  Handlers = {h1}
  Commands = {"water"}
  MaxChanges = 1
  MaxRefreshes = 1
  MaxLosses = 1
SPECIFICATION FairSpec
INVARIANTS
  NoTornProgramme
  FileIsTheTruth
PROPERTIES
  HubSettles
