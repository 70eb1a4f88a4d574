\* An imported config.yaml, edited, saved, lost and found again.
CONSTANTS
  Payload <- FromTheApp
  Config <- ImportedConfig
  ConfigActive = "home"
  Calls <- SomeCalls
  Lists <- SomeLists
  PauseWeeks = {0, 1}
  Adjustments <- SomeAdjustments
  Tampered <- SomeFiles
  Capacity = 13
  Overrun <- LateLists
  MaxEvents = 3
  MaxWeek = 2
SPECIFICATION Spec
INVARIANTS
  TypeOK
  RefusalLeavesNoTrace
  RestartChangesNothing
  
  ModeAndTimeAreOneEdit
  EditTouchesOneSlot
  ImportKeepsWaterings

  
