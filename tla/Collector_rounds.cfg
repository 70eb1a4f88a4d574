\* Two runs of two rounds with three faults.
CONSTANTS
  Rounds = 2
  Retries = 2
  Attempts = 2
  Runs = 2
  MaxFaults = 3
  PipeLength = 2
SPECIFICATION Spec
INVARIANTS
  PutsBackOrKeeps
PROPERTIES
  FileKeepsTheSchedule
  LabelsAreRight
\* The tool stops when it is done.
CHECK_DEADLOCK FALSE
