\* The tool stops when the samples are too few.
CONSTANTS
  Width = 3
  Padding = {3}
  Unreachable = {1}
  Checks = {0, 1}
  Checksums <- SomeChecksums
  Files <- SomeFiles
SPECIFICATION Spec
INVARIANTS
  IInv
  PredictionsAreRight
  RankIsDimension
  AnsweredInTheSpan
  NothingMissingIsEnough
PROPERTIES
  LoopsEnd
CHECK_DEADLOCK FALSE
