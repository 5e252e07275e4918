SPECIFICATION Spec
CONSTANTS
  Moods <- MCMoods
  Tests <- MCTests
  ApiCommands <- MCApiCommands
  WireMax = 2
  Budget = 4
CHECK_DEADLOCK FALSE
INVARIANTS
  BodyTypeOK
  DisarmedViewIsTrue
  StoppedAfterSequence
PROPERTIES
  OneMotionAtATime
  MotionEnds
