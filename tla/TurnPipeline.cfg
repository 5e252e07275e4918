SPECIFICATION Spec
CONSTANTS
  MaxTurns = 2
  Weights <- MCWeights
  Window = 3
  Threshold = 2
  Budget = 2
CHECK_DEADLOCK FALSE
INVARIANTS
  TurnTypeOK
  StateIsContinuous
  WindowIsContinuous
  ReflectedIsSummarised
  NoOrphanMaintenance
PROPERTY
  LockComesBack
