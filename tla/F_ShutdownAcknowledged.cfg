SPECIFICATION Spec
CONSTANTS
  Texts <- MCTexts
  Signals <- MCSignals
  Hits <- MCHits
  Starts <- MCStarts
  Budget = 4
CHECK_DEADLOCK FALSE
INVARIANT
  ShutdownIsAcknowledged
