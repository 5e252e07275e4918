SPECIFICATION HandoffSpec
CONSTANTS
  Visitors = {va}
  None = None
  Tracks = {t1}
  NoTrack = NoTrack
  Graces = {1}
  CandidateMaxTurns = 1
  CandidateTtl = 1
  AgeCap = 1
  MaxSession = 4
  Requests = {"turn", "match", "confirm", "reset", "reload"}
  LlmMayFail = TRUE
  MaxQueue = 1
VIEW View
INVARIANTS
  HandoffTypeOK
  RunningLoopIsCurrent
