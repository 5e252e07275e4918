SPECIFICATION PresenceSpec
CONSTANTS
  Visitors = {va}
  None = None
  Tracks = {1, 2}
  NoTrack = NoTrack
  Graces = {2}
  CandidateMaxTurns = 1
  CandidateTtl = 1
  AgeCap = 2
  MaxSession = 1
  People = {p}
  Nobody = Nobody
  MaxTrack = 2
  EnterFrames = 2
  LeaveTicks = 1
  SilenceTicks = 1
  MissingTicks = 0
  ClockCap = 2
  MaxPending = 2
  Operations = {"stop", "browser", "switch"}
  Reconfigures = TRUE
  MaxKinds = 1
VIEW View
INVARIANTS
  VisionTypeOK
  EventsTellPresence
PROPERTIES
  ReleaseIsDue
