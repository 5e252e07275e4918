SPECIFICATION Spec
CONSTANTS
  Visitors = {va, vb}
  None = None
  Tracks = {t1, t2}
  NoTrack = NoTrack
  Graces = {0, 1}
  CandidateMaxTurns = 2
  CandidateTtl = 1
  AgeCap = 1
  MaxSession = 1
SYMMETRY Symmetry
VIEW View
INVARIANTS
  TypeOK
  PendingCandidate
  TrackFollowsPrimary
PROPERTIES
  NoHardSwitch
