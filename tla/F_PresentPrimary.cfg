SPECIFICATION Spec
CONSTANTS
  Visitors = {va, vb}
  None = None
  Tracks = {t1}
  NoTrack = NoTrack
  Graces = {1}
  CandidateMaxTurns = 1
  CandidateTtl = 1
  AgeCap = 1
  MaxSession = 1
PROPERTY PresentPrimaryStays
