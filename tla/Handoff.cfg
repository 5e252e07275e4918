SPECIFICATION FairHandoffSpec
CONSTANTS
  Visitors = {va}
  None = None
  Tracks = {t1}
  NoTrack = NoTrack
  Graces = {1}
  CandidateMaxTurns = 1
  CandidateTtl = 1
  AgeCap = 1
  MaxSession = 4
  Requests = {"turn", "config", "select", "create"}
  LlmMayFail = FALSE
  MaxQueue = 1
VIEW AskingView
INVARIANTS
  SettledAgreement
  OnlyLiveSessionsOpen
PROPERTIES
  PromotesThisAbsence
  ReleaseReachesRuntime
  TurnsAreServed
