CONSTANTS
  a = a
  b = b
  Pages <- TwoPages
  QueueMax = 2
  MaxSessions = 1
  MaxFrames = 4
SPECIFICATION FairSpec
INVARIANTS SpeechTypeOK
PROPERTIES FramesAreOrdered LeavingEndsTheSession
CHECK_DEADLOCK FALSE
