CONSTANTS
  Drafts <- MCDrafts
  Manual <- MCManual
  MaxBatch = 2
  MaxProposals = 2
  MaxTurns = 2
  MaxRequests = 2
SPECIFICATION FairSpec
INVARIANTS MemoryTypeOK CommittedIsApplied DecidedOnce ReplyIsCommittedAtOnce InfluenceHasItsMemories
PROPERTIES TaskEnds
CHECK_DEADLOCK FALSE
