CONSTANTS
  Kinds <- AllKinds
  Wholes <- SomeWholes
  Tongues = {"zh", "en"}
  MaxDeltas = 3
  MaxSentences = 2
SPECIFICATION Spec
INVARIANTS DeltasKeepTheLimits HeardOnce
PROPERTIES DeliveryIsOrdered
CHECK_DEADLOCK FALSE
