CONSTANTS
  Length = 3
  Topics <- SmallTopics
  Type = "rag"
  Strategy = "LOCAL"
  MaxInFlight = 2
  MaxAttempts = 2
  Budget = 2
  RetryBase = 1
  Threshold = 2
  Cooldown = 1
  MaxCrashes = 1
  MaxUnsent = 1
SPECIFICATION FairSpec
INVARIANTS SlotsBalance NoSilentDrop FailuresAreRequests
PROPERTIES LossIsBounded EveryRequestEnds
CHECK_DEADLOCK FALSE
