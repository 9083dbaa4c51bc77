CONSTANTS
  v1 = v1
  v2 = v2
  Validator = {v1}
  Order = {o1}
  MaxAssertions = 1
  Eligible <- EligiblePairs
  Paths = {"assertions"}
  MaxFaults = 1
  MaxRepeats = 0
SPECIFICATION Spec
INVARIANTS ClosedMeansExpectedDone PendingNeverUnderstates CompletedAreOnChain
CHECK_DEADLOCK FALSE
