CONSTANTS
  v1 = v1
  v2 = v2
  Validator = {v1, v2}
  Order = {o1}
  MaxAssertions = 2
  Eligible <- EligiblePairs
  Paths = {"assertions"}
  MaxFaults = 1
  MaxRepeats = 1
SPECIFICATION Spec
CONSTRAINT Explored
INVARIANTS ClosedMeansExpectedDone PendingNeverUnderstates ClosedMeansAllAnswered ExactAtRest
PROPERTIES FirstAnswerWins ImplementsLifecycle
CHECK_DEADLOCK FALSE
