CONSTANTS
  v1 = v1
  v2 = v2
  Validator = {v1, v2}
  Order = {o1}
  MaxAssertions = 1
  Eligible <- EligiblePairs
  Paths = {"assertions"}
  MaxFaults = 1
  MaxRepeats = 0
SPECIFICATION Spec
PROPERTY RedeliveryIsIdempotent
CHECK_DEADLOCK FALSE
