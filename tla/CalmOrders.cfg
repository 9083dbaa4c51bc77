CONSTANTS
  v1 = v1
  v2 = v2
  o1 = o1
  o2 = o2
  Validator = {v1, v2}
  Order = {o1, o2}
  MaxAssertions = 2
  Eligible <- EligiblePairs
  Paths = {"text", "assertions"}
  MaxFaults = 0
  MaxRepeats = 0
SPECIFICATION MCSpec
INVARIANT PostBelongsToOrder
PROPERTIES LightGetsResult LightExpectedAreRecorded ChainGetsResult
CHECK_DEADLOCK FALSE
