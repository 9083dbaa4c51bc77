CONSTANTS
  c1 = c1
  Validator = {v1, v2}
  Category = {c1}
  Configured <- DeployedForC1
  Refresher = {r1, r2}
  MaxChanges = 2
  MaxFaults = 0
SPECIFICATION FairSpec
PROPERTY ConfigCatchesUp
CHECK_DEADLOCK FALSE
