CONSTANTS
  c1 = c1
  Validator = {v1, v2}
  Category = {c1}
  Configured <- DeployedForC1
  Refresher = {r1, r2}
  MaxChanges = 2
  MaxFaults = 2
SPECIFICATION Spec
INVARIANTS EventIsAuthoritative RegistryKeepsEvents
PROPERTY RefreshPreserves
CHECK_DEADLOCK FALSE
