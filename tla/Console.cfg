CONSTANTS
  c1 = c1
  c2 = c2
  Call = {c1, c2}
  KindsOf <- MCKinds
  Limits <- MCLimits
  NoClient = NoClient
  MaxEvents = 2
  u1 = u1
  u2 = u2
  m1 = m1
  m2 = m2
  mx = mx
  Update = {u1, u2}
  Model = {m1, m2, mx}
  Temperature = {0, 1}
  Rejected = {mx}
  Kinds = {"validator", "generator"}
  DefaultModel = m1
  DefaultTemperature = 0
  Keep = Keep
  None = None
  MaxRestarts = 2
  v1 = v1
  v2 = v2
  v3 = v3
  Voter = {v1, v2, v3}
  Kind <- MCKind
  DefaultWeights <- MCDefaultWeights
  Policies <- MCPolicies
  Profiles <- MCProfiles
  OldVoters = {v3}
  NoProfile = NoProfile
  generator = generator
  router = router
  local = local
  top = top
  middle = middle
  low = low
  other = other
  Target = {generator, router, local}
  Work <- MCWork
  LanguageModel = {top, middle, low, other}
  Curated <- MCCurated
  Catalogs <- MCCatalogs
  Deployed <- MCDeployed
  Caps = {4, 11, 60, Unknown}
  Assertions = 2
  Unknown = Unknown
SPECIFICATION MCSpec
INVARIANTS QuotasAreAccounted DocumentIsHonest NewsCostIsCapped
PROPERTY VerdictFollowsVotes
CHECK_DEADLOCK FALSE
