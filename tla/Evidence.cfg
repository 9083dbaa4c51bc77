CONSTANTS
  r1 = r1
  r2 = r2
  d1 = d1
  d2 = d2
  d3 = d3
  same = same
  other = other
  key = key
  Request = {r1, r2}
  Key = {key}
  KeyOf <- MCKeyOf
  Doc = {d1, d2, d3}
  DomainOf <- MCDomainOf
  Official = {d1, d3}
  Answers <- MCAnswers
  Deployments <- MCDeployments
  MaxResults = 2
  CandidateBudget = 3
  Target = 2
  InitialBatch = 1
  PerDomain = 1
  PerSource = 1
  MaxContexts = 1
  MaxExtracts = 1
  a = a
  b = b
  www = www
  plain = plain
  private = private
  Url = {a, b, www, plain, private}
  Wanted = {a, plain, private}
  Public = {a, b, www, plain}
  Secure = {a, b, www}
  Variant <- WwwOfA
  MaxRedirects = 1
  MaxAttempts = 2
  Budgets = {0, 3}
  RetryBase = 1
  RetryMax = 2
  RetryAfter = {0, 3}
  MaxElapsed = 4
  Id = {2}
  Source = {plainSource, original, unnavigable}
  Original = {original}
  Navigable = {plainSource, original}
  MaxDelivered = 2
  MaxClaims = 2
  topic = topic
  Resolve = {r1, r2}
  TopicOf <- MCTopicOf
  Domain = {siteA, siteB}
  Settings <- MCSettings
  NoRoute = NoRoute
  NoProfile_ = NoProfile_
  Refresh = 2
  ShortRefresh = 1
  LastTime = 2
  MaxRedeploys = 1
SYMMETRY Sites
SPECIFICATION MCSpec
INVARIANTS PolicyIsKept NoCandidateLeft CitableIsKept ChainIsSafe FetchIsAccounted
INVARIANTS DocumentaryIsGrounded RoutesAreFounded
CHECK_DEADLOCK FALSE
