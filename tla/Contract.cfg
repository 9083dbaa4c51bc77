CONSTANTS
  a1 = a1
  a2 = a2
  c1 = c1
  c2 = c2
  d1 = d1
  d2 = d2
  Address = {a1, a2}
  Owner = a1
  CategoryId = {c1, c2}
  Digest = {d1, d2}
  NoDigest = NoDigest
  Verdict = {T}
  MaxPosts = 2
  MaxLen = 2
SPECIFICATION MCSpec
INVARIANTS TypeOK OneValidationEach CidIsNewestPost RegistryIsConsistent IndexIsExact
PROPERTIES ValidationsAreDurable RequestsReachTheCategory
