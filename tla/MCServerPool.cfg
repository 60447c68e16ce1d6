SPECIFICATION FairSpec
CONSTANTS
  s1 = s1
  s2 = s2
  h1 = h1
  r1 = r1
  v2 = v2
  v0 = v0
  Standalone = {s1, s2}
  Hybrid = {h1}
  Training = {r1}
  Validation = {v0, v2}
  ValidatedAt <- MCValidatedAt
  Room <- MCRoom
  Setups <- MCSetups
  Ahead <- MCAhead
  Response = 2
  Budget = 2
  CacheSize = 2
  PartialRollout = TRUE
  TestFreq = 2
  MaxVersion = 2
  None = None
  Mixed = Mixed
CHECK_DEADLOCK FALSE
INVARIANTS
  TypeOK
  CountersFollowRequests
  TokensFromWholeWeights
  LabelsBracketTokens
  BudgetSurvivesResumption
  ValidationIsOfOneVersion
PROPERTIES
  WithdrawnGetsNothing
  AllEnd
