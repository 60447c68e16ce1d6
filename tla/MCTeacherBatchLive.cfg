SPECIFICATION FairSpec
CONSTANTS
  p1 = p1
  p2 = p2
  r1 = r1
  r2 = r2
  r3 = r3
  Prompts = {p1, p2}
  Rollouts <- MCRollouts
  PromptOf <- MCPromptOf
  Dispatched <- MCShrinking
  MaxConcurrency <- MCMaxConcurrency
  MaxStep = 2
  MaxErrorStep = 1
PROPERTIES
  BatchEnds
  SessionsEnd
  BarrierRefinement
