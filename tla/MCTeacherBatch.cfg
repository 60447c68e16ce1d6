SPECIFICATION Spec
CONSTANTS
  p1 = p1
  p2 = p2
  r1 = r1
  r2 = r2
  r3 = r3
  Prompts = {p1, p2}
  Rollouts <- MCRollouts
  PromptOf <- MCPromptOf
  Dispatched <- MCDispatched
  MaxConcurrency <- MCMaxConcurrency
  MaxStep = 2
  MaxErrorStep = 1
INVARIANTS
  TypeOK
  CritiqueFirst
  BatchAllOrNothing
  SlotAccounting
  NoStrandedWaiter
  FinishedPromptIsComplete
SYMMETRY MCSymmetric
