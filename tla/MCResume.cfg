CONSTANTS
  w1 = w1
  w2 = w2
  Workers <- MCWorkers
  Modes = {"sync", "async"}
  Keeps = {0, 2, 3}
  Games = 2
  Total = 6
  Trigger = 2
  SaveFreq = 1
  Ahead = 2
  MaxVersion = 7
  MaxCrash = 2
  MaxRaise = 1
SPECIFICATION Spec
INVARIANTS
  TypeOK
  TrackedIsWhole
  SyncResumesExactly
  AsyncDriftIsBounded
