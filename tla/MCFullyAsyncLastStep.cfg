SPECIFICATION Spec
CONSTANTS
  Total = 3
  PendingSize = 1
  Required = 1
  Trigger = 2
  MaxRequired = 2
  MaxConcurrent = 2
  MaxQueueSize = 2
  SaveFreq = 1
  TestFreq = 2
  Faulty = {}
  LongTraining = TRUE
INVARIANT
  LastStepIsSaved
