SPECIFICATION FairSpec
CONSTANTS
  Total = 4
  PendingSize = 1
  Required = 1
  Trigger = 2
  MaxRequired = 3
  MaxConcurrent = 2
  MaxQueueSize = 3
  SaveFreq = 1
  TestFreq = 2
  Faulty = {2}
  LongTraining = TRUE
PROPERTIES
  TrainingEnds
  RollouterEnds
