SPECIFICATION Spec
CONSTANTS
  Total = 6
  PendingSize = 1
  Required = 1
  Trigger = 1
  MaxRequired = 2
  MaxConcurrent = 2
  MaxQueueSize = 2
  SaveFreq = 1
  TestFreq = 2
  Faulty = {2}
  LongTraining = FALSE
CHECK_DEADLOCK FALSE
INVARIANTS
  TypeOK
  StalenessBudget
  EverySampleOnce
  ConcurrencyBound
  EndIsComplete
  EndMarkSurvives
  ResumeEventMeansRunning
