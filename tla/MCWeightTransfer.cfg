SPECIFICATION FairSpec
CONSTANTS
  a = a
  b = b
  Ranks = {a, b}
  Bucket = 2
  Sizes <- MCSizes
  Junk = Junk
CHECK_DEADLOCK FALSE
INVARIANTS
  TypeOK
  LoadedIsSent
  NoDataRace
  AssertionsHold
PROPERTIES
  TransferEnds
