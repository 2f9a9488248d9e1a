SPECIFICATION FairSpec
CONSTANTS
  Interface <- BothInterfaces
  Shows = 2
  Reports = 1
CHECK_DEADLOCK FALSE
INVARIANTS
  TypeOK
  UsedIsAlive
  PutAway
  ShownIsCurrent
PROPERTIES
  CancelTold
  StopReturns
  StoppedIsDeleted
