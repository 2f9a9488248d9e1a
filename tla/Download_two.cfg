SPECIFICATION Spec
CONSTANTS
  Contexts = 2
  Blocks = 2
  Kind <- BothKinds
CHECK_DEADLOCK FALSE
INVARIANTS
  TypeOK
  UsedIsAlive
  SinkOutlivesWorker
  YesIsWhole
PROPERTIES
  AnswersTruly
