SPECIFICATION FairSpec
CONSTANTS
  Contexts = 1
  Blocks = 2
  Kind <- BothKinds
CHECK_DEADLOCK FALSE
PROPERTIES
  NothingLeaks
  AnswersAlways
