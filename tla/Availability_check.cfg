SPECIFICATION Spec
CONSTANTS
  ChannelName <- Channels
  FieldOrder <- Fields
  Digit <- Digits
  System = 2
  Events = 6
  Depth = 3
  MaxLong = 20
  Versions <- VersionTexts
  Consoles = {TRUE, FALSE}
CHECK_DEADLOCK FALSE
CONSTRAINT
  ConsoleIsShort
INVARIANTS
  TypeOK
  ChannelHonoured
  AnswerIsTrue
  FailureTold
  VersionOrder
PROPERTIES
  TextIsOwn
  ChosenSuits
