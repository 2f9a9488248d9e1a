SPECIFICATION Spec
CONSTANTS
  ChannelName <- Channels
  FieldOrder <- Fields
  Digit <- Digits
  System = 2
  Events = 4
  Depth = 3
  MaxLong = 20
  Versions <- VersionTexts
  Consoles = {FALSE}
CHECK_DEADLOCK FALSE
CONSTRAINT
  ConsoleIsShort
INVARIANTS
  BetaIsOlder
