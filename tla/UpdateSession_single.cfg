SPECIFICATION Spec
CONSTANTS
  NoValue = NoValue
  Empty = Empty
  p1 = p1
  p2 = p2
  Proc = {p1}
  Version = {1, 2}
  AppVersion = 1
  Critical = {}
  Mode <- AllModes
  Configured <- DailyHives
  Host <- AllHosts
  Horizon = 3
  MaxFaults = 1
INVARIANTS
  TypeOK
  InstalledIsInstalledOnConsole
PROPERTIES
  RefusalSticks
  SkipWasAsked
  SkipHonoured
  SkipLapses
  ChecksSpacedUnlessFault
