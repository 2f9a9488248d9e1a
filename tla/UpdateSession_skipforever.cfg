SPECIFICATION Spec
CONSTANTS
  NoValue = NoValue
  Empty = Empty
  p1 = p1
  p2 = p2
  Proc <- Copies
  Version = {1, 2}
  AppVersion = 0
  Critical = {}
  Mode <- PairModes
  Configured <- DailyHives
  Host <- DesktopHosts
  Horizon = 2
  MaxFaults = 0
INVARIANTS
  SkipIsDated
