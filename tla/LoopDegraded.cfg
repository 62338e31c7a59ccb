SPECIFICATION Spec
CONSTANTS
  s1 = s1
  s2 = s2
  d1 = d1
  d2 = d2
  Sources <- MCSources
  Defaults <- MCDefaults
  Broken = Broken
  NoConfig = NoConfig
  Debounce = 1
  Retry = 3
  Backoff = 2
  MaxFaults = 1
  MaxChanges = 0
  MaxEdits = 0
  MaxMoves = 0
  MaxCrashes = 0
INVARIANTS DiscoveryIsRetried
