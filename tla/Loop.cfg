SPECIFICATION MCFairSpec
CONSTANTS
  s1 = s1
  s2 = s2
  d1 = d1
  d2 = d2
  Sources <- MCSources
  Defaults <- MCDefaults
  Broken = Broken
  NoConfig = NoConfig
  Debounce = 1
  Retry = 3
  Backoff = 2
  MaxFaults = 2
  MaxChanges = 1
  MaxEdits = 1
  MaxMoves = 1
  MaxCrashes = 1
INVARIANTS QuietMeansCurrent IInv
PROPERTIES SourcesFollowed DefaultsFollowed
