SPECIFICATION FairSpec
CONSTANTS
  none = none
  mounts1 = mounts1
  mounts2 = mounts2
  gone = gone
  Wants <- MCWants
  NoExtras = none
  Poorer <- MCPoorer
  Refused = {}
  NoContainer = NoContainer
  NoRecord = NoRecord
  MaxFaults = 0
  MaxCrashes = 0
  MaxLosses = 0
  MaxMoves = 0
  MaxChanges = 1
PROPERTIES StaleExtrasDropped
