SPECIFICATION FairSpec
CONSTANTS
  none = none
  mounts1 = mounts1
  mounts2 = mounts2
  gone = gone
  Wants <- MCWants
  NoExtras = none
  Poorer <- MCPoorer
  Refused = {gone}
  NoContainer = NoContainer
  NoRecord = NoRecord
  MaxFaults = 1
  MaxCrashes = 1
  MaxLosses = 0
  MaxMoves = 1
  MaxChanges = 1
PROPERTIES RecoveryEnds Converges
