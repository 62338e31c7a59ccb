SPECIFICATION Spec
CONSTANTS
  none = none
  mounts1 = mounts1
  mounts2 = mounts2
  gone = gone
  Wants <- MCWants
  NoExtras = none
  Poorer <- MCPoorer
  Refused = {}
  NoContainer = NoContainer
  NoRecord = NoRecord
  MaxFaults = 1
  MaxCrashes = 0
  MaxLosses = 1
  MaxMoves = 0
  MaxChanges = 0
INVARIANTS DurableWhileOwed
