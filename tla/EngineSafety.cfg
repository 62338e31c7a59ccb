SPECIFICATION Spec
CONSTANTS
  none = none
  mounts1 = mounts1
  mounts2 = mounts2
  gone = gone
  Wants <- MCFewWants
  NoExtras = none
  Poorer <- MCFewPoorer
  Refused = {gone}
  NoContainer = NoContainer
  NoRecord = NoRecord
  MaxFaults = 2
  MaxCrashes = 1
  MaxLosses = 1
  MaxMoves = 2
  MaxChanges = 1
INVARIANTS TypeOK RecordWhileOwed StatusHonest IInv
PROPERTIES OperatorsEngineUntouched KeepsPromise
