SPECIFICATION Spec
CONSTANTS
  config1 = config1
  config2 = config2
  garbled = garbled
  Configs <- MCConfigs
  Malformed <- MCMalformed
  Torn = Torn
  NoBytes = NoBytes
  NoFile = NoFile
  MaxFaults = 2
  MaxCrashes = 1
  MaxLosses = 1
INVARIANTS AppliedIsOnFile IInv
PROPERTIES NoNeedlessReload ReplacesAtomically
