SPECIFICATION Spec
CONSTANTS
  config1 = config1
  config2 = config2
  garbled = garbled
  Configs <- MCConfigs
  Malformed <- MCMalformed
  Torn = Torn
  NoBytes = NoBytes
  NoFile = NoFile
  MaxFaults = 1
  MaxCrashes = 0
  MaxLosses = 0
INVARIANTS UnchangedIsOnFile
