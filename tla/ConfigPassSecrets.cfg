SPECIFICATION Spec
CONSTANTS
  Marks <- MCMarks
  Digits <- MCDigits
  Letters <- MCLetters
  Specials <- MCSpecials
  Templates <- MCTemplates
  CredSuffix <- MCCredSuffix
  Upper <- MCUpper
  Protected <- MCProtected
  Ints <- MCInts
  Bools <- MCBools
  Worlds <- Secrets
  MaxFaults = 1
INVARIANTS SecretsHaveHostSource
