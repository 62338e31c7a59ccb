SPECIFICATION Spec
CONSTANTS
  Marks <- MCMarks
  Digits <- MCDigits
  Letters <- MCLetters
  Specials <- MCSpecials
  Templates <- MCTemplates
  CredSuffix <- MCCredSuffix
  Upper <- MCUpper
  Protected <- MCProtected
  Ints <- MCInts
  Bools <- MCBools
  Worlds <- MCWorlds
  MaxFaults = 1
INVARIANTS IInv ParsedAsLabelled ModelsAsDeclared Accepted ValuesSurvive
  SameFiles CredentialsOwn OutcomeOfWorld MountsFit
