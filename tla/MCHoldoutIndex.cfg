SPECIFICATION Spec
CONSTANTS
  Letters <- MCLetters
  MaxLength = 4
  Holdouts <- MCHoldouts
  Sound <- MCSound
  Silent <- MCSilent
INVARIANTS
  TypeOK
  NothingCloseIsClean
  EditKeyIsWithinTwo
