SPECIFICATION Spec
CONSTANTS
  None = None
  NoYear = NoYear
  Empty = ""
  Silent = ""
  MinHoldoutSize = 1
  Tolerance = 10
  MaxAcquires = 2
  MaxResults = 2
  MaxBuilds = 1
  ProviderIds = {"uspto", "blog", "ours"}
  Lines <- MCWords
  Words <- MCWords
  Fold <- MCFold
  Alphabetic <- MCAlphabetic
  Sound <- MCSound
  Del <- MCDel
  Sources <- MCSources
  Editions <- MCShrinkingEditions
  Candidates <- MCCandidates
  LegalEntityTokens <- MCLegalEntityTokens
  Blends <- MCBlends
  Holdouts <- MCHoldouts
INVARIANT
  RefusedEditionsReachNoResult
CHECK_DEADLOCK FALSE
