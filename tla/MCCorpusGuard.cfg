SPECIFICATION FairSpec
CONSTANTS
  Files = {f1, f2}
  None = None
  Garbled = Garbled
  MaxEdits = 3
  MinHoldoutSize = 2
  Empty = ""
  Silent = ""
  Lines <- MCLines
  Words <- MCWords
  Fold <- MCFold
  Alphabetic <- MCAlphabetic
  Sound <- MCSound
  Del <- MCDel
  ProviderIds <- MCProviderIds
  Known <- MCKnown
  Texts <- MCTexts
  Blends <- MCBlends
  Offers <- MCOffers
  Foreign <- MCForeign
INVARIANTS
  TypeOK
  GreenIsTrustworthy
  GreenRunUsedOneSealedHoldout
  NoFalseAlarm
PROPERTIES
  TaintIsReported
  RunsEnd
