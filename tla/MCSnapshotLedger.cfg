SPECIFICATION Spec
CONSTANTS
  Procs = {a1}
  Providers = {uspto, fake}
  Editions <- MCEditions
  Tolerance = 10
  Missing = Missing
  Torn = Torn
  NotAList = NotAList
  MaxTries = 4
  MaxMishaps = 2
SYMMETRY ProviderSymmetry
INVARIANTS
  TypeOK
  ReadableLedgerIsComplete
  AcceptedEditionsDoNotShrink
PROPERTY
  ImplementsAcceptedLog
CHECK_DEADLOCK FALSE
