SPECIFICATION Spec
CONSTANTS
  Procs = {a1}
  Providers = {uspto}
  Editions <- MCEditions
  Tolerance = 10
  Missing = Missing
  Torn = Torn
  NotAList = NotAList
  MaxTries = 2
  MaxMishaps = 1
INVARIANT
  AcceptedStaysRecorded
CHECK_DEADLOCK FALSE
