SPECIFICATION Spec
CONSTANTS
  Procs = {a1, a2}
  Providers = {uspto, fake}
  Editions <- MCEditions
  Tolerance = 10
  Missing = Missing
  Torn = Torn
  NotAList = NotAList
  MaxTries = 2
  MaxMishaps = 0
INVARIANT
  AcceptedStaysRecorded
CHECK_DEADLOCK FALSE
