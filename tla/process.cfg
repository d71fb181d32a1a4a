SPECIFICATION FairSpec
CONSTANTS
  p = p
  q = q
  a = a
  b = b
  Processes = {p, q}
  Bots = {a, b}
  CommandLines <- MCCommandLines
  MaxRequests = 1
INVARIANTS
  LifeCycleTypeOK
  ShutdownInOrder
  SignalsDrain
  ExitCodeHonest
PROPERTIES
  CancelledEnds
  OneSurvives
CHECK_DEADLOCK FALSE
