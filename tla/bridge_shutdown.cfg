SPECIFICATION FairSpec
CONSTANTS
  a = a
  b = b
  s = s
  t = t
  Bots = {a, b}
  Tokens = {s, t}
  TokenOf <- OwnTokens
  DropPending <- NoDrop
  PollingLimit = 1
  UpdateIds = {1}
  HasStore = TRUE
  Second = 1
  RetryInitialDelay = 1
  RetryMaxDelay = 1
  FloodWait = 1
  DurationLimit = 100
  CounterCap = 1
  Replies = {"plain"}
  Poison <- PoisonB
  MaxFaults = 2
PROPERTIES
  ShutdownTerminates
  EventuallyConfirmed
