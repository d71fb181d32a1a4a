SPECIFICATION Spec
CONSTANTS
  a = a
  b = b
  s = s
  t = t
  Bots = {a}
  Tokens = {s}
  TokenOf <- OneToken
  DropPending <- NoDrop
  PollingLimit = 2
  UpdateIds = {1}
  HasStore = FALSE
  Second = 1
  RetryInitialDelay = 1
  RetryMaxDelay = 2
  FloodWait = 3
  DurationLimit = 100
  CounterCap = 1
  Replies = {"plain", "invalid", "method"}
  Poison <- NoPoison
  MaxFaults = 1
INVARIANTS
  RetriesAreCounted
