SPECIFICATION Spec
CONSTANTS
  a = a
  b = b
  s = s
  t = t
  Bots = {a}
  Tokens = {s}
  TokenOf <- OneToken
  DropPending <- NoDrop
  PollingLimit = 2
  UpdateIds = {1, 2, 3}
  HasStore = FALSE
  Second = 1
  RetryInitialDelay = 1
  RetryMaxDelay = 2
  FloodWait = 3
  DurationLimit = 100
  CounterCap = 1
  Replies = {"plain", "invalid", "method", "oddMethod"}
  Poison <- NoPoison
  MaxFaults = 2
INVARIANTS
  NoLoss
  InOrder
  PollingModeOnly
PROPERTIES
  DeliversAtLeastOnce
