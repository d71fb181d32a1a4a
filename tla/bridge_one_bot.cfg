SPECIFICATION Spec
CONSTANTS
  a = a
  b = b
  s = s
  t = t
  Bots = {a}
  Tokens = {s}
  TokenOf <- OneToken
  DropPending <- NoDrop
  PollingLimit = 2
  UpdateIds = {1, 2, 3}
  HasStore = TRUE
  Second = 1
  RetryInitialDelay = 2
  RetryMaxDelay = 7
  FloodWait = 5
  DurationLimit = 8
  CounterCap = 1
  Replies = {"plain", "invalid", "method"}
  Poison <- NoPoison
  MaxFaults = 3
INVARIANTS
  TypeOK
  NoLoss
  InOrder
  OffsetPersisted
  OffsetAudited
  RetryPace
  LagHonest
  RedeliveryPaid
PROPERTIES
  OffsetNeverRegresses
