SPECIFICATION Spec
CONSTANTS
  a = a
  b = b
  s = s
  t = t
  Bots = {a, b}
  Tokens = {s}
  TokenOf <- SharedToken
  DropPending <- DropFirst
  PollingLimit = 2
  UpdateIds = {1, 2}
  HasStore = TRUE
  Second = 1
  RetryInitialDelay = 1
  RetryMaxDelay = 1
  FloodWait = 1
  DurationLimit = 100
  CounterCap = 1
  Replies = {"plain", "method"}
  Poison <- NoPoison
  MaxFaults = 1
INVARIANTS
  LagHonest
  DeliveryInv
  RedeliveryPaid
PROPERTIES
  DeliversAtLeastOnce
  OffsetNeverRegresses
  DropsOnlyAtStart
