SPECIFICATION Spec
CONSTANTS
  DurationLimit = 8
  Second = 2
  RetryInitialDelay = 2
  RetryMaxDelay = 4
  FloodWait = 5
  PollingTimeout = 4
  TelegramTimeout = 6
  Latency = 1
  Answers <- MCAnswers
  MaxErrors = 3
  AgeCap = 50
INVARIANTS
  ClientTypeOK
  PollsNotCutShort
  DeliveredInTime
  FloodObeyed
PROPERTIES
  MethodFate
