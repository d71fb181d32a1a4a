SPECIFICATION Spec
CONSTANTS
  DurationLimit = 1000
  Second = 1
  RetryInitialDelay = 1
  RetryMaxDelay = 30
  FloodWait = 5
  PollingTimeout = 50
  TelegramTimeout = 10
  Latency = 1
  Answers <- MCAnswers
  MaxErrors = 0
  AgeCap = 60
INVARIANTS
  PollsNotCutShort
