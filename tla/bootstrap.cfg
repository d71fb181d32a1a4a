SPECIFICATION FairSpec
CONSTANTS
  r1 = r1
  r2 = r2
  Runs = {r1, r2}
  Requests <- MCRequests
  BotUser <- MCBotUser
  Latin <- MCLatin
  WebhookURL <- MCWebhookURL
  Token <- MCToken
  DefaultEnv = "$BOT_TOKEN"
  Env <- MCEnv
  Foreign <- MCForeign
  MaxFaults = 3
  DurationLimit = 80000
INVARIANTS
  BootstrapTypeOK
  ReadyBeforeSwitch
  SuccessIsUsable
  SuccessInPollingMode
  UrlNotForgotten
  LoadedIsSafe
PROPERTIES
  RetryRecovers
CHECK_DEADLOCK FALSE
