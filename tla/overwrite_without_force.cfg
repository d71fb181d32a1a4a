SPECIFICATION Spec
CONSTANTS
  r1 = r1
  r2 = r2
  Runs = {r1, r2}
  Requests <- MCRequests
  BotUser <- MCBotUser
  Latin <- MCLatin
  WebhookURL <- MCWebhookURL
  Token <- MCToken
  DefaultEnv = "$BOT_TOKEN"
  Env <- MCEnv
  Foreign <- MCForeign
  MaxFaults = 1
  DurationLimit = 80000
PROPERTIES
  OverwritesOnlyByForce
CHECK_DEADLOCK FALSE
