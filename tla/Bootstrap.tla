------------------------------- MODULE Bootstrap -------------------------------
(***************************************************************************)
(* init-config: GenerateConfigAndSwitch of src/bootstrap/generator.go as   *)
(* src/cmd/tg-getupdates-to-webhook/init_config.go invokes it, composed    *)
(* with config.Load, which the bridge later reads the file with.           *)
(*                                                                         *)
(* The invocations in Runs are for one bot and one output path, one after  *)
(* the other or at the same time.  Each call to Telegram and each system   *)
(* call on the file is a step: it may fail, and the process may be killed  *)
(* before it.  Meanwhile the legacy application may set its webhook again, *)
(* and somebody else may write the file.  All of that is paid for from one *)
(* budget, MaxFaults.                                                      *)
(*                                                                         *)
(* Simplifications: the overall timeout of the command shows as the        *)
(* failure of the call it hits; the output path is not blank; what is only *)
(* printed is left out.                                                    *)
(***************************************************************************)
EXTENDS ConfigLoad, FiniteSets

CONSTANTS
  Runs,        \* the invocations
  Requests,    \* the flags they may be given, see RequestType
  BotUser,     \* what getMe answers, as strings
  Latin,       \* the words that a bot name may consist of
  WebhookURL,  \* the webhook that the legacy application sets
  Token,       \* the token of the bot, a string
  DefaultEnv,  \* the variable for the token when -token-env is not given
  Env,         \* the environment in which the bridge will run; its domain is
               \* the set of valid variable names
  Foreign,     \* the contents that somebody else may write to the path
  MaxFaults

RequestType ==
  [force : BOOLEAN, inline_token : BOOLEAN, drop : BOOLEAN,
   token : Text, token_env : Text, name : Text, backend_url : Text,
   secret_token : Text]

(* What is latin, and the token, which comes from Telegram, need no `$'.   *)
ASSUME BootstrapAssumption ==
  /\ IsFiniteSet(Runs) /\ {"other", "mixed"} \cap Runs = {}
  /\ Requests \subseteq RequestType
  /\ BotUser \in [username : Text, full_name : Text, id : STRING]
  /\ {"bot-", BotUser.id} \subseteq Latin
  /\ Latin \subseteq STRING \ {Blank, Quote, "-"}
  /\ WebhookURL \in Text /\ Trim(WebhookURL) = WebhookURL /\ WebhookURL # <<>>
  /\ Token \in Text /\ Trim(Token) = Token /\ Token # <<>>
  /\ Env \in [DOMAIN Env -> Text]
  /\ DOMAIN Env \subseteq STRING \ (Latin \cup ToSet(Token) \cup {"-", Blank})
  /\ DefaultEnv \in DOMAIN Env
  /\ Foreign \subseteq {Absent, Broken} \cup ConfigType
  /\ MaxFaults \in Nat

VARIABLES
  webhook,  \* the URL of the bot's webhook, <<>> in polling mode
  file,     \* what is at the output path
  author,   \* history: the run that wrote all of it, or "other" or "mixed"
  step,     \* step[r]: where invocation r is
  request,  \* its flags,
  url,      \* and the backend URL it decided on
  setAgain, \* history: the runs that the legacy application set its webhook
            \* after, that is after their verification
  faults    \* history: the faults so far

vars == <<webhook, file, author, step, request, url, setAgain, faults>>

Init ==
  /\ webhook \in {WebhookURL, <<>>}
  /\ file \in {Absent} \cup Foreign
  /\ author = "other"
  /\ step = [r \in Runs |-> "parseFlags"]
  /\ request \in [Runs -> Requests]
  /\ url = [r \in Runs |-> <<>>]
  /\ setAgain = {}
  /\ faults = 0

-----------------------------------------------------------------------------
(* What a run makes of its flags and of Telegram's answers.                *)

(* Only letters and digits of a name are kept, and dashes between them for *)
(* the rest (one for every word here, where the code merges them).         *)
Sanitize(name) ==
  Span([i \in DOMAIN name |-> IF name[i] \in Latin THEN name[i] ELSE "-"],
       {i \in DOMAIN name : name[i] \in Latin})

(* The -name flag, the user name, the full name or the id of the bot,      *)
(* whichever is the first of which something is left.                      *)
BotName(r) ==
  LET OrElse(name, other) ==
        IF Sanitize(name) # <<>> THEN Sanitize(name) ELSE other
  IN  OrElse(request[r].name,
        OrElse(BotUser.username,
          OrElse(BotUser.full_name, Sanitize(<<"bot-", BotUser.id>>))))

(* The name of the variable that the config will refer to.                 *)
TokenEnv(r) ==
  IF Trim(request[r].token_env) = <<>> THEN <<DefaultEnv>>
                                       ELSE Trim(request[r].token_env)
TokenEnvValid(r) ==
  request[r].inline_token \/ \E name \in DOMAIN Env : TokenEnv(r) = <<name>>
TokenValue(r) ==
  IF request[r].inline_token THEN Trim(request[r].token) ELSE TokenEnv(r)

(* The URL that a run uses, given the webhook that Telegram told it.       *)
BackendURL(r, hook) ==
  IF Trim(request[r].backend_url) # <<>> THEN Trim(request[r].backend_url)
                                         ELSE hook
AnyBackendURL(u) == TRUE
NonBlankBackendURL(u) == u # <<>>
ValidBackendURL(u) == ValidURL(u)

ConfigFromLiveWebhook(r) ==
  [state |-> "complete", numbers |-> DefaultNumbers,
   bots |-> <<[name |-> BotName(r), token |-> TokenValue(r),
               backend_url |-> BackendURL(r, webhook),
               secret_token |-> Trim(request[r].secret_token),
               drop |-> request[r].drop]>>]

(* buildConfig, and the tokenValue it is given.                            *)
ConfigOf(r) ==
  [state |-> "complete", numbers |-> DefaultNumbers,
   bots |-> <<[name |-> BotName(r),
               token |-> TokenValue(r),
               backend_url |-> url[r],
               secret_token |-> Trim(request[r].secret_token),
               drop |-> request[r].drop]>>]

-----------------------------------------------------------------------------
(* The steps, in their order.                                              *)

NextStepDeletesFirst ==
  [parseFlags |-> "getWebhookInfo", getWebhookInfo |-> "getMe",
   getMe |-> "deleteWebhook", deleteWebhook |-> "verify",
   verify |-> "preparePath", preparePath |-> "open", open |-> "write",
   write |-> "done"]

NextStep ==
  [parseFlags |-> "getWebhookInfo", getWebhookInfo |-> "getMe",
   getMe |-> "preparePath", preparePath |-> "deleteWebhook",
   deleteWebhook |-> "verify", verify |-> "open", open |-> "write",
   write |-> "done"]

(* A run that has seen the webhook gone.                                   *)
Verified(r) == step[r] \in {"open", "write", "done"}

Running(r) == step[r] \in DOMAIN NextStep
Go(r) == step' = [step EXCEPT ![r] = NextStep[@]]
GiveUp(r) == step' = [step EXCEPT ![r] = "failed"]
GoIf(r, condition) == IF condition THEN Go(r) ELSE GiveUp(r)

Spend == faults < MaxFaults /\ faults' = faults + 1

(* The command line is refused, before anything is done, without a token.  *)
ParseFlags(r) ==
  /\ step[r] = "parseFlags"
  /\ GoIf(r, Trim(request[r].token) # <<>>)
  /\ UNCHANGED <<webhook, file, author, request, url, setAgain, faults>>

GetWebhookInfo(r) ==
  /\ step[r] = "getWebhookInfo"
  /\ url' = [url EXCEPT ![r] = BackendURL(r, webhook)]
  /\ GoIf(r, ValidBackendURL(url'[r]))
  /\ UNCHANGED <<webhook, file, author, request, setAgain, faults>>

(* The bot's name, the token's value and the config follow from the answer *)
(* without further calls.                                                  *)
GetMe(r) ==
  /\ step[r] = "getMe"
  /\ GoIf(r, TokenEnvValid(r))
  /\ UNCHANGED <<webhook, file, author, request, url, setAgain, faults>>

PathFreeIgnoringForce(r) == file = Absent
PathFree(r) == request[r].force \/ file = Absent

PrepareOutputPath(r) ==
  /\ step[r] = "preparePath"
  /\ GoIf(r, PathFree(r))
  /\ UNCHANGED <<webhook, file, author, request, url, setAgain, faults>>

DeleteWebhook(r) ==
  /\ step[r] = "deleteWebhook"
  /\ webhook' = <<>>
  /\ Go(r)
  /\ UNCHANGED <<file, author, request, url, setAgain, faults>>

TrustDeletion(r) ==
  /\ step[r] = "verify"
  /\ Go(r)
  /\ UNCHANGED <<webhook, file, author, request, url, setAgain, faults>>
VerifyWebhook(r) ==
  /\ step[r] = "verify"
  /\ GoIf(r, webhook = <<>>)
  /\ UNCHANGED <<webhook, file, author, request, url, setAgain, faults>>

(* os.WriteFile, first half: the file is created or emptied.               *)
OpenFile(r) ==
  /\ step[r] = "open"
  /\ file' = Broken
  /\ author' = r
  /\ Go(r)
  /\ UNCHANGED <<webhook, request, url, setAgain, faults>>

(* The second half.  Where another writer has put its bytes since, a tail  *)
(* of theirs may stick out.                                                *)
WriteFile(r) ==
  /\ step[r] = "write"
  /\ \/ file' = ConfigOf(r) /\ author' = r
     \/ file.state = "complete" /\ file' = Broken /\ author' = "mixed"
  /\ Go(r)
  /\ UNCHANGED <<webhook, request, url, setAgain, faults>>

(* A call or a system call fails.  deleteWebhook may have worked all the   *)
(* same, and a failed write may have put down the beginning of the config. *)
StepFails(r) ==
  /\ Running(r) /\ step[r] # "parseFlags"
  /\ Spend
  /\ GiveUp(r)
  /\ \/ UNCHANGED <<webhook, file, author>>
     \/ step[r] = "deleteWebhook" /\ webhook' = <<>> /\ UNCHANGED <<file, author>>
     \/ step[r] = "write" /\ file' = Broken /\ author' = "mixed"
                         /\ UNCHANGED webhook
  /\ UNCHANGED <<request, url, setAgain>>

Kill(r) ==
  /\ Running(r)
  /\ Spend
  /\ step' = [step EXCEPT ![r] = "killed"]
  /\ UNCHANGED <<webhook, file, author, request, url, setAgain>>

(* The legacy application (re)starts and sets its webhook, as it always    *)
(* did.                                                                    *)
SetWebhook ==
  /\ webhook # WebhookURL
  /\ Spend
  /\ webhook' = WebhookURL
  /\ setAgain' = setAgain \cup {r \in Runs : Verified(r)}
  /\ UNCHANGED <<file, author, step, request, url>>

WriteForeign ==
  /\ Spend
  /\ file' \in Foreign
  /\ author' = "other"
  /\ UNCHANGED <<webhook, step, request, url, setAgain>>

-----------------------------------------------------------------------------

RunStep(r) ==
  \/ ParseFlags(r) \/ GetWebhookInfo(r) \/ GetMe(r) \/ PrepareOutputPath(r)
  \/ DeleteWebhook(r) \/ VerifyWebhook(r) \/ OpenFile(r) \/ WriteFile(r)
  \/ StepFails(r)

Next ==
  \/ \E r \in Runs : RunStep(r) \/ Kill(r)
  \/ SetWebhook \/ WriteForeign

Spec == Init /\ [][Next]_vars

(* Every call returns within the command's timeouts.                       *)
FairSpec == Spec /\ \A r \in Runs : WF_vars(RunStep(r))

=============================================================================
