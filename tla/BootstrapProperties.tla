------------------------- MODULE BootstrapProperties --------------------------
(***************************************************************************)
(* What init-config and config.Load are to guarantee together, and what    *)
(* the documentation says of -force.                                       *)
(***************************************************************************)
EXTENDS Bootstrap

(* Type correctness.  A run that has passed the verification is the one    *)
(* that removed the webhook, so it knows a backend URL.                    *)
BootstrapTypeOK ==
  /\ webhook \in {WebhookURL, <<>>}
  /\ file \in {Absent, Broken} \cup ConfigType
  /\ author \in Runs \cup {"other", "mixed"}
  /\ step \in [Runs -> DOMAIN NextStep \cup {"done", "failed", "killed"}]
  /\ request \in [Runs -> Requests]
  /\ url \in [Runs -> Text]
  /\ setAgain \subseteq Runs
  /\ faults \in 0..MaxFaults
  /\ \A r \in Runs :
       step[r] \notin {"parseFlags", "getWebhookInfo", "failed", "killed"}
         => url[r] # <<>>

(* A request without `$' in what is written to the file as it is given,    *)
(* and whose variable for the token, if any, has been exported.            *)
Faithful(r) ==
  /\ \A text \in {url[r], request[r].secret_token} :
       ToSet(text) \cap DOMAIN Env = {}
  /\ IF request[r].inline_token THEN Trim(request[r].token) = Token
     ELSE Trim(Expand(Env, TokenEnv(r))) = Token /\ Quote \notin ToSet(Token)

(* The steps from which a run can no longer refuse its flags.              *)
Committed(r) ==
  step[r] \in {"deleteWebhook", "verify", "open", "write", "done"}

(* Before init-config takes the webhook away, it has made sure that the    *)
(* config it is going to write is one that the bridge will load: its own   *)
(* checks (generator.go 78-112) imply those of config.Load.                *)
ReadyBeforeSwitch ==
  \A r \in Runs : Committed(r) /\ Faithful(r) => ~LoadFails(Env, ConfigOf(r))

(* When a run reports success and nobody has written the file since, the   *)
(* bridge will run exactly the bot that was asked for, with the backend    *)
(* that the webhook pointed to or -backend-url named.                      *)
SuccessIsUsable ==
  \A r \in Runs : step[r] = "done" /\ author = r /\ Faithful(r) =>
    /\ ~LoadFails(Env, file)
    /\ LET bots == Load(Env, file).Bots IN
         /\ Len(bots) = 1
         /\ bots[1].token = Token
         /\ bots[1].backend_url \in {WebhookURL, Trim(request[r].backend_url)}
         /\ bots[1].secret_token = Trim(request[r].secret_token)
         /\ bots[1].drop = request[r].drop

(* Nor does a run report success while the bot is still in webhook mode,   *)
(* where no poll is answered: a webhook that is set then was set after the *)
(* run had seen it gone, not before that nor left there by deleteWebhook.  *)
SuccessInPollingMode ==
  \A r \in Runs : step[r] = "done" /\ webhook # <<>> => r \in setAgain

(* The legacy back end is not forgotten: once somebody has seen the        *)
(* webhook and it is gone, its URL is in the file or in the hands of a run *)
(* that will write it.  So a run that refuses its flags or finds the path  *)
(* taken has not removed the webhook.  (Faults do lose the URL, and so     *)
(* does a file garbled by two writers.)                                    *)
UrlNotForgotten ==
  /\ faults = 0 /\ author # "mixed"
  /\ webhook = <<>> /\ \E r \in Runs : url[r] = WebhookURL
  /\ \A r \in Runs : Trim(request[r].backend_url) = <<>>
  =>
  \/ file.state = "complete" /\ file.bots[1].backend_url = WebhookURL
  \/ \E r \in Runs : Running(r) /\ url[r] = WebhookURL

(* Whatever earlier and concurrent attempts left behind (a removed         *)
(* webhook, an emptied or garbled file), an attempt with -force and        *)
(* -backend-url gets through once nothing fails any more.                  *)
Insistent(r) ==
  /\ request[r].force
  /\ ValidURL(Trim(request[r].backend_url))
  /\ TokenEnvValid(r)
  /\ Trim(request[r].token) # <<>>
RetryRecovers ==
  \A r \in Runs :
    step[r] = "parseFlags" /\ Insistent(r) /\ faults = MaxFaults
      ~> step[r] = "done"

(* Whatever is in the file, a configuration that loads is one the bridge   *)
(* can work with: names that tell the rows of bot_offsets apart, tokens    *)
(* and back ends for all, and the numbers that the other modules assume    *)
(* (ConfigAssumption, BackoffAssumption), for delays and timeouts that a   *)
(* time.Duration can hold.                                                 *)
LoadedIsSafe ==
  ~LoadFails(Env, file) =>
    LET cfg == Load(Env, file)
        Fits(key, unit) ==
          NormalizeNumbers(file.numbers)[key] * unit < DurationLimit
    IN
    /\ cfg.Bots # <<>>
    /\ \A i, j \in DOMAIN cfg.Bots :
         cfg.Bots[i].name = cfg.Bots[j].name => i = j
    /\ \A bot \in ToSet(cfg.Bots) :
         /\ <<>> \notin {bot.name, bot.token}
         /\ \A text \in {bot.name, bot.token, bot.backend_url} :
              Trim(text) = text
    /\ cfg.PollingLimit \in 1..100
    /\ Fits("polling_timeout_seconds", 1000) => cfg.PollingTimeout > 0
    /\ Fits("retry_max_delay_ms", 1) =>
         0 < cfg.RetryInitialDelay /\ cfg.RetryInitialDelay <= cfg.RetryMaxDelay

-----------------------------------------------------------------------------

(* "Force overwrite existing config: -force" (README.md:163), "Overwrite   *)
(* output file if it already exists" (init_config.go:65): a run without    *)
(* -force leaves a config that exists alone.                               *)
OverwritesOnlyByForce ==
  [][\A r \in Runs :
       step[r] = "open" /\ step'[r] = "write" /\ ~request[r].force
         => file.state # "complete"]_vars

-----------------------------------------------------------------------------
(* Why the configuration is usable and the webhook's URL not forgotten:    *)
(* the parts of the inductive invariant.                                   *)

(* What a run has made sure of when it has come to a step.                 *)
PastURL(r) == Committed(r) \/ step[r] \in {"getMe", "preparePath"}
PastNames(r) == Committed(r) \/ step[r] = "preparePath"

UrlChosen ==
  \A r \in Runs : PastURL(r) =>
    ValidURL(url[r]) /\ url[r] \in {WebhookURL, Trim(request[r].backend_url)}
NamesChosen == \A r \in Runs : PastNames(r) => TokenEnvValid(r)

(* A run that is done and still the author has written all of it.          *)
Authentic ==
  \A r \in Runs : step[r] = "done" /\ author = r => file = ConfigOf(r)

(* What a run has seen at its verification holds until the webhook is set  *)
(* again.                                                                  *)
WebhookSeenGone ==
  \A r \in Runs : Verified(r) /\ webhook # <<>> => r \in setAgain

(* As long as nothing fails, every run that does not stop for its flags    *)
(* knows the URL of the webhook, if that was there at all;                 *)
KnowsWebhook(r) ==
  /\ url[r] \in {<<>>, WebhookURL}
  /\ PastURL(r) => url[r] = WebhookURL

(* only a run that will write the config takes it away, and for good;      *)
Switched(r) == step[r] \in {"verify", "open", "write", "done"}
SwitchHasAuthor ==
  /\ webhook = <<>> /\ (\E r \in Runs : url[r] = WebhookURL)
       => \E r \in Runs : Switched(r)
  /\ (\E r \in Runs : Switched(r)) => webhook = <<>>

(* and the URL is in the file when it is done, until the next one empties  *)
(* the file to write the same URL again.                                   *)
UrlInFile == file.state = "complete" /\ file.bots[1].backend_url = WebhookURL
UrlWritten ==
  author # "mixed" /\ (\E r \in Runs : step[r] = "done")
    => UrlInFile \/ \E r \in Runs : step[r] = "write"

Undisturbed ==
  faults = 0 /\ \A r \in Runs : Trim(request[r].backend_url) = <<>>
UrlKept == (\A r \in Runs : KnowsWebhook(r)) /\ SwitchHasAuthor /\ UrlWritten

BootstrapInv ==
  /\ BootstrapTypeOK
  /\ UrlChosen
  /\ NamesChosen
  /\ Authentic
  /\ WebhookSeenGone
  /\ Undisturbed => UrlKept

=============================================================================
