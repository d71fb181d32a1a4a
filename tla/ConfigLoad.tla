------------------------------ MODULE ConfigLoad ------------------------------
(***************************************************************************)
(* Load of src/config/config.go: from the contents of a file and the       *)
(* environment to the configuration the bridge runs with, or an error.     *)
(*                                                                         *)
(* A string is a sequence of words.  A word in the domain of the           *)
(* environment is a reference to a variable ("$NAME"), `Blank' is white    *)
(* space, `Quote' a character that ends a JSON string; all others are      *)
(* plain text.  Numbers have the names of their JSON keys, and an absent   *)
(* number is 0, as in Go.                                                  *)
(* Durations count milliseconds, in two's complement with DurationLimit    *)
(* in the place of 2^63 nanoseconds.                                       *)
(*                                                                         *)
(* Left out: allowed_updates, which is only passed on, and sqlite_path,    *)
(* health_listen_addr and user_agent, which get a default when blank.      *)
(***************************************************************************)
EXTENDS Integers, SequencesExt

CONSTANT DurationLimit  \* the first positive duration that does not exist

ASSUME DurationLimitAssumption == DurationLimit \in Nat \ {0}

Blank == " "
Quote == "\""

(* As in TLA+ itself; the prover has to be told.                           *)
ASSUME WordAssumption == {Blank, Quote, "-", "bot-", "I"} \subseteq STRING

DefaultNumbers ==
  [polling_timeout_seconds |-> 50, polling_limit |-> 100,
   backend_timeout_seconds |-> 10, telegram_timeout_seconds |-> 10,
   retry_initial_delay_ms |-> 1000, retry_max_delay_ms |-> 30000]

(* What the path may hold: nothing, something that is not one JSON object  *)
(* with the known keys, or a configuration.                                *)
Absent == [state |-> "absent"]
Broken == [state |-> "broken"]

Text == Seq(STRING)
BotType == [name : Text, token : Text, backend_url : Text,
            secret_token : Text, drop : BOOLEAN]
ConfigType == [state : {"complete"}, numbers : [DOMAIN DefaultNumbers -> Int],
               bots : Seq(BotType)]

(* From the first to the last of some of the words of a text.              *)
Span(text, words) ==
  IF words = {} THEN <<>> ELSE SubSeq(text, Min(words), Max(words))

(* Strings lose the white space around them,                               *)
Trim(text) == Span(text, {i \in DOMAIN text : text[i] # Blank})

(* and variables are replaced everywhere, also where a `$' was meant as    *)
(* such; an unset variable is replaced by nothing.                         *)
Expand(env, text) ==
  FlattenSeq([i \in DOMAIN text |->
    IF text[i] \in DOMAIN env THEN env[text[i]] ELSE <<text[i]>>])

ExpandBot(env, bot) ==
  [name |-> Expand(env, bot.name), token |-> Expand(env, bot.token),
   backend_url |-> Expand(env, bot.backend_url),
   secret_token |-> Expand(env, bot.secret_token), drop |-> bot.drop]

(* The expansion comes before the parser, so a value with a quote in it    *)
(* breaks the JSON around it.                                              *)
Parses(env, file) ==
  /\ file.state = "complete"
  /\ \A bot \in ToSet(file.bots) :
       \A word \in UNION {ToSet(bot.name), ToSet(bot.token),
                          ToSet(bot.backend_url), ToSet(bot.secret_token)} :
         word \in DOMAIN env => Quote \notin ToSet(env[word])

-----------------------------------------------------------------------------

PositiveOrDefault(value, fallback) == IF value <= 0 THEN fallback ELSE value

NormalizeNumbersAlone(numbers) ==
  [key \in DOMAIN DefaultNumbers |->
     IF key = "polling_limit" /\ numbers[key] > 100 THEN DefaultNumbers[key]
     ELSE PositiveOrDefault(numbers[key], DefaultNumbers[key])]

NormalizeNumbers(numbers) ==
  LET positive == [key \in DOMAIN DefaultNumbers |->
                     PositiveOrDefault(numbers[key], DefaultNumbers[key])]
  IN  [positive EXCEPT
         !.polling_limit = IF @ > 100 THEN DefaultNumbers.polling_limit ELSE @,
         !.retry_max_delay_ms = IF @ < positive.retry_initial_delay_ms
                                  THEN positive.retry_initial_delay_ms ELSE @]

(* A bot without a name is called after its place in the list, which is    *)
(* written as so many strokes here.                                        *)
DefaultName(i) == <<"bot-">> \o [stroke \in 1..i |-> "I"]

NormalizeBot(bot, i) ==
  [name |-> IF Trim(bot.name) = <<>> THEN DefaultName(i) ELSE Trim(bot.name),
   token |-> Trim(bot.token), backend_url |-> Trim(bot.backend_url),
   secret_token |-> Trim(bot.secret_token), drop |-> bot.drop]

NormalizedBots(env, bots) ==
  [i \in DOMAIN bots |-> NormalizeBot(ExpandBot(env, bots[i]), i)]

(* An http or https URL with a host.                                       *)
ValidURL(url) ==
  Len(url) > 1 /\ url[1] \in {"http://", "https://"}

ValidBots(bots) ==
  /\ bots # <<>>
  /\ \A i \in DOMAIN bots :
       /\ bots[i].name # <<>>
       /\ bots[i].token # <<>>
       /\ ValidURL(bots[i].backend_url)
       /\ \A j \in DOMAIN bots : bots[j].name = bots[i].name => j = i

(* time.Duration(number) * unit.                                           *)
Duration(number, unit) ==
  ((number * unit + DurationLimit) % (2 * DurationLimit)) - DurationLimit

LoadFails(env, file) ==
  ~Parses(env, file) \/ ~ValidBots(NormalizedBots(env, file.bots))

(* The configuration of a file for which Load does not fail.               *)
Load(env, file) ==
  LET numbers == NormalizeNumbers(file.numbers) IN
  [PollingTimeout |-> Duration(numbers.polling_timeout_seconds, 1000),
   PollingLimit |-> numbers.polling_limit,
   BackendTimeout |-> Duration(numbers.backend_timeout_seconds, 1000),
   TelegramTimeout |-> Duration(numbers.telegram_timeout_seconds, 1000),
   RetryInitialDelay |-> Duration(numbers.retry_initial_delay_ms, 1),
   RetryMaxDelay |-> Duration(numbers.retry_max_delay_ms, 1),
   Bots |-> NormalizedBots(env, file.bots)]

=============================================================================
