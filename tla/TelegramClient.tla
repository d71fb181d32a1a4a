---------------------------- MODULE TelegramClient ----------------------------
(***************************************************************************)
(* src/telegram/client.go in time: the calls that one poller of            *)
(* src/bridge/service.go makes, one after the other, through an HTTP       *)
(* client with a timeout, and what the client makes of the answers.        *)
(*                                                                         *)
(* Time passes in ticks, in which all durations are given, and only when   *)
(* nothing is due.  A request reaches the server at once; the answer       *)
(* travels for up to Latency.  The server holds a getUpdates without       *)
(* updates for as long as the request says.  From one budget, MaxErrors,   *)
(* are paid: an answer that is not the regular one, from Telegram or from  *)
(* a proxy in between, and an answer that never comes.                     *)
(*                                                                         *)
(* Only the oldest update that is not delivered is looked at.  The back    *)
(* end accepts it at once, and may ask for a method.                       *)
(***************************************************************************)
EXTENDS Backoff

CONSTANTS
  PollingTimeout,   \* config polling_timeout_seconds, as a duration
  TelegramTimeout,  \* config telegram_timeout_seconds, as a duration
  Latency,          \* the longest way of an answer
  Answers,          \* the irregular answers, see AnswerType
  MaxErrors,
  AgeCap            \* bound of the model: `age' saturates there

(* An HTTP status and a body: JSON, something else, or cut off.  Of JSON:  *)
(* the fields of apiEnvelope, where the result is a list with or without   *)
(* updates, or something else.  Nobody who is served is asked to wait.     *)
AnswerType ==
  [status : 200..599, body : {"json", "other", "cut"}, ok : BOOLEAN,
   error_code : 0..599, retry_after : -1..0 \cup {FloodWait},
   result : {"updates", "none", "other"}]

ASSUME ClientAssumption ==
  /\ PollingTimeout \in 1..DurationLimit - 1
  /\ TelegramTimeout \in -DurationLimit..DurationLimit - 1
  /\ Latency \in Nat
  /\ Answers \subseteq AnswerType
  /\ \A a \in Answers : a.ok => a.retry_after <= 0
  /\ MaxErrors \in Nat /\ AgeCap \in Nat \ {0}

VARIABLES
  phase,    \* what the poller waits for
  method,   \* the call it makes next, or is in
  timer,    \* how long the server holds the call, the answer travels or the
            \* poller sleeps
  elapsed,  \* the time since the request was sent
  answer,   \* the answer on its way
  backoff,  \* exponentialBackoff.current
  age,      \* ticks begun since the update was created, 0: there is none
  ban,      \* how long Telegram's flood control lasts
  errors    \* history: the budget spent

vars == <<phase, method, timer, elapsed, answer, backoff, age, ban, errors>>

Regular == [status |-> 200, body |-> "json", ok |-> TRUE, error_code |-> 0,
            retry_after |-> 0,
            result |-> IF method = "getUpdates" /\ age > 0 THEN "updates"
                                                           ELSE "none"]

Init ==
  /\ phase = "ready" /\ method = "getUpdates"
  /\ timer = 0 /\ elapsed = 0
  /\ age = 0 /\ ban = 0 /\ errors = 0
  /\ answer = Regular
  /\ backoff = ResetBackoff

-----------------------------------------------------------------------------
(* What the client is configured with, and how it reads an answer.         *)

NoClientTimeout == DurationLimit * 1000

(* NewClient: one timeout for every call, from the request to the last     *)
(* byte of the body.                                                       *)
ClientTimeout == IF TelegramTimeout <= 0 THEN 10 * Second ELSE TelegramTimeout

(* The `timeout' of getUpdates, in whole seconds.                          *)
RequestTimeoutUnconverted == PollingTimeout
RequestTimeout == PollingTimeout \div Second

(* The fields of the APIError that call returns.                           *)
RetryAfter(a) == IF a.body = "json" /\ a.retry_after > 0 THEN a.retry_after ELSE 0
TemporaryByStatus(a) == RetryAfter(a) > 0 \/ a.status >= 500
Temporary(a) ==
  \/ a.status >= 500
  \/ a.body = "json" /\ (a.error_code = 429 \/ RetryAfter(a) > 0)

(* A body that cannot be read, and a result that is not the list that      *)
(* getUpdates expects, are no APIErrors.                                   *)
Succeeds(a) ==
  /\ a.body = "json" /\ a.ok
  /\ method = "getUpdates" => a.result # "other"
IsAPIError(a) == a.body = "other" \/ (a.body = "json" /\ ~a.ok)

(* deliverUpdate gives the method up and treats the update as delivered.   *)
GivesUp(a) == method # "getUpdates" /\ IsAPIError(a) /\ ~Temporary(a)

-----------------------------------------------------------------------------

InCall == {"held", "lost", "returning"}
Spend == errors < MaxErrors /\ errors' = errors + 1

Call ==
  /\ phase = "ready"
  /\ phase' = "held"
  /\ timer' = IF method = "getUpdates" THEN RequestTimeout * Second ELSE 0
  /\ elapsed' = 0
  /\ UNCHANGED <<method, answer, backoff, age, ban, errors>>

(* A long poll is over when there is an update.                            *)
AnswerDue == timer = 0 \/ (method = "getUpdates" /\ age > 0)

Answer ==
  /\ phase = "held"
  /\ \/ AnswerDue /\ answer' = Regular /\ UNCHANGED <<ban, errors>>
     \/ /\ Spend
        /\ answer' \in Answers
        /\ ban' = IF RetryAfter(answer') > 0 THEN RetryAfter(answer') ELSE ban
  /\ phase' = "returning"
  /\ timer' \in 0..Latency
  /\ UNCHANGED <<method, elapsed, backoff, age>>

Lose ==
  /\ phase = "held"
  /\ Spend
  /\ phase' = "lost"
  /\ UNCHANGED <<method, timer, elapsed, answer, backoff, age, ban>>

(* The retry: nextDelay, sleepWithContext, then a new poll.                *)
Sleep(error) ==
  /\ timer' = SleepFor(NextDelay(backoff, error))
  /\ backoff' = BackoffAfter(backoff, error)
  /\ phase' = "sleeping"
  /\ method' = "getUpdates"
  /\ UNCHANGED age

(* After an empty poll, and after the update is delivered and its offset   *)
(* saved.                                                                  *)
PollAgain ==
  /\ method' = "getUpdates"
  /\ backoff' = ResetBackoff
  /\ age' = IF method = "getUpdates" /\ answer.result = "none" THEN age ELSE 0

Receive ==
  /\ phase = "returning" /\ timer = 0
  /\ \/ /\ ~Succeeds(answer) /\ ~GivesUp(answer)
        /\ Sleep(IF IsAPIError(answer) /\ RetryAfter(answer) > 0
                   THEN "flood" ELSE "temporary")
     \/ /\ Succeeds(answer) \/ GivesUp(answer)
        /\ phase' = "ready"
        /\ UNCHANGED timer
        /\ \/ PollAgain
           \/ /\ method = "getUpdates" /\ answer.result = "updates"
              /\ method' = "sendMessage"
              /\ UNCHANGED <<backoff, age>>
  /\ UNCHANGED <<elapsed, answer, ban, errors>>

(* http.Client gives up: an APIError without status, and temporary.        *)
TimeOut ==
  /\ phase \in InCall /\ elapsed >= ClientTimeout
  /\ Sleep("temporary")
  /\ UNCHANGED <<elapsed, answer, ban, errors>>

Wake ==
  /\ phase = "sleeping" /\ timer = 0
  /\ phase' = "ready"
  /\ UNCHANGED <<method, timer, elapsed, answer, backoff, age, ban, errors>>

Arrive ==
  /\ age = 0
  /\ age' = 1
  /\ UNCHANGED <<phase, method, timer, elapsed, answer, backoff, ban, errors>>

Tick ==
  /\ \/ phase = "held" /\ ~AnswerDue
     \/ phase \in {"returning", "sleeping"} /\ timer > 0
     \/ phase = "lost"
  /\ phase \in InCall => elapsed < ClientTimeout
  /\ timer' = IF phase = "lost" THEN timer ELSE timer - 1
  /\ elapsed' = IF phase \in InCall THEN elapsed + 1 ELSE elapsed
  /\ age' = IF age \in 1..AgeCap - 1 THEN age + 1 ELSE age
  /\ ban' = IF ban > 0 THEN ban - 1 ELSE 0
  /\ UNCHANGED <<phase, method, answer, backoff, errors>>

Next == Call \/ Answer \/ Lose \/ Receive \/ TimeOut \/ Wake \/ Arrive \/ Tick

Spec == Init /\ [][Next]_vars

=============================================================================
