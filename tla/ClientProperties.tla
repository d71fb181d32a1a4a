--------------------------- MODULE ClientProperties ---------------------------
(***************************************************************************)
(* What the poller is to achieve through the Telegram client.              *)
(***************************************************************************)
EXTENDS TelegramClient

(* Type correctness.  Time never passes over the end of a sleep, of a long *)
(* poll or of the client's timeout.                                        *)
ClientTypeOK ==
  /\ phase \in {"ready", "sleeping"} \cup InCall
  /\ method \in {"getUpdates", "sendMessage"}
  /\ timer \in Nat
  /\ elapsed \in 0..ClientTimeout
  /\ answer \in AnswerType
  /\ backoff \in Int
  /\ age \in 0..AgeCap
  /\ ban \in 0..FloodWait
  /\ errors \in 0..MaxErrors

(* "telegram_timeout_seconds - timeout for Telegram API calls except long  *)
(* poll" (README.md:118): as long as Telegram answers regularly and in     *)
(* time, no poll is cut short, so the poller never waits before a retry.   *)
PollsNotCutShort == errors = 0 => phase # "sleeping"

(* That needs a configured timeout above that of the long poll.            *)
LongPollFits == RequestTimeout * Second + Latency < TelegramTimeout

(* Then an update is delivered within three ways of an answer (of an empty *)
(* one that it has just missed, the poll's and the method's), plus what    *)
(* every irregular answer can cost: the poll before it, a full timeout and *)
(* the longest wait there is.                                              *)
LongestWait == IF MaxDelay < FloodWait THEN FloodWait ELSE MaxDelay
DeliveredInTime ==
  LongPollFits =>
    age <= 1 + 3 * Latency
             + errors * (Latency + TelegramTimeout + LongestWait)

(* Flood control is obeyed: no request is sent to Telegram during a time   *)
(* for which it asked, in whatever call, not to be called.                 *)
FloodObeyed ==
  LongPollFits => (phase \in {"held", "lost"} => ban = 0)

(* What an answer of the Bot API itself means: refused for good, or not    *)
(* now.  (Telegram repeats the HTTP status, an error's, as error_code.)    *)
FromTelegram(a) ==
  a.body = "json" /\ (a.ok \/ (a.status >= 400 /\ a.error_code = a.status))
Refused(a) == ~a.ok /\ a.status \in 400..499 \ {429} /\ RetryAfter(a) = 0

(* A method that Telegram may still run is not given up, and one that it   *)
(* refused for good is not tried again, however its answers mix with those *)
(* of proxies.  (An answer of a proxy can do both, see client.go:225-237.) *)
MethodFate ==
  [][phase = "returning" /\ method = "sendMessage" /\ FromTelegram(answer) =>
       /\ (age > 0 /\ age' = 0) => (answer.ok \/ Refused(answer))
       /\ phase' = "sleeping" => (~Refused(answer) \/ elapsed >= ClientTimeout)]_vars

-----------------------------------------------------------------------------
(* Why an update is not late and flood control obeyed: the parts of their  *)
(* inductive invariant.                                                    *)

(* An answer is there before the client's timeout.                         *)
CallsInTime ==
  /\ phase = "held" =>
       /\ elapsed + timer <= RequestTimeout * Second
       /\ method = "sendMessage" => timer = 0
  /\ phase = "returning" => elapsed + timer <= RequestTimeout * Second + Latency

(* Without an irregular answer nothing fails.                              *)
NoDetour ==
  errors = 0 =>
    phase # "lost" /\ (phase = "returning" => Succeeds(answer))

(* The answer that asked to wait is on its way or being slept out.         *)
BanHeeded ==
  ban > 0 => \/ /\ phase = "returning" /\ RetryAfter(answer) > 0
                /\ ~answer.ok
             \/ phase = "sleeping" /\ ban <= timer

(* How long the update takes from here without a further irregular answer, *)
(* and what every irregular one adds at most.                              *)
RemainingAfter(a) ==
  IF ~Succeeds(a) /\ ~GivesUp(a) THEN LongestWait + 2 * Latency
  ELSE IF method = "sendMessage" THEN 0
  ELSE IF a.result = "updates" THEN Latency ELSE 2 * Latency
Remaining ==
  CASE phase \in {"ready", "held"} ->
         IF method = "sendMessage" THEN Latency ELSE 2 * Latency
    [] phase = "sleeping" -> timer + 2 * Latency
    [] phase = "lost" -> TelegramTimeout - elapsed + LongestWait + 2 * Latency
    [] phase = "returning" -> timer + RemainingAfter(answer)
ErrorCost == Latency + TelegramTimeout + LongestWait

OnSchedule ==
  (IF age = 0 THEN 1 ELSE age) + Remaining
    <= 1 + 3 * Latency + errors * ErrorCost

ClientInv ==
  /\ ClientTypeOK
  /\ Bounded(backoff)
  /\ LongPollFits =>
       CallsInTime /\ NoDetour /\ PollsNotCutShort /\ BanHeeded /\ OnSchedule

=============================================================================
