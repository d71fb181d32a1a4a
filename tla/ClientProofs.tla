----------------------------- MODULE ClientProofs -----------------------------
(***************************************************************************)
(* Theorems about TelegramClient, for every configuration of timeouts and  *)
(* delays, every latency and every set of irregular answers: ClientInv is  *)
(* inductive.  Its core is a schedule: how long the oldest update still    *)
(* has to wait, which every tick makes shorter and an irregular answer     *)
(* makes longer by ErrorCost at most.                                      *)
(***************************************************************************)
EXTENDS ClientProperties, BackoffProofs

-----------------------------------------------------------------------------
(* The durations.                                                          *)

(* The long poll lasts a whole number of seconds, perhaps none.            *)
LEMMA RequestTimeoutType == RequestTimeout * Second \in Nat
<1>1. PollingTimeout \in Nat /\ Second \in Nat \ {0}
  BY ClientAssumption, BackoffAssumption
<1>2. RequestTimeout \in Nat
  BY <1>1 DEF RequestTimeout
<1>3. QED
  BY <1>1, <1>2

(* The client's timeout is positive, and the configured one if long polls  *)
(* fit into that.                                                          *)
LEMMA ClientTimeoutType ==
  /\ ClientTimeout \in Nat \ {0}
  /\ LongPollFits => ClientTimeout = TelegramTimeout
<1>1. /\ TelegramTimeout \in Int /\ Latency \in Nat
      /\ Second \in Nat \ {0}
  BY ClientAssumption, BackoffAssumption
<1>2. ClientTimeout \in Nat \ {0}
  BY <1>1 DEF ClientTimeout
<1>3. LongPollFits => TelegramTimeout > 0
  BY <1>1, RequestTimeoutType DEF LongPollFits
<1>4. QED
  BY <1>1, <1>2, <1>3 DEF ClientTimeout

(* The longest wait covers the backoff and flood control.                  *)
LEMMA LongestWaitType ==
  /\ LongestWait \in Nat \ {0}
  /\ MaxDelay <= LongestWait /\ FloodWait <= LongestWait
<1>1. MaxDelay \in Nat \ {0} /\ FloodWait \in Nat \ {0}
  BY DelayBounds, BackoffAssumption
<1>2. QED
  BY <1>1 DEF LongestWait

(* No wait is longer than LongestWait, and flood control's is as asked:    *)
(* when the backoff overflows, its largest delay is far above a second.    *)
LEMMA SleepType ==
  ASSUME ClientTypeOK, Bounded(backoff), NEW error, Sleep(error)
  PROVE  /\ timer' \in 1..LongestWait
         /\ error = "flood" => timer' = FloodWait
         /\ backoff' \in Int /\ Bounded(backoff)'
<1>1. backoff \in Int
  BY DEF ClientTypeOK
<1>2. /\ timer' = SleepFor(NextDelay(backoff, error))
      /\ backoff' = BackoffAfter(backoff, error)
  BY DEF Sleep
<1>3. /\ backoff' \in Int /\ Bounded(backoff')
      /\ \/ timer' \in {FloodWait} \cup InitialDelay..MaxDelay
         \/ timer' = Second /\ 2 * MaxDelay >= DurationLimit
  BY <1>1, <1>2, SleepInBounds
<1>4. timer' \in 1..LongestWait
  BY <1>3, LongestWaitType, DelayBounds, BackoffAssumption
<1>5. error = "flood" => timer' = FloodWait
  BY <1>2, BackoffAssumption DEF NextDelay, RetryAfterOf, SleepFor
<1>6. QED
  BY <1>3, <1>4, <1>5 DEF Bounded

-----------------------------------------------------------------------------
(* Types.                                                                  *)

LEMMA ClientTypeInit == Init => ClientTypeOK /\ Bounded(backoff)
<1> SUFFICES ASSUME Init PROVE ClientTypeOK /\ Bounded(backoff)
  OBVIOUS
<1>1. Regular \in AnswerType
  BY DEF Regular, AnswerType
<1>2. QED
  BY <1>1, ClientTimeoutType, ClientAssumption, BackoffAssumption
  DEF Init, ClientTypeOK, Bounded, ResetBackoff

LEMMA ClientTypeStep ==
  ASSUME ClientTypeOK, Bounded(backoff), [Next]_vars
  PROVE  ClientTypeOK' /\ Bounded(backoff)'
<1> USE DEF InCall
<1>1. CASE Call
  BY <1>1, RequestTimeoutType, ClientTimeoutType DEF Call, ClientTypeOK, Bounded
<1>2. CASE Answer
  <2>1. /\ phase' = "returning" /\ timer' \in Nat
        /\ UNCHANGED <<method, elapsed, backoff, age>>
    BY <1>2, ClientAssumption DEF Answer
  <2>2. answer' \in AnswerType
    <3>1. Regular \in AnswerType
      BY DEF Regular, AnswerType
    <3>2. QED
      BY <1>2, <3>1, ClientAssumption DEF Answer
  <2>3. ban' \in 0..FloodWait
    <3>1. RetryAfter(answer') \in 0..FloodWait
      BY <2>2, BackoffAssumption DEF RetryAfter, AnswerType
    <3>2. QED
      BY <1>2, <3>1 DEF Answer, ClientTypeOK
  <2>4. errors' \in 0..MaxErrors
    BY <1>2, ClientAssumption DEF Answer, Spend, ClientTypeOK
  <2>5. QED
    BY <2>1, <2>2, <2>3, <2>4 DEF ClientTypeOK, Bounded
<1>3. CASE Lose
  BY <1>3, ClientAssumption DEF Lose, Spend, ClientTypeOK, Bounded
<1>4. CASE Receive
  <2>1. UNCHANGED <<elapsed, answer, ban, errors>>
    BY <1>4 DEF Receive
  <2>2. CASE ~Succeeds(answer) /\ ~GivesUp(answer)
    <3>1. PICK error : Sleep(error)
      BY <1>4, <2>2 DEF Receive
    <3>2. /\ timer' \in Nat /\ backoff' \in Int /\ Bounded(backoff)'
      BY <3>1, SleepType, LongestWaitType
    <3>3. phase' = "sleeping" /\ method' = "getUpdates" /\ age' = age
      BY <3>1 DEF Sleep
    <3>4. QED
      BY <2>1, <3>2, <3>3 DEF ClientTypeOK
  <2>3. CASE Succeeds(answer) \/ GivesUp(answer)
    <3>1. \/ PollAgain
          \/ method' = "sendMessage" /\ UNCHANGED <<backoff, age>>
      BY <1>4, <2>3 DEF Receive
    <3>2. phase' = "ready" /\ timer' = timer
      BY <1>4, <2>3 DEF Receive
    <3>3. QED
      BY <2>1, <3>1, <3>2, ClientAssumption
      DEF PollAgain, ResetBackoff, ClientTypeOK, Bounded
  <2>4. QED
    BY <2>2, <2>3
<1>5. CASE TimeOut
  <2>1. /\ timer' \in Nat /\ backoff' \in Int /\ Bounded(backoff)'
    BY <1>5, SleepType, LongestWaitType DEF TimeOut
  <2>2. QED
    BY <1>5, <2>1 DEF TimeOut, Sleep, ClientTypeOK
<1>6. CASE Wake
  BY <1>6 DEF Wake, ClientTypeOK, Bounded
<1>7. CASE Arrive
  BY <1>7, ClientAssumption DEF Arrive, ClientTypeOK, Bounded
<1>8. CASE Tick
  BY <1>8, ClientTimeoutType, ClientAssumption, BackoffAssumption
  DEF Tick, AnswerDue, ClientTypeOK, Bounded
<1>9. CASE UNCHANGED vars
  BY <1>9 DEF vars, ClientTypeOK, Bounded
<1>10. QED
  BY <1>1, <1>2, <1>3, <1>4, <1>5, <1>6, <1>7, <1>8, <1>9 DEF Next

-----------------------------------------------------------------------------
(* Why a step keeps an update on its schedule, when the client's timeout   *)
(* is above that of the long poll.                                         *)

OnTime ==
  CallsInTime /\ NoDetour /\ PollsNotCutShort /\ BanHeeded /\ OnSchedule

(* Then only a call whose answer never comes runs into the timeout.        *)
LEMMA OnlyLostTimesOut ==
  ASSUME ClientTypeOK, LongPollFits, CallsInTime, TimeOut
  PROVE  phase = "lost" /\ elapsed = TelegramTimeout
<1>1. PICK poll \in Nat : poll = RequestTimeout * Second
  BY RequestTimeoutType
<1>2. /\ elapsed \in Nat /\ timer \in Nat /\ elapsed <= TelegramTimeout
      /\ TelegramTimeout \in Int /\ Latency \in Nat
  BY ClientTimeoutType, ClientAssumption DEF ClientTypeOK
<1>3. phase \in InCall /\ elapsed >= TelegramTimeout
  BY ClientTimeoutType DEF TimeOut
<1>4. phase \notin {"held", "returning"}
  BY <1>1, <1>2, <1>3 DEF CallsInTime, LongPollFits
<1>5. QED
  BY <1>2, <1>3, <1>4 DEF InCall

LEMMA CallsInTimeStep ==
  ASSUME ClientTypeOK, CallsInTime, [Next]_vars
  PROVE  CallsInTime'
<1>1. PICK poll \in Nat : poll = RequestTimeout * Second
  BY RequestTimeoutType
<1>2. elapsed \in Nat /\ timer \in Nat /\ Latency \in Nat
  BY ClientTimeoutType, ClientAssumption DEF ClientTypeOK
<1>3. /\ phase = "held" => elapsed + timer <= poll
      /\ phase = "held" /\ method = "sendMessage" => timer = 0
      /\ phase = "returning" => elapsed + timer <= poll + Latency
  BY <1>1 DEF CallsInTime
<1>4. /\ phase' = "held" => elapsed' + timer' <= poll
      /\ phase' = "held" /\ method' = "sendMessage" => timer' = 0
      /\ phase' = "returning" => elapsed' + timer' <= poll + Latency
  <2>1. CASE Call
    BY <1>1, <2>1 DEF Call, ClientTypeOK
  <2>2. CASE Answer
    <3>1. /\ phase = "held" /\ phase' = "returning"
          /\ timer' \in 0..Latency /\ elapsed' = elapsed
      BY <2>2 DEF Answer
    <3>2. QED
      BY <1>1, <1>2, <1>3, <3>1
  <2>3. CASE Lose \/ Receive \/ TimeOut \/ Wake
    BY <2>3 DEF Lose, Receive, TimeOut, Wake, Sleep
  <2>4. CASE Arrive \/ UNCHANGED vars
    BY <1>3, <2>4 DEF Arrive, vars
  <2>5. CASE Tick
    BY <1>2, <1>3, <2>5 DEF Tick, AnswerDue, InCall
  <2>6. QED
    BY <2>1, <2>2, <2>3, <2>4, <2>5 DEF Next
<1>5. QED
  BY <1>1, <1>4 DEF CallsInTime

(* Telegram's regular answers are understood.                              *)
LEMMA RegularSucceeds == ASSUME answer' = Regular, UNCHANGED <<method, age>>
                         PROVE  Succeeds(answer)'
BY DEF Regular, Succeeds

LEMMA NoDetourStep ==
  ASSUME ClientTypeOK, LongPollFits, CallsInTime, NoDetour, PollsNotCutShort,
         [Next]_vars
  PROVE  NoDetour' /\ PollsNotCutShort'
<1>1. errors \in Nat
  BY ClientAssumption DEF ClientTypeOK
<1>2. CASE Answer
  <2>1. phase' = "returning" /\ UNCHANGED <<method, age>>
    BY <1>2 DEF Answer
  <2>2. CASE answer' = Regular
    BY <2>1, <2>2, RegularSucceeds DEF NoDetour, PollsNotCutShort
  <2>3. CASE answer' # Regular
    BY <1>1, <1>2, <2>1, <2>3 DEF Answer, Spend, NoDetour, PollsNotCutShort
  <2>4. QED
    BY <2>2, <2>3
<1>3. CASE Lose
  BY <1>1, <1>3 DEF Lose, Spend, NoDetour, PollsNotCutShort
<1>4. CASE Receive
  <2>1. UNCHANGED <<errors>> /\ phase = "returning"
    BY <1>4 DEF Receive
  <2>2. errors = 0 => phase' = "ready"
    BY <1>4 DEF Receive, NoDetour
  <2>3. QED
    BY <2>1, <2>2 DEF NoDetour, PollsNotCutShort
<1>5. CASE TimeOut
  BY <1>5, OnlyLostTimesOut DEF TimeOut, NoDetour, PollsNotCutShort
<1>6. CASE Call \/ Wake
  BY <1>6 DEF Call, Wake, NoDetour, PollsNotCutShort
<1>7. CASE Arrive \/ Tick \/ UNCHANGED vars
  <2>1. UNCHANGED <<phase, method, answer, errors>>
    BY <1>7 DEF Arrive, Tick, vars
  <2>2. QED
    BY <2>1 DEF NoDetour, PollsNotCutShort, Succeeds
<1>8. QED
  BY <1>2, <1>3, <1>4, <1>5, <1>6, <1>7 DEF Next

(* An answer that asks to wait is believed, unless somebody else wrote it. *)
LEMMA BanHeededStep ==
  ASSUME ClientTypeOK, Bounded(backoff), LongPollFits, CallsInTime, BanHeeded,
         [Next]_vars
  PROVE  BanHeeded'
<1>1. ban \in 0..FloodWait /\ timer \in Nat /\ FloodWait \in Nat \ {0}
  BY BackoffAssumption DEF ClientTypeOK
<1>2. CASE Answer
  <2>1. phase' = "returning" /\ ban = 0
    BY <1>1, <1>2 DEF Answer, BanHeeded
  <2>2. CASE answer' = Regular /\ UNCHANGED <<ban, errors>>
    BY <2>1, <2>2 DEF BanHeeded
  <2>3. CASE /\ answer' \in Answers
             /\ ban' = IF RetryAfter(answer') > 0 THEN RetryAfter(answer') ELSE ban
    <3>1. /\ answer' \in AnswerType
          /\ answer'.ok => answer'.retry_after <= 0
      BY <2>3, ClientAssumption
    <3>2. RetryAfter(answer') > 0 => ~answer'.ok
      BY <3>1, <1>1 DEF RetryAfter, AnswerType
    <3>3. QED
      BY <2>1, <2>3, <3>2 DEF BanHeeded, RetryAfter
  <2>4. QED
    BY <1>2, <2>2, <2>3 DEF Answer
<1>3. CASE Receive
  <2>1. ban' = ban /\ phase = "returning" /\ timer = 0
    BY <1>3 DEF Receive
  <2>2. CASE ban = 0
    BY <2>1, <2>2 DEF BanHeeded
  <2>3. CASE ban > 0
    <3>1. RetryAfter(answer) > 0 /\ ~answer.ok /\ answer.body = "json"
      BY <2>1, <2>3 DEF BanHeeded, RetryAfter
    <3>2. ~Succeeds(answer) /\ ~GivesUp(answer) /\ IsAPIError(answer)
      BY <3>1 DEF Succeeds, GivesUp, IsAPIError, Temporary
    <3>3. Sleep("flood")
      BY <1>3, <3>1, <3>2 DEF Receive
    <3>4. phase' = "sleeping" /\ timer' = FloodWait
      BY <3>3, SleepType DEF Sleep
    <3>5. QED
      BY <1>1, <2>1, <3>4 DEF BanHeeded
  <2>4. QED
    BY <1>1, <2>2, <2>3
<1>4. CASE Lose \/ TimeOut \/ Call
  <2>1. ban = 0 /\ ban' = ban
    BY <1>1, <1>4, OnlyLostTimesOut DEF Lose, TimeOut, Call, BanHeeded
  <2>2. QED
    BY <2>1 DEF BanHeeded
<1>5. CASE Wake
  BY <1>1, <1>5 DEF Wake, BanHeeded
<1>6. CASE Tick
  BY <1>1, <1>6 DEF Tick, BanHeeded, RetryAfter
<1>7. CASE Arrive \/ UNCHANGED vars
  BY <1>7 DEF Arrive, vars, BanHeeded, RetryAfter
<1>8. QED
  BY <1>2, <1>3, <1>4, <1>5, <1>6, <1>7 DEF Next

(* What every irregular answer adds.                                       *)
LEMMA BudgetGrows ==
  ASSUME NEW n \in Int, NEW cost \in Int PROVE (n + 1) * cost = n * cost + cost
OBVIOUS

(* The schedule, in words of integers.                                     *)
LEMMA RemainingType ==
  ASSUME ClientTypeOK, LongPollFits
  PROVE  /\ Latency \in Nat /\ TelegramTimeout \in Nat
         /\ LongestWait \in Nat /\ ErrorCost \in Nat /\ errors \in Nat
         /\ Latency < TelegramTimeout
         /\ \A a : /\ RemainingAfter(a) \in Nat
                   /\ RemainingAfter(a) <= LongestWait + 2 * Latency
<1>1. /\ Latency \in Nat /\ TelegramTimeout \in Int
      /\ RequestTimeout * Second + Latency < TelegramTimeout
  BY ClientAssumption DEF LongPollFits
<1>2. Latency < TelegramTimeout /\ TelegramTimeout \in Nat
  BY <1>1, RequestTimeoutType
<1>3. LongestWait \in Nat /\ errors \in Nat
  BY LongestWaitType, ClientAssumption DEF ClientTypeOK
<1>4. QED
  BY <1>1, <1>2, <1>3 DEF ErrorCost, RemainingAfter

(* Whatever does not take longer keeps a limit.                            *)
LEMMA StillFits ==
  ASSUME NEW waited \in Int, NEW rest \in Int, NEW later \in Int,
         NEW limit \in Int, waited + rest <= limit, later <= rest
  PROVE  waited + later <= limit
OBVIOUS

(* Time passes for both.                                                   *)
LEMMA TickFits ==
  ASSUME NEW waited \in Int, NEW next \in Int, NEW rest \in Int,
         NEW limit \in Int, waited + rest <= limit, next <= waited + 1
  PROVE  next + (rest - 1) <= limit
OBVIOUS

LEMMA OnScheduleStep ==
  ASSUME ClientTypeOK, Bounded(backoff), LongPollFits, CallsInTime, OnSchedule,
         [Next]_vars
  PROVE  OnSchedule'
<1> DEFINE waited == IF age = 0 THEN 1 ELSE age
           cost == errors * ErrorCost
<1>1. /\ Latency \in Nat /\ TelegramTimeout \in Nat
      /\ LongestWait \in Nat /\ errors \in Nat
      /\ Latency < TelegramTimeout
  BY RemainingType
<1>2. /\ cost \in Nat
      /\ errors' = errors + 1 =>
           cost' = cost + Latency + TelegramTimeout + LongestWait
      /\ errors' = errors => cost' = cost
  <2>1. ErrorCost \in Nat
    BY RemainingType
  <2>2. errors * ErrorCost \in Nat
    BY <1>1, <2>1
  <2>3. errors' = errors + 1 => errors' * ErrorCost = errors * ErrorCost + ErrorCost
    BY <1>1, <2>1, BudgetGrows
  <2>4. QED
    BY <1>1, <2>2, <2>3 DEF ErrorCost
<1>3. /\ age \in Nat /\ timer \in Nat /\ elapsed \in Nat
      /\ method \in {"getUpdates", "sendMessage"}
  BY ClientTimeoutType, ClientAssumption DEF ClientTypeOK
<1>4. waited + Remaining <= 1 + 3 * Latency + cost
  BY DEF OnSchedule
<1>5. SUFFICES waited' + Remaining' <= 1 + 3 * Latency + cost'
  BY DEF OnSchedule
<1>w. /\ waited \in Nat /\ (age = 0 => waited = 1)
      /\ age' = age => waited' = waited
      /\ age' \in {0, 1} => waited' = 1
  BY <1>3
<1> HIDE DEF cost, waited
<1>s. ASSUME age' = age, errors' = errors, Remaining \in Int,
             Remaining' \in Int, Remaining' <= Remaining
      PROVE  waited' + Remaining' <= 1 + 3 * Latency + cost'
  <2>1. waited' = waited /\ cost' = cost
    BY <1>2, <1>w, <1>s
  <2>2. waited \in Int /\ 1 + 3 * Latency + cost \in Int
    BY <1>1, <1>2, <1>w
  <2>3. waited + Remaining' <= 1 + 3 * Latency + cost
    BY <1>4, <1>s, <2>2, StillFits
  <2>4. QED
    BY <2>1, <2>3
<1>6. CASE Call
  <2>1. /\ Remaining' = Remaining
        /\ age' = age /\ errors' = errors
    BY <1>6 DEF Call, Remaining
  <2>2. QED
    BY <1>2, <1>4, <1>w, <2>1
<1>7. CASE Answer
  <2>1. /\ phase = "held" /\ phase' = "returning" /\ timer' \in 0..Latency
        /\ UNCHANGED <<method, age>>
    BY <1>7 DEF Answer
  <2>2. Remaining' = timer' + RemainingAfter(answer)'
    BY <2>1 DEF Remaining
  <2>3. /\ method = "sendMessage" => Remaining = Latency
        /\ method = "getUpdates" => Remaining = 2 * Latency
    BY <2>1 DEF Remaining
  <2>4. CASE answer' = Regular /\ errors' = errors
    <3>1. Succeeds(answer)'
      BY <2>1, <2>4, RegularSucceeds
    <3>2. /\ method = "sendMessage" => RemainingAfter(answer)' = 0
          /\ method = "getUpdates" /\ age # 0 => RemainingAfter(answer)' = Latency
          /\ age = 0 => RemainingAfter(answer)' \in 0..2 * Latency
      BY <1>1, <1>3, <2>1, <2>4, <3>1 DEF RemainingAfter, Regular
    <3>3. QED
      BY <1>1, <1>2, <1>3, <1>4, <1>w, <2>1, <2>2, <2>3, <2>4, <3>2
  <2>5. CASE errors' = errors + 1
    <3>1. RemainingAfter(answer)' \in 0..LongestWait + 2 * Latency
      BY <1>1, <2>1 DEF RemainingAfter
    <3>2. QED
      BY <1>1, <1>2, <1>3, <1>4, <1>w, <2>1, <2>2, <2>3, <2>5, <3>1
  <2>6. QED
    BY <1>7, <2>4, <2>5 DEF Answer, Spend
<1>8. CASE Lose
  <2>1. /\ phase = "held" /\ phase' = "lost" /\ errors' = errors + 1
        /\ UNCHANGED <<method, timer, elapsed, age>>
    BY <1>8 DEF Lose, Spend
  <2>2. /\ Remaining' = TelegramTimeout - elapsed + LongestWait + 2 * Latency
        /\ Remaining = IF method = "sendMessage" THEN Latency ELSE 2 * Latency
    BY <2>1 DEF Remaining
  <2>3. QED
    BY <1>1, <1>2, <1>3, <1>4, <1>w, <2>1, <2>2
<1>9. CASE TimeOut
  <2>1. /\ phase = "lost" /\ elapsed = TelegramTimeout
        /\ phase' = "sleeping" /\ errors' = errors /\ age' = age
        /\ timer' \in 1..LongestWait
    BY <1>9, OnlyLostTimesOut, SleepType DEF TimeOut, Sleep
  <2>2. /\ Remaining = LongestWait + 2 * Latency
        /\ Remaining' \in Nat /\ Remaining' <= Remaining
    BY <1>1, <2>1 DEF Remaining
  <2>3. QED
    BY <1>1, <1>s, <2>1, <2>2
<1>10. CASE Wake
  <2>1. /\ phase = "sleeping" /\ timer = 0 /\ phase' = "ready"
        /\ errors' = errors /\ age' = age
    BY <1>10 DEF Wake
  <2>2. Remaining = 2 * Latency /\ Remaining' <= 2 * Latency
    BY <1>1, <2>1 DEF Remaining
  <2>3. QED
    BY <1>1, <1>2, <1>3, <1>4, <1>w, <2>1, <2>2 DEF Remaining
<1>11. CASE Arrive
  <2>1. Remaining' = Remaining
    BY <1>11 DEF Arrive, Remaining, RemainingAfter, Succeeds, GivesUp
  <2>2. age = 0 /\ age' = 1 /\ errors' = errors
    BY <1>11 DEF Arrive
  <2>3. QED
    BY <1>2, <1>4, <1>w, <2>1, <2>2
<1>12. CASE UNCHANGED vars
  <2>1. Remaining' = Remaining /\ age' = age /\ errors' = errors
    BY <1>12 DEF vars, Remaining, RemainingAfter, Succeeds, GivesUp
  <2>2. QED
    BY <1>2, <1>4, <1>w, <2>1
<1>13. CASE Tick
  <2>1. /\ UNCHANGED <<phase, method, answer, errors>>
        /\ waited' \in Nat /\ waited' <= waited + 1
        /\ age = 0 => waited' = waited
    BY <1>3, <1>13 DEF Tick, waited
  <2>2. CASE phase = "held"
    BY <1>1, <1>2, <1>3, <1>4, <1>w, <1>13, <2>1, <2>2
    DEF Tick, AnswerDue, CallsInTime, Remaining
  <2>3. CASE phase # "held"
    <3>1. Remaining \in Int /\ Remaining' = Remaining - 1
      BY <1>1, <1>3, <1>13, <2>1, <2>3
      DEF Tick, InCall, Remaining, RemainingAfter, Succeeds, GivesUp
    <3>2. /\ waited \in Int /\ waited' \in Int
          /\ 1 + 3 * Latency + cost \in Int /\ cost' = cost
      BY <1>1, <1>2, <1>w, <2>1
    <3>3. waited' + (Remaining - 1) <= 1 + 3 * Latency + cost
      BY <1>4, <2>1, <3>1, <3>2, TickFits
    <3>4. QED
      BY <3>1, <3>2, <3>3
  <2>4. QED
    BY <2>2, <2>3
<1>14. CASE Receive
  <2>1. phase = "returning" /\ timer = 0 /\ UNCHANGED <<answer, errors>>
    BY <1>14 DEF Receive
  <2>2. Remaining = RemainingAfter(answer)
    BY <2>1, RemainingType DEF Remaining
  <2>3. CASE ~Succeeds(answer) /\ ~GivesUp(answer)
    <3>1. PICK error : Sleep(error)
      BY <1>14, <2>3 DEF Receive
    <3>2. /\ phase' = "sleeping" /\ age' = age /\ timer' \in 1..LongestWait
      BY <3>1, SleepType DEF Sleep
    <3>3. Remaining' \in Nat /\ Remaining' <= LongestWait + 2 * Latency
      BY <1>1, <3>2 DEF Remaining
    <3>4. RemainingAfter(answer) = LongestWait + 2 * Latency
      BY <2>3 DEF RemainingAfter
    <3>5. QED
      BY <1>1, <1>s, <2>1, <2>2, <3>2, <3>3, <3>4
  <2>4. CASE Succeeds(answer) \/ GivesUp(answer)
    <3>1. /\ phase' = "ready"
          /\ \/ PollAgain
             \/ /\ method = "getUpdates" /\ answer.result = "updates"
                /\ method' = "sendMessage" /\ age' = age
      BY <1>14, <2>4 DEF Receive
    <3>2. Remaining' = IF method' = "sendMessage" THEN Latency ELSE 2 * Latency
      BY <3>1 DEF Remaining
    <3>3. RemainingAfter(answer) = IF method = "sendMessage" THEN 0
                                   ELSE IF answer.result = "updates" THEN Latency
                                   ELSE 2 * Latency
      BY <2>4 DEF RemainingAfter
    <3>4. CASE PollAgain
      <4>1. /\ method' = "getUpdates"
            /\ \/ age' = 0
               \/ /\ method = "getUpdates" /\ answer.result = "none"
                  /\ age' = age
        BY <3>4 DEF PollAgain
      <4>2. QED
        BY <1>1, <1>2, <1>3, <1>4, <1>w, <2>1, <2>2, <3>2, <3>3, <4>1
    <3>5. CASE /\ method = "getUpdates" /\ answer.result = "updates"
               /\ method' = "sendMessage" /\ age' = age
      BY <1>1, <1>2, <1>3, <1>4, <1>w, <2>1, <2>2, <3>2, <3>3, <3>5
    <3>6. QED
      BY <3>1, <3>4, <3>5
  <2>5. QED
    BY <2>3, <2>4
<1>15. QED
  BY <1>6, <1>7, <1>8, <1>9, <1>10, <1>11, <1>12, <1>13, <1>14 DEF Next

-----------------------------------------------------------------------------
(* The invariant, and what it says.                                        *)

LEMMA ClientInit == Init => ClientInv
<1> SUFFICES ASSUME Init PROVE ClientInv
  OBVIOUS
<1>1. ClientTypeOK /\ Bounded(backoff)
  BY ClientTypeInit
<1>2. ASSUME LongPollFits PROVE OnTime
  <2>1. CallsInTime /\ NoDetour /\ PollsNotCutShort
    BY DEF Init, CallsInTime, NoDetour, PollsNotCutShort
  <2>2. BanHeeded
    BY DEF Init, BanHeeded
  <2>3. Remaining = 2 * Latency /\ age = 0 /\ errors = 0
    BY DEF Init, Remaining
  <2>4. Latency \in Nat /\ ErrorCost \in Nat
    BY <1>1, <1>2, RemainingType
  <2>5. OnSchedule
    BY <2>3, <2>4 DEF OnSchedule
  <2>6. QED
    BY <2>1, <2>2, <2>5 DEF OnTime
<1>3. QED
  BY <1>1, <1>2 DEF ClientInv, OnTime

LEMMA ClientStep == ClientInv /\ [Next]_vars => ClientInv'
<1> SUFFICES ASSUME ClientInv, [Next]_vars PROVE ClientInv'
  OBVIOUS
<1>1. ClientTypeOK /\ Bounded(backoff)
  BY DEF ClientInv
<1>2. ClientTypeOK' /\ Bounded(backoff)'
  BY <1>1, ClientTypeStep
<1>3. ASSUME LongPollFits PROVE OnTime'
  <2>1. CallsInTime /\ NoDetour /\ PollsNotCutShort /\ BanHeeded /\ OnSchedule
    BY <1>3 DEF ClientInv
  <2>2. CallsInTime' /\ NoDetour' /\ PollsNotCutShort'
    BY <1>1, <1>3, <2>1, CallsInTimeStep, NoDetourStep
  <2>3. BanHeeded' /\ OnSchedule'
    BY <1>1, <1>3, <2>1, BanHeededStep, OnScheduleStep
  <2>4. QED
    BY <2>2, <2>3 DEF OnTime
<1>4. LongPollFits' <=> LongPollFits
  BY DEF LongPollFits, RequestTimeout
<1>5. QED
  BY <1>2, <1>3, <1>4 DEF ClientInv, OnTime

(* Whatever Telegram and the proxies answer or fail to answer, the poller  *)
(* keeps an update on its schedule.                                        *)
THEOREM ClientInvariant == Spec => []ClientInv
BY ClientInit, ClientStep, PTL DEF Spec

(* Types, and that no duration is overrun.                                 *)
THEOREM ClientTypeCorrect == Spec => []ClientTypeOK
BY ClientInvariant, PTL DEF ClientInv

(* With the timeout above that of the long poll, a poller that gets        *)
(* regular answers never waits before a retry (client.go:95-97).           *)
THEOREM LongPollsLast == Spec => [](LongPollFits => PollsNotCutShort)
<1>1. ClientInv => (LongPollFits => PollsNotCutShort)
  BY DEF ClientInv
<1>2. QED
  BY <1>1, ClientInvariant, PTL

(* How long an update can take: three ways of an answer, and ErrorCost for *)
(* every irregular answer.                                                 *)
THEOREM UpdatesArriveInTime == Spec => []DeliveredInTime
<1>1. ASSUME ClientInv PROVE DeliveredInTime
  <2> SUFFICES ASSUME LongPollFits
               PROVE  age <= 1 + 3 * Latency + errors * ErrorCost
    BY DEF DeliveredInTime, ErrorCost
  <2>1. ClientTypeOK /\ OnSchedule
    BY <1>1 DEF ClientInv
  <2>2. /\ Latency \in Nat /\ ErrorCost \in Nat /\ errors \in Nat
        /\ TelegramTimeout \in Nat /\ LongestWait \in Nat
        /\ RemainingAfter(answer) \in Nat
    BY <2>1, RemainingType
  <2>3. elapsed \in 0..TelegramTimeout /\ timer \in Nat /\ age \in Nat
    BY <2>1, ClientTimeoutType, ClientAssumption DEF ClientTypeOK
  <2>4. Remaining \in Nat
    BY <2>1, <2>2, <2>3 DEF Remaining, ClientTypeOK, InCall
  <2>5. errors * ErrorCost \in Nat
    BY <2>2
  <2>6. age + 0 <= 1 + 3 * Latency + errors * ErrorCost
    <3>1. CASE age = 0
      BY <2>2, <2>5, <3>1
    <3>2. CASE age # 0
      <4>1. age + Remaining <= 1 + 3 * Latency + errors * ErrorCost
        BY <2>1, <3>2 DEF OnSchedule
      <4>2. QED
        BY <2>2, <2>3, <2>4, <2>5, <4>1, StillFits
    <3>3. QED
      BY <3>1, <3>2
  <2>7. QED
    BY <2>3, <2>6
<1>2. QED
  BY <1>1, ClientInvariant, PTL

(* Neither getUpdates nor a method is called while flood control lasts     *)
(* (service.go:467-474, client.go:251-253).                                *)
THEOREM FloodControlObeyed == Spec => []FloodObeyed
<1>1. ASSUME ClientInv PROVE FloodObeyed
  <2>1. ban \in Nat
    BY <1>1, BackoffAssumption DEF ClientInv, ClientTypeOK
  <2>2. QED
    BY <1>1, <2>1 DEF ClientInv, BanHeeded, FloodObeyed
<1>2. QED
  BY <1>1, ClientInvariant, PTL

(* deliverUpdate gives a method up only when Telegram refused it for good, *)
(* and then does (service.go:388-394).                                     *)
THEOREM MethodsEndAsTheyShould == Spec => MethodFate
<1> DEFINE Fate ==
      phase = "returning" /\ method = "sendMessage" /\ FromTelegram(answer) =>
        /\ (age > 0 /\ age' = 0) => (answer.ok \/ Refused(answer))
        /\ phase' = "sleeping" => (~Refused(answer) \/ elapsed >= ClientTimeout)
<1>1. ASSUME ClientTypeOK, [Next]_vars PROVE [Fate]_vars
  <2> SUFFICES ASSUME Next, phase = "returning", method = "sendMessage",
                      FromTelegram(answer)
               PROVE  Fate
    BY <1>1
  <2>1. /\ answer.status \in 200..599 /\ answer.error_code \in 0..599
        /\ answer.ok \in BOOLEAN
    BY <1>1 DEF ClientTypeOK, AnswerType
  <2>2. age \in Nat
    BY <1>1, ClientAssumption DEF ClientTypeOK
  <2>3. CASE Receive
    <3>1. CASE ~Succeeds(answer) /\ ~GivesUp(answer)
      <4>1. age' = age
        BY <2>3, <3>1 DEF Receive, Sleep
      <4>2. ~Refused(answer)
        BY <2>1, <3>1 DEF Succeeds, GivesUp, IsAPIError, Temporary, Refused,
                          FromTelegram
      <4>3. QED
        BY <2>2, <4>1, <4>2
    <3>2. CASE Succeeds(answer) \/ GivesUp(answer)
      <4>1. phase' = "ready"
        BY <2>3, <3>2 DEF Receive
      <4>2. answer.ok \/ Refused(answer)
        BY <2>1, <3>2, BackoffAssumption
        DEF Succeeds, GivesUp, IsAPIError, Temporary, Refused, FromTelegram,
            RetryAfter
      <4>3. QED
        BY <4>1, <4>2
    <3>3. QED
      BY <3>1, <3>2
  <2>4. CASE TimeOut
    BY <2>2, <2>4 DEF TimeOut, Sleep
  <2>5. CASE Tick
    BY <2>2, <2>5 DEF Tick
  <2>6. CASE Call \/ Answer \/ Lose \/ Wake \/ Arrive
    BY <2>2, <2>6 DEF Call, Answer, Lose, Wake, Arrive
  <2>7. QED
    BY <2>3, <2>4, <2>5, <2>6 DEF Next
<1>2. QED
  BY <1>1, ClientTypeCorrect, PTL DEF Spec, MethodFate

=============================================================================
