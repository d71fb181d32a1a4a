--------------------------- MODULE BridgePaceProofs ----------------------------
(***************************************************************************)
(* What a poller does to others: PaceInv is inductive, and from it follow  *)
(* that a poller waits as configured before it retries, that it polls only *)
(* when the webhook is gone, and that every repeated POST has a fault of   *)
(* its own as its cause.                                                   *)
(***************************************************************************)
EXTENDS BridgeOffsetProofs, BackoffProofs

-----------------------------------------------------------------------------
(* A poller falls asleep by FallAsleep only; it resets its backoff only    *)
(* while it is awake.                                                      *)
LEMMA SleepStep ==
  ASSUME TypeOK, NEW b \in Bots, BotStep(b)
  PROVE  \/ \E error, label : FallAsleep(b, error, label)
         \/ /\ pc'[b] \notin Sleeping
            /\ \/ UNCHANGED backoff
               \/ backoff' = [backoff EXCEPT ![b] = ResetBackoff]
<1>1. PollerTypeOK
  BY DEF TypeOK
<1>2. QED
  BY <1>1
  DEF BotStep, EnsurePollingMode, Poll, DeliverUpdate, At, DeleteWebhookOk,
      DeleteWebhookFails, LogDeleteError, LoadOffset, LoadOffsetFails,
      StopPolling, GetUpdatesOk, GetUpdatesFails, LogPollError, LogPollOk,
      Receive, ReceiveMalformed, PostAnswered, PostFails, ReadBodyFails,
      LogResponseError, LogResponse, CallMethodAnswered, CallMethodFails,
      LogMethodError, Log, LogFails, Wake, SaveOffsetOk, SaveOffsetFails,
      ReportFailure, PollerTypeOK, sleepVars, Retry, Goto, Abort, AfterLog,
      Sleeping

(* The step of one poller leaves the delays of the others alone.           *)
LEMMA OthersSleep ==
  ASSUME TypeOK, NEW b \in Bots, BotStep(b), NEW c \in Bots, c # b
  PROVE  delay'[c] = delay[c] /\ backoff'[c] = backoff[c]
<1>1. PollerTypeOK
  BY DEF TypeOK
<1>2. QED
  BY <1>1
  DEF BotStep, EnsurePollingMode, Poll, DeliverUpdate, At, DeleteWebhookOk,
      DeleteWebhookFails, LogDeleteError, LoadOffset, LoadOffsetFails,
      StopPolling, GetUpdatesOk, GetUpdatesFails, LogPollError, LogPollOk,
      Receive, ReceiveMalformed, PostAnswered, PostFails, ReadBodyFails,
      LogResponseError, LogResponse, CallMethodAnswered, CallMethodFails,
      LogMethodError, Log, LogFails, Wake, SaveOffsetOk, SaveOffsetFails,
      ReportFailure, PollerTypeOK, sleepVars, Retry, FallAsleep

LEMMA PaceStep ==
  ASSUME TypeOK, BackoffBounded, RetryPace, NEW b \in Bots, BotStep(b)
  PROVE  BackoffBounded' /\ RetryPace'
<1>1. /\ delay \in [Bots -> Nat] /\ backoff \in [Bots -> Int]
      /\ Bounded(backoff[b])
  BY DEF TypeOK, PollerTypeOK, BackoffBounded
<1>2. ASSUME NEW c \in Bots, c # b
      PROVE  /\ delay'[c] = delay[c] /\ backoff'[c] = backoff[c]
             /\ pc'[c] = pc[c]
  BY <1>2, OthersSleep, OtherBotStep
<1>3. CASE \E error, label : FallAsleep(b, error, label)
  <2>1. PICK error, label : FallAsleep(b, error, label)
    BY <1>3
  <2>2. /\ delay'[b] = SleepFor(NextDelay(backoff[b], error))
        /\ backoff'[b] = BackoffAfter(backoff[b], error)
    BY <1>1, <2>1 DEF FallAsleep
  <2>3. /\ Bounded(backoff'[b])
        /\ \/ delay'[b] \in {FloodWait} \cup InitialDelay..MaxDelay
           \/ /\ backoff'[b] < 0 /\ delay'[b] = Second
              /\ 2 * MaxDelay >= DurationLimit
    BY <1>1, <2>2, SleepInBounds
  <2>4. QED
    BY <1>2, <2>3 DEF BackoffBounded, RetryPace, Bounded
<1>4. CASE /\ pc'[b] \notin Sleeping
           /\ \/ UNCHANGED backoff
              \/ backoff' = [backoff EXCEPT ![b] = ResetBackoff]
  <2>1. Bounded(backoff'[b])
    BY <1>1, <1>4 DEF Bounded
  <2>2. QED
    BY <1>2, <1>4, <2>1 DEF BackoffBounded, RetryPace, Bounded
<1>5. QED
  BY <1>3, <1>4, SleepStep

-----------------------------------------------------------------------------
(* Polling mode.                                                           *)

(* A poller gets past ensurePollingMode when the webhook was removed, or   *)
(* when it is cancelled.                                                   *)
LEMMA PollingModeStep ==
  ASSUME TypeOK, NEW b \in Bots, BotStep(b), pc'[b] \notin WithWebhook
  PROVE  \/ pc[b] \notin WithWebhook
         \/ canceled'
         \/ RemoveWebhook(TokenOf[b], DropPending[b])
<1>1. PollerTypeOK
  BY DEF TypeOK
<1>2. QED
  BY <1>1
  DEF BotStep, EnsurePollingMode, Poll, DeliverUpdate, At, DeleteWebhookOk,
      DeleteWebhookFails, LogDeleteError, LoadOffset, LoadOffsetFails,
      StopPolling, GetUpdatesOk, GetUpdatesFails, LogPollError, LogPollOk,
      Receive, ReceiveMalformed, PostAnswered, PostFails, ReadBodyFails,
      LogResponseError, LogResponse, CallMethodAnswered, CallMethodFails,
      LogMethodError, Log, LogFails, Wake, SaveOffsetOk, SaveOffsetFails,
      ReportFailure, PollerTypeOK, procVars, Token, Retry, FallAsleep, Goto,
      Abort, WithWebhook, FatalLogs, DeliveryLogs, AfterLog

(* A poller is done only when it is cancelled, and it has failed only by a *)
(* fault that came before it was.                                          *)
LEMMA EndStep ==
  ASSUME TypeOK, NEW b \in Bots, BotStep(b)
  PROVE  /\ pc'[b] = "done" => canceled'
         /\ canceled => canceled'
         /\ canceled' => canceled \/ (pc[b] = "fail" /\ UNCHANGED <<attempts, faults>>)
         /\ pc[b] = "fail" => canceled' /\ UNCHANGED <<attempts, faults>>
<1>1. PollerTypeOK
  BY DEF TypeOK
<1>2. QED
  BY <1>1
  DEF BotStep, EnsurePollingMode, Poll, DeliverUpdate, At, DeleteWebhookOk,
      DeleteWebhookFails, LogDeleteError, LoadOffset, LoadOffsetFails,
      StopPolling, GetUpdatesOk, GetUpdatesFails, LogPollError, LogPollOk,
      Receive, ReceiveMalformed, PostAnswered, PostFails, ReadBodyFails,
      LogResponseError, LogResponse, CallMethodAnswered, CallMethodFails,
      LogMethodError, Log, LogFails, Wake, SaveOffsetOk, SaveOffsetFails,
      ReportFailure, PollerTypeOK, procVars, Retry, FallAsleep, Goto, Abort,
      FatalLogs, DeliveryLogs, AfterLog, histVars

LEMMA ModeStep ==
  ASSUME TypeOK, WebhookGone, DoneIsCanceled, NEW b \in Bots, BotStep(b)
  PROVE  WebhookGone' /\ DoneIsCanceled'
<1>1. canceled => canceled'
  BY EndStep
<1>2. \A c \in Bots : TokenOf[c] \in Tokens
  BY ConfigAssumption
<1>3. \A t \in Tokens : webhook'[t] => webhook[t]
  BY TelegramStep
  DEF tgVars, RemoveWebhook, ConfirmBelow, TypeOK, TelegramTypeOK
<1>4. WebhookGone'
  <2> SUFFICES ASSUME NEW c \in Bots, pc'[c] \notin WithWebhook,
                      webhook'[TokenOf[c]]
               PROVE  canceled'
    BY DEF WebhookGone
  <2>1. CASE pc[c] \notin WithWebhook
    BY <1>1, <1>2, <1>3, <2>1 DEF WebhookGone
  <2>2. CASE pc[c] \in WithWebhook
    <3>1. c = b
      BY <2>2, OtherBotStep
    <3>2. CASE RemoveWebhook(TokenOf[b], DropPending[b])
      BY <1>2, <3>1, <3>2 DEF RemoveWebhook, TypeOK, TelegramTypeOK
    <3>3. QED
      BY <2>2, <3>1, <3>2, PollingModeStep
  <2>3. QED
    BY <2>1, <2>2
<1>5. DoneIsCanceled'
  <2> SUFFICES ASSUME NEW c \in Bots, pc'[c] = "done" PROVE canceled'
    BY DEF DoneIsCanceled
  <2>1. CASE c = b
    BY <2>1, EndStep
  <2>2. CASE c # b
    BY <1>1, <2>2, OtherBotStep DEF DoneIsCanceled
  <2>3. QED
    BY <2>1, <2>2
<1>6. QED
  BY <1>4, <1>5

-----------------------------------------------------------------------------
(* Who pays for a POST.                                                    *)

LEMMA FaultsStep ==
  ASSUME TypeOK, NEW b \in Bots, BotStep(b)
  PROVE  faults \in Nat /\ (faults' = faults \/ faults' = faults + 1)
<1>1. faults \in Nat
  BY BridgeAssumption DEF TypeOK, HistoryTypeOK
<1>2. QED
  BY <1>1, HistoryStep DEF Spend

(* A POST that reaches the back end is paid for by a fault, or refused for *)
(* good, or accepted and on its way to the save.                           *)
LEMMA PostStep ==
  ASSUME TypeOK, NEW b \in Bots, BotStep(b)
  PROVE  \/ UNCHANGED attempts
         \/ /\ pc[b] = "post" /\ ~canceled /\ ~canceled' /\ Reached(b)
            /\ pc'[b] # "fail"
            /\ \/ faults' = faults + 1
               \/ Current(b) \in Poison[b]
               \/ Accepted(b)' /\ UNCHANGED <<updates, pos>>
<1>1. PollerTypeOK
  BY DEF TypeOK
<1>2. "non2xx" \notin Replies
  BY BridgeAssumption DEF ReplyKinds, MethodReplies
<1>3. QED
  BY <1>1, <1>2
  DEF BotStep, EnsurePollingMode, Poll, DeliverUpdate, At, DeleteWebhookOk,
      DeleteWebhookFails, LogDeleteError, LoadOffset, LoadOffsetFails,
      StopPolling, GetUpdatesOk, GetUpdatesFails, LogPollError, LogPollOk,
      Receive, ReceiveMalformed, PostAnswered, PostFails, ReadBodyFails,
      LogResponseError, LogResponse, CallMethodAnswered, CallMethodFails,
      LogMethodError, Log, LogFails, Wake, SaveOffsetOk, SaveOffsetFails,
      ReportFailure, PollerTypeOK, procVars, batchVars, histVars, ackVars, Retry,
      FallAsleep, Goto, SetOutcome, Accepted, Spend, Fault

(* An accepted update stays on its way to the save until it is saved,      *)
(* unless a fault is spent or the poller is cancelled.                     *)
LEMMA AcceptedStep ==
  ASSUME TypeOK, NEW b \in Bots, BotStep(b), Accepted(b), ~canceled,
         outcome[b] # "oddMethod"
  PROVE  /\ pc'[b] # "fail"
         /\ \/ Accepted(b)' /\ UNCHANGED <<updates, pos, offset>>
            \/ offset' = [offset EXCEPT ![b] = Current(b) + 1]
            \/ faults' = faults + 1
<1>1. PollerTypeOK
  BY DEF TypeOK
<1>2. QED
  BY <1>1
  DEF BotStep, EnsurePollingMode, Poll, DeliverUpdate, At, DeleteWebhookOk,
      DeleteWebhookFails, LogDeleteError, LoadOffset, LoadOffsetFails,
      StopPolling, GetUpdatesOk, GetUpdatesFails, LogPollError, LogPollOk,
      Receive, ReceiveMalformed, PostAnswered, PostFails, ReadBodyFails,
      LogResponseError, LogResponse, CallMethodAnswered, CallMethodFails,
      LogMethodError, Log, LogFails, Wake, SaveOffsetOk, SaveOffsetFails,
      ReportFailure, PollerTypeOK, procVars, batchVars, histVars, ackVars, Retry,
      FallAsleep, Goto, SetOutcome, Accepted, Spend, Fault, CallFails,
      StoreFails, FatalLogs, DeliveryLogs, AfterLog, NextOffset,
      MethodReplies

(* Failing costs a fault, and it changes nothing that is delivered.        *)
LEMMA FailStep ==
  ASSUME TypeOK, NEW b \in Bots, BotStep(b), pc'[b] = "fail"
  PROVE  /\ faults' = faults + 1
         /\ UNCHANGED <<attempts, offset>>
         /\ pc[b] # "fail"
<1>1. PollerTypeOK
  BY DEF TypeOK
<1>2. QED
  BY <1>1
  DEF BotStep, EnsurePollingMode, Poll, DeliverUpdate, At, DeleteWebhookOk,
      DeleteWebhookFails, LogDeleteError, LoadOffset, LoadOffsetFails,
      StopPolling, GetUpdatesOk, GetUpdatesFails, LogPollError, LogPollOk,
      Receive, ReceiveMalformed, PostAnswered, PostFails, ReadBodyFails,
      LogResponseError, LogResponse, CallMethodAnswered, CallMethodFails,
      LogMethodError, Log, LogFails, Wake, SaveOffsetOk, SaveOffsetFails,
      ReportFailure, PollerTypeOK, ackVars, Retry, FallAsleep, Goto, Abort, Spend,
      Fault, StoreFails, FatalLogs, DeliveryLogs, AfterLog

(* An odd method only comes from a reply with one.                         *)
LEMMA NoOddMethodStep ==
  ASSUME TypeOK, NoOddMethod, NEW b \in Bots, BotStep(b)
  PROVE  NoOddMethod'
<1>1. outcome \in [Bots -> Outcomes]
  BY DEF TypeOK, PollerTypeOK
<1>2. \/ UNCHANGED outcome
      \/ \E o \in Replies \cup {"non2xx", "none", "permanent"} \cup Errors :
           outcome' = [outcome EXCEPT ![b] = o]
  BY DEF BotStep, EnsurePollingMode, Poll, DeliverUpdate, At, DeleteWebhookOk,
      DeleteWebhookFails, LogDeleteError, LoadOffset, LoadOffsetFails,
      StopPolling, GetUpdatesOk, GetUpdatesFails, LogPollError, LogPollOk,
      Receive, ReceiveMalformed, PostAnswered, PostFails, ReadBodyFails,
      LogResponseError, LogResponse, CallMethodAnswered, CallMethodFails,
      LogMethodError, Log, LogFails, Wake, SaveOffsetOk, SaveOffsetFails,
      ReportFailure, batchVars, Retry, FallAsleep, SetOutcome
<1>3. QED
  BY <1>1, <1>2 DEF NoOddMethod, Errors

(* What a poller is done with it stays done with, unless a fault is spent  *)
(* or it is cancelled; the step in which it fails changes nothing of that. *)
LEMMA DoneWithStep ==
  ASSUME TypeOK, OffsetInv, NEW b \in Bots, BotStep(b), ~canceled,
         outcome[b] # "oddMethod", NEW u \in UpdateIds,
         DoneWith(b, u), ~DoneWith(b, u)'
  PROVE  faults' = faults + 1 /\ pc'[b] # "fail"
<1>1. /\ offset \in [Bots -> Nat] /\ stored \in [Bots -> Nat]
      /\ offset[b] \in Nat /\ stored[b] \in Nat /\ u \in Nat
  BY UpdateIdsAssumption DEF TypeOK, PollerTypeOK, StoreTypeOK
<1>2. CASE u < offset[b]
  <2>1. \/ offset'[b] = offset[b]
        \/ pc[b] = "loadOffset"
        \/ pc[b] = "saveOffset" /\ offset'[b] = Current(b) + 1
    BY <1>1, OffsetChange
  <2>2. ASSUME pc[b] = "loadOffset" PROVE FALSE
    <3>1. offset[b] = 0
      BY <2>2 DEF OffsetInv, OffsetUnset, BeforeOffset
    <3>2. QED
      BY <1>1, <1>2, <3>1
  <2>3. offset'[b] \in Nat /\ offset'[b] >= offset[b]
    BY <1>1, <2>1, <2>2, SavedIsOldest
  <2>4. QED
    BY <1>1, <1>2, <2>3 DEF DoneWith
<1>3. CASE Accepted(b) /\ Current(b) = u
  <2>1. Current(b) \in Nat
    <3>1. pc[b] \in Delivering
      BY <1>3 DEF Accepted, Delivering, DeliveryLogs
    <3>2. QED
      BY <3>1, CurrentType DEF TypeOK
  <2>2. ~(offset' = [offset EXCEPT ![b] = Current(b) + 1])
    BY <1>1, <1>3, <2>1 DEF DoneWith
  <2>3. ~(Accepted(b)' /\ UNCHANGED <<updates, pos, offset>>)
    BY <1>3 DEF DoneWith, Current
  <2>4. QED
    BY <1>3, <2>2, <2>3, AcceptedStep
<1>4. QED
  BY <1>2, <1>3 DEF DoneWith

(* Who is about to post an update again has paid for it: the posts of      *)
(* every update, one action after the other.                               *)
LEMMA PostsPaidStep ==
  ASSUME TypeOK, OffsetInv, NoOddMethod, PostsPaid,
         NEW b \in Bots, BotStep(b)
  PROVE  PostsPaid'
<1> SUFFICES ASSUME "oddMethod" \notin Replies, NEW c \in Bots,
                    NEW u \in UpdateIds \ Poison[c]
             PROVE  Paid(c, u)'
  BY DEF PostsPaid
<1>1. Paid(c, u)
  BY DEF PostsPaid
<1>2. outcome[b] # "oddMethod"
  BY DEF NoOddMethod
<1>3. /\ faults \in Nat /\ faults' \in Nat /\ faults' >= faults
      /\ faults' # faults => faults' = faults + 1
      /\ attempts[c][u] \in Nat
  <2>1. attempts[c][u] \in Nat
    BY BridgeAssumption DEF TypeOK, HistoryTypeOK, AttemptCap
  <2>2. QED
    BY <2>1, FaultsStep
<1>4. /\ canceled => canceled'
      /\ canceled' => canceled \/ Doomed
      /\ Doomed => Doomed' \/ canceled'
  <2>1. pc[b] = "fail" => Doomed
    BY DEF Doomed
  <2>2. ASSUME NEW d \in Bots, pc[d] = "fail", d # b PROVE Doomed'
    BY <2>2, OtherBotStep DEF Doomed
  <2>3. Doomed => Doomed' \/ canceled'
    BY <2>2, EndStep DEF Doomed
  <2>4. QED
    BY <2>1, <2>3, EndStep
<1>5. Doomed' => Doomed \/ (faults' = faults + 1 /\ pc'[b] = "fail")
  <2> SUFFICES ASSUME NEW d \in Bots, pc'[d] = "fail", ~Doomed
               PROVE  faults' = faults + 1 /\ pc'[b] = "fail"
    BY DEF Doomed
  <2>1. CASE d = b
    BY <2>1, FailStep
  <2>2. CASE d # b
    BY <2>2, OtherBotStep DEF Doomed
  <2>3. QED
    BY <2>1, <2>2
<1>6. ASSUME attempts'[c][u] = attempts[c][u],
             DoneWith(c, u) /\ ~DoneWith(c, u)' /\ ~canceled =>
               faults' = faults + 1 /\ pc'[b] # "fail"
      PROVE  Paid(c, u)'
  <2>1. canceled' => attempts[c][u] <= faults'
    BY <1>1, <1>3, <1>4 DEF Paid
  <2>2. attempts[c][u] <= faults' + 1
    BY <1>1, <1>3 DEF Paid
  <2>3. ~DoneWith(c, u)' => attempts[c][u] <= faults'
    BY <1>1, <1>3, <1>6 DEF Paid
  <2>4. Doomed' => attempts[c][u] <= faults'
    BY <1>1, <1>3, <1>5 DEF Paid
  <2>5. Doomed' /\ ~canceled' /\ ~DoneWith(c, u)' => attempts[c][u] < faults'
    BY <1>1, <1>3, <1>4, <1>5, <1>6 DEF Paid
  <2>6. QED
    BY <1>6, <2>1, <2>2, <2>3, <2>4, <2>5 DEF Paid
<1>7. CASE c # b
  <2>1. attempts'[c][u] = attempts[c][u]
    BY <1>7, HistoryStep DEF Reached, TypeOK, HistoryTypeOK
  <2>2. DoneWith(c, u)' <=> DoneWith(c, u)
    <3>1. outcome'[c] = outcome[c]
      BY <1>7, OthersStep DEF TypeOK
    <3>2. QED
      BY <1>7, <3>1, OtherBotStep DEF DoneWith, Accepted, Current
  <2>3. QED
    BY <1>6, <2>1, <2>2
<1>8. CASE c = b
  <2>1. CASE attempts'[b][u] = attempts[b][u]
    BY <1>2, <1>6, <1>8, <2>1, DoneWithStep
  <2>2. CASE attempts'[b][u] # attempts[b][u]
    <3>1. /\ pc[b] = "post" /\ ~canceled /\ ~canceled' /\ Reached(b)
          /\ pc'[b] # "fail"
          /\ \/ faults' = faults + 1
             \/ Current(b) \in Poison[b]
             \/ Accepted(b)' /\ UNCHANGED <<updates, pos>>
      BY <2>2, PostStep
    <3>2. Current(b) = u /\ attempts'[b][u] <= attempts[b][u] + 1
          /\ attempts'[b][u] \in Nat
      <4>1. attempts \in [Bots -> [UpdateIds -> 0..AttemptCap]]
              /\ AttemptCap \in Nat
        BY BridgeAssumption DEF TypeOK, HistoryTypeOK, AttemptCap
      <4>2. Current(b) \in UpdateIds
        BY <3>1, CurrentType DEF TypeOK, Delivering
      <4>3. attempts'[b] = [attempts[b] EXCEPT ![Current(b)] =
                              IF @ < AttemptCap THEN @ + 1 ELSE @]
        BY <3>1, <4>1 DEF Reached
      <4>4. Current(b) = u
        BY <2>2, <4>1, <4>3
      <4>5. attempts'[b][u] = IF attempts[b][u] < AttemptCap
                                THEN attempts[b][u] + 1 ELSE attempts[b][u]
        BY <4>1, <4>2, <4>3, <4>4
      <4>6. QED
        BY <1>3, <1>8, <4>4, <4>5
    <3>3. ~DoneWith(b, u)
      <4>1. ~Accepted(b)
        BY <3>1 DEF Accepted
      <4>2. pos[b] \in ToDeliver(b) /\ pc[b] \in WithBatch
        <5>1. pos[b] \in DOMAIN updates[b] /\ pc[b] \in WithBatch
          BY <3>1 DEF TypeOK, UpdateInHand, WithBatch, Delivering
        <5>2. QED
          BY <5>1, BatchTypes DEF ToDeliver
      <4>3. u >= offset[b] /\ u \in Nat /\ offset[b] \in Nat
        BY <3>2, <4>2, BatchTypes, UpdateIdsAssumption
        DEF OffsetInv, BatchesAhead, Current
      <4>4. QED
        BY <4>1, <4>3 DEF DoneWith
    <3>4. faults' = faults + 1 \/ DoneWith(b, u)'
      BY <1>8, <3>1, <3>2 DEF DoneWith, Current
    <3>5. Doomed' => Doomed
      BY <1>5, <3>1
    <3>6. QED
      BY <1>1, <1>3, <1>8, <3>1, <3>2, <3>3, <3>4, <3>5 DEF Paid
  <2>3. QED
    BY <2>1, <2>2
<1>9. QED
  BY <1>7, <1>8

-----------------------------------------------------------------------------
(* The other steps, and the invariant as a whole.                          *)

LEMMA PaceInit == Init => PaceInv
<1> SUFFICES ASSUME Init PROVE PaceInv
  OBVIOUS
<1> USE DEF Init
<1>1. BackoffBounded /\ RetryPace
  BY DEF BackoffBounded, Bounded, RetryPace, Sleeping
<1>2. WebhookGone /\ DoneIsCanceled /\ NoOddMethod
  BY DEF WebhookGone, WithWebhook, DoneIsCanceled, NoOddMethod
<1>3. PostsPaid
  BY DEF PostsPaid, Paid, Doomed
<1>4. QED
  BY <1>1, <1>2, <1>3 DEF PaceInv

(* A process ends by a fault: the one that cancelled it, or the crash. It  *)
(* pays for the POSTs that the next process may repeat.                    *)
LEMMA ProcessEndsPace ==
  ASSUME TypeOK, PaceInv, ProcessEnds, UNCHANGED attempts,
         \/ UNCHANGED faults /\ canceled
         \/ faults' = faults + 1
  PROVE  PaceInv'
<1> USE DEF ProcessEnds
<1>1. BackoffBounded' /\ RetryPace'
  BY DEF BackoffBounded, Bounded, RetryPace, Sleeping
<1>2. WebhookGone' /\ DoneIsCanceled' /\ NoOddMethod'
  BY DEF WebhookGone, WithWebhook, DoneIsCanceled, NoOddMethod
<1>3. PostsPaid'
  <2> SUFFICES ASSUME "oddMethod" \notin Replies, NEW b \in Bots,
                      NEW u \in UpdateIds \ Poison[b]
               PROVE  Paid(b, u)'
    BY DEF PostsPaid
  <2>1. Paid(b, u)
    BY DEF PaceInv, PostsPaid
  <2>2. faults \in Nat /\ attempts[b][u] \in Nat
    BY BridgeAssumption DEF TypeOK, HistoryTypeOK, AttemptCap
  <2>3. attempts'[b][u] <= faults'
    BY <2>1, <2>2 DEF Paid
  <2>4. ~Doomed'
    BY DEF Doomed
  <2>5. faults' \in Nat /\ attempts'[b][u] \in Nat
    BY <2>2
  <2>6. QED
    BY <2>3, <2>4, <2>5 DEF Paid
<1>4. QED
  BY <1>1, <1>2, <1>3 DEF PaceInv

(* The steps that move no poller.                                          *)
LEMMA FramePace ==
  ASSUME TypeOK, PaceInv,
         UNCHANGED <<webhook, pc, offset, batchVars, outcome, sleepVars, attempts>>,
         \/ UNCHANGED <<canceled, faults>>
         \/ canceled' = TRUE /\ faults' = faults + 1
  PROVE  PaceInv'
<1> USE DEF PaceInv, batchVars, sleepVars
<1>1. BackoffBounded' /\ RetryPace'
  BY DEF BackoffBounded, RetryPace
<1>2. WebhookGone' /\ DoneIsCanceled' /\ NoOddMethod'
  BY DEF WebhookGone, DoneIsCanceled, NoOddMethod
<1>3. PostsPaid'
  <2> SUFFICES ASSUME "oddMethod" \notin Replies, NEW b \in Bots,
                      NEW u \in UpdateIds \ Poison[b]
               PROVE  Paid(b, u)'
    BY DEF PostsPaid
  <2>1. Paid(b, u)
    BY DEF PostsPaid
  <2>2. faults \in Nat /\ attempts[b][u] \in Nat
    BY BridgeAssumption DEF TypeOK, HistoryTypeOK, AttemptCap
  <2>3. /\ DoneWith(b, u)' <=> DoneWith(b, u)
        /\ Doomed' <=> Doomed
    BY DEF DoneWith, Accepted, Current, Doomed
  <2>4. QED
    BY <2>1, <2>2, <2>3 DEF Paid
<1>4. QED
  BY <1>1, <1>2, <1>3

LEMMA PaceInvStep ==
  TypeOK /\ OffsetInv /\ PaceInv /\ [Next]_vars => PaceInv'
<1> SUFFICES ASSUME TypeOK, OffsetInv, PaceInv, [Next]_vars
             PROVE  PaceInv'
  OBVIOUS
<1>1. CASE \E b \in Bots : BotStep(b)
  BY <1>1, PaceStep, ModeStep, NoOddMethodStep, PostsPaidStep DEF PaceInv
<1>2. CASE Exit
  <2>1. canceled
    BY <1>2, ConfigAssumption DEF Exit, PaceInv, DoneIsCanceled
  <2>2. QED
    BY <1>2, <2>1, ProcessEndsPace DEF Exit, histVars
<1>3. CASE Crash
  BY <1>3, ProcessEndsPace DEF Crash, ackVars, Spend
<1>4. CASE Start
  BY <1>4, FramePace DEF Start, tgVars, histVars
<1>5. CASE Signal
  BY <1>5, FramePace DEF Signal, tgVars, ackVars, Spend
<1>6. CASE Sync
  BY <1>6, FramePace DEF Sync, tgVars, procVars, histVars
<1>7. CASE Arrive
  BY <1>7, FramePace DEF Arrive, NewUpdate, procVars, histVars
<1>8. CASE UNCHANGED vars
  BY <1>8, FramePace DEF vars, tgVars, procVars, histVars
<1>9. QED
  BY <1>1, <1>2, <1>3, <1>4, <1>5, <1>6, <1>7, <1>8 DEF Next

-----------------------------------------------------------------------------

(* In every reachable state the pollers are paced, polling with a webhook  *)
(* in place is what only a cancelled one comes to, and every POST but the  *)
(* one to be saved is paid for.                                            *)
THEOREM PaceInvariant == Spec => []PaceInv
<1>1. Init => PaceInv
  BY PaceInit
<1>2. TypeOK /\ OffsetInv /\ PaceInv /\ [Next]_vars => PaceInv'
  BY PaceInvStep
<1>3. QED
  BY <1>1, <1>2, TypeCorrect, OffsetInvariant, PTL DEF Spec

(* A poller waits as long as Telegram asks for or within the bounds of the *)
(* backoff, also when the doubling of the delay overflows.                 *)
THEOREM RetriesArePaced == Spec => []RetryPace
<1>1. PaceInv => RetryPace
  BY DEF PaceInv
<1>2. QED
  BY <1>1, PaceInvariant, PTL

(* No poller that is not cancelled polls before the webhook was removed.   *)
THEOREM PollsInPollingMode == Spec => []PollingModeOnly
<1>1. PaceInv => PollingModeOnly
  BY DEF PaceInv, WebhookGone, WithWebhook, PollingModeOnly
<1>2. QED
  BY <1>1, PaceInvariant, PTL

(* A back end is sent an update once, and once more for every fault at     *)
(* most, across retries, failed saves, cancellations, crashes and restarts *)
(* and with or without a store.                                            *)
THEOREM DuplicatesArePaid == Spec => []RedeliveryPaid
<1>1. TypeOK /\ PaceInv => RedeliveryPaid
  <2> SUFFICES ASSUME TypeOK, PaceInv, "oddMethod" \notin Replies,
                      NEW b \in Bots, NEW u \in UpdateIds \ Poison[b]
               PROVE  attempts[b][u] <= 1 + faults
    BY DEF RedeliveryPaid
  <2>1. attempts[b][u] <= faults + 1
    BY DEF PaceInv, PostsPaid, Paid
  <2>2. faults \in Nat
    BY BridgeAssumption DEF TypeOK, HistoryTypeOK
  <2>3. QED
    BY <2>1, <2>2
<1>2. QED
  BY <1>1, TypeCorrect, PaceInvariant, PTL

=============================================================================
