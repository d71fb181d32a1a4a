----------------------------- MODULE BridgeProofs -----------------------------
(***************************************************************************)
(* Theorems about Bridge, for every configuration, every set of update     *)
(* ids, every number of faults and every length of run.                    *)
(***************************************************************************)
EXTENDS BridgeProperties, SequenceTheorems, TLAPS

-----------------------------------------------------------------------------
(* Operators of the components.                                            *)

(* sleepWithContext sleeps for a positive time, whatever nextDelay says,   *)
(* also when the doubling of the delay overflows.                          *)
LEMMA SleepPositive ==
  ASSUME NEW current \in Int, NEW error
  PROVE  /\ SleepFor(NextDelay(current, error)) \in Nat
         /\ SleepFor(NextDelay(current, error)) > 0
         /\ BackoffAfter(current, error) \in Int
<1>1. NextBackoff(current) \in Int
  BY BackoffAssumption
  DEF NextBackoff, Capped, Doubled, InitialDelay, MaxDelay
<1>2. NextDelay(current, error) \in Int /\ BackoffAfter(current, error) \in Int
  BY <1>1, BackoffAssumption DEF NextDelay, BackoffAfter, RetryAfterOf
<1>3. QED
  BY <1>2, BackoffAssumption DEF SleepFor

(* A batch is a sequence of the updates it was taken from, oldest first,   *)
(* and what it leaves out is newer than all of it.                         *)
LEMMA BatchProperties ==
  ASSUME NEW S \in SUBSET UpdateIds, NEW batch \in Batches(S)
  PROVE  /\ batch \in Seq(UpdateIds)
         /\ \A i \in DOMAIN batch : batch[i] \in S
         /\ \A i, j \in DOMAIN batch : i < j => batch[i] < batch[j]
         /\ \A u \in S : (\A i \in DOMAIN batch : batch[i] # u)
                          => \A i \in DOMAIN batch : batch[i] < u
<1>1. PICK m \in 0..PollingLimit : batch \in [1..m -> S]
  BY DEF Batches, BoundedSeq, SeqOf
<1>2. m \in Nat /\ batch \in [1..m -> UpdateIds]
  BY <1>1, ConfigAssumption
<1>3. batch \in Seq(UpdateIds)
  BY <1>2
<1>4. QED
  BY <1>1, <1>3 DEF Batches

-----------------------------------------------------------------------------
(* What a step of a poller can do to the rest of the world.                *)

(* It calls Telegram in two ways.                                          *)
LEMMA TelegramStep ==
  ASSUME NEW b \in Bots, BotStep(b)
  PROVE  \/ UNCHANGED tgVars
         \/ /\ pc[b] = "deleteWebhook"
            /\ RemoveWebhook(TokenOf[b], DropPending[b])
         \/ pc[b] = "poll" /\ ConfirmBelow(TokenOf[b], offset[b])
  BY DEF BotStep, EnsurePollingMode, Poll, DeliverUpdate, At, DeleteWebhookOk,
      DeleteWebhookFails, LogDeleteError, LoadOffset, LoadOffsetFails,
      StopPolling, GetUpdatesOk, GetUpdatesFails, LogPollError, LogPollOk,
      Receive, ReceiveMalformed, PostAnswered, PostFails, ReadBodyFails,
      LogResponseError, LogResponse, CallMethodAnswered, CallMethodFails,
      LogMethodError, Log, LogFails, Wake, SaveOffsetOk, SaveOffsetFails,
      ReportFailure, Token, RequestOffset

(* It writes to the store the offset after the update in hand, or a row    *)
(* about that update.                                                      *)
LEMMA StoreStep ==
  ASSUME NEW b \in Bots, BotStep(b)
  PROVE  \/ UNCHANGED storeVars
         \/ pc[b] = "saveOffset" /\ SaveOffset(b, Current(b) + 1)
         \/ pc[b] = "logResponse" /\ LogInteraction(b, Current(b))
  BY DEF BotStep, EnsurePollingMode, Poll, DeliverUpdate, At, DeleteWebhookOk,
      DeleteWebhookFails, LogDeleteError, LoadOffset, LoadOffsetFails,
      StopPolling, GetUpdatesOk, GetUpdatesFails, LogPollError, LogPollOk,
      Receive, ReceiveMalformed, PostAnswered, PostFails, ReadBodyFails,
      LogResponseError, LogResponse, CallMethodAnswered, CallMethodFails,
      LogMethodError, Log, LogFails, Wake, SaveOffsetOk, SaveOffsetFails,
      ReportFailure, NextOffset, storeVars

(* It changes its own metrics.                                             *)
LEMMA MetricsStep ==
  ASSUME NEW b \in Bots, BotStep(b)
  PROVE  /\ \/ UNCHANGED shownOffset
            \/ pc[b] = "loadOffset" /\ SetOffset(b, stored[b])
            \/ pc[b] = "saveOffset" /\ SetOffset(b, Current(b) + 1)
         /\ \/ UNCHANGED lastUpdate
            \/ pc[b] = "receive" /\ ObserveUpdate(b, Current(b))
         /\ UNCHANGED telegramErrors \/ IncTelegramError(b)
         /\ UNCHANGED backendErrors \/ IncBackendError(b)
  BY DEF BotStep, EnsurePollingMode, Poll, DeliverUpdate, At, DeleteWebhookOk,
      DeleteWebhookFails, LogDeleteError, LoadOffset, LoadOffsetFails,
      StopPolling, GetUpdatesOk, GetUpdatesFails, LogPollError, LogPollOk,
      Receive, ReceiveMalformed, PostAnswered, PostFails, ReadBodyFails,
      LogResponseError, LogResponse, CallMethodAnswered, CallMethodFails,
      LogMethodError, Log, LogFails, Wake, SaveOffsetOk, SaveOffsetFails,
      ReportFailure, NextOffset, metricVars, LoadedOffset

(* It is seen by the back end while it posts, and it handles an update     *)
(* while it posts or calls a method.                                       *)
LEMMA HistoryStep ==
  ASSUME NEW b \in Bots, BotStep(b)
  PROVE  /\ UNCHANGED handled \/ (pc[b] \in {"post", "callMethod"} /\ Handle(b))
         /\ UNCHANGED attempts \/ (pc[b] = "post" /\ Reached(b))
         /\ UNCHANGED faults \/ Spend
  BY DEF BotStep, EnsurePollingMode, Poll, DeliverUpdate, At, DeleteWebhookOk,
      DeleteWebhookFails, LogDeleteError, LoadOffset, LoadOffsetFails,
      StopPolling, GetUpdatesOk, GetUpdatesFails, LogPollError, LogPollOk,
      Receive, ReceiveMalformed, PostAnswered, PostFails, ReadBodyFails,
      LogResponseError, LogResponse, CallMethodAnswered, CallMethodFails,
      LogMethodError, Log, LogFails, Wake, SaveOffsetOk, SaveOffsetFails,
      ReportFailure, ackVars, histVars, Fault, CallFails, StoreFails

(* It may cancel the others, after it has left its error.                  *)
LEMMA ProcessStep ==
  ASSUME NEW b \in Bots, BotStep(b)
  PROVE  \/ UNCHANGED procVars
         \/ up' = up /\ canceled' = TRUE /\ errCh' = errCh \cup {b}
  BY DEF BotStep, EnsurePollingMode, Poll, DeliverUpdate, At, DeleteWebhookOk,
      DeleteWebhookFails, LogDeleteError, LoadOffset, LoadOffsetFails,
      StopPolling, GetUpdatesOk, GetUpdatesFails, LogPollError, LogPollOk,
      Receive, ReceiveMalformed, PostAnswered, PostFails, ReadBodyFails,
      LogResponseError, LogResponse, CallMethodAnswered, CallMethodFails,
      LogMethodError, Log, LogFails, Wake, SaveOffsetOk, SaveOffsetFails,
      ReportFailure, procVars

-----------------------------------------------------------------------------
(* Types.                                                                  *)

LEMMA InitType == Init => TypeOK
<1> SUFFICES ASSUME Init PROVE TypeOK
  OBVIOUS
<1>1. TelegramTypeOK
  BY DEF Init, TelegramInit, TelegramTypeOK
<1>2. StoreTypeOK
  BY DEF Init, StoreInit, StoreTypeOK
<1>3. MetricsTypeOK
  BY CounterCapAssumption DEF Init, MetricsInit, MetricsTypeOK, NoUpdate
<1>4. ProcessTypeOK
  BY DEF Init, ProcessTypeOK
<1>5. PollerTypeOK
  BY DEF Init, PollerTypeOK, Labels, Starting, Outcomes, ResetBackoff
<1>6. HistoryTypeOK
  BY BridgeAssumption DEF Init, HistoryTypeOK, AttemptCap
<1>7. UpdateInHand
  BY DEF Init, UpdateInHand, Delivering, DeliveryLogs
<1>8. SleepsForAWhile
  BY DEF Init, SleepsForAWhile, Sleeping
<1>9. QED
  BY <1>1, <1>2, <1>3, <1>4, <1>5, <1>6, <1>7, <1>8 DEF TypeOK

(* A poller that delivers has an update of a known id in hand.             *)
LEMMA CurrentType ==
  ASSUME PollerTypeOK, UpdateInHand, NEW b \in Bots, pc[b] \in Delivering
  PROVE  Current(b) \in UpdateIds /\ Current(b) \in Nat \ {0}
<1>1. updates[b] \in Seq(UpdateIds) /\ pos[b] \in DOMAIN updates[b]
  BY DEF PollerTypeOK, UpdateInHand
<1>2. Current(b) \in UpdateIds
  BY <1>1, ElementOfSeq DEF Current
<1>3. QED
  BY <1>2, UpdateIdsAssumption

(* The world of a poller keeps its type.                                   *)
LEMMA WorldTypeStep ==
  ASSUME TypeOK, NEW b \in Bots, BotStep(b)
  PROVE  /\ TelegramTypeOK' /\ StoreTypeOK' /\ MetricsTypeOK'
         /\ ProcessTypeOK' /\ HistoryTypeOK'
<1>1. TelegramTypeOK'
  <2>1. CASE UNCHANGED tgVars
    BY <2>1 DEF TypeOK, TelegramTypeOK, tgVars
  <2>2. CASE RemoveWebhook(TokenOf[b], DropPending[b])
    BY <2>2 DEF TypeOK, TelegramTypeOK, RemoveWebhook
  <2>3. CASE ConfirmBelow(TokenOf[b], offset[b])
    BY <2>3 DEF TypeOK, TelegramTypeOK, ConfirmBelow, Outstanding
  <2>4. QED
    BY <2>1, <2>2, <2>3, TelegramStep
<1>2. pc[b] \in {"receive", "post", "logResponse", "callMethod",
                  "saveOffset"} =>
        Current(b) \in UpdateIds /\ Current(b) \in Nat
  BY CurrentType DEF TypeOK, Delivering, DeliveryLogs
<1>3. StoreTypeOK'
  BY <1>2, StoreStep
  DEF TypeOK, StoreTypeOK, storeVars, SaveOffset, LogInteraction
<1>4. MetricsTypeOK'
  <2>1. shownOffset' \in [Bots -> Nat]
    BY <1>2, MetricsStep DEF TypeOK, StoreTypeOK, MetricsTypeOK, SetOffset
  <2>2. lastUpdate' \in [Bots -> Nat]
    BY <1>2, MetricsStep DEF TypeOK, MetricsTypeOK, ObserveUpdate
  <2>3. \A n \in 0..CounterCap : Increment(n) \in 0..CounterCap
    BY CounterCapAssumption DEF Increment
  <2>4. telegramErrors' \in [Bots -> 0..CounterCap]
    BY <2>3, MetricsStep DEF TypeOK, MetricsTypeOK, IncTelegramError
  <2>5. backendErrors' \in [Bots -> 0..CounterCap]
    BY <2>3, MetricsStep DEF TypeOK, MetricsTypeOK, IncBackendError
  <2>6. QED
    BY <2>1, <2>2, <2>4, <2>5 DEF MetricsTypeOK
<1>5. ProcessTypeOK'
  BY ProcessStep DEF TypeOK, ProcessTypeOK, procVars
<1>6. HistoryTypeOK'
  <2>1. handled' \in [Bots -> SUBSET UpdateIds]
    BY <1>2, HistoryStep DEF TypeOK, HistoryTypeOK, Handle
  <2>2. \A n \in 0..AttemptCap :
          (IF n < AttemptCap THEN n + 1 ELSE n) \in 0..AttemptCap
    BY BridgeAssumption DEF AttemptCap
  <2>3. ASSUME pc[b] = "post", Reached(b)
        PROVE  attempts' \in [Bots -> [UpdateIds -> 0..AttemptCap]]
    <3> DEFINE row == [attempts[b] EXCEPT ![Current(b)] =
                         IF @ < AttemptCap THEN @ + 1 ELSE @]
    <3>1. Current(b) \in UpdateIds
      BY <1>2, <2>3
    <3>2. attempts \in [Bots -> [UpdateIds -> 0..AttemptCap]]
      BY DEF TypeOK, HistoryTypeOK
    <3>3. row \in [UpdateIds -> 0..AttemptCap]
      BY <3>1, <3>2, <2>2
    <3>4. attempts' = [attempts EXCEPT ![b] = row]
      BY <2>3 DEF Reached
    <3> HIDE DEF row
    <3>5. QED
      BY <3>2, <3>3, <3>4
  <2>4. attempts' \in [Bots -> [UpdateIds -> 0..AttemptCap]]
    BY <2>3, HistoryStep DEF TypeOK, HistoryTypeOK
  <2>5. faults' \in 0..MaxFaults
    BY HistoryStep, BridgeAssumption DEF TypeOK, HistoryTypeOK, Spend
  <2>6. QED
    BY <2>1, <2>4, <2>5 DEF HistoryTypeOK
<1>7. QED
  BY <1>1, <1>3, <1>4, <1>5, <1>6

(* Falling asleep sets a positive delay and the label of a sleep.          *)
LEMMA FallAsleepType ==
  ASSUME PollerTypeOK, SleepsForAWhile, NEW b \in Bots, NEW error,
         NEW label \in Sleeping,
         FallAsleep(b, error, label)
  PROVE  /\ pc' = [pc EXCEPT ![b] = label]
         /\ pc' \in [Bots -> Labels]
         /\ outcome' \in [Bots -> Outcomes]
         /\ delay' \in [Bots -> Nat]
         /\ backoff' \in [Bots -> Int]
         /\ SleepsForAWhile'
<1>1. pc' = [pc EXCEPT ![b] = label] /\ label \in Labels
  BY DEF FallAsleep, Goto, Labels
<1>2. outcome' \in [Bots -> Outcomes]
  BY DEF FallAsleep, SetOutcome, PollerTypeOK, Outcomes
<1>3. /\ SleepFor(NextDelay(backoff[b], error)) \in Nat
      /\ SleepFor(NextDelay(backoff[b], error)) > 0
      /\ BackoffAfter(backoff[b], error) \in Int
  BY SleepPositive DEF PollerTypeOK
<1>4. QED
  BY <1>1, <1>2, <1>3 DEF FallAsleep, PollerTypeOK, SleepsForAWhile

(* A retry leaves the batch and sleeps for a positive time.                *)
LEMMA RetryType ==
  ASSUME PollerTypeOK, SleepsForAWhile, UpdateInHand, NEW b \in Bots,
         NEW error, Retry(b, error), UNCHANGED offset
  PROVE  PollerTypeOK' /\ UpdateInHand' /\ SleepsForAWhile'
<1>1. FallAsleep(b, error, "sleep") /\ LeaveBatch(b)
  BY DEF Retry
<1>2. pc' = [pc EXCEPT ![b] = "sleep"] /\ pc' \in [Bots -> Labels]
  BY <1>1, FallAsleepType DEF Sleeping
<1>3. PollerTypeOK' /\ SleepsForAWhile'
  BY <1>1, FallAsleepType DEF Sleeping, PollerTypeOK, LeaveBatch
<1>4. UpdateInHand'
  BY <1>1, <1>2
  DEF UpdateInHand, LeaveBatch, PollerTypeOK, Delivering, DeliveryLogs
<1>5. QED
  BY <1>3, <1>4

(* Going from one label to another, without falling asleep or waking up.   *)
LEMMA MoveType ==
  ASSUME PollerTypeOK, SleepsForAWhile, UpdateInHand, NEW b \in Bots,
         NEW label \in Labels, label \notin Sleeping, pc[b] \notin Sleeping,
         label \in Delivering => pc[b] \in Delivering,
         Goto(b, label), outcome' \in [Bots -> Outcomes],
         UNCHANGED <<offset, updates, pos, delay, backoff>>
  PROVE  PollerTypeOK' /\ UpdateInHand' /\ SleepsForAWhile'
<1>1. pc' = [pc EXCEPT ![b] = label] /\ pc' \in [Bots -> Labels]
  BY DEF Goto, PollerTypeOK
<1>2. PollerTypeOK'
  BY <1>1 DEF PollerTypeOK
<1>3. UpdateInHand'
  BY <1>1 DEF UpdateInHand, PollerTypeOK
<1>4. SleepsForAWhile'
  BY <1>1 DEF SleepsForAWhile, PollerTypeOK
<1>5. QED
  BY <1>2, <1>3, <1>4

(* The labels and local variables of a poller keep their types.            *)
LEMMA PollerTypeStep ==
  ASSUME TypeOK, NEW b \in Bots, BotStep(b)
  PROVE  PollerTypeOK' /\ UpdateInHand' /\ SleepsForAWhile'
<1> USE DEF Labels, FatalLogs, Delivering, DeliveryLogs, Starting, Sleeping
<1>0. PollerTypeOK /\ SleepsForAWhile /\ UpdateInHand
  BY DEF TypeOK
<1>1. CASE DeleteWebhookOk(b)
  BY <1>0, <1>1, MoveType DEF DeleteWebhookOk, At, PollerTypeOK, batchVars,
     sleepVars
<1>2. CASE DeleteWebhookFails(b)
  <2>1. outcome' \in [Bots -> Outcomes]
    BY <1>0, <1>2 DEF DeleteWebhookFails, PollerTypeOK, SetOutcome, Errors,
       Outcomes
  <2>2. QED
    BY <1>0, <1>2, <2>1, MoveType DEF DeleteWebhookFails, At, batchVars,
       sleepVars
<1>3. CASE LogDeleteError(b)
  <2>1. FallAsleep(b, outcome[b], "sleepDelete")
    BY <1>3 DEF LogDeleteError
  <2>2. PollerTypeOK' /\ SleepsForAWhile' /\ pc' = [pc EXCEPT ![b] = "sleepDelete"]
    BY <1>0, <1>3, <2>1, FallAsleepType DEF LogDeleteError, PollerTypeOK, batchVars
  <2>3. UpdateInHand'
    BY <1>0, <1>3, <2>2 DEF LogDeleteError, PollerTypeOK, UpdateInHand, batchVars
  <2>4. QED
    BY <2>2, <2>3
<1>4. CASE LoadOffset(b)
  <2>1. PollerTypeOK'
    BY <1>0, <1>4 DEF LoadOffset, PollerTypeOK, At, Goto, LoadedOffset,
       ResetBackoff, batchVars, StoreTypeOK, TypeOK
  <2>2. UpdateInHand'
    BY <1>0, <1>4 DEF LoadOffset, UpdateInHand, PollerTypeOK, At, Goto,
       batchVars
  <2>3. SleepsForAWhile'
    BY <1>0, <1>4 DEF LoadOffset, SleepsForAWhile, PollerTypeOK, At, Goto,
       batchVars
  <2>4. QED
    BY <2>1, <2>2, <2>3
<1>5. CASE LoadOffsetFails(b)
  BY <1>0, <1>5, MoveType DEF LoadOffsetFails, At, PollerTypeOK, batchVars,
     sleepVars, Abort
<1>6. CASE StopPolling(b)
  BY <1>0, <1>6, MoveType DEF StopPolling, At, PollerTypeOK, batchVars,
     sleepVars
<1>7. CASE GetUpdatesOk(b)
  <2>1. PollerTypeOK'
    <3>1. Outstanding(Token(b), RequestOffset(b)) \in SUBSET UpdateIds
      BY ConfigAssumption DEF TypeOK, TelegramTypeOK, Outstanding, Token
    <3>2. updates' \in [Bots -> Seq(UpdateIds)]
      <4>1. PICK batch \in Batches(Outstanding(Token(b), RequestOffset(b))) :
              updates' = [updates EXCEPT ![b] = batch]
        BY <1>7 DEF GetUpdatesOk
      <4>2. batch \in Seq(UpdateIds)
        BY <3>1, <4>1, BatchProperties
      <4>3. QED
        BY <1>0, <4>1, <4>2 DEF PollerTypeOK
    <3>3. QED
      BY <1>0, <1>7, <3>2 DEF GetUpdatesOk, PollerTypeOK, Goto, sleepVars
  <2>2. UpdateInHand'
    BY <1>0, <1>7 DEF GetUpdatesOk, UpdateInHand, PollerTypeOK, At, Goto,
       sleepVars
  <2>3. SleepsForAWhile'
    BY <1>0, <1>7 DEF GetUpdatesOk, SleepsForAWhile, PollerTypeOK, At, Goto,
       sleepVars
  <2>4. QED
    BY <2>1, <2>2, <2>3
<1>8. CASE GetUpdatesFails(b)
  <2>1. outcome' \in [Bots -> Outcomes]
    BY <1>0, <1>8 DEF GetUpdatesFails, PollerTypeOK, SetOutcome, Errors,
       Outcomes
  <2>2. QED
    BY <1>0, <1>8, <2>1, MoveType DEF GetUpdatesFails, At, batchVars, sleepVars
<1>9. CASE LogPollError(b)
  <2>1. FallAsleep(b, outcome[b], "sleep")
    BY <1>9 DEF LogPollError
  <2>2. PollerTypeOK' /\ SleepsForAWhile' /\ pc' = [pc EXCEPT ![b] = "sleep"]
    BY <1>0, <1>9, <2>1, FallAsleepType DEF LogPollError, PollerTypeOK, batchVars
  <2>3. UpdateInHand'
    BY <1>0, <1>9, <2>2 DEF LogPollError, PollerTypeOK, UpdateInHand, batchVars
  <2>4. QED
    BY <2>2, <2>3
<1>10. CASE LogPollOk(b)
  <2>1. PollerTypeOK'
    <3>1. /\ pos' = pos \/ pos' = [pos EXCEPT ![b] = 1]
          /\ backoff' = backoff \/ backoff' = [backoff EXCEPT ![b] = 0]
      BY <1>10 DEF LogPollOk, ResetBackoff
    <3>2. pc' \in [Bots -> Labels]
      BY <1>0, <1>10 DEF LogPollOk, PollerTypeOK, Goto
    <3>3. pos' \in [Bots -> Nat] /\ backoff' \in [Bots -> Int]
      <4>1. pos \in [Bots -> Nat] /\ backoff \in [Bots -> Int]
        BY <1>0 DEF PollerTypeOK
      <4>2. QED
        BY <3>1, <4>1
    <3>4. QED
      BY <1>0, <1>10, <3>2, <3>3 DEF LogPollOk, PollerTypeOK
  <2>2. UpdateInHand'
    BY <1>0, <1>10 DEF LogPollOk, UpdateInHand, PollerTypeOK, At, Goto
  <2>3. SleepsForAWhile'
    BY <1>0, <1>10 DEF LogPollOk, SleepsForAWhile, PollerTypeOK, At, Goto
  <2>4. QED
    BY <2>1, <2>2, <2>3
<1>11. CASE Receive(b)
  BY <1>0, <1>11, MoveType DEF Receive, At, PollerTypeOK, batchVars, sleepVars
<1>12. CASE ReceiveMalformed(b)
  BY <1>0, <1>12, MoveType DEF ReceiveMalformed, At, PollerTypeOK, batchVars,
     sleepVars
<1>13. CASE PostAnswered(b)
  <2>1. outcome' \in [Bots -> Outcomes]
    BY <1>0, <1>13, BridgeAssumption DEF PostAnswered, PollerTypeOK,
       SetOutcome, Outcomes, ReplyKinds
  <2>2. QED
    BY <1>0, <1>13, <2>1, MoveType DEF PostAnswered, At, batchVars, sleepVars
<1>14. CASE PostFails(b)
  BY <1>0, <1>14, MoveType DEF PostFails, At, PollerTypeOK, batchVars,
     sleepVars
<1>15. CASE ReadBodyFails(b)
  BY <1>0, <1>15, RetryType DEF ReadBodyFails
<1>16. CASE LogResponseError(b)
  BY <1>0, <1>16, RetryType DEF LogResponseError
<1>17. CASE LogResponse(b)
  <2>1. CASE \E error : Retry(b, error)
    BY <1>0, <1>17, <2>1, RetryType DEF LogResponse
  <2>2. CASE ~ \E error : Retry(b, error)
    BY <1>0, <1>17, <2>2, MoveType DEF LogResponse, At, PollerTypeOK,
       batchVars, sleepVars
  <2>3. QED
    BY <2>1, <2>2
<1>18. CASE CallMethodAnswered(b)
  <2>1. outcome' \in [Bots -> Outcomes]
    BY <1>0, <1>18 DEF CallMethodAnswered, PollerTypeOK, SetOutcome, Outcomes
  <2>2. QED
    BY <1>0, <1>18, <2>1, MoveType DEF CallMethodAnswered, At, batchVars,
       sleepVars
<1>19. CASE CallMethodFails(b)
  <2>1. outcome' \in [Bots -> Outcomes]
    BY <1>0, <1>19 DEF CallMethodFails, PollerTypeOK, SetOutcome, Errors,
       Outcomes
  <2>2. QED
    BY <1>0, <1>19, <2>1, MoveType DEF CallMethodFails, At, batchVars,
       sleepVars
<1>20. CASE LogMethodError(b)
  <2>1. CASE \E error : Retry(b, error)
    BY <1>0, <1>20, <2>1, RetryType DEF LogMethodError
  <2>2. CASE ~ \E error : Retry(b, error)
    BY <1>0, <1>20, <2>2, MoveType DEF LogMethodError, At, PollerTypeOK,
       batchVars, sleepVars
  <2>3. QED
    BY <2>1, <2>2
<1>21. CASE Log(b)
  <2>1. \A l \in DOMAIN AfterLog :
          /\ AfterLog[l] \in Labels \ Sleeping
          /\ l \notin Sleeping
          /\ AfterLog[l] \in Delivering => l \in Delivering
    BY DEF AfterLog
  <2>2. QED
    BY <1>0, <1>21, <2>1, MoveType
    DEF Log, PollerTypeOK, batchVars, sleepVars
<1>22. CASE LogFails(b)
  <2>1. CASE \E error : Retry(b, error)
    BY <1>0, <1>22, <2>1, RetryType DEF LogFails
  <2>2. CASE ~ \E error : Retry(b, error)
    BY <1>0, <1>22, <2>2, MoveType DEF LogFails, At, PollerTypeOK, batchVars,
       sleepVars, Abort
  <2>3. QED
    BY <2>1, <2>2
<1>23. CASE Wake(b)
  <2>1. PollerTypeOK'
    BY <1>0, <1>23 DEF Wake, PollerTypeOK, At, Goto, batchVars
  <2>2. UpdateInHand'
    BY <1>0, <1>23 DEF Wake, UpdateInHand, PollerTypeOK, At, Goto, batchVars
  <2>3. SleepsForAWhile'
    BY <1>0, <1>23 DEF Wake, SleepsForAWhile, PollerTypeOK, At, Goto, batchVars
  <2>4. QED
    BY <2>1, <2>2, <2>3
<1>24. CASE SaveOffsetOk(b)
  <2>0. /\ updates[b] \in Seq(UpdateIds) /\ pos[b] \in DOMAIN updates[b]
        /\ Current(b) \in Nat
    BY <1>0, <1>24, CurrentType
    DEF SaveOffsetOk, PollerTypeOK, UpdateInHand, At
  <2>1. PollerTypeOK'
    <3>1. offset' \in [Bots -> Nat]
      BY <1>0, <1>24, <2>0 DEF SaveOffsetOk, PollerTypeOK, NextOffset
    <3>2. outcome' \in [Bots -> Outcomes] /\ backoff' \in [Bots -> Int]
      BY <1>0, <1>24
      DEF SaveOffsetOk, PollerTypeOK, ResetBackoff, SetOutcome, Outcomes
    <3>3. pos' \in [Bots -> Nat] /\ pc' \in [Bots -> Labels]
      <4>1. /\ \/ pos' = [pos EXCEPT ![b] = pos[b] + 1]
               \/ pos' = [pos EXCEPT ![b] = 0]
            /\ \/ pc' = [pc EXCEPT ![b] = "receive"]
               \/ pc' = [pc EXCEPT ![b] = "poll"]
        BY <1>24 DEF SaveOffsetOk, LeaveBatch, Goto
      <4>2. pos \in [Bots -> Nat] /\ pc \in [Bots -> Labels]
        BY <1>0 DEF PollerTypeOK
      <4>3. QED
        BY <4>1, <4>2
    <3>4. updates' = updates \/ updates' = [updates EXCEPT ![b] = <<>>]
      BY <1>24 DEF SaveOffsetOk, LeaveBatch
    <3>5. updates' \in [Bots -> Seq(UpdateIds)]
      BY <1>0, <3>4, EmptySeq DEF PollerTypeOK
    <3>6. QED
      BY <1>0, <1>24, <3>1, <3>2, <3>3, <3>5 DEF SaveOffsetOk, PollerTypeOK
  <2>2. UpdateInHand'
    <3>1. DOMAIN updates[b] = 1..Len(updates[b]) /\ Len(updates[b]) \in Nat
      BY <2>0
    <3>2. QED
      BY <1>0, <1>24, <2>0, <3>1
      DEF SaveOffsetOk, UpdateInHand, PollerTypeOK, Goto, LeaveBatch
  <2>3. SleepsForAWhile'
    BY <1>0, <1>24 DEF SaveOffsetOk, SleepsForAWhile, PollerTypeOK, At, Goto
  <2>4. QED
    BY <2>1, <2>2, <2>3
<1>25. CASE SaveOffsetFails(b)
  BY <1>0, <1>25, RetryType DEF SaveOffsetFails
<1>26. CASE ReportFailure(b)
  BY <1>0, <1>26, MoveType DEF ReportFailure, At, PollerTypeOK, batchVars,
     sleepVars
<1>27. QED
  BY <1>1, <1>2, <1>3, <1>4, <1>5, <1>6, <1>7, <1>8, <1>9, <1>10, <1>11, <1>12,
     <1>13, <1>14, <1>15, <1>16, <1>17, <1>18, <1>19, <1>20, <1>21, <1>22,
     <1>23, <1>24, <1>25, <1>26
  DEF BotStep, EnsurePollingMode, Poll, DeliverUpdate

LEMMA TypeStep == TypeOK /\ [Next]_vars => TypeOK'
<1> SUFFICES ASSUME TypeOK, [Next]_vars PROVE TypeOK'
  OBVIOUS
<1>1. CASE \E b \in Bots : BotStep(b)
  BY <1>1, WorldTypeStep, PollerTypeStep DEF TypeOK
<1>2. ASSUME ProcessEnds,
             UNCHANGED tgVars, StoreTypeOK', HistoryTypeOK'
      PROVE  TypeOK'
  <2>1. TelegramTypeOK'
    BY <1>2 DEF TypeOK, TelegramTypeOK, tgVars
  <2>2. MetricsTypeOK'
    BY <1>2, CounterCapAssumption
    DEF ProcessEnds, MetricsReset, MetricsTypeOK, NoUpdate
  <2>3. ProcessTypeOK'
    BY <1>2 DEF ProcessEnds, ProcessTypeOK
  <2>4. PollerTypeOK'
    BY <1>2 DEF ProcessEnds, PollerTypeOK, Labels, Starting, Outcomes,
                ResetBackoff
  <2>5. UpdateInHand'
    BY <1>2 DEF ProcessEnds, UpdateInHand, Delivering, DeliveryLogs
  <2>6. SleepsForAWhile'
    BY <1>2 DEF ProcessEnds, SleepsForAWhile, Sleeping
  <2>7. QED
    BY <1>2, <2>1, <2>2, <2>3, <2>4, <2>5, <2>6 DEF TypeOK
<1>3. CASE Exit
  <2>1. StoreTypeOK' /\ HistoryTypeOK' /\ UNCHANGED tgVars
    BY <1>3 DEF Exit, TypeOK, StoreTypeOK, HistoryTypeOK, storeVars, histVars
  <2>2. QED
    BY <1>2, <1>3, <2>1 DEF Exit
<1>4. CASE Crash
  <2>1. StoreTypeOK'
    BY <1>4 DEF Crash, TypeOK, StoreTypeOK, storeVars, LoseUnsynced
  <2>2. HistoryTypeOK'
    BY <1>4, BridgeAssumption
    DEF Crash, TypeOK, HistoryTypeOK, ackVars, Spend
  <2>3. QED
    BY <1>2, <1>4, <2>1, <2>2 DEF Crash
<1>5. ASSUME UNCHANGED <<metricVars, pc, offset, batchVars, outcome, sleepVars>>,
             TelegramTypeOK', StoreTypeOK', ProcessTypeOK', HistoryTypeOK'
      PROVE  TypeOK'
  BY <1>5
  DEF TypeOK, MetricsTypeOK, PollerTypeOK, UpdateInHand, SleepsForAWhile,
      metricVars, batchVars, sleepVars
<1>6. CASE Start \/ Signal
  <2>1. TelegramTypeOK' /\ StoreTypeOK'
    BY <1>6 DEF Start, Signal, TypeOK, TelegramTypeOK, tgVars, StoreTypeOK,
                storeVars
  <2>2. ProcessTypeOK'
    BY <1>6 DEF Start, Signal, TypeOK, ProcessTypeOK
  <2>3. HistoryTypeOK'
    BY <1>6, BridgeAssumption
    DEF Start, Signal, TypeOK, HistoryTypeOK, histVars, ackVars, Spend
  <2>4. QED
    BY <1>5, <1>6, <2>1, <2>2, <2>3 DEF Start, Signal
<1>7. CASE Arrive
  <2>1. TelegramTypeOK'
    BY <1>7 DEF Arrive, NewUpdate, TypeOK, TelegramTypeOK
  <2>2. StoreTypeOK' /\ ProcessTypeOK' /\ HistoryTypeOK'
    BY <1>7 DEF Arrive, TypeOK, StoreTypeOK, storeVars, ProcessTypeOK,
                procVars, HistoryTypeOK, histVars
  <2>3. QED
    BY <1>5, <1>7, <2>1, <2>2 DEF Arrive
<1>8. CASE Sync
  <2>1. StoreTypeOK'
    BY <1>8 DEF Sync, Checkpoint, TypeOK, StoreTypeOK
  <2>2. TelegramTypeOK' /\ ProcessTypeOK' /\ HistoryTypeOK'
    BY <1>8 DEF Sync, TypeOK, TelegramTypeOK, tgVars, ProcessTypeOK, procVars,
                HistoryTypeOK, histVars
  <2>3. QED
    BY <1>5, <1>8, <2>1, <2>2 DEF Sync
<1>9. CASE UNCHANGED vars
  <2>1. /\ TelegramTypeOK' /\ StoreTypeOK' /\ ProcessTypeOK'
        /\ HistoryTypeOK'
    BY <1>9 DEF vars, TypeOK, TelegramTypeOK, tgVars, StoreTypeOK, storeVars,
                ProcessTypeOK, procVars, HistoryTypeOK, histVars
  <2>2. QED
    BY <1>5, <1>9, <2>1 DEF vars
<1>10. QED
  BY <1>1, <1>3, <1>4, <1>6, <1>7, <1>8, <1>9 DEF Next

(* Every variable of the bridge keeps its type, a poller that delivers has *)
(* an update in hand, and exactly the sleepers have a positive delay.      *)
THEOREM TypeCorrect == Spec => []TypeOK
  BY InitType, TypeStep, PTL DEF Spec

=============================================================================
