-------------------------------- MODULE Bridge --------------------------------
(***************************************************************************)
(* The bridge of src/bridge/service.go: one poller goroutine per           *)
(* configured bot that takes updates from Telegram, posts them to the      *)
(* bot's back end, proxies the method a reply may ask for, and saves the   *)
(* offset; the supervisor Service.Run around the pollers; and the process  *)
(* that main.go runs it in, which may be signalled, killed, lose power and *)
(* be started again.                                                       *)
(*                                                                         *)
(* A poller is at one label, pc[b].  Every call to Telegram, to the back   *)
(* end or to the store is one label, so that anything can happen between   *)
(* two calls.  A call is one step: its effect on the server and the        *)
(* answer the poller sees, which may disagree (the effect took place but   *)
(* the answer was lost).                                                   *)
(*                                                                         *)
(* Simplifications.  Payloads are the update ids.  A batch is what         *)
(* Telegram's queue holds: no foreign or duplicate ids.  Nobody configures *)
(* a webhook again while the process runs.  Everything that                *)
(* goes wrong is paid for from one budget, MaxFaults, except the errors    *)
(* that a cancelled context causes.  A request that the cancellation cuts  *)
(* short after it took effect is an unanswered call followed by a signal.  *)
(***************************************************************************)
EXTENDS TelegramServer, StateStore, Backoff, HealthMetrics

CONSTANTS
  Replies,   \* the kinds of 2xx replies the back ends give
  Poison,    \* Poison[b]: the updates that the back end of b always refuses
  MaxFaults  \* how many faults a behaviour may have

(* A 2xx reply without a method, with a malformed one, with one that the   *)
(* client can send, and with one that does not fit into a request URL.     *)
MethodReplies == {"method", "oddMethod"}
ReplyKinds == {"plain", "invalid"} \cup MethodReplies

ASSUME BridgeAssumption ==
  /\ Replies \subseteq ReplyKinds
  /\ Poison \in [Bots -> SUBSET UpdateIds]
  /\ MaxFaults \in Nat

VARIABLES
  up,        \* the process runs
  canceled,  \* the context of Service.Run is done
  errCh,     \* the bots whose error waits in errChannel
  pc,        \* pc[b]: where the poller of bot b is
  offset,    \* its local variables: the offset of the next request,
  updates,   \* the batch in hand
  pos,       \* and the index of the update being delivered
  outcome,   \* what the last call answered, until it is acted on
  delay,     \* the duration of the sleep it is in, 0 when awake
  backoff,   \* the `current' field of its exponentialBackoff
  handled,   \* history: the updates of which a 2xx reply was acted on in full
  attempts,  \* history: attempts[b][u], the POSTs that reached the back end
  faults     \* history: the faults so far

procVars == <<up, canceled, errCh>>
batchVars == <<updates, pos>>
sleepVars == <<delay, backoff>>
ackVars == <<handled, attempts>>
histVars == <<handled, attempts, faults>>
vars == <<tgVars, storeVars, metricVars, procVars, pc, offset, batchVars,
          outcome, sleepVars, histVars>>

(* Labels at which a failed log row ends the poller, and those inside      *)
(* deliverUpdate, where it makes the update be retried.                    *)
FatalLogs == {"logDeleteError", "logDeleteOk", "logOffsetLoaded",
              "logPollError", "logPollOk", "logReceived"}
DeliveryLogs == {"logRequest", "logResponseError", "logResponse",
                 "logParseError", "logMethodRequest", "logMethodOk",
                 "logMethodError"}
Delivering == DeliveryLogs \cup {"receive", "logReceived", "post",
                                 "callMethod", "saveOffset"}
Starting == {"deleteWebhook", "loadOffset"}
Sleeping == {"sleep", "sleepDelete"}
Labels == FatalLogs \cup Delivering \cup Starting \cup Sleeping
            \cup {"poll", "fail", "done"}

Errors == {"temporary", "flood"}
Outcomes == {"none", "non2xx", "permanent"} \cup ReplyKinds \cup Errors

AttemptCap == MaxFaults + 2  \* attempts saturates there

ProcessTypeOK ==
  /\ up \in BOOLEAN
  /\ canceled \in BOOLEAN
  /\ errCh \subseteq Bots

PollerTypeOK ==
  /\ pc \in [Bots -> Labels]
  /\ offset \in [Bots -> Nat]
  /\ updates \in [Bots -> Seq(UpdateIds)]
  /\ pos \in [Bots -> Nat]
  /\ outcome \in [Bots -> Outcomes]
  /\ delay \in [Bots -> Nat]
  /\ backoff \in [Bots -> Int]

HistoryTypeOK ==
  /\ handled \in [Bots -> SUBSET UpdateIds]
  /\ attempts \in [Bots -> [UpdateIds -> 0..AttemptCap]]
  /\ faults \in 0..MaxFaults

(* While delivering, a poller has an update in hand.                       *)
UpdateInHand ==
  \A b \in Bots : pc[b] \in Delivering => pos[b] \in DOMAIN updates[b]

(* Every sleep has an end ahead, and only a sleep has.                     *)
SleepsForAWhile ==
  \A b \in Bots : delay[b] > 0 <=> pc[b] \in Sleeping

TypeOK ==
  /\ TelegramTypeOK
  /\ StoreTypeOK
  /\ MetricsTypeOK
  /\ ProcessTypeOK
  /\ PollerTypeOK
  /\ HistoryTypeOK
  /\ UpdateInHand
  /\ SleepsForAWhile

-----------------------------------------------------------------------------

Init ==
  /\ TelegramInit
  /\ StoreInit
  /\ MetricsInit
  /\ up = FALSE
  /\ canceled = FALSE
  /\ errCh = {}
  /\ pc = [b \in Bots |-> "deleteWebhook"]
  /\ offset = [b \in Bots |-> 0]
  /\ updates = [b \in Bots |-> <<>>]
  /\ pos = [b \in Bots |-> 0]
  /\ outcome = [b \in Bots |-> "none"]
  /\ delay = [b \in Bots |-> 0]
  /\ backoff = [b \in Bots |-> ResetBackoff]
  /\ handled = [b \in Bots |-> {}]
  /\ attempts = [b \in Bots |-> [u \in UpdateIds |-> 0]]
  /\ faults = 0

-----------------------------------------------------------------------------
(* Building blocks of the actions.                                         *)

At(b, label) == up /\ pc[b] = label
Goto(b, label) == pc' = [pc EXCEPT ![b] = label]
Current(b) == updates[b][pos[b]]
Token(b) == TokenOf[b]

Spend == faults < MaxFaults /\ faults' = faults + 1

(* A call fails: by a fault, or because the context is done.               *)
Fault == IF canceled THEN UNCHANGED faults ELSE Spend
CallFails(error) == Fault /\ (canceled => error = "temporary")

(* With SQLite behind it, no store call succeeds once the context is done; *)
(* the no-op store never fails.                                            *)
StoreWorks == HasStore => ~canceled
StoreFails == HasStore /\ Fault

SetOutcome(b, o) == outcome' = [outcome EXCEPT ![b] = o]

(* The poller returns an error; Run ignores it if it is context.Canceled.  *)
Abort(b) == Goto(b, IF canceled THEN "done" ELSE "fail")

(* nextDelay and the start of sleepWithContext.                            *)
FallAsleep(b, error, label) ==
  /\ delay' = [delay EXCEPT ![b] = SleepFor(NextDelay(backoff[b], error))]
  /\ backoff' = [backoff EXCEPT ![b] = BackoffAfter(backoff[b], error)]
  /\ SetOutcome(b, "none")
  /\ Goto(b, label)

LeaveBatch(b) ==
  /\ updates' = [updates EXCEPT ![b] = <<>>]
  /\ pos' = [pos EXCEPT ![b] = 0]

RetryNextFirst(b, error) ==
  \/ /\ pos[b] < Len(updates[b])
     /\ pos' = [pos EXCEPT ![b] = @ + 1]
     /\ SetOutcome(b, "none")
     /\ Goto(b, "receive")
     /\ UNCHANGED <<updates, sleepVars>>
  \/ /\ pos[b] = Len(updates[b])
     /\ FallAsleep(b, error, "sleep")
     /\ LeaveBatch(b)

(* The delivery or the save failed: sleep, then poll again from the same   *)
(* offset (retryCurrentOffset).                                            *)
Retry(b, error) ==
  /\ FallAsleep(b, error, "sleep")
  /\ LeaveBatch(b)

-----------------------------------------------------------------------------
(* ensurePollingMode.                                                      *)

DeleteWebhookOk(b) ==
  /\ At(b, "deleteWebhook")
  /\ ~canceled
  /\ RemoveWebhook(Token(b), DropPending[b])
  /\ Goto(b, "logDeleteOk")
  /\ UNCHANGED <<storeVars, metricVars, procVars, offset, batchVars, outcome,
                 sleepVars, histVars>>

(* Only a call whose answer was lost can have had its effect.              *)
DeleteWebhookFails(b) ==
  \E error \in Errors :
    /\ At(b, "deleteWebhook")
    /\ CallFails(error)
    /\ \/ UNCHANGED tgVars
       \/ /\ ~canceled /\ error = "temporary"
          /\ RemoveWebhook(Token(b), DropPending[b])
    /\ IncTelegramError(b)
    /\ SetOutcome(b, error)
    /\ Goto(b, "logDeleteError")
    /\ UNCHANGED <<storeVars, shownOffset, lastUpdate, backendErrors, procVars,
                   offset, batchVars, sleepVars, ackVars>>

LogDeleteError(b) ==
  /\ At(b, "logDeleteError")
  /\ StoreWorks
  /\ FallAsleep(b, outcome[b], "sleepDelete")
  /\ UNCHANGED <<tgVars, storeVars, metricVars, procVars, offset, batchVars,
                 histVars>>

WakeAndDeleteAgain(b) ==
  /\ At(b, "sleepDelete") \/ At(b, "sleep")
  /\ Goto(b, "deleteWebhook")
  /\ delay' = [delay EXCEPT ![b] = 0]
  /\ UNCHANGED <<tgVars, storeVars, metricVars, procVars, offset, batchVars,
                 outcome, backoff, histVars>>

WakeAndGoOn(b) ==
  /\ \/ At(b, "sleepDelete") /\ Goto(b, "loadOffset")
     \/ At(b, "sleep") /\ Goto(b, "poll")
     \/ At(b, "sleep") /\ canceled /\ Goto(b, "done")
  /\ delay' = [delay EXCEPT ![b] = 0]
  /\ UNCHANGED <<tgVars, storeVars, metricVars, procVars, offset, batchVars,
                 outcome, backoff, histVars>>

(* The end of either sleep.  A sleep cut short by the cancellation ends    *)
(* the poller, but ensurePollingMode then returns nil and runBot goes on.  *)
Wake(b) ==
  /\ \/ At(b, "sleepDelete") /\ Goto(b, "deleteWebhook")
     \/ At(b, "sleepDelete") /\ canceled /\ Goto(b, "loadOffset")
     \/ At(b, "sleep") /\ Goto(b, "poll")
     \/ At(b, "sleep") /\ canceled /\ Goto(b, "done")
  /\ delay' = [delay EXCEPT ![b] = 0]
  /\ UNCHANGED <<tgVars, storeVars, metricVars, procVars, offset, batchVars,
                 outcome, backoff, histVars>>

-----------------------------------------------------------------------------
(* runBot: the offset and the poll.                                        *)

(* Reads the offset, shows it, and makes the backoff of the main loop.     *)
LoadOffset(b) ==
  /\ At(b, "loadOffset")
  /\ StoreWorks
  /\ offset' = [offset EXCEPT ![b] = LoadedOffset(b)]
  /\ SetOffset(b, LoadedOffset(b))
  /\ backoff' = [backoff EXCEPT ![b] = ResetBackoff]
  /\ Goto(b, "logOffsetLoaded")
  /\ UNCHANGED <<tgVars, storeVars, lastUpdate, telegramErrors, backendErrors,
                 procVars, batchVars, outcome, delay, histVars>>

LoadOffsetFails(b) ==
  /\ At(b, "loadOffset")
  /\ StoreFails
  /\ Abort(b)
  /\ UNCHANGED <<tgVars, storeVars, metricVars, procVars, offset, batchVars,
                 outcome, sleepVars, ackVars>>

(* request.Offset = offset, set anew for every poll.                       *)
RequestOffsetUnset(b) == 0
RequestOffset(b) == offset[b]

(* The check of ctx.Done at the top of the loop.                           *)
StopPolling(b) ==
  /\ At(b, "poll")
  /\ canceled
  /\ Goto(b, "done")
  /\ UNCHANGED <<tgVars, storeVars, metricVars, procVars, offset, batchVars,
                 outcome, sleepVars, histVars>>

(* Telegram forgets what is below the offset and answers with a batch.     *)
GetUpdatesOk(b) ==
  /\ At(b, "poll")
  /\ ~canceled
  /\ ~webhook[Token(b)]
  /\ ConfirmBelow(Token(b), RequestOffset(b))
  /\ \E batch \in Batches(Outstanding(Token(b), RequestOffset(b))) :
       updates' = [updates EXCEPT ![b] = batch]
  /\ Goto(b, "logPollOk")
  /\ UNCHANGED <<storeVars, metricVars, procVars, offset, pos, outcome,
                 sleepVars, histVars>>

(* The request or its answer is lost, or Telegram refuses it.              *)
GetUpdatesFails(b) ==
  \E error \in Errors :
    /\ At(b, "poll")
    /\ \/ CallFails(error) /\ UNCHANGED tgVars
       \/ /\ ~canceled /\ error = "temporary" /\ ~webhook[Token(b)]
          /\ Fault
          /\ ConfirmBelow(Token(b), RequestOffset(b))
    /\ IncTelegramError(b)
    /\ SetOutcome(b, error)
    /\ Goto(b, "logPollError")
    /\ UNCHANGED <<storeVars, shownOffset, lastUpdate, backendErrors, procVars,
                   offset, batchVars, sleepVars, ackVars>>

LogPollError(b) ==
  /\ At(b, "logPollError")
  /\ StoreWorks
  /\ FallAsleep(b, outcome[b], "sleep")
  /\ UNCHANGED <<tgVars, storeVars, metricVars, procVars, offset, batchVars,
                 histVars>>

(* An empty answer resets the backoff; otherwise the batch loop starts.    *)
LogPollOk(b) ==
  /\ At(b, "logPollOk")
  /\ StoreWorks
  /\ \/ /\ updates[b] = <<>>
        /\ backoff' = [backoff EXCEPT ![b] = ResetBackoff]
        /\ Goto(b, "poll")
        /\ UNCHANGED pos
     \/ /\ updates[b] # <<>>
        /\ pos' = [pos EXCEPT ![b] = 1]
        /\ Goto(b, "receive")
        /\ UNCHANGED backoff
  /\ UNCHANGED <<tgVars, storeVars, metricVars, procVars, offset, updates,
                 outcome, delay, histVars>>

(* extractUpdateID and observeUpdate.                                      *)
Receive(b) ==
  /\ At(b, "receive")
  /\ ObserveUpdate(b, Current(b))
  /\ Goto(b, "logReceived")
  /\ UNCHANGED <<tgVars, storeVars, shownOffset, telegramErrors, backendErrors,
                 procVars, offset, batchVars, outcome, sleepVars, histVars>>

(* An update without a readable update_id ends the poller, cancelled or    *)
(* not, with an error that is not context.Canceled.                        *)
ReceiveMalformed(b) ==
  /\ At(b, "receive")
  /\ Spend
  /\ Goto(b, "fail")
  /\ UNCHANGED <<tgVars, storeVars, metricVars, procVars, offset, batchVars,
                 outcome, sleepVars, ackVars>>

-----------------------------------------------------------------------------
(* deliverUpdate: the post, its answer, and the method it may ask for.     *)

(* The interaction rows after which the poller just goes on.               *)
AfterLog ==
  [logDeleteOk |-> "loadOffset", logOffsetLoaded |-> "poll",
   logReceived |-> "logRequest", logRequest |-> "post",
   logMethodRequest |-> "callMethod", logMethodOk |-> "saveOffset",
   logParseError |-> "saveOffset"]

Log(b) ==
  /\ up /\ pc[b] \in DOMAIN AfterLog
  /\ StoreWorks
  /\ Goto(b, AfterLog[pc[b]])
  /\ UNCHANGED <<tgVars, storeVars, metricVars, procVars, offset, batchVars,
                 outcome, sleepVars, histVars>>

(* A row cannot be written, or its writing is reported as failed: outside  *)
(* deliverUpdate that ends the poller, inside it is an error of the        *)
(* delivery, whatever the row was about.                                   *)
LogFails(b) ==
  /\ up /\ pc[b] \in FatalLogs \cup DeliveryLogs
  /\ StoreFails
  /\ \/ /\ pc[b] \in FatalLogs
        /\ Abort(b)
        /\ UNCHANGED <<batchVars, outcome, sleepVars>>
     \/ /\ pc[b] \in DeliveryLogs
        /\ Retry(b, "temporary")
  /\ \/ UNCHANGED storeVars
     \/ /\ pc[b] = "logResponse" /\ outcome[b] # "non2xx" /\ ~canceled
        /\ LogInteraction(b, Current(b))
  /\ UNCHANGED <<tgVars, metricVars, procVars, offset, ackVars>>

(* The update reaches the back end.                                        *)
Reached(b) ==
  attempts' = [attempts EXCEPT ![b][Current(b)] =
                 IF @ < AttemptCap THEN @ + 1 ELSE @]

(* The back end accepted the update in hand, the poller knows, and the     *)
(* method that the reply asked for, if any, was called.                    *)
Handle(b) == handled' = [handled EXCEPT ![b] = @ \cup {Current(b)}]

PostAnswered(b) ==
  \E reply \in Replies \cup {"non2xx"} :
    /\ At(b, "post")
    /\ ~canceled
    /\ Reached(b)
    /\ \/ /\ reply = "non2xx"
          /\ IF Current(b) \in Poison[b] THEN UNCHANGED faults ELSE Spend
          /\ UNCHANGED handled
       \/ /\ reply # "non2xx" /\ Current(b) \notin Poison[b]
          /\ UNCHANGED faults
          /\ IF reply \in MethodReplies THEN UNCHANGED handled ELSE Handle(b)
    /\ SetOutcome(b, reply)
    /\ Goto(b, "logResponse")
    /\ UNCHANGED <<tgVars, storeVars, metricVars, procVars, offset, batchVars,
                   sleepVars>>

(* The request is lost, or its answer is, 2xx or not.                      *)
PostFails(b) ==
  /\ At(b, "post")
  /\ Fault
  /\ UNCHANGED attempts \/ (~canceled /\ Reached(b))
  /\ IncBackendError(b)
  /\ Goto(b, "logResponseError")
  /\ UNCHANGED <<tgVars, storeVars, shownOffset, lastUpdate, telegramErrors,
                 procVars, offset, batchVars, outcome, sleepVars, handled>>

(* The status arrives but the body does not: no row, no metric.            *)
ReadBodyFails(b) ==
  /\ At(b, "post")
  /\ ~canceled
  /\ Spend
  /\ Reached(b)
  /\ Retry(b, "temporary")
  /\ UNCHANGED <<tgVars, storeVars, metricVars, procVars, offset, handled>>

LogResponseError(b) ==
  /\ At(b, "logResponseError")
  /\ StoreWorks
  /\ Retry(b, "temporary")
  /\ UNCHANGED <<tgVars, storeVars, metricVars, procVars, offset, histVars>>

(* The row of the answer, and what deliverUpdate makes of it.              *)
LogResponse(b) ==
  /\ At(b, "logResponse")
  /\ StoreWorks
  /\ \/ /\ outcome[b] = "non2xx"
        /\ IncBackendError(b)
        /\ Retry(b, "temporary")
     \/ /\ outcome[b] = "invalid"
        /\ IncBackendError(b)
        /\ Goto(b, "logParseError")
        /\ UNCHANGED <<batchVars, outcome, sleepVars>>
     \/ /\ outcome[b] = "plain"
        /\ Goto(b, "saveOffset")
        /\ UNCHANGED <<backendErrors, batchVars, outcome, sleepVars>>
     \/ /\ outcome[b] \in MethodReplies
        /\ Goto(b, "logMethodRequest")
        /\ UNCHANGED <<backendErrors, batchVars, outcome, sleepVars>>
  /\ IF outcome[b] = "non2xx" THEN UNCHANGED storeVars
                              ELSE LogInteraction(b, Current(b))
  /\ UNCHANGED <<tgVars, shownOffset, lastUpdate, telegramErrors, procVars,
                 offset, histVars>>

(* Telegram ran the method, or refused it for good.                        *)
CallMethodAnswered(b) ==
  /\ At(b, "callMethod")
  /\ ~canceled
  /\ outcome[b] # "oddMethod"
  /\ Handle(b)
  /\ \/ Goto(b, "logMethodOk") /\ UNCHANGED outcome
     \/ Goto(b, "logMethodError") /\ SetOutcome(b, "permanent")
  /\ UNCHANGED <<tgVars, storeVars, metricVars, procVars, offset, batchVars,
                 sleepVars, attempts, faults>>

(* The call fails in a way that may pass, with or without effect; or the   *)
(* request cannot even be built, which is not an APIError either.          *)
CallMethodFails(b) ==
  \E error \in Errors :
    /\ At(b, "callMethod")
    /\ \/ outcome[b] # "oddMethod" /\ CallFails(error) /\ UNCHANGED handled
       \/ /\ outcome[b] # "oddMethod" /\ ~canceled /\ error = "temporary"
          /\ Fault
          /\ Handle(b)
       \/ /\ outcome[b] = "oddMethod" /\ error = "temporary"
          /\ UNCHANGED <<handled, faults>>
    /\ SetOutcome(b, error)
    /\ Goto(b, "logMethodError")
    /\ UNCHANGED <<tgVars, storeVars, metricVars, procVars, offset, batchVars,
                   sleepVars, attempts>>

LogMethodError(b) ==
  /\ At(b, "logMethodError")
  /\ StoreWorks
  /\ IncTelegramError(b)
  /\ \/ /\ outcome[b] = "permanent"
        /\ Goto(b, "saveOffset")
        /\ UNCHANGED <<batchVars, outcome, sleepVars>>
     \/ /\ outcome[b] # "permanent"
        /\ Retry(b, outcome[b])
  /\ UNCHANGED <<tgVars, storeVars, shownOffset, lastUpdate, backendErrors,
                 procVars, offset, histVars>>

-----------------------------------------------------------------------------
(* runBot: the save, and what comes after it.                              *)

NextOffsetSkips(u) == u + 2
NextOffsetStays(u) == u
NextOffset(u) == u + 1

SaveOffsetOk(b) ==
  LET next == NextOffset(Current(b)) IN
  /\ At(b, "saveOffset")
  /\ StoreWorks
  /\ SaveOffset(b, next)
  /\ offset' = [offset EXCEPT ![b] = next]
  /\ SetOffset(b, next)
  /\ backoff' = [backoff EXCEPT ![b] = ResetBackoff]
  /\ SetOutcome(b, "none")
  /\ \/ /\ pos[b] < Len(updates[b])
        /\ pos' = [pos EXCEPT ![b] = @ + 1]
        /\ Goto(b, "receive")
        /\ UNCHANGED updates
     \/ /\ pos[b] = Len(updates[b])
        /\ LeaveBatch(b)
        /\ Goto(b, "poll")
  /\ UNCHANGED <<tgVars, lastUpdate, telegramErrors, backendErrors, procVars,
                 delay, histVars>>

(* The upsert fails, or it commits and the error comes all the same.       *)
SaveOffsetFails(b) ==
  /\ At(b, "saveOffset")
  /\ StoreFails
  /\ \/ UNCHANGED storeVars
     \/ ~canceled /\ SaveOffset(b, NextOffset(Current(b)))
  /\ Retry(b, "temporary")
  /\ UNCHANGED <<tgVars, metricVars, procVars, offset, ackVars>>

-----------------------------------------------------------------------------
(* Service.Run.                                                            *)

(* make(chan error, len(service.cfg.Bots)): nobody receives before Wait    *)
(* returns, so a send beyond the buffer blocks for ever.                   *)
ErrBufferOfOne == 1
ErrBuffer == Cardinality(Bots)

(* The goroutine sends the error and then cancels the others.              *)
ReportFailure(b) ==
  /\ At(b, "fail")
  /\ Cardinality(errCh) < ErrBuffer
  /\ errCh' = errCh \cup {b}
  /\ canceled' = TRUE
  /\ Goto(b, "done")
  /\ UNCHANGED <<tgVars, storeVars, metricVars, up, offset, batchVars, outcome,
                 sleepVars, histVars>>

(* What the process held in memory is gone; the next one starts afresh.    *)
ProcessEnds ==
  /\ up' = FALSE
  /\ canceled' = FALSE
  /\ errCh' = {}
  /\ pc' = [b \in Bots |-> "deleteWebhook"]
  /\ offset' = [b \in Bots |-> 0]
  /\ updates' = [b \in Bots |-> <<>>]
  /\ pos' = [b \in Bots |-> 0]
  /\ outcome' = [b \in Bots |-> "none"]
  /\ delay' = [b \in Bots |-> 0]
  /\ backoff' = [b \in Bots |-> ResetBackoff]
  /\ MetricsReset

(* Wait returns once every poller has; then Run and the process end.       *)
Exit ==
  /\ up /\ \A b \in Bots : pc[b] = "done"
  /\ ProcessEnds
  /\ UNCHANGED <<tgVars, storeVars, histVars>>

-----------------------------------------------------------------------------
(* The process and its machine.                                            *)

Start ==
  /\ ~up
  /\ up' = TRUE
  /\ UNCHANGED <<tgVars, storeVars, metricVars, canceled, errCh, pc, offset,
                 batchVars, outcome, sleepVars, histVars>>

(* SIGINT, SIGTERM, or stop() after the health server failed.              *)
Signal ==
  /\ up /\ ~canceled
  /\ Spend
  /\ canceled' = TRUE
  /\ UNCHANGED <<tgVars, storeVars, metricVars, up, errCh, pc, offset,
                 batchVars, outcome, sleepVars, ackVars>>

(* The process is killed, or the machine under it loses power.             *)
Crash ==
  /\ up
  /\ Spend
  /\ ProcessEnds
  /\ UNCHANGED storeVars \/ LoseUnsynced
  /\ UNCHANGED <<tgVars, ackVars>>

(* The environment: users write, and SQLite checkpoints its log.           *)
Arrive ==
  /\ \E t \in Tokens : NewUpdate(t)
  /\ UNCHANGED <<storeVars, metricVars, procVars, pc, offset, batchVars,
                 outcome, sleepVars, histVars>>

Sync ==
  /\ Checkpoint
  /\ UNCHANGED <<tgVars, metricVars, procVars, pc, offset, batchVars, outcome,
                 sleepVars, histVars>>

-----------------------------------------------------------------------------

EnsurePollingMode(b) ==
  \/ DeleteWebhookOk(b) \/ DeleteWebhookFails(b) \/ LogDeleteError(b)

Poll(b) ==
  \/ LoadOffset(b) \/ LoadOffsetFails(b) \/ StopPolling(b)
  \/ GetUpdatesOk(b) \/ GetUpdatesFails(b)
  \/ LogPollError(b) \/ LogPollOk(b) \/ Receive(b) \/ ReceiveMalformed(b)

DeliverUpdate(b) ==
  \/ PostAnswered(b) \/ PostFails(b) \/ ReadBodyFails(b)
  \/ LogResponseError(b) \/ LogResponse(b)
  \/ CallMethodAnswered(b) \/ CallMethodFails(b) \/ LogMethodError(b)

(* A step of the goroutine of bot b.                                       *)
BotStep(b) ==
  \/ EnsurePollingMode(b) \/ Poll(b) \/ DeliverUpdate(b)
  \/ Log(b) \/ LogFails(b) \/ Wake(b)
  \/ SaveOffsetOk(b) \/ SaveOffsetFails(b)
  \/ ReportFailure(b)

Next ==
  \/ \E b \in Bots : BotStep(b)
  \/ Exit \/ Start \/ Signal \/ Crash
  \/ Arrive \/ Sync

Spec == Init /\ [][Next]_vars

(* Goroutines are scheduled, timers fire, and every call returns: the HTTP *)
(* clients have timeouts and the SQLite handle a busy timeout.  Nothing is *)
(* assumed of users, signals, crashes, checkpoints or of whoever starts    *)
(* the process.                                                            *)
FairSpec == Spec /\ WF_vars(Exit) /\ \A b \in Bots : WF_vars(BotStep(b))

=============================================================================
