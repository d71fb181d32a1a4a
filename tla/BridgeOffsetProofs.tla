-------------------------- MODULE BridgeOffsetProofs ---------------------------
(***************************************************************************)
(* The offsets of the bridge: OffsetInv is inductive, and from it follow   *)
(* that the committed offset is never behind the one in memory, never goes *)
(* back but for a power loss, and never without the audit row of the       *)
(* update below it; and that /healthz reports no lag only where it may.    *)
(***************************************************************************)
EXTENDS BridgeDeliveryProofs

-----------------------------------------------------------------------------
(* How a poller gets from one label to the next.                           *)

(* A poller that has a batch to deliver got it from a poll, had it before  *)
(* with the same updates still to deliver, or has just saved the offset    *)
(* after an update of it.                                                  *)
LEMMA RoundStep ==
  ASSUME TypeOK, NEW b \in Bots, BotStep(b), pc'[b] \in WithBatch
  PROVE  \/ /\ pc[b] = "poll" /\ pc'[b] = "logPollOk"
            /\ UNCHANGED <<offset, stored>>
            /\ \E batch \in Batches(Outstanding(TokenOf[b], offset[b])) :
                 updates' = [updates EXCEPT ![b] = batch]
         \/ /\ pc[b] \in WithBatch
            /\ UNCHANGED <<offset, updates, stored>>
            /\ \/ pc[b] = "logPollOk" /\ pos' = [pos EXCEPT ![b] = 1]
               \/ pc[b] \in Delivering /\ UNCHANGED pos
            /\ pc'[b] \in Delivering
         \/ /\ pc[b] = "saveOffset" /\ pc'[b] = "receive"
            /\ SaveOffset(b, Current(b) + 1)
            /\ offset' = [offset EXCEPT ![b] = Current(b) + 1]
            /\ UNCHANGED updates /\ pos' = [pos EXCEPT ![b] = @ + 1]
<1>1. PollerTypeOK
  BY DEF TypeOK
<1>2. QED
  BY <1>1
  DEF BotStep, EnsurePollingMode, Poll, DeliverUpdate, At, DeleteWebhookOk,
      DeleteWebhookFails, LogDeleteError, LoadOffset, LoadOffsetFails,
      StopPolling, GetUpdatesOk, GetUpdatesFails, LogPollError, LogPollOk,
      Receive, ReceiveMalformed, PostAnswered, PostFails, ReadBodyFails,
      LogResponseError, LogResponse, CallMethodAnswered, CallMethodFails,
      LogMethodError, Log, LogFails, Wake, SaveOffsetOk, SaveOffsetFails,
      ReportFailure, PollerTypeOK, batchVars, Retry, LeaveBatch, FallAsleep,
      Goto, Delivering, DeliveryLogs, FatalLogs, Abort, AfterLog, WithBatch,
      storeVars, LogInteraction, NextOffset, Token, RequestOffset

(* A poller that has loaded its offset has just done so, or had it before; *)
(* when a save fails, what it committed is the offset it meant to save.    *)
LEMMA LoadedStep ==
  ASSUME TypeOK, NEW b \in Bots, BotStep(b), pc'[b] \in OffsetLoaded
  PROVE  \/ /\ pc[b] = "loadOffset" /\ UNCHANGED stored
            /\ offset' = [offset EXCEPT ![b] = stored[b]]
         \/ pc[b] \in OffsetLoaded /\ UNCHANGED <<offset, stored>>
         \/ /\ pc[b] = "saveOffset" /\ SaveOffset(b, Current(b) + 1)
            /\ \/ UNCHANGED offset
               \/ offset' = [offset EXCEPT ![b] = Current(b) + 1]
<1>1. PollerTypeOK
  BY DEF TypeOK
<1>2. QED
  BY <1>1
  DEF BotStep, EnsurePollingMode, Poll, DeliverUpdate, At, DeleteWebhookOk,
      DeleteWebhookFails, LogDeleteError, LoadOffset, LoadOffsetFails,
      StopPolling, GetUpdatesOk, GetUpdatesFails, LogPollError, LogPollOk,
      Receive, ReceiveMalformed, PostAnswered, PostFails, ReadBodyFails,
      LogResponseError, LogResponse, CallMethodAnswered, CallMethodFails,
      LogMethodError, Log, LogFails, Wake, SaveOffsetOk, SaveOffsetFails,
      ReportFailure, PollerTypeOK, batchVars, Retry, LeaveBatch, FallAsleep,
      Goto, Delivering, DeliveryLogs, FatalLogs, Abort, AfterLog, WithBatch,
      OffsetLoaded, storeVars, LogInteraction, LoadedOffset, NextOffset

(* Before that it has not loaded it either.                                *)
LEMMA UnloadedStep ==
  ASSUME TypeOK, NEW b \in Bots, BotStep(b), pc'[b] \in BeforeOffset
  PROVE  pc[b] \in BeforeOffset /\ UNCHANGED offset
<1>1. PollerTypeOK
  BY DEF TypeOK
<1>2. QED
  BY <1>1
  DEF BotStep, EnsurePollingMode, Poll, DeliverUpdate, At, DeleteWebhookOk,
      DeleteWebhookFails, LogDeleteError, LoadOffset, LoadOffsetFails,
      StopPolling, GetUpdatesOk, GetUpdatesFails, LogPollError, LogPollOk,
      Receive, ReceiveMalformed, PostAnswered, PostFails, ReadBodyFails,
      LogResponseError, LogResponse, CallMethodAnswered, CallMethodFails,
      LogMethodError, Log, LogFails, Wake, SaveOffsetOk, SaveOffsetFails,
      ReportFailure, PollerTypeOK, Retry, FallAsleep, Goto, Abort, AfterLog,
      BeforeOffset

(* The offset in memory is set together with the one that is shown, to     *)
(* what is stored then.                                                    *)
LEMMA OffsetChange ==
  ASSUME TypeOK, NEW b \in Bots, BotStep(b)
  PROVE  \/ UNCHANGED <<offset, shownOffset>>
         \/ /\ pc[b] = "loadOffset" /\ UNCHANGED stored
            /\ offset' = [offset EXCEPT ![b] = stored[b]]
            /\ shownOffset' = [shownOffset EXCEPT ![b] = stored[b]]
         \/ /\ pc[b] = "saveOffset" /\ SaveOffset(b, Current(b) + 1)
            /\ offset' = [offset EXCEPT ![b] = Current(b) + 1]
            /\ shownOffset' = [shownOffset EXCEPT ![b] = Current(b) + 1]
  BY DEF BotStep, EnsurePollingMode, Poll, DeliverUpdate, At, DeleteWebhookOk,
      DeleteWebhookFails, LogDeleteError, LoadOffset, LoadOffsetFails,
      StopPolling, GetUpdatesOk, GetUpdatesFails, LogPollError, LogPollOk,
      Receive, ReceiveMalformed, PostAnswered, PostFails, ReadBodyFails,
      LogResponseError, LogResponse, CallMethodAnswered, CallMethodFails,
      LogMethodError, Log, LogFails, Wake, SaveOffsetOk, SaveOffsetFails,
      ReportFailure, metricVars, storeVars, SetOffset, LoadedOffset,
      NextOffset

(* The row of an accepted update is written before anything else is done   *)
(* with the answer.                                                        *)
LEMMA RowStep ==
  ASSUME TypeOK, NEW b \in Bots, BotStep(b), pc'[b] \in RowWritten
  PROVE  /\ UNCHANGED <<updates, pos>>
         /\ \/ pc[b] \in RowWritten /\ UNCHANGED storeVars
            \/ pc[b] = "logResponse" /\ LogInteraction(b, Current(b))
<1>1. PollerTypeOK
  BY DEF TypeOK
<1>2. QED
  BY <1>1
  DEF BotStep, EnsurePollingMode, Poll, DeliverUpdate, At, DeleteWebhookOk,
      DeleteWebhookFails, LogDeleteError, LoadOffset, LoadOffsetFails,
      StopPolling, GetUpdatesOk, GetUpdatesFails, LogPollError, LogPollOk,
      Receive, ReceiveMalformed, PostAnswered, PostFails, ReadBodyFails,
      LogResponseError, LogResponse, CallMethodAnswered, CallMethodFails,
      LogMethodError, Log, LogFails, Wake, SaveOffsetOk, SaveOffsetFails,
      ReportFailure, PollerTypeOK, batchVars, Retry, LeaveBatch, FallAsleep,
      Goto, Abort, AfterLog, RowWritten, MethodReplies

-----------------------------------------------------------------------------
(* What the step of one poller leaves alone.                               *)

LEMMA OtherBotStep ==
  ASSUME TypeOK, NEW b \in Bots, BotStep(b), NEW c \in Bots, c # b
  PROVE  /\ pc'[c] = pc[c] /\ offset'[c] = offset[c]
         /\ updates'[c] = updates[c] /\ pos'[c] = pos[c]
         /\ stored'[c] = stored[c] /\ logged'[c] = logged[c]
         /\ ToDeliver(c)' = ToDeliver(c)
<1>1. /\ pc'[c] = pc[c] /\ offset'[c] = offset[c]
      /\ updates'[c] = updates[c] /\ pos'[c] = pos[c]
  BY OthersStep DEF TypeOK
<1>2. stored'[c] = stored[c] /\ logged'[c] = logged[c]
  BY StoreStep DEF TypeOK, StoreTypeOK, storeVars, SaveOffset, LogInteraction
<1>3. QED
  BY <1>1, <1>2 DEF ToDeliver

(* Only users add updates.                                                 *)
LEMMA PendingStep ==
  ASSUME TypeOK, NEW b \in Bots, BotStep(b), NEW t \in Tokens
  PROVE  arrived' = arrived /\ pending'[t] \subseteq pending[t]
<1>1. CASE UNCHANGED tgVars
  BY <1>1 DEF tgVars
<1>2. CASE RemoveWebhook(TokenOf[b], DropPending[b])
  BY <1>2 DEF RemoveWebhook, TypeOK, TelegramTypeOK
<1>3. CASE ConfirmBelow(TokenOf[b], offset[b])
  BY <1>3 DEF ConfirmBelow, Outstanding, TypeOK, TelegramTypeOK
<1>4. QED
  BY <1>1, <1>2, <1>3, TelegramStep

(* The elements of a batch are update ids at indices that are numbers.     *)
LEMMA BatchTypes ==
  ASSUME TypeOK, NEW b \in Bots
  PROVE  /\ pos[b] \in Nat /\ offset[b] \in Nat /\ stored[b] \in Nat
         /\ \A i \in DOMAIN updates[b] : i \in Nat /\ i >= 1
         /\ \A i \in DOMAIN updates[b] : updates[b][i] \in Nat
<1>1. pos[b] \in Nat /\ offset[b] \in Nat /\ stored[b] \in Nat
  BY DEF TypeOK, PollerTypeOK, StoreTypeOK
<1>2. updates[b] \in Seq(UpdateIds)
  BY DEF TypeOK, PollerTypeOK
<1>3. \A i \in DOMAIN updates[b] : i \in Nat /\ i >= 1
  BY <1>2
<1>4. \A i \in DOMAIN updates[b] : updates[b][i] \in UpdateIds
  BY <1>2, ElementOfSeq
<1>5. QED
  BY <1>1, <1>3, <1>4, UpdateIdsAssumption

(* An answer consists of pending updates from the offset on, ascending,    *)
(* and what it leaves out is newer.                                        *)
LEMMA AnswerProperties ==
  ASSUME TypeOK, NEW b \in Bots,
         NEW batch \in Batches(Outstanding(TokenOf[b], offset[b]))
  PROVE  /\ \A i \in DOMAIN batch :
              i \in Nat /\ batch[i] \in Nat
                /\ batch[i] \in pending[TokenOf[b]] /\ batch[i] >= offset[b]
         /\ \A i, j \in DOMAIN batch : i < j => batch[i] < batch[j]
         /\ \A u \in pending[TokenOf[b]] : \A i \in DOMAIN batch :
              u >= offset[b] /\ u < batch[i] =>
                \E j \in DOMAIN batch : j < i /\ batch[j] = u
<1> DEFINE S == Outstanding(TokenOf[b], offset[b])
<1>1. /\ TokenOf[b] \in Tokens
      /\ pending[TokenOf[b]] \in SUBSET UpdateIds
      /\ offset[b] \in Nat
      /\ UpdateIds \subseteq Nat
  BY ConfigAssumption, UpdateIdsAssumption
  DEF TypeOK, TelegramTypeOK, PollerTypeOK
<1>2. S \in SUBSET UpdateIds
  BY <1>1 DEF Outstanding
<1>3. /\ batch \in Seq(UpdateIds)
      /\ \A i \in DOMAIN batch : batch[i] \in S
      /\ \A i, j \in DOMAIN batch : i < j => batch[i] < batch[j]
      /\ \A u \in S : (\A i \in DOMAIN batch : batch[i] # u)
                        => \A i \in DOMAIN batch : batch[i] < u
  BY <1>2, BatchProperties
<1>4. \A i \in DOMAIN batch :
        i \in Nat /\ batch[i] \in Nat
          /\ batch[i] \in pending[TokenOf[b]] /\ batch[i] >= offset[b]
  <2>1. \A i \in DOMAIN batch : i \in Nat
    BY <1>3
  <2>2. \A i \in DOMAIN batch :
          batch[i] \in pending[TokenOf[b]] /\ batch[i] >= offset[b]
    BY <1>3 DEF Outstanding
  <2>3. QED
    BY <1>1, <2>1, <2>2
<1>5. ASSUME NEW u \in pending[TokenOf[b]], NEW i \in DOMAIN batch,
             u >= offset[b], u < batch[i]
      PROVE  \E j \in DOMAIN batch : j < i /\ batch[j] = u
  <2>1. u \in S /\ u \in Nat
    BY <1>1, <1>5 DEF Outstanding
  <2> HIDE DEF S
  <2>2. PICK j \in DOMAIN batch : batch[j] = u
    BY <1>3, <1>4, <1>5, <2>1
  <2>3. j \in Nat /\ i \in Nat /\ batch[i] \in Nat
    BY <1>4
  <2>4. ~(i < j) /\ i # j
    BY <1>3, <1>5, <2>1, <2>2, <2>3
  <2>5. QED
    BY <2>2, <2>3, <2>4
<1>6. QED
  BY <1>3, <1>4, <1>5

(* What is still to deliver after a step of the poller itself.             *)
LEMMA ToDeliverStep ==
  ASSUME TypeOK, NEW b \in Bots, BotStep(b), pc'[b] \in WithBatch
  PROVE  \/ /\ pc[b] = "poll" /\ offset'[b] = offset[b]
            /\ stored'[b] = stored[b]
            /\ ToDeliver(b)' = DOMAIN updates'[b]
            /\ \E batch \in Batches(Outstanding(TokenOf[b], offset[b])) :
                 updates'[b] = batch
         \/ /\ pc[b] \in WithBatch /\ offset'[b] = offset[b]
            /\ stored'[b] = stored[b]
            /\ ToDeliver(b)' = ToDeliver(b)
            /\ updates'[b] = updates[b]
         \/ /\ pc[b] = "saveOffset" /\ pos[b] \in ToDeliver(b)
            /\ offset'[b] = Current(b) + 1
            /\ HasStore => stored'[b] = Current(b) + 1
            /\ ToDeliver(b)' = {i \in ToDeliver(b) : i > pos[b]}
            /\ updates'[b] = updates[b]
<1>1. /\ pc \in [Bots -> Labels] /\ offset \in [Bots -> Nat]
      /\ stored \in [Bots -> Nat] /\ pos \in [Bots -> Nat]
      /\ updates \in [Bots -> Seq(UpdateIds)]
  BY DEF TypeOK, PollerTypeOK, StoreTypeOK
<1>2. /\ pos[b] \in Nat
      /\ \A i \in DOMAIN updates[b] : i \in Nat /\ i >= 1
  BY BatchTypes
<1>3. "logPollOk" \notin Delivering /\ "saveOffset" \in Delivering
        /\ "receive" \in Delivering /\ "saveOffset" \in WithBatch
  BY DEF Delivering, DeliveryLogs, WithBatch
<1>4. CASE /\ pc[b] = "poll" /\ pc'[b] = "logPollOk"
           /\ UNCHANGED <<offset, stored>>
           /\ \E batch \in Batches(Outstanding(TokenOf[b], offset[b])) :
                updates' = [updates EXCEPT ![b] = batch]
  BY <1>1, <1>3, <1>4 DEF ToDeliver
<1>5. CASE /\ pc[b] \in WithBatch
           /\ UNCHANGED <<offset, updates, stored>>
           /\ \/ pc[b] = "logPollOk" /\ pos' = [pos EXCEPT ![b] = 1]
              \/ pc[b] \in Delivering /\ UNCHANGED pos
           /\ pc'[b] \in Delivering
  <2>1. CASE pc[b] = "logPollOk" /\ pos' = [pos EXCEPT ![b] = 1]
    <3>1. pos'[b] = 1
      BY <1>1, <2>1
    <3>2. ToDeliver(b)' = ToDeliver(b)
      BY <1>2, <1>3, <1>5, <2>1, <3>1 DEF ToDeliver
    <3>3. QED
      BY <1>5, <3>2
  <2>2. CASE pc[b] \in Delivering /\ UNCHANGED pos
    BY <1>5, <2>2 DEF ToDeliver
  <2>3. QED
    BY <1>5, <2>1, <2>2
<1>6. CASE /\ pc[b] = "saveOffset" /\ pc'[b] = "receive"
           /\ SaveOffset(b, Current(b) + 1)
           /\ offset' = [offset EXCEPT ![b] = Current(b) + 1]
           /\ UNCHANGED updates /\ pos' = [pos EXCEPT ![b] = @ + 1]
  <2>1. pos'[b] = pos[b] + 1 /\ offset'[b] = Current(b) + 1
    BY <1>1, <1>6
  <2>2. HasStore => stored'[b] = Current(b) + 1
    BY <1>1, <1>6 DEF SaveOffset
  <2>3. pos[b] \in DOMAIN updates[b]
    BY <1>3, <1>6 DEF TypeOK, UpdateInHand
  <2>4. pos[b] \in ToDeliver(b)
    BY <1>2, <1>3, <1>6, <2>3 DEF ToDeliver
  <2>5. ToDeliver(b)' = {i \in ToDeliver(b) : i > pos[b]}
    BY <1>2, <1>3, <1>6, <2>1 DEF ToDeliver
  <2>6. QED
    BY <1>6, <2>1, <2>2, <2>4, <2>5
<1>7. QED
  BY <1>4, <1>5, <1>6, RoundStep

-----------------------------------------------------------------------------
(* A step of a poller preserves the parts of the invariant that speak of   *)
(* its batch.                                                              *)

LEMMA BatchesAscendStep ==
  ASSUME TypeOK, BatchesAscend, NEW b \in Bots, BotStep(b)
  PROVE  BatchesAscend'
<1>1. updates \in [Bots -> Seq(UpdateIds)]
  BY DEF TypeOK, PollerTypeOK
<1>2. CASE UNCHANGED updates
  BY <1>2 DEF BatchesAscend
<1>3. CASE updates' = [updates EXCEPT ![b] = <<>>]
  BY <1>1, <1>3 DEF BatchesAscend
<1>4. ASSUME NEW batch \in Batches(Outstanding(TokenOf[b], offset[b])),
             updates' = [updates EXCEPT ![b] = batch]
      PROVE  BatchesAscend'
  <2>1. \A i, j \in DOMAIN batch : i < j => batch[i] < batch[j]
    BY AnswerProperties
  <2>2. QED
    BY <1>1, <1>4, <2>1 DEF BatchesAscend
<1>5. QED
  BY <1>2, <1>3, <1>4, BatchStep

LEMMA BatchesAheadStep ==
  ASSUME TypeOK, OffsetInv, NEW b \in Bots, BotStep(b)
  PROVE  BatchesAhead'
<1> SUFFICES ASSUME NEW c \in Bots, pc'[c] \in WithBatch,
                    NEW i \in ToDeliver(c)'
             PROVE  updates'[c][i] >= offset'[c]
  BY DEF BatchesAhead
<1>1. CASE c # b
  BY <1>1, OtherBotStep DEF OffsetInv, BatchesAhead
<1>2. CASE c = b
  <2>1. CASE /\ pc[b] = "poll" /\ offset'[b] = offset[b]
             /\ ToDeliver(b)' = DOMAIN updates'[b]
             /\ \E batch \in Batches(Outstanding(TokenOf[b], offset[b])) :
                  updates'[b] = batch
    BY <1>2, <2>1, AnswerProperties
  <2>2. CASE /\ pc[b] \in WithBatch /\ offset'[b] = offset[b]
             /\ ToDeliver(b)' = ToDeliver(b)
             /\ updates'[b] = updates[b]
    BY <1>2, <2>2 DEF OffsetInv, BatchesAhead
  <2>3. CASE /\ offset'[b] = Current(b) + 1 /\ pos[b] \in ToDeliver(b)
             /\ ToDeliver(b)' = {k \in ToDeliver(b) : k > pos[b]}
             /\ updates'[b] = updates[b]
    <3>1. i \in DOMAIN updates[b] /\ pos[b] \in DOMAIN updates[b] /\ i > pos[b]
      BY <1>2, <2>3 DEF ToDeliver
    <3>2. /\ i \in Nat /\ pos[b] \in Nat
          /\ updates[b][i] \in Nat /\ updates[b][pos[b]] \in Nat
      BY <3>1, BatchTypes
    <3>3. updates[b][pos[b]] < updates[b][i]
      BY <3>1, <3>2 DEF OffsetInv, BatchesAscend
    <3>4. QED
      BY <1>2, <2>3, <3>2, <3>3 DEF Current
  <2>4. QED
    BY <1>2, <2>1, <2>2, <2>3, ToDeliverStep
<1>3. QED
  BY <1>1, <1>2

LEMMA BatchNotBehindCommitStep ==
  ASSUME TypeOK, OffsetInv, NEW b \in Bots, BotStep(b)
  PROVE  BatchNotBehindCommit'
<1> SUFFICES ASSUME NEW c \in Bots, HasStore, pc'[c] \in WithBatch,
                    NEW i \in ToDeliver(c)'
             PROVE  updates'[c][i] + 1 >= stored'[c]
  BY DEF BatchNotBehindCommit
<1>1. CASE c # b
  BY <1>1, OtherBotStep DEF OffsetInv, BatchNotBehindCommit
<1>2. CASE c = b
  <2>1. ASSUME pc[b] = "poll", stored'[b] = stored[b],
               ToDeliver(b)' = DOMAIN updates'[b],
               NEW batch \in Batches(Outstanding(TokenOf[b], offset[b])),
               updates'[b] = batch
        PROVE  updates'[c][i] + 1 >= stored'[c]
    <3>1. batch[i] \in pending[TokenOf[b]] /\ batch[i] >= offset[b]
      BY <1>2, <2>1, AnswerProperties
    <3>2. "poll" \in OffsetLoaded
      BY DEF OffsetLoaded
    <3>3. QED
      BY <1>2, <2>1, <3>1, <3>2 DEF OffsetInv, CommitNotAhead
  <2>2. CASE /\ pc[b] \in WithBatch /\ stored'[b] = stored[b]
             /\ ToDeliver(b)' = ToDeliver(b)
             /\ updates'[b] = updates[b]
    BY <1>2, <2>2 DEF OffsetInv, BatchNotBehindCommit
  <2>3. CASE /\ stored'[b] = Current(b) + 1 /\ pos[b] \in ToDeliver(b)
             /\ ToDeliver(b)' = {k \in ToDeliver(b) : k > pos[b]}
             /\ updates'[b] = updates[b]
    <3>1. i \in DOMAIN updates[b] /\ pos[b] \in DOMAIN updates[b] /\ i > pos[b]
      BY <1>2, <2>3 DEF ToDeliver
    <3>2. /\ i \in Nat /\ pos[b] \in Nat
          /\ updates[b][i] \in Nat /\ updates[b][pos[b]] \in Nat
      BY <3>1, BatchTypes
    <3>3. updates[b][pos[b]] < updates[b][i]
      BY <3>1, <3>2 DEF OffsetInv, BatchesAscend
    <3>4. QED
      BY <1>2, <2>3, <3>2, <3>3 DEF Current
  <2>4. QED
    BY <1>2, <2>1, <2>2, <2>3, ToDeliverStep
<1>3. QED
  BY <1>1, <1>2

LEMMA BatchHasOldestStep ==
  ASSUME TypeOK, OffsetInv, NEW b \in Bots, BotStep(b)
  PROVE  BatchHasOldest'
<1> SUFFICES ASSUME NEW c \in Bots, pc'[c] \in WithBatch,
                    NEW i \in ToDeliver(c)', NEW u \in pending'[TokenOf[c]],
                    u >= offset'[c], u < updates'[c][i]
             PROVE  \E j \in ToDeliver(c)' : j < i /\ updates'[c][j] = u
  BY DEF BatchHasOldest
<1>0. u \in pending[TokenOf[c]] /\ u \in Nat
  <2>1. TokenOf[c] \in Tokens
    BY ConfigAssumption
  <2>2. u \in pending[TokenOf[c]]
    BY <2>1, PendingStep
  <2>3. QED
    BY <2>1, <2>2, UpdateIdsAssumption DEF TypeOK, TelegramTypeOK
<1>1. CASE c # b
  BY <1>0, <1>1, OtherBotStep DEF OffsetInv, BatchHasOldest
<1>2. CASE c = b
  <2>1. ASSUME offset'[b] = offset[b], ToDeliver(b)' = DOMAIN updates'[b],
               NEW batch \in Batches(Outstanding(TokenOf[b], offset[b])),
               updates'[b] = batch
        PROVE  \E j \in ToDeliver(c)' : j < i /\ updates'[c][j] = u
    BY <1>0, <1>2, <2>1, AnswerProperties
  <2>2. CASE /\ pc[b] \in WithBatch /\ offset'[b] = offset[b]
             /\ ToDeliver(b)' = ToDeliver(b)
             /\ updates'[b] = updates[b]
    BY <1>0, <1>2, <2>2 DEF OffsetInv, BatchHasOldest
  <2>3. CASE /\ pc[b] = "saveOffset" /\ offset'[b] = Current(b) + 1
             /\ pos[b] \in ToDeliver(b)
             /\ ToDeliver(b)' = {k \in ToDeliver(b) : k > pos[b]}
             /\ updates'[b] = updates[b]
    <3>1. /\ "saveOffset" \in WithBatch
          /\ i \in ToDeliver(b) /\ i \in DOMAIN updates[b]
          /\ pos[b] \in DOMAIN updates[b]
      BY <1>2, <2>3 DEF ToDeliver, WithBatch, Delivering
    <3>2. /\ i \in Nat /\ pos[b] \in Nat /\ offset[b] \in Nat
          /\ Current(b) \in Nat
      BY <3>1, BatchTypes DEF Current
    <3>3. Current(b) >= offset[b]
      BY <2>3, <3>1 DEF OffsetInv, BatchesAhead, Current
    <3>4. u > Current(b) /\ u >= offset[b]
      BY <1>0, <1>2, <2>3, <3>2, <3>3
    <3>5. PICK j \in ToDeliver(b) : j < i /\ updates[b][j] = u
      BY <1>0, <1>2, <2>3, <3>1, <3>4 DEF OffsetInv, BatchHasOldest
    <3>6. j \in Nat /\ j >= pos[b] /\ j # pos[b]
      BY <2>3, <3>2, <3>4, <3>5, <1>0, BatchTypes
      DEF ToDeliver, Current, Delivering
    <3>7. QED
      BY <1>2, <2>3, <3>2, <3>5, <3>6
  <2>4. QED
    BY <1>2, <2>1, <2>2, <2>3, ToDeliverStep
<1>3. QED
  BY <1>1, <1>2

(* What is saved is never below what is stored, and the oldest update that *)
(* Telegram may still give to the poller is not older than that.           *)
LEMMA SavedIsOldest ==
  ASSUME TypeOK, OffsetInv, NEW b \in Bots, pc[b] = "saveOffset"
  PROVE  /\ Current(b) \in Nat /\ Current(b) >= offset[b]
         /\ HasStore => Current(b) + 1 >= stored[b]
         /\ \A u \in pending[TokenOf[b]] : u >= offset[b] => u >= Current(b)
<1>1. /\ pc[b] \in WithBatch /\ pc[b] \in Delivering
      /\ pos[b] \in DOMAIN updates[b]
  BY DEF WithBatch, Delivering, TypeOK, UpdateInHand
<1>2. /\ pos[b] \in Nat /\ pos[b] \in ToDeliver(b) /\ Current(b) \in Nat
      /\ \A j \in ToDeliver(b) : j \in Nat /\ j >= pos[b]
  BY <1>1, BatchTypes DEF ToDeliver, Current
<1>3. /\ Current(b) >= offset[b]
      /\ HasStore => Current(b) + 1 >= stored[b]
  BY <1>1, <1>2 DEF OffsetInv, BatchesAhead, BatchNotBehindCommit, Current
<1>4. ASSUME NEW u \in pending[TokenOf[b]], u >= offset[b]
      PROVE  u >= Current(b)
  <2>1. u \in Nat
    BY ConfigAssumption, UpdateIdsAssumption DEF TypeOK, TelegramTypeOK
  <2>2. ASSUME u < Current(b) PROVE FALSE
    <3>1. \E j \in ToDeliver(b) : j < pos[b] /\ updates[b][j] = u
      BY <1>1, <1>2, <1>4, <2>2 DEF OffsetInv, BatchHasOldest, Current
    <3>2. QED
      BY <1>2, <3>1
  <2>3. QED
    BY <1>2, <2>1, <2>2
<1>5. QED
  BY <1>2, <1>3, <1>4

LEMMA CommitNotAheadStep ==
  ASSUME TypeOK, OffsetInv, NEW b \in Bots, BotStep(b)
  PROVE  CommitNotAhead'
<1> SUFFICES ASSUME NEW c \in Bots, HasStore, pc'[c] \in OffsetLoaded,
                    NEW u \in pending'[TokenOf[c]], u >= offset'[c]
             PROVE  u + 1 >= stored'[c]
  BY DEF CommitNotAhead
<1>0. u \in pending[TokenOf[c]] /\ u \in Nat
  <2>1. TokenOf[c] \in Tokens
    BY ConfigAssumption
  <2>2. u \in pending[TokenOf[c]]
    BY <2>1, PendingStep
  <2>3. QED
    BY <2>1, <2>2, UpdateIdsAssumption DEF TypeOK, TelegramTypeOK
<1>1. CASE c # b
  BY <1>0, <1>1, OtherBotStep DEF OffsetInv, CommitNotAhead
<1>2. CASE c = b
  <2>0. /\ offset \in [Bots -> Nat] /\ stored \in [Bots -> Nat]
    BY DEF TypeOK, PollerTypeOK, StoreTypeOK
  <2>1. CASE UNCHANGED stored /\ offset' = [offset EXCEPT ![b] = stored[b]]
    BY <1>0, <1>2, <2>0, <2>1
  <2>2. CASE pc[b] \in OffsetLoaded /\ UNCHANGED <<offset, stored>>
    BY <1>0, <1>2, <2>2 DEF OffsetInv, CommitNotAhead
  <2>3. CASE /\ pc[b] = "saveOffset" /\ SaveOffset(b, Current(b) + 1)
             /\ \/ UNCHANGED offset
                \/ offset' = [offset EXCEPT ![b] = Current(b) + 1]
    <3>1. stored'[b] = Current(b) + 1
      BY <2>0, <2>3 DEF SaveOffset
    <3>2. u >= Current(b) /\ Current(b) \in Nat
      BY <1>0, <1>2, <2>0, <2>3, SavedIsOldest
    <3>3. QED
      BY <1>0, <1>2, <3>1, <3>2
  <2>4. QED
    BY <1>2, <2>1, <2>2, <2>3, LoadedStep
<1>3. QED
  BY <1>1, <1>2

-----------------------------------------------------------------------------
(* It preserves the parts that speak of the offsets, the metrics and the   *)
(* audit log.                                                              *)

LEMMA OffsetUnsetStep ==
  ASSUME TypeOK, OffsetInv, NEW b \in Bots, BotStep(b)
  PROVE  OffsetUnset' /\ OffsetShown' /\ NothingStored'
<1>1. OffsetUnset'
  <2> SUFFICES ASSUME NEW c \in Bots, pc'[c] \in BeforeOffset
               PROVE  offset'[c] = 0
    BY DEF OffsetUnset
  <2>1. CASE c # b
    BY <2>1, OtherBotStep DEF OffsetInv, OffsetUnset
  <2>2. CASE c = b
    BY <2>2, UnloadedStep DEF OffsetInv, OffsetUnset
  <2>3. QED
    BY <2>1, <2>2
<1>2. OffsetShown'
  BY OffsetChange DEF OffsetInv, OffsetShown
<1>3. NothingStored'
  BY StoreStep
  DEF OffsetInv, NothingStored, storeVars, SaveOffset, LogInteraction
<1>4. QED
  BY <1>1, <1>2, <1>3

LEMMA NothingSeenYetStep ==
  ASSUME TypeOK, OffsetInv, NEW b \in Bots, BotStep(b)
  PROVE  NothingSeenYet'
<1> SUFFICES ASSUME NEW c \in Bots, pc'[c] \in BeforeOffset
             PROVE  lastUpdate'[c] = NoUpdate
  BY DEF NothingSeenYet
<1>1. pc[c] \in BeforeOffset /\ (c = b => pc[b] # "receive")
  BY OtherBotStep, UnloadedStep DEF BeforeOffset
<1>2. lastUpdate'[c] = lastUpdate[c]
  BY <1>1, MetricsStep DEF ObserveUpdate, TypeOK, MetricsTypeOK
<1>3. QED
  BY <1>1, <1>2 DEF OffsetInv, NothingSeenYet

LEMMA SeenArrivedStep ==
  ASSUME TypeOK, DeliveryInv, OffsetInv, NEW b \in Bots, BotStep(b)
  PROVE  SeenArrived'
<1>1. arrived' = arrived
  BY BotSettles
<1>2. CASE UNCHANGED lastUpdate
  BY <1>1, <1>2 DEF OffsetInv, SeenArrived
<1>3. CASE pc[b] = "receive" /\ ObserveUpdate(b, Current(b))
  <2>1. Current(b) \in arrived[TokenOf[b]]
    BY <1>3, CurrentArrived DEF DeliveryInv, Delivering
  <2>2. QED
    BY <1>1, <1>3, <2>1
    DEF OffsetInv, SeenArrived, ObserveUpdate, TypeOK, MetricsTypeOK
<1>4. QED
  BY <1>2, <1>3, MetricsStep

LEMMA InHandLoggedStep ==
  ASSUME TypeOK, OffsetInv, NEW b \in Bots, BotStep(b)
  PROVE  InHandLogged'
<1> SUFFICES ASSUME NEW c \in Bots, HasStore, pc'[c] \in RowWritten
             PROVE  Current(c)' \in logged'[c]
  BY DEF InHandLogged
<1>1. CASE c # b
  BY <1>1, OtherBotStep DEF OffsetInv, InHandLogged, Current
<1>2. CASE c = b
  <2>1. Current(b)' = Current(b)
    BY <1>2, RowStep DEF Current
  <2>2. CASE pc[b] \in RowWritten /\ UNCHANGED storeVars
    BY <1>2, <2>1, <2>2 DEF OffsetInv, InHandLogged, storeVars
  <2>3. CASE LogInteraction(b, Current(b))
    BY <1>2, <2>1, <2>3 DEF LogInteraction, TypeOK, StoreTypeOK
  <2>4. QED
    BY <1>2, <2>2, <2>3, RowStep
<1>3. QED
  BY <1>1, <1>2

(* A save raises what is stored, and never leaves it below the offset in   *)
(* memory; a load takes over what is stored.                               *)
LEMMA OffsetPersistedStep ==
  ASSUME TypeOK, OffsetInv, NEW b \in Bots, BotStep(b)
  PROVE  OffsetPersisted'
<1> SUFFICES ASSUME NEW c \in Bots, HasStore
             PROVE  offset'[c] <= stored'[c]
  BY DEF OffsetPersisted
<1>1. CASE c # b
  BY <1>1, OtherBotStep DEF OffsetInv, OffsetPersisted
<1>2. CASE c = b
  <2>1. /\ offset \in [Bots -> Nat] /\ stored \in [Bots -> Nat]
        /\ offset[b] <= stored[b]
    BY DEF TypeOK, PollerTypeOK, StoreTypeOK, OffsetInv, OffsetPersisted
  <2>2. CASE UNCHANGED offset
    <3>1. \/ stored'[b] = stored[b]
          \/ pc[b] = "saveOffset" /\ stored'[b] = Current(b) + 1
      BY <2>1, StoreStep DEF storeVars, SaveOffset, LogInteraction
    <3>2. QED
      BY <1>2, <2>1, <2>2, <3>1, SavedIsOldest
  <2>3. CASE UNCHANGED stored /\ offset' = [offset EXCEPT ![b] = stored[b]]
    BY <1>2, <2>1, <2>3
  <2>4. CASE /\ pc[b] = "saveOffset" /\ SaveOffset(b, Current(b) + 1)
             /\ offset' = [offset EXCEPT ![b] = Current(b) + 1]
    <3>1. stored'[b] = Current(b) + 1 /\ offset'[b] = Current(b) + 1
      BY <2>1, <2>4 DEF SaveOffset
    <3>2. QED
      BY <1>2, <2>4, <3>1, SavedIsOldest
  <2>5. QED
    BY <2>2, <2>3, <2>4, OffsetChange
<1>3. QED
  BY <1>1, <1>2

LEMMA OffsetAuditedStep ==
  ASSUME TypeOK, OffsetInv, NEW b \in Bots, BotStep(b)
  PROVE  OffsetAudited'
<1>1. Audited(stored', logged')
  <2> SUFFICES ASSUME NEW c \in Bots, stored'[c] > 0
               PROVE  stored'[c] - 1 \in logged'[c]
    BY DEF Audited
  <2>1. stored[c] > 0 => stored[c] - 1 \in logged[c]
    BY DEF OffsetInv, OffsetAudited, Audited
  <2>2. CASE UNCHANGED storeVars
    BY <2>1, <2>2 DEF storeVars
  <2>3. CASE pc[b] = "saveOffset" /\ SaveOffset(b, Current(b) + 1)
    <3>1. CASE c = b /\ HasStore
      <4>1. stored'[b] = Current(b) + 1 /\ logged' = logged
        BY <2>3, <3>1 DEF SaveOffset, TypeOK, StoreTypeOK
      <4>2. Current(b) \in logged[b] /\ Current(b) \in Nat
        BY <2>3, <3>1, SavedIsOldest
        DEF OffsetInv, InHandLogged, RowWritten
      <4>3. QED
        BY <3>1, <4>1, <4>2
    <3>2. CASE ~(c = b /\ HasStore)
      BY <2>1, <2>3, <3>2 DEF SaveOffset, TypeOK, StoreTypeOK
    <3>3. QED
      BY <3>1, <3>2
  <2>4. CASE LogInteraction(b, Current(b))
    BY <2>1, <2>4 DEF LogInteraction, TypeOK, StoreTypeOK
  <2>5. QED
    BY <2>2, <2>3, <2>4, StoreStep
<1>2. Audited(synced', syncedLog')
  BY StoreStep
  DEF OffsetInv, OffsetAudited, storeVars, SaveOffset, LogInteraction
<1>3. QED
  BY <1>1, <1>2 DEF OffsetAudited, Audited

-----------------------------------------------------------------------------
(* The other steps, and the invariant as a whole.                          *)

LEMMA OffsetInit == Init => OffsetInv
<1> SUFFICES ASSUME Init PROVE OffsetInv
  OBVIOUS
<1> USE DEF Init, StoreInit, MetricsInit
<1>1. BatchesAscend
  BY DEF BatchesAscend
<1>2. BatchesAhead /\ BatchNotBehindCommit /\ BatchHasOldest
  BY DEF BatchesAhead, BatchNotBehindCommit, BatchHasOldest, WithBatch,
         Delivering, DeliveryLogs
<1>3. /\ OffsetUnset /\ NothingSeenYet /\ OffsetShown /\ NothingStored
      /\ OffsetPersisted
  BY DEF OffsetUnset, NothingSeenYet, OffsetShown, NothingStored, OffsetPersisted
<1>4. SeenArrived /\ InHandLogged /\ OffsetAudited
  BY DEF SeenArrived, InHandLogged, OffsetAudited, Audited, RowWritten
<1>5. CommitNotAhead
  BY DEF CommitNotAhead, OffsetLoaded, WithBatch, Delivering, DeliveryLogs
<1>6. QED
  BY <1>1, <1>2, <1>3, <1>4, <1>5 DEF OffsetInv

(* A new process has no batch and no offset, and finds an audited one.     *)
LEMMA ProcessEndsOffset ==
  ASSUME TypeOK, OffsetInv, ProcessEnds,
         UNCHANGED storeVars \/ LoseUnsynced
  PROVE  OffsetInv'
<1> USE DEF ProcessEnds, MetricsReset
<1>1. BatchesAscend'
  BY DEF BatchesAscend
<1>2. BatchesAhead' /\ BatchNotBehindCommit' /\ BatchHasOldest'
  BY DEF BatchesAhead, BatchNotBehindCommit, BatchHasOldest, WithBatch,
         Delivering, DeliveryLogs
<1>3. /\ OffsetUnset' /\ NothingSeenYet' /\ OffsetShown' /\ SeenArrived'
      /\ InHandLogged'
  BY DEF OffsetUnset, NothingSeenYet, OffsetShown, SeenArrived, InHandLogged,
         RowWritten
<1>4. CommitNotAhead'
  BY DEF CommitNotAhead, OffsetLoaded, WithBatch, Delivering, DeliveryLogs
<1>5. OffsetPersisted'
  <2>1. stored' \in [Bots -> Nat]
    BY DEF storeVars, LoseUnsynced, TypeOK, StoreTypeOK
  <2>2. QED
    BY <2>1 DEF OffsetPersisted
<1>6. NothingStored' /\ OffsetAudited'
  BY DEF OffsetInv, NothingStored, OffsetAudited, Audited, storeVars,
         LoseUnsynced
<1>7. QED
  BY <1>1, <1>2, <1>3, <1>4, <1>5, <1>6 DEF OffsetInv

(* A new update is newer than what is in a batch and than what is stored.  *)
LEMMA ArriveOffset ==
  ASSUME TypeOK, DeliveryInv, OffsetInv, Arrive
  PROVE  OffsetInv'
<1>1. PICK t \in Tokens, n \in UpdateIds :
        /\ \A v \in arrived[t] : v < n
        /\ arrived' = [arrived EXCEPT ![t] = @ \cup {n}]
        /\ pending' = [pending EXCEPT ![t] = @ \cup {n}]
  BY DEF Arrive, NewUpdate
<1>2. /\ UNCHANGED <<stored, logged, synced, syncedLog>>
      /\ UNCHANGED <<shownOffset, lastUpdate, pc, offset, updates, pos>>
  BY DEF Arrive, storeVars, metricVars, batchVars
<1>3. n \in Nat /\ \A b \in Bots : TokenOf[b] \in Tokens
  BY UpdateIdsAssumption, ConfigAssumption
<1>4. \A x \in Tokens : /\ arrived[x] \subseteq arrived'[x]
                       /\ \A u \in pending'[x] \ pending[x] :
                            u = n /\ \A v \in arrived[x] : v < u
  BY <1>1 DEF TypeOK, TelegramTypeOK
<1>5. /\ BatchesAscend' /\ BatchesAhead' /\ OffsetUnset'
      /\ NothingSeenYet' /\ OffsetShown' /\ InHandLogged' /\ NothingStored' /\ OffsetPersisted'
      /\ OffsetAudited' /\ BatchNotBehindCommit'
  BY <1>2
  DEF OffsetInv, BatchesAscend, BatchesAhead, OffsetUnset, NothingSeenYet,
      OffsetShown, InHandLogged, NothingStored, OffsetPersisted, OffsetAudited, Audited,
      BatchNotBehindCommit, ToDeliver, Current
<1>6. SeenArrived'
  BY <1>2, <1>3, <1>4 DEF OffsetInv, SeenArrived
<1>7. CommitNotAhead'
  <2> SUFFICES ASSUME NEW b \in Bots, HasStore, pc[b] \in OffsetLoaded,
                      NEW u \in pending'[TokenOf[b]], u >= offset[b]
               PROVE  u + 1 >= stored[b]
    BY <1>2 DEF CommitNotAhead
  <2>1. CASE u \in pending[TokenOf[b]]
    BY <2>1 DEF OffsetInv, CommitNotAhead
  <2>2. CASE u \notin pending[TokenOf[b]]
    <3>1. u = n /\ \A v \in arrived[TokenOf[b]] : v < u
      BY <1>3, <1>4, <2>2
    <3>2. \/ stored[b] = 0
          \/ \E v \in arrived[TokenOf[b]] : v < u /\ stored[b] = v + 1
      BY <3>1 DEF DeliveryInv, OffsetsSafe, SafeOffset
    <3>3. arrived[TokenOf[b]] \subseteq Nat
      BY <1>3, UpdateIdsAssumption DEF TypeOK, TelegramTypeOK
    <3>4. QED
      BY <1>3, <3>1, <3>2, <3>3
  <2>3. QED
    BY <2>1, <2>2
<1>8. BatchHasOldest'
  <2> SUFFICES ASSUME NEW b \in Bots, pc[b] \in WithBatch,
                      NEW i \in ToDeliver(b), NEW u \in pending'[TokenOf[b]],
                      u >= offset[b], u < updates[b][i]
               PROVE  \E j \in ToDeliver(b) : j < i /\ updates[b][j] = u
    BY <1>2 DEF BatchHasOldest, ToDeliver
  <2>1. updates[b][i] \in arrived[TokenOf[b]] /\ updates[b][i] \in Nat
    BY BatchTypes DEF DeliveryInv, BatchesComplete, ToDeliver
  <2>2. u \in pending[TokenOf[b]]
    BY <1>3, <1>4, <2>1
  <2>3. QED
    BY <2>2 DEF OffsetInv, BatchHasOldest
<1>9. QED
  BY <1>5, <1>6, <1>7, <1>8 DEF OffsetInv

(* The steps that leave alone all that the invariant speaks of.            *)
LEMMA FrameOffset ==
  ASSUME OffsetInv,
         UNCHANGED <<tgVars, stored, logged, metricVars, pc, offset, batchVars>>,
         \/ UNCHANGED <<synced, syncedLog>>
         \/ synced' = stored /\ syncedLog' = logged
  PROVE  OffsetInv'
<1> USE DEF OffsetInv, tgVars, metricVars, batchVars
<1>1. BatchesAscend' /\ BatchesAhead' /\ OffsetUnset' /\ OffsetShown'
  BY DEF BatchesAscend, BatchesAhead, OffsetUnset, OffsetShown, ToDeliver
<1>2. NothingSeenYet' /\ SeenArrived' /\ InHandLogged' /\ OffsetPersisted'
  BY DEF NothingSeenYet, SeenArrived, InHandLogged, OffsetPersisted, Current
<1>3. NothingStored' /\ OffsetAudited'
  BY DEF NothingStored, OffsetAudited, Audited
<1>4. CommitNotAhead' /\ BatchNotBehindCommit' /\ BatchHasOldest'
  BY DEF CommitNotAhead, BatchNotBehindCommit, BatchHasOldest, ToDeliver
<1>5. QED
  BY <1>1, <1>2, <1>3, <1>4

LEMMA OffsetInvStep ==
  TypeOK /\ DeliveryInv /\ OffsetInv /\ [Next]_vars => OffsetInv'
<1> SUFFICES ASSUME TypeOK, DeliveryInv, OffsetInv, [Next]_vars
             PROVE  OffsetInv'
  OBVIOUS
<1>1. CASE \E b \in Bots : BotStep(b)
  <2>1. PICK b \in Bots : BotStep(b)
    BY <1>1
  <2>2. BatchesAscend' /\ BatchesAhead'
    BY <2>1, BatchesAscendStep, BatchesAheadStep DEF OffsetInv
  <2>3. OffsetUnset' /\ OffsetShown' /\ NothingStored'
    BY <2>1, OffsetUnsetStep
  <2>4. NothingSeenYet' /\ SeenArrived' /\ InHandLogged'
    BY <2>1, NothingSeenYetStep, SeenArrivedStep, InHandLoggedStep
  <2>5. OffsetPersisted' /\ OffsetAudited'
    BY <2>1, OffsetPersistedStep, OffsetAuditedStep
  <2>6. CommitNotAhead' /\ BatchNotBehindCommit' /\ BatchHasOldest'
    BY <2>1, CommitNotAheadStep, BatchNotBehindCommitStep, BatchHasOldestStep
  <2>7. QED
    BY <2>2, <2>3, <2>4, <2>5, <2>6 DEF OffsetInv
<1>2. CASE Exit
  BY <1>2, ProcessEndsOffset DEF Exit
<1>3. CASE Crash
  BY <1>3, ProcessEndsOffset DEF Crash
<1>4. CASE Start
  BY <1>4, FrameOffset DEF Start, storeVars
<1>5. CASE Signal
  BY <1>5, FrameOffset DEF Signal, storeVars
<1>6. CASE Sync
  BY <1>6, FrameOffset DEF Sync, Checkpoint
<1>7. CASE Arrive
  BY <1>7, ArriveOffset
<1>8. CASE UNCHANGED vars
  BY <1>8, FrameOffset DEF vars, storeVars
<1>9. QED
  BY <1>1, <1>2, <1>3, <1>4, <1>5, <1>6, <1>7, <1>8 DEF Next

-----------------------------------------------------------------------------

(* In every reachable state the offsets in memory, in the database, on its *)
(* disk and in the metrics fit together, and what a poller holds or may    *)
(* still get lies at or above them.                                        *)
THEOREM OffsetInvariant == Spec => []OffsetInv
<1>1. Init => OffsetInv
  BY OffsetInit
<1>2. TypeOK /\ DeliveryInv /\ OffsetInv /\ [Next]_vars => OffsetInv'
  BY OffsetInvStep
<1>3. QED
  BY <1>1, <1>2, TypeCorrect, DeliveryInvariant, PTL DEF Spec

(* The committed offset is never behind the one a poller polls with, also  *)
(* when a commit reports an error: a restart repeats, it does not skip.    *)
THEOREM OffsetIsPersisted == Spec => []OffsetPersisted
<1>1. OffsetInv => OffsetPersisted
  BY DEF OffsetInv
<1>2. QED
  BY <1>1, OffsetInvariant, PTL

(* No offset is in the database, or on its disk, without the audit row of  *)
(* the update just below it.                                               *)
THEOREM OffsetIsAudited == Spec => []OffsetAudited
<1>1. OffsetInv => OffsetAudited
  BY DEF OffsetInv
<1>2. QED
  BY <1>1, OffsetInvariant, PTL

(* No step but a power loss takes a committed offset back.                 *)
LEMMA RegressStep ==
  ASSUME TypeOK, OffsetInv, Next, NEW c \in Bots, stored'[c] < stored[c]
  PROVE  up /\ ~up'
<1>1. stored \in [Bots -> Nat]
  BY DEF TypeOK, StoreTypeOK
<1>2. ASSUME NEW b \in Bots, BotStep(b)
      PROVE  FALSE
  <2>1. CASE UNCHANGED stored
    BY <1>1, <2>1
  <2>2. CASE pc[b] = "saveOffset" /\ SaveOffset(b, Current(b) + 1)
    <3>1. CASE c = b /\ HasStore
      <4>1. stored'[b] = Current(b) + 1 /\ Current(b) + 1 >= stored[b]
        BY <1>1, <2>2, <3>1, SavedIsOldest DEF SaveOffset
      <4>2. QED
        BY <1>1, <2>2, <3>1, <4>1, SavedIsOldest
    <3>2. CASE ~(c = b /\ HasStore)
      BY <1>1, <2>2, <3>2 DEF SaveOffset
    <3>3. QED
      BY <3>1, <3>2
  <2>3. QED
    BY <1>2, <2>1, <2>2, StoreStep DEF storeVars, LogInteraction
<1>3. CASE Exit \/ Start \/ Signal \/ Arrive \/ Sync
  BY <1>1, <1>3 DEF Exit, Start, Signal, Arrive, Sync, Checkpoint, storeVars
<1>4. CASE Crash
  BY <1>4 DEF Crash, ProcessEnds
<1>5. QED
  BY <1>2, <1>3, <1>4 DEF Next

(* SaveOffset overwrites whatever is there, and a save may commit and fail *)
(* and be repeated; still a committed offset only goes back by a crash.    *)
THEOREM OffsetOnlyGrows == Spec => OffsetNeverRegresses
<1>1. TypeOK /\ OffsetInv /\ [Next]_vars =>
        [\A b \in Bots : stored'[b] < stored[b] => up /\ ~up']_vars
  BY RegressStep
<1>2. QED
  BY <1>1, TypeCorrect, OffsetInvariant, PTL DEF Spec, OffsetNeverRegresses

(* deleteWebhook is called before a poller has seen anything, and nobody   *)
(* else drops updates.                                                     *)
LEMMA DropStep ==
  ASSUME TypeOK, OffsetInv, Next, NEW t \in Tokens, dropped'[t] # dropped[t]
  PROVE  \E b \in Bots : /\ TokenOf[b] = t /\ DropPending[b]
                         /\ lastUpdate[b] = NoUpdate
<1>1. ASSUME NEW b \in Bots, BotStep(b)
      PROVE  /\ TokenOf[b] = t /\ DropPending[b]
             /\ lastUpdate[b] = NoUpdate
  <2>1. /\ pc[b] = "deleteWebhook"
        /\ RemoveWebhook(TokenOf[b], DropPending[b])
    BY <1>1, TelegramStep DEF tgVars, ConfirmBelow
  <2>2. TokenOf[b] = t /\ DropPending[b]
    BY <2>1 DEF RemoveWebhook, TypeOK, TelegramTypeOK
  <2>3. lastUpdate[b] = NoUpdate
    BY <2>1 DEF OffsetInv, NothingSeenYet, BeforeOffset
  <2>4. QED
    BY <2>2, <2>3
<1>2. CASE Exit \/ Start \/ Signal \/ Crash \/ Arrive \/ Sync
  BY <1>2 DEF Exit, Start, Signal, Crash, Arrive, Sync, NewUpdate, tgVars
<1>3. QED
  BY <1>1, <1>2 DEF Next

(* A poller at work drops nothing, whatever it has to retry.               *)
THEOREM DropsAtStart == Spec => DropsOnlyAtStart
<1>1. TypeOK /\ OffsetInv /\ [Next]_vars =>
        [\A t \in Tokens : dropped'[t] # dropped[t] =>
           \E b \in Bots : /\ TokenOf[b] = t /\ DropPending[b]
                           /\ lastUpdate[b] = NoUpdate]_vars
  BY DropStep
<1>2. QED
  BY <1>1, TypeCorrect, OffsetInvariant, PTL DEF Spec, DropsOnlyAtStart

(* When /healthz reports no lag for a bot, the newest update that its      *)
(* poller saw is settled and its offset is saved.                          *)
THEOREM LagIsHonest == Spec => []LagHonest
<1>1. TypeOK /\ DeliveryInv /\ OffsetInv => LagHonest
  <2> SUFFICES ASSUME TypeOK, DeliveryInv, OffsetInv, NEW b \in Bots,
                      lastUpdate[b] # NoUpdate, Lag(b) = 0
               PROVE  /\ Settled(TokenOf[b], lastUpdate[b])
                      /\ HasStore => stored[b] > lastUpdate[b]
    BY DEF LagHonest
  <2>1. /\ lastUpdate[b] \in Nat /\ offset[b] \in Nat /\ stored[b] \in Nat
        /\ shownOffset[b] = offset[b]
    BY DEF TypeOK, MetricsTypeOK, PollerTypeOK, StoreTypeOK, OffsetInv,
           OffsetShown
  <2>2. lastUpdate[b] < offset[b]
    BY <2>1 DEF Lag
  <2>3. lastUpdate[b] \in arrived[TokenOf[b]]
    BY DEF OffsetInv, SeenArrived
  <2>4. Settled(TokenOf[b], lastUpdate[b])
    BY <2>1, <2>2, <2>3 DEF DeliveryInv, OffsetsSafe, SafeOffset
  <2>5. HasStore => offset[b] <= stored[b]
    BY DEF OffsetInv, OffsetPersisted
  <2>6. QED
    BY <2>1, <2>2, <2>4, <2>5
<1>2. QED
  BY <1>1, TypeCorrect, DeliveryInvariant, OffsetInvariant, PTL

=============================================================================
