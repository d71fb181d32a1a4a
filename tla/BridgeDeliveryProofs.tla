------------------------- MODULE BridgeDeliveryProofs -------------------------
(***************************************************************************)
(* The bridge loses no update and delivers in order: DeliveryInv is        *)
(* inductive, it implies NoLoss and InOrder, and with it every step of the *)
(* bridge is a step of AtLeastOnce.                                        *)
(***************************************************************************)
EXTENDS BridgeProofs

-----------------------------------------------------------------------------
(* What a step of a poller can do to its own variables.                    *)

(* The offset is read from the store or set beyond the update in hand.     *)
LEMMA OffsetStep ==
  ASSUME NEW b \in Bots, BotStep(b)
  PROVE  \/ UNCHANGED offset
         \/ pc[b] = "loadOffset" /\ offset' = [offset EXCEPT ![b] = stored[b]]
         \/ /\ pc[b] = "saveOffset"
            /\ offset' = [offset EXCEPT ![b] = Current(b) + 1]
  BY DEF BotStep, EnsurePollingMode, Poll, DeliverUpdate, At, DeleteWebhookOk,
      DeleteWebhookFails, LogDeleteError, LoadOffset, LoadOffsetFails,
      StopPolling, GetUpdatesOk, GetUpdatesFails, LogPollError, LogPollOk,
      Receive, ReceiveMalformed, PostAnswered, PostFails, ReadBodyFails,
      LogResponseError, LogResponse, CallMethodAnswered, CallMethodFails,
      LogMethodError, Log, LogFails, Wake, SaveOffsetOk, SaveOffsetFails,
      ReportFailure, LoadedOffset, NextOffset

(* A batch is what Telegram answered to a poll, and it is never changed.   *)
LEMMA BatchStep ==
  ASSUME NEW b \in Bots, BotStep(b)
  PROVE  \/ UNCHANGED updates
         \/ updates' = [updates EXCEPT ![b] = <<>>]
         \/ /\ UNCHANGED <<handled, dropped>>
            /\ \E batch \in Batches(Outstanding(TokenOf[b], offset[b])) :
                 updates' = [updates EXCEPT ![b] = batch]
  BY DEF BotStep, EnsurePollingMode, Poll, DeliverUpdate, At, DeleteWebhookOk,
      DeleteWebhookFails, LogDeleteError, LoadOffset, LoadOffsetFails,
      StopPolling, GetUpdatesOk, GetUpdatesFails, LogPollError, LogPollOk,
      Receive, ReceiveMalformed, PostAnswered, PostFails, ReadBodyFails,
      LogResponseError, LogResponse, CallMethodAnswered, CallMethodFails,
      LogMethodError, Log, LogFails, Wake, SaveOffsetOk, SaveOffsetFails,
      ReportFailure, batchVars, Retry, LeaveBatch, Token, RequestOffset,
      ConfirmBelow, histVars

(* The update in hand is the first of a batch, or the next one after a     *)
(* save.                                                                   *)
LEMMA PositionStep ==
  ASSUME PollerTypeOK, NEW b \in Bots, BotStep(b), pc'[b] \in Delivering
  PROVE  /\ UNCHANGED updates
         /\ \/ UNCHANGED pos /\ pc[b] \in Delivering
            \/ pos' = [pos EXCEPT ![b] = 1]
            \/ pos' = [pos EXCEPT ![b] = @ + 1] /\ pc[b] = "saveOffset"
  BY DEF BotStep, EnsurePollingMode, Poll, DeliverUpdate, At, DeleteWebhookOk,
      DeleteWebhookFails, LogDeleteError, LoadOffset, LoadOffsetFails,
      StopPolling, GetUpdatesOk, GetUpdatesFails, LogPollError, LogPollOk,
      Receive, ReceiveMalformed, PostAnswered, PostFails, ReadBodyFails,
      LogResponseError, LogResponse, CallMethodAnswered, CallMethodFails,
      LogMethodError, Log, LogFails, Wake, SaveOffsetOk, SaveOffsetFails,
      ReportFailure, PollerTypeOK, batchVars, Retry, LeaveBatch, FallAsleep,
      Goto, Delivering, DeliveryLogs, FatalLogs, Abort, AfterLog

(* deliverUpdate is bound to succeed only after the update was handled.    *)
LEMMA DeliveredStep ==
  ASSUME PollerTypeOK, NEW b \in Bots, BotStep(b), Delivered(b)'
  PROVE  /\ UNCHANGED <<updates, pos>>
         /\ Delivered(b) \/ (pc[b] \in {"post", "callMethod"} /\ Handle(b))
  BY DEF BotStep, EnsurePollingMode, Poll, DeliverUpdate, At, DeleteWebhookOk,
      DeleteWebhookFails, LogDeleteError, LoadOffset, LoadOffsetFails,
      StopPolling, GetUpdatesOk, GetUpdatesFails, LogPollError, LogPollOk,
      Receive, ReceiveMalformed, PostAnswered, PostFails, ReadBodyFails,
      LogResponseError, LogResponse, CallMethodAnswered, CallMethodFails,
      LogMethodError, Log, LogFails, Wake, SaveOffsetOk, SaveOffsetFails,
      ReportFailure, PollerTypeOK, Delivered, batchVars, Retry, LeaveBatch,
      FallAsleep, Goto, SetOutcome, Abort, AfterLog, MethodReplies, Errors

(* A poller moves itself only.                                             *)
LEMMA OthersStep ==
  ASSUME PollerTypeOK, NEW b \in Bots, BotStep(b), NEW c \in Bots, c # b
  PROVE  /\ pc'[c] = pc[c] /\ offset'[c] = offset[c]
         /\ updates'[c] = updates[c] /\ pos'[c] = pos[c]
         /\ outcome'[c] = outcome[c]
  BY DEF BotStep, EnsurePollingMode, Poll, DeliverUpdate, At, DeleteWebhookOk,
      DeleteWebhookFails, LogDeleteError, LoadOffset, LoadOffsetFails,
      StopPolling, GetUpdatesOk, GetUpdatesFails, LogPollError, LogPollOk,
      Receive, ReceiveMalformed, PostAnswered, PostFails, ReadBodyFails,
      LogResponseError, LogResponse, CallMethodAnswered, CallMethodFails,
      LogMethodError, Log, LogFails, Wake, SaveOffsetOk, SaveOffsetFails,
      ReportFailure, PollerTypeOK, batchVars, Retry, LeaveBatch, FallAsleep,
      Goto, SetOutcome, Abort

-----------------------------------------------------------------------------
(* What is settled stays settled.                                          *)

LEMMA BotSettles ==
  ASSUME TypeOK, NEW b \in Bots, BotStep(b)
  PROVE  /\ arrived' = arrived
         /\ \A t \in Tokens : dropped[t] \subseteq dropped'[t]
         /\ \A c \in Bots : handled[c] \subseteq handled'[c]
         /\ \A t \in Tokens : \A u : Settled(t, u) => Settled(t, u)'
<1>1. arrived' = arrived
  BY TelegramStep DEF tgVars, RemoveWebhook, ConfirmBelow
<1>2. \A t \in Tokens : dropped[t] \subseteq dropped'[t]
  <2>1. CASE dropped' = dropped
    BY <2>1
  <2>2. CASE RemoveWebhook(TokenOf[b], DropPending[b])
    BY <2>2 DEF RemoveWebhook, TypeOK, TelegramTypeOK
  <2>3. QED
    BY <2>1, <2>2, TelegramStep DEF tgVars, ConfirmBelow
<1>3. \A c \in Bots : handled[c] \subseteq handled'[c]
  BY HistoryStep DEF Handle, TypeOK, HistoryTypeOK
<1>4. \A t \in Tokens : \A u : Settled(t, u) => Settled(t, u)'
  BY <1>2, <1>3 DEF Settled
<1>5. QED
  BY <1>1, <1>2, <1>3, <1>4

(* An offset that is safe stays safe,                                      *)
LEMMA SafeOffsetStays ==
  ASSUME NEW t \in Tokens, NEW o, SafeOffset(t, o), arrived' = arrived,
         \A u : Settled(t, u) => Settled(t, u)'
  PROVE  SafeOffset(t, o)'
  BY DEF SafeOffset

(* The parts of the invariant give InOrder.                                *)
LEMMA InvInOrder ==
  ASSUME TypeOK, DeliveryInv
  PROVE  InOrder
<1> SUFFICES ASSUME NEW b \in Bots, pc[b] \in Delivering,
                    NEW v \in arrived[TokenOf[b]], v < Current(b)
             PROVE  Settled(TokenOf[b], v)
  BY DEF InOrder
<1>1. pos[b] \in DOMAIN updates[b]
  BY DEF TypeOK, UpdateInHand
<1>2. \/ Settled(TokenOf[b], v)
      \/ \E j \in DOMAIN updates[b] : j < pos[b] /\ updates[b][j] = v
  BY <1>1 DEF DeliveryInv, BatchesComplete, Current
<1>3. QED
  BY <1>2 DEF DeliveryInv, PrefixSettled

(* The update in hand has arrived.                                         *)
LEMMA CurrentArrived ==
  ASSUME TypeOK, BatchesComplete, NEW b \in Bots, pc[b] \in Delivering
  PROVE  Current(b) \in arrived[TokenOf[b]]
  BY DEF TypeOK, UpdateInHand, BatchesComplete, Current

-----------------------------------------------------------------------------
(* A step of a poller preserves the parts of the invariant.                *)

(* The offset after a delivered update is safe.                            *)
LEMMA NextOffsetSafe ==
  ASSUME TypeOK, DeliveryInv, NEW b \in Bots, pc[b] = "saveOffset"
  PROVE  SafeOffset(TokenOf[b], Current(b) + 1)
<1>1. pc[b] \in Delivering
  BY DEF Delivering
<1>2. Current(b) \in arrived[TokenOf[b]] /\ Settled(TokenOf[b], Current(b))
  BY <1>1, CurrentArrived DEF DeliveryInv, DeliveredIsSettled, Delivered
<1>3. arrived[TokenOf[b]] \subseteq Nat
  BY ConfigAssumption, UpdateIdsAssumption DEF TypeOK, TelegramTypeOK
<1>4. \A u \in arrived[TokenOf[b]] :
        u < Current(b) => Settled(TokenOf[b], u)
  BY <1>1, InvInOrder DEF InOrder
<1>5. ASSUME NEW u \in arrived[TokenOf[b]], u < Current(b) + 1
      PROVE  Settled(TokenOf[b], u)
  <2>1. u = Current(b) \/ u < Current(b)
    BY <1>2, <1>3, <1>5
  <2>2. QED
    BY <1>2, <1>4, <2>1
<1>6. QED
  BY <1>2, <1>5 DEF SafeOffset

LEMMA OffsetsSafeStep ==
  ASSUME TypeOK, DeliveryInv, NEW b \in Bots, BotStep(b)
  PROVE  OffsetsSafe'
<1> SUFFICES ASSUME NEW c \in Bots
             PROVE  /\ SafeOffset(TokenOf[c], offset[c])'
                    /\ SafeOffset(TokenOf[c], stored[c])'
                    /\ SafeOffset(TokenOf[c], synced[c])'
  BY DEF OffsetsSafe
<1>1. TokenOf[c] \in Tokens
  BY ConfigAssumption
<1>2. \A o : SafeOffset(TokenOf[c], o) => SafeOffset(TokenOf[c], o)'
  BY <1>1, BotSettles, SafeOffsetStays
<1>3. /\ SafeOffset(TokenOf[c], offset[c])
      /\ SafeOffset(TokenOf[c], stored[c])
      /\ SafeOffset(TokenOf[c], synced[c])
  BY DEF DeliveryInv, OffsetsSafe
<1>4. SafeOffset(TokenOf[c], offset'[c])
  <2>1. \/ offset'[c] = offset[c]
        \/ offset'[c] = stored[c]
        \/ c = b /\ pc[b] = "saveOffset" /\ offset'[c] = Current(b) + 1
    BY OffsetStep DEF TypeOK, PollerTypeOK
  <2>2. QED
    BY <1>3, <2>1, NextOffsetSafe
<1>5. SafeOffset(TokenOf[c], stored'[c])
  <2>1. \/ stored'[c] = stored[c]
        \/ c = b /\ pc[b] = "saveOffset" /\ stored'[c] = Current(b) + 1
    BY StoreStep DEF TypeOK, StoreTypeOK, storeVars, SaveOffset, LogInteraction
  <2>2. QED
    BY <1>3, <2>1, NextOffsetSafe
<1>6. SafeOffset(TokenOf[c], synced'[c])
  BY <1>3, StoreStep DEF storeVars, SaveOffset, LogInteraction
<1>7. QED
  BY <1>2, <1>4, <1>5, <1>6 DEF SafeOffset

(* What Telegram answers to a safe offset has no gaps: an update that is   *)
(* missing is below the offset, forgotten, or newer.                       *)
LEMMA AnswerComplete ==
  ASSUME TypeOK, DeliveryInv, NEW t \in Tokens, NEW o \in Nat,
         SafeOffset(t, o), NEW batch \in Batches(Outstanding(t, o)),
         NEW i \in DOMAIN batch
  PROVE  /\ batch[i] \in arrived[t]
         /\ \A u \in arrived[t] : u < batch[i] =>
              \/ Settled(t, u)
              \/ \E j \in DOMAIN batch : j < i /\ batch[j] = u
<1>1. /\ Outstanding(t, o) \in SUBSET UpdateIds
      /\ Outstanding(t, o) \subseteq arrived[t]
      /\ arrived[t] \subseteq Nat
  BY UpdateIdsAssumption
  DEF TypeOK, TelegramTypeOK, Outstanding, DeliveryInv, PendingArrived
<1>2. /\ batch \in Seq(UpdateIds)
      /\ \A k \in DOMAIN batch : batch[k] \in Outstanding(t, o)
      /\ \A k, l \in DOMAIN batch : k < l => batch[k] < batch[l]
      /\ \A u \in Outstanding(t, o) : (\A k \in DOMAIN batch : batch[k] # u)
                          => \A k \in DOMAIN batch : batch[k] < u
  BY <1>1, BatchProperties
<1>3. batch[i] \in arrived[t]
  BY <1>1, <1>2
<1>4. ASSUME NEW u \in arrived[t], u < batch[i]
      PROVE  \/ Settled(t, u)
             \/ \E j \in DOMAIN batch : j < i /\ batch[j] = u
  <2>1. CASE u < o
    BY <1>1, <2>1 DEF SafeOffset
  <2>2. CASE u \notin pending[t]
    BY <2>2 DEF DeliveryInv, NoLoss
  <2>3. CASE u >= o /\ u \in pending[t]
    <3>1. u \in Outstanding(t, o)
      BY <2>3 DEF Outstanding
    <3>2. PICK j \in DOMAIN batch : batch[j] = u
      BY <1>1, <1>2, <1>3, <1>4, <3>1
    <3>3. i \in Nat /\ j \in Nat
      BY <1>2
    <3>4. j < i
      <4>1. CASE i < j
        BY <1>1, <1>2, <1>3, <1>4, <3>2, <4>1
      <4>2. CASE i = j
        BY <1>1, <1>3, <1>4, <3>2, <4>2
      <4>3. QED
        BY <3>3, <4>1, <4>2
    <3>5. QED
      BY <3>2, <3>4
  <2>4. QED
    BY <1>1, <2>1, <2>2, <2>3
<1>5. QED
  BY <1>3, <1>4

LEMMA BatchesCompleteStep ==
  ASSUME TypeOK, DeliveryInv, NEW b \in Bots, BotStep(b)
  PROVE  BatchesComplete'
<1> DEFINE Complete(batch, t) ==
      \A i \in DOMAIN batch :
        /\ batch[i] \in arrived[t]
        /\ \A u \in arrived[t] : u < batch[i] =>
             Settled(t, u) \/ \E j \in DOMAIN batch : j < i /\ batch[j] = u
<1> SUFFICES ASSUME NEW c \in Bots
             PROVE  Complete(updates[c], TokenOf[c])'
  BY DEF BatchesComplete
<1>1. TokenOf[c] \in Tokens
  BY ConfigAssumption
<1>2. \A batch : Complete(batch, TokenOf[c]) => Complete(batch, TokenOf[c])'
  BY <1>1, BotSettles
<1>3. Complete(updates'[c], TokenOf[c])
  <2>1. CASE UNCHANGED updates
    BY <2>1 DEF DeliveryInv, BatchesComplete
  <2>2. CASE updates' = [updates EXCEPT ![b] = <<>>]
    BY <2>2 DEF TypeOK, PollerTypeOK, DeliveryInv, BatchesComplete
  <2>3. ASSUME NEW batch \in Batches(Outstanding(TokenOf[b], offset[b])),
               updates' = [updates EXCEPT ![b] = batch]
        PROVE  Complete(updates'[c], TokenOf[c])
    <3>1. offset[b] \in Nat /\ SafeOffset(TokenOf[b], offset[b])
      BY DEF TypeOK, PollerTypeOK, DeliveryInv, OffsetsSafe
    <3>2. TokenOf[b] \in Tokens
      BY ConfigAssumption
    <3>3. Complete(batch, TokenOf[b])
      BY <3>1, <3>2, AnswerComplete
    <3>4. CASE c = b
      BY <2>3, <3>3, <3>4 DEF TypeOK, PollerTypeOK
    <3>5. CASE c # b
      BY <2>3, <3>5 DEF TypeOK, PollerTypeOK, DeliveryInv, BatchesComplete
    <3>6. QED
      BY <3>4, <3>5
  <2>4. QED
    BY <2>1, <2>2, <2>3, BatchStep
<1>4. QED
  BY <1>2, <1>3

LEMMA PrefixSettledStep ==
  ASSUME TypeOK, DeliveryInv, NEW b \in Bots, BotStep(b)
  PROVE  PrefixSettled'
<1> SUFFICES ASSUME NEW c \in Bots, pc'[c] \in Delivering,
                    NEW j \in DOMAIN updates'[c], j < pos'[c]
             PROVE  Settled(TokenOf[c], updates[c][j])'
  BY DEF PrefixSettled
<1>1. TokenOf[c] \in Tokens
  BY ConfigAssumption
<1>2. \A u : Settled(TokenOf[c], u) => Settled(TokenOf[c], u)'
  BY <1>1, BotSettles
<1>3. PollerTypeOK
  BY DEF TypeOK
<1> SUFFICES Settled(TokenOf[c], updates'[c][j])
  BY <1>2 DEF Settled
<1>4. CASE c # b
  BY <1>3, <1>4, OthersStep DEF DeliveryInv, PrefixSettled
<1>5. CASE c = b
  <2>1. updates' = updates /\ updates[b] \in Seq(UpdateIds)
    BY <1>3, <1>5, PositionStep DEF PollerTypeOK
  <2>2. j \in Nat /\ j >= 1 /\ pos[b] \in Nat
    BY <1>3, <1>5, <2>1 DEF PollerTypeOK
  <2>3. CASE UNCHANGED pos /\ pc[b] \in Delivering
    BY <1>5, <2>1, <2>3 DEF DeliveryInv, PrefixSettled
  <2>4. CASE pos' = [pos EXCEPT ![b] = 1]
    BY <1>3, <1>5, <2>2, <2>4 DEF PollerTypeOK
  <2>5. CASE pos' = [pos EXCEPT ![b] = @ + 1] /\ pc[b] = "saveOffset"
    <3>1. pos'[b] = pos[b] + 1
      BY <1>3, <2>5 DEF PollerTypeOK
    <3>2. j < pos[b] \/ j = pos[b]
      BY <1>5, <2>2, <3>1
    <3>3. CASE j < pos[b]
      BY <1>5, <2>1, <2>5, <3>3
      DEF DeliveryInv, PrefixSettled, Delivering
    <3>4. CASE j = pos[b]
      BY <1>5, <2>1, <2>5, <3>4
      DEF DeliveryInv, DeliveredIsSettled, Delivered, Current
    <3>5. QED
      BY <3>2, <3>3, <3>4
  <2>6. QED
    BY <1>3, <1>5, <2>3, <2>4, <2>5, PositionStep
<1>6. QED
  BY <1>4, <1>5

LEMMA DeliveredIsSettledStep ==
  ASSUME TypeOK, DeliveryInv, NEW b \in Bots, BotStep(b)
  PROVE  DeliveredIsSettled'
<1> SUFFICES ASSUME NEW c \in Bots, Delivered(c)'
             PROVE  Settled(TokenOf[c], Current(c))'
  BY DEF DeliveredIsSettled
<1>1. TokenOf[c] \in Tokens
  BY ConfigAssumption
<1>2. \A u : Settled(TokenOf[c], u) => Settled(TokenOf[c], u)'
  BY <1>1, BotSettles
<1>3. PollerTypeOK
  BY DEF TypeOK
<1>4. Current(c)' = Current(c)
  <2>1. CASE c # b
    BY <1>3, <2>1, OthersStep DEF Current
  <2>2. CASE c = b
    BY <1>3, <2>2, DeliveredStep DEF Current
  <2>3. QED
    BY <2>1, <2>2
<1>5. CASE Delivered(c)
  BY <1>2, <1>4, <1>5 DEF DeliveryInv, DeliveredIsSettled, Settled
<1>6. CASE c = b /\ Handle(b)
  BY <1>4, <1>6 DEF Handle, Settled, TypeOK, HistoryTypeOK
<1>7. CASE c # b
  <2>1. Delivered(c)
    BY <1>3, <1>7, OthersStep DEF Delivered
  <2>2. QED
    BY <1>5, <2>1
<1>8. QED
  BY <1>3, <1>5, <1>6, <1>7, DeliveredStep

(* What a poller makes Telegram forget is settled, or settled thereby.     *)
LEMMA NoLossStep ==
  ASSUME TypeOK, DeliveryInv, NEW b \in Bots, BotStep(b)
  PROVE  PendingArrived' /\ NoLoss'
<1>1. TokenOf[b] \in Tokens
  BY ConfigAssumption
<1>2. \A t \in Tokens : \A u : Settled(t, u) => Settled(t, u)'
  BY BotSettles
<1>3. CASE UNCHANGED tgVars
  BY <1>2, <1>3 DEF DeliveryInv, PendingArrived, NoLoss, tgVars
<1>4. CASE RemoveWebhook(TokenOf[b], DropPending[b])
  <2>1. PendingArrived'
    BY <1>4 DEF RemoveWebhook, DeliveryInv, PendingArrived, TypeOK,
                TelegramTypeOK
  <2>2. ASSUME NEW t \in Tokens, NEW u \in arrived[t] \ pending'[t]
        PROVE  Settled(t, u)'
    <3>1. CASE u \notin pending[t]
      BY <1>2, <3>1 DEF DeliveryInv, NoLoss
    <3>2. CASE u \in pending[t]
      BY <1>4, <2>2, <3>2
      DEF RemoveWebhook, Settled, TypeOK, TelegramTypeOK
    <3>3. QED
      BY <3>1, <3>2
  <2>3. QED
    BY <1>4, <2>1, <2>2 DEF NoLoss, RemoveWebhook
<1>5. CASE ConfirmBelow(TokenOf[b], offset[b])
  <2>1. PendingArrived'
    BY <1>5 DEF ConfirmBelow, Outstanding, DeliveryInv, PendingArrived, TypeOK,
                TelegramTypeOK
  <2>2. ASSUME NEW t \in Tokens, NEW u \in arrived[t] \ pending'[t]
        PROVE  Settled(t, u)
    <3>1. CASE u \notin pending[t]
      BY <3>1 DEF DeliveryInv, NoLoss
    <3>2. CASE u \in pending[t]
      <4>1. t = TokenOf[b] /\ ~(u >= offset[b])
        BY <1>5, <2>2, <3>2
        DEF ConfirmBelow, Outstanding, TypeOK, TelegramTypeOK
      <4>2. u \in Nat /\ offset[b] \in Nat
        BY UpdateIdsAssumption DEF TypeOK, TelegramTypeOK, PollerTypeOK
      <4>3. u < offset[b] /\ offset[b] # 0
        BY <4>1, <4>2
      <4>4. SafeOffset(t, offset[b])
        BY <4>1 DEF DeliveryInv, OffsetsSafe
      <4>5. QED
        BY <4>3, <4>4 DEF SafeOffset
    <3>3. QED
      BY <3>1, <3>2
  <2>3. QED
    BY <1>2, <1>5, <2>1, <2>2 DEF NoLoss, ConfirmBelow
<1>6. QED
  BY <1>3, <1>4, <1>5, TelegramStep

-----------------------------------------------------------------------------
(* The other steps, and the invariant as a whole.                          *)

LEMMA DeliveryInit == Init => DeliveryInv
<1> SUFFICES ASSUME Init PROVE DeliveryInv
  OBVIOUS
<1>1. OffsetsSafe
  BY ConfigAssumption DEF Init, StoreInit, OffsetsSafe, SafeOffset
<1>2. BatchesComplete
  BY DEF Init, BatchesComplete
<1>3. PrefixSettled /\ DeliveredIsSettled
  BY DEF Init, PrefixSettled, Delivering, DeliveryLogs, DeliveredIsSettled,
         Delivered
<1>4. PendingArrived /\ NoLoss
  BY DEF Init, TelegramInit, PendingArrived, NoLoss
<1>5. QED
  BY <1>1, <1>2, <1>3, <1>4 DEF DeliveryInv

(* A new process starts from offset 0 and then from what is stored, which  *)
(* is safe also after a power loss.                                        *)
LEMMA ProcessEndsKeeps ==
  ASSUME TypeOK, DeliveryInv, ProcessEnds, UNCHANGED <<tgVars, handled>>,
         UNCHANGED storeVars \/ LoseUnsynced
  PROVE  DeliveryInv'
<1>1. \A t, u : Settled(t, u)' <=> Settled(t, u)
  BY DEF Settled, tgVars
<1>2. \A t, o : SafeOffset(t, o) => SafeOffset(t, o)'
  BY <1>1 DEF SafeOffset, tgVars
<1>3. OffsetsSafe'
  <2> SUFFICES ASSUME NEW c \in Bots
               PROVE  /\ SafeOffset(TokenOf[c], offset[c])'
                      /\ SafeOffset(TokenOf[c], stored[c])'
                      /\ SafeOffset(TokenOf[c], synced[c])'
    BY DEF OffsetsSafe
  <2>1. offset'[c] = 0
    BY DEF ProcessEnds
  <2>2. /\ SafeOffset(TokenOf[c], stored'[c])
        /\ SafeOffset(TokenOf[c], synced'[c])
    BY DEF DeliveryInv, OffsetsSafe, storeVars, LoseUnsynced
  <2>3. QED
    BY <1>2, <2>1, <2>2 DEF SafeOffset
<1>4. BatchesComplete'
  BY DEF ProcessEnds, BatchesComplete
<1>5. PrefixSettled' /\ DeliveredIsSettled'
  BY DEF ProcessEnds, PrefixSettled, Delivering, DeliveryLogs,
         DeliveredIsSettled, Delivered
<1>6. PendingArrived' /\ NoLoss'
  BY <1>1 DEF DeliveryInv, PendingArrived, NoLoss, tgVars
<1>7. QED
  BY <1>3, <1>4, <1>5, <1>6 DEF DeliveryInv

(* A new update is newer than all others, so no offset, batch or update in *)
(* hand has it below.                                                      *)
LEMMA ArriveKeeps ==
  ASSUME TypeOK, DeliveryInv, Arrive
  PROVE  DeliveryInv'
<1> USE DEF Arrive, NewUpdate, storeVars, batchVars, histVars
<1>1. PICK t \in Tokens, n \in UpdateIds :
        /\ \A v \in arrived[t] : v < n
        /\ arrived' = [arrived EXCEPT ![t] = @ \cup {n}]
        /\ pending' = [pending EXCEPT ![t] = @ \cup {n}]
        /\ dropped' = dropped
  OBVIOUS
<1>2. \A x, u : Settled(x, u)' <=> Settled(x, u)
  BY <1>1 DEF Settled
<1>3. \A x \in Tokens : /\ arrived[x] \subseteq Nat
                       /\ arrived[x] \subseteq arrived'[x]
                       /\ \A u \in arrived'[x] \ arrived[x] :
                            u = n /\ \A v \in arrived[x] : v < u
  <2>1. arrived \in [Tokens -> SUBSET UpdateIds]
    BY DEF TypeOK, TelegramTypeOK
  <2> SUFFICES ASSUME NEW x \in Tokens
               PROVE  /\ arrived[x] \subseteq Nat
                      /\ arrived[x] \subseteq arrived'[x]
                      /\ \A u \in arrived'[x] \ arrived[x] :
                           u = n /\ \A v \in arrived[x] : v < u
    OBVIOUS
  <2>2. arrived[x] \subseteq Nat
    BY <2>1, UpdateIdsAssumption
  <2>3. CASE x = t
    <3>1. arrived'[x] = arrived[x] \cup {n}
      BY <1>1, <2>1, <2>3
    <3>2. QED
      BY <1>1, <2>2, <2>3, <3>1
  <2>4. CASE x # t
    <3>1. arrived'[x] = arrived[x]
      BY <1>1, <2>1, <2>4
    <3>2. QED
      BY <2>2, <3>1
  <2>5. QED
    BY <2>3, <2>4
<1>4. n \in Nat /\ n # 0
  BY UpdateIdsAssumption
<1>5. ASSUME NEW x \in Tokens, NEW o, SafeOffset(x, o)
      PROVE  SafeOffset(x, o)'
  <2>1. CASE o = 0
    BY <2>1 DEF SafeOffset
  <2>2. CASE o # 0
    <3>1. PICK v \in arrived[x] : o = v + 1
      BY <1>5, <2>2 DEF SafeOffset
    <3>2. ASSUME NEW u \in arrived'[x], u < o
          PROVE  u \in arrived[x]
      BY <1>3, <1>4, <3>1, <3>2
    <3>3. QED
      BY <1>2, <1>3, <1>5, <2>2, <3>1, <3>2 DEF SafeOffset
  <2>3. QED
    BY <2>1, <2>2
<1>6. OffsetsSafe'
  BY <1>5, ConfigAssumption DEF DeliveryInv, OffsetsSafe, SafeOffset
<1>7. BatchesComplete'
  <2> SUFFICES ASSUME NEW c \in Bots, NEW i \in DOMAIN updates[c]
               PROVE  /\ updates[c][i] \in arrived'[TokenOf[c]]
                      /\ \A u \in arrived'[TokenOf[c]] : u < updates[c][i] =>
                           \/ Settled(TokenOf[c], u)
                           \/ \E j \in DOMAIN updates[c] :
                                j < i /\ updates[c][j] = u
    BY <1>2 DEF BatchesComplete
  <2>1. TokenOf[c] \in Tokens
    BY ConfigAssumption
  <2>2. updates[c][i] \in arrived[TokenOf[c]]
    BY DEF DeliveryInv, BatchesComplete
  <2>3. ASSUME NEW u \in arrived'[TokenOf[c]], u < updates[c][i]
        PROVE  u \in arrived[TokenOf[c]]
    BY <1>3, <1>4, <2>1, <2>2, <2>3
  <2>4. QED
    BY <1>3, <2>1, <2>2, <2>3 DEF DeliveryInv, BatchesComplete
<1>8. PrefixSettled' /\ DeliveredIsSettled'
  BY <1>2 DEF DeliveryInv, PrefixSettled, DeliveredIsSettled, Delivered,
              Current, Settled
<1>9. PendingArrived' /\ NoLoss'
  <2>1. PendingArrived'
    BY <1>1 DEF DeliveryInv, PendingArrived, TypeOK, TelegramTypeOK
  <2>2. \A x \in Tokens : arrived'[x] \ pending'[x] \subseteq
                            arrived[x] \ pending[x]
    BY <1>1 DEF TypeOK, TelegramTypeOK
  <2>3. QED
    BY <1>2, <2>1, <2>2 DEF DeliveryInv, NoLoss
<1>10. QED
  BY <1>6, <1>7, <1>8, <1>9 DEF DeliveryInv

(* The steps that leave alone all that the invariant speaks of.            *)
LEMMA FrameKeeps ==
  ASSUME DeliveryInv,
         UNCHANGED <<tgVars, stored, offset, batchVars, pc, outcome, handled>>,
         UNCHANGED synced \/ synced' = stored
  PROVE  DeliveryInv'
<1>1. \A x, u : Settled(x, u)' <=> Settled(x, u)
  BY DEF Settled, tgVars
<1>2. OffsetsSafe'
  BY <1>1 DEF DeliveryInv, OffsetsSafe, SafeOffset, tgVars
<1>3. BatchesComplete'
  BY <1>1 DEF DeliveryInv, BatchesComplete, tgVars, batchVars
<1>4. PrefixSettled' /\ DeliveredIsSettled'
  BY <1>1 DEF DeliveryInv, PrefixSettled, DeliveredIsSettled, Delivered,
              Current, batchVars
<1>5. PendingArrived' /\ NoLoss'
  BY <1>1 DEF DeliveryInv, PendingArrived, NoLoss, tgVars
<1>6. QED
  BY <1>2, <1>3, <1>4, <1>5 DEF DeliveryInv

(* The invariant is inductive, together with the types.                    *)
LEMMA DeliveryStep == TypeOK /\ DeliveryInv /\ [Next]_vars => DeliveryInv'
<1> SUFFICES ASSUME TypeOK, DeliveryInv, [Next]_vars PROVE DeliveryInv'
  OBVIOUS
<1>1. CASE \E b \in Bots : BotStep(b)
  BY <1>1, OffsetsSafeStep, BatchesCompleteStep, PrefixSettledStep,
     DeliveredIsSettledStep, NoLossStep DEF DeliveryInv
<1>2. CASE Exit
  BY <1>2, ProcessEndsKeeps DEF Exit, histVars
<1>3. CASE Crash
  BY <1>3, ProcessEndsKeeps DEF Crash, ackVars
<1>4. CASE Start
  BY <1>4, FrameKeeps DEF Start, storeVars, histVars
<1>5. CASE Signal
  BY <1>5, FrameKeeps DEF Signal, storeVars, ackVars
<1>6. CASE Sync
  BY <1>6, FrameKeeps DEF Sync, Checkpoint, histVars
<1>7. CASE Arrive
  BY <1>7, ArriveKeeps
<1>8. CASE UNCHANGED vars
  BY <1>8, FrameKeeps DEF vars, storeVars, histVars
<1>9. QED
  BY <1>1, <1>2, <1>3, <1>4, <1>5, <1>6, <1>7, <1>8 DEF Next

(* In every reachable state everything below an offset, in memory, in the  *)
(* database or on its disk, is settled, and no batch has a gap.            *)
THEOREM DeliveryInvariant == Spec => []DeliveryInv
<1>1. Init => DeliveryInv
  BY DeliveryInit
<1>2. TypeOK /\ DeliveryInv /\ [Next]_vars => DeliveryInv'
  BY DeliveryStep
<1>3. QED
  BY <1>1, <1>2, TypeCorrect, PTL DEF Spec

(* Whatever fails, crashes or is retried, Telegram only forgets what the   *)
(* back end handled or what it was told to drop.                           *)
THEOREM NothingLost == Spec => []NoLoss
<1>1. DeliveryInv => NoLoss
  BY DEF DeliveryInv
<1>2. QED
  BY <1>1, DeliveryInvariant, PTL

(* A poller only ever works on the oldest update that is not yet settled,  *)
(* or again on one that is.                                                *)
THEOREM DeliveredInOrder == Spec => []InOrder
<1>1. TypeOK /\ DeliveryInv => InOrder
  BY InvInOrder
<1>2. QED
  BY <1>1, TypeCorrect, DeliveryInvariant, PTL

-----------------------------------------------------------------------------
(* The bridge implements AtLeastOnce: every step of it is a step of the    *)
(* abstract specification, or leaves what that one sees alone.             *)

promiseVars == <<arrived, pending, SettledUpdates>>

(* A poller does one thing at a time: it handles an update, or it makes    *)
(* Telegram forget some.                                                   *)
LEMMA OneEffect ==
  ASSUME NEW b \in Bots, BotStep(b)
  PROVE  \/ UNCHANGED <<tgVars, handled>>
         \/ /\ RemoveWebhook(TokenOf[b], DropPending[b])
            /\ UNCHANGED handled
         \/ /\ ConfirmBelow(TokenOf[b], offset[b])
            /\ UNCHANGED handled
         \/ /\ pc[b] \in {"post", "callMethod"}
            /\ Handle(b)
            /\ UNCHANGED tgVars
  BY DEF BotStep, EnsurePollingMode, Poll, DeliverUpdate, At, DeleteWebhookOk,
      DeleteWebhookFails, LogDeleteError, LoadOffset, LoadOffsetFails,
      StopPolling, GetUpdatesOk, GetUpdatesFails, LogPollError, LogPollOk,
      Receive, ReceiveMalformed, PostAnswered, PostFails, ReadBodyFails,
      LogResponseError, LogResponse, CallMethodAnswered, CallMethodFails,
      LogMethodError, Log, LogFails, Wake, SaveOffsetOk, SaveOffsetFails,
      ReportFailure, Token, RequestOffset, ackVars, histVars

(* The initial states of the bridge are those of the promise.              *)
LEMMA PromiseInit == Init => Promise!Init
  BY DEF Init, TelegramInit, Promise!Init, SettledUpdates, Settled

(* A step that Telegram and the back end do not notice is a stutter.       *)
LEMMA SettledFrame ==
  ASSUME UNCHANGED <<tgVars, handled>>
  PROVE  UNCHANGED promiseVars
<1>1. \A t, u : Settled(t, u)' <=> Settled(t, u)
  BY DEF Settled, tgVars
<1>2. QED
  BY <1>1 DEF promiseVars, SettledUpdates, tgVars

(* deleteWebhook drops the queue, if it is to.                             *)
LEMMA RemoveIsDrop ==
  ASSUME TypeOK, NEW t \in Tokens, NEW drop \in BOOLEAN,
         RemoveWebhook(t, drop), UNCHANGED handled
  PROVE  [Promise!Next]_promiseVars
<1>1. CASE ~drop
  <2>1. UNCHANGED <<arrived, pending, dropped>>
    BY <1>1 DEF RemoveWebhook, TypeOK, TelegramTypeOK
  <2>2. \A x, u : Settled(x, u)' <=> Settled(x, u)
    BY <2>1 DEF Settled
  <2>3. QED
    BY <2>1, <2>2 DEF promiseVars, SettledUpdates
<1>2. CASE drop
  <2>1. /\ dropped' = [dropped EXCEPT ![t] = @ \cup pending[t]]
        /\ pending' = [pending EXCEPT ![t] = {}]
        /\ arrived' = arrived
    BY <1>2 DEF RemoveWebhook
  <2>2. dropped \in [Tokens -> SUBSET UpdateIds] /\ pending[t] \subseteq UpdateIds
    BY DEF TypeOK, TelegramTypeOK
  <2>3. \A x \in Tokens, u \in UpdateIds :
          Settled(x, u)' <=> Settled(x, u) \/ (x = t /\ u \in pending[t])
    BY <2>1, <2>2 DEF Settled
  <2>4. SettledUpdates' = [SettledUpdates EXCEPT ![t] = @ \cup pending[t]]
    BY <2>2, <2>3 DEF SettledUpdates
  <2>5. Promise!Drop(t)
    BY <2>1, <2>4 DEF Promise!Drop
  <2>6. QED
    BY <2>5 DEF Promise!Next
<1>3. QED
  BY <1>1, <1>2

(* A poll forgets what is below a safe offset, which is settled.           *)
LEMMA ConfirmIsForget ==
  ASSUME TypeOK, DeliveryInv, NEW b \in Bots,
         ConfirmBelow(TokenOf[b], offset[b]), UNCHANGED handled
  PROVE  [Promise!Next]_promiseVars
<1> DEFINE t == TokenOf[b]
           S == pending[t] \ Outstanding(t, offset[b])
<1>1. t \in Tokens
  BY ConfigAssumption
<1>2. pending \in [Tokens -> SUBSET UpdateIds] /\ offset[b] \in Nat
  BY DEF TypeOK, TelegramTypeOK, PollerTypeOK
<1>3. /\ pending' = [pending EXCEPT ![t] = Outstanding(t, offset[b])]
      /\ UNCHANGED <<arrived, dropped>>
  BY DEF ConfirmBelow
<1>4. UNCHANGED SettledUpdates
  BY <1>3 DEF SettledUpdates, Settled
<1>5. ASSUME NEW u \in S
      PROVE  u \in SettledUpdates[t]
  <2>1. u \in UpdateIds /\ u \in Nat /\ u \in arrived[t]
    BY <1>1, <1>2, UpdateIdsAssumption DEF DeliveryInv, PendingArrived
  <2>2. u < offset[b]
    BY <1>2, <2>1 DEF Outstanding
  <2>3. Settled(t, u)
    BY <1>2, <2>1, <2>2 DEF DeliveryInv, OffsetsSafe, SafeOffset
  <2>4. QED
    BY <1>1, <2>1, <2>3 DEF SettledUpdates
<1>6. pending[t] \ S = Outstanding(t, offset[b])
  BY DEF Outstanding
<1>7. Promise!Forget(t, S)
  BY <1>3, <1>4, <1>5, <1>6 DEF Promise!Forget
<1>8. S \in SUBSET UpdateIds
  BY <1>1, <1>2
<1>9. QED
  BY <1>1, <1>7, <1>8 DEF Promise!Next

(* Handling an update settles it in its turn, or changes nothing when it   *)
(* is delivered again.                                                     *)
LEMMA HandleIsSettle ==
  ASSUME TypeOK, DeliveryInv, NEW b \in Bots,
         pc[b] \in {"post", "callMethod"}, Handle(b), UNCHANGED tgVars
  PROVE  [Promise!Next]_promiseVars
<1> DEFINE t == TokenOf[b]
           u == Current(b)
<1>1. t \in Tokens /\ pc[b] \in Delivering
  BY ConfigAssumption DEF Delivering
<1>2. u \in arrived[t] /\ u \in UpdateIds
  BY <1>1, CurrentArrived DEF DeliveryInv, TypeOK, TelegramTypeOK
<1>3. \A x \in Tokens, v \in UpdateIds :
        Settled(x, v)' <=> Settled(x, v) \/ (x = t /\ v = u)
  BY DEF Handle, Settled, tgVars, TypeOK, HistoryTypeOK
<1>4. UNCHANGED <<arrived, pending>>
  BY DEF tgVars
<1>5. CASE Settled(t, u)
  <2>1. UNCHANGED SettledUpdates
    BY <1>3, <1>5 DEF SettledUpdates
  <2>2. QED
    BY <1>4, <2>1 DEF promiseVars
<1>6. CASE ~Settled(t, u)
  <2>1. u \in pending[t]
    BY <1>1, <1>2, <1>6 DEF DeliveryInv, NoLoss
  <2>2. ASSUME NEW v \in arrived[t], v < u
        PROVE  v \in SettledUpdates[t]
    <3>1. Settled(t, v)
      BY <1>1, <2>2, InvInOrder DEF InOrder
    <3>2. v \in UpdateIds
      BY <1>1 DEF TypeOK, TelegramTypeOK
    <3>3. QED
      BY <1>1, <3>1, <3>2 DEF SettledUpdates
  <2>3. SettledUpdates' = [SettledUpdates EXCEPT ![t] = @ \cup {u}]
    BY <1>1, <1>2, <1>3 DEF SettledUpdates
  <2>4. Promise!Settle(t, u)
    BY <1>4, <2>1, <2>2, <2>3 DEF Promise!Settle
  <2>5. QED
    BY <1>1, <1>2, <2>4 DEF Promise!Next
<1>7. QED
  BY <1>5, <1>6

(* A new update is a Create of the promise, and settles nothing.           *)
LEMMA ArriveIsCreate ==
  ASSUME Arrive
  PROVE  [Promise!Next]_promiseVars
<1>1. PICK t \in Tokens : NewUpdate(t)
  BY DEF Arrive
<1>2. UNCHANGED SettledUpdates
  BY <1>1 DEF Arrive, NewUpdate, histVars, SettledUpdates, Settled
<1>3. PICK u \in UpdateIds : Promise!Create(t, u)
  BY <1>1, <1>2 DEF NewUpdate, Promise!Create
<1>4. QED
  BY <1>3 DEF Promise!Next

(* Every step of the bridge is one of the promise or a stutter.            *)
LEMMA PromiseStep ==
  TypeOK /\ DeliveryInv /\ [Next]_vars => [Promise!Next]_promiseVars
<1> SUFFICES ASSUME TypeOK, DeliveryInv, [Next]_vars
             PROVE  [Promise!Next]_promiseVars
  OBVIOUS
<1>1. ASSUME NEW b \in Bots, BotStep(b)
      PROVE  [Promise!Next]_promiseVars
  <2>1. TokenOf[b] \in Tokens /\ DropPending[b] \in BOOLEAN
    BY ConfigAssumption
  <2>2. QED
    BY <1>1, <2>1, OneEffect, SettledFrame, RemoveIsDrop, ConfirmIsForget,
       HandleIsSettle
<1>2. CASE Exit \/ Start \/ Signal \/ Crash \/ Sync
  BY <1>2, SettledFrame DEF Exit, Start, Signal, Crash, Sync, histVars, ackVars
<1>3. CASE Arrive
  BY <1>3, ArriveIsCreate
<1>4. CASE UNCHANGED vars
  BY <1>4, SettledFrame DEF vars, histVars
<1>5. QED
  BY <1>1, <1>2, <1>3, <1>4 DEF Next

(* The bridge, with all its failures, retries and restarts, implements the *)
(* abstract promise of at-least-once, oldest-first delivery per account.   *)
THEOREM KeepsPromise == Spec => DeliversAtLeastOnce
<1>1. Init => Promise!Init
  BY PromiseInit
<1>2. TypeOK /\ DeliveryInv /\ [Next]_vars
        => [Promise!Next]_<<arrived, pending, SettledUpdates>>
  BY PromiseStep DEF promiseVars
<1>3. QED
  BY <1>1, <1>2, TypeCorrect, DeliveryInvariant, PTL
  DEF Spec, DeliversAtLeastOnce, Promise!Spec

=============================================================================
