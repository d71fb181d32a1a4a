--------------------------- MODULE BridgeProperties ---------------------------
(***************************************************************************)
(* What the bridge is to guarantee, and what its documentation says of it. *)
(***************************************************************************)
EXTENDS Bridge

(* Nothing is due for update u of token t: Telegram dropped it on request, *)
(* or the back end of a bot of the token replied to it with 2xx and the    *)
(* reply was acted on.                                                     *)
Settled(t, u) ==
  \/ u \in dropped[t]
  \/ \E b \in Bots : TokenOf[b] = t /\ u \in handled[b]

(* No update is lost: Telegram is only made to forget what is settled,     *)
(* whatever fails, crashes or is retried (README, "Offset is advanced and  *)
(* persisted only after successful update delivery").                      *)
NoLoss ==
  \A t \in Tokens : \A u \in arrived[t] \ pending[t] : Settled(t, u)

(* Updates are delivered in order: the poller works on an update only when *)
(* every older one of its token is settled, so a failed delivery ends the  *)
(* batch and a poll from a stale offset brings nothing out of turn.        *)
InOrder ==
  \A b \in Bots : pc[b] \in Delivering =>
    \A v \in arrived[TokenOf[b]] : v < Current(b) => Settled(TokenOf[b], v)

(* NoLoss, InOrder and what they leave out, as an abstract specification:  *)
(* every step of the bridge is a step of AtLeastOnce or none at all.       *)
SettledUpdates == [t \in Tokens |-> {u \in UpdateIds : Settled(t, u)}]
Promise == INSTANCE AtLeastOnce
             WITH Accounts <- Tokens, Ids <- UpdateIds, created <- arrived,
                  queued <- pending, settled <- SettledUpdates
DeliversAtLeastOnce == Promise!Spec

(* A poller never asks with an offset that a restart would not find: the   *)
(* one in memory is at most the committed one, also when a commit reports  *)
(* an error, so a crash never makes Telegram skip an update.               *)
OffsetPersisted ==
  \A b \in Bots : HasStore => offset[b] <= stored[b]

(* The audit log is as durable as the offset: the row of the answer that   *)
(* accepted an update is there whenever an offset just above it is, in the *)
(* database and, after any power loss, on its disk.                        *)
Audited(offsets, rows) ==
  \A b \in Bots : offsets[b] > 0 => offsets[b] - 1 \in rows[b]
OffsetAudited == Audited(stored, logged) /\ Audited(synced, syncedLog)

(* A poller that retries keeps to the configured pace: it waits as long as *)
(* Telegram asks for or within the bounds of the backoff.  Only where      *)
(* doubling the largest delay would overflow it can be a second instead,   *)
(* right after that happened.                                              *)
RetryPace ==
  \A b \in Bots : pc[b] \in Sleeping =>
    \/ delay[b] \in {FloodWait} \cup InitialDelay..MaxDelay
    \/ /\ backoff[b] < 0 /\ delay[b] = Second
       /\ 2 * MaxDelay >= DurationLimit

(* GET /healthz is honest: when it reports no lag for a bot that has seen  *)
(* an update, the newest one it saw is settled and its offset is saved.    *)
LagHonest ==
  \A b \in Bots : lastUpdate[b] # NoUpdate /\ Lag(b) = 0 =>
    /\ Settled(TokenOf[b], lastUpdate[b])
    /\ HasStore => stored[b] > lastUpdate[b]

(* Every duplicate has a cause: an update reaches a back end once, plus at *)
(* most once more for every fault so far.  (Two exceptions: an update that *)
(* the back end refuses every time, and a method that fits into no request *)
(* are tried again for as long as it takes.)                               *)
RedeliveryPaid ==
  "oddMethod" \notin Replies =>
    \A b \in Bots : \A u \in UpdateIds \ Poison[b] :
      attempts[b][u] <= 1 + faults

(* A bot polls only after its webhook was removed.  (A cancelled poller    *)
(* without a store does reach the loop with the webhook in place, because  *)
(* ensurePollingMode returns nil; it can get no further.)                  *)
PollingModeOnly ==
  \A b \in Bots : pc[b] = "poll" /\ webhook[TokenOf[b]] => canceled

(* A committed offset goes back only when the machine loses power, though  *)
(* SaveOffset overwrites whatever is there and a save may commit and fail. *)
OffsetNeverRegresses ==
  [][\A b \in Bots : stored'[b] < stored[b] => up /\ ~up']_vars

(* "`drop_pending_updates` - passed to `deleteWebhook` at startup"         *)
(* (README.md:133), and only then: updates are dropped for a bot that is   *)
(* to drop them, by a poller that has not seen any since its process       *)
(* started.  So no retry of a poller that is at work, after whatever       *)
(* failure, drops what came in meanwhile.                                  *)
DropsOnlyAtStart ==
  [][\A t \in Tokens : dropped'[t] # dropped[t] =>
       \E b \in Bots : /\ TokenOf[b] = t /\ DropPending[b]
                       /\ lastUpdate[b] = NoUpdate]_vars

(* In a process that keeps running from some point on, every update that   *)
(* Telegram holds is confirmed to it in the end, whatever happened before  *)
(* and however often the back ends of other bots refuse theirs.            *)
EventuallyConfirmed ==
  <>[](up /\ ~canceled) =>
    \A b \in {c \in Bots : Poison[c] = {}}, u \in UpdateIds :
      u \in pending[TokenOf[b]] ~> u \notin pending[TokenOf[b]]

(* A cancelled Run returns: no poller hangs, not even those that fail      *)
(* together while nobody reads their errors.                               *)
ShutdownTerminates == up /\ canceled ~> ~up

-----------------------------------------------------------------------------
(* What the README says and the code does not do.                          *)

(* "permanent method call failures are logged and treated as delivered"    *)
(* (README.md:216): a method that no request can carry fails for good.     *)
PermanentFailuresDelivered ==
  \A b \in Bots :
    At(b, "callMethod") /\ outcome[b] = "oddMethod"
      ~> pc[b] = "saveOffset" \/ canceled \/ ~up

(* "backend_errors_total - total backend-side errors observed in runtime"  *)
(* (README.md:266), likewise for Telegram: when no store can fail, a       *)
(* poller that waits before a retry has met an error that is counted.      *)
RetriesAreCounted ==
  ~HasStore => \A b \in Bots :
    pc[b] = "sleep" => telegramErrors[b] > 0 \/ backendErrors[b] > 0

-----------------------------------------------------------------------------
(* Why NoLoss and InOrder hold: the parts of their inductive invariant.    *)

(* An offset that may be sent or saved: everything below it is settled,    *)
(* and it lies just above an update, so that no later one is below it.     *)
SafeOffset(t, o) ==
  \/ o = 0
  \/ /\ \E v \in arrived[t] : o = v + 1
     /\ \A u \in arrived[t] : u < o => Settled(t, u)

OffsetsSafe ==
  \A b \in Bots :
    /\ SafeOffset(TokenOf[b], offset[b])
    /\ SafeOffset(TokenOf[b], stored[b])
    /\ SafeOffset(TokenOf[b], synced[b])

(* A batch has no gaps: what is older than one of its updates is settled   *)
(* or comes earlier in the batch.                                          *)
BatchesComplete ==
  \A b \in Bots : \A i \in DOMAIN updates[b] :
    /\ updates[b][i] \in arrived[TokenOf[b]]
    /\ \A u \in arrived[TokenOf[b]] : u < updates[b][i] =>
         \/ Settled(TokenOf[b], u)
         \/ \E j \in DOMAIN updates[b] : j < i /\ updates[b][j] = u

(* A poller has settled the updates of the batch before the one in hand,   *)
PrefixSettled ==
  \A b \in Bots : pc[b] \in Delivering =>
    \A j \in DOMAIN updates[b] : j < pos[b] => Settled(TokenOf[b], updates[b][j])

(* and that one too, once deliverUpdate is bound to return nil.            *)
Delivered(b) ==
  \/ pc[b] \in {"logParseError", "logMethodOk", "saveOffset"}
  \/ pc[b] = "logResponse" /\ outcome[b] \in {"plain", "invalid"}
  \/ pc[b] = "logMethodError" /\ outcome[b] = "permanent"

DeliveredIsSettled ==
  \A b \in Bots : Delivered(b) => Settled(TokenOf[b], Current(b))

PendingArrived == \A t \in Tokens : pending[t] \subseteq arrived[t]

DeliveryInv ==
  /\ PendingArrived
  /\ OffsetsSafe
  /\ BatchesComplete
  /\ PrefixSettled
  /\ DeliveredIsSettled
  /\ NoLoss

-----------------------------------------------------------------------------
(* Why the offsets are right: the parts of the inductive invariant of      *)
(* OffsetPersisted, OffsetAudited, OffsetNeverRegresses, DropsOnlyAtStart  *)
(* and LagHonest.                                                          *)

(* The labels of a poller that has its batch still to deliver, of one that *)
(* has loaded its offset, and of one that has not yet.                     *)
WithBatch == Delivering \cup {"logPollOk"}
OffsetLoaded == WithBatch \cup {"logOffsetLoaded", "poll", "logPollError",
                                "sleep"}
BeforeOffset == {"deleteWebhook", "logDeleteError", "sleepDelete",
                 "logDeleteOk", "loadOffset"}

(* The indices of the updates that are still to be delivered.              *)
ToDeliver(b) ==
  {i \in DOMAIN updates[b] : pc[b] \in Delivering => i >= pos[b]}

(* Batches ascend, and nothing in them is below the offset in memory.      *)
BatchesAscend ==
  \A b \in Bots : \A i, j \in DOMAIN updates[b] :
    i < j => updates[b][i] < updates[b][j]

BatchesAhead ==
  \A b \in Bots : pc[b] \in WithBatch =>
    \A i \in ToDeliver(b) : updates[b][i] >= offset[b]

(* A poller that has not loaded its offset has none; the metrics show it.  *)
OffsetUnset ==
  \A b \in Bots : pc[b] \in BeforeOffset => offset[b] = 0

OffsetShown == shownOffset = offset

(* Nor has it seen an update, so nothing that it drops came later.         *)
NothingSeenYet ==
  \A b \in Bots : pc[b] \in BeforeOffset => lastUpdate[b] = NoUpdate

(* What a poller has seen did arrive.                                      *)
SeenArrived ==
  \A b \in Bots :
    lastUpdate[b] # NoUpdate => lastUpdate[b] \in arrived[TokenOf[b]]

(* An update on its way to the save has its row in the audit log.          *)
RowWritten ==
  {"logParseError", "logMethodRequest", "callMethod", "logMethodOk",
   "logMethodError", "saveOffset"}

InHandLogged ==
  \A b \in Bots :
    HasStore /\ pc[b] \in RowWritten => Current(b) \in logged[b]

NothingStored ==
  ~HasStore => \A b \in Bots : stored[b] = 0 /\ synced[b] = 0

(* A save that committed and failed leaves an offset behind that is ahead  *)
(* of the one in memory.  It is not ahead of what Telegram may still give  *)
(* to the poller, by more than the update that will be saved then ...      *)
CommitNotAhead ==
  \A b \in Bots : HasStore /\ pc[b] \in OffsetLoaded =>
    \A u \in pending[TokenOf[b]] : u >= offset[b] => u + 1 >= stored[b]

(* ... nor of what the poller has in its batch; and what is pending from   *)
(* the offset on, and older than an update in the batch, is in the batch.  *)
BatchNotBehindCommit ==
  \A b \in Bots : HasStore /\ pc[b] \in WithBatch =>
    \A i \in ToDeliver(b) : updates[b][i] + 1 >= stored[b]

BatchHasOldest ==
  \A b \in Bots : pc[b] \in WithBatch =>
    \A i \in ToDeliver(b) : \A u \in pending[TokenOf[b]] :
      u >= offset[b] /\ u < updates[b][i] =>
        \E j \in ToDeliver(b) : j < i /\ updates[b][j] = u

OffsetInv ==
  /\ BatchesAscend
  /\ BatchesAhead
  /\ OffsetUnset
  /\ NothingSeenYet
  /\ OffsetShown
  /\ SeenArrived
  /\ InHandLogged
  /\ NothingStored
  /\ OffsetPersisted
  /\ OffsetAudited
  /\ CommitNotAhead
  /\ BatchNotBehindCommit
  /\ BatchHasOldest

-----------------------------------------------------------------------------
(* Why a poller keeps to the configured pace, polls only without a webhook *)
(* and repeats nothing without a cause.                                    *)

BackoffBounded == \A b \in Bots : Bounded(backoff[b])

(* Past ensurePollingMode the webhook is gone, or the poller is cancelled. *)
WithWebhook == {"deleteWebhook", "logDeleteError", "sleepDelete",
                "fail", "done"}
WebhookGone ==
  \A b \in Bots :
    pc[b] \notin WithWebhook /\ webhook[TokenOf[b]] => canceled

DoneIsCanceled == \A b \in Bots : pc[b] = "done" => canceled

(* The update in hand was accepted and will be saved, unless a further     *)
(* fault comes in between.                                                 *)
Accepted(b) ==
  \/ pc[b] \in {"logParseError", "logMethodRequest", "callMethod",
                "logMethodOk", "saveOffset"}
  \/ pc[b] = "logResponse" /\ outcome[b] # "non2xx"
  \/ pc[b] = "logMethodError" /\ outcome[b] = "permanent"

(* In this process, u will not be posted again without a further fault.    *)
DoneWith(b, u) ==
  u < offset[b] \/ (Accepted(b) /\ Current(b) = u)

(* The fault that will cancel this process is already paid for.            *)
Doomed == \E b \in Bots : pc[b] = "fail"

NoOddMethod ==
  "oddMethod" \notin Replies => \A b \in Bots : outcome[b] # "oddMethod"

(* Each POST of an update after its first has a fault of its own.  At the  *)
(* end of a process this must hold without the first POST, too, because    *)
(* the next one may repeat it: the fault that ended the process pays.      *)
Paid(b, u) ==
  /\ canceled => attempts[b][u] <= faults
  /\ attempts[b][u] <= faults + 1
  /\ ~DoneWith(b, u) => attempts[b][u] <= faults
  /\ Doomed => attempts[b][u] <= faults
  /\ Doomed /\ ~canceled /\ ~DoneWith(b, u) => attempts[b][u] < faults

PostsPaid ==
  "oddMethod" \notin Replies =>
    \A b \in Bots : \A u \in UpdateIds \ Poison[b] : Paid(b, u)

PaceInv ==
  /\ BackoffBounded
  /\ RetryPace
  /\ WebhookGone
  /\ DoneIsCanceled
  /\ NoOddMethod
  /\ PostsPaid

=============================================================================
