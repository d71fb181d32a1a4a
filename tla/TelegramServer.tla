---------------------------- MODULE TelegramServer ----------------------------
(***************************************************************************)
(* The Telegram Bot API as the bridge uses it.  Telegram is external code: *)
(* what is written here is what src/bridge/service.go and                  *)
(* src/telegram/client.go rely on.                                         *)
(*                                                                         *)
(* Every bot token owns a queue of updates with ascending ids.             *)
(* getUpdates(offset) forgets the updates below offset and answers with    *)
(* the oldest ones that are left, at most `limit' of them; deleteWebhook   *)
(* leaves webhook mode and, when asked, drops the queue.                   *)
(*                                                                         *)
(* Simplification: while a webhook is configured Telegram itself would     *)
(* push the updates; here they stay in the queue until polling starts.     *)
(***************************************************************************)
EXTENDS BridgeConfig, SequencesExt

CONSTANT UpdateIds  \* the update ids Telegram may hand out

ASSUME UpdateIdsAssumption == UpdateIds \subseteq Nat \ {0}

VARIABLES
  webhook,  \* webhook[t]: a webhook is configured, so getUpdates is refused
  arrived,  \* arrived[t]: every update Telegram ever created for the token
  pending,  \* pending[t]: the updates Telegram still keeps
  dropped   \* dropped[t]: the updates removed by drop_pending_updates

tgVars == <<webhook, arrived, pending, dropped>>

TelegramInit ==
  /\ webhook = [t \in Tokens |-> TRUE]
  /\ arrived = [t \in Tokens |-> {}]
  /\ pending = [t \in Tokens |-> {}]
  /\ dropped = [t \in Tokens |-> {}]

TelegramTypeOK ==
  /\ webhook \in [Tokens -> BOOLEAN]
  /\ arrived \in [Tokens -> SUBSET UpdateIds]
  /\ pending \in [Tokens -> SUBSET UpdateIds]
  /\ dropped \in [Tokens -> SUBSET UpdateIds]

-----------------------------------------------------------------------------

(* A user writes to the bot: ids ascend, with gaps where other update      *)
(* kinds were filtered out by allowed_updates.                             *)
NewUpdate(t) ==
  \E u \in UpdateIds :
    /\ \A v \in arrived[t] : v < u
    /\ arrived' = [arrived EXCEPT ![t] = @ \cup {u}]
    /\ pending' = [pending EXCEPT ![t] = @ \cup {u}]
    /\ UNCHANGED <<webhook, dropped>>

(* The updates that survive a getUpdates request with this offset.  Offset *)
(* 0 is left out of the request (`omitempty') and forgets nothing.         *)
Outstanding(t, offset) == {u \in pending[t] : u >= offset}

(* The effect of a getUpdates request that reached Telegram.               *)
ConfirmBelow(t, offset) ==
  /\ pending' = [pending EXCEPT ![t] = Outstanding(t, offset)]
  /\ UNCHANGED <<webhook, arrived, dropped>>

(* The possible answers: the oldest updates of S in ascending order; the   *)
(* answer is empty (the long poll ran out) only when S is.                 *)
Batches(S) ==
  {s \in BoundedSeq(S, PollingLimit) :
     /\ S # {} => s # <<>>
     /\ \A i, j \in DOMAIN s : i < j => s[i] < s[j]
     /\ \A u \in S : (\A i \in DOMAIN s : s[i] # u)
                       => \A i \in DOMAIN s : s[i] < u}

(* The effect of deleteWebhook with drop_pending_updates = drop.           *)
RemoveWebhook(t, drop) ==
  /\ webhook' = [webhook EXCEPT ![t] = FALSE]
  /\ pending' = [pending EXCEPT ![t] = IF drop THEN {} ELSE @]
  /\ dropped' = [dropped EXCEPT ![t] = IF drop THEN @ \cup pending[t] ELSE @]
  /\ UNCHANGED arrived

=============================================================================
