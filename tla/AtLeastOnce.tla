----------------------------- MODULE AtLeastOnce ------------------------------
(***************************************************************************)
(* What the bridge promises the users of one bot account, whatever happens *)
(* to its pollers and their process: every update is settled (handled by a *)
(* back end, or dropped because the configuration says so) before Telegram *)
(* forgets it, and updates are settled oldest first.  An update may be     *)
(* handled any number of times: settling it again changes nothing.         *)
(***************************************************************************)
EXTENDS Naturals

CONSTANTS Accounts, Ids

VARIABLES
  created,  \* created[x]: every update of account x so far
  queued,   \* queued[x]: those that Telegram still holds
  settled   \* settled[x]: those of which nothing is due any more

Init ==
  /\ created = [x \in Accounts |-> {}]
  /\ queued = [x \in Accounts |-> {}]
  /\ settled = [x \in Accounts |-> {}]

(* Updates are numbered upwards.                                           *)
Create(x, u) ==
  /\ \A v \in created[x] : v < u
  /\ created' = [created EXCEPT ![x] = @ \cup {u}]
  /\ queued' = [queued EXCEPT ![x] = @ \cup {u}]
  /\ UNCHANGED settled

Settle(x, u) ==
  /\ u \in queued[x]
  /\ \A v \in created[x] : v < u => v \in settled[x]
  /\ settled' = [settled EXCEPT ![x] = @ \cup {u}]
  /\ UNCHANGED <<created, queued>>

Forget(x, S) ==
  /\ S \subseteq queued[x] \cap settled[x]
  /\ queued' = [queued EXCEPT ![x] = @ \ S]
  /\ UNCHANGED <<created, settled>>

Drop(x) ==
  /\ queued' = [queued EXCEPT ![x] = {}]
  /\ settled' = [settled EXCEPT ![x] = @ \cup queued[x]]
  /\ UNCHANGED created

Next ==
  \E x \in Accounts :
    \/ \E u \in Ids : Create(x, u) \/ Settle(x, u)
    \/ \E S \in SUBSET Ids : Forget(x, S)
    \/ Drop(x)

Spec == Init /\ [][Next]_<<created, queued, settled>>

=============================================================================
