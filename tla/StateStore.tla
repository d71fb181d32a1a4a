------------------------------ MODULE StateStore ------------------------------
(***************************************************************************)
(* The tables of src/storage/sqlite_store.go behind the StateStore         *)
(* interface of src/bridge/service.go.                                     *)
(*                                                                         *)
(* The database is opened with journal_mode(WAL) and synchronous(NORMAL):  *)
(* a commit is visible at once and survives the death of the process, but  *)
(* only a checkpoint makes it survive a power loss.  `stored' is what a    *)
(* reader sees, `synced' what is on disk for certain.  A power loss keeps  *)
(* some prefix of the commits; since Checkpoint may happen after any       *)
(* commit, rolling back to `synced' yields every such prefix.              *)
(*                                                                         *)
(* Of the rows of interaction_logs the model keeps those that record a 2xx *)
(* answer of a back end.                                                   *)
(***************************************************************************)
EXTENDS BridgeConfig

CONSTANT HasStore  \* FALSE: NewService got no store and uses noOpStateStore

ASSUME HasStoreAssumption == HasStore \in BOOLEAN

VARIABLES
  stored,    \* stored[b]: the committed update_offset, 0 when there is no row
  logged,    \* logged[b]: the updates of which a row says they were accepted
  synced,    \* what a power loss cannot undo: of `stored',
  syncedLog  \* and of `logged'

storeVars == <<stored, logged, synced, syncedLog>>

StoreInit ==
  /\ stored = [b \in Bots |-> 0]
  /\ logged = [b \in Bots |-> {}]
  /\ synced = [b \in Bots |-> 0]
  /\ syncedLog = [b \in Bots |-> {}]

StoreTypeOK ==
  /\ stored \in [Bots -> Nat]
  /\ logged \in [Bots -> SUBSET Nat]
  /\ synced \in [Bots -> Nat]
  /\ syncedLog \in [Bots -> SUBSET Nat]

-----------------------------------------------------------------------------

(* What LoadOffset answers: no row reads as 0, and so does every read of   *)
(* the no-op store.                                                        *)
LoadedOffset(b) == stored[b]

SaveOffsetForgets(b, offset) == UNCHANGED storeVars

(* The upsert of SaveOffset, unconditional on the value it replaces.       *)
SaveOffset(b, offset) ==
  /\ stored' = IF HasStore THEN [stored EXCEPT ![b] = offset] ELSE stored
  /\ UNCHANGED <<logged, synced, syncedLog>>

LogInteractionForgets(b, u) == UNCHANGED storeVars

(* The insert of LogInteraction, for the row of an accepted update u.      *)
LogInteraction(b, u) ==
  /\ logged' = IF HasStore THEN [logged EXCEPT ![b] = @ \cup {u}] ELSE logged
  /\ UNCHANGED <<stored, synced, syncedLog>>

(* SQLite moves the write-ahead log into the database file and syncs it.   *)
Checkpoint ==
  /\ <<synced, syncedLog>> # <<stored, logged>>
  /\ synced' = stored
  /\ syncedLog' = logged
  /\ UNCHANGED <<stored, logged>>

(* The machine stops: the commits since the last checkpoint are gone.      *)
LoseUnsynced ==
  /\ stored' = synced
  /\ logged' = syncedLog
  /\ UNCHANGED <<synced, syncedLog>>

=============================================================================
