----------------------------- MODULE BridgeConfig -----------------------------
(***************************************************************************)
(* The configuration that every part of the bridge reads: the fields of    *)
(* Config and BotConfig in src/config/config.go that its control flow      *)
(* depends on, with what normalizeDefaults and validateBots enforce.       *)
(***************************************************************************)
EXTENDS Naturals, FiniteSets

CONSTANTS
  Bots,         \* the bots by name; validation rejects duplicate names,
  Tokens,       \* the telegram_token values that occur,
  TokenOf,      \* TokenOf[b]: the token of bot b; bots may share one
  DropPending,  \* DropPending[b]: drop_pending_updates of bot b
  PollingLimit  \* polling_limit, the longest batch of a getUpdates answer

ASSUME ConfigAssumption ==
  /\ IsFiniteSet(Bots) /\ Bots # {}
  /\ TokenOf \in [Bots -> Tokens]
  /\ DropPending \in [Bots -> BOOLEAN]
  /\ PollingLimit \in 1..100

=============================================================================
