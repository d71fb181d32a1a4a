---------------------------- MODULE HealthMetrics -----------------------------
(***************************************************************************)
(* runtimeMetrics of src/bridge/health.go: the per-bot counters that       *)
(* GET /healthz reports.  Every operation holds the mutex from start to    *)
(* end, so each is one atomic update.                                      *)
(***************************************************************************)
EXTENDS BridgeConfig, Integers

CONSTANT CounterCap  \* bound of the model: the error counters saturate there

ASSUME CounterCapAssumption == CounterCap \in Nat \ {0}

VARIABLES
  shownOffset,     \* botRuntimeMetrics.offset
  lastUpdate,      \* lastUpdateID, or NoUpdate while hasLastUpdate is false
  telegramErrors,
  backendErrors

metricVars == <<shownOffset, lastUpdate, telegramErrors, backendErrors>>

NoUpdate == 0

(* newRuntimeMetrics: every configured bot has a zero entry.               *)
MetricsInit ==
  /\ shownOffset = [b \in Bots |-> 0]
  /\ lastUpdate = [b \in Bots |-> NoUpdate]
  /\ telegramErrors = [b \in Bots |-> 0]
  /\ backendErrors = [b \in Bots |-> 0]

(* The metrics live in memory: a new process has new ones.                 *)
MetricsReset ==
  /\ shownOffset' = [b \in Bots |-> 0]
  /\ lastUpdate' = [b \in Bots |-> NoUpdate]
  /\ telegramErrors' = [b \in Bots |-> 0]
  /\ backendErrors' = [b \in Bots |-> 0]

MetricsTypeOK ==
  /\ shownOffset \in [Bots -> Nat]
  /\ lastUpdate \in [Bots -> Nat]
  /\ telegramErrors \in [Bots -> 0..CounterCap]
  /\ backendErrors \in [Bots -> 0..CounterCap]

-----------------------------------------------------------------------------

SetOffset(b, offset) == shownOffset' = [shownOffset EXCEPT ![b] = offset]
ObserveUpdate(b, u) == lastUpdate' = [lastUpdate EXCEPT ![b] = u]

Increment(n) == IF n < CounterCap THEN n + 1 ELSE n
IncTelegramError(b) ==
  telegramErrors' = [telegramErrors EXCEPT ![b] = Increment(@)]
IncBackendError(b) ==
  backendErrors' = [backendErrors EXCEPT ![b] = Increment(@)]

LagToLastUpdate(b) ==
  IF lastUpdate[b] # NoUpdate /\ lastUpdate[b] > shownOffset[b]
    THEN lastUpdate[b] - shownOffset[b]
    ELSE 0

(* snapshot: lag_by_offset.                                                *)
Lag(b) ==
  IF lastUpdate[b] # NoUpdate /\ lastUpdate[b] + 1 > shownOffset[b]
    THEN lastUpdate[b] + 1 - shownOffset[b]
    ELSE 0

=============================================================================
