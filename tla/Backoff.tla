------------------------------- MODULE Backoff --------------------------------
(***************************************************************************)
(* exponentialBackoff, nextDelay and sleepWithContext's floor, from        *)
(* src/bridge/service.go.  Durations are integers of an arbitrary unit, in *)
(* two's complement: DurationLimit stands in the place of 2^63 ns, and     *)
(* `Second' is time.Second.  A backoff value is the `current' field; 0 is  *)
(* a fresh or reset backoff.                                               *)
(***************************************************************************)
EXTENDS Integers

CONSTANTS
  DurationLimit,      \* the first positive duration that does not exist
  Second,             \* time.Second
  RetryInitialDelay,  \* config retry_initial_delay_ms
  RetryMaxDelay,      \* config retry_max_delay_ms
  FloodWait           \* the retry_after of a Telegram flood-control answer

ASSUME BackoffAssumption ==
  /\ DurationLimit \in Nat \ {0}
  /\ Second \in Nat \ {0} /\ 2 * Second <= DurationLimit
  /\ RetryInitialDelay \in -DurationLimit..DurationLimit - 1
  /\ RetryMaxDelay \in -DurationLimit..DurationLimit - 1
  /\ FloodWait \in 1..DurationLimit - 1

(* newBackoff repairs its arguments.                                       *)
InitialDelay == IF RetryInitialDelay <= 0 THEN Second ELSE RetryInitialDelay
MaxDelay == IF RetryMaxDelay < InitialDelay THEN InitialDelay ELSE RetryMaxDelay

(* exponentialBackoff.Reset.                                               *)
ResetBackoff == 0

(* current * 2, for a positive duration.                                   *)
Doubled(current) ==
  IF current * 2 < DurationLimit THEN current * 2
                                 ELSE current * 2 - 2 * DurationLimit

Capped(next) == IF next > MaxDelay THEN MaxDelay ELSE next

(* exponentialBackoff.Next: the new `current', which is also the delay.    *)
NextBackoffUnseeded(current) == Capped(Doubled(current))
NextBackoff(current) ==
  IF current <= 0 THEN InitialDelay ELSE Capped(Doubled(current))

(* The retry_after an error carries; only "flood" errors carry one.        *)
RetryAfterOf(error) == IF error = "flood" THEN FloodWait ELSE 0

NextDelayUnasked(current, error) == NextBackoff(current)

(* nextDelay: retry_after wins and leaves the backoff alone.               *)
NextDelay(current, error) ==
  IF RetryAfterOf(error) > 0 THEN RetryAfterOf(error) ELSE NextBackoff(current)
BackoffAfter(current, error) ==
  IF RetryAfterOf(error) > 0 THEN current ELSE NextBackoff(current)

SleepForAsAsked(delay) == delay

(* How long sleepWithContext sleeps when it is asked for `delay'.          *)
SleepFor(delay) == IF delay <= 0 THEN Second ELSE delay

-----------------------------------------------------------------------------

(* What `current' can be: fresh, within its bounds, or just overflowed.    *)
Bounded(current) ==
  \/ current = ResetBackoff
  \/ current \in InitialDelay..MaxDelay
  \/ current < 0 /\ 2 * MaxDelay >= DurationLimit

=============================================================================
