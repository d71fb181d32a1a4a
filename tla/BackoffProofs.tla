--------------------------- MODULE BackoffProofs ----------------------------
(***************************************************************************)
(* What a retry waits for, whatever the delays are configured to: lemmas   *)
(* about the operators of Backoff, for the bridge and for the client.      *)
(***************************************************************************)
EXTENDS Backoff, TLAPS

(* newBackoff repairs its arguments.                                       *)
LEMMA DelayBounds ==
  /\ InitialDelay \in 1..DurationLimit - 1
  /\ MaxDelay \in InitialDelay..DurationLimit - 1
<1>1. InitialDelay \in 1..DurationLimit - 1
  BY BackoffAssumption DEF InitialDelay
<1>2. QED
  BY <1>1, BackoffAssumption DEF MaxDelay

(* exponentialBackoff.Next stays within the bounds, except that doubling a *)
(* delay may overflow; the delay after that is the initial one.            *)
LEMMA NextBackoffBounded ==
  ASSUME NEW current \in Int, Bounded(current)
  PROVE  LET next == NextBackoff(current) IN
         /\ next \in Int
         /\ \/ next \in InitialDelay..MaxDelay
            \/ next < 0 /\ 2 * MaxDelay >= DurationLimit
<1>1. /\ InitialDelay \in Int /\ MaxDelay \in Int /\ DurationLimit \in Int
      /\ 0 < InitialDelay /\ InitialDelay <= MaxDelay
      /\ MaxDelay < DurationLimit
  BY DelayBounds, BackoffAssumption
<1>2. CASE current <= 0
  BY <1>1, <1>2 DEF NextBackoff
<1>3. CASE current > 0
  <2>1. InitialDelay <= current /\ current <= MaxDelay
    BY <1>1, <1>3 DEF Bounded, ResetBackoff
  <2>2. NextBackoff(current) = Capped(Doubled(current))
    BY <1>3 DEF NextBackoff
  <2>3. CASE current * 2 < DurationLimit
    BY <1>1, <2>1, <2>2, <2>3 DEF Capped, Doubled
  <2>4. CASE ~(current * 2 < DurationLimit)
    BY <1>1, <2>1, <2>2, <2>4 DEF Capped, Doubled
  <2>5. QED
    BY <2>3, <2>4
<1>4. QED
  BY <1>2, <1>3

(* Falling asleep keeps to the pace.                                       *)
LEMMA SleepInBounds ==
  ASSUME NEW current \in Int, Bounded(current), NEW error
  PROVE  LET d == SleepFor(NextDelay(current, error))
             after == BackoffAfter(current, error)
         IN  /\ after \in Int /\ Bounded(after)
             /\ \/ d \in {FloodWait} \cup InitialDelay..MaxDelay
                \/ after < 0 /\ d = Second /\ 2 * MaxDelay >= DurationLimit
<1>1. /\ InitialDelay \in Int /\ MaxDelay \in Int
      /\ 0 < InitialDelay /\ FloodWait \in Int /\ FloodWait > 0
  BY DelayBounds, BackoffAssumption
<1>2. CASE error = "flood"
  BY <1>1, <1>2 DEF NextDelay, BackoffAfter, RetryAfterOf, SleepFor
<1>3. CASE error # "flood"
  <2>1. NextDelay(current, error) = NextBackoff(current)
          /\ BackoffAfter(current, error) = NextBackoff(current)
    BY <1>3 DEF NextDelay, BackoffAfter, RetryAfterOf
  <2>2. /\ NextBackoff(current) \in Int
        /\ \/ NextBackoff(current) \in InitialDelay..MaxDelay
           \/ NextBackoff(current) < 0 /\ 2 * MaxDelay >= DurationLimit
    BY NextBackoffBounded
  <2>3. QED
    BY <1>1, <2>1, <2>2 DEF Bounded, SleepFor
<1>4. QED
  BY <1>2, <1>3

=============================================================================
