---------------------------- MODULE RetryPolicy ----------------------------
(***************************************************************************)
(* The pure functions that decide when something is tried again.           *)
(***************************************************************************)
EXTENDS Integers

\* mutant of retryDelay: the cap is looked at before the delay is doubled
retryDelayLate(baseRetry, maxRetry, attempt) ==
  LET delay[step \in 1..attempt] ==
        IF step = 1 THEN baseRetry
        ELSE IF delay[step - 1] >= maxRetry THEN maxRetry
        ELSE 2 * delay[step - 1]
  IN  delay[attempt]

(* outbox: the delay doubles with every attempt until it reaches the cap.  *)
retryDelay(baseRetry, maxRetry, attempt) ==
  LET delay[step \in 1..attempt] ==
        IF step = 1 THEN baseRetry
        ELSE IF delay[step - 1] > maxRetry \div 2 THEN maxRetry
        ELSE 2 * delay[step - 1]
  IN  delay[attempt]

MaxCallbackAttempts == 6
MaxDelay == 300
Delays == <<1, 5, 15, 60, 300>>

Transient(status, failed) ==
  failed \/ status \in {408, 425, 429} \cup 500..599

\* mutant of Waiting: the receiver's wish is not capped
WaitingUncapped(wish, attempt) == IF wish >= 0 THEN wish ELSE Delays[attempt]

(* Retry-After, in seconds or as the time left until a date: a wish that   *)
(* is malformed or lies in the past (here: negative) is ignored.           *)
Waiting(wish, attempt) ==
  IF wish < 0 THEN Delays[attempt] ELSE IF wish > MaxDelay THEN MaxDelay ELSE wish

(* What a callback attempt, counted from 1, ends in.  failed: there was no *)
(* answer; wish: the Retry-After header of the answer.                     *)
Classify(status, wish, failed, attempt) ==
  IF ~failed /\ status \in 200..299 THEN [kind |-> "delivered", delay |-> 0]
  ELSE IF ~Transient(status, failed) \/ attempt >= MaxCallbackAttempts THEN [kind |-> "dead_letter", delay |-> 0]
  ELSE [kind |-> "retry",
        delay |-> IF status = 429 /\ ~failed THEN Waiting(wish, attempt) ELSE Delays[attempt]]

-----------------------------------------------------------------------------
(* The loop of retryDelay, which never doubles past the cap, computes the  *)
(* smaller of base * 2^(attempt - 1) and the cap.                          *)
DelayIsCappedPower(Bases, Caps, Attempts) ==
  \A base \in Bases, cap \in Caps, attempt \in Attempts :
    LET power == base * 2^(attempt - 1) IN
      base <= cap => retryDelay(base, cap, attempt) = IF power < cap THEN power ELSE cap

(* Whatever a receiver answers, Classify lets a callback wait no longer    *)
(* than the longest delay and never past the last attempt, gives up at     *)
(* once on what no retry can mend, and retries all else.                   *)
ScheduleIsBounded(Codes, Wishes) ==
  \A status \in Codes, wish \in Wishes, failed \in BOOLEAN, attempt \in 1..MaxCallbackAttempts :
    LET outcome == Classify(status, wish, failed, attempt) IN
      /\ outcome.delay \in 0..MaxDelay
      /\ outcome.kind = "retry" <=>
           attempt < MaxCallbackAttempts /\ (failed \/ status \in {408, 425, 429} \/ status \div 100 = 5)
=============================================================================
