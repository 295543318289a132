------------------------------ MODULE MCOutbox ------------------------------
(* Outbox with sets of model values. *)
EXTENDS Outbox

CONSTANT BaseRetry

Policy == INSTANCE RetryPolicy

MCIds == MessageIds
MCRetryDelay == [n \in 1..MaxAttempts |-> Policy!retryDelay(BaseRetry, MaxRetry, n)]

(* retryDelay (outbox/dispatcher.go) computes the capped power of two.     *)
(* Looking once, in the initial state, is enough.                          *)
DelayIsCappedPower == Init => Policy!DelayIsCappedPower(1..10, {1, 5, 16, 30}, 1..7)
=============================================================================
