------------------------- MODULE MCCallbackPipeline -------------------------
(* CallbackPipeline with sets of model values. *)
EXTENDS CallbackPipeline, TLC

CONSTANT BaseRetry

Policy == INSTANCE RetryPolicy

MCIds == MessageIds
MCRetryDelay == [n \in 1..MaxAttempts |-> Policy!retryDelay(BaseRetry, MaxRetry, n)]

(* Classify (delivery/classify.go) bounds the attempts and the waiting.    *)
(* Looking once, in the initial state, is enough.                          *)
ScheduleIsBounded ==
  Init => Policy!ScheduleIsBounded({0, 200, 299, 302, 404, 408, 425, 429, 499, 500, 599, 600}, {-1, 0, 17, 300, 301})

Symmetry == Permutations(ClaimTokens) \cup Permutations(CallbackTokens) \cup Permutations(Workers)
=============================================================================
