-------------------------- MODULE MCStreamPipeline --------------------------
(* StreamPipeline with sets of model values. *)
EXTENDS StreamPipeline, TLC

CONSTANT BaseRetry

Policy == INSTANCE RetryPolicy

MCIds == MessageIds
MCRetryDelay == [n \in 1..MaxAttempts |-> Policy!retryDelay(BaseRetry, MaxRetry, n)]

Symmetry == Permutations(ClaimTokens) \cup Permutations(AssignTokens) \cup Permutations(Connections)
=============================================================================
