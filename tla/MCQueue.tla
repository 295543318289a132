------------------------------ MODULE MCQueue ------------------------------
(* Queue with one policy, or with the policies of an ordered subscription. *)
EXTENDS Queue, TLC

CONSTANTS Attempts, Total, Capacity, Retry, Rate, Ordered

Only ==
  [maxAttempts |-> Attempts, visibility |-> 1, total |-> Total, inFlight |-> Capacity,
   batch |-> 2, retry |-> Retry, rate |-> Rate, ordered |-> Ordered,
   onSuccess |-> TRUE, onFailure |-> TRUE]

MCPolicies == {Only}
MCKeyOf == [m \in Messages |-> "k"]
Symmetry == Permutations(Receipts)
=============================================================================
