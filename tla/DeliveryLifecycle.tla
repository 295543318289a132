------------------------- MODULE DeliveryLifecycle -------------------------
(***************************************************************************)
(* What RelayHub promises about a delivery: it stays open until its        *)
(* receiver has it (done) or RelayHub gives it up (dead).  Done is for     *)
(* ever.  Only an operator reopens a dead letter, as a new generation.     *)
(***************************************************************************)
EXTENDS Naturals

CONSTANTS Deliveries

VARIABLES stage, generation

vars == <<stage, generation>>

Init ==
  /\ stage = [d \in Deliveries |-> "open"]
  /\ generation = [d \in Deliveries |-> 1]

Finish(d) ==
  /\ stage[d] = "open"
  /\ stage' = [stage EXCEPT ![d] = "done"]
  /\ UNCHANGED generation

(* Deliveries may be given up together. *)
GiveUp(ids) ==
  /\ \A d \in ids : stage[d] = "open"
  /\ stage' = [d \in Deliveries |-> IF d \in ids THEN "dead" ELSE stage[d]]
  /\ UNCHANGED generation

(* Dead letters are replayed together. *)
Reopen(ids) ==
  /\ \A d \in ids : stage[d] = "dead"
  /\ stage' = [d \in Deliveries |-> IF d \in ids THEN "open" ELSE stage[d]]
  /\ generation' = [d \in Deliveries |-> IF d \in ids THEN generation[d] + 1 ELSE generation[d]]

Next ==
  \/ \E d \in Deliveries : Finish(d)
  \/ \E ids \in SUBSET Deliveries : GiveUp(ids) \/ Reopen(ids)

Spec == Init /\ [][Next]_vars
=============================================================================
