------------------------- MODULE QueueSubscription -------------------------
(***************************************************************************)
(* A row of queue_subscriptions: its policy and the switches that steer    *)
(* the queue.  Every operation is one atomic change here.  The code reads  *)
(* the row and writes it back under an optimistic version check;           *)
(* QueueAdmin models that and is shown to implement this module.           *)
(***************************************************************************)
EXTENDS Integers

CONSTANTS
  Policies,    \* the policies an owner may set
  MaxVersion   \* bound: versions of the row

(* What validQueueSubscription demands of a policy.  rate 0: unlimited. *)
ValidPolicies ==
  {p \in [maxAttempts : Nat, visibility : Nat, total : Nat, inFlight : Nat, batch : Nat,
          retry : Nat, rate : Nat, ordered : BOOLEAN, onSuccess : BOOLEAN, onFailure : BOOLEAN] :
     /\ p.maxAttempts > 0 /\ p.inFlight > 0 /\ p.batch > 0
     /\ p.visibility > 0 /\ p.total >= p.visibility}

ASSUME PoliciesAssumption == Policies \subseteq ValidPolicies /\ Policies # {}
ASSUME MaxVersionAssumption == MaxVersion \in Nat \ {0}

VARIABLE subscription

Subscriptions ==
  [exists : BOOLEAN, enabled : BOOLEAN, paused : BOOLEAN, draining : BOOLEAN, drained : BOOLEAN,
   policy : Policies, version : 1..MaxVersion]

CreateQueueSubscription ==
  \E p \in Policies, enabled \in BOOLEAN :
    subscription = [exists |-> TRUE, enabled |-> enabled, paused |-> FALSE, draining |-> FALSE,
                    drained |-> FALSE, policy |-> p, version |-> 1]

(* A new version of the row. *)
Revise(changed) ==
  /\ subscription.exists
  /\ subscription.version < MaxVersion
  /\ subscription' = [changed EXCEPT !.version = @ + 1]

(* Disabling also ends a pause. *)
Update(p, enabled) ==
  Revise([subscription EXCEPT !.policy = p, !.enabled = enabled,
                              !.paused = subscription.paused /\ enabled])

Pause(paused) ==
  /\ paused => subscription.enabled
  /\ Revise([subscription EXCEPT !.paused = paused])

BeginQueueDrain ==
  /\ ~subscription.draining
  /\ Revise([subscription EXCEPT !.draining = TRUE])

(* GetQueueDrain stores that the drain is complete. *)
CompleteDrain ==
  /\ subscription.exists
  /\ subscription.draining
  /\ ~subscription.drained
  /\ subscription' = [subscription EXCEPT !.drained = TRUE]

DeleteQueueSubscription ==
  /\ subscription.exists
  /\ subscription' = [subscription EXCEPT !.exists = FALSE]

Administer ==
  \/ \E p \in Policies, enabled \in BOOLEAN : Update(p, enabled)
  \/ \E paused \in BOOLEAN : Pause(paused)
  \/ BeginQueueDrain
  \/ DeleteQueueSubscription

SubscriptionSpec ==
  CreateQueueSubscription /\ [][Administer \/ CompleteDrain]_subscription
=============================================================================
