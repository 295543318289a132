--------------------------- MODULE DeliveryStore ---------------------------
(***************************************************************************)
(* The PostgreSQL tables deliveries and outbox: their columns that steer   *)
(* delivery, and what every transition of a delivery row is fenced by.     *)
(* Every transaction of store/postgres is one atomic step.                 *)
(*                                                                         *)
(* Time is relative: a column holding an instant is modelled by the time   *)
(* left until it (0: reached), the claim instant by its age, and Tick      *)
(* moves them all.  "expires_at > now" is expiresIn > 0.                   *)
(***************************************************************************)
EXTENDS Integers, FiniteSets

CONSTANTS
  Deliveries,      \* delivery ids; every delivery has one outbox row
  None,            \* SQL NULL
  ClaimTokens,     \* outbox claim tokens (random in the code)
  ClaimTTL,        \* a claim of this age is stale
  MaxRetry,        \* cap of the outbox retry delay
  MaxAttempts,     \* publish attempts of an outbox row
  Connections,     \* stream connection ids
  AssignTokens,    \* stream assignment tokens (random in the code)
  Lease,           \* stream assignment lease
  MaxProcessing,   \* stream assignment total processing time
  CallbackTokens,  \* callback attempt tokens (random in the code)
  CallbackLease,   \* callback attempt lease
  MaxCallbacks,    \* callback attempts of one generation (6 in the code)
  RetryAfter,      \* cap of the delay before a callback is tried again
  MaxGeneration    \* bound: generations an operator's replays reach

ASSUME ClaimTTLAssumption == ClaimTTL \in Nat \ {0}
ASSUME MaxRetryAssumption == MaxRetry \in Nat \ {0}
ASSUME MaxAttemptsAssumption == MaxAttempts \in Nat \ {0}
ASSUME LeaseAssumption == Lease \in Nat \ {0}
ASSUME MaxProcessingAssumption == MaxProcessing \in Nat /\ MaxProcessing >= Lease
ASSUME CallbackLeaseAssumption == CallbackLease \in Nat \ {0}
ASSUME MaxCallbacksAssumption == MaxCallbacks \in Nat \ {0}
ASSUME RetryAfterAssumption == RetryAfter \in Nat
ASSUME MaxGenerationAssumption == MaxGeneration \in Nat \ {0}
ASSUME NoneAssumption == None \notin ClaimTokens \cup Connections \cup AssignTokens \cup CallbackTokens

VARIABLES
  row,         \* deliveries: status, generation
  assignment,  \* deliveries: assigned_connection_id .. assignment_max_expires_at
  callback,    \* deliveries: attempts and callback_* columns
  outbox       \* outbox rows

storeVars == <<row, assignment, callback, outbox>>

Generations == 1..MaxGeneration
MessageIds == Deliveries \X Generations

(* Claim ages are told apart up to the point where a claim is stale and    *)
(* every retry delay counted from it has passed.                           *)
MaxAge == IF ClaimTTL > MaxRetry THEN ClaimTTL ELSE MaxRetry

Statuses == {"pending", "dispatched", "retrying", "acked", "delivered", "dead_letter"}

Rows == [status : Statuses, generation : Generations]
Assignments == [conn : Connections \cup {None}, token : AssignTokens \cup {None},
                expiresIn : 0..MaxProcessing, maxIn : 0..MaxProcessing]
Callbacks == [attempts : 0..MaxCallbacks, token : CallbackTokens \cup {None},
              leaseIn : 0..CallbackLease, retryIn : 0..RetryAfter, dlq : BOOLEAN]
OutboxRows == [generation : Generations, state : {"open", "dispatched", "failed"},
               claim : ClaimTokens \cup {None}, age : 0..MaxAge,
               availableIn : 0..MaxRetry, attempts : 0..MaxAttempts]

StoreTypeOK ==
  /\ row \in [Deliveries -> Rows]
  /\ assignment \in [Deliveries -> Assignments]
  /\ callback \in [Deliveries -> Callbacks]
  /\ outbox \in [Deliveries -> OutboxRows]

Unassigned == [conn |-> None, token |-> None, expiresIn |-> 0, maxIn |-> 0]
NoCallback == [attempts |-> 0, token |-> None, leaseIn |-> 0, retryIn |-> 0, dlq |-> FALSE]
NewOutbox(g) == [generation |-> g, state |-> "open", claim |-> None, age |-> 0,
                 availableIn |-> 0, attempts |-> 0]

(* insertDeliveryAndOutbox: both rows come into being in one transaction. *)
StoreInit ==
  /\ row = [d \in Deliveries |-> [status |-> "pending", generation |-> 1]]
  /\ assignment = [d \in Deliveries |-> Unassigned]
  /\ callback = [d \in Deliveries |-> NoCallback]
  /\ outbox = [d \in Deliveries |-> NewOutbox(1)]

Down(n) == IF n > 0 THEN n - 1 ELSE 0
Up(n) == IF n < MaxAge THEN n + 1 ELSE MaxAge
Shorter(m, n) == IF m < n THEN m ELSE n

(* One unit of time passes for every column that holds an instant. *)
StoreTick ==
  /\ assignment' = [d \in Deliveries |->
       [assignment[d] EXCEPT !.expiresIn = Down(@), !.maxIn = Down(@)]]
  /\ callback' = [d \in Deliveries |->
       [callback[d] EXCEPT !.leaseIn = Down(@), !.retryIn = Down(@)]]
  /\ outbox' = [d \in Deliveries |->
       [outbox[d] EXCEPT !.age = IF outbox[d].claim = None THEN 0 ELSE Up(@),
                         !.availableIn = Down(@)]]
  /\ UNCHANGED row

(* An operator replays dead letters: all of them or none, a new generation *)
(* of delivery and outbox row, every claim, lease and counter reset.       *)
ReplayAdminDeadLetters(ids) ==
  /\ ids # {}
  /\ \A d \in ids :
       /\ row[d].status = "dead_letter"
       /\ row[d].generation < MaxGeneration
       /\ outbox[d].generation = row[d].generation
  /\ row' = [d \in Deliveries |->
       IF d \in ids THEN [status |-> "pending", generation |-> row[d].generation + 1] ELSE row[d]]
  /\ assignment' = [d \in Deliveries |-> IF d \in ids THEN Unassigned ELSE assignment[d]]
  /\ callback' = [d \in Deliveries |-> IF d \in ids THEN NoCallback ELSE callback[d]]
  /\ outbox' = [d \in Deliveries |->
       IF d \in ids THEN NewOutbox(row[d].generation + 1) ELSE outbox[d]]
=============================================================================
