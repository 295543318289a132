-------------------------- MODULE CallbackPipeline --------------------------
(***************************************************************************)
(* From the outbox to the HTTP receiver: dispatchers, the stream           *)
(* RH_CALLBACKS, the pool of callback workers, RH_DLQ and an operator.     *)
(***************************************************************************)
EXTENDS OutboxDispatcher, CallbackWorker

vars == <<storeVars, streamVars, dispatcherVars, workerVars>>

Init == StoreInit /\ StreamInit /\ DispatcherInit /\ WorkerInit

Tick == StoreTick /\ WorkerTick /\ UNCHANGED <<streamVars, dispatcherVars>>

Replay ==
  /\ \E ids \in SUBSET Deliveries : ReplayAdminDeadLetters(ids)
  /\ UNCHANGED <<streamVars, dispatcherVars, workerVars>>

StreamStep ==
  /\ \/ \E id \in MessageIds : ForgetDuplicate(id)
     \/ \E m \in Messages : ExpireMessage(m) \/ GiveBack(m)
  /\ UNCHANGED <<storeVars, dispatcherVars, workerVars>>

OutboxStep ==
  /\ \E w \in Dispatchers : ClaimOutbox(w) \/ DispatcherStep(w) \/ Crash(w)
  /\ UNCHANGED workerVars

CallbackStep ==
  /\ \E k \in Workers :
       \/ \E m \in Messages : Take(k, m)
       \/ WorkerStep(k)
       \/ BeginFails(k)
       \/ Die(k)
  /\ UNCHANGED dispatcherVars

Next ==
  \/ Tick
  \/ Replay
  \/ StreamStep
  \/ OutboxStep
  \/ CallbackStep

Spec == Init /\ [][Next]_vars

(* Time passes, the dispatchers poll and finish their batches, the broker  *)
(* hands ready messages to free slots and a started process goes on.  The  *)
(* strong fairness says that a claim, and a reservation, is not for ever   *)
(* left to go stale before the next step of its holder: both last 30 s.    *)
Fairness ==
  /\ WF_vars(Tick)
  /\ \A w \in Dispatchers :
       /\ WF_vars(ClaimOutbox(w) /\ UNCHANGED workerVars)
       /\ WF_vars(DispatcherStep(w) /\ UNCHANGED workerVars)
       /\ SF_vars(BeginOutboxPublish(w) /\ outbox' # outbox /\ UNCHANGED workerVars)
  /\ \A k \in Workers :
       /\ WF_vars(\E m \in Messages : Take(k, m) /\ UNCHANGED dispatcherVars)
       /\ WF_vars(WorkerStep(k) /\ UNCHANGED dispatcherVars)

FairSpec == Spec /\ Fairness

TypeOK == StoreTypeOK /\ StreamTypeOK /\ DispatcherTypeOK /\ WorkerTypeOK

(* A generation makes at most MaxCallbacks HTTP requests, whatever copies, *)
(* redeliveries, lost answers and crashes there are.                       *)
RequestsBounded == \A id \in MessageIds : requests[id] <= MaxCallbacks

(* The lease and the earlier deadline of the request keep the requests of  *)
(* one generation apart: two workers never wait for the receiver at once.  *)
RequestsDoNotOverlap ==
  \A j, k \in Workers :
    j # k /\ worker[j].pc = "http" /\ worker[k].pc = "http" => IdOf(j) # IdOf(k)

(* The requests of a generation come one after the other and are limited. *)
RequestsInTurn == TypeOK /\ RequestsBounded /\ RequestsDoNotOverlap

(* A message leaves RH_CALLBACKS only when the callback is recorded as     *)
(* delivered, when its dead letter is in RH_DLQ, or when a replay has      *)
(* replaced its generation.                                                *)
AckJustified ==
  \A m \in Messages :
    messages[m] = "acked" =>
      \/ m[1] \in completed \cup deadLetters
      \/ row[m[1][1]].generation > m[1][2]

(* The row records the dead letter only once RH_DLQ has it: a crash        *)
(* between the two repeats the publication and never skips it.             *)
RecordedDeadLetterExists ==
  \A d \in Deliveries : callback[d].dlq => <<d, row[d].generation>> \in deadLetters

(* Every dispatched callback is delivered, dead-lettered or replaced. *)
EventuallyResolved ==
  \A d \in Deliveries, g \in Generations :
    outbox[d].state = "dispatched" /\ row[d].generation = g
      ~> <<d, g>> \in completed \cup deadLetters \/ row[d].generation > g

(* docs/developer/reliability.md: "A crash after a successful transition   *)
(* but before ACK is recognized as complete and does not make another HTTP *)
(* request."                                                               *)
CompletedNotRepeated ==
  [][\A id \in completed : requests'[id] = requests[id]]_vars

-----------------------------------------------------------------------------
(* The inductive invariant behind the properties above. *)

(* What the locals of process hold at each point. *)
WorkerState ==
  \A k \in Workers :
    /\ worker[k].pc # "idle" => worker[k].msg \in Messages
    /\ worker[k].pc = "finish" => worker[k].kind \in Kinds
    /\ worker[k].pc = "http" => worker[k].timeLeft >= FinishMargin

(* Delivery and outbox row are of one generation, and no message, worker   *)
(* or request is of a later one.                                           *)
NothingAhead ==
  /\ \A d \in Deliveries : outbox[d].generation = row[d].generation
  /\ \A m \in Messages : messages[m] # "none" => m[1][2] <= row[m[1][1]].generation
  /\ \A k \in Workers : worker[k].pc # "idle" => GenerationOf(k) <= row[DeliveryOf(k)].generation
  /\ \A id \in MessageIds : id[2] > row[id[1]].generation => requests[id] = 0

(* A worker whose request is out, or may still leave. *)
Requesting(k) == worker[k].pc \in {"send", "http"} /\ worker[k].timeLeft > 0

TokensAreOwn ==
  \A j, k \in Workers : j # k /\ worker[j].token # None => worker[j].token # worker[k].token

(* The row keeps the reservation for as long as its holder counts on it. *)
LeaseIsHeld ==
  \A k \in Workers :
    Requesting(k) /\ Current(k) =>
      /\ callback[DeliveryOf(k)].token = worker[k].token /\ worker[k].token # None
      /\ worker[k].timeLeft <= callback[DeliveryOf(k)].leaseIn

RequestingAlone ==
  \A j, k \in Workers : j # k /\ Requesting(j) /\ Requesting(k) => IdOf(j) # IdOf(k)

(* An attempt that is reserved and whose request may still leave. *)
Unsent(id) ==
  \E k \in Workers : worker[k].pc = "send" /\ worker[k].timeLeft > 0 /\ IdOf(k) = id

(* Every request is paid for by an attempt of its generation. *)
RequestsAreReserved ==
  \A id \in MessageIds :
    requests[id] + (IF Unsent(id) THEN 1 ELSE 0) <=
      IF row[id[1]].generation = id[2] THEN callback[id[1]].attempts ELSE MaxCallbacks

(* The id is settled for good: delivered, a dead letter, or replaced. *)
Settled(id) == id \in completed \cup deadLetters \/ row[id[1]].generation > id[2]

SettledFirst ==
  /\ \A d \in Deliveries :
       /\ row[d].status # "acked"
       /\ row[d].status = "delivered" => <<d, row[d].generation>> \in completed
       /\ callback[d].dlq => <<d, row[d].generation>> \in deadLetters
  /\ \A k \in Workers :
       /\ worker[k].pc = "mark" => IdOf(k) \in deadLetters
       /\ worker[k].pc = "ack" => Settled(IdOf(k))
  /\ \A m \in Messages : messages[m] = "acked" => Settled(m[1])

CallbackInv ==
  /\ DispatchInv /\ WorkerTypeOK /\ WorkerState /\ NothingAhead
  /\ TokensAreOwn /\ LeaseIsHeld /\ RequestingAlone /\ RequestsAreReserved /\ SettledFirst
=============================================================================
