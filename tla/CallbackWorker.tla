--------------------------- MODULE CallbackWorker ---------------------------
(***************************************************************************)
(* worker/jetstream.go and store/postgres/callbacks.go: a bounded pool of  *)
(* workers takes messages from RH_CALLBACKS, reserves an attempt in        *)
(* PostgreSQL, makes the HTTP request, records the outcome and settles the *)
(* message; dead letters go to RH_DLQ first.                               *)
(*                                                                         *)
(* A worker is one slot of the pool: every call of process to the store,   *)
(* the receiver or the broker is a step.                                   *)
(***************************************************************************)
EXTENDS DeliveryStore, JetStream

CONSTANTS
  Workers,       \* slots of the pool
  FinishMargin,  \* the request ends this long before the lease
  MayRefuse,     \* whether the event may expire or the callback be disabled
  MaxErrors      \* bound: crashes and calls that fail

ASSUME FinishMarginAssumption == FinishMargin \in 1..(CallbackLease - 1)
ASSUME MayRefuseAssumption == MayRefuse \in BOOLEAN
ASSUME MaxErrorsAssumption == MaxErrors \in Nat

VARIABLES
  worker,     \* local state of process in every slot
  deadLetters,\* message ids in RH_DLQ
  requests,   \* history: HTTP requests per message id
  completed,  \* history: message ids recorded as delivered
  errors      \* failed calls and crashes so far

workerVars == <<worker, deadLetters, requests, completed, errors>>

Kinds == {"delivered", "retrying", "dead_letter"}
Free == [pc |-> "idle", msg |-> None, token |-> None, attempt |-> 0, timeLeft |-> 0,
         kind |-> None, delay |-> 0, live |-> FALSE]
WorkerStates ==
  [pc : {"idle", "begin", "send", "http", "finish", "publish", "mark", "ack", "nack"},
   msg : Messages \cup {None}, token : CallbackTokens \cup {None}, attempt : 0..MaxCallbacks,
   timeLeft : 0..CallbackLease, kind : Kinds \cup {None}, delay : 0..RetryAfter,
   live : BOOLEAN]

WorkerTypeOK ==
  /\ worker \in [Workers -> WorkerStates]
  /\ deadLetters \in SUBSET Ids
  /\ requests \in [Ids -> Nat]
  /\ completed \in SUBSET Ids
  /\ errors \in 0..MaxErrors

WorkerInit ==
  /\ worker = [k \in Workers |-> Free]
  /\ deadLetters = {}
  /\ requests = [id \in Ids |-> 0]
  /\ completed = {}
  /\ errors = 0

IdOf(k) == worker[k].msg[1]
DeliveryOf(k) == IdOf(k)[1]
GenerationOf(k) == IdOf(k)[2]

Goto(k, pc) == worker' = [worker EXCEPT ![k].pc = pc]
Leave(k) == worker' = [worker EXCEPT ![k] = Free]

FreshCallbackTokens ==
  CallbackTokens \ ({callback[d].token : d \in Deliveries} \cup {worker[k].token : k \in Workers})

(* timeLeft is what the worker's lease has left by its own clock. *)
BeforeDeadline(k) == worker[k].timeLeft > FinishMargin

(* A request is cancelled at its deadline, so no time passes beyond it. *)
WorkerTick ==
  /\ \A k \in Workers : worker[k].pc = "http" => BeforeDeadline(k)
  /\ worker' = [k \in Workers |->
       [worker[k] EXCEPT !.timeLeft = Down(@), !.delay = Down(@)]]
  /\ UNCHANGED <<deadLetters, requests, completed, errors>>

-----------------------------------------------------------------------------
(* handle: a free slot takes the message, a full pool gives it back. *)
Take(k, m) ==
  /\ worker[k].pc = "idle"
  /\ HandOut(m)
  /\ worker' = [worker EXCEPT ![k] = [Free EXCEPT !.pc = "begin", !.msg = m]]
  /\ UNCHANGED <<deadLetters, requests, completed, errors, storeVars>>

GiveBack(m) ==
  /\ \A k \in Workers : worker[k].pc # "idle"
  /\ messages[m] = "pending"
  /\ NackMessage(m)
  /\ UNCHANGED <<workerVars, storeVars>>

(* BeginCallbackAttempt, in the order of its checks. *)

Current(k) == row[DeliveryOf(k)].generation = GenerationOf(k)
Complete(d) == row[d].status \in {"acked", "delivered"}
DeadLetter(d) == row[d].status = "dead_letter"

\* mutants of Busy: the lease is not looked at; it never ends
BusyRetryOnly(d) == callback[d].retryIn > 0
BusyForEver(d) == callback[d].retryIn > 0 \/ callback[d].token # None

Busy(d) == callback[d].retryIn > 0 \/ (callback[d].token # None /\ callback[d].leaseIn > 0)

AttemptsSpent(d) == callback[d].attempts >= MaxCallbacks

Reservable(k) ==
  LET d == DeliveryOf(k) IN Current(k) /\ ~Complete(d) /\ ~DeadLetter(d) /\ ~Busy(d)

(* The event expired, the application takes no callbacks, or no attempt is *)
(* left: the delivery becomes a dead letter.                               *)
RefuseAttempt(d) ==
  /\ row' = [row EXCEPT ![d].status = "dead_letter"]
  /\ callback' = [callback EXCEPT ![d] = [@ EXCEPT !.token = None, !.leaseIn = 0]]
  /\ UNCHANGED <<assignment, outbox>>

ReserveAttempt(d, token) ==
  /\ row' = [row EXCEPT ![d].status = "dispatched"]
  /\ callback' = [callback EXCEPT ![d] =
       [@ EXCEPT !.attempts = callback[d].attempts + 1, !.token = token,
                 !.leaseIn = CallbackLease, !.retryIn = 0]]
  /\ UNCHANGED <<assignment, outbox>>

BeginCallbackAttempt(k) ==
  /\ worker[k].pc = "begin"
  /\ LET d == DeliveryOf(k) IN
       \/ /\ ~Current(k) \/ Complete(d)
          /\ Goto(k, "ack") /\ UNCHANGED storeVars
       \/ /\ Current(k) /\ DeadLetter(d)
          /\ Goto(k, IF callback[d].dlq THEN "ack" ELSE "publish") /\ UNCHANGED storeVars
       \/ /\ Current(k) /\ ~Complete(d) /\ ~DeadLetter(d) /\ Busy(d)
          /\ Goto(k, "nack") /\ UNCHANGED storeVars
       \/ /\ Reservable(k)
          /\ AttemptsSpent(d) \/ MayRefuse
          /\ RefuseAttempt(d)
          /\ Goto(k, IF callback[d].dlq THEN "ack" ELSE "publish")
       \/ /\ Reservable(k)
          /\ ~AttemptsSpent(d)
          /\ \E token \in FreshCallbackTokens :
               /\ ReserveAttempt(d, token)
               /\ worker' = [worker EXCEPT ![k] =
                    [@ EXCEPT !.pc = "send", !.token = token, !.attempt = callback[d].attempts + 1,
                              !.timeLeft = CallbackLease]]
  /\ UNCHANGED <<deadLetters, requests, completed, errors, streamVars>>

-----------------------------------------------------------------------------
(* Deliver: the request leaves only before its deadline; past it the       *)
(* client reports an error without sending.                                *)
Send(k) ==
  /\ worker[k].pc = "send"
  /\ BeforeDeadline(k)
  /\ requests' = [requests EXCEPT ![IdOf(k)] = @ + 1]
  /\ Goto(k, "http")
  /\ UNCHANGED <<deadLetters, completed, errors, storeVars, streamVars>>

(* What process makes of the answer: see Classify in RetryPolicy. *)
Outcomes(answer, attempt) ==
  CASE answer = "2xx" -> {<<"delivered", 0>>}
    [] answer = "retryable" /\ attempt < MaxCallbacks -> {"retrying"} \X (0..RetryAfter)
    [] OTHER -> {<<"dead_letter", 0>>}

(* The clock is read here: the lease is judged, and the delay counts, from *)
(* this instant, however late FinishCallbackAttempt comes.                 *)
Classified(k, answer) ==
  \E outcome \in Outcomes(answer, worker[k].attempt) :
    worker' = [worker EXCEPT ![k] =
      [@ EXCEPT !.pc = "finish", !.timeLeft = 0, !.live = worker[k].timeLeft > 0,
                !.kind = outcome[1], !.delay = outcome[2]]]

Answer(k) ==
  /\ worker[k].pc = "http"
  /\ \E answer \in {"2xx", "retryable", "permanent"} : Classified(k, answer)
  /\ UNCHANGED <<deadLetters, requests, completed, errors, storeVars, streamVars>>

DeadlinePassed(k) ==
  /\ worker[k].pc = "send"
  /\ ~BeforeDeadline(k)
  /\ Classified(k, "retryable")
  /\ UNCHANGED <<deadLetters, requests, completed, errors, storeVars, streamVars>>

(* The reservation is still this attempt's: the condition of the UPDATE in *)
(* FinishCallbackAttempt.  The status of the delivery is not part of it.   *)
HoldsAttempt(k) ==
  LET d == DeliveryOf(k) IN
    /\ Current(k)
    /\ callback[d].token = worker[k].token
    /\ callback[d].attempts = worker[k].attempt
    /\ worker[k].live

RecordOutcome(k) ==
  LET d == DeliveryOf(k) IN
    /\ row' = [row EXCEPT ![d].status = worker[k].kind]
    /\ callback' = [callback EXCEPT ![d] =
         [@ EXCEPT !.token = None, !.leaseIn = 0, !.retryIn = worker[k].delay]]
    /\ completed' = IF worker[k].kind = "delivered" THEN completed \cup {IdOf(k)} ELSE completed
    /\ UNCHANGED <<assignment, outbox>>

\* mutant of AfterFinish: the dead letter is acknowledged at once
AckEverything(kind) == IF kind = "retrying" THEN "nack" ELSE "ack"

AfterFinish(kind) ==
  CASE kind = "delivered" -> "ack" [] kind = "retrying" -> "nack" [] OTHER -> "publish"

FinishCallbackAttempt(k) ==
  /\ worker[k].pc = "finish"
  /\ \/ /\ HoldsAttempt(k)
        /\ RecordOutcome(k)
        /\ Goto(k, AfterFinish(worker[k].kind))
     \/ /\ ~HoldsAttempt(k)
        /\ Leave(k)
        /\ UNCHANGED <<storeVars, completed>>
  /\ UNCHANGED <<deadLetters, requests, errors, streamVars>>

(* publishDLQ: the dead letter is stored in RH_DLQ under an id of its own  *)
(* per generation, then the row records it, then the message is acked.     *)
PublishDLQ(k) ==
  /\ worker[k].pc = "publish"
  /\ deadLetters' = deadLetters \cup {IdOf(k)}
  /\ Goto(k, "mark")
  /\ UNCHANGED <<requests, completed, errors, storeVars, streamVars>>

\* mutant of Markable: the generation is not looked at
MarkableAnyGeneration(k) == DeadLetter(DeliveryOf(k))

Markable(k) == Current(k) /\ DeadLetter(DeliveryOf(k))

MarkCallbackDLQPublished(k) ==
  /\ worker[k].pc = "mark"
  /\ LET d == DeliveryOf(k) IN
       \/ /\ Markable(k)
          /\ callback' = [callback EXCEPT ![d].dlq = TRUE]
          /\ Goto(k, "ack")
       \/ /\ ~Markable(k)
          /\ Leave(k)
          /\ UNCHANGED callback
  /\ UNCHANGED <<deadLetters, requests, completed, errors, row, assignment, outbox, streamVars>>

Settle(k) ==
  /\ \/ worker[k].pc = "ack" /\ AckMessage(worker[k].msg)
     \/ worker[k].pc = "nack" /\ NackMessage(worker[k].msg)
  /\ Leave(k)
  /\ UNCHANGED <<deadLetters, requests, completed, errors, storeVars>>

-----------------------------------------------------------------------------
Error == errors < MaxErrors /\ errors' = errors + 1

(* BeginCallbackAttempt fails, or its answer is lost after the commit: the *)
(* message goes back to the stream.                                        *)
BeginFails(k) ==
  /\ Error
  /\ worker[k].pc \in {"begin", "send"}
  /\ Goto(k, "nack")
  /\ UNCHANGED <<deadLetters, requests, completed, storeVars, streamVars>>

(* The process dies, the shutdown timeout cancels it, or any later call    *)
(* fails, before or after its effect: process returns without settling.    *)
Die(k) ==
  /\ Error
  /\ worker[k].pc # "idle"
  /\ Leave(k)
  /\ UNCHANGED <<deadLetters, requests, completed, storeVars, streamVars>>

WorkerStep(k) ==
  \/ BeginCallbackAttempt(k)
  \/ Send(k)
  \/ Answer(k)
  \/ DeadlinePassed(k)
  \/ FinishCallbackAttempt(k)
  \/ PublishDLQ(k)
  \/ MarkCallbackDLQPublished(k)
  \/ Settle(k)
=============================================================================
