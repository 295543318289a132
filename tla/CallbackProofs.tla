--------------------------- MODULE CallbackProofs ---------------------------
(***************************************************************************)
(* Proofs about the path from the outbox to the HTTP receiver, for any     *)
(* sets of deliveries, dispatchers, workers and tokens and any bounds:     *)
(* RequestsInTurn, AckJustified and RecordedDeadLetterExists.              *)
(*                                                                         *)
(* CallbackInv is kept in three parts: the types and generations, the      *)
(* reservations that keep requests apart, and what is settled.  What the   *)
(* dispatchers do is in DispatcherProofs.                                  *)
(***************************************************************************)
EXTENDS CallbackPipeline, DispatcherProofs

(* A message names a delivery and a generation. *)
LEMMA MessageParts ==
  ASSUME NEW m \in Messages
  PROVE  /\ m[1] \in Ids /\ m[1] \in MessageIds
         /\ m[1][1] \in Deliveries /\ m[1][2] \in Generations /\ m[1][2] \in Nat
         /\ m[1] = <<m[1][1], m[1][2]>>
BY IdsAssumption, ConstantTypes DEF Messages, MessageIds, Generations

LEMMA IdParts ==
  ASSUME NEW id \in MessageIds
  PROVE  /\ id \in Ids /\ id[1] \in Deliveries /\ id[2] \in Generations /\ id[2] \in Nat
         /\ id = <<id[1], id[2]>>
BY IdsAssumption, ConstantTypes DEF MessageIds, Generations

(* The bounds of the workers. *)
LEMMA WorkerConstants ==
  /\ FinishMargin \in Nat /\ FinishMargin > 0 /\ FinishMargin < CallbackLease
  /\ CallbackLease \in Nat /\ CallbackLease > 0 /\ CallbackLease \in 0..CallbackLease
  /\ MaxCallbacks \in Nat /\ RetryAfter \in Nat /\ MaxErrors \in Nat
BY FinishMarginAssumption, CallbackLeaseAssumption, MaxCallbacksAssumption, RetryAfterAssumption,
   MaxErrorsAssumption

LEMMA FreeWorker ==
  Free \in WorkerStates /\ Free.pc = "idle" /\ Free.token = None /\ Free.timeLeft = 0
BY Zenon, ConstantTypes DEF Free, WorkerStates

(* The parts of the types that the proofs below use. *)
LEMMA StoreParts ==
  ASSUME StoreTypeOK
  PROVE  /\ row \in [Deliveries -> Rows] /\ callback \in [Deliveries -> Callbacks]
         /\ \A d \in Deliveries :
              /\ row[d].generation \in Generations /\ row[d].generation \in Nat
              /\ callback[d].attempts \in Nat /\ callback[d].attempts <= MaxCallbacks
              /\ callback[d].leaseIn \in Nat
<1>1. row \in [Deliveries -> Rows] /\ callback \in [Deliveries -> Callbacks]
  BY Zenon DEF StoreTypeOK
<1>2. ASSUME NEW d \in Deliveries
      PROVE  row[d].generation \in Generations /\ row[d].generation \in Nat
  BY <1>1, ConstantTypes DEF Rows, Generations
<1>3. ASSUME NEW d \in Deliveries
      PROVE  /\ callback[d].attempts \in Nat /\ callback[d].attempts <= MaxCallbacks
             /\ callback[d].leaseIn \in Nat
  BY <1>1, ConstantTypes DEF Callbacks
<1> QED BY Zenon, <1>1, <1>2, <1>3

LEMMA WorkerParts ==
  ASSUME WorkerTypeOK, NEW k \in Workers
  PROVE  /\ worker[k] \in WorkerStates
         /\ worker[k].timeLeft \in Nat /\ worker[k].attempt \in Nat
         /\ worker[k].token \in CallbackTokens \cup {None}
         /\ worker[k].delay \in 0..RetryAfter
         /\ worker[k].kind \in Kinds \cup {None}
BY ConstantTypes DEF WorkerTypeOK, WorkerStates

-----------------------------------------------------------------------------
(* The statements of callbacks.go: what each does to its row. *)

(* The columns of other deliveries stay, and no generation changes. *)
OnlyTouches(d) ==
  /\ StoreTypeOK' /\ UNCHANGED outbox
  /\ \A e \in Deliveries : row'[e].generation = row[e].generation
  /\ \A e \in Deliveries : e # d => row'[e] = row[e] /\ callback'[e] = callback[e]

LEMMA RowUpdate ==
  ASSUME StoreTypeOK, NEW d \in Deliveries, NEW s \in Statuses, NEW b \in Callbacks,
         row' = [row EXCEPT ![d].status = s], callback' = [callback EXCEPT ![d] = b],
         UNCHANGED <<assignment, outbox>>
  PROVE  OnlyTouches(d) /\ row'[d].status = s /\ callback'[d] = b
<1>1. row \in [Deliveries -> Rows] /\ callback \in [Deliveries -> Callbacks]
  BY Zenon DEF StoreTypeOK
<1>2. /\ row' \in [Deliveries -> Rows] /\ row'[d].status = s
      /\ \A e \in Deliveries : row'[e].generation = row[e].generation
      /\ \A e \in Deliveries : e # d => row'[e] = row[e]
  BY Zenon, <1>1 DEF Rows
<1>3. /\ callback' \in [Deliveries -> Callbacks] /\ callback'[d] = b
      /\ \A e \in Deliveries : e # d => callback'[e] = callback[e]
  BY Zenon, <1>1
<1> QED BY Zenon, <1>2, <1>3 DEF OnlyTouches, StoreTypeOK

LEMMA RefuseMoves ==
  ASSUME StoreTypeOK, NEW d \in Deliveries, RefuseAttempt(d)
  PROVE  /\ OnlyTouches(d) /\ row'[d].status = "dead_letter"
         /\ callback'[d].attempts = callback[d].attempts /\ callback'[d].dlq = callback[d].dlq
<1> DEFINE b == [callback[d] EXCEPT !.token = None, !.leaseIn = 0]
<1>1. callback \in [Deliveries -> Callbacks]
  BY Zenon DEF StoreTypeOK
<1>2. b \in Callbacks /\ b.attempts = callback[d].attempts /\ b.dlq = callback[d].dlq
  BY Zenon, <1>1, ConstantTypes DEF Callbacks
<1>3. callback' = [callback EXCEPT ![d] = b] /\ row' = [row EXCEPT ![d].status = "dead_letter"]
      /\ UNCHANGED <<assignment, outbox>>
  BY Zenon, <1>1 DEF RefuseAttempt
<1> HIDE DEF b
<1> QED BY Zenon, <1>2, <1>3, RowUpdate DEF Statuses

LEMMA ReserveMoves ==
  ASSUME StoreTypeOK, NEW d \in Deliveries, NEW token \in CallbackTokens, ReserveAttempt(d, token),
         ~AttemptsSpent(d)
  PROVE  /\ OnlyTouches(d) /\ row'[d].status = "dispatched"
         /\ callback'[d].attempts = callback[d].attempts + 1
         /\ callback'[d].token = token /\ callback'[d].leaseIn = CallbackLease
         /\ callback'[d].dlq = callback[d].dlq
<1> DEFINE b == [callback[d] EXCEPT !.attempts = callback[d].attempts + 1, !.token = token,
                                    !.leaseIn = CallbackLease, !.retryIn = 0]
<1>1. callback \in [Deliveries -> Callbacks]
  BY Zenon DEF StoreTypeOK
<1>2. callback[d].attempts + 1 \in 0..MaxCallbacks
  BY <1>1, ConstantTypes DEF AttemptsSpent, Callbacks
<1>3. /\ b \in Callbacks /\ b.attempts = callback[d].attempts + 1 /\ b.token = token
      /\ b.leaseIn = CallbackLease /\ b.dlq = callback[d].dlq
  BY Zenon, <1>1, <1>2, ConstantTypes, WorkerConstants DEF Callbacks
<1>4. callback' = [callback EXCEPT ![d] = b] /\ row' = [row EXCEPT ![d].status = "dispatched"]
      /\ UNCHANGED <<assignment, outbox>>
  BY Zenon, <1>1 DEF ReserveAttempt
<1> HIDE DEF b
<1> QED BY Zenon, <1>3, <1>4, RowUpdate DEF Statuses

LEMMA RecordMoves ==
  ASSUME StoreTypeOK, WorkerTypeOK, WorkerState, NEW k \in Workers, worker[k].pc = "finish",
         DeliveryOf(k) \in Deliveries, RecordOutcome(k)
  PROVE  /\ OnlyTouches(DeliveryOf(k)) /\ row'[DeliveryOf(k)].status = worker[k].kind
         /\ callback'[DeliveryOf(k)].attempts = callback[DeliveryOf(k)].attempts
         /\ callback'[DeliveryOf(k)].dlq = callback[DeliveryOf(k)].dlq
<1> DEFINE d == DeliveryOf(k)
           b == [callback[d] EXCEPT !.token = None, !.leaseIn = 0, !.retryIn = worker[k].delay]
<1>1. callback \in [Deliveries -> Callbacks] /\ d \in Deliveries
  BY Zenon DEF StoreTypeOK
<1>2. callback' = [callback EXCEPT ![d] = b] /\ row' = [row EXCEPT ![d].status = worker[k].kind]
      /\ UNCHANGED <<assignment, outbox>>
  BY Zenon, <1>1 DEF RecordOutcome
<1> HIDE DEF d
<1>3. b \in Callbacks /\ b.attempts = callback[d].attempts /\ b.dlq = callback[d].dlq
  BY Zenon, <1>1, ConstantTypes, WorkerParts DEF Callbacks
<1>4. worker[k].kind \in Statuses
  BY Zenon DEF WorkerState, Kinds, Statuses
<1> HIDE DEF b
<1> QED BY Zenon, <1>1, <1>2, <1>3, <1>4, RowUpdate DEF d

LEMMA MarkMoves ==
  ASSUME StoreTypeOK, NEW d \in Deliveries, callback' = [callback EXCEPT ![d].dlq = TRUE],
         UNCHANGED <<row, assignment, outbox>>
  PROVE  /\ OnlyTouches(d) /\ row'[d].status = row[d].status
         /\ callback'[d].attempts = callback[d].attempts
         /\ callback'[d].token = callback[d].token /\ callback'[d].leaseIn = callback[d].leaseIn
<1>1. callback \in [Deliveries -> Callbacks]
  BY Zenon DEF StoreTypeOK
<1>2. /\ callback' \in [Deliveries -> Callbacks]
      /\ \A e \in Deliveries : e # d => callback'[e] = callback[e]
      /\ callback'[d].attempts = callback[d].attempts
      /\ callback'[d].token = callback[d].token /\ callback'[d].leaseIn = callback[d].leaseIn
  BY Zenon, <1>1 DEF Callbacks
<1> QED BY Zenon, <1>2 DEF OnlyTouches, StoreTypeOK

-----------------------------------------------------------------------------
(* The reservations. *)

Reservations == TokensAreOwn /\ LeaseIsHeld /\ RequestingAlone /\ RequestsAreReserved

UnsentNext(id) ==
  \E k \in Workers : worker'[k].pc = "send" /\ worker'[k].timeLeft > 0 /\ worker'[k].msg[1] = id

Budget(id) == IF row[id[1]].generation = id[2] THEN callback[id[1]].attempts ELSE MaxCallbacks

BudgetNext(id) == IF row'[id[1]].generation = id[2] THEN callback'[id[1]].attempts ELSE MaxCallbacks

LEMMA BudgetBefore ==
  ASSUME StoreTypeOK, WorkerTypeOK, RequestsAreReserved, NEW id \in MessageIds
  PROVE  /\ requests[id] \in Nat /\ Budget(id) \in Nat /\ Budget(id) <= MaxCallbacks
         /\ requests[id] <= Budget(id)
         /\ Unsent(id) => requests[id] + 1 <= Budget(id)
<1>1. requests[id] \in Nat /\ id[1] \in Deliveries
  BY Zenon, IdParts DEF WorkerTypeOK
<1>2. Budget(id) \in Nat /\ Budget(id) <= MaxCallbacks
  BY <1>1, StoreParts, WorkerConstants DEF Budget
<1>3. requests[id] + (IF Unsent(id) THEN 1 ELSE 0) <= Budget(id)
  BY Zenon DEF RequestsAreReserved, Budget
<1> HIDE DEF Unsent, Budget
<1> QED BY <1>1, <1>2, <1>3

LEMMA BudgetAfter ==
  ASSUME \A id \in MessageIds : requests'[id] + (IF UnsentNext(id) THEN 1 ELSE 0) <= BudgetNext(id)
  PROVE  RequestsAreReserved'
BY Zenon DEF RequestsAreReserved, UnsentNext, Unsent, BudgetNext, IdOf

LEMMA BudgetKeeps ==
  ASSUME StoreTypeOK, WorkerTypeOK, RequestsAreReserved, UNCHANGED requests,
         \A id \in MessageIds : (UnsentNext(id) => Unsent(id)) /\ Budget(id) <= BudgetNext(id)
                                  /\ BudgetNext(id) \in Nat
  PROVE  RequestsAreReserved'
<1>1. ASSUME NEW id \in MessageIds
      PROVE  requests'[id] + (IF UnsentNext(id) THEN 1 ELSE 0) <= BudgetNext(id)
  <2>1. /\ requests[id] \in Nat /\ Budget(id) \in Nat /\ requests[id] <= Budget(id)
        /\ Unsent(id) => requests[id] + 1 <= Budget(id)
    BY Zenon, BudgetBefore
  <2>2. (UnsentNext(id) => Unsent(id)) /\ Budget(id) <= BudgetNext(id) /\ BudgetNext(id) \in Nat
    BY Zenon
  <2> HIDE DEF Unsent, UnsentNext, Budget, BudgetNext
  <2> QED BY <2>1, <2>2
<1> QED BY Zenon, <1>1, BudgetAfter

(* Rows whose generation and attempts stay leave the budgets as they are. *)
LEMMA BudgetSame ==
  ASSUME StoreTypeOK,
         \A d \in Deliveries : /\ row'[d].generation = row[d].generation
                               /\ callback'[d].attempts = callback[d].attempts
  PROVE  \A id \in MessageIds :
           /\ Budget(id) <= BudgetNext(id) /\ BudgetNext(id) \in Nat /\ BudgetNext(id) = Budget(id)
<1> SUFFICES ASSUME NEW id \in MessageIds
             PROVE  Budget(id) <= BudgetNext(id) /\ BudgetNext(id) \in Nat /\ BudgetNext(id) = Budget(id)
  BY Zenon
<1>1. id[1] \in Deliveries
  BY Zenon, IdParts
<1>2. Budget(id) \in Nat /\ BudgetNext(id) = Budget(id)
  BY Zenon, <1>1, StoreParts, WorkerConstants DEF Budget, BudgetNext
<1> QED BY <1>2

(* Worker k makes no request after this step; the reservations of the      *)
(* others stay.                                                            *)
LEMMA RetireKeeps ==
  ASSUME StoreTypeOK, WorkerTypeOK, Reservations, NEW k \in Workers, NEW w,
         worker' = [worker EXCEPT ![k] = w], w.pc \notin {"send", "http"},
         w.token \in {worker[k].token, None}, UNCHANGED requests,
         \A d \in Deliveries : /\ row'[d].generation = row[d].generation
                               /\ callback'[d].attempts = callback[d].attempts,
         \A j \in Workers :
           j # k /\ Requesting(j) => DeliveryOf(j) \in Deliveries,
         \A j \in Workers :
           j # k /\ Requesting(j) /\ Current(j) =>
             /\ callback'[DeliveryOf(j)].token = callback[DeliveryOf(j)].token
             /\ callback'[DeliveryOf(j)].leaseIn = callback[DeliveryOf(j)].leaseIn
  PROVE  Reservations'
<1>1. worker'[k] = w /\ \A j \in Workers : j # k => worker'[j] = worker[j]
  BY Zenon DEF WorkerTypeOK
<1>2. TokensAreOwn'
  BY <1>1 DEF Reservations, TokensAreOwn
<1>3. ASSUME NEW j \in Workers, worker'[j].pc \in {"send", "http"}, worker'[j].timeLeft > 0
      PROVE  j # k /\ Requesting(j) /\ worker'[j] = worker[j]
  BY Zenon, <1>1, <1>3 DEF Requesting
<1>4. LeaseIsHeld'
  <2> SUFFICES ASSUME NEW j \in Workers, Requesting(j)', Current(j)'
               PROVE  /\ callback'[DeliveryOf(j)'].token = worker'[j].token /\ worker'[j].token # None
                      /\ worker'[j].timeLeft <= callback'[DeliveryOf(j)'].leaseIn
    BY Zenon DEF LeaseIsHeld
  <2>1. j # k /\ Requesting(j) /\ worker'[j] = worker[j]
    BY Zenon, <1>3 DEF Requesting
  <2>2. DeliveryOf(j)' = DeliveryOf(j) /\ GenerationOf(j)' = GenerationOf(j) /\ DeliveryOf(j) \in Deliveries
    BY Zenon, <2>1 DEF DeliveryOf, GenerationOf, IdOf
  <2>3. Current(j)
    BY Zenon, <2>2 DEF Current
  <2>4. /\ callback[DeliveryOf(j)].token = worker[j].token /\ worker[j].token # None
        /\ worker[j].timeLeft <= callback[DeliveryOf(j)].leaseIn
    BY Zenon, <2>1, <2>3 DEF Reservations, LeaseIsHeld
  <2> QED BY Zenon, <2>1, <2>2, <2>3, <2>4
<1>5. RequestingAlone'
  <2> SUFFICES ASSUME NEW i \in Workers, NEW j \in Workers, i # j, Requesting(i)', Requesting(j)'
               PROVE  worker'[i].msg[1] # worker'[j].msg[1]
    BY Zenon DEF RequestingAlone, IdOf
  <2>1. /\ Requesting(i) /\ worker'[i] = worker[i]
        /\ Requesting(j) /\ worker'[j] = worker[j]
    BY Zenon, <1>3 DEF Requesting
  <2> QED BY Zenon, <2>1 DEF Reservations, RequestingAlone, IdOf
<1>6. RequestsAreReserved'
  <2>1. \A id \in MessageIds : UnsentNext(id) => Unsent(id)
    BY Zenon, <1>3 DEF UnsentNext, Unsent, IdOf
  <2>2. \A id \in MessageIds : Budget(id) <= BudgetNext(id) /\ BudgetNext(id) \in Nat
    BY Zenon, BudgetSame
  <2> HIDE DEF Unsent, UnsentNext, Budget, BudgetNext
  <2> QED BY Zenon, <2>1, <2>2, BudgetKeeps DEF Reservations
<1> QED BY Zenon, <1>2, <1>4, <1>5, <1>6 DEF Reservations

(* A worker that requests has a message, so a delivery and a generation. *)
LEMMA RequestParts ==
  ASSUME WorkerState, NEW k \in Workers, worker[k].pc # "idle"
  PROVE  /\ worker[k].msg \in Messages
         /\ IdOf(k) \in MessageIds /\ IdOf(k) \in Ids /\ IdOf(k) = <<DeliveryOf(k), GenerationOf(k)>>
         /\ DeliveryOf(k) \in Deliveries
         /\ GenerationOf(k) \in Nat
<1>1. worker[k].msg \in Messages
  BY Zenon DEF WorkerState
<1> QED BY Zenon, <1>1, MessageParts DEF IdOf, DeliveryOf, GenerationOf

(* Nobody else counts on a lease that BeginCallbackAttempt finds ended. *)
LEMMA NotBusy ==
  ASSUME StoreTypeOK, WorkerTypeOK, WorkerState, Reservations, NEW d \in Deliveries, ~Busy(d),
         NEW j \in Workers, Requesting(j), Current(j)
  PROVE  DeliveryOf(j) # d
<1> SUFFICES ASSUME DeliveryOf(j) = d PROVE FALSE
  BY Zenon
<1>1. /\ callback[d].token = worker[j].token /\ worker[j].token # None
      /\ worker[j].timeLeft <= callback[d].leaseIn
  BY Zenon DEF Reservations, LeaseIsHeld
<1>2. worker[j].timeLeft > 0 /\ worker[j].timeLeft \in Nat /\ callback[d].leaseIn \in Nat
  BY Zenon, WorkerParts, StoreParts DEF Requesting
<1>3. callback[d].leaseIn > 0
  BY <1>1, <1>2
<1> QED BY Zenon, <1>1, <1>3 DEF Busy

LEMMA ReserveKeeps ==
  ASSUME StoreTypeOK, WorkerTypeOK, WorkerState, Reservations, NEW k \in Workers,
         worker[k].pc = "begin", Reservable(k), NEW token \in FreshCallbackTokens, NEW w,
         worker' = [worker EXCEPT ![k] = w], w.msg = worker[k].msg, w.token = token,
         w.timeLeft = CallbackLease, w.pc = "send", UNCHANGED requests, OnlyTouches(DeliveryOf(k)),
         callback'[DeliveryOf(k)].attempts = callback[DeliveryOf(k)].attempts + 1,
         callback'[DeliveryOf(k)].token = token,
         callback'[DeliveryOf(k)].leaseIn = CallbackLease
  PROVE  Reservations'
<1> DEFINE d == DeliveryOf(k)
<1>0. worker'[k] = w /\ \A j \in Workers : j # k => worker'[j] = worker[j]
  BY Zenon DEF WorkerTypeOK
<1>1. /\ d \in Deliveries /\ IdOf(k) \in MessageIds /\ IdOf(k) = <<d, GenerationOf(k)>>
      /\ row[d].generation = GenerationOf(k) /\ ~Busy(d)
  BY Zenon, RequestParts DEF Reservable, Current
<1>2. /\ token \in CallbackTokens /\ token # None
      /\ \A j \in Workers : worker[j].token # token
  BY Zenon, NoneAssumption DEF FreshCallbackTokens
<1>3. ASSUME NEW j \in Workers, j # k, Requesting(j)
      PROVE  IdOf(j) # IdOf(k) /\ (DeliveryOf(j) = d => ~Current(j))
             /\ DeliveryOf(j) \in Deliveries
             /\ (DeliveryOf(j) # d => row'[DeliveryOf(j)] = row[DeliveryOf(j)]
                                        /\ callback'[DeliveryOf(j)] = callback[DeliveryOf(j)])
  <2>1. DeliveryOf(j) \in Deliveries /\ IdOf(j) = <<DeliveryOf(j), GenerationOf(j)>>
    BY Zenon, <1>3, RequestParts DEF Requesting
  <2>2. DeliveryOf(j) = d => ~Current(j)
    BY Zenon, <1>1, <1>3, NotBusy
  <2>3. IdOf(j) # IdOf(k)
    BY Zenon, <1>1, <2>1, <2>2 DEF Current, DeliveryOf, GenerationOf
  <2> QED BY Zenon, <2>1, <2>2, <2>3 DEF OnlyTouches
<1>4. TokensAreOwn'
  BY <1>0, <1>2 DEF Reservations, TokensAreOwn
<1>5. LeaseIsHeld'
  <2> SUFFICES ASSUME NEW j \in Workers, Requesting(j)', Current(j)'
               PROVE  /\ callback'[DeliveryOf(j)'].token = worker'[j].token /\ worker'[j].token # None
                      /\ worker'[j].timeLeft <= callback'[DeliveryOf(j)'].leaseIn
    BY Zenon DEF LeaseIsHeld
  <2>1. CASE j = k
    <3>1. DeliveryOf(j)' = d
      BY Zenon, <1>0, <2>1 DEF DeliveryOf, IdOf
    <3> QED BY <1>0, <1>2, <2>1, <3>1, WorkerConstants
  <2>2. CASE j # k
    <3>1. worker'[j] = worker[j] /\ Requesting(j)
      BY Zenon, <1>0, <2>2 DEF Requesting
    <3>2. DeliveryOf(j)' = DeliveryOf(j) /\ GenerationOf(j)' = GenerationOf(j)
      BY Zenon, <3>1 DEF DeliveryOf, GenerationOf, IdOf
    <3>3. row'[DeliveryOf(j)].generation = row[DeliveryOf(j)].generation
      BY Zenon, <1>3, <2>2, <3>1 DEF OnlyTouches
    <3>4. Current(j)
      BY Zenon, <3>2, <3>3 DEF Current
    <3>5. callback'[DeliveryOf(j)] = callback[DeliveryOf(j)]
      BY Zenon, <1>3, <2>2, <3>1, <3>4
    <3> QED BY Zenon, <3>1, <3>2, <3>4, <3>5 DEF Reservations, LeaseIsHeld
  <2> QED BY Zenon, <2>1, <2>2
<1>6. RequestingAlone'
  <2> SUFFICES ASSUME NEW i \in Workers, NEW j \in Workers, i # j, Requesting(i)', Requesting(j)'
               PROVE  worker'[i].msg[1] # worker'[j].msg[1]
    BY Zenon DEF RequestingAlone, IdOf
  <2>1. ASSUME NEW v \in Workers, v # k, Requesting(v)'
        PROVE  Requesting(v) /\ worker'[v] = worker[v] /\ worker[v].msg[1] # worker[k].msg[1]
    <3>1. worker'[v] = worker[v] /\ Requesting(v)
      BY Zenon, <1>0, <2>1 DEF Requesting
    <3> QED BY Zenon, <1>3, <2>1, <3>1 DEF IdOf
  <2>2. CASE i = k \/ j = k
    BY <1>0, <2>1, <2>2
  <2>3. CASE i # k /\ j # k
    BY <2>1, <2>3 DEF Reservations, RequestingAlone, IdOf
  <2> QED BY Zenon, <2>2, <2>3
<1>7. RequestsAreReserved'
  <2>1. ASSUME NEW id \in MessageIds
        PROVE  requests'[id] + (IF UnsentNext(id) THEN 1 ELSE 0) <= BudgetNext(id)
    <3>1. /\ requests[id] \in Nat /\ Budget(id) \in Nat /\ requests[id] <= Budget(id)
          /\ Unsent(id) => requests[id] + 1 <= Budget(id)
      BY Zenon, BudgetBefore DEF Reservations
    <3>2. CASE id = IdOf(k)
      <4>1. id[1] = d /\ id[2] = GenerationOf(k)
        BY <1>1, <3>2
      <4>2. Budget(id) = callback[d].attempts /\ BudgetNext(id) = callback[d].attempts + 1
        BY Zenon, <1>1, <4>1 DEF Budget, BudgetNext, OnlyTouches
      <4> HIDE DEF Budget, BudgetNext, UnsentNext
      <4> QED BY <3>1, <4>2
    <3>3. CASE id # IdOf(k)
      <4>1. UnsentNext(id) => Unsent(id)
        BY <1>0, <3>3 DEF UnsentNext, Unsent, IdOf
      <4>2. BudgetNext(id) = Budget(id)
        <5>1. id[1] \in Deliveries /\ id = <<id[1], id[2]>>
          BY Zenon, IdParts
        <5>2. CASE id[1] # d
          BY Zenon, <5>1, <5>2 DEF Budget, BudgetNext, OnlyTouches
        <5>3. CASE id[1] = d
          <6>1. row[d].generation # id[2] /\ row'[d].generation = row[d].generation
            BY Zenon, <1>1, <3>3, <5>1, <5>3 DEF OnlyTouches
          <6> QED BY Zenon, <5>3, <6>1 DEF Budget, BudgetNext
        <5> QED BY Zenon, <5>2, <5>3
      <4> HIDE DEF Budget, BudgetNext, UnsentNext, Unsent
      <4> QED BY <3>1, <4>1, <4>2
    <3> QED BY Zenon, <3>2, <3>3
  <2> QED BY Zenon, <2>1, BudgetAfter
<1> QED BY Zenon, <1>4, <1>5, <1>6, <1>7 DEF Reservations

(* Send uses up the attempt that worker k has reserved. *)
LEMMA SendKeeps ==
  ASSUME StoreTypeOK, WorkerTypeOK, WorkerState, Reservations, NEW k \in Workers, Send(k)
  PROVE  Reservations'
<1> DEFINE w == [worker[k] EXCEPT !.pc = "http"]
<1>0. /\ worker[k].pc = "send" /\ worker[k].timeLeft > 0 /\ UNCHANGED <<row, callback>>
      /\ requests' = [requests EXCEPT ![IdOf(k)] = @ + 1]
      /\ worker' = [worker EXCEPT ![k] = w]
  <2>1. worker[k].timeLeft > FinishMargin /\ worker[k].timeLeft \in Nat
    BY Zenon, WorkerParts DEF Send, BeforeDeadline
  <2> QED BY <2>1, WorkerConstants DEF Send, Goto, storeVars, WorkerTypeOK
<1>1. w.pc = "http" /\ w.msg = worker[k].msg /\ w.token = worker[k].token /\ w.timeLeft = worker[k].timeLeft
  BY Zenon, WorkerParts DEF WorkerStates
<1>2. worker'[k] = w /\ \A j \in Workers : j # k => worker'[j] = worker[j]
  BY Zenon, <1>0 DEF WorkerTypeOK
<1> HIDE DEF w
<1>3. ASSUME NEW j \in Workers
      PROVE  /\ worker'[j].msg = worker[j].msg /\ worker'[j].token = worker[j].token
             /\ worker'[j].timeLeft = worker[j].timeLeft
             /\ worker'[j].pc \in {"send", "http"} <=> worker[j].pc \in {"send", "http"}
  BY Zenon, <1>0, <1>1, <1>2
<1>4. TokensAreOwn' /\ RequestingAlone'
  BY <1>3 DEF Reservations, TokensAreOwn, RequestingAlone, Requesting, IdOf
<1>5. LeaseIsHeld'
  <2> SUFFICES ASSUME NEW j \in Workers, Requesting(j)', Current(j)'
               PROVE  /\ callback'[DeliveryOf(j)'].token = worker'[j].token /\ worker'[j].token # None
                      /\ worker'[j].timeLeft <= callback'[DeliveryOf(j)'].leaseIn
    BY Zenon DEF LeaseIsHeld
  <2>1. /\ Requesting(j) /\ DeliveryOf(j)' = DeliveryOf(j) /\ GenerationOf(j)' = GenerationOf(j)
    BY Zenon, <1>3 DEF Requesting, DeliveryOf, GenerationOf, IdOf
  <2>2. Current(j)
    BY Zenon, <1>0, <2>1 DEF Current
  <2>3. /\ callback[DeliveryOf(j)].token = worker[j].token /\ worker[j].token # None
        /\ worker[j].timeLeft <= callback[DeliveryOf(j)].leaseIn
    BY Zenon, <2>1, <2>2 DEF Reservations, LeaseIsHeld
  <2> QED BY Zenon, <1>0, <1>3, <2>1, <2>3
<1>6. RequestsAreReserved'
  <2>0. Requesting(k) /\ IdOf(k) \in Ids
    BY Zenon, <1>0, RequestParts DEF Requesting
  <2>1. ASSUME NEW id \in MessageIds
        PROVE  requests'[id] + (IF UnsentNext(id) THEN 1 ELSE 0) <= BudgetNext(id)
    <3>1. /\ requests[id] \in Nat /\ Budget(id) \in Nat /\ requests[id] <= Budget(id)
          /\ Unsent(id) => requests[id] + 1 <= Budget(id)
      BY Zenon, BudgetBefore DEF Reservations
    <3>2. BudgetNext(id) = Budget(id)
      BY Zenon, <1>0 DEF Budget, BudgetNext
    <3>3. CASE id = IdOf(k)
      <4>1. ~UnsentNext(id)
        <5> SUFFICES ASSUME NEW j \in Workers, worker'[j].pc = "send", worker'[j].timeLeft > 0,
                            worker'[j].msg[1] = id
                     PROVE  FALSE
          BY Zenon DEF UnsentNext
        <5>1. j # k /\ Requesting(j) /\ IdOf(j) = IdOf(k)
          BY Zenon, <1>1, <1>2, <3>3 DEF Requesting, IdOf
        <5> QED BY Zenon, <2>0, <5>1 DEF Reservations, RequestingAlone
      <4>2. Unsent(id)
        BY Zenon, <1>0, <3>3 DEF Unsent
      <4>3. requests'[id] = requests[id] + 1
        BY Zenon, <1>0, <2>0, <3>3 DEF WorkerTypeOK
      <4> HIDE DEF Budget, BudgetNext, UnsentNext, Unsent
      <4> QED BY <3>1, <3>2, <4>1, <4>2, <4>3
    <3>4. CASE id # IdOf(k)
      <4>1. UnsentNext(id) => Unsent(id)
        BY Zenon, <1>1, <1>2, <1>3 DEF UnsentNext, Unsent, IdOf
      <4>2. requests'[id] = requests[id]
        BY Zenon, <1>0, <3>4, IdParts DEF WorkerTypeOK
      <4> HIDE DEF Budget, BudgetNext, UnsentNext, Unsent
      <4> QED BY <3>1, <3>2, <4>1, <4>2
    <3> QED BY Zenon, <3>3, <3>4
  <2> QED BY Zenon, <2>1, BudgetAfter
<1> QED BY Zenon, <1>4, <1>5, <1>6 DEF Reservations

(* Time passes for the row and for the worker alike. *)
LEMMA TickKeepsReservations ==
  ASSUME StoreTypeOK, WorkerTypeOK, WorkerState, Reservations, StoreTick, WorkerTick
  PROVE  Reservations'
<1>0. UNCHANGED <<row, requests>>
  BY Zenon DEF StoreTick, WorkerTick
<1>1. ASSUME NEW j \in Workers
      PROVE  /\ worker'[j].msg = worker[j].msg /\ worker'[j].token = worker[j].token
             /\ worker'[j].pc = worker[j].pc /\ worker'[j].timeLeft = Down(worker[j].timeLeft)
             /\ worker[j].timeLeft \in Nat
  <2>1. worker'[j] = [worker[j] EXCEPT !.timeLeft = Down(@), !.delay = Down(@)]
    BY Zenon DEF WorkerTick
  <2>2. worker[j] \in WorkerStates /\ worker[j].timeLeft \in Nat
    BY Zenon, WorkerParts
  <2> HIDE DEF Down
  <2> QED BY Zenon, <2>1, <2>2 DEF WorkerStates
<1>2. ASSUME NEW d \in Deliveries
      PROVE  /\ callback'[d].token = callback[d].token /\ callback'[d].attempts = callback[d].attempts
             /\ callback'[d].leaseIn = Down(callback[d].leaseIn) /\ callback[d].leaseIn \in Nat
  <2>1. callback'[d] = [callback[d] EXCEPT !.leaseIn = Down(@), !.retryIn = Down(@)]
    BY Zenon DEF StoreTick
  <2>2. callback[d] \in Callbacks /\ callback[d].leaseIn \in Nat
    BY Zenon, StoreParts
  <2> HIDE DEF Down
  <2> QED BY Zenon, <2>1, <2>2 DEF Callbacks
<1>3. ASSUME NEW j \in Workers, worker'[j].timeLeft > 0
      PROVE  worker[j].timeLeft > 0
  BY <1>1, <1>3 DEF Down
<1>4. \A j \in Workers : Requesting(j)' => Requesting(j)
  BY Zenon, <1>1, <1>3 DEF Requesting
<1>5. TokensAreOwn' /\ RequestingAlone'
  BY <1>1, <1>4 DEF Reservations, TokensAreOwn, RequestingAlone, IdOf
<1>6. LeaseIsHeld'
  <2> SUFFICES ASSUME NEW j \in Workers, Requesting(j)', Current(j)'
               PROVE  /\ callback'[DeliveryOf(j)'].token = worker'[j].token /\ worker'[j].token # None
                      /\ worker'[j].timeLeft <= callback'[DeliveryOf(j)'].leaseIn
    BY Zenon DEF LeaseIsHeld
  <2>1. Requesting(j) /\ DeliveryOf(j)' = DeliveryOf(j) /\ GenerationOf(j)' = GenerationOf(j)
    BY Zenon, <1>1, <1>4 DEF DeliveryOf, GenerationOf, IdOf
  <2>2. Current(j) /\ DeliveryOf(j) \in Deliveries
    BY Zenon, <1>0, <2>1, RequestParts DEF Current, Requesting
  <2>3. /\ callback[DeliveryOf(j)].token = worker[j].token /\ worker[j].token # None
        /\ worker[j].timeLeft <= callback[DeliveryOf(j)].leaseIn
    BY Zenon, <2>1, <2>2 DEF Reservations, LeaseIsHeld
  <2>4. Down(worker[j].timeLeft) <= Down(callback[DeliveryOf(j)].leaseIn)
    BY <1>1, <1>2, <2>2, <2>3 DEF Down
  <2> QED BY Zenon, <1>1, <1>2, <2>1, <2>2, <2>3, <2>4
<1>7. RequestsAreReserved'
  <2>1. \A id \in MessageIds : UnsentNext(id) => Unsent(id)
    BY Zenon, <1>1, <1>3 DEF UnsentNext, Unsent, IdOf
  <2>2. \A id \in MessageIds : Budget(id) <= BudgetNext(id) /\ BudgetNext(id) \in Nat
    BY Zenon, <1>0, <1>2, BudgetSame
  <2> HIDE DEF Unsent, UnsentNext, Budget, BudgetNext
  <2> QED BY Zenon, <1>0, <2>1, <2>2, BudgetKeeps DEF Reservations
<1> QED BY Zenon, <1>5, <1>6, <1>7 DEF Reservations

(* A replay takes the generation away from every worker that requests. *)
LEMMA ReplayKeepsReservations ==
  ASSUME StoreTypeOK, WorkerTypeOK, WorkerState, NothingAhead, Reservations,
         NEW ids \in SUBSET Deliveries, ReplayAdminDeadLetters(ids), UNCHANGED workerVars
  PROVE  Reservations'
<1>0. UNCHANGED worker /\ UNCHANGED requests
  BY Zenon DEF workerVars
<1>1. ASSUME NEW d \in Deliveries
      PROVE  \/ row'[d] = row[d] /\ callback'[d] = callback[d]
             \/ /\ row'[d].generation = row[d].generation + 1 /\ callback'[d].attempts = 0
                /\ row[d].generation \in Nat
  <2>1. row[d].generation \in Nat
    BY Zenon, StoreParts
  <2> QED BY Zenon, <2>1 DEF ReplayAdminDeadLetters, NoCallback
<1>2. TokensAreOwn' /\ RequestingAlone'
  BY Zenon, <1>0 DEF Reservations, TokensAreOwn, RequestingAlone, Requesting, IdOf
<1>3. ASSUME NEW j \in Workers, worker[j].pc # "idle", row'[DeliveryOf(j)].generation = GenerationOf(j)
      PROVE  /\ row'[DeliveryOf(j)] = row[DeliveryOf(j)]
             /\ callback'[DeliveryOf(j)] = callback[DeliveryOf(j)]
  <2>1. DeliveryOf(j) \in Deliveries /\ GenerationOf(j) \in Nat
    BY Zenon, <1>3, RequestParts
  <2>2. GenerationOf(j) <= row[DeliveryOf(j)].generation
    BY Zenon, <1>3 DEF NothingAhead
  <2> HIDE DEF DeliveryOf, GenerationOf
  <2> QED BY <1>1, <1>3, <2>1, <2>2
<1>4. LeaseIsHeld'
  <2> SUFFICES ASSUME NEW j \in Workers, Requesting(j), row'[DeliveryOf(j)].generation = GenerationOf(j)
               PROVE  /\ callback'[DeliveryOf(j)].token = worker[j].token /\ worker[j].token # None
                      /\ worker[j].timeLeft <= callback'[DeliveryOf(j)].leaseIn
    BY Zenon, <1>0 DEF LeaseIsHeld, Requesting, Current, DeliveryOf, GenerationOf, IdOf
  <2>1. worker[j].pc # "idle"
    BY Zenon DEF Requesting
  <2>2. Current(j)
    BY Zenon, <1>3, <2>1 DEF Current
  <2> QED BY Zenon, <1>3, <2>1, <2>2 DEF Reservations, LeaseIsHeld
<1>5. RequestsAreReserved'
  <2>1. ASSUME NEW id \in MessageIds
        PROVE  requests'[id] + (IF UnsentNext(id) THEN 1 ELSE 0) <= BudgetNext(id)
    <3>1. /\ requests[id] \in Nat /\ Budget(id) \in Nat /\ requests[id] <= Budget(id)
          /\ Budget(id) <= MaxCallbacks
          /\ Unsent(id) => requests[id] + 1 <= Budget(id)
      BY Zenon, BudgetBefore DEF Reservations
    <3>2. UnsentNext(id) <=> Unsent(id)
      BY Zenon, <1>0 DEF UnsentNext, Unsent, IdOf
    <3>3. id[1] \in Deliveries /\ id[2] \in Nat
      BY Zenon, IdParts
    <3>4. CASE row'[id[1]] = row[id[1]] /\ callback'[id[1]] = callback[id[1]]
      <4>1. BudgetNext(id) = Budget(id)
        BY Zenon, <3>4 DEF Budget, BudgetNext
      <4> HIDE DEF Budget, BudgetNext, UnsentNext, Unsent
      <4> QED BY <1>0, <3>1, <3>2, <4>1
    <3>5. CASE /\ row'[id[1]].generation = row[id[1]].generation + 1 /\ callback'[id[1]].attempts = 0
               /\ row[id[1]].generation \in Nat
      <4>1. CASE id[2] # row[id[1]].generation + 1
        <5>1. BudgetNext(id) = MaxCallbacks
          BY Zenon, <3>5, <4>1 DEF BudgetNext
        <5> HIDE DEF Budget, BudgetNext, UnsentNext, Unsent
        <5> QED BY <1>0, <3>1, <3>2, <5>1, WorkerConstants
      <4>2. CASE id[2] = row[id[1]].generation + 1
        <5>1. BudgetNext(id) = 0
          BY Zenon, <3>5, <4>2 DEF BudgetNext
        <5>2. requests[id] = 0
          BY <3>5, <4>2 DEF NothingAhead
        <5>3. ~Unsent(id)
          <6> SUFFICES ASSUME NEW j \in Workers, worker[j].pc = "send", IdOf(j) = id
                       PROVE  FALSE
            BY Zenon DEF Unsent
          <6>1. GenerationOf(j) <= row[DeliveryOf(j)].generation
            BY Zenon DEF NothingAhead
          <6> QED BY <3>3, <3>5, <4>2, <6>1 DEF GenerationOf, DeliveryOf
        <5> HIDE DEF Budget, BudgetNext, UnsentNext, Unsent
        <5> QED BY <1>0, <3>2, <5>1, <5>2, <5>3
      <4> QED BY Zenon, <4>1, <4>2
    <3> QED BY Zenon, <1>1, <3>3, <3>4, <3>5
  <2> QED BY Zenon, <2>1, BudgetAfter
<1> QED BY Zenon, <1>2, <1>4, <1>5 DEF Reservations

-----------------------------------------------------------------------------
(* A step of one worker. *)

SettledNext(id) == id \in completed' \cup deadLetters' \/ row'[id[1]].generation > id[2]

(* process goes on to a well-formed state w. *)
WorkerTo(k, w) ==
  /\ w \in WorkerStates
  /\ worker' = [worker EXCEPT ![k] = w]
  /\ w.pc # "idle" => w.msg \in Messages /\ w.msg[1][2] <= row[w.msg[1][1]].generation
  /\ w.pc = "finish" => w.kind \in Kinds
  /\ w.pc = "http" => w.timeLeft >= FinishMargin
  /\ w.pc = "mark" => w.msg[1] \in deadLetters'
  /\ w.pc = "ack" => SettledNext(w.msg[1])

(* The histories and RH_DLQ only grow, and nothing of a later generation   *)
(* is requested.                                                           *)
HistoryGrows ==
  /\ completed' \in SUBSET Ids /\ completed \subseteq completed'
  /\ deadLetters' \in SUBSET Ids /\ deadLetters \subseteq deadLetters'
  /\ requests' \in [Ids -> Nat] /\ errors' \in 0..MaxErrors
  /\ \A id \in MessageIds : requests'[id] = requests[id] \/ id[2] <= row[id[1]].generation

(* No generation changes, and a row says delivered or dead letter only of  *)
(* what is recorded.                                                       *)
RowsAreTrue ==
  /\ StoreTypeOK' /\ UNCHANGED outbox
  /\ \A d \in Deliveries :
       /\ row'[d].generation = row[d].generation
       /\ row'[d].status # "acked"
       /\ row'[d].status = "delivered" => <<d, row[d].generation>> \in completed'
       /\ callback'[d].dlq => <<d, row[d].generation>> \in deadLetters'

(* The stream acknowledges what is settled. *)
BrokerIsTrue ==
  /\ StreamTypeOK' /\ window' \subseteq window /\ StoredStays
  /\ \A m \in Messages : /\ messages'[m] # "none" => messages[m] # "none"
                         /\ messages'[m] = "acked" => messages[m] = "acked" \/ Settled(m[1])

LEMMA WorkerMoveKeeps ==
  ASSUME CallbackInv, NEW k \in Workers, NEW w, WorkerTo(k, w), HistoryGrows, RowsAreTrue,
         BrokerIsTrue, UNCHANGED dispatcherVars, Reservations'
  PROVE  CallbackInv'
<1>0. /\ DispatchInv /\ StoreTypeOK /\ WorkerTypeOK /\ WorkerState /\ NothingAhead /\ SettledFirst
  BY Zenon DEF CallbackInv, DispatchInv, PathTypeOK
<1>1. worker'[k] = w /\ \A j \in Workers : j # k => worker'[j] = worker[j]
  BY Zenon, <1>0 DEF WorkerTo, WorkerTypeOK
<1>2. DispatchInv'
  BY Zenon, <1>0, OutboxUntouched, OthersKeep DEF RowsAreTrue, BrokerIsTrue, dispatcherVars
<1>3. WorkerTypeOK'
  BY Zenon, <1>0 DEF WorkerTypeOK, WorkerTo, HistoryGrows
<1>4. WorkerState'
  BY Zenon, <1>0, <1>1 DEF WorkerState, WorkerTo
<1>5. ASSUME NEW id \in MessageIds, Settled(id)
      PROVE  SettledNext(id)
  BY Zenon, <1>5, IdParts DEF Settled, SettledNext, HistoryGrows, RowsAreTrue
<1>6. NothingAhead'
  <2>1. ASSUME NEW j \in Workers, worker'[j].pc # "idle"
        PROVE  worker'[j].msg[1][2] <= row'[worker'[j].msg[1][1]].generation
    <3>1. worker'[j].msg \in Messages
      BY Zenon, <1>4, <2>1 DEF WorkerState
    <3>2. worker'[j].msg[1][2] <= row[worker'[j].msg[1][1]].generation
      BY Zenon, <1>0, <1>1, <2>1 DEF NothingAhead, WorkerTo, GenerationOf, DeliveryOf, IdOf
    <3> QED BY Zenon, <3>1, <3>2, MessageParts DEF RowsAreTrue
  <2>2. ASSUME NEW m \in Messages, messages'[m] # "none"
        PROVE  m[1][2] <= row'[m[1][1]].generation
    BY Zenon, <1>0, <2>2, MessageParts DEF NothingAhead, RowsAreTrue, BrokerIsTrue
  <2>3. ASSUME NEW id \in MessageIds, id[2] > row'[id[1]].generation
        PROVE  requests'[id] = 0
    <3>1. /\ id[1] \in Deliveries /\ id[2] \in Nat /\ row[id[1]].generation \in Nat
          /\ row'[id[1]].generation = row[id[1]].generation
      BY Zenon, <1>0, IdParts, StoreParts DEF RowsAreTrue
    <3>2. requests'[id] = requests[id] \/ id[2] <= row[id[1]].generation
      BY Zenon DEF HistoryGrows
    <3> QED BY <1>0, <2>3, <3>1, <3>2 DEF NothingAhead
  <2>4. \A d \in Deliveries : outbox'[d].generation = row'[d].generation
    BY Zenon, <1>0 DEF NothingAhead, RowsAreTrue
  <2> QED BY Zenon, <2>1, <2>2, <2>3, <2>4 DEF NothingAhead, GenerationOf, DeliveryOf, IdOf
<1>7. SettledFirst'
  <2>1. ASSUME NEW j \in Workers
        PROVE  /\ worker'[j].pc = "mark" => worker'[j].msg[1] \in deadLetters'
               /\ worker'[j].pc = "ack" => SettledNext(worker'[j].msg[1])
    <3>1. CASE j = k
      BY Zenon, <1>1, <3>1 DEF WorkerTo
    <3>2. CASE j # k
      <4>1. worker'[j] = worker[j]
        BY Zenon, <1>1, <3>2
      <4>2. worker[j].pc = "ack" => IdOf(j) \in MessageIds /\ Settled(IdOf(j))
        BY Zenon, <1>0, RequestParts DEF SettledFirst
      <4> QED BY Zenon, <1>0, <1>5, <4>1, <4>2 DEF SettledFirst, IdOf, HistoryGrows
    <3> QED BY Zenon, <3>1, <3>2
  <2>2. ASSUME NEW m \in Messages, messages'[m] = "acked"
        PROVE  SettledNext(m[1])
    <3>1. m[1] \in MessageIds /\ Settled(m[1])
      BY Zenon, <1>0, <2>2, MessageParts DEF SettledFirst, BrokerIsTrue
    <3> QED BY Zenon, <1>5, <3>1
  <2>3. ASSUME NEW d \in Deliveries
        PROVE  /\ row'[d].status # "acked"
               /\ row'[d].status = "delivered" => <<d, row'[d].generation>> \in completed'
               /\ callback'[d].dlq => <<d, row'[d].generation>> \in deadLetters'
    BY Zenon DEF RowsAreTrue
  <2> QED BY Zenon, <2>1, <2>2, <2>3 DEF SettledFirst, Settled, SettledNext, IdOf
<1> QED BY Zenon, <1>2, <1>3, <1>4, <1>6, <1>7 DEF CallbackInv, Reservations

LEMMA HistoryStill ==
  ASSUME CallbackInv, UNCHANGED <<deadLetters, requests, completed>>, UNCHANGED errors \/ Error
  PROVE  HistoryGrows
BY WorkerConstants DEF CallbackInv, WorkerTypeOK, HistoryGrows, Error

LEMMA RowsStill ==
  ASSUME CallbackInv, HistoryGrows, UNCHANGED storeVars
  PROVE  RowsAreTrue
BY Zenon DEF CallbackInv, DispatchInv, PathTypeOK, StoreTypeOK, storeVars, SettledFirst, HistoryGrows, RowsAreTrue

LEMMA BrokerStill ==
  ASSUME CallbackInv,
         \/ UNCHANGED streamVars
         \/ \E id \in MessageIds : ForgetDuplicate(id)
         \/ \E m \in Messages : ExpireMessage(m) \/ HandOut(m) \/ NackMessage(m)
  PROVE  BrokerIsTrue
<1>1. StreamTypeOK
  BY Zenon DEF CallbackInv, DispatchInv, PathTypeOK
<1> HIDE DEF Messages, MessageIds
<1> QED BY Zenon, <1>1, StreamMoves DEF BrokerIsTrue

LEMMA BrokerAcks ==
  ASSUME CallbackInv, NEW m \in Messages, AckMessage(m), Settled(m[1])
  PROVE  BrokerIsTrue
<1>1. StreamTypeOK
  BY Zenon DEF CallbackInv, DispatchInv, PathTypeOK
<1> QED BY Zenon, <1>1, AckMoves DEF BrokerIsTrue

(* Steps that leave the rows alone and after which worker k makes no       *)
(* request.                                                                *)
LEMMA QuietWorker ==
  ASSUME CallbackInv, NEW k \in Workers, NEW w, WorkerTo(k, w), w.pc \notin {"send", "http"},
         w.token \in {worker[k].token, None}, HistoryGrows, BrokerIsTrue,
         UNCHANGED storeVars, UNCHANGED requests, UNCHANGED dispatcherVars
  PROVE  CallbackInv'
<1>0. /\ StoreTypeOK /\ WorkerTypeOK /\ WorkerState /\ Reservations
  BY Zenon DEF CallbackInv, DispatchInv, PathTypeOK, Reservations
<1>1. \A j \in Workers : Requesting(j) => DeliveryOf(j) \in Deliveries
  BY Zenon, <1>0, RequestParts DEF Requesting
<1>2. Reservations'
  BY Zenon, <1>0, <1>1, RetireKeeps DEF WorkerTo, storeVars
<1> QED BY Zenon, <1>2, RowsStill, WorkerMoveKeeps

(* process returns. *)
LEMMA LeaveKeeps ==
  ASSUME CallbackInv, NEW k \in Workers, Leave(k), HistoryGrows, BrokerIsTrue,
         UNCHANGED storeVars, UNCHANGED requests, UNCHANGED dispatcherVars
  PROVE  CallbackInv'
<1>1. WorkerTo(k, Free)
  BY Zenon, FreeWorker DEF WorkerTo, Leave
<1> QED BY Zenon, <1>1, FreeWorker, QuietWorker

(* process goes on without a change of the rows. *)
LEMMA GotoKeeps ==
  ASSUME CallbackInv, NEW k \in Workers, worker[k].pc # "idle",
         NEW pc \in {"publish", "mark", "ack", "nack"}, Goto(k, pc),
         HistoryGrows, BrokerIsTrue, UNCHANGED requests,
         UNCHANGED storeVars, UNCHANGED dispatcherVars,
         pc = "mark" => IdOf(k) \in deadLetters', pc = "ack" => SettledNext(IdOf(k))
  PROVE  CallbackInv'
<1> DEFINE w == [worker[k] EXCEPT !.pc = pc]
<1>0. WorkerTypeOK /\ WorkerState /\ NothingAhead
  BY Zenon DEF CallbackInv
<1>1. /\ w \in WorkerStates /\ worker' = [worker EXCEPT ![k] = w]
      /\ w.pc = pc /\ w.msg = worker[k].msg /\ w.token = worker[k].token
  BY <1>0 DEF WorkerTypeOK, WorkerStates, Goto
<1> HIDE DEF w
<1>2. w.msg \in Messages /\ w.msg[1][2] <= row[w.msg[1][1]].generation
  BY Zenon, <1>0, <1>1, RequestParts DEF NothingAhead, GenerationOf, DeliveryOf, IdOf
<1>3. WorkerTo(k, w)
  BY Zenon, <1>1, <1>2 DEF WorkerTo, IdOf
<1> QED BY Zenon, <1>1, <1>3, QuietWorker

LEMMA TakeKeeps ==
  ASSUME CallbackInv, NEW k \in Workers, NEW m \in Messages, Take(k, m), UNCHANGED dispatcherVars
  PROVE  CallbackInv'
<1> DEFINE w == [Free EXCEPT !.pc = "begin", !.msg = m]
<1>1. /\ w \in WorkerStates /\ w.pc = "begin" /\ w.msg = m /\ w.token = None
  BY Zenon, FreeWorker DEF Free, WorkerStates
<1>2. worker' = [worker EXCEPT ![k] = w]
  BY Zenon DEF Take
<1> HIDE DEF w
<1>3. m[1][2] <= row[m[1][1]].generation
  BY Zenon DEF Take, HandOut, CallbackInv, NothingAhead
<1>4. WorkerTo(k, w)
  BY Zenon, <1>1, <1>2, <1>3 DEF WorkerTo
<1>5. HistoryGrows /\ UNCHANGED storeVars /\ UNCHANGED requests
  BY Zenon, HistoryStill DEF Take
<1>6. BrokerIsTrue
  BY Zenon, BrokerStill DEF Take
<1> QED BY Zenon, <1>1, <1>4, <1>5, <1>6, QuietWorker

(* The answer, or the deadline, is classified. *)
LEMMA ClassifiedKeeps ==
  ASSUME CallbackInv, NEW k \in Workers, worker[k].pc # "idle", NEW answer, Classified(k, answer),
         UNCHANGED <<deadLetters, requests, completed, errors, storeVars, streamVars>>,
         UNCHANGED dispatcherVars
  PROVE  CallbackInv'
<1>0. WorkerTypeOK /\ WorkerState /\ NothingAhead /\ worker[k] \in WorkerStates
  BY Zenon, WorkerParts DEF CallbackInv
<1>1. PICK outcome \in Outcomes(answer, worker[k].attempt) :
        worker' = [worker EXCEPT ![k] =
          [worker[k] EXCEPT !.pc = "finish", !.timeLeft = 0, !.live = worker[k].timeLeft > 0,
                            !.kind = outcome[1], !.delay = outcome[2]]]
  BY Zenon, <1>0 DEF Classified, WorkerTypeOK
<1>2. outcome[1] \in Kinds /\ outcome[2] \in 0..RetryAfter
  <2>1. \/ outcome = <<"delivered", 0>> \/ outcome = <<"dead_letter", 0>>
        \/ outcome \in {"retrying"} \X (0..RetryAfter)
    BY Zenon, <1>1 DEF Outcomes
  <2> QED BY <2>1, ConstantTypes DEF Kinds
<1> DEFINE w == [worker[k] EXCEPT !.pc = "finish", !.timeLeft = 0, !.live = worker[k].timeLeft > 0,
                                  !.kind = outcome[1], !.delay = outcome[2]]
<1>3. (worker[k].timeLeft > 0) \in BOOLEAN
  OBVIOUS
<1>4. /\ w \in WorkerStates /\ w.pc = "finish" /\ w.msg = worker[k].msg /\ w.token = worker[k].token
      /\ w.kind = outcome[1]
  BY Zenon, <1>0, <1>2, <1>3, ConstantTypes DEF WorkerStates
<1>5. worker' = [worker EXCEPT ![k] = w]
  BY Zenon, <1>1
<1> HIDE DEF w
<1>6. w.msg \in Messages /\ w.msg[1][2] <= row[w.msg[1][1]].generation
  BY Zenon, <1>0, <1>4, RequestParts DEF NothingAhead, GenerationOf, DeliveryOf, IdOf
<1>7. WorkerTo(k, w)
  BY Zenon, <1>2, <1>4, <1>5, <1>6 DEF WorkerTo
<1>8. HistoryGrows /\ BrokerIsTrue
  BY Zenon, HistoryStill, BrokerStill
<1> QED BY Zenon, <1>4, <1>7, <1>8, QuietWorker

(* BeginCallbackAttempt: refusing and reserving change the row. *)
LEMMA RefuseKeeps ==
  ASSUME CallbackInv, NEW k \in Workers, worker[k].pc = "begin", Reservable(k),
         RefuseAttempt(DeliveryOf(k)),
         Goto(k, IF callback[DeliveryOf(k)].dlq THEN "ack" ELSE "publish"),
         UNCHANGED <<deadLetters, requests, completed, errors, streamVars>>, UNCHANGED dispatcherVars
  PROVE  CallbackInv'
<1> DEFINE d == DeliveryOf(k)
           pc == IF callback[d].dlq THEN "ack" ELSE "publish"
           w == [worker[k] EXCEPT !.pc = pc]
<1>0. /\ StoreTypeOK /\ WorkerTypeOK /\ WorkerState /\ NothingAhead /\ Reservations /\ SettledFirst
      /\ worker[k] \in WorkerStates
  BY Zenon, WorkerParts DEF CallbackInv, DispatchInv, PathTypeOK, Reservations
<1>1. /\ d \in Deliveries /\ IdOf(k) = <<d, GenerationOf(k)>> /\ row[d].generation = GenerationOf(k)
      /\ worker[k].msg \in Messages /\ IdOf(k) \in MessageIds /\ ~Busy(d)
  BY Zenon, <1>0, RequestParts DEF Reservable, Current
<1>2. /\ OnlyTouches(d) /\ row'[d].status = "dead_letter"
      /\ callback'[d].attempts = callback[d].attempts /\ callback'[d].dlq = callback[d].dlq
  BY Zenon, <1>0, <1>1, RefuseMoves
<1>3. /\ w \in WorkerStates /\ worker' = [worker EXCEPT ![k] = w]
      /\ w.pc = pc /\ w.msg = worker[k].msg /\ w.token = worker[k].token
  BY Zenon, <1>0 DEF WorkerTypeOK, WorkerStates, Goto
<1>4. callback[d].dlq => IdOf(k) \in deadLetters
  BY Zenon, <1>0, <1>1 DEF SettledFirst
<1>5. HistoryGrows /\ BrokerIsTrue
  BY Zenon, HistoryStill, BrokerStill
<1> HIDE DEF w, d
<1>6. WorkerTo(k, w)
  <2>1. w.msg[1][2] <= row[w.msg[1][1]].generation
    BY Zenon, <1>0, <1>3 DEF NothingAhead, GenerationOf, DeliveryOf, IdOf
  <2>2. w.pc = "ack" => SettledNext(w.msg[1])
    BY Zenon, <1>3, <1>4 DEF SettledNext, IdOf
  <2> QED BY Zenon, <1>1, <1>3, <2>1, <2>2 DEF WorkerTo
<1>7. RowsAreTrue
  BY Zenon, <1>0, <1>2 DEF RowsAreTrue, OnlyTouches, SettledFirst
<1>8. Reservations'
  <2>1. ASSUME NEW j \in Workers, Requesting(j)
        PROVE  DeliveryOf(j) \in Deliveries /\ (Current(j) => DeliveryOf(j) # d)
    BY Zenon, <1>0, <1>1, <2>1, RequestParts, NotBusy DEF Requesting
  <2>2. \A e \in Deliveries : /\ row'[e].generation = row[e].generation
                              /\ callback'[e].attempts = callback[e].attempts
    BY Zenon, <1>2 DEF OnlyTouches
  <2>3. \A e \in Deliveries : e # d => callback'[e] = callback[e]
    BY Zenon, <1>2 DEF OnlyTouches
  <2>4. w.pc \notin {"send", "http"}
    BY Zenon, <1>3
  <2> HIDE DEF pc
  <2> QED BY Zenon, <1>0, <1>3, <2>1, <2>2, <2>3, <2>4, RetireKeeps
<1> QED BY Zenon, <1>5, <1>6, <1>7, <1>8, WorkerMoveKeeps

LEMMA ReserveStep ==
  ASSUME CallbackInv, NEW k \in Workers, worker[k].pc = "begin", Reservable(k),
         ~AttemptsSpent(DeliveryOf(k)), NEW token \in FreshCallbackTokens,
         ReserveAttempt(DeliveryOf(k), token),
         worker' = [worker EXCEPT ![k] =
           [@ EXCEPT !.pc = "send", !.token = token, !.attempt = callback[DeliveryOf(k)].attempts + 1,
                     !.timeLeft = CallbackLease]],
         UNCHANGED <<deadLetters, requests, completed, errors, streamVars>>, UNCHANGED dispatcherVars
  PROVE  CallbackInv'
<1> DEFINE d == DeliveryOf(k)
           n == callback[d].attempts + 1
           w == [worker[k] EXCEPT !.pc = "send", !.token = token, !.attempt = n, !.timeLeft = CallbackLease]
<1>0. /\ StoreTypeOK /\ WorkerTypeOK /\ WorkerState /\ NothingAhead /\ Reservations /\ SettledFirst
      /\ worker[k] \in WorkerStates
  BY Zenon, WorkerParts DEF CallbackInv, DispatchInv, PathTypeOK, Reservations
<1>1. d \in Deliveries /\ worker[k].msg \in Messages
  BY Zenon, <1>0, RequestParts
<1>2. n \in 0..MaxCallbacks /\ token \in CallbackTokens
  BY <1>0, <1>1, StoreParts, WorkerConstants DEF AttemptsSpent, FreshCallbackTokens
<1>3. /\ OnlyTouches(d) /\ row'[d].status = "dispatched"
      /\ callback'[d].attempts = n /\ callback'[d].token = token
      /\ callback'[d].leaseIn = CallbackLease /\ callback'[d].dlq = callback[d].dlq
  BY Zenon, <1>0, <1>1, <1>2, ReserveMoves
<1>4. worker' = [worker EXCEPT ![k] = w]
  BY Zenon, <1>0 DEF WorkerTypeOK
<1> HIDE DEF n
<1>5. /\ w \in WorkerStates /\ w.pc = "send" /\ w.msg = worker[k].msg /\ w.token = token
      /\ w.timeLeft = CallbackLease
  BY Zenon, <1>0, <1>2, WorkerConstants DEF WorkerStates
<1> HIDE DEF w
<1>6. WorkerTo(k, w)
  <2>1. w.msg[1][2] <= row[w.msg[1][1]].generation
    BY Zenon, <1>0, <1>5 DEF NothingAhead, GenerationOf, DeliveryOf, IdOf
  <2> QED BY Zenon, <1>1, <1>4, <1>5, <2>1 DEF WorkerTo
<1>7. HistoryGrows /\ BrokerIsTrue
  BY Zenon, HistoryStill, BrokerStill
<1>8. RowsAreTrue
  BY Zenon, <1>0, <1>3 DEF RowsAreTrue, OnlyTouches, SettledFirst
<1>9. Reservations'
  BY Zenon, <1>0, <1>3, <1>4, <1>5, ReserveKeeps DEF n
<1> QED BY Zenon, <1>6, <1>7, <1>8, <1>9, WorkerMoveKeeps

LEMMA BeginKeeps ==
  ASSUME CallbackInv, NEW k \in Workers, BeginCallbackAttempt(k), UNCHANGED dispatcherVars
  PROVE  CallbackInv'
<1> DEFINE d == DeliveryOf(k)
<1>0. /\ StoreTypeOK /\ WorkerTypeOK /\ WorkerState /\ NothingAhead /\ SettledFirst
      /\ worker[k].pc = "begin" /\ UNCHANGED dispatcherVars
      /\ UNCHANGED <<deadLetters, requests, completed, errors, streamVars>>
  BY Zenon DEF CallbackInv, DispatchInv, PathTypeOK, BeginCallbackAttempt
<1>1. /\ d \in Deliveries /\ IdOf(k) = <<d, GenerationOf(k)>> /\ GenerationOf(k) \in Nat
      /\ row[d].generation \in Nat /\ GenerationOf(k) <= row[d].generation
  BY Zenon, <1>0, RequestParts, StoreParts DEF NothingAhead
<1>2. HistoryGrows /\ BrokerIsTrue
  BY Zenon, <1>0, HistoryStill, BrokerStill
<1>3. CASE (~Current(k) \/ Complete(d)) /\ Goto(k, "ack") /\ UNCHANGED storeVars
  <2>1. SettledNext(IdOf(k))
    <3>1. CASE ~Current(k)
      <4>1. row[d].generation > GenerationOf(k)
        BY <1>1, <3>1 DEF Current
      <4>2. row' = row
        BY Zenon, <1>3 DEF storeVars
      <4> QED BY Zenon, <4>1, <4>2 DEF SettledNext, DeliveryOf, GenerationOf
    <3>2. CASE Current(k) /\ Complete(d)
      BY Zenon, <1>0, <1>1, <3>2 DEF Current, Complete, SettledFirst, SettledNext
    <3> QED BY Zenon, <1>3, <3>1, <3>2
  <2> QED BY Zenon, <1>0, <1>2, <1>3, <2>1, GotoKeeps
<1>4. CASE /\ Current(k) /\ DeadLetter(d) /\ UNCHANGED storeVars
           /\ Goto(k, IF callback[d].dlq THEN "ack" ELSE "publish")
  <2>1. callback[d].dlq => SettledNext(IdOf(k))
    BY Zenon, <1>0, <1>1, <1>4 DEF Current, SettledFirst, SettledNext
  <2>2. CASE callback[d].dlq
    <3>1. Goto(k, "ack")
      BY Zenon, <1>4, <2>2
    <3> QED BY Zenon, <1>0, <1>2, <1>4, <2>1, <2>2, <3>1, GotoKeeps
  <2>3. CASE ~callback[d].dlq
    <3>1. Goto(k, "publish")
      BY Zenon, <1>4, <2>3
    <3> QED BY Zenon, <1>0, <1>2, <1>4, <3>1, GotoKeeps
  <2> QED BY Zenon, <2>2, <2>3
<1>5. CASE Goto(k, "nack") /\ UNCHANGED storeVars
  BY Zenon, <1>0, <1>2, <1>5, GotoKeeps
<1>6. CASE /\ Reservable(k) /\ RefuseAttempt(d)
           /\ Goto(k, IF callback[d].dlq THEN "ack" ELSE "publish")
  BY Zenon, <1>0, <1>6, RefuseKeeps
<1>7. ASSUME Reservable(k), ~AttemptsSpent(d), NEW token \in FreshCallbackTokens,
             ReserveAttempt(d, token),
             worker' = [worker EXCEPT ![k] =
               [@ EXCEPT !.pc = "send", !.token = token, !.attempt = callback[d].attempts + 1,
                         !.timeLeft = CallbackLease]]
      PROVE  CallbackInv'
  BY Zenon, <1>0, <1>7, ReserveStep
<1> QED BY Zenon, <1>3, <1>4, <1>5, <1>6, <1>7 DEF BeginCallbackAttempt

LEMMA SendStep ==
  ASSUME CallbackInv, NEW k \in Workers, Send(k), UNCHANGED dispatcherVars
  PROVE  CallbackInv'
<1> DEFINE w == [worker[k] EXCEPT !.pc = "http"]
<1>0. /\ StoreTypeOK /\ WorkerTypeOK /\ WorkerState /\ NothingAhead /\ Reservations
      /\ worker[k] \in WorkerStates /\ worker[k].timeLeft \in Nat
      /\ worker[k].pc = "send" /\ UNCHANGED storeVars
      /\ UNCHANGED <<deadLetters, completed, errors, streamVars>>
  BY Zenon, WorkerParts DEF CallbackInv, DispatchInv, PathTypeOK, Reservations, Send
<1>1. /\ w \in WorkerStates /\ worker' = [worker EXCEPT ![k] = w]
      /\ w.pc = "http" /\ w.msg = worker[k].msg /\ w.timeLeft = worker[k].timeLeft
  BY Zenon, <1>0 DEF WorkerTypeOK, WorkerStates, Send, Goto
<1> HIDE DEF w
<1>2. w.timeLeft >= FinishMargin
  BY <1>0, <1>1, WorkerConstants DEF Send, BeforeDeadline
<1>3. /\ IdOf(k) \in Ids /\ worker[k].msg \in Messages
      /\ IdOf(k)[2] <= row[IdOf(k)[1]].generation
  BY Zenon, <1>0, RequestParts DEF NothingAhead, GenerationOf, DeliveryOf
<1>4. WorkerTo(k, w)
  BY Zenon, <1>1, <1>2, <1>3 DEF WorkerTo, IdOf
<1>5. HistoryGrows
  <2>1. requests \in [Ids -> Nat] /\ requests' = [requests EXCEPT ![IdOf(k)] = @ + 1]
    BY Zenon, <1>0 DEF WorkerTypeOK, Send
  <2>2. requests' \in [Ids -> Nat] /\ \A id \in Ids : id # IdOf(k) => requests'[id] = requests[id]
    BY <1>3, <2>1
  <2> QED BY Zenon, <1>0, <1>3, <2>2, IdParts DEF WorkerTypeOK, HistoryGrows
<1>6. Reservations'
  BY Zenon, <1>0, SendKeeps
<1>7. RowsAreTrue /\ BrokerIsTrue
  BY Zenon, <1>0, <1>5, RowsStill, BrokerStill
<1> QED BY Zenon, <1>4, <1>5, <1>6, <1>7, WorkerMoveKeeps

(* FinishCallbackAttempt records the outcome while it holds the attempt.   *)
LEMMA RecordKeeps ==
  ASSUME CallbackInv, NEW k \in Workers, worker[k].pc = "finish", HoldsAttempt(k), RecordOutcome(k),
         Goto(k, AfterFinish(worker[k].kind)),
         UNCHANGED <<deadLetters, requests, errors, streamVars>>, UNCHANGED dispatcherVars
  PROVE  CallbackInv'
<1> DEFINE d == DeliveryOf(k)
           pc == AfterFinish(worker[k].kind)
           w == [worker[k] EXCEPT !.pc = pc]
<1>0. /\ StoreTypeOK /\ WorkerTypeOK /\ WorkerState /\ NothingAhead /\ Reservations /\ SettledFirst
      /\ worker[k] \in WorkerStates /\ worker[k].kind \in Kinds
  BY Zenon, WorkerParts DEF CallbackInv, DispatchInv, PathTypeOK, Reservations, WorkerState
<1>1. /\ d \in Deliveries /\ IdOf(k) = <<d, GenerationOf(k)>> /\ row[d].generation = GenerationOf(k)
      /\ worker[k].msg \in Messages /\ IdOf(k) \in Ids /\ callback[d].token = worker[k].token
  BY Zenon, <1>0, RequestParts DEF HoldsAttempt, Current
<1>2. /\ OnlyTouches(d) /\ row'[d].status = worker[k].kind
      /\ callback'[d].attempts = callback[d].attempts /\ callback'[d].dlq = callback[d].dlq
  BY Zenon, <1>0, <1>1, RecordMoves
<1>3. /\ completed' = IF worker[k].kind = "delivered" THEN completed \cup {IdOf(k)} ELSE completed
  BY Zenon DEF RecordOutcome
<1>4. /\ pc \in {"ack", "nack", "publish"}
      /\ pc = "ack" => worker[k].kind = "delivered"
  BY Zenon, <1>0 DEF AfterFinish, Kinds
<1> HIDE DEF pc
<1>5. /\ w \in WorkerStates /\ worker' = [worker EXCEPT ![k] = w]
      /\ w.pc = pc /\ w.msg = worker[k].msg /\ w.token = worker[k].token
  BY Zenon, <1>0, <1>4 DEF WorkerTypeOK, WorkerStates, Goto, pc
<1> HIDE DEF w, d
<1>6. HistoryGrows
  BY Zenon, <1>0, <1>1, <1>3 DEF WorkerTypeOK, HistoryGrows
<1>7. WorkerTo(k, w)
  <2>1. w.msg[1][2] <= row[w.msg[1][1]].generation
    BY Zenon, <1>0, <1>5 DEF NothingAhead, GenerationOf, DeliveryOf, IdOf
  <2>2. w.pc = "ack" => SettledNext(w.msg[1])
    BY Zenon, <1>3, <1>4, <1>5 DEF SettledNext, IdOf
  <2> QED BY Zenon, <1>1, <1>4, <1>5, <2>1, <2>2 DEF WorkerTo
<1>8. RowsAreTrue
  <2>1. worker[k].kind # "acked"
    BY Zenon, <1>0 DEF Kinds
  <2> QED BY Zenon, <1>0, <1>1, <1>2, <1>3, <2>1 DEF RowsAreTrue, OnlyTouches, SettledFirst
<1>9. BrokerIsTrue
  BY Zenon, BrokerStill
<1>10. Reservations'
  <2>1. ASSUME NEW j \in Workers, Requesting(j)
        PROVE  DeliveryOf(j) \in Deliveries
    BY Zenon, <1>0, <2>1, RequestParts DEF Requesting
  <2>2. ASSUME NEW j \in Workers, j # k, Requesting(j), Current(j)
        PROVE  DeliveryOf(j) # d
    <3> SUFFICES ASSUME DeliveryOf(j) = d PROVE FALSE
      BY Zenon
    <3>1. callback[d].token = worker[j].token /\ worker[j].token # None
      BY Zenon, <1>0, <2>2 DEF Reservations, LeaseIsHeld
    <3> QED BY Zenon, <1>0, <1>1, <2>2, <3>1 DEF Reservations, TokensAreOwn
  <2>3. \A e \in Deliveries : /\ row'[e].generation = row[e].generation
                              /\ callback'[e].attempts = callback[e].attempts
    BY Zenon, <1>2 DEF OnlyTouches
  <2>4. \A e \in Deliveries : e # d => callback'[e] = callback[e]
    BY Zenon, <1>2 DEF OnlyTouches
  <2>5. w.pc \notin {"send", "http"}
    BY Zenon, <1>4, <1>5
  <2> QED BY Zenon, <1>0, <1>5, <2>1, <2>2, <2>3, <2>4, <2>5, RetireKeeps
<1> QED BY Zenon, <1>6, <1>7, <1>8, <1>9, <1>10, WorkerMoveKeeps

LEMMA FinishKeeps ==
  ASSUME CallbackInv, NEW k \in Workers, FinishCallbackAttempt(k), UNCHANGED dispatcherVars
  PROVE  CallbackInv'
<1>1. CASE /\ HoldsAttempt(k) /\ RecordOutcome(k) /\ Goto(k, AfterFinish(worker[k].kind))
  BY Zenon, <1>1, RecordKeeps DEF FinishCallbackAttempt
<1>2. CASE Leave(k) /\ UNCHANGED <<storeVars, completed>>
  <2>1. UNCHANGED <<deadLetters, requests, completed, errors>> /\ UNCHANGED streamVars /\ UNCHANGED storeVars
    BY Zenon, <1>2 DEF FinishCallbackAttempt
  <2>2. HistoryGrows /\ BrokerIsTrue
    BY Zenon, <2>1, HistoryStill, BrokerStill
  <2> QED BY Zenon, <1>2, <2>1, <2>2, LeaveKeeps
<1> QED BY Zenon, <1>1, <1>2 DEF FinishCallbackAttempt

LEMMA DeadLetterKeeps ==
  ASSUME CallbackInv, NEW k \in Workers, PublishDLQ(k), UNCHANGED dispatcherVars
  PROVE  CallbackInv'
<1>0. /\ WorkerTypeOK /\ WorkerState /\ worker[k].pc = "publish"
      /\ deadLetters' = deadLetters \cup {IdOf(k)} /\ Goto(k, "mark")
      /\ UNCHANGED requests /\ UNCHANGED completed /\ UNCHANGED errors
      /\ UNCHANGED storeVars /\ UNCHANGED streamVars
  BY Zenon DEF CallbackInv, PublishDLQ
<1>1. IdOf(k) \in Ids
  BY Zenon, <1>0, RequestParts
<1>2. HistoryGrows /\ BrokerIsTrue
  BY Zenon, <1>0, <1>1, BrokerStill DEF WorkerTypeOK, HistoryGrows
<1> QED BY Zenon, <1>0, <1>2, GotoKeeps

LEMMA MarkKeeps ==
  ASSUME CallbackInv, NEW k \in Workers, MarkCallbackDLQPublished(k), UNCHANGED dispatcherVars
  PROVE  CallbackInv'
<1> DEFINE d == DeliveryOf(k)
           w == [worker[k] EXCEPT !.pc = "ack"]
<1>0. /\ StoreTypeOK /\ WorkerTypeOK /\ WorkerState /\ NothingAhead /\ Reservations /\ SettledFirst
      /\ worker[k] \in WorkerStates /\ worker[k].pc = "mark"
      /\ UNCHANGED <<deadLetters, requests, completed, errors, row, assignment, outbox>>
      /\ UNCHANGED streamVars
  BY Zenon, WorkerParts DEF CallbackInv, DispatchInv, PathTypeOK, Reservations, MarkCallbackDLQPublished
<1>1. HistoryGrows /\ BrokerIsTrue
  BY Zenon, <1>0, HistoryStill, BrokerStill
<1>2. CASE Leave(k) /\ UNCHANGED callback
  BY Zenon, <1>0, <1>1, <1>2, LeaveKeeps DEF storeVars
<1>3. CASE Markable(k) /\ callback' = [callback EXCEPT ![d].dlq = TRUE] /\ Goto(k, "ack")
  <2>1. /\ d \in Deliveries /\ IdOf(k) = <<d, GenerationOf(k)>> /\ row[d].generation = GenerationOf(k)
        /\ worker[k].msg \in Messages /\ IdOf(k) \in deadLetters
    BY Zenon, <1>0, <1>3, RequestParts DEF Markable, Current, SettledFirst
  <2>2. /\ OnlyTouches(d) /\ row'[d].status = row[d].status
        /\ callback'[d].attempts = callback[d].attempts
        /\ callback'[d].token = callback[d].token /\ callback'[d].leaseIn = callback[d].leaseIn
    BY Zenon, <1>0, <1>3, <2>1, MarkMoves
  <2>3. /\ w \in WorkerStates /\ worker' = [worker EXCEPT ![k] = w]
        /\ w.pc = "ack" /\ w.msg = worker[k].msg /\ w.token = worker[k].token
    BY Zenon, <1>0, <1>3 DEF WorkerTypeOK, WorkerStates, Goto
  <2> HIDE DEF w, d
  <2>4. WorkerTo(k, w)
    <3>1. w.msg[1][2] <= row[w.msg[1][1]].generation
      BY Zenon, <1>0, <2>3 DEF NothingAhead, GenerationOf, DeliveryOf, IdOf
    <3>2. SettledNext(w.msg[1])
      BY Zenon, <1>0, <2>1, <2>3 DEF SettledNext, IdOf
    <3> QED BY Zenon, <2>1, <2>3, <3>1, <3>2 DEF WorkerTo
  <2>5. RowsAreTrue
    BY <1>0, <2>1, <2>2 DEF RowsAreTrue, OnlyTouches, SettledFirst
  <2>6. Reservations'
    <3>1. ASSUME NEW j \in Workers, Requesting(j)
          PROVE  DeliveryOf(j) \in Deliveries
      BY Zenon, <1>0, <3>1, RequestParts DEF Requesting
    <3>2. \A e \in Deliveries : /\ row'[e].generation = row[e].generation
                                /\ callback'[e].attempts = callback[e].attempts
                                /\ callback'[e].token = callback[e].token
                                /\ callback'[e].leaseIn = callback[e].leaseIn
      BY Zenon, <2>2 DEF OnlyTouches
    <3> QED BY Zenon, <1>0, <2>3, <3>1, <3>2, RetireKeeps
  <2> QED BY Zenon, <1>1, <2>4, <2>5, <2>6, WorkerMoveKeeps
<1> QED BY Zenon, <1>2, <1>3 DEF MarkCallbackDLQPublished

LEMMA SettleKeeps ==
  ASSUME CallbackInv, NEW k \in Workers, Settle(k), UNCHANGED dispatcherVars
  PROVE  CallbackInv'
<1>0. /\ WorkerState /\ SettledFirst /\ UNCHANGED storeVars /\ UNCHANGED requests /\ Leave(k)
      /\ UNCHANGED <<deadLetters, requests, completed>> /\ UNCHANGED errors
      /\ \/ worker[k].pc = "ack" /\ AckMessage(worker[k].msg)
         \/ worker[k].pc = "nack" /\ NackMessage(worker[k].msg)
  BY Zenon DEF CallbackInv, Settle
<1>1. worker[k].msg \in Messages
  BY Zenon, <1>0, RequestParts
<1>2. worker[k].pc = "ack" => Settled(worker[k].msg[1])
  BY Zenon, <1>0 DEF SettledFirst, IdOf
<1>3. BrokerIsTrue
  <2>1. CASE worker[k].pc = "ack" /\ AckMessage(worker[k].msg)
    BY Zenon, <1>1, <1>2, <2>1, BrokerAcks
  <2>2. CASE NackMessage(worker[k].msg)
    BY Zenon, <1>1, <2>2, BrokerStill
  <2> QED BY Zenon, <1>0, <2>1, <2>2
<1> QED BY Zenon, <1>0, <1>3, HistoryStill, LeaveKeeps

LEMMA WorkerKeeps ==
  ASSUME CallbackInv, NEW k \in Workers, UNCHANGED dispatcherVars,
         (\E m \in Messages : Take(k, m)) \/ WorkerStep(k) \/ BeginFails(k) \/ Die(k)
  PROVE  CallbackInv'
<1>1. CASE \E m \in Messages : Take(k, m)
  BY Zenon, <1>1, TakeKeeps
<1>2. CASE BeginCallbackAttempt(k) \/ Send(k) \/ FinishCallbackAttempt(k)
  BY Zenon, <1>2, BeginKeeps, SendStep, FinishKeeps
<1>3. CASE PublishDLQ(k) \/ MarkCallbackDLQPublished(k) \/ Settle(k)
  BY Zenon, <1>3, DeadLetterKeeps, MarkKeeps, SettleKeeps
<1>4. CASE Answer(k) \/ DeadlinePassed(k)
  <2>1. worker[k].pc # "idle"
    BY Zenon, <1>4 DEF Answer, DeadlinePassed
  <2>2. UNCHANGED <<deadLetters, requests, completed, errors, storeVars, streamVars>>
    BY Zenon, <1>4 DEF Answer, DeadlinePassed
  <2>3. PICK answer : Classified(k, answer)
    BY Zenon, <1>4 DEF Answer, DeadlinePassed
  <2> QED BY Zenon, <2>1, <2>2, <2>3, ClassifiedKeeps
<1>5. CASE BeginFails(k) \/ Die(k)
  <2>1. /\ UNCHANGED <<deadLetters, requests, completed>> /\ UNCHANGED requests /\ Error
        /\ UNCHANGED storeVars /\ UNCHANGED streamVars /\ worker[k].pc # "idle"
        /\ Goto(k, "nack") \/ Leave(k)
    BY Zenon, <1>5 DEF BeginFails, Die
  <2>2. HistoryGrows /\ BrokerIsTrue
    BY Zenon, <2>1, HistoryStill, BrokerStill
  <2> QED BY Zenon, <2>1, <2>2, GotoKeeps, LeaveKeeps
<1> QED BY Zenon, <1>1, <1>2, <1>3, <1>4, <1>5 DEF WorkerStep

-----------------------------------------------------------------------------
(* Steps that no worker takes. *)

(* What the store and the stream may do around the workers: generations    *)
(* only grow, and nothing becomes delivered, recorded as a dead letter or  *)
(* acknowledged.                                                           *)
Surroundings ==
  /\ StoreTypeOK'
  /\ \A k \in Workers : worker'[k].pc = worker[k].pc /\ worker'[k].msg = worker[k].msg
  /\ UNCHANGED <<deadLetters, requests, completed, errors>>
  /\ \A d \in Deliveries :
       /\ row[d].generation <= row'[d].generation
       /\ outbox'[d].generation = row'[d].generation
       /\ row'[d].status # "acked"
       /\ row'[d].status = "delivered" =>
            row[d].status = "delivered" /\ row'[d].generation = row[d].generation
       /\ callback'[d].dlq => callback[d].dlq /\ row'[d].generation = row[d].generation
  /\ \A m \in Messages :
       /\ messages'[m] # "none" => messages[m] # "none" \/ m[1][2] <= row'[m[1][1]].generation
       /\ messages'[m] = "acked" => messages[m] = "acked"

LEMMA SurroundingsKeep ==
  ASSUME CallbackInv, Surroundings
  PROVE  NothingAhead' /\ SettledFirst'
<1>0. StoreTypeOK /\ WorkerState /\ NothingAhead /\ SettledFirst
  BY Zenon DEF CallbackInv, DispatchInv, PathTypeOK
<1>1. ASSUME NEW id \in MessageIds
      PROVE  /\ id[1] \in Deliveries /\ id[2] \in Nat
             /\ row[id[1]].generation \in Nat /\ row'[id[1]].generation \in Nat
             /\ row[id[1]].generation <= row'[id[1]].generation
  <2>1. id[1] \in Deliveries /\ id[2] \in Nat
    BY Zenon, IdParts
  <2>2. \A d \in Deliveries : row'[d].generation \in Nat
    <3>1. row' \in [Deliveries -> Rows]
      BY Zenon DEF Surroundings, StoreTypeOK
    <3> QED BY <3>1, ConstantTypes DEF Rows, Generations
  <2> QED BY Zenon, <1>0, <2>1, <2>2, StoreParts DEF Surroundings
<1>2. ASSUME NEW id \in MessageIds, id[2] <= row[id[1]].generation
      PROVE  id[2] <= row'[id[1]].generation
  BY <1>1, <1>2
<1>3. ASSUME NEW id \in MessageIds, Settled(id)
      PROVE  SettledNext(id)
  BY <1>1, <1>3 DEF Settled, SettledNext, Surroundings
<1>4. ASSUME NEW k \in Workers, worker[k].pc # "idle"
      PROVE  IdOf(k) \in MessageIds
  BY Zenon, <1>0, <1>4, RequestParts
<1>5. NothingAhead'
  <2>1. ASSUME NEW k \in Workers, worker'[k].pc # "idle"
        PROVE  worker'[k].msg[1][2] <= row'[worker'[k].msg[1][1]].generation
    <3>1. worker[k].pc # "idle" /\ worker'[k].msg[1] = IdOf(k)
      BY Zenon, <2>1 DEF Surroundings, IdOf
    <3>2. IdOf(k)[2] <= row[IdOf(k)[1]].generation
      BY Zenon, <1>0, <3>1 DEF NothingAhead, GenerationOf, DeliveryOf
    <3> QED BY Zenon, <1>2, <1>4, <3>1, <3>2
  <2>2. ASSUME NEW m \in Messages, messages'[m] # "none"
        PROVE  m[1][2] <= row'[m[1][1]].generation
    <3>1. m[1] \in MessageIds
      BY Zenon, MessageParts
    <3>2. messages[m] # "none" => m[1][2] <= row[m[1][1]].generation
      BY Zenon, <1>0 DEF NothingAhead
    <3>3. messages[m] # "none" \/ m[1][2] <= row'[m[1][1]].generation
      BY Zenon, <2>2 DEF Surroundings
    <3> QED BY Zenon, <1>2, <3>1, <3>2, <3>3
  <2>3. ASSUME NEW id \in MessageIds, id[2] > row'[id[1]].generation
        PROVE  requests'[id] = 0
    <3>1. id[2] > row[id[1]].generation
      BY <1>1, <2>3
    <3> QED BY Zenon, <1>0, <3>1 DEF NothingAhead, Surroundings
  <2>4. \A d \in Deliveries : outbox'[d].generation = row'[d].generation
    BY Zenon DEF Surroundings
  <2> QED BY Zenon, <2>1, <2>2, <2>3, <2>4 DEF NothingAhead, GenerationOf, DeliveryOf, IdOf
<1>6. SettledFirst'
  <2>1. ASSUME NEW k \in Workers
        PROVE  /\ worker'[k].pc = "mark" => worker'[k].msg[1] \in deadLetters'
               /\ worker'[k].pc = "ack" => SettledNext(worker'[k].msg[1])
    <3>1. worker'[k].pc = worker[k].pc /\ worker'[k].msg[1] = IdOf(k) /\ deadLetters' = deadLetters
      BY Zenon DEF Surroundings, IdOf
    <3>2. /\ worker[k].pc = "mark" => IdOf(k) \in deadLetters
          /\ worker[k].pc = "ack" => Settled(IdOf(k))
      BY Zenon, <1>0 DEF SettledFirst
    <3> QED BY Zenon, <1>3, <1>4, <3>1, <3>2
  <2>2. ASSUME NEW m \in Messages, messages'[m] = "acked"
        PROVE  SettledNext(m[1])
    <3>1. m[1] \in MessageIds /\ Settled(m[1])
      BY Zenon, <1>0, <2>2, MessageParts DEF SettledFirst, Surroundings
    <3> QED BY Zenon, <1>3, <3>1
  <2>3. ASSUME NEW d \in Deliveries
        PROVE  /\ row'[d].status # "acked"
               /\ row'[d].status = "delivered" => <<d, row'[d].generation>> \in completed'
               /\ callback'[d].dlq => <<d, row'[d].generation>> \in deadLetters'
    BY Zenon, <1>0 DEF Surroundings, SettledFirst
  <2> QED BY Zenon, <2>1, <2>2, <2>3 DEF SettledFirst, Settled, SettledNext, IdOf
<1> QED BY Zenon, <1>5, <1>6

(* Reservations of workers that stand still, over rows that keep theirs. *)
LEMMA ReservationsStay ==
  ASSUME CallbackInv, UNCHANGED workerVars, UNCHANGED callback,
         \A d \in Deliveries : row'[d].generation = row[d].generation
  PROVE  WorkerTypeOK' /\ WorkerState' /\ Reservations'
<1>0. StoreTypeOK /\ WorkerTypeOK /\ WorkerState /\ Reservations
  BY Zenon DEF CallbackInv, DispatchInv, PathTypeOK, Reservations
<1>1. WorkerTypeOK' /\ WorkerState' /\ TokensAreOwn' /\ RequestingAlone'
  BY Zenon, <1>0 DEF workerVars, WorkerTypeOK, WorkerState, Reservations, TokensAreOwn, RequestingAlone,
              Requesting, IdOf
<1>2. ASSUME NEW k \in Workers, Requesting(k)
      PROVE  DeliveryOf(k) \in Deliveries
  BY Zenon, <1>0, <1>2, RequestParts DEF Requesting
<1>3. LeaseIsHeld'
  BY Zenon, <1>0, <1>2 DEF workerVars, Reservations, LeaseIsHeld, Requesting, Current, DeliveryOf,
                    GenerationOf, IdOf
<1>4. RequestsAreReserved'
  <2>1. UNCHANGED requests /\ \A id \in MessageIds : UnsentNext(id) => Unsent(id)
    BY Zenon DEF workerVars, UnsentNext, Unsent, IdOf
  <2>2. \A id \in MessageIds : Budget(id) <= BudgetNext(id) /\ BudgetNext(id) \in Nat
    BY Zenon, <1>0, BudgetSame
  <2> HIDE DEF Unsent, UnsentNext, Budget, BudgetNext
  <2> QED BY Zenon, <1>0, <2>1, <2>2, BudgetKeeps DEF Reservations
<1> QED BY Zenon, <1>1, <1>3, <1>4 DEF Reservations

LEMMA StreamStepKeeps == CallbackInv /\ StreamStep => CallbackInv'
<1> SUFFICES ASSUME CallbackInv, StreamStep PROVE CallbackInv'
  BY Zenon
<1>0. /\ DispatchInv /\ StoreTypeOK /\ NothingAhead /\ SettledFirst
      /\ UNCHANGED <<row, assignment, callback, outbox>> /\ UNCHANGED workerVars
      /\ UNCHANGED dispatcherVars
  BY Zenon DEF CallbackInv, DispatchInv, PathTypeOK, StreamStep, storeVars
<1>1. BrokerIsTrue
  <2>1. \/ \E id \in MessageIds : ForgetDuplicate(id)
        \/ \E m \in Messages : ExpireMessage(m) \/ NackMessage(m)
    BY Zenon DEF StreamStep, GiveBack
  <2> QED BY Zenon, <2>1, BrokerStill
<1>2. /\ StreamTypeOK' /\ window' \subseteq window /\ StoredStays
      /\ \A m \in Messages : messages'[m] # "none" => messages[m] # "none"
  BY Zenon, <1>1 DEF BrokerIsTrue
<1>3. \A m \in Messages : messages'[m] = "acked" => messages[m] = "acked"
  <2>1. StreamTypeOK
    BY Zenon DEF CallbackInv, DispatchInv, PathTypeOK
  <2>2. \/ \E id \in MessageIds : ForgetDuplicate(id)
        \/ \E m \in Messages : ExpireMessage(m) \/ NackMessage(m)
    BY Zenon DEF StreamStep, GiveBack
  <2> QED BY Zenon, <2>1, <2>2, StreamMoves
<1>4. DispatchInv'
  <2>1. StoreTypeOK' /\ UNCHANGED outbox
    BY Zenon, <1>0 DEF StoreTypeOK
  <2> QED BY Zenon, <1>0, <1>2, <2>1, OutboxUntouched, OthersKeep DEF dispatcherVars
<1>5. WorkerTypeOK' /\ WorkerState' /\ Reservations'
  BY Zenon, <1>0, ReservationsStay
<1>6. Surroundings
  <2>1. StoreTypeOK' /\ \A d \in Deliveries : row[d].generation <= row[d].generation
    BY <1>0, StoreParts DEF StoreTypeOK
  <2> QED BY Zenon, <1>0, <1>2, <1>3, <2>1 DEF Surroundings, workerVars, NothingAhead, SettledFirst
<1> QED BY Zenon, <1>4, <1>5, <1>6, SurroundingsKeep DEF CallbackInv, Reservations

LEMMA OutboxStepKeeps == CallbackInv /\ OutboxStep => CallbackInv'
<1> SUFFICES ASSUME CallbackInv, OutboxStep PROVE CallbackInv'
  BY Zenon
<1>0. /\ DispatchInv /\ StoreTypeOK /\ NothingAhead /\ SettledFirst /\ UNCHANGED workerVars
  BY Zenon DEF CallbackInv, DispatchInv, PathTypeOK, OutboxStep
<1>1. /\ DispatchInv' /\ UNCHANGED callback
      /\ \A d \in Deliveries : StatusMoves(d) /\ OutboxMoves(d)
      /\ \A m \in Messages : MessageMoves(m)
  <2>1. PICK w \in Dispatchers : ClaimOutbox(w) \/ DispatcherStep(w) \/ Crash(w)
    BY Zenon DEF OutboxStep
  <2> QED BY Zenon, <1>0, <2>1, DispatcherMoves
<1>2. ASSUME NEW d \in Deliveries
      PROVE  /\ row'[d].generation = row[d].generation
             /\ outbox'[d].generation = row'[d].generation
             /\ row'[d].status # "acked"
             /\ row'[d].status = "delivered" => row[d].status = "delivered"
             /\ row[d].generation <= row'[d].generation
  <2>1. row'[d].generation = row[d].generation /\ outbox'[d].generation = row'[d].generation
    BY Zenon, <1>0, <1>1 DEF StatusMoves, OutboxMoves, NothingAhead
  <2>2. row'[d].status # "acked" /\ (row'[d].status = "delivered" => row[d].status = "delivered")
    BY Zenon, <1>0, <1>1 DEF StatusMoves, SettledFirst
  <2> QED BY <1>0, <2>1, <2>2, StoreParts
<1>3. ASSUME NEW m \in Messages
      PROVE  /\ messages'[m] # "none" => messages[m] # "none" \/ m[1][2] <= row'[m[1][1]].generation
             /\ messages'[m] = "acked" => messages[m] = "acked"
  <2>1. MessageMoves(m) /\ m[1][1] \in Deliveries
    BY Zenon, <1>1, MessageParts
  <2> QED BY Zenon, <1>0, <1>2, <2>1 DEF MessageMoves, NothingAhead
<1>4. WorkerTypeOK' /\ WorkerState' /\ Reservations'
  BY Zenon, <1>0, <1>1, <1>2, ReservationsStay
<1>5. Surroundings
  BY Zenon, <1>0, <1>1, <1>2, <1>3 DEF Surroundings, workerVars, DispatchInv, PathTypeOK
<1> QED BY Zenon, <1>1, <1>4, <1>5, SurroundingsKeep DEF CallbackInv, Reservations

LEMMA ReplayStepKeeps == CallbackInv /\ Replay => CallbackInv'
<1> SUFFICES ASSUME CallbackInv, Replay PROVE CallbackInv'
  BY Zenon
<1>0. /\ DispatchInv /\ StoreTypeOK /\ WorkerTypeOK /\ WorkerState /\ NothingAhead /\ Reservations
      /\ SettledFirst /\ UNCHANGED workerVars /\ UNCHANGED streamVars /\ UNCHANGED dispatcherVars
  BY Zenon DEF CallbackInv, DispatchInv, PathTypeOK, Reservations, Replay
<1>1. PICK ids \in SUBSET Deliveries : ReplayAdminDeadLetters(ids)
  BY Zenon DEF Replay
<1>2. /\ StoreTypeOK' /\ RowsAgeOrReplay
      /\ \A d \in Deliveries : SettledAsBefore(d) \/ outbox'[d].state = "open"
  BY Zenon, <1>0, <1>1, ReplayKeeps
<1>3. DispatchInv'
  <2>1. /\ StreamTypeOK' /\ StoredStays /\ window' \subseteq window
        /\ UNCHANGED <<dispatcher, publishes, crashes>>
    BY Zenon, <1>0 DEF streamVars, dispatcherVars, DispatchInv, PathTypeOK, StreamTypeOK, StoredStays,
                StoredNext, Stored
  <2> QED BY Zenon, <1>0, <1>2, <2>1, OthersKeep
<1>4. WorkerTypeOK' /\ WorkerState'
  BY Zenon, <1>0 DEF workerVars, WorkerTypeOK, WorkerState
<1>5. Reservations'
  BY Zenon, <1>0, <1>1, ReplayKeepsReservations
<1>6. ASSUME NEW d \in Deliveries
      PROVE  /\ row[d].generation <= row'[d].generation
             /\ outbox'[d].generation = row'[d].generation
             /\ row'[d].status # "acked"
             /\ row'[d].status = "delivered" =>
                  row[d].status = "delivered" /\ row'[d].generation = row[d].generation
             /\ callback'[d].dlq => callback[d].dlq /\ row'[d].generation = row[d].generation
  <2>1. row[d].generation \in Nat /\ row[d].generation <= row[d].generation + 1
        /\ row[d].generation <= row[d].generation
    BY <1>0, StoreParts
  <2>2. CASE d \in ids
    BY Zenon, <1>1, <2>1, <2>2 DEF ReplayAdminDeadLetters, NoCallback, NewOutbox
  <2>3. CASE d \notin ids
    <3>1. row'[d] = row[d] /\ callback'[d] = callback[d] /\ outbox'[d] = outbox[d]
      BY Zenon, <1>1, <2>3 DEF ReplayAdminDeadLetters
    <3> QED BY Zenon, <1>0, <2>1, <3>1 DEF NothingAhead, SettledFirst
  <2> QED BY Zenon, <2>2, <2>3
<1>7. Surroundings
  BY Zenon, <1>0, <1>2, <1>6 DEF Surroundings, workerVars, streamVars
<1> QED BY Zenon, <1>3, <1>4, <1>5, <1>7, SurroundingsKeep DEF CallbackInv, Reservations

LEMMA TickStepKeeps == CallbackInv /\ Tick => CallbackInv'
<1> SUFFICES ASSUME CallbackInv, Tick PROVE CallbackInv'
  BY Zenon
<1>0. /\ DispatchInv /\ StoreTypeOK /\ WorkerTypeOK /\ WorkerState /\ NothingAhead /\ Reservations
      /\ SettledFirst /\ StoreTick /\ WorkerTick /\ UNCHANGED streamVars /\ UNCHANGED dispatcherVars
  BY Zenon DEF CallbackInv, DispatchInv, PathTypeOK, Reservations, Tick
<1>1. /\ StoreTypeOK' /\ RowsAgeOrReplay /\ UNCHANGED row
      /\ \A d \in Deliveries : SettledAsBefore(d)
  BY Zenon, <1>0, TickKeeps
<1>2. DispatchInv'
  <2>1. /\ StreamTypeOK' /\ StoredStays /\ window' \subseteq window
        /\ UNCHANGED <<dispatcher, publishes, crashes>>
    BY Zenon, <1>0 DEF streamVars, dispatcherVars, DispatchInv, PathTypeOK, StreamTypeOK, StoredStays,
                StoredNext, Stored
  <2> QED BY Zenon, <1>0, <1>1, <2>1, OthersKeep
<1>3. ASSUME NEW k \in Workers
      PROVE  /\ worker'[k] \in WorkerStates
             /\ worker'[k].pc = worker[k].pc /\ worker'[k].msg = worker[k].msg
             /\ worker'[k].kind = worker[k].kind /\ worker'[k].timeLeft = Down(worker[k].timeLeft)
  <2>1. worker'[k] = [worker[k] EXCEPT !.timeLeft = Down(@), !.delay = Down(@)]
    BY Zenon, <1>0 DEF WorkerTick
  <2>2. /\ worker[k] \in WorkerStates /\ Down(worker[k].timeLeft) \in 0..CallbackLease
        /\ Down(worker[k].delay) \in 0..RetryAfter
    <3>1. worker[k] \in WorkerStates
      BY Zenon, <1>0, WorkerParts
    <3>2. worker[k].timeLeft \in 0..CallbackLease /\ worker[k].delay \in 0..RetryAfter
      BY Zenon, <3>1 DEF WorkerStates
    <3> QED BY Zenon, <3>1, <3>2, TimerTypes, ConstantTypes
  <2> HIDE DEF Down
  <2> QED BY Zenon, <2>1, <2>2 DEF WorkerStates
<1>4. WorkerTypeOK'
  <2>1. worker' = [k \in Workers |-> worker'[k]]
    BY Zenon, <1>0 DEF WorkerTick
  <2>2. worker' \in [Workers -> WorkerStates]
    BY Zenon, <1>3, <2>1
  <2> QED BY Zenon, <1>0, <2>2 DEF WorkerTypeOK, WorkerTick
<1>5. WorkerState'
  <2> SUFFICES ASSUME NEW k \in Workers
               PROVE  /\ worker'[k].pc # "idle" => worker'[k].msg \in Messages
                      /\ worker'[k].pc = "finish" => worker'[k].kind \in Kinds
                      /\ worker'[k].pc = "http" => worker'[k].timeLeft >= FinishMargin
    BY Zenon DEF WorkerState
  <2>1. worker'[k].pc = "http" => worker'[k].timeLeft >= FinishMargin
    <3>1. worker[k].timeLeft \in Nat /\ worker'[k].timeLeft = Down(worker[k].timeLeft)
      BY Zenon, <1>0, <1>3, WorkerParts
    <3>2. worker'[k].pc = "http" => worker[k].timeLeft > FinishMargin
      BY Zenon, <1>0, <1>3 DEF WorkerTick, BeforeDeadline
    <3> QED BY <3>1, <3>2, WorkerConstants DEF Down
  <2> QED BY Zenon, <1>0, <1>3, <2>1 DEF WorkerState
<1>6. Reservations'
  BY Zenon, <1>0, TickKeepsReservations
<1>7. ASSUME NEW d \in Deliveries
      PROVE  outbox'[d].generation = outbox[d].generation /\ callback'[d].dlq = callback[d].dlq
  <2>1. /\ outbox[d] \in OutboxRows /\ callback[d] \in Callbacks
        /\ outbox'[d] = [outbox[d] EXCEPT !.age = IF outbox[d].claim = None THEN 0 ELSE Up(@),
                                          !.availableIn = Down(@)]
        /\ callback'[d] = [callback[d] EXCEPT !.leaseIn = Down(@), !.retryIn = Down(@)]
    BY Zenon, <1>0 DEF StoreTick, StoreTypeOK
  <2> HIDE DEF Down, Up
  <2> QED BY Zenon, <2>1 DEF OutboxRows, Callbacks
<1>8. Surroundings
  <2>1. \A d \in Deliveries : row[d].generation <= row'[d].generation
    BY <1>0, <1>1, StoreParts
  <2> QED BY Zenon, <1>0, <1>1, <1>3, <1>7, <2>1
          DEF Surroundings, WorkerTick, streamVars, NothingAhead, SettledFirst
<1> QED BY Zenon, <1>2, <1>4, <1>5, <1>6, <1>8, SurroundingsKeep DEF CallbackInv, Reservations

LEMMA CallbackInvInit == Init => CallbackInv
<1> SUFFICES ASSUME Init PROVE CallbackInv
  BY Zenon
<1>1. DispatchInv
  BY Zenon, DispatchInvInit DEF Init
<1>2. WorkerTypeOK
  BY FreeWorker, WorkerConstants DEF Init, WorkerInit, WorkerTypeOK
<1>3. \A k \in Workers : worker[k].pc = "idle" /\ worker[k].token = None
  BY Zenon, FreeWorker DEF Init, WorkerInit
<1>4. WorkerState /\ TokensAreOwn /\ LeaseIsHeld /\ RequestingAlone
  BY Zenon, <1>3 DEF WorkerState, TokensAreOwn, LeaseIsHeld, RequestingAlone, Requesting
<1>5. \A d \in Deliveries : /\ row[d].status = "pending" /\ row[d].generation = 1
                            /\ outbox[d].generation = 1
                            /\ callback[d].attempts = 0 /\ callback[d].dlq = FALSE
  BY Zenon DEF Init, StoreInit, NewOutbox, NoCallback
<1>6. (\A m \in Messages : messages[m] = "none") /\ (\A id \in MessageIds : requests[id] = 0)
  BY Zenon, IdParts DEF Init, StreamInit, WorkerInit
<1>7. NothingAhead /\ SettledFirst
  BY Zenon, <1>3, <1>5, <1>6 DEF NothingAhead, SettledFirst
<1>8. RequestsAreReserved
  <2> SUFFICES ASSUME NEW id \in MessageIds
               PROVE  requests[id] + (IF Unsent(id) THEN 1 ELSE 0) <=
                        IF row[id[1]].generation = id[2] THEN callback[id[1]].attempts ELSE MaxCallbacks
    BY Zenon DEF RequestsAreReserved
  <2>1. ~Unsent(id) /\ requests[id] = 0 /\ callback[id[1]].attempts = 0
    BY Zenon, <1>3, <1>5, <1>6, IdParts DEF Unsent
  <2> HIDE DEF Unsent
  <2> QED BY <2>1, WorkerConstants
<1> QED BY Zenon, <1>1, <1>2, <1>4, <1>7, <1>8 DEF CallbackInv

(* Every step of the path keeps the invariant: reservation, lease and      *)
(* message id, across duplicates, crashes, lost answers and replays.       *)
THEOREM CallbacksKeepTheInvariant == Spec => []CallbackInv
<1>1. CallbackInv /\ [Next]_vars => CallbackInv'
  <2> SUFFICES ASSUME CallbackInv, [Next]_vars PROVE CallbackInv'
    BY Zenon
  <2>1. CASE CallbackStep
    BY Zenon, <2>1, WorkerKeeps DEF CallbackStep
  <2>2. CASE UNCHANGED vars
    <3>1. /\ UNCHANGED <<row, assignment, callback, outbox>> /\ UNCHANGED <<messages, window>>
          /\ UNCHANGED dispatcherVars /\ UNCHANGED workerVars /\ UNCHANGED streamVars
      BY Zenon, <2>2 DEF vars, storeVars, streamVars
    <3>2. /\ DispatchInv /\ StoreTypeOK /\ NothingAhead /\ SettledFirst /\ StreamTypeOK
      BY Zenon DEF CallbackInv, DispatchInv, PathTypeOK
    <3>3. DispatchInv'
      <4>1. StoreTypeOK' /\ StreamTypeOK' /\ StoredStays /\ window' \subseteq window
        BY Zenon, <3>1, <3>2 DEF StoreTypeOK, StreamTypeOK, StoredStays, StoredNext, Stored
      <4> QED BY Zenon, <3>1, <3>2, <4>1, OutboxUntouched, OthersKeep DEF dispatcherVars
    <3>4. WorkerTypeOK' /\ WorkerState' /\ Reservations'
      BY Zenon, <3>1, ReservationsStay
    <3>5. Surroundings
      <4>1. StoreTypeOK' /\ \A d \in Deliveries : row[d].generation <= row[d].generation
        BY <3>1, <3>2, StoreParts DEF StoreTypeOK
      <4> QED BY Zenon, <3>1, <3>2, <4>1 DEF Surroundings, workerVars, NothingAhead, SettledFirst
    <3> QED BY Zenon, <3>3, <3>4, <3>5, SurroundingsKeep DEF CallbackInv, Reservations
  <2> QED BY Zenon, <2>1, <2>2, TickStepKeeps, ReplayStepKeeps, StreamStepKeeps, OutboxStepKeeps
          DEF Next
<1> QED BY <1>1, CallbackInvInit, PTL DEF Spec

(* process and callbacks.go together: a generation of a callback makes at  *)
(* most MaxCallbacks requests and never two at a time, for any number of   *)
(* workers, copies of the message, failed calls, crashes and replays.      *)
THEOREM RequestsComeInTurn == Spec => []RequestsInTurn
<1>1. CallbackInv => RequestsInTurn
  <2> SUFFICES ASSUME CallbackInv PROVE TypeOK /\ RequestsBounded /\ RequestsDoNotOverlap
    BY Zenon DEF RequestsInTurn
  <2>0. /\ StoreTypeOK /\ StreamTypeOK /\ DispatcherTypeOK /\ WorkerTypeOK /\ WorkerState
        /\ RequestsAreReserved /\ RequestingAlone
    BY Zenon DEF CallbackInv, DispatchInv, PathTypeOK
  <2>1. TypeOK
    BY Zenon, <2>0 DEF TypeOK
  <2>2. RequestsBounded
    <3> SUFFICES ASSUME NEW id \in MessageIds PROVE requests[id] <= MaxCallbacks
      BY Zenon DEF RequestsBounded
    <3>1. /\ requests[id] \in Nat /\ Budget(id) \in Nat /\ Budget(id) <= MaxCallbacks
          /\ requests[id] <= Budget(id)
      BY Zenon, <2>0, BudgetBefore
    <3> HIDE DEF Budget
    <3> QED BY <3>1, WorkerConstants
  <2>3. ASSUME NEW k \in Workers, worker[k].pc = "http"
        PROVE  Requesting(k)
    <3>1. worker[k].timeLeft >= FinishMargin /\ worker[k].timeLeft \in Nat
      BY Zenon, <2>0, <2>3, WorkerParts DEF WorkerState
    <3>2. worker[k].timeLeft > 0
      BY <3>1, WorkerConstants
    <3> QED BY Zenon, <2>3, <3>2 DEF Requesting
  <2>4. RequestsDoNotOverlap
    BY Zenon, <2>0, <2>3 DEF RequestsDoNotOverlap, RequestingAlone
  <2> QED BY Zenon, <2>1, <2>2, <2>4
<1> QED BY <1>1, CallbacksKeepTheInvariant, PTL

(* A message leaves RH_CALLBACKS only for a callback that is recorded as   *)
(* delivered, stored in RH_DLQ or replaced by a replay.                    *)
THEOREM AcksAreJustified == Spec => []AckJustified
<1>1. CallbackInv => AckJustified
  BY Zenon DEF CallbackInv, SettledFirst, Settled, AckJustified
<1> QED BY <1>1, CallbacksKeepTheInvariant, PTL

(* MarkCallbackDLQPublished records a dead letter of the generation that   *)
(* RH_DLQ holds, also when a replay or another worker comes between the    *)
(* publication and the record.                                             *)
THEOREM DeadLettersExist == Spec => []RecordedDeadLetterExists
<1>1. CallbackInv => RecordedDeadLetterExists
  BY Zenon DEF CallbackInv, SettledFirst, RecordedDeadLetterExists
<1> QED BY <1>1, CallbacksKeepTheInvariant, PTL
=============================================================================
