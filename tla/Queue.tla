------------------------------- MODULE Queue -------------------------------
(***************************************************************************)
(* Queue v2, store/postgres/queue_v2.go: the deliveries of one             *)
(* subscription.  Consumers pull batches under receipts, settle or extend  *)
(* their leases, crash, or come back with receipts of long ago.  A pull    *)
(* first sweeps the subscription: there is no other timer.                 *)
(*                                                                         *)
(* Every transaction is one step; a pull holds the subscription row for    *)
(* its whole transaction.  A batch of settlements or extensions is its     *)
(* items in a row.  Instants are the time left until them, as in           *)
(* DeliveryStore; a lease's runs on below 0, because the retry delay       *)
(* counts from the instant the lease ended.  One unit of time is one       *)
(* second, the window of the dispatch rate.  Which of the eligible         *)
(* deliveries a pull prefers is left open here: see QueuePriority.         *)
(***************************************************************************)
EXTENDS QueueSubscription, FiniteSets, Sequences

CONSTANTS
  Messages,       \* delivery ids, numbered in the order of created_at, id
  KeyOf,          \* ordering key of every message, or None
  None,           \* SQL NULL
  Receipts,       \* receipts (random in the code)
  MaxDelay,       \* largest delay a publisher or a consumer asks for
  MaxGeneration,  \* bound: generations that replays reach
  Perishable      \* messages whose retention period may end

ASSUME MessagesAssumption == Messages \subseteq Nat /\ IsFiniteSet(Messages)
ASSUME LimitsAssumption ==
  /\ \E p \in Policies : \A q \in Policies : q.maxAttempts <= p.maxAttempts
  /\ \E p \in Policies : \A q \in Policies : q.inFlight <= p.inFlight
  /\ \E p \in Policies : \A q \in Policies : q.total <= p.total
  /\ \E p \in Policies : \A q \in Policies : q.retry <= p.retry
ASSUME MaxDelayAssumption == MaxDelay \in Nat
ASSUME MaxGenerationAssumption == MaxGeneration \in Nat \ {0}
ASSUME NoneAssumption == None \notin Receipts

VARIABLES
  delivery,  \* queue_deliveries
  recent,    \* queue_delivery_attempts: leases within the last second
  results,   \* queue_result_callbacks: <<message, generation, outcome>>
  held,      \* receipts that consumers hold
  reader,    \* a drain status call between its two statements
  arrivals   \* history: the order of publication

queueVars == <<delivery, recent, results, held, reader, arrivals>>
vars == <<subscription, queueVars>>

MostAttempts ==
  CHOOSE n \in {p.maxAttempts : p \in Policies} : \A p \in Policies : p.maxAttempts <= n
MostInFlight ==
  CHOOSE n \in {p.inFlight : p \in Policies} : \A p \in Policies : p.inFlight <= n
LongestLease ==
  CHOOSE n \in {p.total : p \in Policies} : \A p \in Policies : p.total <= n
LongestRetry ==
  CHOOSE n \in {p.retry : p \in Policies} : \A p \in Policies : p.retry <= n

Later(n, m) == IF n > m THEN n ELSE m
Sooner(n, m) == IF n < m THEN n ELSE m

Statuses == {"absent", "available", "in_flight", "acked", "dead_letter", "deleted"}
DeliveryRows ==
  [status : Statuses, attempts : 0..MostAttempts, generation : 1..MaxGeneration,
   receipt : Receipts \cup {None}, leaseIn : -LongestRetry..LongestLease, maxIn : 0..LongestLease,
   availableIn : 0..Later(MaxDelay, LongestRetry), expired : BOOLEAN]

NoRow == [status |-> "absent", attempts |-> 0, generation |-> 1, receipt |-> None,
          leaseIn |-> 0, maxIn |-> 0, availableIn |-> 0, expired |-> FALSE]

Init ==
  /\ CreateQueueSubscription
  /\ delivery = [m \in Messages |-> NoRow]
  /\ recent = {}
  /\ results = {}
  /\ held = {}
  /\ reader = "idle"
  /\ arrivals = <<>>

InFlight(rows) == {m \in Messages : rows[m].status = "in_flight"}
WithLease(row, receipt, leaseIn, maxIn) ==
  [row EXCEPT !.receipt = receipt, !.leaseIn = leaseIn, !.maxIn = maxIn]
Free(row, status) == [WithLease(row, None, 0, 0) EXCEPT !.status = status]

(* The part of PublishEvent that fans out to this subscription.  Publishers *)
(* commit in any order, whatever created_at they have stamped.             *)
PublishEvent(m) ==
  /\ subscription.exists /\ subscription.enabled /\ ~subscription.paused
  /\ delivery[m].status = "absent"
  /\ \E delay \in 0..MaxDelay :
       delivery' = [delivery EXCEPT ![m] = [@ EXCEPT !.status = "available", !.availableIn = delay]]
  /\ arrivals' = Append(arrivals, m)
  /\ UNCHANGED <<subscription, recent, results, held, reader>>

-----------------------------------------------------------------------------
(* PullQueueDeliveries. *)

LeaseOver(row) == row.status = "in_flight" /\ row.leaseIn <= 0

Exhausted(row) == row.attempts >= subscription.policy.maxAttempts

\* mutant of Reclaimed: nobody takes a lease back
NeverReclaimed(row) == row

Reclaimed(row) ==
  CASE LeaseOver(row) /\ Exhausted(row) -> Free(row, "dead_letter")
    [] LeaseOver(row) /\ ~Exhausted(row) ->
         [Free(row, "available") EXCEPT !.availableIn = Later(0, subscription.policy.retry + row.leaseIn)]
    [] OTHER -> row

Retired(row) ==
  IF row.status = "available" /\ row.expired THEN [row EXCEPT !.status = "dead_letter"] ELSE row

Swept == [m \in Messages |-> Retired(Reclaimed(delivery[m]))]

(* Only exhausted deliveries have their failure reported. *)
ReportsOfSweep ==
  {<<m, delivery[m].generation, "failure">> :
     m \in {n \in Messages : subscription.policy.onFailure /\ LeaseOver(delivery[n]) /\ Exhausted(delivery[n])}}

\* mutant of Blocked: an earlier delivery blocks only while it is in flight
BlockedByLease(rows, m) ==
  /\ subscription.policy.ordered /\ KeyOf[m] # None
  /\ \E n \in Messages : n < m /\ KeyOf[n] = KeyOf[m] /\ rows[n].status = "in_flight"

Blocked(rows, m) ==
  /\ subscription.policy.ordered /\ KeyOf[m] # None
  /\ \E n \in Messages :
       n < m /\ KeyOf[n] = KeyOf[m] /\ rows[n].status \in {"available", "in_flight"}

Eligible(rows) ==
  {m \in Messages : /\ rows[m].status = "available" /\ rows[m].availableIn = 0
                    /\ ~rows[m].expired /\ ~Blocked(rows, m)}

Dispatched == Cardinality(recent)

\* mutants of Room: leases in flight are not counted; the rate holds per pull
RoomOfBatch(rows, limit) == Sooner(limit, subscription.policy.inFlight)
RoomEveryPull(rows, limit) ==
  LET capacity == subscription.policy.inFlight - Cardinality(InFlight(rows))
      rate == IF subscription.policy.rate = 0 THEN limit ELSE subscription.policy.rate
  IN  Later(0, Sooner(limit, Sooner(capacity, rate)))

(* How many deliveries the pull may lease. *)
Room(rows, limit) ==
  LET capacity == subscription.policy.inFlight - Cardinality(InFlight(rows))
      rate == IF subscription.policy.rate = 0 THEN limit ELSE subscription.policy.rate - Dispatched
  IN  Later(0, Sooner(limit, Sooner(capacity, rate)))

FreshReceipts ==
  Receipts \ ({delivery[m].receipt : m \in Messages} \cup held)

Leased(row, receipt, visibility) ==
  [WithLease(row, receipt, visibility, subscription.policy.total) EXCEPT
     !.status = "in_flight", !.attempts = @ + 1]

Open == subscription.exists /\ ~subscription.draining /\ subscription.enabled /\ ~subscription.paused

PullQueueDeliveries ==
  /\ Open
  /\ \E limit \in 1..subscription.policy.batch, visibility \in 1..subscription.policy.visibility,
        leased \in SUBSET Eligible(Swept) :
       /\ Cardinality(leased) = Sooner(Room(Swept, limit), Cardinality(Eligible(Swept)))
       /\ \E given \in [leased -> FreshReceipts] :
            /\ \A m, n \in leased : given[m] = given[n] => m = n
            /\ delivery' = [m \in Messages |->
                 IF m \in leased THEN Leased(Swept[m], given[m], visibility) ELSE Swept[m]]
            /\ held' = held \cup {given[m] : m \in leased}
       /\ recent' = recent \cup
            {<<m, Swept[m].generation, Swept[m].attempts + 1>> : m \in leased}
  /\ results' = results \cup ReportsOfSweep
  /\ UNCHANGED <<subscription, reader, arrivals>>

-----------------------------------------------------------------------------
(* What consumers do with a receipt. *)

(* The condition of every statement that takes a receipt. *)
Holds(m, receipt) ==
  /\ subscription.exists
  /\ delivery[m].receipt = receipt
  /\ delivery[m].status = "in_flight"
  /\ delivery[m].leaseIn > 0

(* insertQueueResultCallback. *)
Report(m, status) ==
  results' = results \cup
    CASE status = "acked" /\ subscription.policy.onSuccess ->
           {<<m, delivery[m].generation, "success">>}
      [] status = "dead_letter" /\ subscription.policy.onFailure ->
           {<<m, delivery[m].generation, "failure">>}
      [] OTHER -> {}

Dispositions == {"acked", "available", "dead_letter"}

(* A retry that is one too many is a dead letter. *)
SettledAs(m, disposition) ==
  IF disposition = "available" /\ Exhausted(delivery[m]) THEN "dead_letter" ELSE disposition

(* The answer may be lost: then the consumer keeps its receipt. *)
Forget(receipt) == held' \in {held, held \ {receipt}}

SettleQueueDeliveries(m, receipt) ==
  /\ receipt \in held
  /\ Holds(m, receipt)
  /\ \E disposition \in Dispositions, delay \in 0..MaxDelay :
       LET status == SettledAs(m, disposition) IN
         /\ delivery' = [delivery EXCEPT ![m] =
              [Free(delivery[m], status) EXCEPT
                 !.availableIn = IF disposition = "available" THEN delay ELSE 0]]
         /\ Report(m, status)
  /\ Forget(receipt)
  /\ UNCHANGED <<subscription, recent, reader, arrivals>>

Extended(row, extension) == [row EXCEPT !.leaseIn = Sooner(@ + extension, row.maxIn)]

ExtendQueueLeases(m, receipt) ==
  /\ receipt \in held
  /\ Holds(m, receipt)
  /\ \E extension \in 1..LongestLease :
       delivery' = [delivery EXCEPT ![m] = Extended(@, extension)]
  /\ UNCHANGED <<subscription, recent, results, held, reader, arrivals>>

(* invalid_receipt, or a crash: the consumer drops the receipt. *)
DropReceipt(receipt) ==
  /\ receipt \in held
  /\ held' = held \ {receipt}
  /\ UNCHANGED <<subscription, delivery, recent, results, reader, arrivals>>

-----------------------------------------------------------------------------
(* What owners do. *)

\* mutant of Reopened: the generation stays
ReopenedInPlace(row) == [row EXCEPT !.status = "available", !.attempts = 0, !.availableIn = 0]

(* The retention period does not start again. *)
Reopened(row) ==
  [row EXCEPT !.status = "available", !.attempts = 0, !.availableIn = 0, !.generation = @ + 1]

ReplayQueueDeadLetters(ids) ==
  /\ subscription.exists
  /\ ids # {}
  /\ \A m \in ids : delivery[m].status = "dead_letter" /\ delivery[m].generation < MaxGeneration
  /\ delivery' = [m \in Messages |-> IF m \in ids THEN Reopened(delivery[m]) ELSE delivery[m]]
  /\ UNCHANGED <<subscription, recent, results, held, reader, arrivals>>

(* The attempts go with the row. *)
DeleteQueueDeadLetters(m) ==
  /\ subscription.exists
  /\ delivery[m].status = "dead_letter"
  /\ delivery' = [delivery EXCEPT ![m] = [@ EXCEPT !.status = "deleted"]]
  /\ recent' = {lease \in recent : lease[1] # m}
  /\ UNCHANGED <<subscription, results, held, reader, arrivals>>

(* GetQueueDrain counts the leases in one statement and stores the end of  *)
(* the drain in another.                                                   *)
CountInFlight ==
  /\ reader = "idle"
  /\ subscription.exists /\ subscription.draining /\ ~subscription.drained
  /\ InFlight(delivery) = {}
  /\ reader' = "counted"
  /\ UNCHANGED <<subscription, delivery, recent, results, held, arrivals>>

StoreDrained ==
  /\ reader = "counted"
  /\ reader' = "idle"
  /\ IF subscription.exists /\ ~subscription.drained THEN CompleteDrain ELSE UNCHANGED subscription
  /\ UNCHANGED <<delivery, recent, results, held, arrivals>>

AdministerQueue == Administer /\ UNCHANGED queueVars

-----------------------------------------------------------------------------
Down(n, floor) == IF n > floor THEN n - 1 ELSE n

Aged(row) ==
  [row EXCEPT !.leaseIn = IF row.status = "in_flight" THEN Down(@, -LongestRetry) ELSE @,
              !.maxIn = Down(@, 0),
              !.availableIn = Down(@, 0)]

Tick ==
  /\ delivery' = [m \in Messages |-> Aged(delivery[m])]
  /\ recent' = {}
  /\ <<delivery', recent'>> # <<delivery, recent>>
  /\ UNCHANGED <<subscription, results, held, reader, arrivals>>

(* The retention period is long against everything else: it may end at any *)
(* time.  Only a pull notices.                                             *)
RetentionEnds(m) ==
  /\ m \in Perishable
  /\ delivery[m].status # "absent" /\ ~delivery[m].expired
  /\ delivery' = [delivery EXCEPT ![m] = [@ EXCEPT !.expired = TRUE]]
  /\ UNCHANGED <<subscription, recent, results, held, reader, arrivals>>

Consume(m, receipt) == SettleQueueDeliveries(m, receipt) \/ ExtendQueueLeases(m, receipt)

Next ==
  \/ \E m \in Messages : PublishEvent(m) \/ DeleteQueueDeadLetters(m) \/ RetentionEnds(m)
  \/ PullQueueDeliveries
  \/ \E m \in Messages, receipt \in Receipts : Consume(m, receipt)
  \/ \E receipt \in Receipts : DropReceipt(receipt)
  \/ \E ids \in SUBSET Messages : ReplayQueueDeadLetters(ids)
  \/ CountInFlight \/ StoreDrained
  \/ AdministerQueue
  \/ Tick

Spec == Init /\ [][Next]_vars

(* Liveness: consumers keep pulling and time passes.  Nothing is assumed   *)
(* of what a consumer does with what it has pulled, except that it forgets *)
(* its receipts in the end: there are only so many of them here.           *)
FairSpec ==
  /\ Spec
  /\ WF_vars(PullQueueDeliveries)
  /\ WF_vars(Tick)
  /\ \A receipt \in Receipts : WF_vars(DropReceipt(receipt))

-----------------------------------------------------------------------------
TypeOK ==
  /\ subscription \in Subscriptions
  /\ delivery \in [Messages -> DeliveryRows]
  /\ recent \subseteq Messages \X (1..MaxGeneration) \X (1..MostAttempts)
  /\ results \subseteq Messages \X (1..MaxGeneration) \X {"success", "failure"}
  /\ held \subseteq Receipts
  /\ reader \in {"idle", "counted"}
  /\ arrivals \in Seq(Messages)

(* Concurrent pulls never have more deliveries in flight than max_in_flight. *)
InFlightBounded == Cardinality(InFlight(delivery)) <= MostInFlight

(* Of the deliveries that still exist, no more than max_dispatch_rate are  *)
(* leased within a second, by however many pulls.  When the owner changes  *)
(* the rate within that second, the largest counts.                        *)
RateRespected ==
  (\A p \in Policies : p.rate > 0) => \E p \in Policies : Dispatched <= p.rate

(* A generation is leased at most max_attempts times, and a delivery that  *)
(* has used them up is not offered again.                                  *)
AttemptsBounded ==
  \A m \in Messages :
    /\ delivery[m].attempts <= MostAttempts
    /\ delivery[m].status = "available" => delivery[m].attempts < MostAttempts

(* No extension lets a lease outlive its total time. *)
LeaseCapped ==
  \A m \in InFlight(delivery) : delivery[m].leaseIn <= delivery[m].maxIn

(* A drain that is reported complete is complete: no lease is left, and    *)
(* none appears afterwards.                                                *)
DrainedHoldsNothing == subscription.drained => InFlight(delivery) = {}

(* What holds of the rows at any time for every policy, all of it proved   *)
(* in QueueProofs: types, capacity, attempts, lease time and drain.        *)
QueueSafe == TypeOK /\ InFlightBounded /\ AttemptsBounded /\ LeaseCapped /\ DrainedHoldsNothing

(* The result callbacks tell the truth, and one story per generation: a    *)
(* success is reported of acknowledged deliveries only, a failure of dead  *)
(* letters, or of the generation before a replay.                          *)
ResultsTellTheTruth ==
  \A r \in results : LET row == delivery[r[1]] IN
    IF r[3] = "success" THEN row.status = "acked" /\ row.generation = r[2]
    ELSE row.generation > r[2] \/ row.status \in {"dead_letter", "deleted"}

Arrived(n, m) ==
  \E i, j \in 1..Len(arrivals) : i < j /\ arrivals[i] = n /\ arrivals[j] = m

(* Per ordering key, a delivery is handed out only after the earlier ones  *)
(* that were there before it are settled, as long as nobody replays them.  *)
FifoPerKey ==
  (\A p \in Policies : p.ordered) =>
    \A n, m \in Messages :
      /\ n < m /\ KeyOf[n] = KeyOf[m] /\ KeyOf[m] # None
      /\ Arrived(n, m) /\ delivery[n].generation = 1
      /\ delivery[m].attempts > 0
      => delivery[n].status \in {"acked", "dead_letter", "deleted"}

Stage(m) ==
  CASE delivery[m].status = "acked" -> "done"
    [] delivery[m].status \in {"dead_letter", "deleted"} -> "dead"
    [] OTHER -> "open"

Lifecycle == INSTANCE DeliveryLifecycle WITH
  Deliveries <- Messages,
  stage <- [m \in Messages |-> Stage(m)],
  generation <- [m \in Messages |-> delivery[m].generation]

(* Every queue delivery keeps the promise of DeliveryLifecycle: done is    *)
(* for ever, and a dead letter is reopened only as a new generation.       *)
ImplementsLifecycle == Lifecycle!Spec

(* A published delivery is acknowledged or becomes a dead letter, however  *)
(* often consumers crash, as long as somebody pulls and the subscription   *)
(* is open in the end.                                                     *)
EventuallySettled ==
  <>[]Open =>
    \A m \in Messages : []<>(delivery[m].status \notin {"available", "in_flight"})
=============================================================================
