----------------------------- MODULE QueueProofs -----------------------------
(***************************************************************************)
(* Proofs about Queue, for every set of messages, receipts and policies.   *)
(*                                                                         *)
(* The inductive invariant has two parts.  Every row is sound by itself    *)
(* (SoundRow): its lease ends before its total time, and while it is       *)
(* offered it has attempts left.  And the rows agree with the subscription *)
(* (Drain, InFlightBounded): once a drain status call has counted no       *)
(* leases, there are none.                                                 *)
(***************************************************************************)
EXTENDS Queue, FiniteSetTheorems, TLAPS

(* The bounds of the rows are those of the most generous policies. *)
LEMMA Limits ==
  /\ MostAttempts \in Nat \ {0} /\ MostInFlight \in Nat /\ LongestLease \in Nat /\ LongestRetry \in Nat
  /\ \A p \in Policies :
       /\ p.maxAttempts <= MostAttempts /\ p.inFlight <= MostInFlight
       /\ p.total <= LongestLease /\ p.retry <= LongestRetry
<1> USE PoliciesAssumption DEF ValidPolicies
<1>1. /\ MostAttempts \in {p.maxAttempts : p \in Policies}
      /\ \A p \in Policies : p.maxAttempts <= MostAttempts
  <2>1. \E n \in {p.maxAttempts : p \in Policies} : \A p \in Policies : p.maxAttempts <= n
    BY Zenon, LimitsAssumption
  <2> QED BY <2>1, Zenon DEF MostAttempts
<1>2. /\ MostInFlight \in {p.inFlight : p \in Policies}
      /\ \A p \in Policies : p.inFlight <= MostInFlight
  <2>1. \E n \in {p.inFlight : p \in Policies} : \A p \in Policies : p.inFlight <= n
    BY Zenon, LimitsAssumption
  <2> QED BY <2>1, Zenon DEF MostInFlight
<1>3. /\ LongestLease \in {p.total : p \in Policies}
      /\ \A p \in Policies : p.total <= LongestLease
  <2>1. \E n \in {p.total : p \in Policies} : \A p \in Policies : p.total <= n
    BY Zenon, LimitsAssumption
  <2> QED BY <2>1, Zenon DEF LongestLease
<1>4. /\ LongestRetry \in {p.retry : p \in Policies}
      /\ \A p \in Policies : p.retry <= LongestRetry
  <2>1. \E n \in {p.retry : p \in Policies} : \A p \in Policies : p.retry <= n
    BY Zenon, LimitsAssumption
  <2> QED BY <2>1, Zenon DEF LongestRetry
<1> QED BY <1>1, <1>2, <1>3, <1>4

(* What holds of every row by itself. *)
SoundRow(row) ==
  /\ row \in DeliveryRows
  /\ row.status = "in_flight" => row.leaseIn <= row.maxIn
  /\ row.status = "available" => row.attempts < MostAttempts
  /\ row.status = "absent" => row.attempts = 0

LEMMA PolicyInUse ==
  ASSUME subscription \in Subscriptions
  PROVE  LET p == subscription.policy IN
           /\ p \in Policies
           /\ p.maxAttempts \in Nat \ {0} /\ p.maxAttempts <= MostAttempts
           /\ p.inFlight \in Nat /\ p.inFlight <= MostInFlight
           /\ p.visibility \in Nat /\ p.total \in Nat
           /\ p.visibility <= p.total /\ p.total <= LongestLease
           /\ p.retry \in Nat /\ p.retry <= LongestRetry
           /\ p.batch \in Nat /\ p.rate \in Nat
BY Limits, PoliciesAssumption DEF Subscriptions, ValidPolicies

LEMMA NoRowSound == SoundRow(NoRow)
BY Limits, MaxGenerationAssumption, MaxDelayAssumption DEF SoundRow, DeliveryRows, NoRow, Statuses, Later

(* What the updates of a lease leave of a row. *)
LEMMA LeaseFields ==
  ASSUME NEW row \in DeliveryRows, NEW receipt \in Receipts \cup {None},
         NEW leaseIn \in -LongestRetry..LongestLease, NEW maxIn \in 0..LongestLease
  PROVE  LET new == WithLease(row, receipt, leaseIn, maxIn) IN
           /\ new \in DeliveryRows
           /\ new.status = row.status /\ new.attempts = row.attempts
           /\ new.generation = row.generation /\ new.receipt = receipt
           /\ new.leaseIn = leaseIn /\ new.maxIn = maxIn
           /\ new.availableIn = row.availableIn /\ new.expired = row.expired
<1> DEFINE new == WithLease(row, receipt, leaseIn, maxIn)
<1>1. new \in DeliveryRows
  BY Zenon DEF WithLease, DeliveryRows
<1>2. /\ new.status = row.status /\ new.attempts = row.attempts
      /\ new.generation = row.generation /\ new.receipt = receipt
      /\ new.leaseIn = leaseIn /\ new.maxIn = maxIn
      /\ new.availableIn = row.availableIn /\ new.expired = row.expired
  BY Zenon DEF WithLease, DeliveryRows
<1> QED BY <1>1, <1>2, Zenon

LEMMA FreeFields ==
  ASSUME NEW row \in DeliveryRows, NEW status \in Statuses
  PROVE  LET new == Free(row, status) IN
           /\ new \in DeliveryRows
           /\ new.status = status /\ new.attempts = row.attempts
           /\ new.generation = row.generation /\ new.receipt = None
           /\ new.leaseIn = 0 /\ new.maxIn = 0
           /\ new.availableIn = row.availableIn /\ new.expired = row.expired
<1> DEFINE lease == WithLease(row, None, 0, 0)
           new == Free(row, status)
<1>0. 0 \in -LongestRetry..LongestLease /\ 0 \in 0..LongestLease
  BY Limits
<1>1. /\ lease \in DeliveryRows
      /\ lease.status = row.status /\ lease.attempts = row.attempts
      /\ lease.generation = row.generation /\ lease.receipt = None
      /\ lease.leaseIn = 0 /\ lease.maxIn = 0
      /\ lease.availableIn = row.availableIn /\ lease.expired = row.expired
  BY <1>0, LeaseFields
<1>2. new = [lease EXCEPT !.status = status]
  BY Zenon DEF Free
<1> HIDE DEF lease, new
<1>3. new \in DeliveryRows
  BY <1>1, <1>2, Zenon DEF DeliveryRows
<1>4. /\ new.status = status /\ new.attempts = row.attempts
      /\ new.generation = row.generation /\ new.receipt = None
      /\ new.leaseIn = 0 /\ new.maxIn = 0
      /\ new.availableIn = row.availableIn /\ new.expired = row.expired
  BY Zenon, <1>1, <1>2 DEF DeliveryRows
<1> QED BY <1>3, <1>4, Zenon DEF new

(* Changing when a row is available keeps the rest of it. *)
LEMMA AvailableFields ==
  ASSUME NEW row \in DeliveryRows, NEW n \in 0..Later(MaxDelay, LongestRetry)
  PROVE  LET new == [row EXCEPT !.availableIn = n] IN
           /\ new \in DeliveryRows
           /\ new.status = row.status /\ new.attempts = row.attempts
           /\ new.generation = row.generation
           /\ new.leaseIn = row.leaseIn /\ new.maxIn = row.maxIn
<1> DEFINE new == [row EXCEPT !.availableIn = n]
<1>1. new \in DeliveryRows
  BY Zenon DEF DeliveryRows
<1>2. /\ new.status = row.status /\ new.attempts = row.attempts
      /\ new.generation = row.generation
      /\ new.leaseIn = row.leaseIn /\ new.maxIn = row.maxIn
  BY Zenon DEF DeliveryRows
<1> QED BY <1>1, <1>2, Zenon

(* A sweep leaves a sound row, starts no lease, and keeps the generation.  *)
(* What it gives up was open.                                              *)
LEMMA SweepSound ==
  ASSUME subscription \in Subscriptions, NEW row, SoundRow(row)
  PROVE  LET new == Retired(Reclaimed(row)) IN
           /\ SoundRow(new)
           /\ new.status = "in_flight" => row.status = "in_flight"
           /\ new.generation = row.generation /\ new.attempts = row.attempts
           /\ \/ new.status = row.status
              \/ row.status = "in_flight" /\ new.status = "available"
              \/ row.status \in {"available", "in_flight"} /\ new.status = "dead_letter"
<1> DEFINE mid == Reclaimed(row)
           new == Retired(mid)
           swept(r) == /\ SoundRow(r)
                       /\ r.status = "in_flight" => row.status = "in_flight"
                       /\ r.generation = row.generation /\ r.attempts = row.attempts
                       /\ \/ r.status = row.status
                          \/ row.status = "in_flight" /\ r.status = "available"
                          \/ row.status \in {"available", "in_flight"} /\ r.status = "dead_letter"
<1>1. swept(mid)
  <2>1. CASE LeaseOver(row) /\ Exhausted(row)
    <3>1. mid = Free(row, "dead_letter")
      BY Zenon, <2>1 DEF Reclaimed
    <3> QED BY <2>1, <3>1, FreeFields DEF SoundRow, Statuses, LeaseOver
  <2>2. CASE LeaseOver(row) /\ ~Exhausted(row)
    <3> DEFINE n == Later(0, subscription.policy.retry + row.leaseIn)
               freed == Free(row, "available")
    <3>1. mid = [freed EXCEPT !.availableIn = n]
      BY Zenon, <2>2 DEF Reclaimed
    <3>2. n \in 0..Later(MaxDelay, LongestRetry)
      BY <2>2, Limits, PolicyInUse, MaxDelayAssumption DEF SoundRow, DeliveryRows, LeaseOver, Later
    <3>3. row.attempts < MostAttempts
      BY <2>2, Limits, PolicyInUse DEF SoundRow, DeliveryRows, Exhausted
    <3>4. /\ freed \in DeliveryRows /\ freed.status = "available"
          /\ freed.attempts = row.attempts /\ freed.generation = row.generation
      BY Zenon, FreeFields DEF SoundRow, Statuses
    <3> HIDE DEF n, freed, mid
    <3>5. /\ mid \in DeliveryRows /\ mid.status = "available"
          /\ mid.attempts = row.attempts /\ mid.generation = row.generation
      BY Zenon, <3>1, <3>2, <3>4, AvailableFields
    <3> QED BY Zenon, <2>2, <3>3, <3>5 DEF SoundRow, LeaseOver
  <2>3. CASE ~LeaseOver(row)
    BY Zenon, <2>3 DEF Reclaimed
  <2> QED BY Zenon, <2>1, <2>2, <2>3
<1> HIDE DEF mid
<1>2. swept(new)
  <2>1. CASE mid.status = "available" /\ mid.expired
    <3>1. new = [mid EXCEPT !.status = "dead_letter"]
      BY Zenon, <2>1 DEF Retired
    <3>2. new \in DeliveryRows
      BY <1>1, <3>1, Zenon DEF DeliveryRows, Statuses, SoundRow
    <3>3. /\ new.status = "dead_letter" /\ new.generation = mid.generation
          /\ new.attempts = mid.attempts
      BY Zenon, <1>1, <3>1 DEF DeliveryRows, SoundRow
    <3> QED BY Zenon, <1>1, <2>1, <3>2, <3>3 DEF SoundRow
  <2>2. CASE ~(mid.status = "available" /\ mid.expired)
    <3>1. new = mid
      BY Zenon, <2>2 DEF Retired
    <3> QED BY Zenon, <1>1, <3>1
  <2> QED BY Zenon, <2>1, <2>2
<1> QED BY <1>2, Zenon DEF mid

LEMMA LeasedSound ==
  ASSUME subscription \in Subscriptions,
         NEW row, SoundRow(row), row.status = "available",
         NEW receipt \in Receipts, NEW visibility \in 1..subscription.policy.visibility
  PROVE  LET new == Leased(row, receipt, visibility) IN
           SoundRow(new) /\ new.status = "in_flight" /\ new.generation = row.generation
<1> DEFINE total == subscription.policy.total
           lease == WithLease(row, receipt, visibility, total)
           new == Leased(row, receipt, visibility)
<1>1. /\ visibility \in -LongestRetry..LongestLease /\ total \in 0..LongestLease
      /\ visibility <= total /\ row.attempts + 1 \in 0..MostAttempts
  BY Limits, PolicyInUse DEF SoundRow, DeliveryRows
<1>2. /\ lease \in DeliveryRows /\ lease.attempts = row.attempts /\ lease.generation = row.generation
      /\ lease.leaseIn = visibility /\ lease.maxIn = total
  BY <1>1, LeaseFields DEF SoundRow
<1>3. new = [lease EXCEPT !.status = "in_flight", !.attempts = lease.attempts + 1]
  BY Zenon DEF Leased
<1> HIDE DEF new, lease, total
<1>4. new \in DeliveryRows
  BY <1>1, <1>2, <1>3, Zenon DEF DeliveryRows, Statuses
<1>5. /\ new.status = "in_flight" /\ new.leaseIn = visibility /\ new.maxIn = total
      /\ new.generation = row.generation
  BY Zenon, <1>2, <1>3 DEF DeliveryRows
<1> QED BY Zenon, <1>1, <1>4, <1>5 DEF SoundRow, new

(* A settlement ends the lease; the last retry becomes a dead letter. *)
LEMMA SettledSound ==
  ASSUME subscription \in Subscriptions,
         NEW m \in Messages, SoundRow(delivery[m]), delivery[m].status = "in_flight",
         NEW disposition \in Dispositions, NEW delay \in 0..MaxDelay
  PROVE  LET status == SettledAs(m, disposition)
             new == [Free(delivery[m], status) EXCEPT
                       !.availableIn = IF disposition = "available" THEN delay ELSE 0] IN
           /\ status \in Dispositions
           /\ SoundRow(new) /\ new.status = status /\ new.generation = delivery[m].generation
<1> DEFINE status == SettledAs(m, disposition)
           n == IF disposition = "available" THEN delay ELSE 0
           freed == Free(delivery[m], status)
           new == [freed EXCEPT !.availableIn = n]
<1>1. status \in Dispositions /\ status \in Statuses
  BY Zenon DEF SettledAs, Dispositions, Statuses
<1>2. n \in 0..Later(MaxDelay, LongestRetry)
  BY Limits, MaxDelayAssumption DEF Later
<1>3. status = "available" => delivery[m].attempts < MostAttempts
  BY Limits, PolicyInUse DEF SettledAs, Exhausted, SoundRow, DeliveryRows
<1>4. /\ freed \in DeliveryRows /\ freed.status = status
      /\ freed.attempts = delivery[m].attempts /\ freed.generation = delivery[m].generation
      /\ freed.leaseIn = 0 /\ freed.maxIn = 0
  BY Zenon, <1>1, FreeFields DEF SoundRow
<1> HIDE DEF n, freed
<1>5. /\ new \in DeliveryRows /\ new.status = status
      /\ new.attempts = delivery[m].attempts /\ new.generation = delivery[m].generation
      /\ new.leaseIn = 0 /\ new.maxIn = 0
  BY Zenon, <1>2, <1>4, AvailableFields
<1> HIDE DEF new, status
<1>6. SoundRow(new)
  BY Zenon, <1>1, <1>3, <1>5 DEF SoundRow, Dispositions
<1> QED BY Zenon, <1>1, <1>5, <1>6 DEF new, freed, n, status

LEMMA ExtendedSound ==
  ASSUME NEW row, SoundRow(row), NEW extension \in 1..LongestLease
  PROVE  LET new == Extended(row, extension) IN
           SoundRow(new) /\ new.status = row.status /\ new.generation = row.generation
<1> DEFINE n == Sooner(row.leaseIn + extension, row.maxIn)
           new == Extended(row, extension)
<1>1. n \in -LongestRetry..LongestLease /\ n <= row.maxIn
  BY Limits DEF SoundRow, DeliveryRows, Sooner
<1>2. new = [row EXCEPT !.leaseIn = n]
  BY Zenon DEF Extended
<1> HIDE DEF n, new
<1>3. new \in DeliveryRows
  BY <1>1, <1>2, Zenon DEF SoundRow, DeliveryRows
<1>4. /\ new.status = row.status /\ new.attempts = row.attempts /\ new.generation = row.generation
      /\ new.leaseIn = n /\ new.maxIn = row.maxIn
  BY Zenon, <1>2 DEF SoundRow, DeliveryRows
<1> QED BY Zenon, <1>1, <1>3, <1>4 DEF SoundRow, new

LEMMA ReopenedSound ==
  ASSUME NEW row, SoundRow(row), row.generation < MaxGeneration
  PROVE  LET new == Reopened(row) IN
           SoundRow(new) /\ new.status = "available" /\ new.generation = row.generation + 1
<1> DEFINE mid == [row EXCEPT !.status = "available", !.attempts = 0]
           new == Reopened(row)
<1>1. 0 \in 0..MostAttempts /\ 0 < MostAttempts /\ 0 \in 0..Later(MaxDelay, LongestRetry)
  BY Limits, MaxDelayAssumption DEF Later
<1>2. row.generation + 1 \in 1..MaxGeneration
  BY MaxGenerationAssumption DEF SoundRow, DeliveryRows
<1>3. mid \in DeliveryRows
  BY <1>1, Zenon DEF SoundRow, DeliveryRows, Statuses
<1>4. mid.status = "available" /\ mid.attempts = 0 /\ mid.generation = row.generation
  BY Zenon DEF SoundRow, DeliveryRows
<1>5. new = [mid EXCEPT !.availableIn = 0, !.generation = row.generation + 1]
  BY Zenon DEF Reopened, SoundRow, DeliveryRows
<1> HIDE DEF mid, new
<1>6. new \in DeliveryRows
  BY <1>1, <1>2, <1>3, <1>5, Zenon DEF DeliveryRows
<1>7. new.status = "available" /\ new.attempts = 0 /\ new.generation = row.generation + 1
  BY Zenon, <1>3, <1>4, <1>5 DEF DeliveryRows
<1> QED BY Zenon, <1>1, <1>6, <1>7 DEF SoundRow, new

LEMMA AgedSound ==
  ASSUME NEW row, SoundRow(row)
  PROVE  LET new == Aged(row) IN
           SoundRow(new) /\ new.status = row.status /\ new.generation = row.generation
<1> DEFINE l == IF row.status = "in_flight" THEN Down(row.leaseIn, -LongestRetry) ELSE row.leaseIn
           x == Down(row.maxIn, 0)
           n == Down(row.availableIn, 0)
           new == Aged(row)
<1>1. l \in -LongestRetry..LongestLease /\ x \in 0..LongestLease
  BY Limits DEF SoundRow, DeliveryRows, Down
<1>2. n \in 0..Later(MaxDelay, LongestRetry)
  BY Limits, MaxDelayAssumption DEF SoundRow, DeliveryRows, Down, Later
<1>3. row.status = "in_flight" => l <= x
  BY Limits DEF SoundRow, DeliveryRows, Down
<1>4. new = [row EXCEPT !.leaseIn = l, !.maxIn = x, !.availableIn = n]
  BY Zenon DEF Aged
<1> HIDE DEF l, x, n, new
<1>5. new \in DeliveryRows
  BY <1>1, <1>2, <1>4, Zenon DEF SoundRow, DeliveryRows
<1>6. /\ new.status = row.status /\ new.attempts = row.attempts /\ new.generation = row.generation
      /\ new.leaseIn = l /\ new.maxIn = x
  BY Zenon, <1>4 DEF SoundRow, DeliveryRows
<1> QED BY Zenon, <1>3, <1>5, <1>6 DEF SoundRow, new

-----------------------------------------------------------------------------
(* The subscription. *)

(* A revision changes what its operation says, and the version. *)
LEMMA Revised ==
  ASSUME NEW changed \in Subscriptions, Revise(changed),
         subscription \in Subscriptions, changed.version = subscription.version
  PROVE  /\ subscription' \in Subscriptions
         /\ subscription'.draining = changed.draining
         /\ subscription'.drained = changed.drained
<1>1. subscription' = [changed EXCEPT !.version = changed.version + 1]
  BY Zenon DEF Revise
<1>2. changed.version + 1 \in 1..MaxVersion
  BY MaxVersionAssumption DEF Revise, Subscriptions
<1>3. subscription' \in Subscriptions
  BY <1>1, <1>2, Zenon DEF Subscriptions
<1>4. subscription'.draining = changed.draining /\ subscription'.drained = changed.drained
  BY <1>1, Zenon DEF Subscriptions
<1> QED BY Zenon, <1>3, <1>4

LEMMA AdministerKeeps ==
  ASSUME subscription \in Subscriptions, Administer
  PROVE  /\ subscription' \in Subscriptions
         /\ subscription.draining => subscription'.draining
         /\ subscription'.drained = subscription.drained
<1> DEFINE kept == /\ subscription' \in Subscriptions
                   /\ subscription.draining => subscription'.draining
                   /\ subscription'.drained = subscription.drained
<1>1. ASSUME NEW p \in Policies, NEW enabled \in BOOLEAN, Update(p, enabled)
      PROVE  kept
  <2> DEFINE stillPaused == subscription.paused /\ enabled
             changed == [subscription EXCEPT !.policy = p, !.enabled = enabled, !.paused = stillPaused]
  <2>1. Revise(changed)
    BY Zenon, <1>1 DEF Update
  <2>2. stillPaused \in BOOLEAN
    BY Zenon
  <2> HIDE DEF stillPaused
  <2>3. changed \in Subscriptions
    BY <2>2, Zenon DEF Subscriptions
  <2>4. /\ changed.version = subscription.version /\ changed.draining = subscription.draining
        /\ changed.drained = subscription.drained
    BY Zenon DEF Subscriptions
  <2> HIDE DEF changed
  <2> QED BY Zenon, <2>1, <2>3, <2>4, Revised
<1>2. ASSUME NEW paused \in BOOLEAN, Pause(paused)
      PROVE  kept
  <2> DEFINE changed == [subscription EXCEPT !.paused = paused]
  <2>1. Revise(changed)
    BY Zenon, <1>2 DEF Pause
  <2>2. changed \in Subscriptions
    BY Zenon DEF Subscriptions
  <2>3. /\ changed.version = subscription.version /\ changed.draining = subscription.draining
        /\ changed.drained = subscription.drained
    BY Zenon DEF Subscriptions
  <2> HIDE DEF changed
  <2> QED BY Zenon, <2>1, <2>2, <2>3, Revised
<1>3. ASSUME BeginQueueDrain
      PROVE  kept
  <2> DEFINE changed == [subscription EXCEPT !.draining = TRUE]
  <2>1. Revise(changed)
    BY Zenon, <1>3 DEF BeginQueueDrain
  <2>2. changed \in Subscriptions
    BY Zenon DEF Subscriptions
  <2>3. /\ changed.version = subscription.version /\ changed.draining
        /\ changed.drained = subscription.drained
    BY Zenon DEF Subscriptions
  <2> HIDE DEF changed
  <2> QED BY Zenon, <2>1, <2>2, <2>3, Revised
<1>4. ASSUME DeleteQueueSubscription
      PROVE  kept
  BY Zenon, <1>4 DEF DeleteQueueSubscription, Subscriptions
<1> QED BY <1>1, <1>2, <1>3, <1>4, Zenon DEF Administer

LEMMA CompleteDrainKeeps ==
  ASSUME subscription \in Subscriptions, CompleteDrain
  PROVE  subscription' \in Subscriptions /\ subscription.draining /\ subscription'.draining
BY Zenon DEF CompleteDrain, Subscriptions

-----------------------------------------------------------------------------
(* The leases of the last second can be counted. *)
LEMMA FiniteLeases ==
  ASSUME recent \subseteq Messages \X (1..MaxGeneration) \X (1..MostAttempts)
  PROVE  IsFiniteSet(recent) /\ Dispatched \in Nat
<1> DEFINE G == 1..MaxGeneration
           A == 1..MostAttempts
           S == (Messages \X G) \X A
           T == Messages \X G \X A
           f == [x \in S |-> <<x[1][1], x[1][2], x[2]>>]
<1>1. IsFiniteSet(G) /\ IsFiniteSet(A)
  BY Limits, MaxGenerationAssumption, FS_Interval
<1>2. IsFiniteSet(S)
  BY Zenon, <1>1, MessagesAssumption, FS_Product
<1> HIDE DEF G, A
<1>3. f \in Surjection(S, T)
  <2>1. f \in [S -> T]
    BY Zenon
  <2>2. ASSUME NEW t \in T
        PROVE  \E x \in S : f[x] = t
    <3>1. <<<<t[1], t[2]>>, t[3]>> \in S
      BY Zenon
    <3>2. f[<<<<t[1], t[2]>>, t[3]>>] = t
      BY <3>1
    <3> QED BY Zenon, <3>1, <3>2
  <2> QED BY Zenon, <2>1, <2>2 DEF Surjection
<1>4. IsFiniteSet(T)
  <2> HIDE DEF S, T, f
  <2> QED BY Zenon, <1>2, <1>3, FS_Surjection
<1>5. IsFiniteSet(recent)
  BY Zenon, <1>4, FS_Subset DEF G, A
<1> QED BY Zenon, <1>5, FS_CardinalityType DEF Dispatched

(* A drain status call that has counted no leases is right to say so. *)
DrainAgrees ==
  reader = "counted" \/ subscription.drained => subscription.draining /\ InFlight(delivery) = {}

RowsSound == \A m \in Messages : SoundRow(delivery[m])

QueueInv == TypeOK /\ RowsSound /\ DrainAgrees /\ InFlightBounded

LEMMA FiniteInFlight ==
  ASSUME NEW rows
  PROVE  IsFiniteSet(InFlight(rows)) /\ Cardinality(InFlight(rows)) \in Nat
<1>1. InFlight(rows) \in SUBSET Messages
  BY Zenon DEF InFlight
<1>2. IsFiniteSet(InFlight(rows))
  BY Zenon, <1>1, MessagesAssumption, FS_Subset
<1> QED BY Zenon, <1>2, FS_CardinalityType

(* Steps that start no lease. *)
LEMMA FewerLeases ==
  ASSUME InFlightBounded, InFlight(delivery)' \subseteq InFlight(delivery)
  PROVE  InFlightBounded'
<1> DEFINE S == InFlight(delivery)
           T == InFlight(delivery')
<1>1. T \in SUBSET S
  BY Zenon
<1>2. IsFiniteSet(S) /\ Cardinality(S) \in Nat /\ Cardinality(T) \in Nat
  BY Zenon, FiniteInFlight
<1>3. Cardinality(S) <= MostInFlight
  BY Zenon DEF InFlightBounded
<1> HIDE DEF S, T
<1>4. Cardinality(T) <= Cardinality(S)
  BY Zenon, <1>1, <1>2, FS_Subset
<1>5. Cardinality(T) <= MostInFlight
  BY <1>2, <1>3, <1>4, Limits
<1> QED BY Zenon, <1>5 DEF InFlightBounded, T

LEMMA QueueInvInit == Init => QueueInv
<1> HAVE Init
<1>1. subscription \in Subscriptions /\ ~subscription.drained
  BY MaxVersionAssumption DEF Init, CreateQueueSubscription, Subscriptions
<1>2. \A m \in Messages : delivery[m] = NoRow /\ delivery[m].status = "absent"
  BY Zenon DEF Init, NoRow
<1>3. RowsSound
  BY Zenon, <1>2, NoRowSound DEF RowsSound
<1>4. InFlight(delivery) = {}
  BY Zenon, <1>2 DEF InFlight
<1>5. TypeOK
  <2>1. delivery \in [Messages -> DeliveryRows]
    BY Zenon, NoRowSound DEF Init, SoundRow
  <2>2. /\ recent = {} /\ results = {} /\ held = {} /\ reader = "idle" /\ arrivals = <<>>
    BY Zenon DEF Init
  <2> QED BY <1>1, <2>1, <2>2 DEF TypeOK
<1>6. InFlightBounded
  BY <1>4, FS_EmptySet, Limits DEF InFlightBounded
<1>7. DrainAgrees
  BY Zenon, <1>1 DEF DrainAgrees, Init
<1> QED BY Zenon, <1>3, <1>5, <1>6, <1>7 DEF QueueInv

(* A step that replaces rows by sound ones, starts no lease and leaves the *)
(* subscription and the drain status call alone.                           *)
LEMMA RowStep ==
  ASSUME QueueInv, UNCHANGED <<subscription, reader>>,
         delivery' \in [Messages -> DeliveryRows],
         \A m \in Messages :
           /\ SoundRow(delivery'[m])
           /\ delivery'[m].status = "in_flight" => delivery[m].status = "in_flight",
         recent' \subseteq Messages \X (1..MaxGeneration) \X (1..MostAttempts),
         results' \subseteq Messages \X (1..MaxGeneration) \X {"success", "failure"},
         held' \subseteq Receipts, arrivals' \in Seq(Messages)
  PROVE  QueueInv'
<1>1. TypeOK'
  BY Zenon DEF QueueInv, TypeOK
<1>2. RowsSound'
  BY Zenon DEF RowsSound, SoundRow
<1>3. InFlight(delivery)' \subseteq InFlight(delivery)
  BY Zenon DEF InFlight
<1>4. DrainAgrees'
  BY Zenon, <1>3 DEF QueueInv, DrainAgrees
<1>5. InFlightBounded'
  BY Zenon, <1>3, FewerLeases DEF QueueInv
<1> QED BY Zenon, <1>1, <1>2, <1>4, <1>5 DEF QueueInv

LEMMA OneRow ==
  ASSUME QueueInv, NEW m \in Messages, NEW new, SoundRow(new),
         new.status = "in_flight" => delivery[m].status = "in_flight",
         delivery' = [delivery EXCEPT ![m] = new]
  PROVE  /\ delivery' \in [Messages -> DeliveryRows]
         /\ \A n \in Messages :
              /\ SoundRow(delivery'[n])
              /\ delivery'[n].status = "in_flight" => delivery[n].status = "in_flight"
<1>1. new \in DeliveryRows /\ delivery \in [Messages -> DeliveryRows]
  BY Zenon DEF SoundRow, QueueInv, TypeOK
<1>2. delivery' \in [Messages -> DeliveryRows]
  BY Zenon, <1>1
<1>3. \A n \in Messages : delivery'[n] = IF n = m THEN new ELSE delivery[n]
  BY Zenon, <1>1
<1>4. \A n \in Messages : SoundRow(delivery[n])
  BY Zenon DEF QueueInv, RowsSound
<1>5. ASSUME NEW n \in Messages
      PROVE  /\ SoundRow(delivery'[n])
             /\ delivery'[n].status = "in_flight" => delivery[n].status = "in_flight"
  BY Zenon, <1>3, <1>4
<1> QED BY Zenon, <1>2, <1>5

LEMMA PublishKeeps ==
  ASSUME QueueInv, NEW m \in Messages, PublishEvent(m)
  PROVE  QueueInv'
<1> PICK delay \in 0..MaxDelay :
           delivery' = [delivery EXCEPT ![m] = [delivery[m] EXCEPT !.status = "available", !.availableIn = delay]]
  BY Zenon DEF PublishEvent
<1> DEFINE row == delivery[m]
           new == [row EXCEPT !.status = "available", !.availableIn = delay]
<1>1. SoundRow(row) /\ row.status = "absent"
  BY Zenon DEF PublishEvent, QueueInv, RowsSound
<1>2. delay \in 0..Later(MaxDelay, LongestRetry)
  BY MaxDelayAssumption, Limits DEF Later
<1> HIDE DEF row
<1>3. new \in DeliveryRows
  BY <1>1, <1>2, Zenon DEF SoundRow, DeliveryRows, Statuses
<1>4. new.status = "available" /\ new.attempts = row.attempts
  BY Zenon, <1>1 DEF SoundRow, DeliveryRows
<1> HIDE DEF new
<1>5. SoundRow(new)
  BY <1>1, <1>3, <1>4, Limits DEF SoundRow
<1>6. delivery' = [delivery EXCEPT ![m] = new]
  BY Zenon DEF new, row
<1>7. arrivals' \in Seq(Messages)
  BY DEF PublishEvent, QueueInv, TypeOK
<1>8. UNCHANGED <<subscription, reader, recent, results, held>>
  BY Zenon DEF PublishEvent
<1>9. /\ recent \subseteq Messages \X (1..MaxGeneration) \X (1..MostAttempts)
      /\ results \subseteq Messages \X (1..MaxGeneration) \X {"success", "failure"}
      /\ held \subseteq Receipts
  BY Zenon DEF QueueInv, TypeOK
<1>10. /\ delivery' \in [Messages -> DeliveryRows]
       /\ \A n \in Messages :
            /\ SoundRow(delivery'[n])
            /\ delivery'[n].status = "in_flight" => delivery[n].status = "in_flight"
  BY Zenon, <1>4, <1>5, <1>6, OneRow
<1> QED BY Zenon, <1>7, <1>8, <1>9, <1>10, RowStep

LEMMA SettleKeeps ==
  ASSUME QueueInv, NEW m \in Messages, NEW receipt \in Receipts, SettleQueueDeliveries(m, receipt)
  PROVE  QueueInv'
<1>1. PICK disposition \in Dispositions, delay \in 0..MaxDelay :
        /\ delivery' = [delivery EXCEPT ![m] =
             [Free(delivery[m], SettledAs(m, disposition)) EXCEPT
                !.availableIn = IF disposition = "available" THEN delay ELSE 0]]
        /\ Report(m, SettledAs(m, disposition))
  BY Zenon DEF SettleQueueDeliveries
<1> DEFINE status == SettledAs(m, disposition)
           new == [Free(delivery[m], status) EXCEPT
                     !.availableIn = IF disposition = "available" THEN delay ELSE 0]
<1>2. subscription \in Subscriptions /\ SoundRow(delivery[m]) /\ delivery[m].status = "in_flight"
  BY Zenon DEF SettleQueueDeliveries, Holds, QueueInv, TypeOK, RowsSound
<1>3. status \in Dispositions /\ SoundRow(new) /\ new.status = status
  BY Zenon, <1>2, SettledSound
<1>4. Report(m, status) /\ delivery' = [delivery EXCEPT ![m] = new]
  BY Zenon, <1>1
<1> HIDE DEF new, status
<1>5. /\ delivery' \in [Messages -> DeliveryRows]
      /\ \A n \in Messages :
           /\ SoundRow(delivery'[n])
           /\ delivery'[n].status = "in_flight" => delivery[n].status = "in_flight"
  BY Zenon, <1>2, <1>3, <1>4, OneRow
<1>6. delivery[m].generation \in 1..MaxGeneration
  BY Zenon, <1>2 DEF SoundRow, DeliveryRows
<1>7. results' \subseteq Messages \X (1..MaxGeneration) \X {"success", "failure"}
  <2>1. results \subseteq Messages \X (1..MaxGeneration) \X {"success", "failure"}
    BY Zenon DEF QueueInv, TypeOK
  <2>2. \/ results' = results \cup {<<m, delivery[m].generation, "success">>}
        \/ results' = results \cup {<<m, delivery[m].generation, "failure">>}
        \/ results' = results
    BY Zenon, <1>4 DEF Report
  <2> QED BY <1>6, <2>1, <2>2
<1>8. UNCHANGED <<subscription, reader, recent, arrivals>> /\ held' \subseteq Receipts
  BY Zenon DEF SettleQueueDeliveries, Forget, QueueInv, TypeOK
<1>9. /\ recent \subseteq Messages \X (1..MaxGeneration) \X (1..MostAttempts)
      /\ arrivals \in Seq(Messages)
  BY Zenon DEF QueueInv, TypeOK
<1> QED BY Zenon, <1>5, <1>7, <1>8, <1>9, RowStep

LEMMA ExtendKeeps ==
  ASSUME QueueInv, NEW m \in Messages, NEW receipt \in Receipts, ExtendQueueLeases(m, receipt)
  PROVE  QueueInv'
<1>1. PICK extension \in 1..LongestLease :
        delivery' = [delivery EXCEPT ![m] = Extended(delivery[m], extension)]
  BY Zenon DEF ExtendQueueLeases
<1> DEFINE new == Extended(delivery[m], extension)
<1>2. SoundRow(delivery[m])
  BY Zenon DEF QueueInv, RowsSound
<1>3. SoundRow(new) /\ new.status = delivery[m].status
  BY Zenon, <1>2, ExtendedSound
<1> HIDE DEF new
<1>4. /\ delivery' \in [Messages -> DeliveryRows]
      /\ \A n \in Messages :
           /\ SoundRow(delivery'[n])
           /\ delivery'[n].status = "in_flight" => delivery[n].status = "in_flight"
  BY Zenon, <1>1, <1>3, OneRow DEF new
<1>5. UNCHANGED <<subscription, reader, recent, results, held, arrivals>>
  BY Zenon DEF ExtendQueueLeases
<1>6. /\ recent \subseteq Messages \X (1..MaxGeneration) \X (1..MostAttempts)
      /\ results \subseteq Messages \X (1..MaxGeneration) \X {"success", "failure"}
      /\ held \subseteq Receipts /\ arrivals \in Seq(Messages)
  BY Zenon DEF QueueInv, TypeOK
<1> QED BY Zenon, <1>4, <1>5, <1>6, RowStep

LEMMA DeleteKeeps ==
  ASSUME QueueInv, NEW m \in Messages, DeleteQueueDeadLetters(m)
  PROVE  QueueInv'
<1> DEFINE row == delivery[m]
           new == [row EXCEPT !.status = "deleted"]
<1>1. SoundRow(row) /\ delivery' = [delivery EXCEPT ![m] = new]
  BY Zenon DEF DeleteQueueDeadLetters, QueueInv, RowsSound
<1> HIDE DEF row
<1>2. new \in DeliveryRows
  BY <1>1, Zenon DEF SoundRow, DeliveryRows, Statuses
<1>3. new.status = "deleted"
  BY Zenon, <1>1 DEF SoundRow, DeliveryRows
<1> HIDE DEF new
<1>4. SoundRow(new)
  BY Zenon, <1>2, <1>3 DEF SoundRow
<1>5. /\ delivery' \in [Messages -> DeliveryRows]
      /\ \A n \in Messages :
           /\ SoundRow(delivery'[n])
           /\ delivery'[n].status = "in_flight" => delivery[n].status = "in_flight"
  BY Zenon, <1>1, <1>3, <1>4, OneRow
<1>6. UNCHANGED <<subscription, reader, results, held, arrivals>> /\ recent' \subseteq recent
  BY Zenon DEF DeleteQueueDeadLetters
<1>7. /\ recent \subseteq Messages \X (1..MaxGeneration) \X (1..MostAttempts)
      /\ results \subseteq Messages \X (1..MaxGeneration) \X {"success", "failure"}
      /\ held \subseteq Receipts /\ arrivals \in Seq(Messages)
  BY Zenon DEF QueueInv, TypeOK
<1> QED BY Zenon, <1>5, <1>6, <1>7, RowStep

LEMMA RetentionKeeps ==
  ASSUME QueueInv, NEW m \in Messages, RetentionEnds(m)
  PROVE  QueueInv'
<1> DEFINE row == delivery[m]
           new == [row EXCEPT !.expired = TRUE]
<1>1. SoundRow(row) /\ delivery' = [delivery EXCEPT ![m] = new]
  BY Zenon DEF RetentionEnds, QueueInv, RowsSound
<1>2. row.status = delivery[m].status
  BY Zenon
<1> HIDE DEF row
<1>3. new \in DeliveryRows
  BY <1>1, Zenon DEF SoundRow, DeliveryRows
<1>4. /\ new.status = row.status /\ new.attempts = row.attempts
      /\ new.leaseIn = row.leaseIn /\ new.maxIn = row.maxIn
  BY Zenon, <1>1 DEF SoundRow, DeliveryRows
<1> HIDE DEF new
<1>5. SoundRow(new)
  BY Zenon, <1>1, <1>3, <1>4 DEF SoundRow
<1>6. /\ delivery' \in [Messages -> DeliveryRows]
      /\ \A n \in Messages :
           /\ SoundRow(delivery'[n])
           /\ delivery'[n].status = "in_flight" => delivery[n].status = "in_flight"
  BY Zenon, <1>1, <1>2, <1>4, <1>5, OneRow
<1>7. UNCHANGED <<subscription, reader, recent, results, held, arrivals>>
  BY Zenon DEF RetentionEnds
<1>8. /\ recent \subseteq Messages \X (1..MaxGeneration) \X (1..MostAttempts)
      /\ results \subseteq Messages \X (1..MaxGeneration) \X {"success", "failure"}
      /\ held \subseteq Receipts /\ arrivals \in Seq(Messages)
  BY Zenon DEF QueueInv, TypeOK
<1> QED BY Zenon, <1>6, <1>7, <1>8, RowStep

LEMMA DropKeeps ==
  ASSUME QueueInv, NEW receipt \in Receipts, DropReceipt(receipt)
  PROVE  QueueInv'
<1>1. UNCHANGED <<subscription, delivery, reader, recent, results, arrivals>> /\ held' \subseteq held
  BY Zenon DEF DropReceipt
<1>2. /\ delivery \in [Messages -> DeliveryRows]
      /\ recent \subseteq Messages \X (1..MaxGeneration) \X (1..MostAttempts)
      /\ results \subseteq Messages \X (1..MaxGeneration) \X {"success", "failure"}
      /\ held \subseteq Receipts /\ arrivals \in Seq(Messages)
  BY Zenon DEF QueueInv, TypeOK
<1>3. \A m \in Messages :
        /\ SoundRow(delivery'[m])
        /\ delivery'[m].status = "in_flight" => delivery[m].status = "in_flight"
  BY Zenon, <1>1 DEF QueueInv, RowsSound
<1> QED BY Zenon, <1>1, <1>2, <1>3, RowStep

LEMMA ReplayKeeps ==
  ASSUME QueueInv, NEW ids \in SUBSET Messages, ReplayQueueDeadLetters(ids)
  PROVE  QueueInv'
<1>1. delivery' = [m \in Messages |-> IF m \in ids THEN Reopened(delivery[m]) ELSE delivery[m]]
  BY Zenon DEF ReplayQueueDeadLetters
<1>2. ASSUME NEW m \in Messages
      PROVE  /\ SoundRow(delivery'[m])
             /\ delivery'[m].status = "in_flight" => delivery[m].status = "in_flight"
  <2>1. SoundRow(delivery[m])
    BY Zenon DEF QueueInv, RowsSound
  <2>2. CASE m \in ids
    <3>1. delivery[m].generation < MaxGeneration /\ delivery'[m] = Reopened(delivery[m])
      BY Zenon, <1>1, <2>2 DEF ReplayQueueDeadLetters
    <3> QED BY Zenon, <2>1, <3>1, ReopenedSound
  <2>3. CASE m \notin ids
    BY Zenon, <1>1, <2>1, <2>3
  <2> QED BY Zenon, <2>2, <2>3
<1>3. delivery' \in [Messages -> DeliveryRows]
  BY Zenon, <1>1, <1>2 DEF SoundRow
<1>4. UNCHANGED <<subscription, reader, recent, results, held, arrivals>>
  BY Zenon DEF ReplayQueueDeadLetters
<1>5. /\ recent \subseteq Messages \X (1..MaxGeneration) \X (1..MostAttempts)
      /\ results \subseteq Messages \X (1..MaxGeneration) \X {"success", "failure"}
      /\ held \subseteq Receipts /\ arrivals \in Seq(Messages)
  BY Zenon DEF QueueInv, TypeOK
<1> QED BY Zenon, <1>2, <1>3, <1>4, <1>5, RowStep

LEMMA TickKeeps ==
  ASSUME QueueInv, Tick
  PROVE  QueueInv'
<1>1. delivery' = [m \in Messages |-> Aged(delivery[m])]
  BY Zenon DEF Tick
<1>2. ASSUME NEW m \in Messages
      PROVE  /\ SoundRow(delivery'[m])
             /\ delivery'[m].status = "in_flight" => delivery[m].status = "in_flight"
  <2>1. SoundRow(delivery[m]) /\ delivery'[m] = Aged(delivery[m])
    BY Zenon, <1>1 DEF QueueInv, RowsSound
  <2> QED BY Zenon, <2>1, AgedSound
<1>3. delivery' \in [Messages -> DeliveryRows]
  BY Zenon, <1>1, <1>2 DEF SoundRow
<1>4. UNCHANGED <<subscription, reader, results, held, arrivals>> /\ recent' = {}
  BY Zenon DEF Tick
<1>5. /\ results \subseteq Messages \X (1..MaxGeneration) \X {"success", "failure"}
      /\ held \subseteq Receipts /\ arrivals \in Seq(Messages)
  BY Zenon DEF QueueInv, TypeOK
<1> QED BY Zenon, <1>2, <1>3, <1>4, <1>5, RowStep

LEMMA CountKeeps ==
  ASSUME QueueInv, CountInFlight
  PROVE  QueueInv'
<1>1. UNCHANGED <<subscription, delivery, recent, results, held, arrivals>> /\ reader' = "counted"
  BY Zenon DEF CountInFlight
<1>2. TypeOK'
  BY Zenon, <1>1 DEF QueueInv, TypeOK
<1>3. RowsSound'
  BY Zenon, <1>1 DEF QueueInv, RowsSound
<1>4. DrainAgrees'
  BY Zenon, <1>1 DEF CountInFlight, DrainAgrees, InFlight
<1>5. InFlightBounded'
  BY Zenon, <1>1 DEF QueueInv, InFlightBounded, InFlight
<1> QED BY Zenon, <1>2, <1>3, <1>4, <1>5 DEF QueueInv

LEMMA StoreKeeps ==
  ASSUME QueueInv, StoreDrained
  PROVE  QueueInv'
<1>1. UNCHANGED <<delivery, recent, results, held, arrivals>> /\ reader = "counted" /\ reader' = "idle"
  BY Zenon DEF StoreDrained
<1>2. subscription \in Subscriptions /\ subscription.draining /\ InFlight(delivery) = {}
  BY Zenon, <1>1 DEF QueueInv, TypeOK, DrainAgrees
<1>3. subscription' \in Subscriptions /\ subscription'.draining
  <2>1. CASE CompleteDrain
    BY Zenon, <1>2, <2>1, CompleteDrainKeeps
  <2>2. CASE UNCHANGED subscription
    BY Zenon, <1>2, <2>2
  <2> QED BY Zenon, <2>1, <2>2 DEF StoreDrained
<1>4. TypeOK'
  BY Zenon, <1>1, <1>3 DEF QueueInv, TypeOK
<1>5. RowsSound'
  BY Zenon, <1>1 DEF QueueInv, RowsSound
<1>6. DrainAgrees'
  BY Zenon, <1>1, <1>2, <1>3 DEF DrainAgrees, InFlight
<1>7. InFlightBounded'
  BY Zenon, <1>1 DEF QueueInv, InFlightBounded, InFlight
<1> QED BY Zenon, <1>4, <1>5, <1>6, <1>7 DEF QueueInv

LEMMA AdministerQueueKeeps ==
  ASSUME QueueInv, AdministerQueue
  PROVE  QueueInv'
<1>1. UNCHANGED <<delivery, recent, results, held, reader, arrivals>>
  BY Zenon DEF AdministerQueue, queueVars
<1>2. /\ subscription' \in Subscriptions
      /\ subscription.draining => subscription'.draining
      /\ subscription'.drained = subscription.drained
  BY Zenon, AdministerKeeps DEF AdministerQueue, QueueInv, TypeOK
<1>3. TypeOK'
  BY Zenon, <1>1, <1>2 DEF QueueInv, TypeOK
<1>4. RowsSound'
  BY Zenon, <1>1 DEF QueueInv, RowsSound
<1>5. DrainAgrees'
  BY Zenon, <1>1, <1>2 DEF QueueInv, DrainAgrees, InFlight
<1>6. InFlightBounded'
  BY Zenon, <1>1 DEF QueueInv, InFlightBounded, InFlight
<1> QED BY Zenon, <1>3, <1>4, <1>5, <1>6 DEF QueueInv

(* What is left of max_in_flight after the sweep is all a pull may lease. *)
LEMMA RoomFits ==
  ASSUME TypeOK, NEW rows, NEW limit \in Nat, Cardinality(InFlight(rows)) <= MostInFlight
  PROVE  /\ Room(rows, limit) \in Nat
         /\ Cardinality(InFlight(rows)) + Room(rows, limit) <= MostInFlight
<1> DEFINE inFlight == subscription.policy.inFlight
           rate == subscription.policy.rate
           n == Cardinality(InFlight(rows))
           d == Dispatched
<1>1. inFlight \in Nat /\ inFlight <= MostInFlight /\ rate \in Nat /\ MostInFlight \in Nat
  BY Zenon, PolicyInUse, Limits DEF TypeOK
<1>2. n \in Nat /\ n <= MostInFlight
  BY Zenon, FiniteInFlight
<1>3. d \in Nat
  BY Zenon, FiniteLeases DEF TypeOK
<1>4. Room(rows, limit) =
        Later(0, Sooner(limit, Sooner(inFlight - n, IF rate = 0 THEN limit ELSE rate - d)))
  BY Zenon DEF Room
<1> HIDE DEF inFlight, rate, n, d
<1>5. /\ Room(rows, limit) \in Nat
      /\ n + Room(rows, limit) <= MostInFlight
  BY <1>1, <1>2, <1>3, <1>4 DEF Later, Sooner
<1> QED BY Zenon, <1>5 DEF n

(* The sweep alone. *)
LEMMA SweptSound ==
  ASSUME QueueInv
  PROVE  /\ \A m \in Messages : SoundRow(Swept[m]) /\ Swept[m].generation = delivery[m].generation
         /\ InFlight(Swept) \subseteq InFlight(delivery)
         /\ Cardinality(InFlight(Swept)) <= MostInFlight
<1>1. ASSUME NEW m \in Messages
      PROVE  /\ SoundRow(Swept[m]) /\ Swept[m].generation = delivery[m].generation
             /\ Swept[m].status = "in_flight" => delivery[m].status = "in_flight"
  <2>1. subscription \in Subscriptions /\ SoundRow(delivery[m])
    BY Zenon DEF QueueInv, TypeOK, RowsSound
  <2>2. Swept[m] = Retired(Reclaimed(delivery[m]))
    BY Zenon DEF Swept
  <2> QED BY Zenon, <2>1, <2>2, SweepSound
<1>2. InFlight(Swept) \subseteq InFlight(delivery)
  BY Zenon, <1>1 DEF InFlight
<1>3. Cardinality(InFlight(Swept)) <= MostInFlight
  <2> DEFINE S == InFlight(delivery)
             T == InFlight(Swept)
  <2>1. IsFiniteSet(S) /\ Cardinality(S) \in Nat /\ Cardinality(T) \in Nat /\ T \in SUBSET S
    BY Zenon, <1>2, FiniteInFlight
  <2>2. Cardinality(S) <= MostInFlight
    BY Zenon DEF QueueInv, InFlightBounded
  <2> HIDE DEF S, T
  <2>3. Cardinality(T) <= Cardinality(S)
    BY Zenon, <2>1, FS_Subset
  <2>4. Cardinality(T) <= MostInFlight
    BY <2>1, <2>2, <2>3, Limits
  <2> QED BY Zenon, <2>4 DEF T
<1> QED BY Zenon, <1>1, <1>2, <1>3

LEMMA PullKeeps ==
  ASSUME QueueInv, PullQueueDeliveries
  PROVE  QueueInv'
<1> DEFINE E == Eligible(Swept)
           I == InFlight(Swept)
<1>0. PICK limit \in 1..subscription.policy.batch, visibility \in 1..subscription.policy.visibility,
           leased \in SUBSET E :
        /\ Cardinality(leased) = Sooner(Room(Swept, limit), Cardinality(E))
        /\ \E given \in [leased -> FreshReceipts] :
             /\ delivery' = [m \in Messages |->
                  IF m \in leased THEN Leased(Swept[m], given[m], visibility) ELSE Swept[m]]
             /\ held' = held \cup {given[m] : m \in leased}
        /\ recent' = recent \cup {<<m, Swept[m].generation, Swept[m].attempts + 1>> : m \in leased}
  BY DEF PullQueueDeliveries
<1>1. PICK given \in [leased -> FreshReceipts] :
        /\ delivery' = [m \in Messages |->
             IF m \in leased THEN Leased(Swept[m], given[m], visibility) ELSE Swept[m]]
        /\ held' = held \cup {given[m] : m \in leased}
  BY Zenon, <1>0
<1>2. TypeOK /\ subscription \in Subscriptions
  BY Zenon DEF QueueInv, TypeOK
<1>3. /\ \A m \in Messages : SoundRow(Swept[m]) /\ Swept[m].generation = delivery[m].generation
      /\ I \subseteq InFlight(delivery)
      /\ Cardinality(I) <= MostInFlight
  BY Zenon, SweptSound
<1>4. \A m \in leased : m \in Messages /\ Swept[m].status = "available" /\ given[m] \in Receipts
  BY Zenon, <1>1 DEF Eligible, FreshReceipts
<1>5. ASSUME NEW m \in Messages
      PROVE  /\ SoundRow(delivery'[m])
             /\ delivery'[m].status = "in_flight" <=> m \in I \cup leased
  <2>1. CASE m \in leased
    <3>1. delivery'[m] = Leased(Swept[m], given[m], visibility)
      BY Zenon, <1>1, <2>1
    <3>2. SoundRow(delivery'[m]) /\ delivery'[m].status = "in_flight"
      BY <1>2, <1>3, <1>4, <2>1, <3>1, LeasedSound
    <3> QED BY Zenon, <2>1, <3>2
  <2>2. CASE m \notin leased
    <3>1. delivery'[m] = Swept[m]
      BY Zenon, <1>1, <2>2
    <3> QED BY Zenon, <1>3, <2>2, <3>1 DEF InFlight
  <2> QED BY Zenon, <2>1, <2>2
<1>6. delivery' \in [Messages -> DeliveryRows]
  BY Zenon, <1>1, <1>5 DEF SoundRow
<1>7. ASSUME NEW m \in leased
      PROVE  Swept[m].generation \in 1..MaxGeneration /\ Swept[m].attempts + 1 \in 1..MostAttempts
  <2>1. SoundRow(Swept[m]) /\ Swept[m].status = "available"
    BY Zenon, <1>3, <1>4
  <2> QED BY <2>1, Limits DEF SoundRow, DeliveryRows
<1>8. recent' \subseteq Messages \X (1..MaxGeneration) \X (1..MostAttempts)
  <2>1. recent \subseteq Messages \X (1..MaxGeneration) \X (1..MostAttempts)
    BY Zenon, <1>2 DEF TypeOK
  <2> QED BY <1>0, <1>4, <1>7, <2>1
<1>9. results' \subseteq Messages \X (1..MaxGeneration) \X {"success", "failure"}
  <2>1. \A m \in Messages : delivery[m].generation \in 1..MaxGeneration
    BY Zenon DEF QueueInv, RowsSound, SoundRow, DeliveryRows
  <2>2. ReportsOfSweep \subseteq Messages \X (1..MaxGeneration) \X {"success", "failure"}
    BY <2>1 DEF ReportsOfSweep
  <2> QED BY Zenon, <1>2, <2>2 DEF PullQueueDeliveries, TypeOK
<1>10. UNCHANGED <<subscription, reader, arrivals>> /\ held' \subseteq Receipts
  BY <1>1, <1>2, <1>4 DEF PullQueueDeliveries, TypeOK
<1>11. TypeOK'
  BY Zenon, <1>2, <1>6, <1>8, <1>9, <1>10 DEF TypeOK
<1>12. RowsSound'
  BY Zenon, <1>5 DEF RowsSound, SoundRow
<1>13. DrainAgrees'
  BY Zenon, <1>10 DEF PullQueueDeliveries, Open, QueueInv, DrainAgrees
<1>14. InFlightBounded'
  <2>1. InFlight(delivery') = I \cup leased
    BY Zenon, <1>4, <1>5 DEF InFlight
  <2>2. limit \in Nat
    BY <1>2, PolicyInUse
  <2>3. /\ Room(Swept, limit) \in Nat
        /\ Cardinality(I) + Room(Swept, limit) <= MostInFlight
    BY Zenon, <1>2, <1>3, <2>2, RoomFits
  <2>4. E \in SUBSET Messages /\ leased \in SUBSET Messages
    BY Zenon, <1>4 DEF Eligible
  <2>5. /\ IsFiniteSet(E) /\ Cardinality(E) \in Nat
        /\ IsFiniteSet(leased) /\ Cardinality(leased) \in Nat
        /\ IsFiniteSet(I) /\ Cardinality(I) \in Nat
    <3> HIDE DEF E, I
    <3>1. IsFiniteSet(E) /\ IsFiniteSet(leased)
      BY Zenon, <2>4, MessagesAssumption, FS_Subset
    <3>2. IsFiniteSet(I)
      BY Zenon, FiniteInFlight DEF I
    <3> QED BY Zenon, <3>1, <3>2, FS_CardinalityType
  <2>6. Cardinality(leased) <= Room(Swept, limit)
    BY <1>0, <2>3, <2>5 DEF Sooner
  <2> HIDE DEF E, I
  <2>7. Cardinality(I \cup leased) <= Cardinality(I) + Cardinality(leased)
    <3>1. /\ Cardinality(I \cup leased) = Cardinality(I) + Cardinality(leased) - Cardinality(I \cap leased)
          /\ IsFiniteSet(I \cap leased)
      BY Zenon, <2>5, FS_Union, FS_Intersection
    <3>2. Cardinality(I \cap leased) \in Nat
      BY Zenon, <3>1, FS_CardinalityType
    <3> QED BY <2>5, <3>1, <3>2
  <2>8. Cardinality(I \cup leased) \in Nat
    BY Zenon, <2>5, FS_Union, FS_CardinalityType
  <2>9. Cardinality(I \cup leased) <= MostInFlight
    BY <2>3, <2>5, <2>6, <2>7, <2>8, Limits
  <2> QED BY Zenon, <2>1, <2>9 DEF InFlightBounded
<1> QED BY Zenon, <1>11, <1>12, <1>13, <1>14 DEF QueueInv

LEMMA QueueInvStep == QueueInv /\ [Next]_vars => QueueInv'
<1> SUFFICES ASSUME QueueInv, [Next]_vars PROVE QueueInv'
  BY Zenon
<1>1. CASE UNCHANGED vars
  <2>1. UNCHANGED <<subscription, delivery, recent, results, held, reader, arrivals>>
    BY Zenon, <1>1 DEF vars, queueVars
  <2> QED BY Zenon, <2>1 DEF QueueInv, TypeOK, RowsSound, DrainAgrees, InFlightBounded, InFlight
<1>2. ASSUME NEW m \in Messages, PublishEvent(m) \/ DeleteQueueDeadLetters(m) \/ RetentionEnds(m)
      PROVE  QueueInv'
  BY Zenon, <1>2, PublishKeeps, DeleteKeeps, RetentionKeeps
<1>3. CASE PullQueueDeliveries
  BY Zenon, <1>3, PullKeeps
<1>4. ASSUME NEW m \in Messages, NEW receipt \in Receipts, Consume(m, receipt)
      PROVE  QueueInv'
  BY Zenon, <1>4, SettleKeeps, ExtendKeeps DEF Consume
<1>5. ASSUME NEW receipt \in Receipts, DropReceipt(receipt)
      PROVE  QueueInv'
  BY Zenon, <1>5, DropKeeps
<1>6. ASSUME NEW ids \in SUBSET Messages, ReplayQueueDeadLetters(ids)
      PROVE  QueueInv'
  BY Zenon, <1>6, ReplayKeeps
<1>7. CASE CountInFlight \/ StoreDrained
  BY Zenon, <1>7, CountKeeps, StoreKeeps
<1>8. CASE AdministerQueue
  BY Zenon, <1>8, AdministerQueueKeeps
<1>9. CASE Tick
  BY Zenon, <1>9, TickKeeps
<1> QED BY Zenon, <1>1, <1>2, <1>3, <1>4, <1>5, <1>6, <1>7, <1>8, <1>9 DEF Next

-----------------------------------------------------------------------------
(* The inductive invariant of the queue holds in every reachable state,    *)
(* for every set of policies the owner may switch between, any number of   *)
(* messages, consumers, replays and administrative changes.                *)
THEOREM QueueInvariant == Spec => []QueueInv
BY QueueInvInit, QueueInvStep, PTL DEF Spec

(* The variables of the queue keep their types: attempts stay within the   *)
(* largest max_attempts, lease times within the largest total lease.       *)
THEOREM QueueTypes == Spec => []TypeOK
<1>1. QueueInv => TypeOK
  BY Zenon DEF QueueInv
<1> QED BY <1>1, QueueInvariant, PTL

(* Concurrent pulls of PullQueueDeliveries never have more deliveries in   *)
(* flight than the largest max_in_flight.                                  *)
THEOREM PullsAreBounded == Spec => []InFlightBounded
<1>1. QueueInv => InFlightBounded
  BY Zenon DEF QueueInv
<1> QED BY <1>1, QueueInvariant, PTL

(* A generation is leased at most max_attempts times, and a delivery that  *)
(* has used them up is not offered again.                                  *)
THEOREM AttemptsAreBounded == Spec => []AttemptsBounded
<1>1. QueueInv => AttemptsBounded
  BY Limits DEF QueueInv, RowsSound, SoundRow, DeliveryRows, AttemptsBounded
<1> QED BY <1>1, QueueInvariant, PTL

(* However often ExtendQueueLeases extends it, no lease outlives its total *)
(* time.                                                                   *)
THEOREM LeasesAreCapped == Spec => []LeaseCapped
<1>1. QueueInv => LeaseCapped
  BY Zenon DEF QueueInv, RowsSound, SoundRow, LeaseCapped, InFlight
<1> QED BY <1>1, QueueInvariant, PTL

(* A drain that GetQueueDrain has stored as complete leaves no lease, then *)
(* or later, though the count and the store are two statements.            *)
THEOREM DrainedIsEmpty == Spec => []DrainedHoldsNothing
<1>1. QueueInv => DrainedHoldsNothing
  BY Zenon DEF QueueInv, DrainAgrees, DrainedHoldsNothing
<1> QED BY <1>1, QueueInvariant, PTL

(* Everything that the runs check of the limits of a subscription holds    *)
(* for all policies, messages, consumers and administrative changes.       *)
THEOREM QueueSafety == Spec => []QueueSafe
<1>1. QueueInv => QueueSafe
  <2> SUFFICES ASSUME QueueInv PROVE QueueSafe
    BY Zenon
  <2>1. TypeOK /\ InFlightBounded
    BY Zenon DEF QueueInv
  <2>2. AttemptsBounded
    BY Limits DEF QueueInv, RowsSound, SoundRow, DeliveryRows, AttemptsBounded
  <2>3. LeaseCapped
    BY Zenon DEF QueueInv, RowsSound, SoundRow, LeaseCapped, InFlight
  <2>4. DrainedHoldsNothing
    BY Zenon DEF QueueInv, DrainAgrees, DrainedHoldsNothing
  <2> QED BY Zenon, <2>1, <2>2, <2>3, <2>4 DEF QueueSafe
<1> QED BY <1>1, QueueInvariant, PTL

-----------------------------------------------------------------------------
(* The queue implements DeliveryLifecycle.  All steps but two at most give *)
(* deliveries up; an acknowledgement finishes one, a replay reopens some.  *)

OnlyGivesUp ==
  \A m \in Messages :
    /\ delivery'[m].generation = delivery[m].generation
    /\ Stage(m)' = Stage(m) \/ (Stage(m) = "open" /\ Stage(m)' = "dead")

LEMMA GivesUp ==
  ASSUME OnlyGivesUp
  PROVE  Lifecycle!Next
<1> DEFINE ids == {m \in Messages : Stage(m) = "open" /\ Stage(m)' = "dead"}
<1>1. \A m \in Messages : Stage(m)' = IF m \in ids THEN "dead" ELSE Stage(m)
  BY Zenon DEF OnlyGivesUp
<1>2. \A m \in Messages : delivery'[m].generation = delivery[m].generation
  BY Zenon DEF OnlyGivesUp
<1>3. ids \in SUBSET Messages /\ \A m \in ids : m \in Messages /\ Stage(m) = "open"
  BY Zenon
<1> HIDE DEF ids
<1>4. Lifecycle!GiveUp(ids)
  BY Zenon, <1>1, <1>2, <1>3 DEF Lifecycle!GiveUp
<1> QED BY Zenon, <1>3, <1>4 DEF Lifecycle!Next

LEMMA OneRowGivesUp ==
  ASSUME QueueInv, NEW m \in Messages, NEW new,
         delivery' = [delivery EXCEPT ![m] = new], new.generation = delivery[m].generation,
         \/ new.status = delivery[m].status
         \/ delivery[m].status \in {"absent", "in_flight"} /\ new.status = "available"
         \/ delivery[m].status = "in_flight" /\ new.status = "dead_letter"
         \/ delivery[m].status = "dead_letter" /\ new.status = "deleted"
  PROVE  Lifecycle!Next
<1>1. \A n \in Messages : delivery'[n] = IF n = m THEN new ELSE delivery[n]
  BY Zenon DEF QueueInv, TypeOK
<1>2. OnlyGivesUp
  BY Zenon, <1>1 DEF OnlyGivesUp, Stage
<1> QED BY Zenon, <1>2, GivesUp

LEMMA SettleImplements ==
  ASSUME QueueInv, NEW m \in Messages, NEW receipt \in Receipts, SettleQueueDeliveries(m, receipt)
  PROVE  Lifecycle!Next
<1>1. PICK disposition \in Dispositions, delay \in 0..MaxDelay :
        delivery' = [delivery EXCEPT ![m] =
          [Free(delivery[m], SettledAs(m, disposition)) EXCEPT
             !.availableIn = IF disposition = "available" THEN delay ELSE 0]]
  BY Zenon DEF SettleQueueDeliveries
<1> DEFINE status == SettledAs(m, disposition)
           new == [Free(delivery[m], status) EXCEPT
                     !.availableIn = IF disposition = "available" THEN delay ELSE 0]
<1>2. subscription \in Subscriptions /\ SoundRow(delivery[m]) /\ delivery[m].status = "in_flight"
  BY Zenon DEF SettleQueueDeliveries, Holds, QueueInv, TypeOK, RowsSound
<1>3. status \in Dispositions /\ new.status = status /\ new.generation = delivery[m].generation
  BY Zenon, <1>2, SettledSound
<1>4. delivery' = [delivery EXCEPT ![m] = new]
  BY Zenon, <1>1
<1> HIDE DEF new, status
<1>5. CASE status # "acked"
  BY Zenon, <1>2, <1>3, <1>4, <1>5, OneRowGivesUp DEF Dispositions
<1>6. CASE status = "acked"
  <2>1. \A n \in Messages : delivery'[n] = IF n = m THEN new ELSE delivery[n]
    BY Zenon, <1>4 DEF QueueInv, TypeOK
  <2>2. \A n \in Messages :
          /\ Stage(n)' = IF n = m THEN "done" ELSE Stage(n)
          /\ delivery'[n].generation = delivery[n].generation
    BY Zenon, <1>3, <1>6, <2>1 DEF Stage
  <2>3. Stage(m) = "open"
    BY Zenon, <1>2 DEF Stage
  <2>4. Lifecycle!Finish(m)
    BY Zenon, <2>2, <2>3 DEF Lifecycle!Finish
  <2> QED BY Zenon, <2>4 DEF Lifecycle!Next
<1> QED BY Zenon, <1>5, <1>6

LEMMA ReplayImplements ==
  ASSUME QueueInv, NEW ids \in SUBSET Messages, ReplayQueueDeadLetters(ids)
  PROVE  Lifecycle!Next
<1>1. delivery' = [m \in Messages |-> IF m \in ids THEN Reopened(delivery[m]) ELSE delivery[m]]
  BY Zenon DEF ReplayQueueDeadLetters
<1>2. ASSUME NEW m \in Messages
      PROVE  /\ Stage(m)' = IF m \in ids THEN "open" ELSE Stage(m)
             /\ delivery'[m].generation =
                  IF m \in ids THEN delivery[m].generation + 1 ELSE delivery[m].generation
  <2>1. CASE m \in ids
    <3>1. /\ SoundRow(delivery[m]) /\ delivery[m].generation < MaxGeneration
          /\ delivery'[m] = Reopened(delivery[m])
      BY Zenon, <1>1, <2>1 DEF ReplayQueueDeadLetters, QueueInv, RowsSound
    <3>2. delivery'[m].status = "available" /\ delivery'[m].generation = delivery[m].generation + 1
      BY Zenon, <3>1, ReopenedSound
    <3> QED BY Zenon, <2>1, <3>2 DEF Stage
  <2>2. CASE m \notin ids
    BY Zenon, <1>1, <2>2 DEF Stage
  <2> QED BY Zenon, <2>1, <2>2
<1>3. \A m \in ids : m \in Messages /\ Stage(m) = "dead"
  BY Zenon DEF ReplayQueueDeadLetters, Stage
<1>4. Lifecycle!Reopen(ids)
  BY Zenon, <1>2, <1>3 DEF Lifecycle!Reopen
<1> QED BY Zenon, <1>4 DEF Lifecycle!Next

(* The rows that a pull sweeps away are given up together. *)
LEMMA PullImplements ==
  ASSUME QueueInv, PullQueueDeliveries
  PROVE  Lifecycle!Next
<1>0. PICK limit \in 1..subscription.policy.batch, visibility \in 1..subscription.policy.visibility,
           leased \in SUBSET Eligible(Swept) :
        \E given \in [leased -> FreshReceipts] :
          delivery' = [m \in Messages |->
            IF m \in leased THEN Leased(Swept[m], given[m], visibility) ELSE Swept[m]]
  BY DEF PullQueueDeliveries
<1>1. PICK given \in [leased -> FreshReceipts] :
        delivery' = [m \in Messages |->
          IF m \in leased THEN Leased(Swept[m], given[m], visibility) ELSE Swept[m]]
  BY Zenon, <1>0
<1>2. ASSUME NEW m \in Messages
      PROVE  /\ delivery'[m].generation = delivery[m].generation
             /\ Stage(m)' = Stage(m) \/ (Stage(m) = "open" /\ Stage(m)' = "dead")
  <2>1. subscription \in Subscriptions /\ SoundRow(delivery[m])
    BY Zenon DEF QueueInv, TypeOK, RowsSound
  <2>2. Swept[m] = Retired(Reclaimed(delivery[m]))
    BY Zenon DEF Swept
  <2>3. /\ SoundRow(Swept[m]) /\ Swept[m].generation = delivery[m].generation
        /\ \/ Swept[m].status = delivery[m].status
           \/ delivery[m].status = "in_flight" /\ Swept[m].status = "available"
           \/ delivery[m].status \in {"available", "in_flight"} /\ Swept[m].status = "dead_letter"
    <3> DEFINE old == delivery[m]
               new == Retired(Reclaimed(old))
    <3> HIDE DEF old
    <3>1. SoundRow(old)
      BY Zenon, <2>1 DEF old
    <3>2. /\ SoundRow(new) /\ new.generation = old.generation
          /\ \/ new.status = old.status
             \/ old.status = "in_flight" /\ new.status = "available"
             \/ old.status \in {"available", "in_flight"} /\ new.status = "dead_letter"
      BY Zenon, <2>1, <3>1, SweepSound
    <3>3. Swept[m] = new
      BY Zenon, <2>2 DEF old
    <3> HIDE DEF new
    <3>4. Swept[m] = new /\ delivery[m] = old
      BY Zenon, <3>3 DEF old
    <3> QED BY Zenon, <3>2, <3>4
  <2>4. CASE m \in leased
    <3>1. delivery'[m] = Leased(Swept[m], given[m], visibility)
      BY Zenon, <1>1, <2>4
    <3>2. Swept[m].status = "available" /\ given[m] \in Receipts
      BY Zenon, <1>1, <2>4 DEF Eligible, FreshReceipts
    <3>3. delivery'[m].status = "in_flight" /\ delivery'[m].generation = Swept[m].generation
      BY <2>1, <2>3, <3>1, <3>2, LeasedSound
    <3> QED BY Zenon, <2>3, <3>2, <3>3 DEF Stage
  <2>5. CASE m \notin leased
    <3>1. delivery'[m] = Swept[m]
      BY Zenon, <1>1, <2>5
    <3> QED BY Zenon, <2>3, <3>1 DEF Stage
  <2> QED BY Zenon, <2>4, <2>5
<1> QED BY Zenon, <1>2, GivesUp DEF OnlyGivesUp

LEMMA QueueStepImplements ==
  QueueInv /\ [Next]_vars => [Lifecycle!Next]_(Lifecycle!vars)
<1> SUFFICES ASSUME QueueInv, [Next]_vars PROVE [Lifecycle!Next]_(Lifecycle!vars)
  BY Zenon
<1>1. ASSUME UNCHANGED delivery PROVE UNCHANGED Lifecycle!vars
  BY Zenon, <1>1 DEF Lifecycle!vars, Stage
<1>2. ASSUME NEW m \in Messages, PublishEvent(m)
      PROVE  Lifecycle!Next
  <2>1. PICK delay \in 0..MaxDelay :
          delivery' = [delivery EXCEPT ![m] = [delivery[m] EXCEPT !.status = "available", !.availableIn = delay]]
    BY Zenon, <1>2 DEF PublishEvent
  <2> DEFINE new == [delivery[m] EXCEPT !.status = "available", !.availableIn = delay]
  <2>2. new.status = "available" /\ new.generation = delivery[m].generation
    BY Zenon DEF QueueInv, RowsSound, SoundRow, DeliveryRows
  <2> HIDE DEF new
  <2>3. delivery' = [delivery EXCEPT ![m] = new] /\ delivery[m].status = "absent"
    BY Zenon, <1>2, <2>1 DEF new, PublishEvent
  <2> QED BY Zenon, <2>2, <2>3, OneRowGivesUp
<1>3. ASSUME NEW m \in Messages, DeleteQueueDeadLetters(m)
      PROVE  Lifecycle!Next
  <2> DEFINE new == [delivery[m] EXCEPT !.status = "deleted"]
  <2>1. new.status = "deleted" /\ new.generation = delivery[m].generation
    BY Zenon DEF QueueInv, RowsSound, SoundRow, DeliveryRows
  <2>2. delivery' = [delivery EXCEPT ![m] = new] /\ delivery[m].status = "dead_letter"
    BY Zenon, <1>3 DEF DeleteQueueDeadLetters
  <2> HIDE DEF new
  <2> QED BY Zenon, <2>1, <2>2, OneRowGivesUp
<1>4. ASSUME NEW m \in Messages, RetentionEnds(m)
      PROVE  Lifecycle!Next
  <2> DEFINE new == [delivery[m] EXCEPT !.expired = TRUE]
  <2>1. new.status = delivery[m].status /\ new.generation = delivery[m].generation
    BY Zenon DEF QueueInv, RowsSound, SoundRow, DeliveryRows
  <2>2. delivery' = [delivery EXCEPT ![m] = new]
    BY Zenon, <1>4 DEF RetentionEnds
  <2> HIDE DEF new
  <2> QED BY Zenon, <2>1, <2>2, OneRowGivesUp
<1>5. ASSUME NEW m \in Messages, NEW receipt \in Receipts, ExtendQueueLeases(m, receipt)
      PROVE  Lifecycle!Next
  <2>1. PICK extension \in 1..LongestLease :
          delivery' = [delivery EXCEPT ![m] = Extended(delivery[m], extension)]
    BY Zenon, <1>5 DEF ExtendQueueLeases
  <2> DEFINE new == Extended(delivery[m], extension)
  <2>2. SoundRow(delivery[m])
    BY Zenon DEF QueueInv, RowsSound
  <2>3. new.status = delivery[m].status /\ new.generation = delivery[m].generation
    BY Zenon, <2>2, ExtendedSound
  <2> HIDE DEF new
  <2> QED BY Zenon, <2>1, <2>3, OneRowGivesUp DEF new
<1>6. ASSUME Tick PROVE Lifecycle!Next
  <2>1. ASSUME NEW m \in Messages
        PROVE  delivery'[m].status = delivery[m].status /\ delivery'[m].generation = delivery[m].generation
    <3>1. SoundRow(delivery[m]) /\ delivery'[m] = Aged(delivery[m])
      BY Zenon, <1>6 DEF Tick, QueueInv, RowsSound
    <3> QED BY Zenon, <3>1, AgedSound
  <2>2. OnlyGivesUp
    BY Zenon, <2>1 DEF OnlyGivesUp, Stage
  <2> QED BY Zenon, <2>2, GivesUp
<1>7. ASSUME NEW receipt \in Receipts, DropReceipt(receipt)
      PROVE  UNCHANGED delivery
  BY Zenon, <1>7 DEF DropReceipt
<1>8. CountInFlight \/ StoreDrained \/ AdministerQueue \/ UNCHANGED vars => UNCHANGED delivery
  BY Zenon DEF CountInFlight, StoreDrained, AdministerQueue, vars, queueVars
<1> QED BY Zenon, <1>1, <1>2, <1>3, <1>4, <1>5, <1>6, <1>7, <1>8, PullImplements, SettleImplements,
           ReplayImplements, Zenon DEF Next, Consume

(* Every queue delivery keeps the promise of DeliveryLifecycle, for any    *)
(* number of messages and policies: what a consumer has acknowledged is    *)
(* done for ever, and a dead letter comes back only as a new generation.   *)
THEOREM QueueImplementsLifecycle == Spec => ImplementsLifecycle
<1>1. Init => Lifecycle!Init
  <2> HAVE Init
  <2>1. \A m \in Messages : Stage(m) = "open" /\ delivery[m].generation = 1
    BY Zenon DEF Init, NoRow, Stage
  <2> QED BY Zenon, <2>1 DEF Lifecycle!Init
<1> QED BY <1>1, QueueStepImplements, QueueInvariant, PTL DEF Spec, ImplementsLifecycle, Lifecycle!Spec

-----------------------------------------------------------------------------
(* Result callbacks, order and rate.  What is reported was true when it    *)
(* was, and stays true because a delivery only moves as DeliveryLifecycle  *)
(* allows.  The order follows from who may be leased, the rate from how    *)
(* many.                                                                   *)

(* What the promise of DeliveryLifecycle says of one delivery. *)
LEMMA StageMoves ==
  ASSUME QueueInv, [Next]_vars, NEW m \in Messages
  PROVE  \/ /\ delivery'[m].generation = delivery[m].generation
            /\ Stage(m) # "open" => Stage(m)' = Stage(m)
         \/ /\ delivery'[m].generation = delivery[m].generation + 1
            /\ Stage(m) = "dead"
<1> DEFINE st == [n \in Messages |-> Stage(n)]
           gen == [n \in Messages |-> delivery[n].generation]
           moves == \/ gen'[m] = gen[m] /\ (st[m] # "open" => st'[m] = st[m])
                    \/ gen'[m] = gen[m] + 1 /\ st[m] = "dead"
<1>1. [Lifecycle!Next]_(Lifecycle!vars)
  BY Zenon, QueueStepImplements
<1>2. ASSUME UNCHANGED Lifecycle!vars PROVE moves
  <2>1. st' = st /\ gen' = gen
    BY Zenon, <1>2 DEF Lifecycle!vars
  <2> HIDE DEF st, gen
  <2> QED BY Zenon, <2>1
<1>3. ASSUME NEW n \in Messages, Lifecycle!Finish(n)
      PROVE  moves
  <2>1. st[n] = "open" /\ st' = [st EXCEPT ![n] = "done"] /\ gen' = gen /\ DOMAIN st = Messages
    BY Zenon, <1>3 DEF Lifecycle!Finish
  <2> HIDE DEF st, gen
  <2> QED BY Zenon, <2>1
<1>4. ASSUME NEW ids \in SUBSET Messages, Lifecycle!GiveUp(ids)
      PROVE  moves
  <2>1. /\ \A n \in ids : st[n] = "open"
        /\ st' = [n \in Messages |-> IF n \in ids THEN "dead" ELSE st[n]]
        /\ gen' = gen
    BY Zenon, <1>4 DEF Lifecycle!GiveUp
  <2> HIDE DEF st, gen
  <2> QED BY Zenon, <2>1
<1>5. ASSUME NEW ids \in SUBSET Messages, Lifecycle!Reopen(ids)
      PROVE  moves
  <2>1. /\ \A n \in ids : st[n] = "dead"
        /\ st' = [n \in Messages |-> IF n \in ids THEN "open" ELSE st[n]]
        /\ gen' = [n \in Messages |-> IF n \in ids THEN gen[n] + 1 ELSE gen[n]]
    BY Zenon, <1>5 DEF Lifecycle!Reopen
  <2> HIDE DEF st, gen
  <2> QED BY Zenon, <2>1
<1>6. moves
  BY Zenon, <1>1, <1>2, <1>3, <1>4, <1>5 DEF Lifecycle!Next
<1>7. /\ gen[m] = delivery[m].generation /\ gen'[m] = delivery'[m].generation
      /\ st[m] = Stage(m) /\ st'[m] = Stage(m)'
  BY Zenon
<1> HIDE DEF st, gen
<1> QED BY Zenon, <1>6, <1>7

(* A result that was true, and a generation that can only have grown. *)
Reported(r) ==
  /\ r[2] <= delivery[r[1]].generation
  /\ IF r[3] = "success" THEN Stage(r[1]) = "done" /\ delivery[r[1]].generation = r[2]
     ELSE delivery[r[1]].generation > r[2] \/ Stage(r[1]) = "dead"

ResultsInv == \A r \in results : Reported(r)

LEMMA ResultStays ==
  ASSUME QueueInv, [Next]_vars, NEW r \in results, Reported(r)
  PROVE  Reported(r)'
<1> DEFINE m == r[1]
           g == delivery[m].generation
           h == delivery'[m].generation
<1>1. m \in Messages /\ r[2] \in Nat
  BY MaxGenerationAssumption DEF QueueInv, TypeOK
<1>2. g \in Nat
  BY <1>1, MaxGenerationAssumption DEF QueueInv, RowsSound, SoundRow, DeliveryRows
<1>3. \/ h = g /\ (Stage(m) # "open" => Stage(m)' = Stage(m))
      \/ h = g + 1 /\ Stage(m) = "dead"
  BY Zenon, <1>1, StageMoves
<1>4. /\ r[2] <= g
      /\ IF r[3] = "success" THEN Stage(m) = "done" /\ g = r[2] ELSE g > r[2] \/ Stage(m) = "dead"
  BY Zenon DEF Reported
<1> HIDE DEF m, g, h
<1>5. /\ r[2] <= h
      /\ IF r[3] = "success" THEN Stage(m)' = "done" /\ h = r[2] ELSE h > r[2] \/ Stage(m)' = "dead"
  BY <1>1, <1>2, <1>3, <1>4
<1> QED BY Zenon, <1>5 DEF Reported, m, h

(* The two places that report: a settlement and the sweep of a pull. *)
LEMMA SettlementReports ==
  ASSUME QueueInv, QueueInv', NEW m \in Messages, NEW receipt \in Receipts,
         SettleQueueDeliveries(m, receipt), NEW r \in results' \ results
  PROVE  Reported(r)'
<1>1. PICK disposition \in Dispositions, delay \in 0..MaxDelay :
        /\ delivery' = [delivery EXCEPT ![m] =
             [Free(delivery[m], SettledAs(m, disposition)) EXCEPT
                !.availableIn = IF disposition = "available" THEN delay ELSE 0]]
        /\ Report(m, SettledAs(m, disposition))
  BY Zenon DEF SettleQueueDeliveries
<1> DEFINE status == SettledAs(m, disposition)
           new == [Free(delivery[m], status) EXCEPT
                     !.availableIn = IF disposition = "available" THEN delay ELSE 0]
           g == delivery[m].generation
<1>2. subscription \in Subscriptions /\ SoundRow(delivery[m]) /\ delivery[m].status = "in_flight"
  BY Zenon DEF SettleQueueDeliveries, Holds, QueueInv, TypeOK, RowsSound
<1>3. new.status = status /\ new.generation = g
  BY Zenon, <1>2, SettledSound
<1>4. Report(m, status) /\ delivery' = [delivery EXCEPT ![m] = new]
  BY Zenon, <1>1
<1> HIDE DEF new, status
<1>5. delivery'[m] = new
  BY Zenon, <1>4 DEF QueueInv, TypeOK
<1>6. \/ status = "acked" /\ r = <<m, g, "success">>
      \/ status = "dead_letter" /\ r = <<m, g, "failure">>
  BY Zenon, <1>4 DEF Report
<1>7. g \in Nat
  BY <1>2, MaxGenerationAssumption DEF SoundRow, DeliveryRows
<1>8. delivery'[m].generation = g /\ delivery'[m].status = status
  BY Zenon, <1>3, <1>5
<1> HIDE DEF g
<1>9. CASE status = "acked" /\ r = <<m, g, "success">>
  <2>1. Stage(m)' = "done"
    BY Zenon, <1>8, <1>9 DEF Stage
  <2> QED BY <1>7, <1>8, <1>9, <2>1 DEF Reported
<1>10. CASE status = "dead_letter" /\ r = <<m, g, "failure">>
  <2>1. Stage(m)' = "dead"
    BY Zenon, <1>8, <1>10 DEF Stage
  <2> QED BY <1>7, <1>8, <1>10, <2>1 DEF Reported
<1> QED BY Zenon, <1>6, <1>9, <1>10

(* What a pull does to the rows: it leases some that no earlier delivery   *)
(* of the same key keeps waiting, and sweeps the others.                   *)
LEMMA PullRows ==
  ASSUME QueueInv, PullQueueDeliveries
  PROVE  \E leased \in SUBSET Eligible(Swept) :
           \A m \in Messages :
             IF m \in leased
             THEN delivery'[m].status = "in_flight" /\ delivery'[m].attempts = Swept[m].attempts + 1
             ELSE delivery'[m] = Swept[m]
<1>0. PICK limit \in 1..subscription.policy.batch, visibility \in 1..subscription.policy.visibility,
           leased \in SUBSET Eligible(Swept) :
        \E given \in [leased -> FreshReceipts] :
          delivery' = [m \in Messages |->
            IF m \in leased THEN Leased(Swept[m], given[m], visibility) ELSE Swept[m]]
  BY DEF PullQueueDeliveries
<1>1. PICK given \in [leased -> FreshReceipts] :
        delivery' = [m \in Messages |->
          IF m \in leased THEN Leased(Swept[m], given[m], visibility) ELSE Swept[m]]
  BY Zenon, <1>0
<1>2. ASSUME NEW m \in Messages, m \in leased
      PROVE  delivery'[m].status = "in_flight" /\ delivery'[m].attempts = Swept[m].attempts + 1
  <2> DEFINE row == Swept[m]
             total == subscription.policy.total
             lease == WithLease(row, given[m], visibility, total)
  <2>1. row \in DeliveryRows
    BY Zenon, SweptSound DEF SoundRow
  <2>2. delivery'[m] = [lease EXCEPT !.status = "in_flight", !.attempts = @ + 1]
    BY Zenon, <1>1, <1>2 DEF Leased
  <2>3. lease = [row EXCEPT !.receipt = given[m], !.leaseIn = visibility, !.maxIn = total]
    BY Zenon DEF WithLease
  <2> HIDE DEF row, lease, total
  <2>4. row = [row EXCEPT !.status = row.status] /\ DOMAIN row = DOMAIN NoRow
    BY Zenon, <2>1 DEF DeliveryRows, NoRow
  <2>5. lease.attempts = row.attempts /\ DOMAIN lease = DOMAIN NoRow
    BY Zenon, <2>3, <2>4 DEF NoRow
  <2>6. delivery'[m].status = "in_flight" /\ delivery'[m].attempts = lease.attempts + 1
    BY Zenon, <2>2, <2>5 DEF NoRow
  <2> QED BY Zenon, <2>5, <2>6 DEF row
<1>3. \A m \in Messages : m \notin leased => delivery'[m] = Swept[m]
  BY Zenon, <1>1
<1>4. \A m \in Messages :
        IF m \in leased
        THEN delivery'[m].status = "in_flight" /\ delivery'[m].attempts = Swept[m].attempts + 1
        ELSE delivery'[m] = Swept[m]
  BY Zenon, <1>2, <1>3
<1> QED BY Zenon, <1>0, <1>4

(* What a sweep leaves of every row. *)
LEMMA SweptRows ==
  ASSUME QueueInv, NEW m \in Messages
  PROVE  /\ SoundRow(Swept[m])
         /\ Swept[m].generation = delivery[m].generation /\ Swept[m].attempts = delivery[m].attempts
         /\ Swept[m].status = "absent" => delivery[m].status = "absent"
<1> DEFINE old == delivery[m]
           new == Retired(Reclaimed(old))
<1>1. subscription \in Subscriptions /\ SoundRow(old) /\ Swept[m] = new
  BY Zenon DEF QueueInv, TypeOK, RowsSound, Swept
<1> HIDE DEF old
<1>2. /\ SoundRow(new) /\ new.generation = old.generation /\ new.attempts = old.attempts
      /\ new.status = "absent" => old.status = "absent"
  BY Zenon, <1>1, SweepSound
<1> HIDE DEF new
<1> QED BY Zenon, <1>1, <1>2 DEF old

LEMMA SweepReports ==
  ASSUME QueueInv, QueueInv', PullQueueDeliveries, NEW r \in results' \ results
  PROVE  Reported(r)'
<1>1. PICK m \in Messages : /\ r = <<m, delivery[m].generation, "failure">>
                            /\ LeaseOver(delivery[m]) /\ Exhausted(delivery[m])
  BY Zenon DEF PullQueueDeliveries, ReportsOfSweep
<1> DEFINE old == delivery[m]
           mid == Free(old, "dead_letter")
<1>2. Swept[m] = Retired(Reclaimed(old)) /\ old \in DeliveryRows /\ LeaseOver(old) /\ Exhausted(old)
  BY Zenon, <1>1 DEF QueueInv, RowsSound, SoundRow, Swept
<1> HIDE DEF old
<1>3. Reclaimed(old) = mid /\ mid.status = "dead_letter"
  BY Zenon, <1>2, FreeFields DEF Reclaimed, Statuses
<1> HIDE DEF mid
<1>4. Swept[m].status = "dead_letter"
  BY Zenon, <1>2, <1>3 DEF Retired
<1>5. m \notin Eligible(Swept)
  BY Zenon, <1>4 DEF Eligible
<1>6. delivery'[m] = Swept[m]
  BY Zenon, <1>5, PullRows
<1>7. Stage(m)' = "dead"
  BY Zenon, <1>4, <1>6 DEF Stage
<1>8. delivery[m].generation \in Nat /\ delivery'[m].generation = delivery[m].generation
  <2>1. delivery[m].generation \in 1..MaxGeneration
    <3>1. delivery[m] \in DeliveryRows
      BY Zenon DEF QueueInv, RowsSound, SoundRow
    <3> QED BY Zenon, <3>1 DEF DeliveryRows
  <2>2. Swept[m].generation = delivery[m].generation
    BY Zenon, SweptRows
  <2> QED BY <1>6, <2>1, <2>2, MaxGenerationAssumption
<1> QED BY <1>1, <1>7, <1>8 DEF Reported

LEMMA ResultsStep ==
  ASSUME QueueInv, QueueInv', ResultsInv, [Next]_vars
  PROVE  ResultsInv'
<1> SUFFICES ASSUME NEW r \in results' PROVE Reported(r)'
  BY Zenon DEF ResultsInv
<1>1. CASE r \in results
  BY Zenon, <1>1, ResultStays DEF ResultsInv
<1>2. CASE r \notin results
  <2>1. ASSUME results' = results PROVE FALSE
    BY Zenon, <1>2, <2>1
  <2>2. \A m \in Messages : PublishEvent(m) \/ DeleteQueueDeadLetters(m) \/ RetentionEnds(m)
                              => results' = results
    BY Zenon DEF PublishEvent, DeleteQueueDeadLetters, RetentionEnds
  <2>3. \A receipt \in Receipts : DropReceipt(receipt) => results' = results
    BY Zenon DEF DropReceipt
  <2>4. \A m \in Messages, receipt \in Receipts : ExtendQueueLeases(m, receipt) => results' = results
    BY Zenon DEF ExtendQueueLeases
  <2>5. \A ids \in SUBSET Messages : ReplayQueueDeadLetters(ids) => results' = results
    BY Zenon DEF ReplayQueueDeadLetters
  <2>6. CountInFlight \/ StoreDrained \/ AdministerQueue \/ Tick \/ UNCHANGED vars
          => results' = results
    BY Zenon DEF CountInFlight, StoreDrained, AdministerQueue, Tick, vars, queueVars
  <2>7. PullQueueDeliveries \/ \E m \in Messages, receipt \in Receipts : SettleQueueDeliveries(m, receipt)
    BY Zenon, <2>1, <2>2, <2>3, <2>4, <2>5, <2>6 DEF Next, Consume
  <2> QED BY Zenon, <1>2, <2>7, SweepReports, SettlementReports
<1> QED BY Zenon, <1>1, <1>2

(* insertQueueResultCallback tells the truth, whatever happens to the      *)
(* delivery afterwards: a reported success stays acknowledged in the       *)
(* generation it was reported of, a reported failure stays a dead letter   *)
(* until a replay starts the next generation.                              *)
THEOREM ResultsAreTrue == Spec => []ResultsTellTheTruth
<1>1. Init => ResultsInv
  BY Zenon DEF Init, ResultsInv
<1>2. QueueInv /\ QueueInv' /\ ResultsInv /\ [Next]_vars => ResultsInv'
  BY Zenon, ResultsStep
<1>3. QueueInv /\ ResultsInv => ResultsTellTheTruth
  <2> SUFFICES ASSUME ResultsInv, NEW r \in results
               PROVE  LET row == delivery[r[1]] IN
                        IF r[3] = "success" THEN row.status = "acked" /\ row.generation = r[2]
                        ELSE row.generation > r[2] \/ row.status \in {"dead_letter", "deleted"}
    BY Zenon DEF ResultsTellTheTruth
  <2>1. Reported(r)
    BY Zenon DEF ResultsInv
  <2> QED BY Zenon, <2>1 DEF Reported, Stage
<1> QED BY <1>1, <1>2, <1>3, QueueInvariant, PTL DEF Spec

-----------------------------------------------------------------------------
(* Only a pull counts an attempt, and no row disappears. *)
KeepsCount(m) ==
  /\ delivery'[m].attempts \in {delivery[m].attempts, 0}
  /\ delivery'[m].status = "absent" => delivery[m].status = "absent"

LEMMA OneRowKeepsCount ==
  ASSUME QueueInv, NEW m \in Messages, NEW new, delivery' = [delivery EXCEPT ![m] = new],
         new.attempts = delivery[m].attempts,
         new.status = "absent" => delivery[m].status = "absent"
  PROVE  \A n \in Messages : KeepsCount(n)
<1>1. \A n \in Messages : delivery'[n] = IF n = m THEN new ELSE delivery[n]
  BY Zenon DEF QueueInv, TypeOK
<1> QED BY Zenon, <1>1 DEF KeepsCount

LEMMA OnlyPullsCount ==
  ASSUME QueueInv, [Next]_vars, ~PullQueueDeliveries
  PROVE  \A n \in Messages : KeepsCount(n)
<1> DEFINE kept == \A n \in Messages : KeepsCount(n)
<1>0. \A m \in Messages : delivery[m] \in DeliveryRows
  BY Zenon DEF QueueInv, TypeOK
<1>1. ASSUME NEW m \in Messages, PublishEvent(m) PROVE kept
  <2>1. PICK delay \in 0..MaxDelay :
          delivery' = [delivery EXCEPT ![m] = [delivery[m] EXCEPT !.status = "available", !.availableIn = delay]]
    BY Zenon, <1>1 DEF PublishEvent
  <2> DEFINE new == [delivery[m] EXCEPT !.status = "available", !.availableIn = delay]
  <2>2. new.status = "available" /\ new.attempts = delivery[m].attempts
    BY Zenon, <1>0 DEF DeliveryRows
  <2>3. delivery' = [delivery EXCEPT ![m] = new]
    BY Zenon, <2>1
  <2> HIDE DEF new
  <2> QED BY Zenon, <2>2, <2>3, OneRowKeepsCount
<1>2. ASSUME NEW m \in Messages, DeleteQueueDeadLetters(m) PROVE kept
  <2> DEFINE new == [delivery[m] EXCEPT !.status = "deleted"]
  <2>1. new.status = "deleted" /\ new.attempts = delivery[m].attempts
    BY Zenon, <1>0 DEF DeliveryRows
  <2>2. delivery' = [delivery EXCEPT ![m] = new]
    BY Zenon, <1>2 DEF DeleteQueueDeadLetters
  <2> HIDE DEF new
  <2> QED BY Zenon, <2>1, <2>2, OneRowKeepsCount
<1>3. ASSUME NEW m \in Messages, RetentionEnds(m) PROVE kept
  <2> DEFINE new == [delivery[m] EXCEPT !.expired = TRUE]
  <2>1. new.status = delivery[m].status /\ new.attempts = delivery[m].attempts
    BY Zenon, <1>0 DEF DeliveryRows
  <2>2. delivery' = [delivery EXCEPT ![m] = new]
    BY Zenon, <1>3 DEF RetentionEnds
  <2> HIDE DEF new
  <2> QED BY Zenon, <2>1, <2>2, OneRowKeepsCount
<1>4. ASSUME NEW m \in Messages, NEW receipt \in Receipts, SettleQueueDeliveries(m, receipt) PROVE kept
  <2>1. PICK disposition \in Dispositions, delay \in 0..MaxDelay :
          delivery' = [delivery EXCEPT ![m] =
            [Free(delivery[m], SettledAs(m, disposition)) EXCEPT
               !.availableIn = IF disposition = "available" THEN delay ELSE 0]]
    BY Zenon, <1>4 DEF SettleQueueDeliveries
  <2> DEFINE status == SettledAs(m, disposition)
             n == IF disposition = "available" THEN delay ELSE 0
             freed == Free(delivery[m], status)
             new == [freed EXCEPT !.availableIn = n]
  <2>2. status \in Statuses /\ status # "absent" /\ n \in 0..Later(MaxDelay, LongestRetry)
    BY Limits, MaxDelayAssumption DEF SettledAs, Dispositions, Statuses, Later
  <2>3. freed \in DeliveryRows /\ freed.status = status /\ freed.attempts = delivery[m].attempts
    BY Zenon, <1>0, <2>2, FreeFields
  <2>4. delivery' = [delivery EXCEPT ![m] = new]
    BY Zenon, <2>1
  <2> HIDE DEF n, freed, status
  <2>5. new.status = status /\ new.attempts = delivery[m].attempts
    BY Zenon, <2>2, <2>3, AvailableFields
  <2> HIDE DEF new
  <2> QED BY Zenon, <2>2, <2>4, <2>5, OneRowKeepsCount
<1>5. ASSUME NEW m \in Messages, NEW receipt \in Receipts, ExtendQueueLeases(m, receipt) PROVE kept
  <2>1. PICK extension \in 1..LongestLease :
          delivery' = [delivery EXCEPT ![m] = Extended(delivery[m], extension)]
    BY Zenon, <1>5 DEF ExtendQueueLeases
  <2> DEFINE new == Extended(delivery[m], extension)
  <2>2. new.status = delivery[m].status /\ new.attempts = delivery[m].attempts
    BY Zenon, <1>0 DEF DeliveryRows, Extended
  <2> HIDE DEF new
  <2>3. delivery' = [delivery EXCEPT ![m] = new]
    BY Zenon, <2>1 DEF new
  <2> QED BY Zenon, <2>2, <2>3, OneRowKeepsCount
<1>6. ASSUME NEW ids \in SUBSET Messages, ReplayQueueDeadLetters(ids) PROVE kept
  <2> SUFFICES ASSUME NEW n \in Messages PROVE KeepsCount(n)
    BY Zenon
  <2>1. CASE n \in ids
    <3>1. delivery'[n] = Reopened(delivery[n])
      BY Zenon, <1>6, <2>1 DEF ReplayQueueDeadLetters
    <3>2. delivery'[n].attempts = 0 /\ delivery'[n].status = "available"
      BY Zenon, <1>0, <3>1 DEF DeliveryRows, Reopened
    <3> QED BY Zenon, <3>2 DEF KeepsCount
  <2>2. CASE n \notin ids
    BY Zenon, <1>6, <2>2 DEF ReplayQueueDeadLetters, KeepsCount
  <2> QED BY Zenon, <2>1, <2>2
<1>7. ASSUME Tick PROVE kept
  <2> SUFFICES ASSUME NEW n \in Messages PROVE KeepsCount(n)
    BY Zenon
  <2>1. delivery'[n] = Aged(delivery[n])
    BY Zenon, <1>7 DEF Tick
  <2>2. delivery'[n].attempts = delivery[n].attempts /\ delivery'[n].status = delivery[n].status
    BY Zenon, <1>0, <2>1 DEF DeliveryRows, Aged
  <2> QED BY Zenon, <2>2 DEF KeepsCount
<1>8. ASSUME UNCHANGED delivery PROVE kept
  BY Zenon, <1>8 DEF KeepsCount
<1>9. \A receipt \in Receipts : DropReceipt(receipt) => UNCHANGED delivery
  BY Zenon DEF DropReceipt
<1>10. CountInFlight \/ StoreDrained \/ AdministerQueue \/ UNCHANGED vars => UNCHANGED delivery
  BY Zenon DEF CountInFlight, StoreDrained, AdministerQueue, vars, queueVars
<1> HIDE DEF kept
<1>11. kept
  BY Zenon, <1>1, <1>2, <1>3, <1>4, <1>5, <1>6, <1>7, <1>8, <1>9, <1>10 DEF Next, Consume
<1> QED BY Zenon, <1>11 DEF kept

(* What has arrived has a row. *)
ArrivedExists == \A i \in 1..Len(arrivals) : delivery[arrivals[i]].status # "absent"

(* Only a publication adds to the order of arrival. *)
LEMMA ArrivalSteps ==
  ASSUME [Next]_vars
  PROVE  \/ arrivals' = arrivals
         \/ \E m \in Messages : PublishEvent(m)
<1>1. \A m \in Messages : DeleteQueueDeadLetters(m) \/ RetentionEnds(m) => arrivals' = arrivals
  BY Zenon DEF DeleteQueueDeadLetters, RetentionEnds
<1>2. \A m \in Messages, receipt \in Receipts : Consume(m, receipt) => arrivals' = arrivals
  BY Zenon DEF Consume, SettleQueueDeliveries, ExtendQueueLeases
<1>3. \A receipt \in Receipts : DropReceipt(receipt) => arrivals' = arrivals
  BY Zenon DEF DropReceipt
<1>4. \A ids \in SUBSET Messages : ReplayQueueDeadLetters(ids) => arrivals' = arrivals
  BY Zenon DEF ReplayQueueDeadLetters
<1>5. PullQueueDeliveries \/ CountInFlight \/ StoreDrained \/ AdministerQueue \/ Tick \/ UNCHANGED vars
        => arrivals' = arrivals
  BY Zenon DEF PullQueueDeliveries, CountInFlight, StoreDrained, AdministerQueue, Tick, vars, queueVars
<1> QED BY Zenon, <1>1, <1>2, <1>3, <1>4, <1>5 DEF Next

LEMMA RowsStay ==
  ASSUME QueueInv, [Next]_vars, NEW m \in Messages, delivery[m].status # "absent"
  PROVE  delivery'[m].status # "absent"
<1>1. CASE PullQueueDeliveries
  BY Zenon, <1>1, PullRows, SweptRows
<1>2. CASE ~PullQueueDeliveries
  BY Zenon, <1>2, OnlyPullsCount DEF KeepsCount
<1> QED BY Zenon, <1>1, <1>2

LEMMA ArrivedStep ==
  ASSUME QueueInv, ArrivedExists, [Next]_vars
  PROVE  ArrivedExists'
<1> SUFFICES ASSUME NEW i \in 1..Len(arrivals') PROVE delivery'[arrivals'[i]].status # "absent"
  BY Zenon DEF ArrivedExists
<1>0. arrivals \in Seq(Messages)
  BY Zenon DEF QueueInv, TypeOK
<1>1. CASE arrivals' = arrivals
  BY <1>0, <1>1, RowsStay DEF ArrivedExists
<1>2. ASSUME NEW m \in Messages, PublishEvent(m)
      PROVE  delivery'[arrivals'[i]].status # "absent"
  <2>1. arrivals' = Append(arrivals, m)
    BY Zenon, <1>2 DEF PublishEvent
  <2>2. CASE i \in 1..Len(arrivals)
    <3>1. arrivals'[i] = arrivals[i] /\ arrivals[i] \in Messages
      BY <1>0, <2>1, <2>2
    <3> QED BY Zenon, <2>2, <3>1, RowsStay DEF ArrivedExists
  <2>3. CASE i \notin 1..Len(arrivals)
    <3>1. arrivals'[i] = m
      BY <1>0, <2>1, <2>3
    <3>2. delivery'[m].status = "available"
      BY <1>2 DEF PublishEvent, QueueInv, TypeOK, DeliveryRows
    <3> QED BY Zenon, <3>1, <3>2
  <2> QED BY Zenon, <2>2, <2>3
<1> QED BY Zenon, <1>1, <1>2, ArrivalSteps

(* A publication puts its delivery behind all that have arrived. *)
LEMMA ArrivesLast ==
  ASSUME NEW s \in Seq(Messages), NEW x, NEW n, NEW m, m # x,
         NEW i \in 1..Len(Append(s, x)), NEW j \in 1..Len(Append(s, x)),
         i < j, Append(s, x)[i] = n, Append(s, x)[j] = m, x \in Messages
  PROVE  \E k, l \in 1..Len(s) : k < l /\ s[k] = n /\ s[l] = m
<1>1. j # Len(s) + 1
  OBVIOUS
<1>2. i \in 1..Len(s) /\ j \in 1..Len(s)
  BY <1>1
<1>3. s[i] = n /\ s[j] = m
  BY <1>2
<1> QED BY Zenon, <1>2, <1>3

Settled(n) == delivery[n].status \in {"acked", "dead_letter", "deleted"}

(* The order of two deliveries of one key. *)
InOrder(n, m) ==
  Arrived(n, m) /\ delivery[n].generation = 1 /\ delivery[m].attempts > 0 => Settled(n)

LEMMA OrderStep ==
  ASSUME QueueInv, QueueInv', ArrivedExists, [Next]_vars, \A p \in Policies : p.ordered,
         NEW n \in Messages, NEW m \in Messages,
         n < m, KeyOf[n] = KeyOf[m], KeyOf[m] # None, InOrder(n, m)
  PROVE  InOrder(n, m)'
<1> SUFFICES ASSUME Arrived(n, m)', delivery'[n].generation = 1, delivery'[m].attempts > 0
             PROVE  Settled(n)'
  BY Zenon DEF InOrder
<1>0. /\ arrivals \in Seq(Messages) /\ \A k \in Messages : SoundRow(delivery[k])
      /\ delivery[n].generation \in Nat \ {0} /\ delivery[m].attempts \in Nat
  <2>1. arrivals \in Seq(Messages) /\ \A k \in Messages : SoundRow(delivery[k])
    BY Zenon DEF QueueInv, TypeOK, RowsSound
  <2>2. delivery[n] \in DeliveryRows /\ delivery[m] \in DeliveryRows
    BY Zenon, <2>1 DEF SoundRow
  <2>3. delivery[n].generation \in 1..MaxGeneration /\ delivery[m].attempts \in 0..MostAttempts
    BY Zenon, <2>2 DEF DeliveryRows
  <2>4. delivery[n].generation \in Nat \ {0} /\ delivery[m].attempts \in Nat
    BY <2>3, Limits, MaxGenerationAssumption
  <2> QED BY Zenon, <2>1, <2>4
<1>1. ASSUME Settled(n) PROVE Settled(n)'
  <2>1. Stage(n) \in {"done", "dead"} /\ (Stage(n)' # "open" => Settled(n)')
    BY Zenon, <1>1 DEF Stage, Settled
  <2>2. delivery'[n].generation = delivery[n].generation
    BY <1>0, StageMoves
  <2>3. Stage(n)' = Stage(n)
    BY <1>0, <2>1, <2>2, StageMoves
  <2> QED BY Zenon, <2>1, <2>3
<1>2. ASSUME Arrived(n, m), delivery[m].attempts > 0 PROVE Settled(n)'
  <2>1. delivery[n].generation = 1
    BY <1>0, StageMoves
  <2> QED BY Zenon, <1>1, <1>2, <2>1 DEF InOrder
<1>3. CASE PullQueueDeliveries
  <2>1. arrivals' = arrivals
    BY Zenon, <1>3 DEF PullQueueDeliveries
  <2>2. Arrived(n, m) /\ delivery[n].status # "absent"
    BY Zenon, <1>0, <2>1 DEF Arrived, ArrivedExists
  <2>3. PICK leased \in SUBSET Eligible(Swept) :
          \A k \in Messages :
            IF k \in leased
            THEN delivery'[k].status = "in_flight" /\ delivery'[k].attempts = Swept[k].attempts + 1
            ELSE delivery'[k] = Swept[k]
    BY Zenon, <1>3, PullRows
  <2>4. CASE m \in leased
    <3>1. subscription.policy.ordered
      BY Zenon, PolicyInUse DEF QueueInv, TypeOK
    <3>2. Swept[n].status \notin {"available", "in_flight"}
      BY Zenon, <2>4, <3>1 DEF Eligible, Blocked
    <3>3. delivery'[n] = Swept[n]
      BY Zenon, <2>3, <3>2 DEF Eligible
    <3>4. Swept[n].status \in Statuses /\ Swept[n].status # "absent"
      BY Zenon, <2>2, SweptRows DEF SoundRow, DeliveryRows
    <3> QED BY Zenon, <3>2, <3>3, <3>4 DEF Settled, Statuses
  <2>5. CASE m \notin leased
    <3>1. delivery[m].attempts > 0
      BY Zenon, <2>3, <2>5, SweptRows
    <3> QED BY Zenon, <1>2, <2>2, <3>1
  <2> QED BY Zenon, <2>4, <2>5
<1>4. CASE ~PullQueueDeliveries
  <2>1. delivery[m].attempts > 0
    BY <1>0, <1>4, OnlyPullsCount DEF KeepsCount
  <2>2. Arrived(n, m)
    <3>1. CASE arrivals' = arrivals
      BY Zenon, <3>1 DEF Arrived
    <3>2. ASSUME NEW x \in Messages, PublishEvent(x)
          PROVE  Arrived(n, m)
      <4>1. arrivals' = Append(arrivals, x) /\ delivery[x].status = "absent"
        BY Zenon, <3>2 DEF PublishEvent
      <4>2. x # m
        BY <1>0, <2>1, <4>1 DEF SoundRow
      <4>3. PICK i, j \in 1..Len(Append(arrivals, x)) :
              i < j /\ Append(arrivals, x)[i] = n /\ Append(arrivals, x)[j] = m
        BY Zenon, <4>1 DEF Arrived
      <4>4. \E k, l \in 1..Len(arrivals) : k < l /\ arrivals[k] = n /\ arrivals[l] = m
        BY <1>0, <4>2, <4>3, ArrivesLast
      <4> QED BY Zenon, <4>4 DEF Arrived
    <3> QED BY Zenon, <3>1, <3>2, ArrivalSteps
  <2> QED BY Zenon, <1>2, <2>1, <2>2
<1> QED BY Zenon, <1>3, <1>4

(* PullQueueDeliveries hands out the deliveries of one ordering key in the *)
(* order in which they arrived and are numbered, over any number of        *)
(* consumers, retries and expired leases: a later one waits until the      *)
(* earlier one is settled, unless an operator replays that one.            *)
THEOREM KeysAreFifo == Spec => []FifoPerKey
<1>1. Init => ArrivedExists /\ FifoPerKey
  <2> SUFFICES ASSUME Init PROVE ArrivedExists /\ FifoPerKey
    BY Zenon
  <2>1. arrivals = <<>> /\ Len(arrivals) = 0
    BY Zenon DEF Init
  <2>2. ArrivedExists
    BY <2>1 DEF ArrivedExists
  <2>3. \A n, m \in Messages : ~Arrived(n, m)
    BY <2>1 DEF Arrived
  <2> QED BY Zenon, <2>2, <2>3 DEF FifoPerKey
<1>2. QueueInv /\ QueueInv' /\ ArrivedExists /\ FifoPerKey /\ [Next]_vars
        => ArrivedExists' /\ FifoPerKey'
  <2> SUFFICES ASSUME QueueInv, QueueInv', ArrivedExists, FifoPerKey, [Next]_vars
               PROVE  ArrivedExists' /\ FifoPerKey'
    BY Zenon
  <2>1. ArrivedExists'
    BY Zenon, ArrivedStep
  <2>2. ASSUME \A p \in Policies : p.ordered, NEW n \in Messages, NEW m \in Messages,
               n < m, KeyOf[n] = KeyOf[m], KeyOf[m] # None
        PROVE  InOrder(n, m)'
    <3>1. InOrder(n, m)
      BY Zenon, <2>2 DEF FifoPerKey, InOrder, Settled
    <3> QED BY Zenon, <2>2, <3>1, OrderStep
  <2>3. FifoPerKey'
    BY Zenon, <2>2 DEF FifoPerKey, InOrder, Settled
  <2> QED BY Zenon, <2>1, <2>3
<1> QED BY <1>1, <1>2, QueueInvariant, PTL DEF Spec

-----------------------------------------------------------------------------
(* The dispatch rate. *)

(* The room of a pull is what the rate leaves of this second. *)
LEMMA RoomKeepsRate ==
  ASSUME TypeOK, NEW rows, NEW limit \in Nat, subscription.policy.rate > 0
  PROVE  /\ Room(rows, limit) \in Nat
         /\ Room(rows, limit) = 0 \/ Dispatched + Room(rows, limit) <= subscription.policy.rate
<1> DEFINE inFlight == subscription.policy.inFlight
           rate == subscription.policy.rate
           n == Cardinality(InFlight(rows))
           d == Dispatched
<1>1. inFlight \in Nat /\ rate \in Nat /\ rate > 0
  BY Zenon, PolicyInUse DEF TypeOK
<1>2. n \in Nat /\ d \in Nat
  BY Zenon, FiniteInFlight, FiniteLeases DEF TypeOK
<1>3. Room(rows, limit) =
        Later(0, Sooner(limit, Sooner(inFlight - n, IF rate = 0 THEN limit ELSE rate - d)))
  BY Zenon DEF Room
<1> HIDE DEF inFlight, rate, n, d
<1>4. /\ Room(rows, limit) \in Nat
      /\ Room(rows, limit) = 0 \/ d + Room(rows, limit) <= rate
  BY <1>1, <1>2, <1>3 DEF Later, Sooner
<1> QED BY Zenon, <1>4 DEF d, rate

(* A pull adds at most one lease for every delivery it hands out. *)
LEMMA LeasesAdded ==
  ASSUME NEW S, IsFiniteSet(S), NEW R, IsFiniteSet(R), NEW f, f \in [S -> {f[x] : x \in S}]
  PROVE  /\ IsFiniteSet(R \cup {f[x] : x \in S})
         /\ Cardinality(R \cup {f[x] : x \in S}) <= Cardinality(R) + Cardinality(S)
<1> DEFINE T == {f[x] : x \in S}
<1>1. f \in Surjection(S, T)
  BY Zenon DEF Surjection
<1> HIDE DEF T
<1>2. IsFiniteSet(T) /\ Cardinality(T) <= Cardinality(S)
  BY Zenon, <1>1, FS_Surjection
<1>3. /\ IsFiniteSet(R \cup T) /\ IsFiniteSet(R \cap T)
      /\ Cardinality(R \cup T) = Cardinality(R) + Cardinality(T) - Cardinality(R \cap T)
  BY Zenon, <1>2, FS_Union, FS_Intersection
<1>4. /\ Cardinality(R) \in Nat /\ Cardinality(S) \in Nat /\ Cardinality(T) \in Nat
      /\ Cardinality(R \cap T) \in Nat
  BY Zenon, <1>2, <1>3, FS_CardinalityType
<1>5. Cardinality(R \cup T) <= Cardinality(R) + Cardinality(S)
  BY <1>2, <1>3, <1>4
<1> QED BY Zenon, <1>3, <1>5 DEF T

LEMMA PullKeepsRate ==
  ASSUME QueueInv, QueueInv', PullQueueDeliveries, RateRespected
  PROVE  RateRespected'
<1> SUFFICES ASSUME \A p \in Policies : p.rate > 0
             PROVE  \E p \in Policies : Dispatched' <= p.rate
  BY Zenon DEF RateRespected
<1>1. PICK limit \in 1..subscription.policy.batch, leased \in SUBSET Eligible(Swept) :
        /\ Cardinality(leased) = Sooner(Room(Swept, limit), Cardinality(Eligible(Swept)))
        /\ recent' = recent \cup {<<m, Swept[m].generation, Swept[m].attempts + 1>> : m \in leased}
  BY Zenon DEF PullQueueDeliveries
<1> DEFINE E == Eligible(Swept)
           f == [m \in leased |-> <<m, Swept[m].generation, Swept[m].attempts + 1>>]
           rate == subscription.policy.rate
<1>2. TypeOK /\ subscription.policy \in Policies /\ rate \in Nat /\ rate > 0 /\ limit \in Nat
  BY PolicyInUse DEF QueueInv, TypeOK
<1>3. /\ Room(Swept, limit) \in Nat
      /\ Room(Swept, limit) = 0 \/ Dispatched + Room(Swept, limit) <= rate
  BY Zenon, <1>2, RoomKeepsRate
<1>4. /\ IsFiniteSet(E) /\ Cardinality(E) \in Nat
      /\ IsFiniteSet(leased) /\ Cardinality(leased) \in Nat
  <2>1. E \in SUBSET Messages /\ leased \in SUBSET Messages
    BY Zenon DEF Eligible
  <2> HIDE DEF E
  <2>2. IsFiniteSet(E) /\ IsFiniteSet(leased)
    BY Zenon, <2>1, MessagesAssumption, FS_Subset
  <2> QED BY Zenon, <2>2, FS_CardinalityType
<1>5. Cardinality(leased) <= Room(Swept, limit)
  BY <1>1, <1>3, <1>4 DEF Sooner
<1>6. IsFiniteSet(recent) /\ Dispatched \in Nat /\ Dispatched' \in Nat
  <2>1. IsFiniteSet(recent) /\ Dispatched \in Nat
    BY Zenon, <1>2, FiniteLeases DEF TypeOK
  <2>2. recent' \subseteq Messages \X (1..MaxGeneration) \X (1..MostAttempts)
    BY Zenon DEF QueueInv, TypeOK
  <2>3. IsFiniteSet(recent')
    <3>1. recent' = recent \cup {f[m] : m \in leased} /\ f \in [leased -> {f[m] : m \in leased}]
      BY Zenon, <1>1
    <3> HIDE DEF f
    <3> QED BY <1>4, <2>1, <3>1, LeasesAdded
  <2> QED BY Zenon, <2>1, <2>3, FS_CardinalityType DEF Dispatched
<1>7. Dispatched' <= Dispatched + Cardinality(leased)
  <2>1. recent' = recent \cup {f[m] : m \in leased} /\ f \in [leased -> {f[m] : m \in leased}]
    BY Zenon, <1>1
  <2> HIDE DEF f
  <2> QED BY Zenon, <1>4, <1>6, <2>1, LeasesAdded DEF Dispatched
<1> HIDE DEF rate
<1>8. CASE Room(Swept, limit) = 0
  <2>1. Dispatched' <= Dispatched
    BY <1>4, <1>5, <1>6, <1>7, <1>8
  <2>2. PICK p \in Policies : Dispatched <= p.rate
    BY Zenon DEF RateRespected
  <2>3. p.rate \in Nat
    BY Zenon, PoliciesAssumption DEF ValidPolicies
  <2>4. Dispatched' <= p.rate
    BY <1>6, <2>1, <2>2, <2>3
  <2> QED BY Zenon, <2>4
<1>9. CASE Dispatched + Room(Swept, limit) <= rate
  <2>1. Dispatched' <= rate
    BY <1>2, <1>3, <1>4, <1>5, <1>6, <1>7, <1>9
  <2> QED BY Zenon, <1>2, <2>1 DEF rate
<1> QED BY Zenon, <1>3, <1>8, <1>9

(* A step that adds no lease to this second. *)
LEMMA FewerKeepRate ==
  ASSUME QueueInv, RateRespected, recent' \subseteq recent
  PROVE  RateRespected'
<1> SUFFICES ASSUME \A p \in Policies : p.rate > 0
             PROVE  \E p \in Policies : Dispatched' <= p.rate
  BY Zenon DEF RateRespected
<1>1. IsFiniteSet(recent) /\ Dispatched \in Nat
  BY Zenon, FiniteLeases DEF QueueInv, TypeOK
<1>2. Dispatched' \in Nat /\ Dispatched' <= Dispatched
  BY Zenon, <1>1, FS_Subset, FS_CardinalityType DEF Dispatched
<1>3. PICK p \in Policies : Dispatched <= p.rate
  BY Zenon DEF RateRespected
<1>4. p.rate \in Nat
  BY Zenon, PoliciesAssumption DEF ValidPolicies
<1>5. Dispatched' <= p.rate
  BY <1>1, <1>2, <1>3, <1>4
<1> QED BY Zenon, <1>5

(* No more deliveries are leased within a second than max_dispatch_rate    *)
(* allows, by however many consumers that pull at once: each pull counts   *)
(* the leases of the others before it hands out more.                      *)
THEOREM RateIsRespected == Spec => []RateRespected
<1>1. Init => RateRespected
  <2> SUFFICES ASSUME Init PROVE \E p \in Policies : Dispatched <= p.rate
    BY Zenon DEF RateRespected
  <2>1. Dispatched = 0
    BY Zenon, FS_EmptySet DEF Init, Dispatched
  <2>2. PICK p \in Policies : TRUE
    BY Zenon, PoliciesAssumption
  <2>3. p.rate \in Nat
    BY Zenon, PoliciesAssumption DEF ValidPolicies
  <2> QED BY <2>1, <2>3
<1>2. QueueInv /\ QueueInv' /\ RateRespected /\ [Next]_vars => RateRespected'
  <2> SUFFICES ASSUME QueueInv, QueueInv', RateRespected, [Next]_vars PROVE RateRespected'
    BY Zenon
  <2>1. \A m \in Messages : PublishEvent(m) \/ DeleteQueueDeadLetters(m) \/ RetentionEnds(m)
                              => recent' \subseteq recent
    BY Zenon DEF PublishEvent, DeleteQueueDeadLetters, RetentionEnds
  <2>2. \A m \in Messages, receipt \in Receipts : Consume(m, receipt) => recent' \subseteq recent
    BY Zenon DEF Consume, SettleQueueDeliveries, ExtendQueueLeases
  <2>3. \A receipt \in Receipts : DropReceipt(receipt) => recent' \subseteq recent
    BY Zenon DEF DropReceipt
  <2>4. \A ids \in SUBSET Messages : ReplayQueueDeadLetters(ids) => recent' \subseteq recent
    BY Zenon DEF ReplayQueueDeadLetters
  <2>5. CountInFlight \/ StoreDrained \/ AdministerQueue \/ Tick \/ UNCHANGED vars
          => recent' \subseteq recent
    BY Zenon DEF CountInFlight, StoreDrained, AdministerQueue, Tick, vars, queueVars
  <2>6. PullQueueDeliveries \/ recent' \subseteq recent
    BY Zenon, <2>1, <2>2, <2>3, <2>4, <2>5 DEF Next
  <2> QED BY Zenon, <2>6, PullKeepsRate, FewerKeepRate
<1> QED BY <1>1, <1>2, QueueInvariant, PTL DEF Spec
==============================================================================
