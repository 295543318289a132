----------------------------- MODULE Publication -----------------------------
(***************************************************************************)
(* Publication of events by one application: service/events.go (publish)   *)
(* over store/postgres/events.go (FindPublication, PublishEvent), with the *)
(* routing rules of service/routing.go.  A request stamps its event with   *)
(* the time before it takes any lock; one transaction then stores the      *)
(* event, its deliveries with their outbox rows, its queue deliveries, the *)
(* keys that suppress duplicates and the answer to repetitions.            *)
(*                                                                         *)
(* The transaction is two steps: it takes the advisory lock of the key and *)
(* looks for an earlier answer; it locks targets and subscriptions, stores *)
(* everything and commits.  Every target has one queue subscription.  The  *)
(* delivery policy of a target is the set of its sinks, empty when the     *)
(* application is disabled.                                                *)
(***************************************************************************)
EXTENDS Integers, FiniteSets

CONSTANTS
  Requests,     \* publish requests; the identifier of the event of a request is the request
  Keys,         \* idempotency keys
  DedupKeys,    \* deduplication keys
  Targets,      \* applications
  None,         \* absent
  KeyOf,        \* the idempotency key of every request
  DedupOf,      \* the deduplication key of every request, or None
  TargetsOf,    \* the targets a request names; none: the routing rules decide
  Idempotency,  \* retention of an answer
  Windows,      \* deduplication windows of subscriptions
  Patience,     \* the longest time from stamping an event to its commit
  Horizon,      \* bound: last instant of the clock
  MaxChanges    \* bound: changes of policies, rules and subscriptions, failures

Sinks == {"stream", "callback"}

VARIABLES
  now,           \* the clock
  policy,        \* sinks of every target
  rules,         \* targets of the enabled routing rules
  draft,         \* a rule that has been validated and is not stored yet
  subscription,  \* open for events or not, deduplication window
  event,         \* events with their stamp; history: when stored, under which windows
  delivery,      \* deliveries with their outbox rows
  queued,        \* queue_deliveries
  dedup,         \* queue_deduplication_keys
  idempotency,   \* event_idempotency
  request,       \* local state of the requests
  changes

vars == <<now, policy, rules, draft, subscription, event, delivery, queued, dedup, idempotency,
          request, changes>>

Instants == 0..Horizon
NewRequest ==
  [pc |-> "start", targets |-> {}, callback |-> {}, created |-> 0, answer |-> None]
NoKey == [event |-> None, expires |-> 0]

Init ==
  /\ now = 0 /\ changes = 0
  /\ policy = [t \in Targets |-> Sinks]
  /\ rules = Targets /\ draft = {}
  /\ subscription \in [Targets -> [open : {TRUE}, window : Windows]]
  /\ event = [r \in Requests |-> None]
  /\ delivery = {} /\ queued = {}
  /\ dedup = [k \in Targets \X DedupKeys |-> NoKey]
  /\ idempotency = [k \in Keys |-> None]
  /\ request = [r \in Requests |-> NewRequest]

-----------------------------------------------------------------------------
At(r, pc) == request[r].pc = pc
Done(r, answer) == request' = [request EXCEPT ![r].pc = "done", ![r].answer = answer]

UnchangedStore == UNCHANGED <<event, delivery, queued, dedup, idempotency>>
UnchangedSettings == UNCHANGED <<now, policy, rules, draft, subscription>>

(* The targets of the enabled rules at this moment. *)
ResolveRoutingRules == rules

(* Targets named by the request, or those of the rules. *)
ResolveTargets(r) ==
  /\ At(r, "start")
  /\ LET targets == IF TargetsOf[r] # {} THEN TargetsOf[r] ELSE ResolveRoutingRules IN
       IF targets = {} THEN Done(r, "rejected")
       ELSE request' = [request EXCEPT ![r].pc = "find", ![r].targets = targets]
  /\ UnchangedStore /\ UnchangedSettings /\ UNCHANGED changes

Answered(k) == idempotency[k] # None /\ idempotency[k].expires > now

FindPublication(r) ==
  /\ At(r, "find")
  /\ IF Answered(KeyOf[r]) THEN Done(r, idempotency[KeyOf[r]].event)
     ELSE request' = [request EXCEPT ![r].pc = "check"]
  /\ UnchangedStore /\ UnchangedSettings /\ UNCHANGED changes

(* The targets are looked at and the event is stamped. *)
CheckTargets(r) ==
  /\ At(r, "check")
  /\ IF \E t \in request[r].targets : policy[t] = {} THEN Done(r, "rejected")
     ELSE request' = [request EXCEPT ![r] =
            [@ EXCEPT !.pc = "begin", !.created = now,
                      !.callback = {t \in request[r].targets : "callback" \in policy[t]}]]
  /\ UnchangedStore /\ UnchangedSettings /\ UNCHANGED changes

Locked(k) == \E r \in Requests : At(r, "locked") /\ KeyOf[r] = k

\* mutant of Repeats: the transaction relies on FindPublication
RepeatsNever(r) == FALSE

(* An earlier answer, looked for under the lock of the key. *)
Repeats(r) == Answered(KeyOf[r])

BeginPublish(r) ==
  /\ At(r, "begin") /\ ~Locked(KeyOf[r])
  /\ IF Repeats(r) THEN Done(r, idempotency[KeyOf[r]].event)
     ELSE request' = [request EXCEPT ![r].pc = "locked"]
  /\ UnchangedStore /\ UnchangedSettings /\ UNCHANGED changes

-----------------------------------------------------------------------------
(* The second half of PublishEvent. *)

(* Keys whose window has ended by the time the event is stamped with. *)
Purged(r) ==
  [k \in Targets \X DedupKeys |->
     IF DedupOf[r] # None /\ k[1] \in request[r].targets /\ dedup[k].expires <= request[r].created
     THEN NoKey ELSE dedup[k]]

Suppressed(r, t) ==
  /\ DedupOf[r] # None /\ subscription[t].window > 0
  /\ dedup[<<t, DedupOf[r]>>].expires > request[r].created

QueuedBy(r) == {t \in request[r].targets : subscription[t].open /\ ~Suppressed(r, t)}

DedupAfter(r) ==
  [k \in Targets \X DedupKeys |->
     IF /\ k[2] = DedupOf[r] /\ k[1] \in QueuedBy(r)
        /\ subscription[k[1]].window > 0 /\ Purged(r)[k] = NoKey
     THEN [event |-> r, expires |-> request[r].created + subscription[k[1]].window]
     ELSE Purged(r)[k]]

(* The policy under the lock decides what the jobs say about callbacks. *)
CallbackJobs(r) == {t \in request[r].targets : "callback" \in policy[t]}

PublishEvent(r) ==
  LET targets == request[r].targets
      created == request[r].created IN
    /\ At(r, "locked")
    /\ IF \E t \in targets : policy[t] = {}
       THEN Done(r, "rejected") /\ UnchangedStore
       ELSE /\ event' = [event EXCEPT ![r] =
                 [targets |-> targets, created |-> created, stored |-> now,
                  window |-> [t \in Targets |-> subscription[t].window]]]
            /\ delivery' = delivery \cup
                 UNION {{<<r, t, sink>> : sink \in policy[t]} : t \in targets}
            /\ queued' = queued \cup {<<r, t>> : t \in QueuedBy(r)}
            /\ dedup' = DedupAfter(r)
            /\ idempotency' = [idempotency EXCEPT ![KeyOf[r]] =
                 [event |-> r, expires |-> created + Idempotency, callback |-> CallbackJobs(r)]]
            /\ request' = [request EXCEPT ![r].pc = "stored"]
    /\ UnchangedSettings /\ UNCHANGED changes

(* Observers are told, best effort; then the answer. *)
Announce(r) ==
  /\ At(r, "stored") /\ Done(r, r)
  /\ UnchangedStore /\ UnchangedSettings /\ UNCHANGED changes

(* A store error, a lost answer to the commit, a client that has gone. *)
Fail(r) ==
  /\ request[r].pc \in {"find", "check", "begin", "locked", "stored"}
  /\ changes < MaxChanges /\ changes' = changes + 1
  /\ Done(r, "failed")
  /\ UnchangedStore /\ UnchangedSettings

-----------------------------------------------------------------------------
UnchangedByOperator == UnchangedStore /\ UNCHANGED <<now, request>>
Change == changes < MaxChanges /\ changes' = changes + 1

(* Updates and disabling of an application. *)
ChangePolicy(t) ==
  /\ Change /\ policy' \in {[policy EXCEPT ![t] = sinks] : sinks \in SUBSET Sinks}
  /\ UnchangedByOperator /\ UNCHANGED <<rules, draft, subscription>>

(* validateRule: the target is enabled now. *)
ValidateRule(t) ==
  /\ Change /\ draft = {} /\ policy[t] # {} /\ draft' = {t}
  /\ UnchangedByOperator /\ UNCHANGED <<policy, rules, subscription>>

CreateRoutingRule(new) == rules \cup new

StoreRule ==
  /\ draft # {} /\ rules' = CreateRoutingRule(draft) /\ draft' = {}
  /\ UnchangedByOperator /\ UNCHANGED <<policy, subscription, changes>>

(* The rule is disabled or deleted. *)
DeleteRoutingRule(t) == rules \ {t}

RemoveRule(t) ==
  /\ Change /\ t \in rules /\ rules' = DeleteRoutingRule(t)
  /\ UnchangedByOperator /\ UNCHANGED <<policy, draft, subscription>>

ChangeSubscription(t) ==
  /\ Change
  /\ \E open \in BOOLEAN, window \in Windows :
       subscription' = [subscription EXCEPT ![t] = [open |-> open, window |-> window]]
  /\ UnchangedByOperator /\ UNCHANGED <<policy, rules, draft>>

(* Nobody takes longer than Patience from the stamp to the commit. *)
Tick ==
  /\ now < Horizon /\ now' = now + 1
  /\ \A r \in Requests :
       request[r].pc \in {"begin", "locked"} => now < request[r].created + Patience
  /\ UnchangedStore /\ UNCHANGED <<policy, rules, draft, subscription, request, changes>>

PublishStep(r) ==
  \/ ResolveTargets(r) \/ FindPublication(r) \/ CheckTargets(r)
  \/ BeginPublish(r) \/ PublishEvent(r) \/ Announce(r)

Next ==
  \/ \E r \in Requests : PublishStep(r) \/ Fail(r)
  \/ \E t \in Targets : ChangePolicy(t) \/ ValidateRule(t) \/ RemoveRule(t) \/ ChangeSubscription(t)
  \/ StoreRule \/ Tick

Spec == Init /\ [][Next]_vars

-----------------------------------------------------------------------------
TypeOK ==
  /\ now \in Instants /\ policy \in [Targets -> SUBSET Sinks] /\ rules \subseteq Targets
  /\ subscription \in [Targets -> [open : BOOLEAN, window : Windows]]
  /\ \A r \in Requests : event[r] = None \/
       event[r] \in [targets : SUBSET Targets, created : Instants, stored : Instants,
                     window : [Targets -> Windows]]
  /\ delivery \subseteq Requests \X Targets \X Sinks /\ queued \subseteq Requests \X Targets

(* One event per key: a second one is stored only when the retention of    *)
(* the first one's answer is over, however requests with the key overlap.  *)
OneEventPerKey ==
  \A r, q \in Requests :
    r # q /\ KeyOf[r] = KeyOf[q] /\ event[r] # None /\ event[q] # None =>
      \/ event[q].stored >= event[r].created + Idempotency
      \/ event[r].stored >= event[q].created + Idempotency

(* Whoever is given an event as the answer to a key is given one that is   *)
(* stored, with deliveries for all its targets.                            *)
AnswersAreStored ==
  \A r \in Requests : request[r].answer \in Requests =>
    LET e == request[r].answer IN
      /\ event[e] # None /\ KeyOf[e] = KeyOf[r]
      /\ \A t \in event[e].targets : \E sink \in Sinks : <<e, t, sink>> \in delivery

(* The stored jobs announce a callback exactly where a callback delivery   *)
(* was stored, though the policy may have changed since it was first read. *)
JobsTellSinks ==
  \A k \in Keys : idempotency[k] # None =>
    \A t \in event[idempotency[k].event].targets :
      t \in idempotency[k].callback <=> <<idempotency[k].event, t, "callback">> \in delivery

(* Of two events with one deduplication key that reach a subscription, one *)
(* is stamped a window after the other, less the time a publisher may be   *)
(* late: keys are purged by the stamp of any later event, and a publisher  *)
(* that was overtaken misses them.                                         *)
Deduplicated ==
  \A r, q \in Requests, t \in Targets :
    /\ r # q /\ DedupOf[r] # None /\ DedupOf[r] = DedupOf[q]
    /\ <<r, t>> \in queued /\ <<q, t>> \in queued
    => LET Apart(e, f) ==
             \/ event[f].window[t] = 0
             \/ event[f].created >= event[e].created + event[e].window[t] - Patience
       IN Apart(r, q) \/ Apart(q, r)

(* A publication takes effect once, and as it is answered: requests with   *)
(* one idempotency key store one event while its answer is kept, within a  *)
(* window a deduplication key is queued once, and the stored answer        *)
(* announces the callbacks that were stored.                               *)
PublishedOnce ==
  TypeOK /\ OneEventPerKey /\ Deduplicated /\ AnswersAreStored /\ JobsTellSinks
=============================================================================
