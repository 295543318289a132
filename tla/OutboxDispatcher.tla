-------------------------- MODULE OutboxDispatcher --------------------------
(***************************************************************************)
(* outbox/dispatcher.go: concurrent dispatchers move outbox rows into the  *)
(* stream.  A dispatcher claims a batch under one random token and handles *)
(* its messages one by one: begin (counts the attempt), publish, settle.   *)
(* Every step is a transaction or a broker call of its own, so a stalled   *)
(* dispatcher may find its claim taken over between any two of them.       *)
(*                                                                         *)
(* The message a dispatcher publishes is the one it claimed: the pair of   *)
(* delivery and generation in its batch, whatever the row says by then.    *)
(***************************************************************************)
EXTENDS DeliveryStore, JetStream

CONSTANTS
  Dispatchers,  \* dispatcher processes
  BatchSize,    \* rows per claim
  RetryDelay,   \* delay after each failed attempt: see RetryPolicy
  MaxCrashes    \* bound: dispatcher crashes and store errors

ASSUME BatchSizeAssumption == BatchSize \in Nat \ {0}
ASSUME RetryDelayAssumption == RetryDelay \in [1..MaxAttempts -> 0..MaxRetry]
ASSUME MaxCrashesAssumption == MaxCrashes \in Nat
ASSUME IdsAssumption == Ids = MessageIds /\ None \notin MessageIds

VARIABLES
  dispatcher,  \* local state of every dispatcher
  publishes,   \* history: broker calls per message id and counted attempt
  crashes      \* crashes so far

dispatcherVars == <<dispatcher, publishes, crashes>>

(* "next": the loop over the claimed batch; "publish": begun, about to     *)
(* call the broker; "mark", "settle": the broker answered, or did not.     *)
Idle == [pc |-> "idle", token |-> None, batch |-> {}, current |-> None, attempt |-> 0]
DispatcherStates ==
  [pc : {"idle", "next", "publish", "mark", "settle"}, token : ClaimTokens \cup {None},
   batch : SUBSET MessageIds, current : MessageIds \cup {None}, attempt : 0..MaxAttempts]

DispatcherTypeOK ==
  /\ dispatcher \in [Dispatchers -> DispatcherStates]
  /\ publishes \in [MessageIds \X (1..MaxAttempts) -> Nat]
  /\ crashes \in 0..MaxCrashes

DispatcherInit ==
  /\ dispatcher = [w \in Dispatchers |-> Idle]
  /\ publishes = [call \in MessageIds \X (1..MaxAttempts) |-> 0]
  /\ crashes = 0

(* A random token is one that no row and no dispatcher refers to. *)
FreshClaimTokens ==
  ClaimTokens \ ({outbox[d].claim : d \in Deliveries} \cup {dispatcher[w].token : w \in Dispatchers})

\* mutant of Claimable: live claims too
ClaimableTooEarly(d) == outbox[d].state = "open" /\ outbox[d].availableIn = 0

Claimable(d) ==
  /\ outbox[d].state = "open"
  /\ outbox[d].availableIn = 0
  /\ outbox[d].claim = None \/ outbox[d].age >= ClaimTTL

(* Rows locked by another transaction are skipped, so any batch of         *)
(* claimable rows up to the limit may be the result.                       *)
ClaimOutbox(w) ==
  /\ dispatcher[w].pc = "idle"
  /\ \E token \in FreshClaimTokens, claimed \in SUBSET {d \in Deliveries : Claimable(d)} :
       /\ claimed # {} /\ Cardinality(claimed) <= BatchSize
       /\ outbox' = [d \in Deliveries |->
            IF d \in claimed THEN [outbox[d] EXCEPT !.claim = token, !.age = 0] ELSE outbox[d]]
       /\ dispatcher' = [dispatcher EXCEPT ![w] =
            [Idle EXCEPT !.pc = "next", !.token = token,
                         !.batch = {<<d, outbox[d].generation>> : d \in claimed}]]
  /\ UNCHANGED <<row, assignment, callback, publishes, crashes, streamVars>>

(* The claim still stands: the condition of every fenced outbox statement. *)
Owns(w, d) == outbox[d].claim = dispatcher[w].token /\ outbox[d].state = "open"

(* The loop of RunOnce continues with the rest of the batch, if any. *)
AfterItem(w, rest) ==
  IF rest = {} THEN Idle
  ELSE [dispatcher[w] EXCEPT !.pc = "next", !.batch = rest, !.current = None, !.attempt = 0]

Continue(w, rest) == dispatcher' = [dispatcher EXCEPT ![w] = AfterItem(w, rest)]

(* RunOnce returns: the rest of the batch stays claimed until it is stale. *)
Abandon(w) == dispatcher' = [dispatcher EXCEPT ![w] = Idle]

(* The outbox gives up on a delivery, unless the receiver acknowledged it. *)
DeadLetterUnlessAcked(d) ==
  IF row[d].status = "acked" THEN UNCHANGED <<row, assignment>>
  ELSE /\ row' = [row EXCEPT ![d].status = "dead_letter"]
       /\ assignment' = [assignment EXCEPT ![d] =
            [@ EXCEPT !.conn = None, !.token = None, !.expiresIn = 0]]

\* mutant of SetStatusUnlessFinal: the status is always written
SetStatusAlways(d, status) == row' = [row EXCEPT ![d].status = status]

(* Status changes by the outbox leave acknowledged and dead letters alone. *)
SetStatusUnlessFinal(d, status) ==
  row' = [row EXCEPT ![d].status = IF @ \in {"acked", "dead_letter"} THEN @ ELSE status]

Exhausted(d) == outbox[d].attempts >= MaxAttempts

\* mutant of CountAttempt: the attempt is not written
CountNothing(d) == UNCHANGED outbox

(* The attempt is counted before the broker is called. *)
CountAttempt(d) == outbox' = [outbox EXCEPT ![d].attempts = @ + 1]

Begun(w, id) ==
  [dispatcher[w] EXCEPT !.pc = "publish", !.batch = @ \ {id}, !.current = id,
                        !.attempt = outbox[id[1]].attempts + 1]

BeginOutboxPublish(w) ==
  /\ dispatcher[w].pc = "next"
  /\ \E id \in dispatcher[w].batch : LET d == id[1] IN
       \/ /\ ~Owns(w, d)
          /\ Abandon(w)
          /\ UNCHANGED <<row, assignment, outbox>>
       \/ /\ Owns(w, d)
          /\ Exhausted(d)
          /\ outbox' = [outbox EXCEPT ![d] =
               [@ EXCEPT !.state = "failed", !.claim = None, !.age = 0]]
          /\ DeadLetterUnlessAcked(d)
          /\ Continue(w, dispatcher[w].batch \ {id})
       \/ /\ Owns(w, d)
          /\ ~Exhausted(d)
          /\ CountAttempt(d)
          /\ dispatcher' = [dispatcher EXCEPT ![w] = Begun(w, id)]
          /\ UNCHANGED <<row, assignment>>
  /\ UNCHANGED <<callback, publishes, crashes, streamVars>>

(* The broker call: accepted and answered, accepted with the answer lost,  *)
(* or not accepted.                                                        *)
Publish(w) ==
  /\ dispatcher[w].pc = "publish"
  /\ publishes' = [publishes EXCEPT ![<<dispatcher[w].current, dispatcher[w].attempt>>] = @ + 1]
  /\ \/ /\ Accept(dispatcher[w].current)
        /\ \E pc \in {"mark", "settle"} : dispatcher' = [dispatcher EXCEPT ![w].pc = pc]
     \/ /\ dispatcher' = [dispatcher EXCEPT ![w].pc = "settle"]
        /\ UNCHANGED streamVars
  /\ UNCHANGED <<storeVars, crashes>>

(* A row that somebody else has marked already counts as marked. *)
MarkOutboxDispatched(w) ==
  /\ dispatcher[w].pc = "mark"
  /\ LET d == dispatcher[w].current[1] IN
       \/ /\ Owns(w, d)
          /\ outbox' = [outbox EXCEPT ![d] =
               [@ EXCEPT !.state = "dispatched", !.claim = None, !.age = 0]]
          /\ SetStatusUnlessFinal(d, "dispatched")
          /\ Continue(w, dispatcher[w].batch)
       \/ /\ ~Owns(w, d)
          /\ IF outbox[d].state = "dispatched" THEN Continue(w, dispatcher[w].batch) ELSE Abandon(w)
          /\ UNCHANGED <<row, outbox>>
  /\ UNCHANGED <<assignment, callback, publishes, crashes, streamVars>>

(* The delay counts from the instant the batch was claimed. *)
RetryOutbox(w) ==
  /\ dispatcher[w].pc = "settle"
  /\ dispatcher[w].attempt < MaxAttempts
  /\ LET d == dispatcher[w].current[1]
         delay == RetryDelay[dispatcher[w].attempt] IN
       \/ /\ Owns(w, d)
          /\ outbox' = [outbox EXCEPT ![d] =
               [@ EXCEPT !.claim = None, !.age = 0,
                         !.availableIn = IF delay > outbox[d].age THEN delay - outbox[d].age ELSE 0]]
          /\ SetStatusUnlessFinal(d, "retrying")
          /\ Continue(w, dispatcher[w].batch)
       \/ /\ ~Owns(w, d)
          /\ Abandon(w)
          /\ UNCHANGED <<row, outbox>>
  /\ UNCHANGED <<assignment, callback, publishes, crashes, streamVars>>

FailOutbox(w) ==
  /\ dispatcher[w].pc = "settle"
  /\ dispatcher[w].attempt >= MaxAttempts
  /\ LET d == dispatcher[w].current[1] IN
       \/ /\ Owns(w, d)
          /\ outbox' = [outbox EXCEPT ![d] =
               [@ EXCEPT !.state = "failed", !.claim = None, !.age = 0]]
          /\ DeadLetterUnlessAcked(d)
          /\ Continue(w, dispatcher[w].batch)
       \/ /\ ~Owns(w, d)
          /\ Abandon(w)
          /\ UNCHANGED <<row, assignment, outbox>>
  /\ UNCHANGED <<callback, publishes, crashes, streamVars>>

(* The process dies, or a store call fails, before or after its commit:    *)
(* either way RunOnce forgets the batch.                                   *)
Crash(w) ==
  /\ crashes < MaxCrashes
  /\ dispatcher[w].pc # "idle"
  /\ crashes' = crashes + 1
  /\ Abandon(w)
  /\ UNCHANGED <<storeVars, publishes, streamVars>>

(* What RunOnce does once it holds a batch. *)
DispatcherStep(w) ==
  \/ BeginOutboxPublish(w)
  \/ Publish(w)
  \/ MarkOutboxDispatched(w)
  \/ RetryOutbox(w)
  \/ FailOutbox(w)

-----------------------------------------------------------------------------
(* What a dispatcher promises, whoever else works on the deliveries, and   *)
(* the inductive invariant behind it.                                      *)

PathTypeOK == StoreTypeOK /\ StreamTypeOK /\ DispatcherTypeOK

(* A row is marked dispatched only for a message the stream has accepted:  *)
(* the mark of a dispatcher that published an older generation never       *)
(* lands on the row of a newer one.                                        *)
DispatchedIsStored ==
  \A d \in Deliveries :
    outbox[d].state = "dispatched" => Stored(<<d, outbox[d].generation>>)

(* The attempt counted by BeginOutboxPublish licenses one broker call: no  *)
(* takeover of a stale claim repeats it, so one generation makes at most   *)
(* MaxAttempts calls.                                                      *)
OneCallPerAttempt ==
  \A call \in MessageIds \X (1..MaxAttempts) : publishes[call] <= 1

InCall == {"publish", "mark", "settle"}
Holds(w, id) == id \in dispatcher[w].batch \/ id = dispatcher[w].current

(* What the local variables of RunOnce hold at each point of its loop. *)
LoopState ==
  \A w \in Dispatchers :
    /\ dispatcher[w].pc = "idle" => dispatcher[w] = Idle
    /\ dispatcher[w].pc # "idle" => dispatcher[w].token # None
    /\ dispatcher[w].pc = "next" => dispatcher[w].current = None
    /\ dispatcher[w].pc \in InCall =>
         dispatcher[w].current \in MessageIds /\ dispatcher[w].attempt \in 1..MaxAttempts

(* Random tokens do not collide. *)
TokensDistinct ==
  \A v, w \in Dispatchers :
    v # w /\ dispatcher[v].token # None => dispatcher[v].token # dispatcher[w].token

(* A standing claim is a claim on the generation that the dispatcher read. *)
ClaimsAreCurrent ==
  \A w \in Dispatchers, id \in MessageIds :
    Holds(w, id) =>
      /\ id[2] <= outbox[id[1]].generation
      /\ outbox[id[1]].claim = dispatcher[w].token => id[2] = outbox[id[1]].generation

(* While the claim stands nobody else counts attempts on the row. *)
AttemptIsCurrent ==
  \A w \in Dispatchers :
    dispatcher[w].pc \in InCall =>
      LET d == dispatcher[w].current[1] IN
        /\ outbox[d].claim = dispatcher[w].token => outbox[d].attempts = dispatcher[w].attempt
        /\ outbox[d].generation = dispatcher[w].current[2] =>
             dispatcher[w].attempt <= outbox[d].attempts

(* An id the stream calls a duplicate has been stored. *)
WindowIsStored == \A id \in window : Stored(id)

MarkIsStored ==
  \A w \in Dispatchers : dispatcher[w].pc = "mark" => Stored(dispatcher[w].current)

(* The call a dispatcher is about to make has not been made, and no other  *)
(* dispatcher is about to make it.                                         *)
CallIsNew ==
  \A w \in Dispatchers : dispatcher[w].pc = "publish" =>
    /\ publishes[<<dispatcher[w].current, dispatcher[w].attempt>>] = 0
    /\ \A v \in Dispatchers \ {w} :
         dispatcher[v].pc = "publish" /\ dispatcher[v].current = dispatcher[w].current =>
           dispatcher[v].attempt # dispatcher[w].attempt

(* Attempts not counted yet have made no call. *)
NoCallAhead ==
  \A id \in MessageIds, n \in 1..MaxAttempts :
    LET o == outbox[id[1]] IN
      (id[2] > o.generation \/ (id[2] = o.generation /\ n > o.attempts))
        => publishes[<<id, n>>] = 0

DispatchInv ==
  /\ PathTypeOK
  /\ LoopState /\ TokensDistinct /\ ClaimsAreCurrent /\ AttemptIsCurrent
  /\ WindowIsStored /\ MarkIsStored /\ CallIsNew /\ NoCallAhead
  /\ DispatchedIsStored /\ OneCallPerAttempt
=============================================================================
