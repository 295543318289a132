----------------------------- MODULE QueueWorker -----------------------------
(***************************************************************************)
(* The queue worker of the Go SDK (sdks/go/queue.go): a loop that pulls no *)
(* more deliveries than it has room for, one goroutine per delivery that   *)
(* runs the handler and settles its result, and beside it a heartbeat that *)
(* extends the lease.  An extension that is refused or fails takes the     *)
(* delivery away from its handler.  Drain stops the pulling and waits for  *)
(* the handlers, which go on under the parent's context.                   *)
(*                                                                         *)
(* The queue is external.  Every hand-out has a receipt of its own; a      *)
(* lease may end at any time, which covers any choice of visibility and    *)
(* heartbeat intervals and any delay of the goroutines.                    *)
(***************************************************************************)
EXTENDS Integers, FiniteSets

CONSTANTS
    Deliveries,     \* deliveries of the subscription
    MaxReceipts,    \* bounds the number of hand-outs
    Concurrency,
    BatchSize,
    None            \* no answer

Receipts == 1..MaxReceipts
Ready == 0
Settled == MaxReceipts + 1

VARIABLES
    queue,      \* external: per delivery Ready, Settled or the receipt that holds it
    issued,     \* external: the number of receipts handed out
    of,         \* external: per receipt the delivery it was handed out for
    parent,     \* whether the caller's context is live
    pulling,    \* whether the context of the pull is live
    loop,       \* the pulling loop: "top", "pull", "start", "wait" or "done"
    room,       \* the capacity that the loop has read
    batch,      \* receipts leased by the pull under way, or about to be started
    job,        \* per receipt the step of its goroutine
    beat,       \* per receipt the step of its heartbeat
    lost        \* receipts whose handler's context was cancelled by the heartbeat

vars == <<queue, issued, of, parent, pulling, loop, room, batch, job, beat, lost>>

Active == {r \in Receipts : job[r] \in {"handling", "stopping", "settling"}}

Init ==
    /\ queue = [d \in Deliveries |-> Ready]
    /\ issued = 0
    /\ of = [r \in Receipts |-> None]
    /\ parent = TRUE
    /\ pulling = TRUE
    /\ loop = "top"
    /\ room = 0
    /\ batch = {}
    /\ job = [r \in Receipts |-> "unused"]
    /\ beat = [r \in Receipts |-> "off"]
    /\ lost = {}

-----------------------------------------------------------------------------
(* The pulling loop. *)

\* Without room the loop looks again after 10 ms.  A drained loop ends here: without room it
\* waits for the context only, and a pull under an ended context fails before it is sent.
Capacity ==
    /\ loop = "top"
    /\ room' = Concurrency - Cardinality(Active)
    /\ loop' = IF ~pulling THEN "wait" ELSE IF room' > 0 THEN "pull" ELSE "top"
    /\ UNCHANGED <<queue, issued, of, parent, pulling, batch, job, beat, lost>>

\* The queue leases up to the requested number of deliveries to the pull under way.
Lease(D) ==
    /\ loop = "pull"
    /\ batch = {}
    /\ D # {}
    /\ \A d \in D : queue[d] = Ready
    /\ LET size == IF BatchSize < room THEN BatchSize ELSE room IN
           Cardinality(D) <= size
    /\ issued + Cardinality(D) <= MaxReceipts
    /\ \E f \in [D -> (issued + 1)..(issued + Cardinality(D))] :
          /\ \A c, d \in D : c # d => f[c] # f[d]
          /\ queue' = [d \in Deliveries |-> IF d \in D THEN f[d] ELSE queue[d]]
          /\ of' = [r \in Receipts |->
                       IF \E d \in D : f[d] = r THEN CHOOSE d \in D : f[d] = r ELSE of[r]]
          /\ batch' = {f[d] : d \in D}
    /\ issued' = issued + Cardinality(D)
    /\ UNCHANGED <<parent, pulling, loop, room, job, beat, lost>>

\* The answer of the pull arrives, even if the worker has been drained meanwhile.
PullReturns ==
    /\ loop = "pull"
    /\ loop' = IF batch = {} THEN "top" ELSE "start"
    /\ UNCHANGED <<queue, issued, of, parent, pulling, room, batch, job, beat, lost>>

\* The pull fails, by its context or by itself; what the queue has leased stays leased.
PullFails ==
    /\ loop = "pull"
    /\ batch' = {}
    /\ loop' = IF pulling THEN "top" ELSE "wait"
    /\ UNCHANGED <<queue, issued, of, parent, pulling, room, job, beat, lost>>

\* A delivery of the batch gets a slot of the semaphore, its goroutine and its heartbeat.
Start(r) ==
    /\ loop = "start"
    /\ r \in batch
    /\ Cardinality(Active) < Concurrency
    /\ job' = [job EXCEPT ![r] = "handling"]
    /\ beat' = [beat EXCEPT ![r] = "waiting"]
    /\ batch' = batch \ {r}
    /\ loop' = IF batch' = {} THEN "top" ELSE "start"
    /\ UNCHANGED <<queue, issued, of, parent, pulling, room, lost>>

\* active.Wait and close(done).
Wait ==
    /\ loop = "wait"
    /\ Active = {}
    /\ loop' = "done"
    /\ UNCHANGED <<queue, issued, of, parent, pulling, room, batch, job, beat, lost>>

\* Drain cancels the pull's context, the caller its own and with it that of the pull.
Drain ==
    /\ pulling
    /\ pulling' = FALSE
    /\ UNCHANGED <<queue, issued, of, parent, loop, room, batch, job, beat, lost>>

CancelParent ==
    /\ parent
    /\ parent' = FALSE
    /\ pulling' = FALSE
    /\ UNCHANGED <<queue, issued, of, loop, room, batch, job, beat, lost>>

-----------------------------------------------------------------------------
(* One delivery: handler and heartbeat. *)

\* The handler returns or panics, and the heartbeat is told to stop.
HandlerReturns(r) ==
    /\ job[r] = "handling"
    /\ job' = [job EXCEPT ![r] = "stopping"]
    /\ UNCHANGED <<queue, issued, of, parent, pulling, loop, room, batch, beat, lost>>

\* A tick of the heartbeat: the extension is sent.
Extend(r) ==
    /\ beat[r] = "waiting"
    /\ beat' = [beat EXCEPT ![r] = "extending"]
    /\ UNCHANGED <<queue, issued, of, parent, pulling, loop, room, batch, job, lost>>

\* The lease is still held and the answer arrives.
Extended(r) ==
    /\ beat[r] = "extending"
    /\ queue[of[r]] = r
    /\ beat' = [beat EXCEPT ![r] = "waiting"]
    /\ UNCHANGED <<queue, issued, of, parent, pulling, loop, room, batch, job, lost>>

\* The receipt is refused, or the call fails: the handler's context is cancelled.
Refused(r) ==
    /\ beat[r] = "extending"
    /\ lost' = lost \cup {r}
    /\ beat' = [beat EXCEPT ![r] = "off"]
    /\ UNCHANGED <<queue, issued, of, parent, pulling, loop, room, batch, job>>

\* The heartbeat ends between two ticks once it is told to, or with the parent's context.
BeatStops(r) ==
    /\ beat[r] = "waiting"
    /\ job[r] = "stopping" \/ ~parent
    /\ beat' = [beat EXCEPT ![r] = "off"]
    /\ UNCHANGED <<queue, issued, of, parent, pulling, loop, room, batch, job, lost>>

\* Mutant of Result: the heartbeat is told to stop but not waited for.
ResultEarly(r) ==
    /\ job[r] = "stopping"
    /\ job' = [job EXCEPT ![r] = IF parent /\ r \notin lost THEN "settling" ELSE "ended"]
    /\ UNCHANGED <<queue, issued, of, parent, pulling, loop, room, batch, beat, lost>>

\* After the heartbeat, the result is settled unless the handler's context has ended.
Result(r) ==
    /\ job[r] = "stopping"
    /\ beat[r] = "off"
    /\ job' = [job EXCEPT ![r] = IF parent /\ r \notin lost THEN "settling" ELSE "ended"]
    /\ UNCHANGED <<queue, issued, of, parent, pulling, loop, room, batch, beat, lost>>

\* The settlement: ACK and dead letter settle the delivery, a retry offers it again; a
\* receipt that no longer holds it changes nothing, and neither may a failed call.
Settle(r) ==
    /\ job[r] = "settling"
    /\ job' = [job EXCEPT ![r] = "ended"]
    /\ \/ queue[of[r]] = r /\ \E s \in {Settled, Ready} :
              queue' = [queue EXCEPT ![of[r]] = s]
       \/ UNCHANGED queue
    /\ UNCHANGED <<issued, of, parent, pulling, loop, room, batch, beat, lost>>

-----------------------------------------------------------------------------
\* External: a lease ends and the delivery is offered again.
LeaseEnds(d) ==
    /\ queue[d] \in Receipts
    /\ queue' = [queue EXCEPT ![d] = Ready]
    /\ UNCHANGED <<issued, of, parent, pulling, loop, room, batch, job, beat, lost>>

DeliveryStep(r) ==
    HandlerReturns(r) \/ Extended(r) \/ Refused(r) \/ BeatStops(r) \/ Result(r) \/ Settle(r)

LoopStep == Capacity \/ PullReturns \/ PullFails \/ (\E r \in Receipts : Start(r)) \/ Wait

Next ==
    \/ LoopStep
    \/ \E D \in SUBSET Deliveries : Lease(D)
    \/ \E r \in Receipts : DeliveryStep(r) \/ Extend(r)
    \/ \E d \in Deliveries : LeaseEnds(d)
    \/ Drain
    \/ CancelParent

Spec == Init /\ [][Next]_vars

\* The loop, and the goroutines of a delivery, its handler included, do not stop for ever.
\* A heartbeat that is told to stop does not for ever choose the tick of its timer instead:
\* ticks are at least a second apart.
FairSpec == Spec /\ WF_vars(LoopStep) /\ \A r \in Receipts :
    WF_vars(HandlerReturns(r)) /\ SF_vars(BeatStops(r)) /\ WF_vars(Extended(r) \/ Refused(r))
       /\ WF_vars(Result(r) \/ Settle(r))

-----------------------------------------------------------------------------
TypeOK ==
    /\ queue \in [Deliveries -> {Ready, Settled} \cup Receipts]
    /\ issued \in 0..MaxReceipts
    /\ of \in [Receipts -> Deliveries \cup {None}]
    /\ parent \in BOOLEAN /\ pulling \in BOOLEAN
    /\ loop \in {"top", "pull", "start", "wait", "done"}
    /\ room \in 0..Concurrency
    /\ batch \subseteq Receipts
    /\ job \in [Receipts -> {"unused", "handling", "stopping", "settling", "ended"}]
    /\ beat \in [Receipts -> {"off", "waiting", "extending"}]
    /\ lost \subseteq Receipts

\* What a drained worker has received is over: done is closed only after the last handler,
\* and every batch that reached the worker was started, since the pull never asks for more
\* than the semaphore has room for (QueueWorker.run).
DrainedIsIdle ==
    /\ loop = "done" => Active = {} /\ batch = {}
    /\ loop = "start" => Cardinality(Active) + Cardinality(batch) <= Concurrency

\* A result is not settled once an extension has failed: the goroutine waits for a heartbeat
\* that is under way before it looks at the handler's context (processQueueDelivery).
LostIsNotSettled == \A r \in lost : job[r] # "settling"

Drained == pulling \/ loop = "done"

\* A drained worker ends, whatever became of its leases and of the answers of the queue
\* (QueueWorker.Drain).
DrainEnds == []<>Drained
=============================================================================
