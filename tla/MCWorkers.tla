------------------------------ MODULE MCWorkers ------------------------------
(***************************************************************************)
(* The components whose progress matters most: what polls, retries, waits  *)
(* and stops.  The models share no state, so a behaviour moves one of      *)
(* them, which is chosen at the start, and leaves the others where they    *)
(* began.  Fairness is that of the components.                             *)
(***************************************************************************)
EXTENDS QueueCallbacks

VARIABLES
  which,
  subscription, delivery, recent, results, held, status, arrivals,
  backlog,
  now, accepting, schedule, enqueued, replica, editor, crashes,
  function, catalogue, row, call, hint, requests, replies, handler, owner, frame, sends, late,
  published, faults,
  session, subscribed, joined, record, entry, opener, reader, refresher, closer, due, told,
  failures,
  queue, issued, of, parent, pulling, loop, room, batch, job, beat, lost,
  cancelled, agent, connection, open, inbox, sent, drained, acked, gate, serverDraining,
  receiver, incoming, select, sending, draining, jobs, handlers, breaks,
  role, phase, opened, live, running, listener, service, request, stream, hub, outcome

queueVars == <<subscription, delivery, recent, results, held, status, arrivals>>
priorityVars == <<backlog>>
schedulerVars == <<now, accepting, schedule, enqueued, replica, editor, crashes>>
functionVars ==
  <<function, catalogue, row, call, hint, requests, replies, handler, owner, frame, sends, late,
    published, faults>>
presenceVars ==
  <<session, subscribed, joined, record, entry, opener, reader, refresher, closer, due, told,
    failures>>
workerVars == <<queue, issued, of, parent, pulling, loop, room, batch, job, beat, lost>>
agentVars ==
  <<cancelled, agent, connection, open, inbox, sent, drained, acked, gate, serverDraining,
    receiver, incoming, select, sending, draining, jobs, handlers, breaks>>
processVars ==
  <<role, phase, opened, live, running, listener, service, request, stream, hub, outcome>>

-----------------------------------------------------------------------------
(* An ordered subscription that leases one delivery at a time. *)
Ordered ==
  [maxAttempts |-> 2, visibility |-> 1, total |-> 2, inFlight |-> 1, batch |-> 2, retry |-> 1,
   rate |-> 1, ordered |-> TRUE, onSuccess |-> TRUE, onFailure |-> TRUE]

MCPolicies == {Ordered}
MCMessages == {1, 2}
MCKeyOf == [m \in MCMessages |-> "k"]
MCReceipts == {"r1", "r2"}
MCPerishable == {}

Q == INSTANCE Queue WITH
  Policies <- MCPolicies, MaxVersion <- 2, Messages <- MCMessages, KeyOf <- MCKeyOf,
  Receipts <- MCReceipts, MaxDelay <- 0, MaxGeneration <- 1, Perishable <- MCPerishable,
  reader <- status

MCSlots == {"a", "b", "c"}

P == INSTANCE QueuePriority WITH Slots <- MCSlots, Lowest <- 0, Ceiling <- 2, Step <- 2

MCSchedules == {"s1"}
MCReplicas == {"r1", "r2"}
MCPeriods == {1}

S == INSTANCE QueueScheduler WITH
  Schedules <- MCSchedules, Replicas <- MCReplicas, Periods <- MCPeriods, Horizon <- 3,
  ClaimTime <- 1, BatchSize <- 1, MaxVersion <- 2, MaxErrors <- 1, errors <- crashes

MCCalls == {"c1"}
MCGateways == {"g1"}
MCHandlers == {"h1"}
MCHome == [h \in MCHandlers |-> "g1"]
MCTimeouts == {2}

F == INSTANCE FunctionInvocations WITH
  Calls <- MCCalls, Gateways <- MCGateways, Sessions <- MCHandlers, Home <- MCHome,
  ClaimTimeout <- 1, Timeouts <- MCTimeouts, MaxPublishes <- 2, MaxFaults <- 0,
  editor <- catalogue, session <- owner

MCConnections == {"c1"}

R == INSTANCE RealtimePresence WITH
  Connections <- MCConnections, TTL <- 2, MaxFaults <- 1, faults <- failures

MCDeliveries == {"d1", "d2"}

W == INSTANCE QueueWorker WITH
  Deliveries <- MCDeliveries, MaxReceipts <- 2, Concurrency <- 2, BatchSize <- 2

MCJobs == {"d1"}

G == INSTANCE Agent WITH
  Deliveries <- MCJobs, MaxInFlight <- 1, MaxSessions <- 2, MaxFaults <- 0,
  session <- connection, wire <- inbox, reader <- receiver, loop <- select, worker <- handlers,
  faults <- breaks

(* The same with one session, which may break. *)
E == INSTANCE Agent WITH
  Deliveries <- MCJobs, MaxInFlight <- 1, MaxSessions <- 1, MaxFaults <- 1,
  session <- connection, wire <- inbox, reader <- receiver, loop <- select, worker <- handlers,
  faults <- breaks

MCServices == {"callbacks", "dispatcher", "scheduler", "results"}
MCRequests == {"q1", "q2"}

X == INSTANCE Process WITH Workers <- MCServices, Requests <- MCRequests, worker <- service

-----------------------------------------------------------------------------
Components ==
  {"queue", "priority", "callbacks", "scheduler", "functions", "presence", "sdk", "agent", "broken",
   "process"}

WorkersInit ==
  /\ which \in Components
  /\ Q!Init /\ P!Init /\ Init /\ S!Init /\ F!Init /\ R!Init /\ W!Init /\ X!Init
  /\ IF which = "broken" THEN E!Init ELSE G!Init
  /\ which # "queue" => subscription.enabled
  /\ which # "process" => role = "api"

(* The other components stay as they are. *)
Alone ==
  /\ UNCHANGED which
  /\ IF which = "queue" THEN TRUE ELSE UNCHANGED queueVars
  /\ IF which = "priority" THEN TRUE ELSE UNCHANGED priorityVars
  /\ IF which = "callbacks" THEN TRUE ELSE UNCHANGED vars
  /\ IF which = "scheduler" THEN TRUE ELSE UNCHANGED schedulerVars
  /\ IF which = "functions" THEN TRUE ELSE UNCHANGED functionVars
  /\ IF which = "presence" THEN TRUE ELSE UNCHANGED presenceVars
  /\ IF which = "sdk" THEN TRUE ELSE UNCHANGED workerVars
  /\ IF which \in {"agent", "broken"} THEN TRUE ELSE UNCHANGED agentVars
  /\ IF which = "process" THEN TRUE ELSE UNCHANGED processVars

WorkersNext ==
  /\ \/ which = "queue" /\ Q!Next
     \/ which = "priority" /\ P!Next
     \/ which = "callbacks" /\ Next
     \/ which = "scheduler" /\ S!Next
     \/ which = "functions" /\ F!Next
     \/ which = "presence" /\ R!Next
     \/ which = "sdk" /\ W!Next
     \/ which = "agent" /\ G!Next
     \/ which = "broken" /\ E!Next
     \/ which = "process" /\ X!Next
  /\ Alone

all ==
  <<which, queueVars, priorityVars, vars, schedulerVars, functionVars, presenceVars, workerVars,
    agentVars, processVars>>

(* Fairness is that of the components, in rows: as only one component      *)
(* moves, to be fair to the disjunction of steps of different components   *)
(* is to be fair to each of them.                                          *)
Clock ==
  \/ which = "queue" /\ Q!Tick
  \/ which = "priority" /\ P!Tick
  \/ which = "callbacks" /\ Tick
  \/ which = "scheduler" /\ S!Tick
  \/ which = "functions" /\ F!Tick
  \/ which = "presence" /\ R!Tick

Main ==
  \/ which = "queue" /\ Q!PullQueueDeliveries
  \/ which = "priority" /\ P!Pull
  \/ which = "functions" /\ \E c \in MCCalls : F!InvokeStep(c)
  \/ which = "presence" /\ \E c \in MCConnections : R!SessionStep(c)
  \/ which = "sdk" /\ W!LoopStep
  \/ which = "agent" /\ G!AgentStep
  \/ which = "broken" /\ E!AgentStep
  \/ which = "process" /\ X!MainStep

(* The i-th of several alike. *)
Helper(i) ==
  \/ which = "queue" /\ Q!DropReceipt(<<"r1", "r2">>[i])
  \/ which = "callbacks" /\ WorkerStep(<<"w1", "w2">>[i])
  \/ which = "scheduler" /\ S!Run(<<"r1", "r2">>[i])
  \/ which = "sdk" /\ W!HandlerReturns(i)
  \/ which = "agent" /\ ((i = 1 /\ G!ReaderStep) \/ (i = 2 /\ G!LoopStep))
  \/ which = "broken" /\ ((i = 1 /\ E!ReaderStep) \/ (i = 2 /\ E!LoopStep))
  \/ which = "process" /\ ~running /\ X!WorkerEnds(<<"callbacks", "dispatcher">>[i])

OtherHelper(i) ==
  \/ which = "sdk" /\ (W!Extended(i) \/ W!Refused(i))
  \/ which = "agent" /\ ((i = 1 /\ G!Watch) \/ (i = 2 /\ G!DrainDeadline))
  \/ which = "broken" /\ ((i = 1 /\ E!Watch) \/ (i = 2 /\ E!DrainDeadline))
  \/ which = "process" /\ ~running /\ X!WorkerEnds(<<"scheduler", "results">>[i])

Settling(i) == which = "sdk" /\ (W!Result(i) \/ W!Settle(i))

(* What must not come too late for ever. *)
InTime(i) ==
  \/ which = "scheduler" /\ S!CompleteInTime(<<"r1", "r2">>[i])
  \/ which = "sdk" /\ W!BeatStops(i)

moving ==
  CASE which = "queue"     -> queueVars
    [] which = "priority"  -> priorityVars
    [] which = "callbacks" -> vars
    [] which = "scheduler" -> schedulerVars
    [] which = "functions" -> functionVars
    [] which = "presence"  -> presenceVars
    [] which = "sdk"       -> workerVars
    [] which = "process"   -> processVars
    [] OTHER               -> agentVars

Fairness ==
  /\ WF_moving(Clock /\ UNCHANGED which) /\ WF_moving(Main /\ UNCHANGED which)
  /\ \A i \in 1..2 : /\ WF_moving(Helper(i) /\ UNCHANGED which)
                     /\ WF_moving(OtherHelper(i) /\ UNCHANGED which)
                     /\ WF_moving(Settling(i) /\ UNCHANGED which)
                     /\ SF_moving(InTime(i) /\ UNCHANGED which)

WorkersSpec == WorkersInit /\ [][WorkersNext]_all /\ Fairness

-----------------------------------------------------------------------------
(* While the subscription stays open, every delivery of the queue is       *)
(* settled in the end.                                                     *)
EventuallySettled == Q!EventuallySettled

(* A delivery of the lowest priority is handed out in the end, although    *)
(* publishers of higher ones never stop.                                   *)
NeverStarved == P!NeverStarved

(* Every stored result is reported or given up in the end, by calls that   *)
(* are limited, come one after the other and end with the stored outcome.  *)
ResultsReported ==
  [](TypeOK /\ CallsBounded /\ CallsDoNotOverlap /\ StoredOutcomeIsFinal) /\ EventuallyReported

(* Every instant of a cron expression is enqueued once and none is         *)
(* skipped, whatever replicas and updates do, and a schedule that is due   *)
(* is run in the end.                                                      *)
SchedulesRun ==
  [](which = "scheduler" => S!TypeOK /\ S!EachRunOnce /\ S!NoneSkipped) /\ S!DueIsRun

(* Invoke returns, though every hint may be lost. *)
InvokeReturns == F!InvokeReturns

(* What a closed connection has left behind disappears in the end. *)
ClosedLeavesNothing == R!ClosedLeavesNothing

(* Whatever is told to stop does: a queue worker that is drained, an agent *)
(* that is cancelled or told to drain, and a server process.  As only one  *)
(* of them moves, it is enough that all three are infinitely often where   *)
(* they should be.                                                         *)
StoppingEnds ==
  []<>(W!Drained /\ G!Stopped /\ X!Stopped)

(* What comes late is dropped: a worker does not settle a delivery whose   *)
(* lease it failed to extend, and an agent admits no handler of a session  *)
(* that is over, nor ends a session before its handlers.                   *)
LateWorkIsDropped ==
  /\ [](which = "sdk" => W!TypeOK /\ W!LostIsNotSettled /\ W!DrainedIsIdle)
  /\ [](which = "agent" => G!TypeOK)
  /\ [][which = "agent" => G!AdmitsInSession /\ G!LeavesDrained]_agentVars

(* A process closes its stores only when nothing uses them any more. *)
StoresOutliveUse == X!TypeOK /\ X!StoresOutliveUse
=============================================================================
