------------------------------- MODULE Process -------------------------------
(***************************************************************************)
(* One RelayHub process (cmd/relayhub/main.go), as API server or as        *)
(* worker: it opens what it depends on one by one, runs its goroutines     *)
(* until a signal, a failing listener or a failing worker ends it, and     *)
(* closes everything in reverse order.  A worker process waits for its     *)
(* four workers without limit if it was asked to stop, and not at all if   *)
(* one of them failed; an API process gives its stream sessions and its    *)
(* requests a time limit each.                                             *)
(***************************************************************************)
EXTENDS Integers, Sequences

CONSTANTS
    Workers,    \* callbacks, dispatcher, scheduler and queue callbacks
    Requests    \* HTTP requests in progress at once

VARIABLES
    role,       \* "api" or "worker"
    phase,      \* "start", "serve", "drain", "close hub", "shutdown", "unwind" or "exited"
    opened,     \* what has been opened, in order
    live,       \* the context of the signals is live
    running,    \* the context of the workers is live
    listener,   \* the HTTP listener: "off", "on" or "failed"
    worker,     \* per worker "off", "on", its result in the channel, or "collected"
    request,    \* per request slot whether its handler runs
    stream,     \* whether stream sessions are open
    hub,        \* the hub: "off", "on" or "closed"
    outcome     \* "clean", or why the process gives up waiting

vars == <<role, phase, opened, live, running, listener, worker, request, stream, hub, outcome>>

\* The dependencies in the order of their opening.
Dependencies ==
    <<"redis", "recorder", "nats", "postgres", "hub", "bridge", "runtime">>
       \o IF role = "api" THEN <<"stream", "dashboard">> ELSE <<>>

\* The metrics recorder, the bridge and both heartbeats end with the context of the signals,
\* long before their deferred calls: a request that is still served has no bridge.
EndWithSignal == {"recorder", "bridge", "runtime", "dashboard"}

Usable(d) ==
    /\ \E i \in 1..Len(opened) : opened[i] = d
    /\ d \in EndWithSignal => live
    /\ d = "hub" => hub = "on"

Init ==
    /\ role \in {"api", "worker"}
    /\ phase = "start"
    /\ opened = <<>>
    /\ live = TRUE /\ running = TRUE
    /\ listener = "off"
    /\ worker = [w \in Workers |-> "off"]
    /\ request = [r \in Requests |-> FALSE]
    /\ stream = FALSE
    /\ hub = "off"
    /\ outcome = "clean"

-----------------------------------------------------------------------------
(* Start. *)

Open ==
    /\ phase = "start"
    /\ Len(opened) < Len(Dependencies)
    /\ opened' = Append(opened, Dependencies[Len(opened) + 1])
    /\ hub' = IF Dependencies[Len(opened) + 1] = "hub" THEN "on" ELSE hub
    /\ UNCHANGED <<role, phase, live, running, listener, worker, request, stream, outcome>>

\* Any step of the start may fail; what is open is closed.
OpenFails ==
    /\ phase = "start"
    /\ phase' = "unwind"
    /\ outcome' = "start failed"
    /\ UNCHANGED <<role, opened, live, running, listener, worker, request, stream, hub>>

Serve ==
    /\ phase = "start"
    /\ Len(opened) = Len(Dependencies)
    /\ phase' = "serve"
    /\ listener' = "on"
    /\ worker' = IF role = "worker" THEN [w \in Workers |-> "on"] ELSE worker
    /\ UNCHANGED <<role, opened, live, running, request, stream, hub, outcome>>

-----------------------------------------------------------------------------
(* What runs. *)

Signal ==
    /\ live
    /\ phase # "exited"
    /\ live' = FALSE
    /\ running' = FALSE
    /\ UNCHANGED <<role, phase, opened, listener, worker, request, stream, hub, outcome>>

\* The listener fails; a worker process cancels its workers.
ListenerFails ==
    /\ phase = "serve" /\ listener = "on"
    /\ listener' = "failed"
    /\ running' = IF role = "worker" THEN FALSE ELSE running
    /\ UNCHANGED <<role, phase, opened, live, worker, request, stream, hub, outcome>>

\* A worker returns once its context has ended, or fails before.
WorkerEnds(w) ==
    /\ worker[w] = "on"
    /\ worker' = [worker EXCEPT ![w] = IF running THEN "failed" ELSE "done"]
    /\ UNCHANGED <<role, phase, opened, live, running, listener, request, stream, hub, outcome>>

RequestBegins(r) ==
    /\ role = "api" /\ listener = "on" /\ ~request[r]
    /\ request' = [request EXCEPT ![r] = TRUE]
    /\ UNCHANGED <<role, phase, opened, live, running, listener, worker, stream, hub, outcome>>

RequestEnds(r) ==
    /\ request[r]
    /\ request' = [request EXCEPT ![r] = FALSE]
    /\ UNCHANGED <<role, phase, opened, live, running, listener, worker, stream, hub, outcome>>

\* A request becomes a stream session, which a gateway that drains refuses.
Upgrade(r) ==
    /\ request[r]
    /\ phase = "serve"
    /\ request' = [request EXCEPT ![r] = FALSE]
    /\ stream' = TRUE
    /\ UNCHANGED <<role, phase, opened, live, running, listener, worker, hub, outcome>>

StreamEnds ==
    /\ stream
    /\ stream' = FALSE
    /\ UNCHANGED <<role, phase, opened, live, running, listener, worker, request, hub, outcome>>

-----------------------------------------------------------------------------
(* The worker's end: combinedWorker.Run and runWorker. *)

\* Run gives up at the first error unless it was asked to stop.
GivesUp(w) == running /\ worker[w] = "failed"

Collect(w) ==
    /\ role = "worker" /\ phase = "serve"
    /\ worker[w] \in {"done", "failed"}
    /\ worker' = [worker EXCEPT ![w] = "collected"]
    /\ IF GivesUp(w) THEN phase' = "shutdown" /\ outcome' = "worker failed" /\ running' = FALSE
       ELSE /\ phase' = IF \A v \in Workers \ {w} : worker[v] = "collected" THEN "shutdown" ELSE phase
            /\ UNCHANGED <<outcome, running>>
    /\ UNCHANGED <<role, opened, live, listener, request, stream, hub>>

\* The operations listener of a worker has no long requests.
ShutdownWorker ==
    /\ role = "worker" /\ phase = "shutdown"
    /\ listener' = "off"
    /\ phase' = "unwind"
    /\ UNCHANGED <<role, opened, live, running, worker, request, stream, hub, outcome>>

-----------------------------------------------------------------------------
(* The API's end: serveAPI. *)

ServeFails ==
    /\ role = "api" /\ phase = "serve" /\ listener = "failed"
    /\ phase' = "unwind"
    /\ outcome' = "listener failed"
    /\ UNCHANGED <<role, opened, live, running, listener, worker, request, stream, hub>>

Stop ==
    /\ role = "api" /\ phase = "serve" /\ ~live
    /\ phase' = "drain"
    /\ UNCHANGED <<role, opened, live, running, listener, worker, request, stream, hub, outcome>>

\* The gateway waits for its sessions; if they do not end, the time limit passes.
DrainStream ==
    /\ phase = "drain"
    /\ phase' = "close hub"
    /\ outcome' = IF stream THEN "timed out" ELSE outcome
    /\ UNCHANGED <<role, opened, live, running, listener, worker, request, stream, hub>>

CloseHub ==
    /\ phase = "close hub"
    /\ hub' = "closed"
    /\ phase' = "shutdown"
    /\ UNCHANGED <<role, opened, live, running, listener, worker, request, stream, outcome>>

\* Shutdown stops accepting at once and waits for the requests, or for its time limit.
Shutdown ==
    /\ role = "api" /\ phase = "shutdown" /\ listener # "off"
    /\ listener' = "off"
    /\ UNCHANGED <<role, phase, opened, live, running, worker, request, stream, hub, outcome>>

Idle == \A r \in Requests : ~request[r]

\* Mutant of ShutdownEnds: serveAPI returns when the listener does, not when Shutdown does.
ShutdownEndsAtOnce ==
    /\ role = "api" /\ phase = "shutdown" /\ listener = "off"
    /\ phase' = "unwind"
    /\ UNCHANGED <<role, opened, live, running, listener, worker, request, stream, hub, outcome>>

ShutdownEnds ==
    /\ role = "api" /\ phase = "shutdown" /\ listener = "off"
    /\ phase' = "unwind"
    /\ outcome' = IF Idle THEN outcome ELSE "timed out"
    /\ UNCHANGED <<role, opened, live, running, listener, worker, request, stream, hub>>

-----------------------------------------------------------------------------
(* The deferred calls, last opened first. *)

\* A stream gateway that still has sessions waits for its time limit; nothing else waits for
\* the goroutines above, and what they use may be closed under them.
Close ==
    /\ phase = "unwind" /\ opened # <<>>
    /\ hub' = IF opened[Len(opened)] = "hub" THEN "closed" ELSE hub
    /\ opened' = SubSeq(opened, 1, Len(opened) - 1)
    /\ UNCHANGED <<role, phase, live, running, listener, worker, request, stream, outcome>>

Exit ==
    /\ phase = "unwind" /\ opened = <<>>
    /\ phase' = "exited"
    /\ worker' = [w \in Workers |-> "off"]
    /\ request' = [r \in Requests |-> FALSE]
    /\ stream' = FALSE
    /\ UNCHANGED <<role, opened, live, running, listener, hub, outcome>>

-----------------------------------------------------------------------------
MainStep ==
    \/ Open \/ OpenFails \/ Serve \/ ShutdownWorker \/ ServeFails \/ Stop \/ DrainStream
    \/ CloseHub \/ Shutdown \/ ShutdownEnds \/ Close \/ Exit
    \/ \E w \in Workers : Collect(w)

Next ==
    \/ MainStep
    \/ Signal \/ ListenerFails \/ StreamEnds
    \/ \E w \in Workers : WorkerEnds(w)
    \/ \E r \in Requests : RequestBegins(r) \/ RequestEnds(r) \/ Upgrade(r)

Spec == Init /\ [][Next]_vars

\* The main goroutine goes on, and a worker whose context has ended returns.  Requests and
\* stream sessions may last for ever.
FairSpec == Spec /\ WF_vars(MainStep) /\ \A w \in Workers : WF_vars(~running /\ WorkerEnds(w))

-----------------------------------------------------------------------------
TypeOK ==
    /\ role \in {"api", "worker"}
    /\ phase \in {"start", "serve", "drain", "close hub", "shutdown", "unwind", "exited"}
    /\ opened = SubSeq(Dependencies, 1, Len(opened))
    /\ live \in BOOLEAN /\ running \in BOOLEAN /\ stream \in BOOLEAN
    /\ listener \in {"off", "on", "failed"}
    /\ worker \in [Workers -> {"off", "on", "failed", "done", "collected"}]
    /\ request \in [Requests -> BOOLEAN]
    /\ hub \in {"off", "on", "closed"}
    /\ outcome \in {"clean", "start failed", "worker failed", "listener failed", "timed out"}

\* The stores and the broker stay open while they are used: they are not closed under a
\* worker, a request or a stream session, unless a worker or the listener has failed or a time
\* limit has passed (combinedWorker.Run, runWorker, serveAPI and the deferred calls).  A worker
\* is over when its Run has returned; the callback worker limits the time of the attempts that
\* are then in progress by itself.
StoresOutliveUse ==
    outcome = "clean" /\ ((\E w \in Workers : worker[w] = "on") \/ (\E r \in Requests : request[r])
                              \/ stream)
       => \A d \in {"redis", "nats", "postgres"} : Usable(d)

Stopped == live \/ phase = "exited"

\* A process that is told to stop exits, even if a request or a stream session never ends.
StopExits == []<>Stopped
=============================================================================
