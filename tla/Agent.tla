-------------------------------- MODULE Agent --------------------------------
(***************************************************************************)
(* RunAgent of the second Go SDK (sdks/remake/go/agent.go): it connects,   *)
(* runs one session after the other and backs off between them.  In a      *)
(* session a reader goroutine hands frames to the session's loop, every    *)
(* delivery has a worker goroutine that must pass the admission gate       *)
(* before it calls the handler, and the loop settles what the handlers     *)
(* return.  Cancellation of the context and a Drain frame of the server    *)
(* close the gate from outside the loop; each has a deadline at which the  *)
(* socket is closed under it.  Workers may outlive their session.          *)
(*                                                                         *)
(* The gateway at the other end is external: it sends deliveries within    *)
(* the window the agent has announced, at most one Drain per session, and  *)
(* may close the connection or send something else.                        *)
(***************************************************************************)
EXTENDS Integers, Sequences, FiniteSets

CONSTANTS
    Deliveries,
    None,           \* nothing is being sent
    MaxInFlight,
    MaxSessions,    \* bounds the reconnections
    MaxFaults       \* bounds closed connections and unexpected frames

Sessions == 1..MaxSessions

VARIABLES
    cancelled,  \* the caller has cancelled the context
    agent,      \* RunAgent: "connect", "session", "backoff", or what it has returned
    session,    \* the number of the last session
    open,       \* whether the socket is open
    wire,       \* frames that the agent has not read
    sent,       \* external: deliveries sent in this session
    drained,    \* external: the server has sent Drain in this session
    acked,      \* external: deliveries settled
    gate,       \* per session: admissionOpen
    serverDraining,
    reader,     \* the reader goroutine: "off", "reading", "store", or the frame it offers
    incoming,   \* the channel from the reader to the loop
    loop,       \* "top", "select", "send", "leave" or "off"
    sending,    \* what the loop is sending
    draining,
    jobs,
    worker,     \* per session and delivery the step of the worker
    faults

gateway == <<wire, sent, drained, acked>>
local == <<reader, incoming, loop, sending, draining, jobs>>
vars == <<cancelled, agent, session, open, gateway, gate, serverDraining, local, worker, faults>>

Running == agent = "session"
Returned == agent \in {"returned ctx.Err", "returned nil", "returned error"}

Init ==
    /\ cancelled = FALSE
    /\ agent = "connect"
    /\ session = 0
    /\ open = FALSE
    /\ wire = <<>> /\ sent = {} /\ drained = FALSE /\ acked = {}
    /\ gate = [s \in Sessions |-> FALSE]
    /\ serverDraining = FALSE
    /\ reader = "off" /\ incoming = <<>>
    /\ loop = "off" /\ sending = None /\ draining = FALSE /\ jobs = {}
    /\ worker = [s \in Sessions |-> [d \in Deliveries |-> "none"]]
    /\ faults = 0

-----------------------------------------------------------------------------
(* RunAgent. *)

\* A connection: the session begins with its Hello on the way.
Connect ==
    /\ agent = "connect"
    /\ ~cancelled
    /\ session < MaxSessions
    /\ session' = session + 1
    /\ agent' = "session"
    /\ open' = TRUE
    /\ wire' = <<>> /\ sent' = {} /\ drained' = FALSE
    /\ gate' = [gate EXCEPT ![session + 1] = TRUE]
    /\ serverDraining' = FALSE
    /\ reader' = "off" /\ incoming' = <<>>
    /\ loop' = "send" /\ sending' = "hello" /\ draining' = FALSE /\ jobs' = {}
    /\ UNCHANGED <<cancelled, acked, worker, faults>>

\* The context has ended, the first connection fails or a later one is refused for good, or
\* there will be another attempt.
ConnectFails ==
    /\ agent = "connect"
    /\ agent' \in IF cancelled THEN {"returned ctx.Err"}
                  ELSE IF session = 0 THEN {"returned error"} ELSE {"returned error", "backoff"}
    /\ UNCHANGED <<cancelled, session, open, gateway, gate, serverDraining, local, worker, faults>>

Backoff ==
    /\ agent = "backoff"
    /\ agent' = IF cancelled THEN "returned ctx.Err" ELSE "connect"
    /\ UNCHANGED <<cancelled, session, open, gateway, gate, serverDraining, local, worker, faults>>

Cancel ==
    /\ ~cancelled /\ ~Returned
    /\ cancelled' = TRUE
    /\ UNCHANGED <<agent, session, open, gateway, gate, serverDraining, local, worker, faults>>

\* What runSession leaves behind, in the order of its deferred calls: a closed gate, closed
\* channels and a closed socket.
Closed == [gate EXCEPT ![session] = FALSE]

Leave ==
    /\ Running /\ loop = "leave"
    /\ gate' = Closed
    /\ open' = FALSE
    /\ reader' = "off" /\ incoming' = <<>>
    /\ loop' = "off"
    /\ agent' = CASE cancelled -> "returned ctx.Err"
                  [] ~cancelled /\ serverDraining -> "returned nil"
                  [] OTHER -> "backoff"
    /\ UNCHANGED <<cancelled, session, gateway, serverDraining, sending, draining, jobs, worker,
                   faults>>

-----------------------------------------------------------------------------
(* The callbacks of the context and the two deadlines. *)

CloseAdmission ==
    /\ Running /\ cancelled /\ gate[session]
    /\ gate' = [gate EXCEPT ![session] = FALSE]
    /\ UNCHANGED <<cancelled, agent, session, open, gateway, serverDraining, local, worker, faults>>

\* Mutant of Watch: the deadline covers the handlers only.
WatchNot ==
    /\ Running /\ cancelled /\ open /\ jobs = {}
    /\ open' = FALSE
    /\ UNCHANGED <<cancelled, agent, session, gateway, gate, serverDraining, local, worker, faults>>

\* 30 seconds after the cancellation.
Watch ==
    /\ Running /\ cancelled /\ open
    /\ open' = FALSE
    /\ UNCHANGED <<cancelled, agent, session, gateway, gate, serverDraining, local, worker, faults>>

\* The deadline that the Drain frame advertises.
DrainDeadline ==
    /\ Running /\ serverDraining /\ open
    /\ open' = FALSE
    /\ UNCHANGED <<cancelled, agent, session, gateway, gate, serverDraining, local, worker, faults>>

-----------------------------------------------------------------------------
(* The reader. *)

\* A Drain frame closes the gate at once, before it is passed on.  What has been received may
\* still be read from a closed socket.
ReadMessage ==
    /\ Running /\ reader = "reading"
    /\ wire # <<>>
    /\ wire' = Tail(wire)
    /\ IF Head(wire) = "drain"
       THEN reader' = "store" /\ gate' = [gate EXCEPT ![session] = FALSE]
       ELSE reader' = Head(wire) /\ UNCHANGED gate
    /\ UNCHANGED <<cancelled, agent, session, open, sent, drained, acked, serverDraining,
                   incoming, loop, sending, draining, jobs, worker, faults>>

ReadFails ==
    /\ Running /\ reader = "reading" /\ ~open
    /\ reader' = "error"
    /\ UNCHANGED <<cancelled, agent, session, open, gateway, gate, serverDraining,
                   incoming, loop, sending, draining, jobs, worker, faults>>

StoreDraining ==
    /\ Running /\ reader = "store"
    /\ serverDraining' = TRUE
    /\ reader' = "drain"
    /\ UNCHANGED <<cancelled, agent, session, open, gateway, gate,
                   incoming, loop, sending, draining, jobs, worker, faults>>

Offer ==
    /\ Running /\ reader \in Deliveries \cup {"drain", "other", "error"}
    /\ Len(incoming) < MaxInFlight + 1
    /\ incoming' = Append(incoming, reader)
    /\ reader' = IF reader = "error" THEN "off" ELSE "reading"
    /\ UNCHANGED <<cancelled, agent, session, open, gateway, gate, serverDraining,
                   loop, sending, draining, jobs, worker, faults>>

-----------------------------------------------------------------------------
(* The workers. *)

\* The admission point: the gate, then the context, under the mutex.
Admit(s, d) ==
    /\ worker[s][d] = "queued"
    /\ gate' = [gate EXCEPT ![s] = gate[s] /\ ~cancelled]
    /\ worker' = [worker EXCEPT ![s][d] = IF gate'[s] THEN "handling" ELSE "skipped"]
    /\ UNCHANGED <<cancelled, agent, session, open, gateway, serverDraining, local, faults>>

\* A handler may return whenever it likes, after its session or even after RunAgent.
HandlerReturns(s, d) ==
    /\ worker[s][d] = "handling"
    /\ \E result \in {"ok", "failed"} : worker' = [worker EXCEPT ![s][d] = result]
    /\ UNCHANGED <<cancelled, agent, session, open, gateway, gate, serverDraining, local, faults>>

-----------------------------------------------------------------------------
(* The loop of the session. *)

MayLeave == jobs = {}

Top ==
    /\ Running /\ loop = "top"
    /\ draining' = (draining \/ cancelled \/ serverDraining)
    /\ loop' = IF draining' /\ MayLeave THEN "leave" ELSE "select"
    /\ UNCHANGED <<cancelled, agent, session, open, gateway, gate, serverDraining,
                   reader, incoming, sending, jobs, worker, faults>>

Stopping ==
    /\ Running /\ loop = "select"
    /\ cancelled /\ ~draining
    /\ draining' = TRUE
    /\ loop' = "top"
    /\ UNCHANGED <<cancelled, agent, session, open, gateway, gate, serverDraining,
                   reader, incoming, sending, jobs, worker, faults>>

Unexpected(f) == f \notin Deliveries \/ Cardinality(jobs) >= MaxInFlight \/ f \in jobs

\* A frame arrives.  A worker is started for a delivery, unless the session is stopping.
Receive ==
    /\ Running /\ loop = "select"
    /\ incoming # <<>>
    /\ incoming' = Tail(incoming)
    /\ LET f == Head(incoming)
           stop == cancelled \/ serverDraining
           start == f # "error" /\ ~stop /\ ~Unexpected(f)
       IN  /\ loop' = IF f = "error" \/ (~stop /\ Unexpected(f)) THEN "leave" ELSE "top"
           /\ draining' = (draining \/ (f # "error" /\ stop))
           /\ jobs' = IF start THEN jobs \cup {f} ELSE jobs
           /\ worker' = IF start THEN [worker EXCEPT ![session][f] = "queued"] ELSE worker
    /\ UNCHANGED <<cancelled, agent, session, open, gateway, gate, serverDraining,
                   reader, sending, faults>>

\* A worker's result arrives: a skipped delivery is forgotten, an error ends the session, and
\* a result is sent.
TakeResult(d) ==
    /\ Running /\ loop = "select"
    /\ d \in jobs
    /\ \/ /\ worker[session][d] = "skipped"
          /\ jobs' = jobs \ {d}
          /\ worker' = [worker EXCEPT ![session][d] = "over"]
          /\ loop' = "top"
          /\ UNCHANGED sending
       \/ /\ worker[session][d] = "failed"
          /\ loop' = "leave"
          /\ UNCHANGED <<jobs, worker, sending>>
       \/ /\ worker[session][d] = "ok"
          /\ loop' = "send"
          /\ sending' = d
          /\ UNCHANGED <<jobs, worker>>
    /\ UNCHANGED <<cancelled, agent, session, open, gateway, gate, serverDraining,
                   reader, incoming, draining, faults>>

Heartbeat ==
    /\ Running /\ loop = "select"
    /\ loop' = "send"
    /\ sending' = "heartbeat"
    /\ UNCHANGED <<cancelled, agent, session, open, gateway, gate, serverDraining,
                   reader, incoming, draining, jobs, worker, faults>>

\* The frame is written: the delivery is settled, or the session begins to read.
Sent ==
    /\ Running /\ loop = "send" /\ open
    /\ loop' = "top"
    /\ sending' = None
    /\ reader' = IF sending = "hello" THEN "reading" ELSE reader
    /\ acked' = acked \cup ({sending} \cap Deliveries)
    /\ jobs' = jobs \ {sending}
    /\ worker' = IF sending \in Deliveries THEN [worker EXCEPT ![session][sending] = "over"]
                 ELSE worker
    /\ UNCHANGED <<cancelled, agent, session, open, wire, sent, drained, gate, serverDraining,
                   incoming, draining, faults>>

\* The write fails or passes its deadline of 10 seconds.
SendFails ==
    /\ Running /\ loop = "send"
    /\ loop' = "leave"
    /\ sending' = None
    /\ UNCHANGED <<cancelled, agent, session, open, gateway, gate, serverDraining,
                   reader, incoming, draining, jobs, worker, faults>>

-----------------------------------------------------------------------------
(* The gateway (external). *)

ServerDelivers(d) ==
    /\ Running /\ open /\ reader # "off"
    /\ d \notin sent \cup acked
    /\ ~drained
    /\ Cardinality(sent \ acked) < MaxInFlight
    /\ sent' = sent \cup {d}
    /\ wire' = Append(wire, d)
    /\ UNCHANGED <<cancelled, agent, session, open, drained, acked, gate, serverDraining, local,
                   worker, faults>>

ServerDrains ==
    /\ Running /\ open /\ reader # "off"
    /\ ~drained
    /\ drained' = TRUE
    /\ wire' = Append(wire, "drain")
    /\ UNCHANGED <<cancelled, agent, session, open, sent, acked, gate, serverDraining, local,
                   worker, faults>>

ServerFails ==
    /\ Running /\ open /\ reader # "off"
    /\ faults < MaxFaults
    /\ faults' = faults + 1
    /\ \/ open' = FALSE /\ UNCHANGED wire
       \/ wire' = Append(wire, "other") /\ UNCHANGED open
    /\ UNCHANGED <<cancelled, agent, session, sent, drained, acked, gate, serverDraining, local,
                   worker>>

-----------------------------------------------------------------------------
AgentStep == Connect \/ ConnectFails \/ Backoff \/ Leave
ReaderStep == ReadMessage \/ ReadFails \/ StoreDraining \/ Offer
LoopStep ==
    Top \/ Stopping \/ Receive \/ (\E d \in Deliveries : TakeResult(d)) \/ Heartbeat
       \/ Sent \/ SendFails

Next ==
    \/ AgentStep \/ ReaderStep \/ LoopStep
    \/ Cancel \/ CloseAdmission \/ Watch \/ DrainDeadline
    \/ \E s \in Sessions, d \in Deliveries : Admit(s, d) \/ HandlerReturns(s, d)
    \/ \E d \in Deliveries : ServerDelivers(d)
    \/ ServerDrains \/ ServerFails

Spec == Init /\ [][Next]_vars

\* The agent's own goroutines and timers go on; handlers and the gateway need not.
FairSpec == Spec /\ WF_vars(AgentStep) /\ WF_vars(ReaderStep) /\ WF_vars(LoopStep)
    /\ WF_vars(Watch) /\ WF_vars(DrainDeadline)

-----------------------------------------------------------------------------
Frames == Deliveries \cup {"drain", "other"}

TypeOK ==
    /\ cancelled \in BOOLEAN /\ open \in BOOLEAN /\ drained \in BOOLEAN
    /\ agent \in {"connect", "session", "backoff"} \/ Returned
    /\ session \in 0..MaxSessions
    /\ wire \in Seq(Frames)
    /\ sent \subseteq Deliveries /\ acked \subseteq Deliveries /\ jobs \subseteq Deliveries
    /\ gate \in [Sessions -> BOOLEAN]
    /\ serverDraining \in BOOLEAN /\ draining \in BOOLEAN
    /\ reader \in Frames \cup {"off", "reading", "store", "error"}
    /\ incoming \in Seq(Frames \cup {"error"})
    /\ loop \in {"top", "select", "send", "leave", "off"}
    /\ sending \in Deliveries \cup {None, "hello", "heartbeat"}
    /\ worker \in [Sessions -> [Deliveries ->
                      {"none", "queued", "handling", "skipped", "ok", "failed", "over"}]]
    /\ faults \in 0..MaxFaults

AdmitsInSession ==
    \A s \in Sessions, d \in Deliveries :
        worker[s][d] = "queued" /\ worker'[s][d] = "handling" => Running /\ s = session

\* A queued worker does not outlive the admission of its session: a handler is admitted only
\* while that session runs, never in a later one or after RunAgent has returned, however long
\* its goroutine was suspended before (the comment at agent.go:152).
AdmittedInSession == [][AdmitsInSession]_vars

\* Admitted handlers drain: a session that stops for the context or for the server's Drain
\* ends by itself only when every handler it has admitted is settled (agent.go:67,70).
LeavesDrained ==
    loop = "top" /\ loop' = "leave" =>
        \A d \in Deliveries : worker[session][d] \notin {"handling", "ok", "failed"}

AdmittedDrain == [][LeavesDrained]_vars

Stopped == cancelled \/ serverDraining => Returned

\* After a cancellation, and after a Drain that the agent has read, RunAgent returns, even if a
\* handler never does, a write blocks or the reader is stuck (agent.go:63,71).
StopReturns == []<>Stopped
=============================================================================
