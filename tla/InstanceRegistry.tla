-------------------------- MODULE InstanceRegistry --------------------------
(***************************************************************************)
(* Processes that run under one configured instance id: a process that is  *)
(* started before its predecessor has gone, or while it hangs.             *)
(* runtime/runtime.go registers a process in Redis under its id, with a    *)
(* random generation and the time it was started                           *)
(* (redisstate/ownership.go), and takes it out when it ends.               *)
(*                                                                         *)
(* Time counts heartbeat periods.  A process may be slow: its heartbeat    *)
(* may not be sent in a period.                                            *)
(***************************************************************************)
EXTENDS Integers, FiniteSets

CONSTANTS
  Processes,     \* its generation is the process itself
  None,
  TTL,           \* periods a record lasts (30 s over 10 s)
  MaxStarted     \* bound: instants at which a process may be started

VARIABLES
  process,   \* "absent", "starting", "running", "cancelled", "done" or "dead"
  started,   \* startedAt of the process
  latest,    \* the time of the last start: clocks do not run backwards
  member     \* the record under the id, which every script that writes it
             \* keeps in step with the index: [by: process, left: periods]

vars == <<process, started, latest, member>>

Vacant == [by |-> None, left |-> 0]

Init ==
  /\ process = [p \in Processes |-> "absent"] /\ started = [p \in Processes |-> 0]
  /\ latest = 0 /\ member = Vacant

-----------------------------------------------------------------------------
(* NewInstance *)
NewInstance(p) ==
  /\ process[p] = "absent" /\ process' = [process EXCEPT ![p] = "starting"]
  /\ \E t \in latest..MaxStarted : latest' = t /\ started' = [started EXCEPT ![p] = t]
  /\ UNCHANGED member

(* heartbeatScript: the record of another generation that was started at   *)
(* the same time or later is not replaced.                                 *)
\* mutant of MayTake: the generation that writes last has the record
MayTakeAlways(p) == TRUE

MayTake(p) == member.by \in {None, p} \/ started[member.by] < started[p]

Take(p) == member' = [by |-> p, left |-> TTL]

(* newBase: the first heartbeat has to succeed. *)
FirstHeartbeat(p) ==
  /\ process[p] = "starting"
  /\ IF MayTake(p)
     THEN Take(p) /\ process' = [process EXCEPT ![p] = "running"]
     ELSE process' = [process EXCEPT ![p] = "done"] /\ UNCHANGED member
  /\ UNCHANGED <<started, latest>>

(* heartbeat ignores what the later ones answer. *)
Heartbeat(p) ==
  /\ process[p] = "running"
  /\ IF MayTake(p) THEN Take(p) ELSE UNCHANGED member
  /\ UNCHANGED <<process, started, latest>>

(* close cancels; a heartbeat that is under way has then been sent. *)
Cancel(p) ==
  /\ process[p] = "running" /\ process' = [process EXCEPT ![p] = "cancelled"]
  /\ UNCHANGED <<started, latest, member>>

(* releaseInstanceScript: only the generation that is on record. *)
MayRelease(p) == member.by = p

(* release: that the record is another's or Redis unavailable is no error. *)
Released(p) == IF MayRelease(p) THEN {Vacant, member} ELSE {member}

ReleaseInstance(p) ==
  /\ process[p] = "cancelled" /\ process' = [process EXCEPT ![p] = "done"]
  /\ member' \in Released(p)
  /\ UNCHANGED <<started, latest>>

Die(p) ==
  /\ process[p] \in {"starting", "running", "cancelled"}
  /\ process' = [process EXCEPT ![p] = "dead"]
  /\ UNCHANGED <<started, latest, member>>

Tick ==
  /\ member' = IF member.left <= 1 THEN Vacant ELSE [member EXCEPT !.left = @ - 1]
  /\ UNCHANGED <<process, started, latest>>

Next ==
  \/ \E p \in Processes : \/ NewInstance(p) \/ FirstHeartbeat(p) \/ Heartbeat(p)
                          \/ Cancel(p) \/ ReleaseInstance(p) \/ Die(p)
  \/ Tick

Spec == Init /\ [][Next]_vars

-----------------------------------------------------------------------------
TypeOK ==
  /\ process \in [Processes -> {"absent", "starting", "running", "cancelled", "done", "dead"}]
  /\ started \in [Processes -> 0..MaxStarted] /\ latest \in 0..MaxStarted
  /\ member \in [by : Processes \cup {None}, left : 0..TTL]
  /\ member.by = None <=> member.left = 0

(* A process that was replaced neither takes the record back nor removes   *)
(* it from its successor: while it lasts, the record passes only to a      *)
(* process that was started later.                                         *)
SuccessorKeepsRecord ==
  [][member.by # None /\ member'.by # member.by =>
       \/ \E p \in Processes : member'.by = p /\ started[p] > started[member.by]
       \/ member' = Vacant /\ (member.left = 1 \/ process[member.by] = "cancelled")]_vars
=============================================================================
