--------------------------- MODULE StreamGateway ---------------------------
(***************************************************************************)
(* streamgateway: the sessions that hand stream deliveries to WebSocket    *)
(* clients, and the assignments (store/postgres/delivery_assignments.go)   *)
(* that fence them.  All sessions are of one application and share its     *)
(* durable consumer.                                                       *)
(*                                                                         *)
(* A session has three concurrent actors.  The handler runs deliver for    *)
(* one broker message at a time.  The reader runs control for one client   *)
(* frame at a time.  The closer runs Close, once.  They share inflight     *)
(* under a lock that none of them holds across a call to the store or the  *)
(* broker: every such call, and every locked section, is a step.           *)
(***************************************************************************)
EXTENDS DeliveryStore, JetStream

CONSTANTS
  MaxInFlight,  \* deliveries a session may hold
  MaxBytes,     \* encoded bytes a session may hold; a delivery is one unit
  MaxErrors     \* bound: store and broker calls that fail

ASSUME MaxInFlightAssumption == MaxInFlight \in Nat \ {0}
ASSUME MaxBytesAssumption == MaxBytes \in Nat \ {0}
ASSUME MaxErrorsAssumption == MaxErrors \in Nat

VARIABLES
  phase,     \* of each session: new, open, closing, releasing, closed
  inflight,  \* per session and delivery: the entry sent to the client
  bytes,     \* per session: inflightBytes
  handler,   \* per session: where deliver is
  reader,    \* per session: where control is
  closer,    \* per session: what Close still has to release
  errors     \* failed calls so far

sessionVars == <<phase, inflight, bytes, handler, reader, closer, errors>>

Phases == {"new", "open", "closing", "releasing", "closed"}
Entries == [token : AssignTokens, msg : Messages]

Handling == {"idle", "assign", "place", "unqueue", "release", "ack", "nack"}
Handlers == [pc : Handling, msg : Messages \cup {None}, token : AssignTokens \cup {None}]
Readers == [pc : {"idle", "store", "broker", "remove"}, op : {"ack", "nack", "progress"},
            entry : Entries \cup {None}, live : BOOLEAN]
Closers == [pc : {"take", "release", "nack"}, entry : Entries \cup {None}, ids : SUBSET Deliveries]

NotHandling == [pc |-> "idle", msg |-> None, token |-> None]
NotReading == [pc |-> "idle", op |-> "ack", entry |-> None, live |-> FALSE]
NothingToClose == [pc |-> "take", entry |-> None, ids |-> {}]

SessionTypeOK ==
  /\ phase \in [Connections -> Phases]
  /\ inflight \in [Connections -> [Deliveries -> Entries \cup {None}]]
  /\ bytes \in [Connections -> 0..MaxBytes]
  /\ handler \in [Connections -> Handlers]
  /\ reader \in [Connections -> Readers]
  /\ closer \in [Connections -> Closers]
  /\ errors \in 0..MaxErrors

SessionInit ==
  /\ phase = [c \in Connections |-> "new"]
  /\ inflight = [c \in Connections |-> [d \in Deliveries |-> None]]
  /\ bytes = [c \in Connections |-> 0]
  /\ handler = [c \in Connections |-> NotHandling]
  /\ reader = [c \in Connections |-> NotReading]
  /\ closer = [c \in Connections |-> NothingToClose]
  /\ errors = 0

DeliveryOf(m) == m[1][1]
GenerationOf(m) == m[1][2]

-----------------------------------------------------------------------------
(* The assignment columns. *)

\* mutant of Final: an acknowledged delivery is not final
FinalIfDead(d) == row[d].status = "dead_letter"

Final(d) == row[d].status \in {"acked", "dead_letter"}

(* The condition of the statements that ack, release or extend: the        *)
(* assignment is still this one, and its lease lasts.                      *)
Assigned(c, e) ==
  LET d == DeliveryOf(e.msg) IN
    /\ assignment[d].conn = c /\ assignment[d].token = e.token
    /\ row[d].generation = GenerationOf(e.msg)
    /\ ~Final(d)

Live(e) == assignment[DeliveryOf(e.msg)].expiresIn > 0

Fenced(c, e) == Assigned(c, e) /\ Live(e)

(* A random token is one that no row and no session refers to. *)
KnownEntries ==
  UNION { {inflight[c][d] : d \in Deliveries} \cup {reader[c].entry, closer[c].entry} :
          c \in Connections } \ {None}
FreshAssignTokens ==
  AssignTokens \ UNION { {assignment[d].token : d \in Deliveries},
                         {handler[c].token : c \in Connections},
                         {e.token : e \in KnownEntries} }

AssignStreamDelivery(c, m, token) ==
  /\ assignment' = [assignment EXCEPT ![DeliveryOf(m)] =
       [conn |-> c, token |-> token, expiresIn |-> Lease, maxIn |-> MaxProcessing]]
  /\ UNCHANGED <<row, callback, outbox>>

AcknowledgeStreamDelivery(e) ==
  /\ row' = [row EXCEPT ![DeliveryOf(e.msg)].status = "acked"]
  /\ UNCHANGED <<assignment, callback, outbox>>

ReleaseStreamDelivery(e) ==
  /\ row' = [row EXCEPT ![DeliveryOf(e.msg)].status = "retrying"]
  /\ assignment' = [assignment EXCEPT ![DeliveryOf(e.msg)] = Unassigned]
  /\ UNCHANGED <<callback, outbox>>

(* A release that finds its assignment gone changes nothing. *)
ReleaseIfFenced(c, e) ==
  IF Fenced(c, e) THEN ReleaseStreamDelivery(e) ELSE UNCHANGED storeVars

(* The lease is renewed but never beyond the deadline of the assignment. *)
ProgressStreamDelivery(e) ==
  /\ assignment' = [assignment EXCEPT ![DeliveryOf(e.msg)] =
       [@ EXCEPT !.expiresIn = Shorter(Lease, assignment[DeliveryOf(e.msg)].maxIn)]]
  /\ UNCHANGED <<row, callback, outbox>>

-----------------------------------------------------------------------------
(* The client connects and starts its consumer. *)
Start(c) ==
  /\ phase[c] = "new"
  /\ phase' = [phase EXCEPT ![c] = "open"]
  /\ UNCHANGED <<inflight, bytes, handler, reader, closer, errors, storeVars, streamVars>>

(* deliver, step by step.  A reserved slot is a handler about to assign.   *)

InFlight(c) == {d \in Deliveries : inflight[c][d] # None}

HasRoom(c) == Cardinality(InFlight(c)) < MaxInFlight /\ bytes[c] < MaxBytes

Handle(c, pc) == handler' = [handler EXCEPT ![c].pc = pc]
DoneHandling(c) == handler' = [handler EXCEPT ![c] = NotHandling]

(* At capacity or while closing the message is given back at once. *)
Refuse(c, m) ==
  /\ phase[c] \in {"open", "closing", "releasing"}
  /\ handler[c].pc = "idle"
  /\ phase[c] # "open" \/ ~HasRoom(c)
  /\ messages[m] = "pending"
  /\ NackMessage(m)
  /\ UNCHANGED <<sessionVars, storeVars>>

Receive(c, m) ==
  /\ phase[c] = "open" /\ HasRoom(c)
  /\ handler[c].pc = "idle"
  /\ HandOut(m)
  /\ handler' = [handler EXCEPT ![c] = [pc |-> "assign", msg |-> m, token |-> None]]
  /\ UNCHANGED <<phase, inflight, bytes, reader, closer, errors, storeVars>>

Assign(c) ==
  /\ handler[c].pc = "assign"
  /\ LET m == handler[c].msg
         d == DeliveryOf(m) IN
       \/ /\ row[d].generation # GenerationOf(m)
          /\ Handle(c, "nack") /\ UNCHANGED storeVars
       \/ /\ row[d].generation = GenerationOf(m)
          /\ Final(d)
          /\ Handle(c, "ack") /\ UNCHANGED storeVars
       \/ /\ row[d].generation = GenerationOf(m)
          /\ ~Final(d) /\ assignment[d].expiresIn > 0
          /\ Handle(c, "nack") /\ UNCHANGED storeVars
       \/ /\ row[d].generation = GenerationOf(m)
          /\ ~Final(d) /\ assignment[d].expiresIn = 0
          /\ \E token \in FreshAssignTokens :
               /\ AssignStreamDelivery(c, m, token)
               /\ handler' = [handler EXCEPT ![c] = [pc |-> "place", msg |-> m, token |-> token]]
  /\ UNCHANGED <<phase, inflight, bytes, reader, closer, errors, streamVars>>

HandlerEntry(c) == [token |-> handler[c].token, msg |-> handler[c].msg]

(* Locked removal of whatever entry the delivery has now. *)
Forget(c, d) ==
  /\ inflight' = [inflight EXCEPT ![c][d] = None]
  /\ bytes' = [bytes EXCEPT ![c] = IF inflight[c][d] = None THEN @ ELSE @ - 1]

(* The entry is recorded and its frame queued, unless the queue is full.   *)
(* An entry of the same delivery is overwritten, its bytes stay counted.   *)
Place(c) ==
  /\ handler[c].pc = "place"
  /\ IF phase[c] = "open"
     THEN /\ inflight' = [inflight EXCEPT ![c][DeliveryOf(handler[c].msg)] = HandlerEntry(c)]
          /\ bytes' = [bytes EXCEPT ![c] = @ + 1]
          /\ DoneHandling(c) \/ Handle(c, "unqueue")
     ELSE Handle(c, "release") /\ UNCHANGED <<inflight, bytes>>
  /\ UNCHANGED <<phase, reader, closer, errors, storeVars, streamVars>>

(* release after a full queue: the entry may be gone by now. *)
Unqueue(c) ==
  /\ handler[c].pc = "unqueue"
  /\ LET d == DeliveryOf(handler[c].msg) IN
       /\ IF inflight[c][d] = None THEN DoneHandling(c) ELSE Handle(c, "release")
       /\ Forget(c, d)
  /\ UNCHANGED <<phase, reader, closer, errors, storeVars, streamVars>>

HandlerRelease(c) ==
  /\ handler[c].pc = "release"
  /\ ReleaseIfFenced(c, HandlerEntry(c))
  /\ Handle(c, "nack")
  /\ UNCHANGED <<phase, inflight, bytes, reader, closer, errors, streamVars>>

HandlerSettle(c) ==
  /\ \/ handler[c].pc = "ack" /\ AckMessage(handler[c].msg)
     \/ handler[c].pc = "nack" /\ NackMessage(handler[c].msg)
  /\ DoneHandling(c)
  /\ UNCHANGED <<phase, inflight, bytes, reader, closer, errors, storeVars>>

-----------------------------------------------------------------------------
(* control: look the entry up, call the store, call the broker, remove.    *)

DoneReading(c) == reader' = [reader EXCEPT ![c] = NotReading]

ControlLookup(c) ==
  /\ phase[c] # "new"
  /\ reader[c].pc = "idle"
  /\ \E op \in {"ack", "nack", "progress"}, d \in InFlight(c) :
       reader' = [reader EXCEPT ![c] = [pc |-> "store", op |-> op, entry |-> inflight[c][d],
                                        live |-> op # "progress" /\ Fenced(c, inflight[c][d])]]
  /\ UNCHANGED <<phase, inflight, bytes, handler, closer, errors, storeVars, streamVars>>

\* mutant of AckedByMe: the status is not looked at
HeldByMe(c, e) ==
  LET d == DeliveryOf(e.msg) IN
    /\ row[d].generation = GenerationOf(e.msg)
    /\ assignment[d].conn = c /\ assignment[d].token = e.token

(* The winner may repeat its acknowledgement. *)
AckedByMe(c, e) ==
  LET d == DeliveryOf(e.msg) IN
    /\ row[d].status = "acked" /\ row[d].generation = GenerationOf(e.msg)
    /\ assignment[d].conn = c /\ assignment[d].token = e.token

(* What a control frame does to the row it is entitled to change. *)
ControlEffect(c) ==
  \/ reader[c].op = "ack" /\ AcknowledgeStreamDelivery(reader[c].entry)
  \/ reader[c].op = "nack" /\ ReleaseStreamDelivery(reader[c].entry)
  \/ reader[c].op = "progress" /\ ProgressStreamDelivery(reader[c].entry)

(* control reads the clock with the entry, so an ack or nack that was in   *)
(* time counts although the lease ends before its statement runs.          *)
MayControl(c) ==
  /\ Assigned(c, reader[c].entry)
  /\ IF reader[c].op = "progress" THEN Live(reader[c].entry) ELSE reader[c].live

(* The broker call of a progress only restarts the broker's timer. *)
ControlStore(c) ==
  /\ reader[c].pc = "store"
  /\ LET e == reader[c].entry
         repeated == reader[c].op = "ack" /\ AckedByMe(c, e) IN
       \/ /\ MayControl(c)
          /\ ControlEffect(c)
          /\ IF reader[c].op = "progress" THEN DoneReading(c)
             ELSE reader' = [reader EXCEPT ![c].pc = "broker"]
       \/ /\ ~MayControl(c) /\ repeated
          /\ reader' = [reader EXCEPT ![c].pc = "broker"]
          /\ UNCHANGED storeVars
       \/ /\ ~MayControl(c) /\ ~repeated
          /\ DoneReading(c)
          /\ UNCHANGED storeVars
  /\ UNCHANGED <<phase, inflight, bytes, handler, closer, errors, streamVars>>

ControlBroker(c) ==
  /\ reader[c].pc = "broker"
  /\ IF reader[c].op = "ack" THEN AckMessage(reader[c].entry.msg) ELSE NackMessage(reader[c].entry.msg)
  /\ reader' = [reader EXCEPT ![c].pc = "remove"]
  /\ UNCHANGED <<phase, inflight, bytes, handler, closer, errors, storeVars>>

ControlRemove(c) ==
  /\ reader[c].pc = "remove"
  /\ Forget(c, DeliveryOf(reader[c].entry.msg))
  /\ DoneReading(c)
  /\ UNCHANGED <<phase, handler, closer, errors, storeVars, streamVars>>

-----------------------------------------------------------------------------
(* Close: admission ends, the running deliver is awaited, what is in       *)
(* flight is released and given back.                                      *)

CloseStart(c) ==
  /\ phase[c] = "open"
  /\ phase' = [phase EXCEPT ![c] = "closing"]
  /\ UNCHANGED <<inflight, bytes, handler, reader, closer, errors, storeVars, streamVars>>

\* mutant of Awaited: Close waits until the client has settled everything
AwaitedUntilEmpty(c) == handler[c].pc = "idle" /\ InFlight(c) = {}

Awaited(c) == handler[c].pc = "idle"

Snapshot(c) ==
  /\ phase[c] = "closing"
  /\ phase' = [phase EXCEPT ![c] = "releasing"]
  /\ closer' = [closer EXCEPT ![c].ids = InFlight(c)]
  /\ UNCHANGED <<inflight, bytes, handler, reader, storeVars, streamVars>>

CloseSnapshot(c) == Awaited(c) /\ Snapshot(c) /\ UNCHANGED errors

CloseTake(c) ==
  /\ phase[c] = "releasing" /\ closer[c].pc = "take"
  /\ \E d \in closer[c].ids :
       /\ closer' = [closer EXCEPT ![c] =
            [pc |-> IF inflight[c][d] = None THEN "take" ELSE "release",
             entry |-> inflight[c][d], ids |-> @.ids \ {d}]]
       /\ Forget(c, d)
  /\ UNCHANGED <<phase, handler, reader, errors, storeVars, streamVars>>

CloseRelease(c) ==
  /\ closer[c].pc = "release"
  /\ ReleaseIfFenced(c, closer[c].entry)
  /\ closer' = [closer EXCEPT ![c].pc = "nack"]
  /\ UNCHANGED <<phase, inflight, bytes, handler, reader, errors, streamVars>>

CloseNack(c) ==
  /\ closer[c].pc = "nack"
  /\ NackMessage(closer[c].entry.msg)
  /\ closer' = [closer EXCEPT ![c].pc = "take", ![c].entry = None]
  /\ UNCHANGED <<phase, inflight, bytes, handler, reader, errors, storeVars>>

CloseDone(c) ==
  /\ phase[c] = "releasing" /\ closer[c].pc = "take" /\ closer[c].ids = {}
  /\ phase' = [phase EXCEPT ![c] = "closed"]
  /\ UNCHANGED <<inflight, bytes, handler, reader, closer, errors, storeVars, streamVars>>

-----------------------------------------------------------------------------
(* Calls that fail.  Close cancels the context that deliver uses, so its   *)
(* calls may fail with the outcome unknown.                                *)

Error == errors < MaxErrors /\ errors' = errors + 1

(* Close stops waiting for a deliver when its own deadline passes. *)
CloseTimeout(c) == ~Awaited(c) /\ Snapshot(c) /\ Error

(* The answer of a store call is lost, its transaction committed or not.   *)
AssignLost(c) ==
  /\ handler[c].pc = "assign"
  /\ LET m == handler[c].msg
         d == DeliveryOf(m) IN
       \/ UNCHANGED storeVars
       \/ /\ row[d].generation = GenerationOf(m) /\ ~Final(d) /\ assignment[d].expiresIn = 0
          /\ \E token \in FreshAssignTokens : AssignStreamDelivery(c, m, token)
  /\ Handle(c, "nack")
  /\ Error
  /\ UNCHANGED <<phase, inflight, bytes, reader, closer, streamVars>>

ControlLost(c) ==
  /\ \/ /\ reader[c].pc = "store"
        /\ UNCHANGED storeVars \/ (MayControl(c) /\ ControlEffect(c))
        /\ UNCHANGED streamVars
     \/ /\ reader[c].pc = "broker"
        /\ \/ UNCHANGED streamVars
           \/ reader[c].op = "ack" /\ AckMessage(reader[c].entry.msg)
           \/ reader[c].op = "nack" /\ NackMessage(reader[c].entry.msg)
        /\ UNCHANGED storeVars
  /\ DoneReading(c)
  /\ Error
  /\ UNCHANGED <<phase, inflight, bytes, handler, closer>>

(* deliver and Close ignore the errors of release, Ack and Nack. *)
ReleaseLost(c) ==
  /\ \/ /\ handler[c].pc = "release" /\ Handle(c, "nack") /\ UNCHANGED closer
     \/ /\ closer[c].pc = "release" /\ closer' = [closer EXCEPT ![c].pc = "nack"] /\ UNCHANGED handler
  /\ Error
  /\ UNCHANGED <<phase, inflight, bytes, reader, storeVars, streamVars>>

SettleLost(c) ==
  /\ \/ /\ handler[c].pc \in {"ack", "nack"} /\ DoneHandling(c) /\ UNCHANGED closer
     \/ /\ closer[c].pc = "nack"
        /\ closer' = [closer EXCEPT ![c].pc = "take", ![c].entry = None]
        /\ UNCHANGED handler
  /\ Error
  /\ UNCHANGED <<phase, inflight, bytes, reader, storeVars, streamVars>>

(* The gateway process dies: what the session held stays assigned until    *)
(* its lease ends, and its messages are handed out again.                  *)
Die(c) ==
  /\ phase[c] \in {"open", "closing", "releasing"}
  /\ phase' = [phase EXCEPT ![c] = "closed"]
  /\ inflight' = [inflight EXCEPT ![c] = [d \in Deliveries |-> None]]
  /\ bytes' = [bytes EXCEPT ![c] = 0]
  /\ handler' = [handler EXCEPT ![c] = NotHandling]
  /\ reader' = [reader EXCEPT ![c] = NotReading]
  /\ closer' = [closer EXCEPT ![c] = NothingToClose]
  /\ Error
  /\ UNCHANGED <<storeVars, streamVars>>
=============================================================================
