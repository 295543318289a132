--------------------------- MODULE StreamPipeline ---------------------------
(***************************************************************************)
(* From the outbox to the client of a stream: dispatchers, the stream      *)
(* RH_DELIVERIES, the gateway's sessions and an operator.                  *)
(***************************************************************************)
EXTENDS OutboxDispatcher, StreamGateway

vars == <<storeVars, streamVars, dispatcherVars, sessionVars>>

Init == StoreInit /\ StreamInit /\ DispatcherInit /\ SessionInit

Tick == StoreTick /\ UNCHANGED <<streamVars, dispatcherVars, sessionVars>>

Replay ==
  /\ \E ids \in SUBSET Deliveries : ReplayAdminDeadLetters(ids)
  /\ UNCHANGED <<streamVars, dispatcherVars, sessionVars>>

StreamStep ==
  /\ \/ \E id \in MessageIds : ForgetDuplicate(id)
     \/ \E m \in Messages : ExpireMessage(m)
  /\ UNCHANGED <<storeVars, dispatcherVars, sessionVars>>

OutboxStep ==
  /\ \E w \in Dispatchers : ClaimOutbox(w) \/ DispatcherStep(w) \/ Crash(w)
  /\ UNCHANGED sessionVars

HandlerStep(c) ==
  \/ Assign(c)
  \/ Place(c)
  \/ Unqueue(c)
  \/ HandlerRelease(c)
  \/ HandlerSettle(c)

ReaderStep(c) == ControlStore(c) \/ ControlBroker(c) \/ ControlRemove(c)

CloserStep(c) ==
  \/ CloseSnapshot(c)
  \/ CloseTake(c)
  \/ CloseRelease(c)
  \/ CloseNack(c)
  \/ CloseDone(c)

FailedStep(c) ==
  \/ CloseTimeout(c)
  \/ AssignLost(c)
  \/ ControlLost(c)
  \/ ReleaseLost(c)
  \/ SettleLost(c)
  \/ Die(c)

SessionStep ==
  /\ \E c \in Connections :
       \/ Start(c)
       \/ \E m \in Messages : Receive(c, m) \/ Refuse(c, m)
       \/ HandlerStep(c)
       \/ ReaderStep(c)
       \/ ControlLookup(c)
       \/ CloseStart(c)
       \/ CloserStep(c)
       \/ FailedStep(c)
  /\ UNCHANGED dispatcherVars

Next ==
  \/ Tick
  \/ Replay
  \/ StreamStep
  \/ OutboxStep
  \/ SessionStep

Spec == Init /\ [][Next]_vars

(* The goroutines of a session keep running.  Nothing is asked of clients, *)
(* dispatchers, the broker or time.                                        *)
Fairness ==
  \A c \in Connections :
    /\ WF_vars(HandlerStep(c) /\ UNCHANGED dispatcherVars)
    /\ WF_vars(ReaderStep(c) /\ UNCHANGED dispatcherVars)
    /\ WF_vars(CloserStep(c) /\ UNCHANGED dispatcherVars)

FairSpec == Spec /\ Fairness

TypeOK == StoreTypeOK /\ StreamTypeOK /\ DispatcherTypeOK /\ SessionTypeOK

(* Work that is not finished can still reach a client: no Ack of a         *)
(* session, late, repeated or of an older generation, takes the last       *)
(* message of a dispatched delivery out of the stream.  Only the maximum   *)
(* age of the stream does.                                                 *)
NoLostWork ==
  \A d \in Deliveries :
    LET id == <<d, row[d].generation>> IN
      outbox[d].state = "dispatched" /\ ~Final(d) => Recoverable(id) \/ TimedOut(id)

(* A message leaves the stream only when its generation is finished or     *)
(* replaced: deliver and control commit to PostgreSQL before they Ack.     *)
AckJustified ==
  \A m \in Messages :
    messages[m] = "acked" =>
      row[DeliveryOf(m)].generation > GenerationOf(m) \/ Final(DeliveryOf(m))

AckedStays ==
  \A d \in Deliveries :
    row[d].status = "acked" =>
      /\ row'[d] = row[d]
      /\ assignment'[d].conn = assignment[d].conn
      /\ assignment'[d].token = assignment[d].token

(* After the acknowledgement nobody is assigned the delivery, whatever     *)
(* second copies arrive; the winner stays on record so that it, and only   *)
(* it, may repeat its acknowledgement.                                     *)
AckIsFinal == [][AckedStays]_vars

DeadlineStays ==
  \A d \in Deliveries :
    /\ assignment'[d].expiresIn <= assignment'[d].maxIn
    /\ assignment[d].token # None /\ assignment'[d].token = assignment[d].token
         => assignment'[d].maxIn <= assignment[d].maxIn

(* The deadline of an assignment never moves, and no lease outlives it.    *)
DeadlineHolds == [][DeadlineStays]_vars

(* A session never holds more than it negotiated, the slot that deliver    *)
(* reserved before it called the store included.                           *)
CapacityHolds ==
  \A c \in Connections :
    Cardinality(InFlight(c)) + (IF handler[c].pc \in {"assign", "place"} THEN 1 ELSE 0) <= MaxInFlight

(* Work is neither lost nor done over: what is not acknowledged can still  *)
(* reach a client, what is acknowledged stays with its winner, and no      *)
(* holder keeps a delivery past its deadline.                              *)
WorkIsKept == [](NoLostWork /\ AckJustified) /\ AckIsFinal /\ DeadlineHolds

(* A session holds what it may, acknowledges what is settled, and loses    *)
(* nothing.                                                                *)
SessionSafe == CapacityHolds /\ AckJustified /\ NoLostWork

(* Every step of a delivery is one that DeliveryLifecycle allows. *)
Stage(d) ==
  CASE row[d].status = "acked" -> "done"
    [] row[d].status = "dead_letter" -> "dead"
    [] OTHER -> "open"

Lifecycle == INSTANCE DeliveryLifecycle
  WITH stage <- [d \in Deliveries |-> Stage(d)],
       generation <- [d \in Deliveries |-> row[d].generation]

ImplementsLifecycle == Lifecycle!Spec

(* docs/architecture/durable-stream-gateway.md: "Disconnect and shutdown   *)
(* release live assignments and NACK their messages."                      *)
ClosedHoldsNothing ==
  \A c \in Connections, d \in Deliveries :
    phase[c] = "closed" /\ handler[c].pc = "idle" /\ reader[c].pc = "idle" =>
      ~(assignment[d].conn = c /\ assignment[d].expiresIn > 0 /\ ~Final(d))

(* Close always comes to its end: the deliver it waits for ends, and every *)
(* entry of its snapshot is released or was removed meanwhile.             *)
CloseCompletes == \A c \in Connections : phase[c] = "closing" ~> phase[c] = "closed"

-----------------------------------------------------------------------------
(* The inductive invariant behind the properties above. *)

(* The generation of the message is over: a replay has replaced it, or it  *)
(* is the present one and final.  Nothing undoes this.                     *)
Finished(m) ==
  LET d == DeliveryOf(m) IN
    \/ row[d].generation > GenerationOf(m)
    \/ row[d].generation = GenerationOf(m) /\ Final(d)

(* deliver and control Ack, and are about to Ack, finished messages only. *)
AcksAreDue ==
  /\ \A m \in Messages : messages[m] = "acked" => Finished(m)
  /\ \A c \in Connections :
       /\ handler[c].pc = "ack" => Finished(handler[c].msg)
       /\ reader[c].pc = "broker" /\ reader[c].op = "ack" => Finished(reader[c].entry.msg)

(* What the locals of the three actors of a session hold at each point. *)
ActorState ==
  \A c \in Connections :
    /\ handler[c].pc # "idle" => handler[c].msg \in Messages
    /\ handler[c].pc \in {"place", "unqueue", "release"} => handler[c].token \in AssignTokens
    /\ reader[c].pc # "idle" => reader[c].entry \in Entries
    /\ closer[c].pc # "take" => closer[c].entry \in Entries

Reserved(c) == IF handler[c].pc \in {"assign", "place"} THEN 1 ELSE 0

(* The slot and the bytes that deliver found free stay free for it: the    *)
(* reader and the closer only remove entries, and what an entry took is    *)
(* still counted while it is there.                                        *)
RoomIsKept ==
  \A c \in Connections :
    /\ IsFiniteSet(InFlight(c))
    /\ Cardinality(InFlight(c)) <= bytes[c]
    /\ Cardinality(InFlight(c)) + Reserved(c) <= MaxInFlight
    /\ bytes[c] + Reserved(c) <= MaxBytes

(* Delivery and outbox row are of one generation. *)
GenerationsAgree == \A d \in Deliveries : outbox[d].generation = row[d].generation

LeaseWithinDeadline == \A d \in Deliveries : assignment[d].expiresIn <= assignment[d].maxIn

SessionInv ==
  /\ DispatchInv /\ SessionTypeOK /\ ActorState
  /\ AcksAreDue /\ RoomIsKept /\ GenerationsAgree /\ LeaseWithinDeadline
=============================================================================
