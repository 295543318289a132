---------------------------- MODULE StreamProofs ----------------------------
(***************************************************************************)
(* Proofs about the path from the outbox to the clients of a stream, for   *)
(* any sets of deliveries, dispatchers, sessions and tokens and any        *)
(* bounds: SessionSafe, WorkIsKept and that the path implements            *)
(* DeliveryLifecycle.                                                      *)
(*                                                                         *)
(* A step of a session is looked at from several sides, one after the      *)
(* other: what it does to the rows (StoreMove), to the stream              *)
(* (BrokerMove), to the three actors and to the entries of the session.    *)
(* What the dispatchers do is in DispatcherProofs.                         *)
(***************************************************************************)
EXTENDS StreamPipeline, DispatcherProofs

(* A step of session c, one disjunct per action. *)
SessionAct(c) ==
  \/ Start(c)
  \/ \E m \in Messages : Receive(c, m) \/ Refuse(c, m)
  \/ HandlerStep(c)
  \/ ReaderStep(c)
  \/ ControlLookup(c)
  \/ CloseStart(c)
  \/ CloserStep(c)
  \/ FailedStep(c)

(* A message names a delivery and a generation. *)
LEMMA MessageParts ==
  ASSUME NEW m \in Messages
  PROVE  DeliveryOf(m) \in Deliveries /\ GenerationOf(m) \in Generations /\ GenerationOf(m) \in Nat
BY IdsAssumption, ConstantTypes DEF Messages, MessageIds, Generations, DeliveryOf, GenerationOf

(* The bounds of the sessions. *)
LEMMA SessionConstants ==
  /\ Lease \in 0..MaxProcessing /\ MaxProcessing \in 0..MaxProcessing
  /\ MaxInFlight \in Nat /\ MaxBytes \in Nat /\ MaxErrors \in Nat
  /\ 0 \in 0..MaxBytes /\ 0 \in 0..MaxErrors
BY LeaseAssumption, MaxProcessingAssumption, MaxInFlightAssumption, MaxBytesAssumption,
   MaxErrorsAssumption

-----------------------------------------------------------------------------
(* The rows. *)

(* What a step of session c may do to the rows: settle or extend a         *)
(* delivery that is assigned to c, or take one that nobody has.            *)
StoreMove(c) ==
  \/ UNCHANGED storeVars
  \/ \E e \in Entries :
       /\ Assigned(c, e)
       /\ \/ AcknowledgeStreamDelivery(e)
          \/ ReleaseStreamDelivery(e)
          \/ ProgressStreamDelivery(e)
  \/ \E m \in Messages, token \in FreshAssignTokens :
       /\ ~Final(DeliveryOf(m))
       /\ AssignStreamDelivery(c, m, token)

LEMMA SessionStore ==
  ASSUME SessionInv, NEW c \in Connections, SessionAct(c)
  PROVE  StoreMove(c)
<1>1. CASE \/ Start(c) \/ ControlLookup(c) \/ CloseStart(c)
           \/ \E m \in Messages : Receive(c, m) \/ Refuse(c, m)
           \/ Place(c) \/ Unqueue(c) \/ HandlerSettle(c)
           \/ ControlBroker(c) \/ ControlRemove(c)
           \/ CloseSnapshot(c) \/ CloseTake(c) \/ CloseNack(c) \/ CloseDone(c)
           \/ CloseTimeout(c) \/ ReleaseLost(c) \/ SettleLost(c) \/ Die(c)
  BY Zenon, <1>1 DEF StoreMove, Start, ControlLookup, CloseStart, Receive, Refuse, Place, Unqueue,
     HandlerSettle, ControlBroker, ControlRemove, CloseSnapshot, Snapshot, CloseTake, CloseNack,
     CloseDone, CloseTimeout, ReleaseLost, SettleLost, Die
<1>2. CASE Assign(c) \/ AssignLost(c)
  <2>1. handler[c].msg \in Messages
    BY Zenon, <1>2 DEF Assign, AssignLost, SessionInv, ActorState
  <2> QED BY Zenon, <1>2, <2>1 DEF StoreMove, Assign, AssignLost
<1>3. CASE HandlerRelease(c) \/ CloseRelease(c)
  <2>1. PICK e \in Entries : ReleaseIfFenced(c, e)
    <3>1. CASE HandlerRelease(c)
      <4>1. HandlerEntry(c) \in Entries
        BY Zenon, <3>1 DEF HandlerRelease, SessionInv, ActorState, HandlerEntry, Entries
      <4> QED BY Zenon, <3>1, <4>1 DEF HandlerRelease
    <3>2. CASE CloseRelease(c)
      BY Zenon, <3>2 DEF CloseRelease, SessionInv, ActorState
    <3> QED BY Zenon, <1>3, <3>1, <3>2
  <2> QED BY Zenon, <2>1 DEF ReleaseIfFenced, Fenced, StoreMove
<1>4. CASE ControlStore(c) \/ ControlLost(c)
  <2>1. UNCHANGED storeVars \/ (MayControl(c) /\ ControlEffect(c) /\ reader[c].pc = "store")
    BY Zenon, <1>4 DEF ControlStore, ControlLost
  <2>2. CASE MayControl(c) /\ ControlEffect(c) /\ reader[c].pc = "store"
    <3>1. reader[c].entry \in Entries
      BY Zenon, <2>2 DEF SessionInv, ActorState
    <3> QED BY Zenon, <2>2, <3>1 DEF MayControl, ControlEffect, StoreMove
  <2> QED BY Zenon, <2>1, <2>2 DEF StoreMove
<1> QED BY Zenon, <1>1, <1>2, <1>3, <1>4
    DEF SessionAct, HandlerStep, ReaderStep, CloserStep, FailedStep

(* Fields of an entry. *)
LEMMA EntryParts ==
  ASSUME NEW e \in Entries
  PROVE  e.msg \in Messages /\ e.token \in AssignTokens
BY Zenon DEF Entries

(* Rows keep their type: one statement at a time. *)
LEMMA AcknowledgeType ==
  ASSUME StoreTypeOK, NEW m \in Messages, NEW s \in Statuses,
         row' = [row EXCEPT ![DeliveryOf(m)].status = s]
  PROVE  /\ row' \in [Deliveries -> Rows]
         /\ row'[DeliveryOf(m)].status = s
         /\ \A d \in Deliveries : row'[d].generation = row[d].generation
         /\ \A d \in Deliveries : d # DeliveryOf(m) => row'[d] = row[d]
<1>1. DeliveryOf(m) \in Deliveries
  BY Zenon, MessageParts
<1> HIDE DEF DeliveryOf
<1> QED BY Zenon, <1>1 DEF StoreTypeOK, Rows

(* What every such step does to the row and the assignment of a delivery.  *)
SessionMoves(d) ==
  /\ row'[d].generation = row[d].generation
  /\ row'[d] # row[d] => ~(row[d].status \in {"acked", "dead_letter"})
                           /\ row'[d].status \in {"acked", "retrying"}
  /\ \/ assignment'[d] = assignment[d]
     \/ ~Final(d) /\ assignment'[d] = Unassigned
     \/ /\ ~Final(d)
        /\ assignment'[d].conn = assignment[d].conn /\ assignment'[d].token = assignment[d].token
        /\ assignment'[d].maxIn = assignment[d].maxIn
        /\ assignment'[d].expiresIn <= assignment[d].maxIn
     \/ /\ ~Final(d) /\ assignment'[d].token # assignment[d].token
        /\ assignment'[d].expiresIn = Lease /\ assignment'[d].maxIn = MaxProcessing

LEMMA StoreMoves ==
  ASSUME StoreTypeOK, NEW c \in Connections, StoreMove(c)
  PROVE  /\ StoreTypeOK' /\ UNCHANGED <<callback, outbox>>
         /\ \A d \in Deliveries : SessionMoves(d)
<1>0. /\ row \in [Deliveries -> Rows] /\ assignment \in [Deliveries -> Assignments]
      /\ UNCHANGED <<callback, outbox>>
  BY Zenon DEF StoreTypeOK, StoreMove, storeVars, AcknowledgeStreamDelivery, ReleaseStreamDelivery,
         ProgressStreamDelivery, AssignStreamDelivery
<1>1. CASE UNCHANGED storeVars
  BY Zenon, <1>0, <1>1 DEF storeVars, StoreTypeOK, SessionMoves
<1>2. ASSUME NEW e \in Entries, Assigned(c, e), AcknowledgeStreamDelivery(e)
      PROVE  StoreTypeOK' /\ \A d \in Deliveries : SessionMoves(d)
  <2>1. /\ row' \in [Deliveries -> Rows] /\ row'[DeliveryOf(e.msg)].status = "acked"
        /\ \A d \in Deliveries : row'[d].generation = row[d].generation
        /\ \A d \in Deliveries : d # DeliveryOf(e.msg) => row'[d] = row[d]
    BY Zenon, <1>2, EntryParts, AcknowledgeType DEF AcknowledgeStreamDelivery, Statuses
  <2>2. UNCHANGED assignment
    BY Zenon, <1>2 DEF AcknowledgeStreamDelivery
  <2> QED BY Zenon, <1>0, <1>2, <2>1, <2>2 DEF StoreTypeOK, SessionMoves, Assigned, Final
<1>3. ASSUME NEW e \in Entries, Assigned(c, e), ReleaseStreamDelivery(e)
      PROVE  StoreTypeOK' /\ \A d \in Deliveries : SessionMoves(d)
  <2>1. /\ row' \in [Deliveries -> Rows] /\ row'[DeliveryOf(e.msg)].status = "retrying"
        /\ \A d \in Deliveries : row'[d].generation = row[d].generation
        /\ \A d \in Deliveries : d # DeliveryOf(e.msg) => row'[d] = row[d]
    BY Zenon, <1>3, EntryParts, AcknowledgeType DEF ReleaseStreamDelivery, Statuses
  <2>2. DeliveryOf(e.msg) \in Deliveries /\ Unassigned \in Assignments
    BY Zenon, EntryParts, MessageParts, ConstantTypes DEF Unassigned, Assignments
  <2>3. /\ assignment' \in [Deliveries -> Assignments]
        /\ assignment'[DeliveryOf(e.msg)] = Unassigned
        /\ \A d \in Deliveries : d # DeliveryOf(e.msg) => assignment'[d] = assignment[d]
    BY Zenon, <1>0, <1>3, <2>2 DEF ReleaseStreamDelivery
  <2> QED BY Zenon, <1>0, <1>3, <2>1, <2>3 DEF StoreTypeOK, SessionMoves, Assigned, Final
<1>4. ASSUME NEW e \in Entries, Assigned(c, e), ProgressStreamDelivery(e)
      PROVE  StoreTypeOK' /\ \A d \in Deliveries : SessionMoves(d)
  <2> DEFINE d == DeliveryOf(e.msg)
             left == Shorter(Lease, assignment[d].maxIn)
  <2>1. d \in Deliveries /\ assignment[d] \in Assignments
    BY Zenon, <1>0, EntryParts, MessageParts
  <2>2. left \in 0..MaxProcessing /\ left <= assignment[d].maxIn
    <3>1. assignment[d].maxIn \in 0..MaxProcessing
      BY Zenon, <2>1 DEF Assignments
    <3> QED BY <3>1, SessionConstants, ConstantTypes DEF Shorter
  <2>3. UNCHANGED row /\ assignment' = [assignment EXCEPT ![d] = [assignment[d] EXCEPT !.expiresIn = left]]
    BY Zenon, <1>0, <1>4, <2>1 DEF ProgressStreamDelivery
  <2> HIDE DEF d, left
  <2>4. [assignment[d] EXCEPT !.expiresIn = left] \in Assignments
    BY Zenon, <2>1, <2>2 DEF Assignments
  <2>5. /\ assignment' \in [Deliveries -> Assignments]
        /\ \A f \in Deliveries : f # d => assignment'[f] = assignment[f]
        /\ assignment'[d] = [assignment[d] EXCEPT !.expiresIn = left]
    BY Zenon, <1>0, <2>1, <2>3, <2>4
  <2>6. /\ assignment'[d].conn = assignment[d].conn /\ assignment'[d].token = assignment[d].token
        /\ assignment'[d].maxIn = assignment[d].maxIn /\ assignment'[d].expiresIn = left
    BY Zenon, <2>1, <2>5 DEF Assignments
  <2>7. ~Final(d)
    BY Zenon, <1>4 DEF Assigned, d
  <2> QED BY <1>0, <2>2, <2>3, <2>5, <2>6, <2>7 DEF StoreTypeOK, SessionMoves
<1>5. ASSUME NEW m \in Messages, NEW token \in FreshAssignTokens, ~Final(DeliveryOf(m)),
             AssignStreamDelivery(c, m, token)
      PROVE  StoreTypeOK' /\ \A d \in Deliveries : SessionMoves(d)
  <2> DEFINE d == DeliveryOf(m)
             new == [conn |-> c, token |-> token, expiresIn |-> Lease, maxIn |-> MaxProcessing]
  <2>1. d \in Deliveries
    BY Zenon, MessageParts
  <2>2. token \in AssignTokens /\ token # assignment[d].token
    BY Zenon, <2>1 DEF FreshAssignTokens
  <2>3. new \in Assignments
    BY Zenon, <2>2, SessionConstants DEF Assignments
  <2>4. UNCHANGED row /\ assignment' = [assignment EXCEPT ![d] = new]
    BY Zenon, <1>5 DEF AssignStreamDelivery
  <2>5. new.token = token /\ new.expiresIn = Lease /\ new.maxIn = MaxProcessing
    BY Zenon
  <2> HIDE DEF d, new
  <2>6. ~Final(d)
    BY Zenon, <1>5 DEF d
  <2> QED BY <1>0, <2>1, <2>2, <2>3, <2>4, <2>5, <2>6 DEF StoreTypeOK, SessionMoves
<1> QED BY <1>0, <1>1, <1>2, <1>3, <1>4, <1>5 DEF StoreMove

(* A finished message stays finished, next to this step. *)
FinishedNext(m) ==
  LET d == DeliveryOf(m) IN
    \/ row'[d].generation > GenerationOf(m)
    \/ row'[d].generation = GenerationOf(m) /\ row'[d].status \in {"acked", "dead_letter"}

LEMMA FinishedAfter ==
  ASSUME NEW m \in Messages
  PROVE  Finished(m)' <=> FinishedNext(m)
BY Zenon DEF Finished, FinishedNext, Final

LEMMA SessionKeepsRows ==
  ASSUME StoreTypeOK, GenerationsAgree, LeaseWithinDeadline, NEW c \in Connections, StoreMove(c)
  PROVE  /\ GenerationsAgree' /\ LeaseWithinDeadline'
         /\ \A m \in Messages : Finished(m) => FinishedNext(m)
<1>1. StoreTypeOK' /\ UNCHANGED outbox /\ \A d \in Deliveries : SessionMoves(d)
  BY Zenon, StoreMoves
<1>2. GenerationsAgree'
  BY Zenon, <1>1 DEF GenerationsAgree, SessionMoves
<1>3. ASSUME NEW d \in Deliveries
      PROVE  assignment'[d].expiresIn <= assignment'[d].maxIn
  <2>1. Unassigned.expiresIn = 0 /\ Unassigned.maxIn = 0
    BY Zenon DEF Unassigned
  <2> QED BY <1>1, <2>1, SessionConstants DEF SessionMoves, LeaseWithinDeadline
<1>4. ASSUME NEW m \in Messages, Finished(m)
      PROVE  FinishedNext(m)
  <2>1. DeliveryOf(m) \in Deliveries
    BY Zenon, MessageParts
  <2> QED BY Zenon, <1>1, <1>4, <2>1 DEF SessionMoves, Finished, FinishedNext, Final
<1> QED BY Zenon, <1>2, <1>3, <1>4 DEF LeaseWithinDeadline

-----------------------------------------------------------------------------
(* The stream: a session Acks what is finished. *)

BrokerMove ==
  \/ UNCHANGED streamVars
  \/ \E m \in Messages : HandOut(m) \/ NackMessage(m)
  \/ \E m \in Messages : Finished(m) /\ AckMessage(m)

LEMMA SessionBroker ==
  ASSUME SessionInv, NEW c \in Connections, SessionAct(c)
  PROVE  BrokerMove
<1>0. ActorState /\ AcksAreDue
  BY Zenon DEF SessionInv
<1>1. CASE \/ Start(c) \/ ControlLookup(c) \/ CloseStart(c)
           \/ Assign(c) \/ Place(c) \/ Unqueue(c) \/ HandlerRelease(c)
           \/ ControlStore(c) \/ ControlRemove(c)
           \/ CloseSnapshot(c) \/ CloseTake(c) \/ CloseRelease(c) \/ CloseDone(c)
           \/ CloseTimeout(c) \/ AssignLost(c) \/ ReleaseLost(c) \/ SettleLost(c) \/ Die(c)
  BY Zenon, <1>1 DEF BrokerMove, Start, ControlLookup, CloseStart, Assign, Place, Unqueue,
     HandlerRelease, ControlStore, ControlRemove, CloseSnapshot, Snapshot, CloseTake, CloseRelease,
     CloseDone, CloseTimeout, AssignLost, ReleaseLost, SettleLost, Die
<1>2. CASE \E m \in Messages : Receive(c, m) \/ Refuse(c, m)
  BY Zenon, <1>2 DEF BrokerMove, Receive, Refuse
<1>3. CASE HandlerSettle(c)
  <2>1. handler[c].msg \in Messages
    BY Zenon, <1>0, <1>3 DEF HandlerSettle, ActorState
  <2>2. handler[c].pc = "ack" => Finished(handler[c].msg)
    BY Zenon, <1>0 DEF AcksAreDue
  <2> QED BY Zenon, <1>3, <2>1, <2>2 DEF HandlerSettle, BrokerMove
<1>4. CASE ControlBroker(c) \/ ControlLost(c)
  <2>1. reader[c].pc = "broker" => reader[c].entry.msg \in Messages
    BY Zenon, <1>0, EntryParts DEF ActorState
  <2>2. reader[c].pc = "broker" /\ reader[c].op = "ack" => Finished(reader[c].entry.msg)
    BY Zenon, <1>0 DEF AcksAreDue
  <2> QED BY Zenon, <1>4, <2>1, <2>2 DEF ControlBroker, ControlLost, BrokerMove
<1>5. CASE CloseNack(c)
  <2>1. closer[c].entry.msg \in Messages
    BY Zenon, <1>0, <1>5, EntryParts DEF ActorState, CloseNack
  <2> QED BY Zenon, <1>5, <2>1 DEF CloseNack, BrokerMove
<1> QED BY Zenon, <1>1, <1>2, <1>3, <1>4, <1>5
    DEF SessionAct, HandlerStep, ReaderStep, CloserStep, FailedStep

LEMMA BrokerMoves ==
  ASSUME StreamTypeOK, BrokerMove
  PROVE  /\ StreamTypeOK' /\ window' \subseteq window /\ StoredStays
         /\ \A m \in Messages : messages'[m] = "acked" => messages[m] = "acked" \/ Finished(m)
<1>1. CASE UNCHANGED streamVars \/ \E m \in Messages : HandOut(m) \/ NackMessage(m)
  <2>1. \/ \E id \in MessageIds : ForgetDuplicate(id)
        \/ \E m \in Messages : ExpireMessage(m) \/ HandOut(m) \/ NackMessage(m)
        \/ UNCHANGED streamVars
    BY Zenon, <1>1
  <2> HIDE DEF Messages, MessageIds
  <2> QED BY Zenon, <2>1, StreamMoves
<1>2. ASSUME NEW m \in Messages, Finished(m), AckMessage(m)
      PROVE  /\ StreamTypeOK' /\ window' \subseteq window /\ StoredStays
             /\ \A n \in Messages : messages'[n] = "acked" => messages[n] = "acked" \/ Finished(n)
  BY Zenon, <1>2, AckMoves
<1> QED BY Zenon, <1>1, <1>2 DEF BrokerMove

-----------------------------------------------------------------------------
(* The actors. *)

(* deliver goes from one of its states to a well-formed one, and to its    *)
(* Ack only with a finished message.                                       *)
HandlerTo(c, h) ==
  /\ h \in Handlers
  /\ handler' = [handler EXCEPT ![c] = h]
  /\ h.pc # "idle" => h.msg \in Messages
  /\ h.pc \in {"place", "unqueue", "release"} => h.token \in AssignTokens
  /\ h.pc = "ack" => h = handler[c] \/ Finished(h.msg)

LEMMA HandlerStays ==
  ASSUME SessionTypeOK, ActorState, NEW c \in Connections, UNCHANGED handler
  PROVE  \E h : HandlerTo(c, h)
<1>1. HandlerTo(c, handler[c])
  BY Zenon DEF SessionTypeOK, ActorState, HandlerTo
<1> QED BY Zenon, <1>1

LEMMA HandlerEnds ==
  ASSUME SessionTypeOK, NEW c \in Connections, DoneHandling(c)
  PROVE  \E h : HandlerTo(c, h)
<1>1. NotHandling \in Handlers /\ NotHandling.pc = "idle"
  BY Zenon DEF NotHandling, Handlers, Handling
<1>2. HandlerTo(c, NotHandling)
  BY Zenon, <1>1 DEF HandlerTo, DoneHandling
<1> QED BY Zenon, <1>2

LEMMA HandlerGoes ==
  ASSUME SessionTypeOK, NEW c \in Connections, NEW pc \in Handling, Handle(c, pc),
         handler[c].msg \in Messages,
         pc \in {"place", "unqueue", "release"} => handler[c].token \in AssignTokens,
         pc = "ack" => Finished(handler[c].msg)
  PROVE  \E h : HandlerTo(c, h)
<1> DEFINE h == [handler[c] EXCEPT !.pc = pc]
<1>0. handler \in [Connections -> Handlers]
  BY Zenon DEF SessionTypeOK
<1>1. /\ h \in Handlers /\ h.pc = pc /\ h.msg = handler[c].msg /\ h.token = handler[c].token
      /\ handler' = [handler EXCEPT ![c] = h]
  BY Zenon, <1>0 DEF Handlers, Handle
<1> HIDE DEF h
<1>2. HandlerTo(c, h)
  BY Zenon, <1>1 DEF HandlerTo
<1> QED BY Zenon, <1>2

LEMMA SessionHandler ==
  ASSUME SessionInv, NEW c \in Connections, SessionAct(c)
  PROVE  \E h : HandlerTo(c, h)
<1>0. SessionTypeOK /\ ActorState
  BY Zenon DEF SessionInv
<1>1. CASE UNCHANGED handler
  BY Zenon, <1>0, <1>1, HandlerStays
<1>2. CASE DoneHandling(c)
  BY Zenon, <1>0, <1>2, HandlerEnds
<1>3. CASE Handle(c, "nack") /\ handler[c].pc # "idle"
  BY Zenon, <1>0, <1>3, HandlerGoes DEF ActorState, Handling
<1>4. CASE (Handle(c, "unqueue") \/ Handle(c, "release")) /\ handler[c].pc \in {"place", "unqueue"}
  BY Zenon, <1>0, <1>4, HandlerGoes DEF ActorState, Handling
<1>5. ASSUME NEW m \in Messages, Receive(c, m)
      PROVE  \E h : HandlerTo(c, h)
  <2> DEFINE h == [pc |-> "assign", msg |-> m, token |-> None]
  <2>1. h \in Handlers /\ h.pc = "assign" /\ h.msg = m
    BY Zenon DEF Handlers, Handling
  <2>2. handler' = [handler EXCEPT ![c] = h]
    BY Zenon, <1>5 DEF Receive
  <2> HIDE DEF h
  <2>3. HandlerTo(c, h)
    BY Zenon, <2>1, <2>2 DEF HandlerTo
  <2> QED BY Zenon, <2>3
<1>6. CASE Assign(c)
  <2>1. handler[c].pc = "assign" /\ handler[c].msg \in Messages
    BY Zenon, <1>0, <1>6 DEF Assign, ActorState
  <2>2. \/ Handle(c, "nack")
        \/ Handle(c, "ack") /\ Finished(handler[c].msg)
        \/ \E token \in FreshAssignTokens :
             handler' = [handler EXCEPT ![c] = [pc |-> "place", msg |-> handler[c].msg, token |-> token]]
    BY Zenon, <1>6 DEF Assign, Finished
  <2>3. CASE Handle(c, "ack") /\ Finished(handler[c].msg)
    BY Zenon, <1>0, <2>1, <2>3, HandlerGoes DEF Handling
  <2>4. ASSUME NEW token \in FreshAssignTokens,
               handler' = [handler EXCEPT ![c] = [pc |-> "place", msg |-> handler[c].msg, token |-> token]]
        PROVE  \E h : HandlerTo(c, h)
    <3> DEFINE h == [pc |-> "place", msg |-> handler[c].msg, token |-> token]
    <3>1. token \in AssignTokens
      BY Zenon DEF FreshAssignTokens
    <3>2. h \in Handlers /\ h.pc = "place" /\ h.msg = handler[c].msg /\ h.token = token
      BY Zenon, <2>1, <3>1 DEF Handlers, Handling
    <3>3. handler' = [handler EXCEPT ![c] = h]
      BY Zenon, <2>4
    <3> HIDE DEF h
    <3>4. HandlerTo(c, h)
      BY Zenon, <2>1, <3>1, <3>2, <3>3 DEF HandlerTo
    <3> QED BY Zenon, <3>4
  <2> QED BY Zenon, <1>3, <2>1, <2>2, <2>3, <2>4
<1>7. \/ UNCHANGED handler \/ DoneHandling(c)
      \/ Handle(c, "nack") /\ handler[c].pc # "idle"
      \/ (Handle(c, "unqueue") \/ Handle(c, "release")) /\ handler[c].pc \in {"place", "unqueue"}
      \/ \E m \in Messages : Receive(c, m)
      \/ Assign(c)
  <2>1. CASE Place(c) \/ Unqueue(c) \/ HandlerSettle(c) \/ Die(c)
    BY Zenon, <2>1 DEF Place, Unqueue, HandlerSettle, Die, DoneHandling
  <2>2. CASE HandlerRelease(c) \/ AssignLost(c) \/ ReleaseLost(c) \/ SettleLost(c)
    <3>1. handler[c].pc = "release" \/ handler[c].pc = "assign" => handler[c].pc # "idle"
      BY Zenon
    <3> QED BY Zenon, <2>2, <3>1 DEF HandlerRelease, AssignLost, ReleaseLost, SettleLost
  <2>3. CASE \/ Start(c) \/ (\E m \in Messages : Refuse(c, m)) \/ ReaderStep(c) \/ ControlLookup(c)
             \/ CloseStart(c) \/ CloserStep(c) \/ CloseTimeout(c) \/ ControlLost(c)
    BY Zenon, <2>3 DEF Start, Refuse, ReaderStep, ControlStore, ControlBroker, ControlRemove,
       ControlLookup, CloseStart, CloserStep, CloseSnapshot, Snapshot, CloseTake, CloseRelease,
       CloseNack, CloseDone, CloseTimeout, ControlLost, sessionVars
  <2> QED BY Zenon, <2>1, <2>2, <2>3 DEF SessionAct, HandlerStep, FailedStep
<1> QED BY <1>1, <1>2, <1>3, <1>4, <1>5, <1>6, <1>7

(* control, likewise; the row is acknowledged in the step that leads to    *)
(* the Ack of the message, or was before.                                  *)
ReaderTo(c, r) ==
  /\ r \in Readers
  /\ reader' = [reader EXCEPT ![c] = r]
  /\ r.pc # "idle" => r.entry \in Entries
  /\ r.pc = "broker" /\ r.op = "ack" => r = reader[c] \/ FinishedNext(r.entry.msg)

LEMMA ReaderGoes ==
  ASSUME SessionTypeOK, NEW c \in Connections, NEW pc \in {"broker", "remove"},
         reader' = [reader EXCEPT ![c].pc = pc], reader[c].entry \in Entries,
         pc = "broker" /\ reader[c].op = "ack" => FinishedNext(reader[c].entry.msg)
  PROVE  \E r : ReaderTo(c, r)
<1> DEFINE r == [reader[c] EXCEPT !.pc = pc]
<1>0. reader \in [Connections -> Readers]
  BY Zenon DEF SessionTypeOK
<1>1. /\ r \in Readers /\ r.pc = pc /\ r.op = reader[c].op /\ r.entry = reader[c].entry
      /\ reader' = [reader EXCEPT ![c] = r]
  BY Zenon, <1>0 DEF Readers
<1> HIDE DEF r
<1>2. ReaderTo(c, r)
  BY Zenon, <1>1 DEF ReaderTo
<1> QED BY Zenon, <1>2

LEMMA AckedNext ==
  ASSUME StoreTypeOK, NEW c \in Connections, reader[c].entry \in Entries, reader[c].op = "ack",
         \/ MayControl(c) /\ ControlEffect(c)
         \/ AckedByMe(c, reader[c].entry) /\ UNCHANGED storeVars
  PROVE  FinishedNext(reader[c].entry.msg)
<1> DEFINE e == reader[c].entry
<1>1. e.msg \in Messages /\ DeliveryOf(e.msg) \in Deliveries
  BY Zenon, EntryParts, MessageParts
<1>2. CASE MayControl(c) /\ ControlEffect(c)
  <2>1. AcknowledgeStreamDelivery(e) /\ row[DeliveryOf(e.msg)].generation = GenerationOf(e.msg)
    BY Zenon, <1>2 DEF MayControl, Assigned, ControlEffect
  <2>2. row'[DeliveryOf(e.msg)].status = "acked"
        /\ row'[DeliveryOf(e.msg)].generation = row[DeliveryOf(e.msg)].generation
    BY Zenon, <1>1, <2>1, AcknowledgeType DEF AcknowledgeStreamDelivery, Statuses
  <2> QED BY Zenon, <2>1, <2>2 DEF FinishedNext
<1>3. CASE AckedByMe(c, e) /\ UNCHANGED storeVars
  BY Zenon, <1>3 DEF AckedByMe, storeVars, FinishedNext
<1> QED BY Zenon, <1>2, <1>3

LEMMA SessionReader ==
  ASSUME SessionInv, NEW c \in Connections, SessionAct(c)
  PROVE  \E r : ReaderTo(c, r)
<1>0. SessionTypeOK /\ ActorState /\ StoreTypeOK
  BY Zenon DEF SessionInv, DispatchInv, PathTypeOK
<1>1. CASE UNCHANGED reader
  <2>1. ReaderTo(c, reader[c])
    BY Zenon, <1>0, <1>1 DEF SessionTypeOK, ActorState, ReaderTo
  <2> QED BY Zenon, <2>1
<1>2. CASE DoneReading(c)
  <2>1. NotReading \in Readers /\ NotReading.pc = "idle"
    BY Zenon DEF NotReading, Readers
  <2>2. ReaderTo(c, NotReading)
    BY Zenon, <1>2, <2>1 DEF ReaderTo, DoneReading
  <2> QED BY Zenon, <2>2
<1>3. CASE ControlLookup(c)
  <2>1. PICK op \in {"ack", "nack", "progress"}, d \in InFlight(c) :
          reader' = [reader EXCEPT ![c] = [pc |-> "store", op |-> op, entry |-> inflight[c][d],
                                           live |-> op # "progress" /\ Fenced(c, inflight[c][d])]]
    BY Zenon, <1>3 DEF ControlLookup
  <2>2. inflight[c][d] \in Entries
    BY Zenon, <1>0 DEF InFlight, SessionTypeOK
  <2>3. (op # "progress" /\ Fenced(c, inflight[c][d])) \in BOOLEAN
    BY Zenon DEF Fenced
  <2> DEFINE r == [pc |-> "store", op |-> op, entry |-> inflight[c][d],
                   live |-> op # "progress" /\ Fenced(c, inflight[c][d])]
  <2>4. r \in Readers
    BY Zenon, <2>2, <2>3 DEF Readers
  <2>5. r.pc = "store" /\ r.entry = inflight[c][d]
    BY Zenon
  <2>6. reader' = [reader EXCEPT ![c] = r]
    BY Zenon, <2>1
  <2> HIDE DEF r
  <2>7. ReaderTo(c, r)
    BY Zenon, <2>2, <2>4, <2>5, <2>6 DEF ReaderTo
  <2> QED BY Zenon, <2>7
<1>4. CASE ControlStore(c)
  <2>1. reader[c].pc = "store" /\ reader[c].entry \in Entries
    BY Zenon, <1>0, <1>4 DEF ControlStore, ActorState
  <2>2. \/ DoneReading(c)
        \/ /\ reader' = [reader EXCEPT ![c].pc = "broker"]
           /\ \/ MayControl(c) /\ ControlEffect(c)
              \/ AckedByMe(c, reader[c].entry) /\ UNCHANGED storeVars
    BY Zenon, <1>4 DEF ControlStore
  <2>3. CASE /\ reader' = [reader EXCEPT ![c].pc = "broker"]
             /\ \/ MayControl(c) /\ ControlEffect(c)
                \/ AckedByMe(c, reader[c].entry) /\ UNCHANGED storeVars
    <3>1. reader[c].op = "ack" => FinishedNext(reader[c].entry.msg)
      BY Zenon, <1>0, <2>1, <2>3, AckedNext
    <3> QED BY Zenon, <1>0, <2>1, <2>3, <3>1, ReaderGoes
  <2> QED BY Zenon, <1>2, <2>2, <2>3
<1>5. CASE ControlBroker(c)
  BY Zenon, <1>0, <1>5, ReaderGoes DEF ControlBroker, ActorState
<1>6. \/ UNCHANGED reader \/ DoneReading(c)
      \/ ControlLookup(c) \/ ControlStore(c) \/ ControlBroker(c)
  BY Zenon DEF SessionAct, HandlerStep, ReaderStep, CloserStep, FailedStep, Start, Receive, Refuse,
     Assign, Place, Unqueue, HandlerRelease, HandlerSettle, ControlRemove, CloseStart, CloseSnapshot,
     Snapshot, CloseTake, CloseRelease, CloseNack, CloseDone, CloseTimeout, AssignLost, ControlLost,
     ReleaseLost, SettleLost, Die, DoneReading, sessionVars
<1> QED BY Zenon, <1>1, <1>2, <1>3, <1>4, <1>5, <1>6

(* Close, likewise. *)
CloserTo(c, k) ==
  /\ k \in Closers
  /\ closer' = [closer EXCEPT ![c] = k]
  /\ k.pc # "take" => k.entry \in Entries

LEMMA SessionCloser ==
  ASSUME SessionInv, NEW c \in Connections, SessionAct(c)
  PROVE  \E k : CloserTo(c, k)
<1>0. SessionTypeOK /\ ActorState /\ closer \in [Connections -> Closers]
  BY Zenon DEF SessionInv, SessionTypeOK
<1>1. CASE UNCHANGED closer
  <2>1. CloserTo(c, closer[c])
    BY Zenon, <1>0, <1>1 DEF ActorState, CloserTo
  <2> QED BY Zenon, <2>1
<1>2. CASE closer' = [closer EXCEPT ![c] = NothingToClose]
  <2>1. NothingToClose \in Closers /\ NothingToClose.pc = "take"
    BY Zenon DEF NothingToClose, Closers
  <2>2. CloserTo(c, NothingToClose)
    BY Zenon, <1>2, <2>1 DEF CloserTo
  <2> QED BY Zenon, <2>2
<1>3. CASE closer' = [closer EXCEPT ![c].ids = InFlight(c)]
  <2> DEFINE k == [closer[c] EXCEPT !.ids = InFlight(c)]
  <2>1. InFlight(c) \in SUBSET Deliveries
    BY Zenon DEF InFlight
  <2>2. /\ k \in Closers /\ k.pc = closer[c].pc /\ k.entry = closer[c].entry
        /\ closer' = [closer EXCEPT ![c] = k]
    BY Zenon, <1>0, <1>3, <2>1 DEF Closers
  <2> HIDE DEF k
  <2>3. CloserTo(c, k)
    BY Zenon, <1>0, <2>2 DEF ActorState, CloserTo
  <2> QED BY Zenon, <2>3
<1>4. CASE CloseTake(c)
  <2>1. PICK d \in closer[c].ids :
          closer' = [closer EXCEPT ![c] =
            [pc |-> IF inflight[c][d] = None THEN "take" ELSE "release",
             entry |-> inflight[c][d], ids |-> closer[c].ids \ {d}]]
    BY Zenon, <1>0, <1>4 DEF CloseTake
  <2> DEFINE k == [pc |-> IF inflight[c][d] = None THEN "take" ELSE "release",
                   entry |-> inflight[c][d], ids |-> closer[c].ids \ {d}]
  <2>2. closer[c].ids \in SUBSET Deliveries /\ d \in Deliveries
    BY Zenon, <1>0, <2>1 DEF Closers
  <2>3. inflight[c][d] \in Entries \cup {None}
    BY <1>0, <2>2 DEF SessionTypeOK
  <2>4. k \in Closers
    BY Zenon, <2>2, <2>3 DEF Closers
  <2>5. k.pc # "take" => k.entry \in Entries
    BY Zenon, <2>3
  <2>6. closer' = [closer EXCEPT ![c] = k]
    BY Zenon, <2>1
  <2> HIDE DEF k
  <2>7. CloserTo(c, k)
    BY Zenon, <2>4, <2>5, <2>6 DEF CloserTo
  <2> QED BY Zenon, <2>7
<1>5. CASE closer' = [closer EXCEPT ![c].pc = "nack"] /\ closer[c].pc = "release"
  <2> DEFINE k == [closer[c] EXCEPT !.pc = "nack"]
  <2>1. /\ k \in Closers /\ k.entry = closer[c].entry
        /\ closer' = [closer EXCEPT ![c] = k]
    BY Zenon, <1>0, <1>5 DEF Closers
  <2> HIDE DEF k
  <2>2. CloserTo(c, k)
    BY Zenon, <1>0, <1>5, <2>1 DEF ActorState, CloserTo
  <2> QED BY Zenon, <2>2
<1>6. CASE closer' = [closer EXCEPT ![c].pc = "take", ![c].entry = None]
  <2> DEFINE k == [closer[c] EXCEPT !.pc = "take", !.entry = None]
  <2>1. k \in Closers /\ k.pc = "take"
    BY Zenon, <1>0 DEF Closers
  <2>2. closer' = [closer EXCEPT ![c] = k]
    BY Zenon, <1>0, <1>6 DEF Closers
  <2> HIDE DEF k
  <2>3. CloserTo(c, k)
    BY Zenon, <2>1, <2>2 DEF CloserTo
  <2> QED BY Zenon, <2>3
<1>7. \/ UNCHANGED closer \/ closer' = [closer EXCEPT ![c] = NothingToClose]
      \/ closer' = [closer EXCEPT ![c].ids = InFlight(c)]
      \/ CloseTake(c)
      \/ closer' = [closer EXCEPT ![c].pc = "nack"] /\ closer[c].pc = "release"
      \/ closer' = [closer EXCEPT ![c].pc = "take", ![c].entry = None]
  BY Zenon DEF SessionAct, HandlerStep, ReaderStep, CloserStep, FailedStep, Start, Receive, Refuse,
     Assign, Place, Unqueue, HandlerRelease, HandlerSettle, ControlLookup, ControlStore,
     ControlBroker, ControlRemove, CloseStart, CloseSnapshot, Snapshot, CloseRelease, CloseNack,
     CloseDone, CloseTimeout, AssignLost, ControlLost, ReleaseLost, SettleLost, Die, sessionVars
<1> QED BY Zenon, <1>1, <1>2, <1>3, <1>4, <1>5, <1>6, <1>7

LEMMA SessionPhases ==
  ASSUME SessionTypeOK, NEW c \in Connections, SessionAct(c)
  PROVE  phase' \in [Connections -> Phases] /\ errors' \in 0..MaxErrors
<1>1. \/ UNCHANGED phase
      \/ \E p \in {"open", "closing", "releasing", "closed"} : phase' = [phase EXCEPT ![c] = p]
  BY Zenon DEF SessionAct, HandlerStep, ReaderStep, CloserStep, FailedStep, Start, Receive, Refuse,
     Assign, Place, Unqueue, HandlerRelease, HandlerSettle, ControlLookup, ControlStore,
     ControlBroker, ControlRemove, CloseStart, CloseSnapshot, Snapshot, CloseTake, CloseRelease,
     CloseNack, CloseDone, CloseTimeout, AssignLost, ControlLost, ReleaseLost, SettleLost, Die,
     sessionVars
<1>2. UNCHANGED errors \/ Error
  BY Zenon DEF SessionAct, HandlerStep, ReaderStep, CloserStep, FailedStep, Start, Receive, Refuse,
     Assign, Place, Unqueue, HandlerRelease, HandlerSettle, ControlLookup, ControlStore,
     ControlBroker, ControlRemove, CloseStart, CloseSnapshot, CloseTake, CloseRelease, CloseNack,
     CloseDone, CloseTimeout, AssignLost, ControlLost, ReleaseLost, SettleLost, Die, sessionVars
<1>3. errors' \in 0..MaxErrors
  BY <1>2, SessionConstants DEF SessionTypeOK, Error
<1> QED BY Zenon, <1>1, <1>3 DEF SessionTypeOK, Phases

-----------------------------------------------------------------------------
(* Room: what a step of session c does to its entries, its bytes and the   *)
(* slot that deliver reserved.                                             *)
Reserving == {"assign", "place"}

RoomMove(c) ==
  \/ UNCHANGED <<inflight, bytes>> /\ (handler'[c].pc \in Reserving => handler[c].pc \in Reserving)
  \/ UNCHANGED <<inflight, bytes>> /\ HasRoom(c)
  \/ /\ handler[c].pc \in Reserving /\ handler'[c].pc \notin Reserving
     /\ \E d \in Deliveries, e \in Entries : inflight' = [inflight EXCEPT ![c][d] = e]
     /\ bytes' = [bytes EXCEPT ![c] = @ + 1]
  \/ /\ \E d \in Deliveries : Forget(c, d)
     /\ handler'[c].pc \in Reserving => handler[c].pc \in Reserving
  \/ /\ inflight' = [inflight EXCEPT ![c] = [d \in Deliveries |-> None]]
     /\ bytes' = [bytes EXCEPT ![c] = 0]
     /\ handler'[c].pc \notin Reserving

LEMMA SessionRoom ==
  ASSUME SessionInv, NEW c \in Connections, SessionAct(c)
  PROVE  RoomMove(c)
<1>0. SessionTypeOK /\ ActorState /\ handler \in [Connections -> Handlers]
  BY Zenon DEF SessionInv, SessionTypeOK
<1>1. ASSUME NEW pc, Handle(c, pc) PROVE handler'[c].pc = pc
  BY Zenon, <1>0, <1>1 DEF Handle, Handlers
<1>2. DoneHandling(c) => handler'[c].pc = "idle"
  BY <1>0 DEF DoneHandling, NotHandling
<1>3. CASE UNCHANGED <<inflight, bytes, handler>>
  BY Zenon, <1>3 DEF RoomMove
<1>4. CASE \E m \in Messages : Receive(c, m)
  BY Zenon, <1>4 DEF Receive, RoomMove
<1>5. CASE Assign(c) \/ AssignLost(c)
  <2>1. handler[c].pc \in Reserving /\ UNCHANGED <<inflight, bytes>>
    BY Zenon, <1>5 DEF Assign, AssignLost, Reserving
  <2> QED BY Zenon, <2>1 DEF RoomMove
<1>6. CASE Place(c)
  <2>1. handler[c].pc \in Reserving /\ handler[c].pc = "place"
    BY Zenon, <1>6 DEF Place, Reserving
  <2>2. CASE phase[c] # "open"
    BY Zenon, <1>6, <2>1, <2>2 DEF Place, RoomMove
  <2>3. CASE phase[c] = "open"
    <3>1. DeliveryOf(handler[c].msg) \in Deliveries /\ HandlerEntry(c) \in Entries
      BY Zenon, <1>0, <2>1, MessageParts DEF ActorState, HandlerEntry, Entries
    <3>2. handler'[c].pc \in {"idle", "unqueue"}
      BY Zenon, <1>1, <1>2, <1>6, <2>3 DEF Place
    <3>3. handler'[c].pc \notin Reserving
      BY Zenon, <3>2 DEF Reserving
    <3>4. /\ inflight' = [inflight EXCEPT ![c][DeliveryOf(handler[c].msg)] = HandlerEntry(c)]
          /\ bytes' = [bytes EXCEPT ![c] = @ + 1]
      BY Zenon, <1>6, <2>3 DEF Place
    <3> QED BY Zenon, <2>1, <3>1, <3>3, <3>4 DEF RoomMove
  <2> QED BY Zenon, <2>2, <2>3
<1>7. CASE Unqueue(c)
  <2>1. DeliveryOf(handler[c].msg) \in Deliveries
    BY Zenon, <1>0, <1>7, MessageParts DEF Unqueue, ActorState
  <2>2. handler'[c].pc \in {"idle", "release"}
    BY Zenon, <1>1, <1>2, <1>7 DEF Unqueue
  <2>3. handler'[c].pc \notin Reserving
    BY Zenon, <2>2 DEF Reserving
  <2>4. Forget(c, DeliveryOf(handler[c].msg))
    BY Zenon, <1>7 DEF Unqueue
  <2> QED BY Zenon, <2>1, <2>3, <2>4 DEF RoomMove
<1>8. CASE UNCHANGED <<inflight, bytes>> /\ (DoneHandling(c) \/ Handle(c, "nack"))
  BY Zenon, <1>1, <1>2, <1>8 DEF RoomMove, Reserving
<1>9. CASE ControlRemove(c) \/ CloseTake(c)
  <2>1. \E d \in Deliveries : Forget(c, d)
    <3>1. CASE ControlRemove(c)
      <4>1. DeliveryOf(reader[c].entry.msg) \in Deliveries
        BY Zenon, <1>0, <3>1, EntryParts, MessageParts DEF ControlRemove, ActorState
      <4> QED BY Zenon, <3>1, <4>1 DEF ControlRemove
    <3>2. CASE CloseTake(c)
      <4>1. closer[c].ids \subseteq Deliveries
        BY Zenon, <1>0 DEF SessionTypeOK, Closers
      <4> QED BY Zenon, <3>2, <4>1 DEF CloseTake
    <3> QED BY Zenon, <1>9, <3>1, <3>2
  <2>2. UNCHANGED handler
    BY Zenon, <1>9 DEF ControlRemove, CloseTake
  <2> QED BY Zenon, <2>1, <2>2 DEF RoomMove
<1>10. CASE Die(c)
  <2>1. handler'[c].pc \notin Reserving
    BY Zenon, <1>0, <1>10 DEF Die, NotHandling, Reserving
  <2> QED BY Zenon, <1>10, <2>1 DEF Die, RoomMove
<1>11. \/ UNCHANGED <<inflight, bytes, handler>> \/ (\E m \in Messages : Receive(c, m))
       \/ Assign(c) \/ AssignLost(c) \/ Place(c) \/ Unqueue(c)
       \/ UNCHANGED <<inflight, bytes>> /\ (DoneHandling(c) \/ Handle(c, "nack"))
       \/ ControlRemove(c) \/ CloseTake(c) \/ Die(c)
  BY Zenon DEF SessionAct, HandlerStep, ReaderStep, CloserStep, FailedStep, Start, Refuse,
     HandlerRelease, HandlerSettle, ControlLookup, ControlStore, ControlBroker, CloseStart,
     CloseSnapshot, Snapshot, CloseRelease, CloseNack, CloseDone, CloseTimeout, ControlLost,
     ReleaseLost, SettleLost, sessionVars
<1> QED BY Zenon, <1>3, <1>4, <1>5, <1>6, <1>7, <1>8, <1>9, <1>10, <1>11

(* The cardinality facts that counting the entries in flight needs. *)
INSTANCE FiniteSetTheorems

LEMMA RoomKeeps ==
  ASSUME SessionTypeOK, RoomIsKept, NEW c \in Connections, RoomMove(c), NEW h, HandlerTo(c, h)
  PROVE  /\ inflight' \in [Connections -> [Deliveries -> Entries \cup {None}]]
         /\ bytes' \in [Connections -> 0..MaxBytes]
         /\ RoomIsKept'
<1> DEFINE Held(x) == {d \in Deliveries : inflight'[x][d] # None}
           ReservedNext(x) == IF handler'[x].pc \in Reserving THEN 1 ELSE 0
           Fits(x) == /\ IsFiniteSet(Held(x))
                      /\ Cardinality(Held(x)) <= bytes'[x]
                      /\ Cardinality(Held(x)) + ReservedNext(x) <= MaxInFlight
                      /\ bytes'[x] + ReservedNext(x) <= MaxBytes
<1>0. /\ inflight \in [Connections -> [Deliveries -> Entries \cup {None}]]
      /\ bytes \in [Connections -> 0..MaxBytes]
      /\ handler \in [Connections -> Handlers]
      /\ handler' = [handler EXCEPT ![c] = h]
  BY Zenon DEF SessionTypeOK, HandlerTo
<1>1. ASSUME NEW x \in Connections
      PROVE  /\ IsFiniteSet(InFlight(x)) /\ Cardinality(InFlight(x)) \in Nat
             /\ bytes[x] \in Nat /\ Cardinality(InFlight(x)) <= bytes[x]
             /\ Cardinality(InFlight(x)) <= MaxInFlight /\ bytes[x] <= MaxBytes
             /\ handler[x].pc \in Reserving =>
                  Cardinality(InFlight(x)) + 1 <= MaxInFlight /\ bytes[x] + 1 <= MaxBytes
  <2>1. /\ IsFiniteSet(InFlight(x)) /\ Cardinality(InFlight(x)) <= bytes[x]
        /\ Cardinality(InFlight(x)) + Reserved(x) <= MaxInFlight
        /\ bytes[x] + Reserved(x) <= MaxBytes
    BY Zenon DEF RoomIsKept
  <2>2. Cardinality(InFlight(x)) \in Nat
    BY Zenon, <2>1, FS_CardinalityType
  <2>3. bytes[x] \in Nat
    BY <1>0, SessionConstants
  <2>4. Reserved(x) = IF handler[x].pc \in Reserving THEN 1 ELSE 0
    BY Zenon DEF Reserved, Reserving
  <2> HIDE DEF InFlight
  <2> QED BY <2>1, <2>2, <2>3, <2>4, SessionConstants
<1>2. ASSUME NEW x \in Connections, inflight'[x] = inflight[x], bytes'[x] = bytes[x],
             handler'[x].pc \in Reserving => handler[x].pc \in Reserving \/ HasRoom(x)
      PROVE  Fits(x)
  <2>1. Held(x) = InFlight(x)
    BY Zenon, <1>2 DEF InFlight
  <2>2. /\ HasRoom(x) => Cardinality(InFlight(x)) < MaxInFlight /\ bytes[x] < MaxBytes
    BY Zenon DEF HasRoom
  <2> HIDE DEF Held, InFlight
  <2> QED BY <1>1, <1>2, <2>1, <2>2, SessionConstants
<1>3. ASSUME inflight' = [inflight EXCEPT ![c] = inflight'[c]], bytes' = [bytes EXCEPT ![c] = bytes'[c]],
             inflight'[c] \in [Deliveries -> Entries \cup {None}], bytes'[c] \in Nat, Fits(c)
      PROVE  /\ inflight' \in [Connections -> [Deliveries -> Entries \cup {None}]]
             /\ bytes' \in [Connections -> 0..MaxBytes]
             /\ \A x \in Connections : Fits(x)
  <2>1. inflight' \in [Connections -> [Deliveries -> Entries \cup {None}]]
    BY Zenon, <1>0, <1>3
  <2>2. bytes'[c] \in 0..MaxBytes
    <3>1. bytes'[c] <= MaxBytes
      BY <1>3, SessionConstants
    <3> QED BY <1>3, <3>1, SessionConstants
  <2>3. bytes' \in [Connections -> 0..MaxBytes]
    BY Zenon, <1>0, <1>3, <2>2
  <2>4. ASSUME NEW x \in Connections, x # c
        PROVE  inflight'[x] = inflight[x] /\ bytes'[x] = bytes[x] /\ handler'[x] = handler[x]
    BY Zenon, <1>0, <1>3, <2>4
  <2>5. ASSUME NEW x \in Connections PROVE Fits(x)
    <3> HIDE DEF Fits
    <3> QED BY Zenon, <1>2, <1>3, <2>4
  <2> QED BY Zenon, <2>1, <2>3, <2>5
<1>4. /\ inflight' = [inflight EXCEPT ![c] = inflight'[c]] /\ bytes' = [bytes EXCEPT ![c] = bytes'[c]]
      /\ inflight'[c] \in [Deliveries -> Entries \cup {None}] /\ bytes'[c] \in Nat /\ Fits(c)
  <2>1. CASE /\ UNCHANGED <<inflight, bytes>>
             /\ handler'[c].pc \in Reserving => handler[c].pc \in Reserving \/ HasRoom(c)
    <3>1. Fits(c)
      BY Zenon, <1>2, <2>1
    <3> HIDE DEF Fits
    <3> QED BY Zenon, <1>0, <1>1, <2>1, <3>1
  <2>2. ASSUME handler[c].pc \in Reserving, handler'[c].pc \notin Reserving,
               NEW d \in Deliveries, NEW e \in Entries, inflight' = [inflight EXCEPT ![c][d] = e],
               bytes' = [bytes EXCEPT ![c] = @ + 1]
        PROVE  /\ inflight' = [inflight EXCEPT ![c] = inflight'[c]]
               /\ bytes' = [bytes EXCEPT ![c] = bytes'[c]]
               /\ inflight'[c] \in [Deliveries -> Entries \cup {None}] /\ bytes'[c] \in Nat /\ Fits(c)
    <3>1. /\ inflight' = [inflight EXCEPT ![c] = inflight'[c]]
          /\ inflight'[c] \in [Deliveries -> Entries \cup {None}]
          /\ inflight'[c] = [inflight[c] EXCEPT ![d] = e]
      BY Zenon, <1>0, <2>2
    <3>2. bytes' = [bytes EXCEPT ![c] = bytes'[c]] /\ bytes'[c] = bytes[c] + 1 /\ bytes'[c] \in Nat
      BY <1>0, <1>1, <2>2
    <3>3. Held(c) \subseteq InFlight(c) \cup {d}
      BY Zenon, <1>0, <3>1 DEF InFlight
    <3>4. IsFiniteSet(Held(c)) /\ Cardinality(Held(c)) \in Nat
          /\ Cardinality(Held(c)) <= Cardinality(InFlight(c)) + 1
      <4>1. /\ IsFiniteSet(InFlight(c) \cup {d})
            /\ Cardinality(InFlight(c) \cup {d}) =
                 IF d \in InFlight(c) THEN Cardinality(InFlight(c)) ELSE Cardinality(InFlight(c)) + 1
        BY Zenon, <1>1, FS_AddElement
      <4>2. /\ IsFiniteSet(Held(c))
            /\ Cardinality(Held(c)) <= Cardinality(InFlight(c) \cup {d})
        BY Zenon, <3>3, <4>1, FS_Subset
      <4>3. Cardinality(Held(c)) \in Nat
        BY Zenon, <4>2, FS_CardinalityType
      <4> HIDE DEF Held, InFlight
      <4> QED BY <1>1, <4>1, <4>2, <4>3
    <3> HIDE DEF Held, InFlight
    <3>5. Fits(c)
      BY <1>1, <2>2, <3>2, <3>4, SessionConstants
    <3> HIDE DEF Fits
    <3> QED BY Zenon, <3>1, <3>2, <3>5
  <2>3. ASSUME NEW d \in Deliveries, Forget(c, d),
               handler'[c].pc \in Reserving => handler[c].pc \in Reserving
        PROVE  /\ inflight' = [inflight EXCEPT ![c] = inflight'[c]]
               /\ bytes' = [bytes EXCEPT ![c] = bytes'[c]]
               /\ inflight'[c] \in [Deliveries -> Entries \cup {None}] /\ bytes'[c] \in Nat /\ Fits(c)
    <3>1. /\ inflight' = [inflight EXCEPT ![c] = inflight'[c]]
          /\ inflight'[c] \in [Deliveries -> Entries \cup {None}]
          /\ inflight'[c] = [inflight[c] EXCEPT ![d] = None]
      BY Zenon, <1>0, <2>3 DEF Forget
    <3>2. /\ bytes' = [bytes EXCEPT ![c] = bytes'[c]]
          /\ bytes'[c] = IF inflight[c][d] = None THEN bytes[c] ELSE bytes[c] - 1
      BY Zenon, <1>0, <2>3 DEF Forget
    <3>3. Held(c) = InFlight(c) \ {d} /\ (d \in InFlight(c) <=> inflight[c][d] # None)
      BY Zenon, <1>0, <3>1 DEF InFlight
    <3>4. /\ IsFiniteSet(Held(c)) /\ Cardinality(Held(c)) \in Nat
          /\ Cardinality(Held(c)) =
               IF d \in InFlight(c) THEN Cardinality(InFlight(c)) - 1 ELSE Cardinality(InFlight(c))
      <4>1. /\ IsFiniteSet(InFlight(c) \ {d})
            /\ Cardinality(InFlight(c) \ {d}) =
                 IF d \in InFlight(c) THEN Cardinality(InFlight(c)) - 1 ELSE Cardinality(InFlight(c))
        BY Zenon, <1>1, FS_RemoveElement
      <4>2. Cardinality(InFlight(c) \ {d}) \in Nat
        BY Zenon, <4>1, FS_CardinalityType
      <4> HIDE DEF Held, InFlight
      <4> QED BY Zenon, <3>3, <4>1, <4>2
    <3> HIDE DEF Held, InFlight
    <3>5. bytes'[c] \in Nat
      BY <1>1, <3>2, <3>3, <3>4
    <3>6. Fits(c)
      BY <1>1, <2>3, <3>2, <3>3, <3>4, <3>5, SessionConstants
    <3> HIDE DEF Fits
    <3> QED BY Zenon, <3>1, <3>2, <3>5, <3>6
  <2>4. CASE /\ inflight' = [inflight EXCEPT ![c] = [d \in Deliveries |-> None]]
             /\ bytes' = [bytes EXCEPT ![c] = 0]
             /\ handler'[c].pc \notin Reserving
    <3>1. /\ inflight' = [inflight EXCEPT ![c] = inflight'[c]]
          /\ inflight'[c] \in [Deliveries -> Entries \cup {None}]
          /\ inflight'[c] = [d \in Deliveries |-> None]
      BY Zenon, <1>0, <2>4
    <3>2. bytes' = [bytes EXCEPT ![c] = bytes'[c]] /\ bytes'[c] = 0
      BY Zenon, <1>0, <2>4
    <3>3. Held(c) = {}
      BY Zenon, <3>1
    <3>4. IsFiniteSet(Held(c)) /\ Cardinality(Held(c)) = 0
      BY Zenon, <3>3, FS_EmptySet
    <3> HIDE DEF Held
    <3>5. Fits(c)
      BY <2>4, <3>2, <3>4, SessionConstants
    <3> HIDE DEF Fits
    <3> QED BY <3>1, <3>2, <3>5
  <2> HIDE DEF Fits
  <2> QED BY Zenon, <2>1, <2>2, <2>3, <2>4 DEF RoomMove
<1>5. \A x \in Connections : Fits(x)
  BY Zenon, <1>3, <1>4
<1>6. RoomIsKept'
  BY Zenon, <1>5 DEF RoomIsKept, InFlight, Reserved, Reserving
<1> QED BY Zenon, <1>3, <1>4, <1>6

-----------------------------------------------------------------------------
(* The inductive invariant. *)

LEMMA SessionKeeps ==
  ASSUME SessionInv, NEW c \in Connections, SessionAct(c), UNCHANGED dispatcherVars
  PROVE  SessionInv'
<1>1. PICK h : HandlerTo(c, h)
  BY Zenon, SessionHandler
<1>2. PICK r : ReaderTo(c, r)
  BY Zenon, SessionReader
<1>3. PICK k : CloserTo(c, k)
  BY Zenon, SessionCloser
<1>4. /\ StoreTypeOK /\ StreamTypeOK /\ DispatchInv /\ SessionTypeOK /\ ActorState /\ AcksAreDue
      /\ RoomIsKept /\ GenerationsAgree /\ LeaseWithinDeadline
  BY Zenon DEF SessionInv, DispatchInv, PathTypeOK
<1>5. StoreMove(c) /\ BrokerMove /\ RoomMove(c)
  BY Zenon, SessionStore, SessionBroker, SessionRoom
<1>6. /\ StoreTypeOK' /\ UNCHANGED outbox
      /\ GenerationsAgree' /\ LeaseWithinDeadline'
      /\ \A m \in Messages : Finished(m) => FinishedNext(m)
  BY Zenon, <1>4, <1>5, StoreMoves, SessionKeepsRows
<1>7. /\ StreamTypeOK' /\ window' \subseteq window /\ StoredStays
      /\ \A m \in Messages : messages'[m] = "acked" => messages[m] = "acked" \/ Finished(m)
  BY Zenon, <1>4, <1>5, BrokerMoves
<1>8. DispatchInv'
  BY <1>4, <1>6, <1>7, OutboxUntouched, OthersKeep DEF dispatcherVars
<1>9. SessionTypeOK' /\ RoomIsKept'
  <2>1. /\ inflight' \in [Connections -> [Deliveries -> Entries \cup {None}]]
        /\ bytes' \in [Connections -> 0..MaxBytes] /\ RoomIsKept'
    BY Zenon, <1>1, <1>4, <1>5, RoomKeeps
  <2>2. phase' \in [Connections -> Phases] /\ errors' \in 0..MaxErrors
    BY Zenon, <1>4, SessionPhases
  <2>3. /\ handler' \in [Connections -> Handlers] /\ reader' \in [Connections -> Readers]
        /\ closer' \in [Connections -> Closers]
    BY Zenon, <1>1, <1>2, <1>3, <1>4 DEF SessionTypeOK, HandlerTo, ReaderTo, CloserTo
  <2> QED BY Zenon, <2>1, <2>2, <2>3 DEF SessionTypeOK
<1>10. ActorState'
  BY Zenon, <1>1, <1>2, <1>3, <1>4 DEF SessionTypeOK, ActorState, HandlerTo, ReaderTo, CloserTo
<1>11. AcksAreDue'
  <2>1. ASSUME NEW m \in Messages, messages'[m] = "acked"
        PROVE  FinishedNext(m)
    BY Zenon, <1>4, <1>6, <1>7, <2>1 DEF AcksAreDue
  <2>2. ASSUME NEW x \in Connections, handler'[x].pc = "ack"
        PROVE  FinishedNext(handler'[x].msg) /\ handler'[x].msg \in Messages
    <3>1. handler'[x].msg \in Messages
      BY Zenon, <1>10, <2>2 DEF ActorState
    <3>2. handler'[x] = handler[x] \/ Finished(handler'[x].msg)
      BY Zenon, <1>1, <1>4, <2>2 DEF SessionTypeOK, HandlerTo
    <3>3. Finished(handler'[x].msg)
      BY Zenon, <1>4, <2>2, <3>2 DEF AcksAreDue
    <3> QED BY Zenon, <1>6, <3>1, <3>3
  <2>3. ASSUME NEW x \in Connections, reader'[x].pc = "broker", reader'[x].op = "ack"
        PROVE  FinishedNext(reader'[x].entry.msg) /\ reader'[x].entry.msg \in Messages
    <3>1. reader'[x].entry.msg \in Messages
      BY Zenon, <1>10, <2>3, EntryParts DEF ActorState
    <3>2. reader'[x] = reader[x] \/ FinishedNext(reader'[x].entry.msg)
      BY Zenon, <1>2, <1>4, <2>3 DEF SessionTypeOK, ReaderTo
    <3>3. CASE reader'[x] = reader[x]
      BY <1>4, <1>6, <2>3, <3>1, <3>3 DEF AcksAreDue
    <3> QED BY Zenon, <3>1, <3>2, <3>3
  <2> QED BY Zenon, <2>1, <2>2, <2>3 DEF AcksAreDue, Finished, FinishedNext, Final
<1> QED BY Zenon, <1>6, <1>8, <1>9, <1>10, <1>11 DEF SessionInv

(* Steps of the others leave the sessions alone. *)
LEMMA OthersKeepSessions ==
  ASSUME SessionInv, UNCHANGED sessionVars, DispatchInv', GenerationsAgree', LeaseWithinDeadline',
         \A m \in Messages : Finished(m) => FinishedNext(m),
         \A m \in Messages : messages'[m] = "acked" => messages[m] = "acked"
  PROVE  SessionInv'
<1>1. SessionTypeOK' /\ ActorState' /\ RoomIsKept'
  BY Zenon DEF SessionInv, sessionVars, SessionTypeOK, ActorState, RoomIsKept, InFlight, Reserved
<1>2. AcksAreDue'
  <2>1. /\ AcksAreDue /\ ActorState /\ handler' = handler /\ reader' = reader
    BY Zenon DEF SessionInv, sessionVars
  <2>2. ASSUME NEW x \in Connections, handler[x].pc = "ack"
        PROVE  FinishedNext(handler[x].msg)
    BY Zenon, <2>1, <2>2 DEF AcksAreDue, ActorState
  <2>3. ASSUME NEW x \in Connections, reader[x].pc = "broker", reader[x].op = "ack"
        PROVE  FinishedNext(reader[x].entry.msg)
    BY Zenon, <2>1, <2>3, EntryParts DEF AcksAreDue, ActorState
  <2>4. ASSUME NEW m \in Messages, messages'[m] = "acked"
        PROVE  FinishedNext(m)
    BY Zenon, <2>1, <2>4 DEF AcksAreDue
  <2> QED BY Zenon, <2>1, <2>2, <2>3, <2>4 DEF AcksAreDue, Finished, FinishedNext, Final
<1> QED BY Zenon, <1>1, <1>2 DEF SessionInv

LEMMA TickKeepsSessions ==
  ASSUME SessionInv, Tick
  PROVE  SessionInv' /\ AckedStays /\ DeadlineStays /\ UNCHANGED row
<1>1. /\ StoreTypeOK /\ StreamTypeOK /\ DispatchInv /\ GenerationsAgree /\ LeaseWithinDeadline
      /\ StoreTick /\ UNCHANGED <<streamVars, dispatcherVars, sessionVars>>
  BY Zenon DEF SessionInv, DispatchInv, PathTypeOK, Tick
<1>2. StoreTypeOK' /\ RowsAgeOrReplay /\ UNCHANGED row /\ \A d \in Deliveries : SettledAsBefore(d)
  BY Zenon, <1>1, TickKeeps
<1>3. StreamTypeOK' /\ window' \subseteq window /\ StoredStays
  BY Zenon, <1>1, StreamMoves
<1>4. DispatchInv'
  BY Zenon, <1>1, <1>2, <1>3, OthersKeep DEF dispatcherVars
<1>5. ASSUME NEW d \in Deliveries
      PROVE  outbox'[d].generation = outbox[d].generation
  BY Zenon, <1>1 DEF StoreTick, StoreTypeOK, OutboxRows
<1>6. ASSUME NEW d \in Deliveries
      PROVE  /\ assignment'[d].conn = assignment[d].conn /\ assignment'[d].token = assignment[d].token
             /\ assignment'[d].expiresIn = Down(assignment[d].expiresIn)
             /\ assignment'[d].maxIn = Down(assignment[d].maxIn)
  <2>1. assignment[d] \in Assignments
    BY Zenon, <1>1 DEF StoreTypeOK
  <2>2. assignment'[d] = [assignment[d] EXCEPT !.expiresIn = Down(@), !.maxIn = Down(@)]
    BY Zenon, <1>1 DEF StoreTick
  <2> HIDE DEF Down
  <2> QED BY Zenon, <2>1, <2>2 DEF Assignments
<1>7. ASSUME NEW d \in Deliveries
      PROVE  /\ assignment'[d].expiresIn <= assignment'[d].maxIn
             /\ assignment'[d].maxIn <= assignment[d].maxIn
  <2>1. /\ assignment[d].expiresIn \in Nat /\ assignment[d].maxIn \in Nat
        /\ assignment[d].expiresIn <= assignment[d].maxIn
    BY <1>1, SessionConstants DEF StoreTypeOK, Assignments, LeaseWithinDeadline
  <2> QED BY <1>6, <2>1 DEF Down
<1>8. GenerationsAgree' /\ LeaseWithinDeadline'
  BY Zenon, <1>1, <1>2, <1>5, <1>7 DEF GenerationsAgree, LeaseWithinDeadline
<1>9. SessionInv'
  BY Zenon, <1>1, <1>2, <1>4, <1>8, OthersKeepSessions DEF Finished, FinishedNext, Final, streamVars
<1> QED BY Zenon, <1>2, <1>6, <1>7, <1>9 DEF AckedStays, DeadlineStays

LEMMA ReplayKeepsSessions ==
  ASSUME SessionInv, NEW ids \in SUBSET Deliveries, ReplayAdminDeadLetters(ids),
         UNCHANGED <<streamVars, dispatcherVars, sessionVars>>
  PROVE  SessionInv' /\ AckedStays /\ DeadlineStays
<1>1. /\ StoreTypeOK /\ StreamTypeOK /\ DispatchInv /\ GenerationsAgree /\ LeaseWithinDeadline
  BY Zenon DEF SessionInv, DispatchInv, PathTypeOK
<1>2. /\ StoreTypeOK' /\ RowsAgeOrReplay
      /\ \A d \in Deliveries : SettledAsBefore(d) \/ outbox'[d].state = "open"
  BY Zenon, <1>1, ReplayKeeps
<1>3. StreamTypeOK' /\ window' \subseteq window /\ StoredStays
  BY Zenon, <1>1, StreamMoves
<1>4. DispatchInv'
  BY Zenon, <1>1, <1>2, <1>3, OthersKeep DEF dispatcherVars
<1>5. ASSUME NEW d \in Deliveries
      PROVE  \/ row'[d] = row[d] /\ assignment'[d] = assignment[d] /\ outbox'[d] = outbox[d]
             \/ /\ row[d].status = "dead_letter" /\ row'[d].generation = row[d].generation + 1
                /\ outbox'[d].generation = row[d].generation + 1 /\ assignment'[d] = Unassigned
  BY Zenon DEF ReplayAdminDeadLetters, NewOutbox
<1>6. /\ Unassigned.expiresIn = 0 /\ Unassigned.maxIn = 0 /\ Unassigned.token = None
  BY Zenon DEF Unassigned
<1>7. ASSUME NEW m \in Messages, Finished(m)
      PROVE  FinishedNext(m)
  <2>1. DeliveryOf(m) \in Deliveries /\ GenerationOf(m) \in Nat
    BY Zenon, MessageParts
  <2>2. row[DeliveryOf(m)].generation \in Nat
    BY <1>1, <2>1, ConstantTypes DEF StoreTypeOK, Rows, Generations
  <2> QED BY <1>5, <1>7, <2>1, <2>2 DEF Finished, FinishedNext, Final
<1>8. GenerationsAgree' /\ LeaseWithinDeadline'
  BY <1>1, <1>5, <1>6 DEF GenerationsAgree, LeaseWithinDeadline
<1>9. SessionInv'
  BY Zenon, <1>4, <1>7, <1>8, OthersKeepSessions DEF streamVars
<1>10. ASSUME NEW d \in Deliveries
       PROVE  assignment[d].maxIn <= assignment[d].maxIn
  BY <1>1, SessionConstants DEF StoreTypeOK, Assignments
<1> QED BY Zenon, <1>5, <1>6, <1>8, <1>9, <1>10 DEF AckedStays, DeadlineStays, LeaseWithinDeadline

LEMMA StreamKeepsSessions ==
  ASSUME SessionInv, StreamStep
  PROVE  SessionInv' /\ AckedStays /\ DeadlineStays /\ UNCHANGED row
<1>1. /\ StoreTypeOK /\ StreamTypeOK /\ DispatchInv /\ GenerationsAgree /\ LeaseWithinDeadline
      /\ UNCHANGED <<storeVars, dispatcherVars, sessionVars>>
  BY Zenon DEF SessionInv, DispatchInv, PathTypeOK, StreamStep
<1>2. /\ StreamTypeOK' /\ window' \subseteq window /\ StoredStays
      /\ \A m \in Messages : messages'[m] = "acked" => messages[m] = "acked"
  <2>1. \/ \E id \in MessageIds : ForgetDuplicate(id)
        \/ \E m \in Messages : ExpireMessage(m) \/ HandOut(m) \/ NackMessage(m)
        \/ UNCHANGED streamVars
    BY Zenon DEF StreamStep
  <2> HIDE DEF Messages, MessageIds
  <2> QED BY Zenon, <1>1, <2>1, StreamMoves
<1>3. UNCHANGED <<row, assignment, callback, outbox>>
  BY Zenon, <1>1 DEF storeVars
<1>4. DispatchInv'
  BY <1>1, <1>2, <1>3, OutboxUntouched, OthersKeep DEF dispatcherVars, StoreTypeOK
<1>5. GenerationsAgree' /\ LeaseWithinDeadline'
  BY Zenon, <1>1, <1>3 DEF GenerationsAgree, LeaseWithinDeadline
<1>6. SessionInv'
  BY <1>1, <1>2, <1>3, <1>4, <1>5, OthersKeepSessions DEF Finished, FinishedNext, Final
<1>7. ASSUME NEW d \in Deliveries
      PROVE  assignment[d].maxIn <= assignment[d].maxIn
  BY <1>1, SessionConstants DEF StoreTypeOK, Assignments
<1> QED BY Zenon, <1>1, <1>3, <1>6, <1>7 DEF AckedStays, DeadlineStays, LeaseWithinDeadline

LEMMA OutboxKeepsSessions ==
  ASSUME SessionInv, OutboxStep
  PROVE  /\ SessionInv' /\ AckedStays /\ DeadlineStays
         /\ \A d \in Deliveries : StatusMoves(d)
<1>1. /\ StoreTypeOK /\ StreamTypeOK /\ DispatchInv /\ GenerationsAgree /\ LeaseWithinDeadline
      /\ UNCHANGED sessionVars
  BY Zenon DEF SessionInv, DispatchInv, PathTypeOK, OutboxStep
<1>2. PICK w \in Dispatchers : ClaimOutbox(w) \/ DispatcherStep(w) \/ Crash(w)
  BY Zenon DEF OutboxStep
<1>3. /\ DispatchInv' /\ \A d \in Deliveries : StatusMoves(d) /\ AssignmentMoves(d) /\ OutboxMoves(d)
      /\ \A m \in Messages : MessageMoves(m)
  BY Zenon, <1>1, <1>2, DispatcherMoves
<1>4. ASSUME NEW d \in Deliveries
      PROVE  /\ assignment'[d].expiresIn <= assignment'[d].maxIn
             /\ assignment'[d].maxIn <= assignment[d].maxIn
             /\ row[d].status = "acked" => row'[d] = row[d] /\ assignment'[d] = assignment[d]
  <2>1. StatusMoves(d) /\ AssignmentMoves(d) /\ assignment[d].expiresIn <= assignment[d].maxIn
    BY Zenon, <1>1, <1>3 DEF LeaseWithinDeadline
  <2>2. assignment[d].maxIn \in Nat
    BY <1>1, SessionConstants DEF StoreTypeOK, Assignments
  <2>3. row[d] \in Rows /\ row'[d] \in Rows
    BY Zenon, <1>1, <1>3 DEF DispatchInv, PathTypeOK, StoreTypeOK
  <2>4. row[d].status = "acked" => row'[d] = row[d]
    BY <2>1, <2>3 DEF StatusMoves, Rows
  <2> QED BY <2>1, <2>2, <2>4 DEF StatusMoves, AssignmentMoves
<1>5. GenerationsAgree' /\ LeaseWithinDeadline'
  BY Zenon, <1>1, <1>3, <1>4 DEF GenerationsAgree, LeaseWithinDeadline, StatusMoves, OutboxMoves
<1>6. ASSUME NEW m \in Messages
      PROVE  /\ Finished(m) => FinishedNext(m)
             /\ messages'[m] = "acked" => messages[m] = "acked"
  <2>1. DeliveryOf(m) \in Deliveries
    BY Zenon, MessageParts
  <2> QED BY Zenon, <1>3, <2>1 DEF Finished, FinishedNext, Final, StatusMoves, MessageMoves
<1>7. SessionInv'
  BY <1>1, <1>3, <1>5, <1>6, OthersKeepSessions
<1> QED BY Zenon, <1>3, <1>4, <1>7 DEF AckedStays, DeadlineStays

LEMMA SessionKeepsSettled ==
  ASSUME SessionInv, NEW c \in Connections, SessionAct(c), UNCHANGED dispatcherVars
  PROVE  AckedStays /\ DeadlineStays
<1>1. StoreTypeOK /\ LeaseWithinDeadline
  BY Zenon DEF SessionInv, DispatchInv, PathTypeOK
<1>2. StoreMove(c) /\ LeaseWithinDeadline'
  BY Zenon, SessionStore, SessionKeeps DEF SessionInv
<1>3. \A d \in Deliveries : SessionMoves(d)
  BY Zenon, <1>1, <1>2, StoreMoves
<1>4. AckedStays
  BY Zenon, <1>3 DEF AckedStays, SessionMoves, Final
<1>5. ASSUME NEW d \in Deliveries, assignment[d].token # None,
             assignment'[d].token = assignment[d].token
      PROVE  assignment'[d].maxIn <= assignment[d].maxIn
  <2>1. assignment[d].maxIn \in Nat
    BY <1>1, SessionConstants DEF StoreTypeOK, Assignments
  <2>2. assignment'[d].maxIn = assignment[d].maxIn
    BY <1>3, <1>5 DEF SessionMoves, Unassigned
  <2> QED BY <2>1, <2>2
<1> QED BY Zenon, <1>2, <1>4, <1>5 DEF DeadlineStays, LeaseWithinDeadline

LEMMA SessionInvInit == Init => SessionInv
<1> SUFFICES ASSUME Init PROVE SessionInv
  BY Zenon
<1>1. StoreInit /\ StreamInit /\ DispatcherInit /\ SessionInit
  BY Zenon DEF Init
<1>2. DispatchInv
  BY Zenon, <1>1, DispatchInvInit
<1>3. /\ NotHandling \in Handlers /\ NotHandling.pc = "idle"
      /\ NotReading \in Readers /\ NotReading.pc = "idle"
      /\ NothingToClose \in Closers /\ NothingToClose.pc = "take"
  BY Zenon DEF NotHandling, NotReading, NothingToClose, Handlers, Handling, Readers, Closers
<1> HIDE DEF NotHandling, NotReading, NothingToClose, Handlers, Readers, Closers
<1>4. SessionTypeOK
  BY Zenon, <1>1, <1>3, SessionConstants DEF SessionInit, SessionTypeOK, Phases
<1>5. ActorState
  BY Zenon, <1>1, <1>3 DEF SessionInit, ActorState
<1>6. AcksAreDue
  BY Zenon, <1>1, <1>3 DEF SessionInit, StreamInit, AcksAreDue
<1>7. RoomIsKept
  <2>1. ASSUME NEW c \in Connections
        PROVE  InFlight(c) = {} /\ bytes[c] = 0 /\ Reserved(c) = 0
    BY Zenon, <1>1, <1>3 DEF SessionInit, InFlight, Reserved
  <2>2. IsFiniteSet({}) /\ Cardinality({}) = 0
    BY Zenon, FS_EmptySet
  <2> HIDE DEF InFlight
  <2> QED BY <2>1, <2>2, SessionConstants DEF RoomIsKept
<1>8. GenerationsAgree /\ LeaseWithinDeadline
  BY <1>1 DEF StoreInit, NewOutbox, Unassigned, GenerationsAgree, LeaseWithinDeadline
<1> QED BY Zenon, <1>2, <1>4, <1>5, <1>6, <1>7, <1>8 DEF SessionInv

LEMMA SessionInvStep ==
  ASSUME SessionInv, [Next]_vars
  PROVE  SessionInv' /\ (UNCHANGED vars \/ (AckedStays /\ DeadlineStays))
<1>1. CASE Tick \/ StreamStep \/ OutboxStep
  BY Zenon, <1>1, TickKeepsSessions, StreamKeepsSessions, OutboxKeepsSessions
<1>2. CASE Replay
  BY Zenon, <1>2, ReplayKeepsSessions DEF Replay
<1>3. CASE SessionStep
  <2>1. PICK c \in Connections : SessionAct(c)
    BY Zenon, <1>3 DEF SessionStep, SessionAct
  <2>2. UNCHANGED dispatcherVars
    BY Zenon, <1>3 DEF SessionStep
  <2> QED BY Zenon, <2>1, <2>2, SessionKeeps, SessionKeepsSettled
<1>4. CASE UNCHANGED vars
  <2>1. UNCHANGED sessionVars /\ UNCHANGED streamVars /\ UNCHANGED storeVars /\ UNCHANGED dispatcherVars
    BY Zenon, <1>4 DEF vars
  <2>2. DispatchInv'
    <3>1. StoreTypeOK' /\ StreamTypeOK'
      BY Zenon, <2>1 DEF SessionInv, DispatchInv, PathTypeOK, StoreTypeOK, StreamTypeOK, storeVars, streamVars
    <3>2. window' \subseteq window /\ StoredStays
      BY Zenon, <2>1, StreamMoves DEF SessionInv, DispatchInv, PathTypeOK
    <3> QED BY <2>1, <3>1, <3>2, OutboxUntouched, OthersKeep
        DEF SessionInv, dispatcherVars, storeVars
  <2>3. GenerationsAgree' /\ LeaseWithinDeadline'
    BY Zenon, <2>1 DEF SessionInv, GenerationsAgree, LeaseWithinDeadline, storeVars
  <2> QED BY <1>4, <2>1, <2>2, <2>3, OthersKeepSessions
      DEF Finished, FinishedNext, Final, storeVars, streamVars
<1> QED BY Zenon, <1>1, <1>2, <1>3, <1>4 DEF Next

-----------------------------------------------------------------------------
(* The theorems. *)

(* The invariant is kept: deliver and control Ack only finished messages,  *)
(* and the slot that deliver reserved stays free for it.                   *)
THEOREM SessionsKeepTheInvariant == Spec => []SessionInv
BY SessionInvInit, SessionInvStep, PTL DEF Spec

(* Every variable of the path keeps its type. *)
THEOREM StreamTypes == Spec => []TypeOK
<1>1. SessionInv => TypeOK
  BY Zenon DEF SessionInv, DispatchInv, PathTypeOK, TypeOK
<1> QED BY <1>1, SessionsKeepTheInvariant, PTL

LEMMA AcksJustified ==
  ASSUME SessionInv
  PROVE  AckJustified
BY Zenon DEF SessionInv, AcksAreDue, Finished, AckJustified

LEMMA NothingLost ==
  ASSUME SessionInv
  PROVE  NoLostWork
<1> SUFFICES ASSUME NEW d \in Deliveries, outbox[d].state = "dispatched", ~Final(d)
             PROVE  Recoverable(<<d, row[d].generation>>) \/ TimedOut(<<d, row[d].generation>>)
  BY Zenon DEF NoLostWork
<1>1. /\ StoreTypeOK /\ StreamTypeOK /\ DispatchedIsStored /\ AcksAreDue
      /\ outbox[d].generation = row[d].generation
  BY Zenon DEF SessionInv, DispatchInv, PathTypeOK, GenerationsAgree
<1> DEFINE id == <<d, row[d].generation>>
<1>2. Stored(id)
  BY Zenon, <1>1 DEF DispatchedIsStored
<1>3. PICK k \in 1..Copies : messages[<<id, k>>] # "none"
  BY Zenon, <1>2 DEF Stored
<1>4. id \in Ids
  BY Zenon, <1>1, IdsAssumption DEF MessageIds, StoreTypeOK, Rows
<1>5. <<id, k>> \in Messages
  BY Zenon, <1>4 DEF Messages
<1>6. messages[<<id, k>>] # "acked"
  <2>1. DeliveryOf(<<id, k>>) = d /\ GenerationOf(<<id, k>>) = row[d].generation
    BY Zenon DEF DeliveryOf, GenerationOf
  <2>2. row[d].generation \in Nat
    BY <1>1, ConstantTypes DEF StoreTypeOK, Rows, Generations
  <2> QED BY <1>1, <1>5, <2>1, <2>2 DEF AcksAreDue, Finished
<1>7. messages[<<id, k>>] \in {"ready", "pending", "expired"}
  BY Zenon, <1>1, <1>3, <1>5, <1>6 DEF StreamTypeOK, MessageStates
<1> QED BY Zenon, <1>3, <1>7 DEF Recoverable, TimedOut

(* A session holds what it negotiated, acknowledges what is settled and    *)
(* loses nothing: no interleaving of deliver, control and Close, and no    *)
(* call that fails, overfills it or takes unfinished work out of the       *)
(* stream.                                                                 *)
THEOREM SessionsAreSafe == Spec => []SessionSafe
<1>1. SessionInv => SessionSafe
  <2> SUFFICES ASSUME SessionInv PROVE SessionSafe
    BY Zenon
  <2>1. CapacityHolds
    BY Zenon DEF SessionInv, RoomIsKept, Reserved, CapacityHolds
  <2> QED BY Zenon, <2>1, AcksJustified, NothingLost DEF SessionSafe
<1> QED BY <1>1, SessionsKeepTheInvariant, PTL

(* Work is neither lost nor done over: what is not acknowledged can still  *)
(* reach a client, what is acknowledged stays with its winner, and no      *)
(* lease outlives the deadline of its assignment, which never moves.       *)
THEOREM WorkStays == Spec => WorkIsKept
<1>1. SessionInv => NoLostWork /\ AckJustified
  BY Zenon, AcksJustified, NothingLost
<1>2. SessionInv /\ [Next]_vars => [AckedStays]_vars /\ [DeadlineStays]_vars
  BY Zenon, SessionInvStep
<1>3. Spec => []SessionInv
  BY Zenon, SessionsKeepTheInvariant
<1> QED BY <1>1, <1>2, <1>3, PTL DEF Spec, WorkIsKept, AckIsFinal, DeadlineHolds

-----------------------------------------------------------------------------
(* The path implements DeliveryLifecycle. *)

StageNext(d) ==
  CASE row'[d].status = "acked" -> "done"
    [] row'[d].status = "dead_letter" -> "dead"
    [] OTHER -> "open"

LEMMA StagesBefore ==
  ASSUME NEW d \in Deliveries
  PROVE  /\ Stage(d) = "done" <=> row[d].status = "acked"
         /\ Stage(d) = "dead" <=> row[d].status = "dead_letter"
         /\ Stage(d) = "open" <=> ~Final(d)
BY Zenon DEF Stage, Final

LEMMA StagesAfter ==
  ASSUME NEW d \in Deliveries
  PROVE  /\ row'[d].status = "acked" => StageNext(d) = "done"
         /\ row'[d].status = "dead_letter" => StageNext(d) = "dead"
         /\ row'[d].status \notin {"acked", "dead_letter"} => StageNext(d) = "open"
         /\ row'[d].status = row[d].status => StageNext(d) = Stage(d)
BY Zenon DEF StageNext, Stage

LEMMA LifecycleStutters ==
  ASSUME \A d \in Deliveries : StageNext(d) = Stage(d) /\ row'[d].generation = row[d].generation
  PROVE  UNCHANGED Lifecycle!vars
BY Zenon DEF Lifecycle!vars, StageNext, Stage

LEMMA GivesUp ==
  ASSUME \A d \in Deliveries : StatusMoves(d)
  PROVE  Lifecycle!Next
<1> DEFINE ids == {d \in Deliveries : ~Final(d) /\ row'[d].status = "dead_letter"}
<1>1. ids \in SUBSET Deliveries
  BY Zenon
<1>2. \A d \in ids : Stage(d) = "open"
  BY Zenon, StagesBefore
<1>3. \A d \in Deliveries : StageNext(d) = IF d \in ids THEN "dead" ELSE Stage(d)
  <2> SUFFICES ASSUME NEW d \in Deliveries
               PROVE  StageNext(d) = IF d \in ids THEN "dead" ELSE Stage(d)
    BY Zenon
  <2> QED BY Zenon, StagesBefore, StagesAfter DEF StatusMoves, Final
<1>4. \A d \in Deliveries : row'[d].generation = row[d].generation
  BY Zenon DEF StatusMoves
<1> HIDE DEF ids
<1>5. Lifecycle!GiveUp(ids)
  BY Zenon, <1>1, <1>2, <1>3, <1>4 DEF Lifecycle!GiveUp, StageNext, Stage
<1> QED BY Zenon, <1>1, <1>5 DEF Lifecycle!Next

LEMMA Reopens ==
  ASSUME NEW ids \in SUBSET Deliveries, ReplayAdminDeadLetters(ids)
  PROVE  Lifecycle!Next
<1>1. \A d \in ids : Stage(d) = "dead"
  BY Zenon, StagesBefore DEF ReplayAdminDeadLetters
<1>2. ASSUME NEW d \in Deliveries
      PROVE  /\ d \in ids => row'[d].status = "pending" /\ row'[d].generation = row[d].generation + 1
             /\ d \notin ids => row'[d] = row[d]
  BY Zenon DEF ReplayAdminDeadLetters
<1>3. \A d \in Deliveries : /\ StageNext(d) = IF d \in ids THEN "open" ELSE Stage(d)
                            /\ row'[d].generation = IF d \in ids THEN row[d].generation + 1
                                                    ELSE row[d].generation
  BY Zenon, <1>2, StagesAfter
<1>4. Lifecycle!Reopen(ids)
  BY Zenon, <1>1, <1>3 DEF Lifecycle!Reopen, StageNext, Stage
<1> QED BY Zenon, <1>4 DEF Lifecycle!Next

LEMMA Finishes ==
  ASSUME SessionInv, NEW c \in Connections, StoreMove(c)
  PROVE  Lifecycle!Next \/ UNCHANGED Lifecycle!vars
<1>0. StoreTypeOK
  BY Zenon DEF SessionInv, DispatchInv, PathTypeOK
<1>1. CASE UNCHANGED row
  BY Zenon, <1>1, LifecycleStutters, StagesAfter
<1>2. ASSUME NEW e \in Entries, Assigned(c, e),
             AcknowledgeStreamDelivery(e) \/ ReleaseStreamDelivery(e)
      PROVE  Lifecycle!Next \/ UNCHANGED Lifecycle!vars
  <2> DEFINE f == DeliveryOf(e.msg)
  <2>1. f \in Deliveries /\ e.msg \in Messages
    BY Zenon, EntryParts, MessageParts
  <2>2. Stage(f) = "open" /\ ~Final(f)
    BY Zenon, <1>2, <2>1, StagesBefore DEF Assigned
  <2>3. CASE AcknowledgeStreamDelivery(e)
    <3>1. /\ row'[f].status = "acked"
          /\ \A d \in Deliveries : row'[d].generation = row[d].generation
          /\ \A d \in Deliveries : d # f => row'[d] = row[d]
      BY Zenon, <1>0, <2>1, <2>3, AcknowledgeType DEF AcknowledgeStreamDelivery, Statuses
    <3> HIDE DEF f
    <3>2. \A d \in Deliveries : StageNext(d) = IF d = f THEN "done" ELSE Stage(d)
      BY Zenon, <2>1, <3>1, StagesAfter
    <3>3. Lifecycle!Finish(f)
      BY Zenon, <2>1, <2>2, <3>1, <3>2 DEF Lifecycle!Finish, StageNext, Stage
    <3> QED BY Zenon, <2>1, <3>3 DEF Lifecycle!Next
  <2>4. CASE ReleaseStreamDelivery(e)
    <3>1. /\ row'[f].status = "retrying"
          /\ \A d \in Deliveries : row'[d].generation = row[d].generation
          /\ \A d \in Deliveries : d # f => row'[d] = row[d]
      BY <1>0, <2>1, <2>4, AcknowledgeType DEF ReleaseStreamDelivery, Statuses
    <3> HIDE DEF f
    <3>2. \A d \in Deliveries : StageNext(d) = Stage(d)
      BY <2>1, <2>2, <3>1, StagesAfter
    <3> QED BY Zenon, <3>1, <3>2, LifecycleStutters
  <2> QED BY Zenon, <1>2, <2>3, <2>4
<1> QED BY Zenon, <1>1, <1>2 DEF StoreMove, storeVars, AssignStreamDelivery, ProgressStreamDelivery

(* Whatever dispatchers, sessions and operators do, a delivery ends once   *)
(* and for ever when a client acknowledges it, and comes back only from    *)
(* its dead letter, as a new generation.                                   *)
THEOREM PathImplementsLifecycle == Spec => ImplementsLifecycle
<1>1. Init => Lifecycle!Init
  BY DEF Init, StoreInit, Lifecycle!Init, Stage
<1>2. ASSUME SessionInv, [Next]_vars
      PROVE  [Lifecycle!Next]_(Lifecycle!vars)
  <2>1. CASE Tick \/ StreamStep
    <3>1. UNCHANGED row
      BY Zenon, <1>2, <2>1, TickKeepsSessions, StreamKeepsSessions
    <3> QED BY Zenon, <3>1, LifecycleStutters, StagesAfter
  <2>2. CASE Replay
    BY Zenon, <2>2, Reopens DEF Replay
  <2>3. CASE OutboxStep
    BY Zenon, <1>2, <2>3, OutboxKeepsSessions, GivesUp
  <2>4. CASE SessionStep
    <3>1. PICK c \in Connections : SessionAct(c)
      BY Zenon, <2>4 DEF SessionStep, SessionAct
    <3> QED BY Zenon, <1>2, <3>1, SessionStore, Finishes
  <2>5. CASE UNCHANGED vars
    <3>1. UNCHANGED row
      BY Zenon, <2>5 DEF vars, storeVars
    <3> QED BY Zenon, <3>1, LifecycleStutters, StagesAfter
  <2> QED BY Zenon, <1>2, <2>1, <2>2, <2>3, <2>4, <2>5 DEF Next
<1>3. Spec => []SessionInv
  BY Zenon, SessionsKeepTheInvariant
<1> QED BY <1>1, <1>2, <1>3, PTL DEF Spec, ImplementsLifecycle, Lifecycle!Spec
=============================================================================
