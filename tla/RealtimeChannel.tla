--------------------------- MODULE RealtimeChannel ---------------------------
(***************************************************************************)
(* A realtime channel as one subscriber sees it: realtime/hub.go and       *)
(* session.go, the bounded history of redisstate/realtime_history.go and   *)
(* the routing between replicas of realtime/nats_bridge.go.  A publisher   *)
(* records the message, appends it to the history and routes it; a         *)
(* subscriber that rewinds is first handed a page of the history while     *)
(* live frames wait in a buffer.                                           *)
(*                                                                         *)
(* The reader goroutine of the session, the callback of the bridge that    *)
(* delivers frames, the writer, and Close run concurrently; each action is *)
(* one critical section of the hub's mutex, one Redis call or one Send.    *)
(* The subscriber's frames carry the number of the subscription they were  *)
(* chosen under, which is history and not part of the code.                *)
(***************************************************************************)
EXTENDS Integers, Sequences, FiniteSets, Functions

CONSTANTS
  Messages,          \* messages
  Stored,            \* messages to everybody whose publisher may write history
  Actions,           \* reactions and annotations
  MessageOf,         \* the message an action refers to
  Limit,             \* entries of a page
  HistoryMax,        \* entries the stream keeps
  QueueSize,         \* capacity of the outbound queue and of the rewind buffer
  MaxSubscriptions,  \* bound: subscriptions of the session
  MaxFaults          \* bound: failing calls of Redis and of the bridge

VARIABLES
  publisher,     \* where the publication of every message is
  action,        \* where every action is
  stream,        \* the history, oldest first
  trimmed,       \* entries that have been dropped from its front
  wire,          \* frames routed and not yet handed to this hub
  deliverer,     \* the frame the bridge's callback is about to Send, if any
  open,          \* the session is registered with the hub
  subscribed, rewinding, buffer,
  seen,          \* rewindSeen
  outbound,      \* outbound queue
  reader,        \* local state of the reader goroutine
  received,      \* history: frames that were written to the client
  arrived,       \* history: live frames in the order the hub was handed them
  subscriptions, faults

vars == <<publisher, action, stream, trimmed, wire, deliverer, open, subscribed, rewinding, buffer,
          seen, outbound, reader, received, arrived, subscriptions, faults>>

publishing == <<publisher, action, stream, trimmed>>
hub == <<open, subscribed, rewinding, buffer, seen>>
histories == <<received, arrived, subscriptions>>

Idle == [pc |-> "idle", page |-> {}, batch |-> <<>>]
MessageFrame(m) == [kind |-> "message", of |-> m]
ActionFrame(a) == [kind |-> "action", of |-> MessageOf[a]]

Init ==
  /\ publisher = [m \in Messages |-> "start"] /\ action = [a \in Actions |-> "none"]
  /\ stream = <<>> /\ trimmed = 0 /\ wire = <<>> /\ deliverer = <<>>
  /\ open = TRUE /\ subscribed = FALSE /\ rewinding = FALSE /\ buffer = <<>> /\ seen = {}
  /\ outbound = <<>> /\ reader = Idle
  /\ received = <<>> /\ arrived = <<>> /\ subscriptions = 0 /\ faults = 0

-----------------------------------------------------------------------------
(* Publication: publishPreparedV2 and PublishFileV2. *)
To(m, pc) == publisher' = [publisher EXCEPT ![m] = pc]

\* mutant of AfterRecord: the message is routed before it is in the history
AfterRecordRoute(m) == "route"

AfterRecord(m) == IF m \in Stored THEN "append" ELSE "route"

AfterRoute(m) == "done"

RecordMessage(m) ==
  /\ publisher[m] = "start" /\ To(m, AfterRecord(m))
  /\ UNCHANGED <<action, stream, trimmed, wire, deliverer, hub, outbound, reader, histories, faults>>

(* XADD with MAXLEN. *)
AppendHistory(m) ==
  /\ publisher[m] = "append"
  /\ stream' = IF Len(stream) = HistoryMax THEN Append(Tail(stream), m) ELSE Append(stream, m)
  /\ trimmed' = IF Len(stream) = HistoryMax THEN trimmed + 1 ELSE trimmed
  /\ To(m, "route")
  /\ UNCHANGED <<action, wire, deliverer, hub, outbound, reader, histories, faults>>

PublishRealtimeV2(m) ==
  /\ publisher[m] = "route" /\ To(m, AfterRoute(m))
  /\ wire' = Append(wire, MessageFrame(m))
  /\ UNCHANGED <<action, stream, trimmed, deliverer, hub, outbound, reader, histories, faults>>

(* A call fails; what was stored before it stays. *)
PublishFails(m) ==
  /\ publisher[m] \in {"start", "append", "route"} /\ To(m, "failed")
  /\ faults < MaxFaults /\ faults' = faults + 1
  /\ UNCHANGED <<action, stream, trimmed, wire, deliverer, hub, outbound, reader, histories>>

(* PutActionV2 and RemoveActionV2: the message must have been recorded.    *)
(* The store changes, then the new state of the action is routed.          *)
PutAction(a) ==
  /\ publisher[MessageOf[a]] # "start" /\ action[a] = "none"
  /\ action' = [action EXCEPT ![a] = "put"]
  /\ UNCHANGED <<publisher, stream, trimmed, wire, deliverer, hub, outbound, reader, histories, faults>>

RemoveAction(a) ==
  /\ action[a] = "announced" /\ action' = [action EXCEPT ![a] = "removed"]
  /\ UNCHANGED <<publisher, stream, trimmed, wire, deliverer, hub, outbound, reader, histories, faults>>

DispatchAction(a) ==
  /\ action[a] \in {"put", "removed"}
  /\ action' = [action EXCEPT ![a] = IF @ = "put" THEN "announced" ELSE "done"]
  /\ wire' = Append(wire, ActionFrame(a))
  /\ UNCHANGED <<publisher, stream, trimmed, deliverer, hub, outbound, reader, histories, faults>>

-----------------------------------------------------------------------------
(* Send: a full queue closes the session.  Close takes the session out of  *)
(* the hub; nothing is sent to it any more.                                *)
Chosen(frame) ==
  [kind |-> frame.kind, of |-> frame.of, under |-> IF subscribed THEN subscriptions ELSE 0]

Send(frame) ==
  IF open /\ Len(outbound) < QueueSize
  THEN outbound' = Append(outbound, frame) /\ UNCHANGED hub
  ELSE /\ open' = FALSE /\ subscribed' = FALSE
       /\ UNCHANGED <<outbound, rewinding, buffer, seen>>

WriteLoop ==
  /\ open /\ outbound # <<>>
  /\ received' = Append(received, Head(outbound)) /\ outbound' = Tail(outbound)
  /\ UNCHANGED <<publishing, wire, deliverer, hub, reader, arrived, subscriptions, faults>>

Close ==
  /\ open /\ open' = FALSE /\ subscribed' = FALSE
  /\ faults < MaxFaults /\ faults' = faults + 1
  /\ UNCHANGED <<publishing, wire, deliverer, rewinding, buffer, seen, outbound, reader, histories>>

-----------------------------------------------------------------------------
(* DeliverV2: under the mutex a frame is dropped, buffered or chosen to be *)
(* sent.  A full buffer closes the session.                                *)

\* mutant of Duplicate: frames are compared while they are buffered only
DuplicateNever(frame) == FALSE

Duplicate(frame) == frame.of \in seen

DeliverV2 ==
  LET frame == Head(wire) IN
    /\ wire # <<>> /\ deliverer = <<>> /\ wire' = Tail(wire)
    /\ arrived' = Append(arrived, Chosen(frame))
    /\ IF ~subscribed \/ Duplicate(frame) THEN UNCHANGED <<hub, deliverer>>
       ELSE IF rewinding
       THEN /\ UNCHANGED <<deliverer, rewinding, seen>>
            /\ IF Len(buffer) = QueueSize
               THEN open' = FALSE /\ subscribed' = FALSE /\ UNCHANGED buffer
               ELSE buffer' = Append(buffer, Chosen(frame)) /\ UNCHANGED <<open, subscribed>>
       ELSE deliverer' = <<Chosen(frame)>> /\ UNCHANGED hub
    /\ UNCHANGED <<publishing, outbound, reader, received, subscriptions, faults>>

SendChosen ==
  /\ deliverer # <<>> /\ deliverer' = <<>> /\ Send(Head(deliverer))
  /\ UNCHANGED <<publishing, wire, reader, histories, faults>>

(* An entry of rewindSeen lasts a minute.  The routing of a message that   *)
(* is in the history takes less.                                           *)
ExpireSeen(m) ==
  /\ m \in seen /\ publisher[m] \in {"done", "failed"}
  /\ \A i \in DOMAIN wire : wire[i] # MessageFrame(m)
  /\ seen' = seen \ {m}
  /\ UNCHANGED <<publishing, wire, deliverer, open, subscribed, rewinding, buffer, outbound, reader,
                 histories, faults>>

-----------------------------------------------------------------------------
(* The reader goroutine. *)
Reader(pc) == reader.pc = pc

Rewinds(rewind) == rewind

(* subscribeV2; then the page is read, if the subscription rewinds. *)
Subscribe(rewind) ==
  /\ Reader("idle") /\ open /\ subscriptions < MaxSubscriptions
  /\ subscribed' = TRUE /\ rewinding' = Rewinds(rewind)
  /\ subscriptions' = subscriptions + 1
  /\ reader' = [reader EXCEPT !.pc = IF rewind THEN "read" ELSE "confirm"]
  /\ UNCHANGED <<publishing, wire, deliverer, open, buffer, seen, outbound, received, arrived, faults>>

Unsubscribe ==
  /\ Reader("idle") /\ open /\ subscribed /\ subscribed' = FALSE
  /\ UNCHANGED <<publishing, wire, deliverer, open, rewinding, buffer, seen, outbound, reader,
                 histories, faults>>

(* Read of the history store: the newest entries below the cursor, oldest *)
(* first.  A cursor is the position of an entry since the beginning.      *)
Page(cursor) ==
  LET last == IF cursor = 0 THEN Len(stream) ELSE cursor - trimmed - 1
      first == IF last > Limit THEN last - Limit + 1 ELSE 1
  IN SubSeq(stream, first, last)

(* "page": the whole history; "part": cut by the limit or by a cursor. *)
PageFrame(cursor) ==
  [kind |-> IF cursor = 0 /\ trimmed = 0 /\ Len(stream) <= Limit THEN "page" ELSE "part",
   of |-> Range(Page(cursor)), under |-> subscriptions]

HistoryV2(cursor) ==
  /\ Reader("read")
  /\ reader' = [reader EXCEPT !.page = Range(Page(cursor)), !.pc = "confirm"]
  /\ Send(PageFrame(cursor))
  /\ UNCHANGED <<publishing, wire, deliverer, histories, faults>>

(* The history cannot be read: an error frame, and the rewind is finished *)
(* without a page.                                                        *)
HistoryFails ==
  /\ Reader("read") /\ faults < MaxFaults /\ faults' = faults + 1
  /\ reader' = [reader EXCEPT !.pc = "confirm"]
  /\ Send([kind |-> "error", of |-> {}, under |-> subscriptions])
  /\ UNCHANGED <<publishing, wire, deliverer, histories>>

Confirm ==
  /\ Reader("confirm") /\ reader' = [reader EXCEPT !.pc = IF rewinding THEN "finish" ELSE "idle"]
  /\ Send([kind |-> "subscribed", of |-> {}, under |-> subscriptions])
  /\ UNCHANGED <<publishing, wire, deliverer, histories, faults>>

(* One turn of the loop of FinishRewindV2 under the mutex. *)
FinishRewindV2 ==
  /\ Reader("finish")
  /\ IF ~open THEN reader' = Idle /\ UNCHANGED hub
     ELSE IF buffer = <<>>
     THEN /\ seen' = seen \cup reader.page /\ rewinding' = FALSE /\ reader' = Idle
          /\ UNCHANGED <<open, subscribed, buffer>>
     ELSE /\ reader' = [reader EXCEPT !.pc = "flush", !.batch = buffer] /\ buffer' = <<>>
          /\ UNCHANGED <<open, subscribed, rewinding, seen>>
  /\ UNCHANGED <<publishing, wire, deliverer, outbound, histories, faults>>

InPage(frame) == frame.of \in reader.page

(* A buffered frame is sent unless the page shows its message. *)
FlushBuffer ==
  /\ Reader("flush")
  /\ IF reader.batch = <<>>
     THEN reader' = [reader EXCEPT !.pc = "finish"] /\ UNCHANGED <<hub, outbound>>
     ELSE /\ IF InPage(Head(reader.batch)) THEN UNCHANGED <<hub, outbound>>
             ELSE Send(Head(reader.batch))
          /\ reader' = IF InPage(Head(reader.batch)) \/ open'
                       THEN [reader EXCEPT !.batch = Tail(@)] ELSE Idle
  /\ UNCHANGED <<publishing, wire, deliverer, histories, faults>>

Next ==
  \/ \E m \in Messages : \/ RecordMessage(m) \/ AppendHistory(m) \/ PublishRealtimeV2(m)
                         \/ PublishFails(m) \/ ExpireSeen(m)
  \/ \E a \in Actions : PutAction(a) \/ RemoveAction(a) \/ DispatchAction(a)
  \/ DeliverV2 \/ SendChosen \/ WriteLoop \/ Close
  \/ \E rewind \in BOOLEAN : Subscribe(rewind)
  \/ \E cursor \in {0} \cup (trimmed + 1)..(trimmed + Len(stream)) : HistoryV2(cursor)
  \/ HistoryFails \/ Unsubscribe \/ Confirm \/ FinishRewindV2 \/ FlushBuffer

Spec == Init /\ [][Next]_vars

-----------------------------------------------------------------------------
(* What has been sent to the client, and what is on the way to it. *)
Sent == received \o outbound
Pending == Sent \o deliverer \o reader.batch \o buffer
Number(s, frame) == Cardinality({i \in DOMAIN s : s[i] = frame})

TypeOK ==
  /\ Len(outbound) <= QueueSize /\ Len(buffer) <= QueueSize /\ Len(stream) <= HistoryMax
  /\ seen \subseteq Messages /\ reader.page \subseteq Messages

(* Nothing is shown twice in one subscription: a message that the page     *)
(* shows is not sent live again, wherever its frame was when the page was  *)
(* read.                                                                   *)
ShownOnce ==
  \A i, j \in DOMAIN Sent :
    /\ i # j /\ Sent[i].under = Sent[j].under /\ Sent[j].kind = "message"
    => /\ Sent[i].kind = "message" => Sent[i].of # Sent[j].of
       /\ Sent[i].kind \in {"page", "part"} => Sent[j].of \notin Sent[i].of

(* History and live delivery join without a gap: a subscriber that was     *)
(* shown the whole history has, or is about to get, every message of the   *)
(* history that the hub was ever handed.                                   *)
JoinsWithoutGap ==
  open /\ subscribed => \A p \in Range(Sent) : p.kind = "page" /\ p.under = subscriptions =>
    \A i \in DOMAIN arrived : arrived[i].kind = "message" /\ arrived[i].of \in Stored =>
      \/ arrived[i].of \in p.of
      \/ [arrived[i] EXCEPT !.under = subscriptions] \in Range(Pending)

(* Live messages reach the client in the order the hub was handed them. *)
LiveInOrder ==
  \A i, j \in DOMAIN Sent :
    i < j /\ Sent[i].kind = "message" /\ Sent[j].kind = "message" =>
      \E k, l \in DOMAIN arrived : k < l /\ arrived[k] = Sent[i] /\ arrived[l] = Sent[j]

(* In one subscription every message is shown once, and live messages are  *)
(* shown in order.                                                         *)
ShownOnceInOrder == TypeOK /\ ShownOnce /\ LiveInOrder

(* A subscriber is told of every change of a message's actions that the    *)
(* hub is handed during its subscription.                                  *)
ActionsReachSubscribers ==
  open => \A i \in DOMAIN arrived : arrived[i].kind = "action" /\ arrived[i].under > 0 =>
    Number(arrived, arrived[i]) = Number(Pending, arrived[i])
=============================================================================
