----------------------------- MODULE MCRealtime -----------------------------
(***************************************************************************)
(* The components of the realtime service.  The models share no state, so  *)
(* a behaviour moves one of them, which is chosen at the start, and leaves *)
(* the others where they began.  The channel comes with two messages of    *)
(* the history, with a history that is trimmed and a message that is not   *)
(* stored, and with an action and a fault.                                 *)
(***************************************************************************)
EXTENDS Integers, Sequences, FiniteSets

CONSTANTS Sessions, None, Bridged, Handlers

VARIABLES
  which,
  registered, closed, members, handling, route, done, once, stack, wire,
  publisher, action, stream, trimmed, frames, deliverer, open, subscribed, rewinding, buffer, seen,
  outbound, reader, received, arrived, subscriptions, faults,
  session, present, joined, record, entry, opener, updater, refresher, closer, due, told, failures,
  bucket, granted, batch, sent

closeVars == <<registered, closed, members, handling, route, done, once, stack, wire>>
channelVars ==
  <<publisher, action, stream, trimmed, frames, deliverer, open, subscribed, rewinding, buffer, seen,
    outbound, reader, received, arrived, subscriptions, faults>>
presenceVars ==
  <<session, present, joined, record, entry, opener, updater, refresher, closer, due, told, failures>>
rateVars == <<bucket, granted, batch, sent>>

OneMessage == {"m1"}
TwoMessages == {"m1", "m2"}
ThreeMessages == {"m1", "m2", "m3"}
OneAction == {"a1"}
NoActions == {}
Reacts == [a \in OneAction |-> "m1"]

History == INSTANCE RealtimeChannel WITH
  Messages <- TwoMessages, Stored <- TwoMessages, Actions <- NoActions, MessageOf <- Reacts,
  Limit <- 2, HistoryMax <- 2, QueueSize <- 2, MaxSubscriptions <- 2, MaxFaults <- 0, wire <- frames

Trimming == INSTANCE RealtimeChannel WITH
  Messages <- ThreeMessages, Stored <- TwoMessages, Actions <- NoActions, MessageOf <- Reacts,
  Limit <- 2, HistoryMax <- 1, QueueSize <- 2, MaxSubscriptions <- 1, MaxFaults <- 0, wire <- frames

Reacting == INSTANCE RealtimeChannel WITH
  Messages <- OneMessage, Stored <- OneMessage, Actions <- OneAction, MessageOf <- Reacts,
  Limit <- 1, HistoryMax <- 1, QueueSize <- 2, MaxSubscriptions <- 1, MaxFaults <- 1, wire <- frames

Close == INSTANCE SessionClose

(* Two sessions whose frames take the way over the bridge. *)
TwoSessions == {"s1", "s2"}

Bridge == INSTANCE SessionClose WITH
  Sessions <- TwoSessions, Bridged <- TRUE, Handlers <- TwoSessions

TwoConnections == {"c1", "c2"}

Presence == INSTANCE RealtimePresence WITH
  Connections <- TwoConnections, TTL <- 2, MaxFaults <- 0, subscribed <- present, reader <- updater,
  faults <- failures

OneChannel == {"c"}
Limits == [app |-> 2, connection |-> 1, channel |-> 1]

Rate == INSTANCE PublishRate WITH
  Sessions <- TwoSessions, Channels <- OneChannel, Limit <- Limits, Window <- 2, MaxItems <- 2,
  MaxBatches <- 1, session <- batch

-----------------------------------------------------------------------------
RealtimeInit ==
  /\ which \in {"close", "bridge", "history", "trimming", "reacting", "presence", "rate"}
  /\ CASE which = "trimming" -> Trimming!Init
       [] which = "reacting" -> Reacting!Init
       [] OTHER              -> History!Init
  /\ IF which = "bridge" THEN Bridge!Init ELSE Close!Init
  /\ Presence!Init /\ Rate!Init

(* The other components stay as they are. *)
Alone ==
  /\ UNCHANGED which
  /\ IF which \in {"close", "bridge"} THEN TRUE ELSE UNCHANGED closeVars
  /\ IF which \in {"history", "trimming", "reacting"} THEN TRUE ELSE UNCHANGED channelVars
  /\ IF which = "presence" THEN TRUE ELSE UNCHANGED presenceVars
  /\ IF which = "rate" THEN TRUE ELSE UNCHANGED rateVars

RealtimeNext ==
  /\ \/ which = "close" /\ Close!Next
     \/ which = "bridge" /\ Bridge!Next
     \/ which = "history" /\ History!Next
     \/ which = "trimming" /\ Trimming!Next
     \/ which = "reacting" /\ Reacting!Next
     \/ which = "presence" /\ Presence!Next
     \/ which = "rate" /\ Rate!Next
  /\ Alone

all == <<which, closeVars, channelVars, presenceVars, rateVars>>

RealtimeSpec == RealtimeInit /\ [][RealtimeNext]_all

-----------------------------------------------------------------------------
(* In one subscription the client is shown every message at most once, be  *)
(* it in a page or live, and live messages in the order the hub was handed *)
(* them.                                                                   *)
ShownOnceInOrder ==
  IF which = "trimming" THEN Trimming!ShownOnceInOrder
  ELSE IF which = "reacting" THEN Reacting!ShownOnceInOrder
  ELSE History!ShownOnceInOrder

(* A subscriber that was shown the whole history misses no message of it   *)
(* that the hub was handed since.                                          *)
JoinsWithoutGap ==
  IF which = "trimming" THEN Trimming!JoinsWithoutGap
  ELSE IF which = "reacting" THEN Reacting!JoinsWithoutGap
  ELSE History!JoinsWithoutGap

(* A subscriber is told of every change of a message's actions that the    *)
(* hub is handed during its subscription.                                  *)
ActionsReachSubscribers == which = "reacting" => Reacting!ActionsReachSubscribers

(* The hub holds the function route exactly while it has a handler, threads*)
(* that close sessions never wait in a circle, and a closed hub is empty.  *)
HubFollowsSessions ==
  /\ which = "close" => Close!HubFollowsSessions
  /\ which = "bridge" => Bridge!HubFollowsSessions

(* A connection stays present and registered while its session is open. *)
PresentWhileJoined == which = "presence" => Presence!TypeOK /\ Presence!PresentWhileJoined

(* A bucket grants what it holds and what it gains, and a message goes out *)
(* only if its whole batch has passed.                                     *)
RateHolds == [](which = "rate" => Rate!TypeOK /\ Rate!RateHolds) /\ Rate!BatchPassesWhole
=============================================================================
