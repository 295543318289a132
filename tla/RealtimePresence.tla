-------------------------- MODULE RealtimePresence --------------------------
(***************************************************************************)
(* What Redis knows of realtime connections: the registry record and the   *)
(* presence entry of every connection on one channel.  The hub and the     *)
(* session (realtime/hub.go, session.go) write them through the scripts of *)
(* redisstate/realtime_connections.go and realtime_presence.go.            *)
(*                                                                         *)
(* Four goroutines work for a connection: the one that registers it, the   *)
(* reader, the refresher and whoever closes it.  Each step is a critical   *)
(* section of the hub's mutex or a script.  Time counts refresh periods;   *)
(* calls last at most a second, so no call spans a tick.                   *)
(***************************************************************************)
EXTENDS Integers, FiniteSets

CONSTANTS
  Connections,
  None,        \* no record, no entry
  TTL,         \* periods a record or an entry lasts (75 s over 25 s)
  MaxFaults    \* bound: failing calls and processes that die

VARIABLES
  session,     \* "new", "open" (in hub.sessions), "closed", "gone" (process died)
  subscribed,  \* sessions subscribed to the channel
  joined,      \* sessions whose presence data for the channel is set
  record,      \* registry record: periods left; 0: expired, still in the index
  entry,       \* presence entry likewise
  opener, reader, refresher, closer,
  due,         \* the refresher's ticker has fired
  told,        \* the last frame about the connection that was dispatched
  faults

vars == <<session, subscribed, joined, record, entry, opener, reader, refresher, closer, due, told, faults>>

Idle == [c \in Connections |-> "idle"]

Init ==
  /\ session = [c \in Connections |-> "new"] /\ subscribed = {} /\ joined = {}
  /\ record = [c \in Connections |-> None] /\ entry = [c \in Connections |-> None]
  /\ opener = Idle /\ reader = Idle /\ refresher = Idle /\ closer = Idle
  /\ due = {} /\ told = [c \in Connections |-> "nothing"] /\ faults = 0

Live(s, c) == s[c] # None /\ s[c] > 0
Fault == faults < MaxFaults /\ faults' = faults + 1

(* Whoever fails closes the session; Close runs once. *)
StartClose(c) ==
  closer' = IF closer[c] = "idle" THEN [closer EXCEPT ![c] = "remove"] ELSE closer

-----------------------------------------------------------------------------
(* register: the session enters the hub, then its record is put. *)
Register(c) ==
  /\ session[c] = "new" /\ session' = [session EXCEPT ![c] = "open"]
  /\ opener' = [opener EXCEPT ![c] = "put"]
  /\ UNCHANGED <<subscribed, joined, record, entry, reader, refresher, closer, due, told, faults>>

Put(c) ==
  /\ opener[c] = "put" /\ opener' = [opener EXCEPT ![c] = "serving"]
  /\ record' = [record EXCEPT ![c] = TTL]
  /\ UNCHANGED <<session, subscribed, joined, entry, reader, refresher, closer, due, told, faults>>

PutFails(c) ==
  /\ opener[c] = "put" /\ opener' = [opener EXCEPT ![c] = "failed"] /\ StartClose(c)
  /\ record' \in {record, [record EXCEPT ![c] = TTL]} /\ Fault
  /\ UNCHANGED <<session, subscribed, joined, entry, reader, refresher, due, told>>

-----------------------------------------------------------------------------
(* subscribeV2 and UnsubscribeV2: under the mutex; then persistChannels.   *)
(* Unsubscribing leaves the presence data.                                 *)
Subscribe(c) ==
  /\ opener[c] = "serving" /\ session[c] = "open" /\ reader[c] = "idle"
  /\ subscribed' \in {subscribed \cup {c}, subscribed \ {c}}
  /\ reader' = [reader EXCEPT ![c] = "persist"]
  /\ UNCHANGED <<session, joined, record, entry, opener, refresher, closer, due, told, faults>>

(* updateRealtimeConnectionScript: a record that is not there is not made, *)
(* and the session is closed.                                              *)
Update(c) ==
  IF Live(record, c) THEN record' = [record EXCEPT ![c] = TTL] /\ UNCHANGED closer
                     ELSE UNCHANGED record /\ StartClose(c)

PersistChannels(c) ==
  /\ reader[c] = "persist" /\ reader' = [reader EXCEPT ![c] = "idle"]
  /\ IF session[c] = "open" THEN Update(c) ELSE UNCHANGED <<record, closer>>
  /\ UNCHANGED <<session, subscribed, joined, entry, opener, refresher, due, told, faults>>

PersistFails(c) ==
  /\ reader[c] = "persist" /\ reader' = [reader EXCEPT ![c] = "idle"] /\ StartClose(c) /\ Fault
  /\ UNCHANGED <<session, subscribed, joined, record, entry, opener, refresher, due, told>>

(* UpdatePresence: under the mutex, then Upsert, then the frame. *)
UpdatePresence(c) ==
  /\ opener[c] = "serving" /\ session[c] = "open" /\ reader[c] = "idle"
  /\ c \in subscribed /\ joined' = joined \cup {c}
  /\ reader' = [reader EXCEPT ![c] = "upsert"]
  /\ UNCHANGED <<session, subscribed, record, entry, opener, refresher, closer, due, told, faults>>

(* All three scripts of the presence drop what has expired from the index. *)
Trimmed(s) == [d \in Connections |-> IF s[d] = 0 THEN None ELSE s[d]]

(* upsertPresenceScript *)
Upserted(c) == [Trimmed(entry) EXCEPT ![c] = TTL]

UpsertPresence(c) ==
  /\ reader[c] = "upsert" /\ reader' = [reader EXCEPT ![c] = "dispatch"]
  /\ entry' = Upserted(c)
  /\ UNCHANGED <<session, subscribed, joined, record, opener, refresher, closer, due, told, faults>>

UpsertFails(c) ==
  /\ reader[c] = "upsert" /\ reader' = [reader EXCEPT ![c] = "idle"] /\ StartClose(c)
  /\ entry' \in {entry, Upserted(c)} /\ Fault
  /\ UNCHANGED <<session, subscribed, joined, record, opener, refresher, due, told>>

DispatchPresence(c) ==
  /\ reader[c] = "dispatch" /\ reader' = [reader EXCEPT ![c] = "idle"]
  /\ told' = [told EXCEPT ![c] = "present"]
  /\ UNCHANGED <<session, subscribed, joined, record, entry, opener, refresher, closer, due, faults>>

-----------------------------------------------------------------------------
(* refreshRegistry *)
\* mutant of StillActive: the refresher does not look whether the session is there
StillActiveAlways(c) == TRUE

StillActive(c) == session[c] = "open"

(* What the session has is read under the mutex and written later. *)
Snapshot(c) ==
  /\ c \in due /\ due' = due \ {c} /\ refresher[c] = "idle"
  /\ refresher' = [refresher EXCEPT ![c] =
       IF ~StillActive(c) THEN "stopped" ELSE IF c \in joined THEN "refresh both" ELSE "refresh"]
  /\ UNCHANGED <<session, subscribed, joined, record, entry, opener, reader, closer, told, faults>>

Refresh(c) ==
  /\ refresher[c] \in {"refresh", "refresh both"} /\ Update(c)
  /\ refresher' = [refresher EXCEPT ![c] =
       IF ~Live(record, c) THEN "stopped" ELSE IF @ = "refresh" THEN "idle" ELSE "presence"]
  /\ UNCHANGED <<session, subscribed, joined, entry, opener, reader, due, told, faults>>

\* mutant of RefreshPresence: the answer of the registry is enough
RefreshPresenceNot(c) ==
  /\ refresher[c] = "presence" /\ refresher' = [refresher EXCEPT ![c] = "idle"]
  /\ UNCHANGED <<session, subscribed, joined, record, entry, opener, reader, closer, due, told, faults>>

RefreshPresence(c) ==
  /\ refresher[c] = "presence" /\ refresher' = [refresher EXCEPT ![c] = "idle"]
  /\ entry' = Upserted(c)
  /\ UNCHANGED <<session, subscribed, joined, record, opener, reader, closer, due, told, faults>>

RefreshFails(c) ==
  /\ refresher[c] \in {"refresh", "refresh both", "presence"} /\ Fault
  /\ refresher' = [refresher EXCEPT ![c] = "stopped"] /\ StartClose(c)
  /\ entry' \in IF refresher[c] = "presence" THEN {entry, Upserted(c)} ELSE {entry}
  /\ UNCHANGED <<session, subscribed, joined, record, opener, reader, due, told>>

-----------------------------------------------------------------------------
(* Session.Close *)
Close(c) ==
  /\ session[c] = "open" /\ closer[c] = "idle" /\ StartClose(c)
  /\ UNCHANGED <<session, subscribed, joined, record, entry, opener, reader, refresher, due, told, faults>>

Remove(c) ==
  /\ closer[c] = "remove" /\ session' = [session EXCEPT ![c] = "closed"]
  /\ closer' = [closer EXCEPT ![c] = IF c \in joined THEN "leave" ELSE "unregister"]
  /\ UNCHANGED <<subscribed, joined, record, entry, opener, reader, refresher, due, told, faults>>

(* deletePresenceScript; the failure of the call is ignored. *)
Deleted(c) == [Trimmed(entry) EXCEPT ![c] = None]

DeletePresence(c) ==
  /\ closer[c] = "leave" /\ closer' = [closer EXCEPT ![c] = "dispatch"]
  /\ \/ entry' = Deleted(c) /\ UNCHANGED faults
     \/ Fault /\ UNCHANGED entry
  /\ UNCHANGED <<session, subscribed, joined, record, opener, reader, refresher, due, told>>

DispatchLeave(c) ==
  /\ closer[c] = "dispatch" /\ closer' = [closer EXCEPT ![c] = "unregister"]
  /\ told' = [told EXCEPT ![c] = "left"]
  /\ UNCHANGED <<session, subscribed, joined, record, entry, opener, reader, refresher, due, faults>>

(* deleteRealtimeConnectionScript *)
Unregistered(c) == [record EXCEPT ![c] = None]

DeleteRecord(c) ==
  /\ closer[c] = "unregister" /\ closer' = [closer EXCEPT ![c] = "done"]
  /\ \/ record' = Unregistered(c) /\ UNCHANGED faults
     \/ Fault /\ UNCHANGED record
  /\ UNCHANGED <<session, subscribed, joined, entry, opener, reader, refresher, due, told>>

(* The process dies with all that the connection had under way. *)
Crash(c) ==
  /\ session[c] \in {"open", "closed"} /\ closer[c] # "done" /\ Fault
  /\ session' = [session EXCEPT ![c] = "gone"]
  /\ opener' = [opener EXCEPT ![c] = "failed"] /\ reader' = [reader EXCEPT ![c] = "idle"]
  /\ refresher' = [refresher EXCEPT ![c] = "stopped"] /\ closer' = [closer EXCEPT ![c] = "done"]
  /\ due' = due \ {c}
  /\ UNCHANGED <<subscribed, joined, record, entry, told>>

-----------------------------------------------------------------------------
(* ReconcilePresence, on a hub that has a subscriber of the channel: the   *)
(* expired entries are dropped and announced.                              *)
Expired(s) == {c \in Connections : s[c] = 0}

Reconcile ==
  /\ \E c \in subscribed : session[c] = "open"
  /\ Expired(entry) # {} /\ entry' = Trimmed(entry)
  /\ told' = [c \in Connections |-> IF c \in Expired(entry) THEN "timeout" ELSE told[c]]
  /\ UNCHANGED <<session, subscribed, joined, record, opener, reader, refresher, closer, due, faults>>

(* List drops expired records from the index. *)
List ==
  /\ Expired(record) # {} /\ record' = Trimmed(record)
  /\ UNCHANGED <<session, subscribed, joined, entry, opener, reader, refresher, closer, due, told, faults>>

Older(s) == [c \in Connections |-> IF Live(s, c) THEN s[c] - 1 ELSE s[c]]
Resting(c) ==
  /\ opener[c] # "put" /\ reader[c] = "idle" /\ closer[c] \in {"idle", "done"}
  /\ refresher[c] \in {"idle", "stopped"} /\ c \notin due

Tick ==
  /\ \A c \in Connections : Resting(c)
  /\ record' = Older(record) /\ entry' = Older(entry)
  /\ due' = {c \in Connections : opener[c] = "serving" /\ refresher[c] = "idle"}
  /\ UNCHANGED <<session, subscribed, joined, opener, reader, refresher, closer, told, faults>>

SessionStep(c) ==
  \/ Put(c) \/ PutFails(c) \/ PersistChannels(c) \/ PersistFails(c) \/ UpsertPresence(c) \/ UpsertFails(c) \/ DispatchPresence(c)
  \/ Snapshot(c) \/ Refresh(c) \/ RefreshPresence(c) \/ RefreshFails(c)
  \/ Remove(c) \/ DeletePresence(c) \/ DispatchLeave(c) \/ DeleteRecord(c)

Next ==
  \/ \E c \in Connections : 
       Register(c) \/ Subscribe(c) \/ UpdatePresence(c) \/ Close(c) \/ Crash(c) \/ SessionStep(c)
  \/ Reconcile \/ List \/ Tick

Spec == Init /\ [][Next]_vars
FairSpec == Spec /\ WF_vars(Tick) /\ \A c \in Connections : WF_vars(SessionStep(c))

-----------------------------------------------------------------------------
TypeOK ==
  /\ record \in [Connections -> {None} \cup 0..TTL] /\ entry \in [Connections -> {None} \cup 0..TTL]
  /\ session \in [Connections -> {"new", "open", "closed", "gone"}]

(* A connection that has joined stays present, and registered, for as long *)
(* as its session is open: the refresher keeps ahead of the TTL, or closes *)
(* the session.                                                            *)
PresentWhileJoined ==
  \A c \in Connections : session[c] = "open" /\ closer[c] = "idle" /\ opener[c] = "serving" =>
    /\ Live(record, c)
    /\ told[c] = "present" => Live(entry, c)

(* A connection that is closed, or whose process has died, is not present  *)
(* or registered for ever, though a refresh or an update may write after   *)
(* Close has deleted.                                                      *)
ClosedLeavesNothing ==
  \A c \in Connections :
    <>[](session[c] \in {"closed", "gone"} => ~Live(record, c) /\ ~Live(entry, c))
=============================================================================
