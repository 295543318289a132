------------------------- MODULE PublicationProofs --------------------------
(***************************************************************************)
(* What is proved of the way of an event from its publication to the       *)
(* stream, for any sets of deliveries, dispatchers, requests and keys: the *)
(* outbox, the migration of the legacy store into it (M), the publication  *)
(* itself (P) and the delays between attempts.                             *)
(*                                                                         *)
(* What the dispatchers do is in DispatcherProofs; here are the other steps*)
(* of Outbox and its theorems.                                             *)
(***************************************************************************)
EXTENDS Outbox, DispatcherProofs

-----------------------------------------------------------------------------
(* Outbox *)

(* The invariant holds when the rows have just been inserted. *)
LEMMA OutboxInvInit == Init => OutboxInv
<1>1. Init => DispatchInv
  BY Zenon, DispatchInvInit DEF Init
<1>2. Init => FailedMeansExhausted
  BY DEF Init, StoreInit, NewOutbox, FailedMeansExhausted
<1> QED BY Zenon, <1>1, <1>2 DEF OutboxInv

(* Steps in which no dispatcher moves: time, replay, the stream.           *)
LEMMA QuietStep ==
  ASSUME OutboxInv, Tick \/ Replay \/ StreamStep \/ UNCHANGED vars
  PROVE  OutboxInv'
<1>0. UNCHANGED <<dispatcher, publishes, crashes>> /\ StoreTypeOK /\ StreamTypeOK
  BY Zenon DEF Tick, Replay, StreamStep, vars, dispatcherVars, OutboxInv, DispatchInv, PathTypeOK
<1>1. /\ StoreTypeOK' /\ RowsAgeOrReplay
      /\ \A d \in Deliveries : \/ SettledAsBefore(d) /\ row'[d] = row[d]
                               \/ outbox'[d].state = "open"
  <2>1. CASE Tick
    BY Zenon, <1>0, <2>1, TickKeeps DEF Tick
  <2>2. CASE Replay
    <3>1. PICK ids \in SUBSET Deliveries : ReplayAdminDeadLetters(ids)
      BY Zenon, <2>2 DEF Replay
    <3>2. \A d \in Deliveries : row'[d] = row[d] \/ outbox'[d].state = "open"
      BY Zenon, <3>1 DEF ReplayAdminDeadLetters, NewOutbox
    <3> QED BY Zenon, <1>0, <3>1, <3>2, ReplayKeeps
  <2>3. CASE StreamStep \/ UNCHANGED vars
    <3>1. UNCHANGED <<row, assignment, callback, outbox>>
      BY Zenon, <2>3 DEF StreamStep, vars, storeVars
    <3> QED BY Zenon, <1>0, <3>1, OutboxUntouched DEF StoreTypeOK
  <2> QED BY Zenon, <2>1, <2>2, <2>3
<1>2. StreamTypeOK' /\ window' \subseteq window /\ StoredStays
  BY Zenon, <1>0, StreamMoves DEF Tick, Replay, StreamStep, vars
<1>3. DispatchInv'
  BY Zenon, <1>0, <1>1, <1>2, OthersKeep DEF OutboxInv
<1>4. FailedMeansExhausted'
  BY Zenon, <1>1 DEF OutboxInv, FailedMeansExhausted, SettledAsBefore
<1> QED BY Zenon, <1>3, <1>4 DEF OutboxInv

(* A dispatcher gives up only what it has tried often enough. *)
LEMMA DispatcherKeeps ==
  ASSUME OutboxInv, NEW w \in Dispatchers, ClaimOutbox(w) \/ DispatcherStep(w) \/ Crash(w)
  PROVE  OutboxInv'
<1>1. DispatchInv' /\ \A d \in Deliveries : StatusMoves(d) /\ OutboxMoves(d)
  BY Zenon, DispatcherMoves DEF OutboxInv
<1>2. FailedMeansExhausted'
  BY Zenon, <1>1 DEF OutboxInv, FailedMeansExhausted, StatusMoves, OutboxMoves
<1> QED BY Zenon, <1>1, <1>2 DEF OutboxInv

(* Every step keeps the invariant. *)
LEMMA OutboxInvStep == OutboxInv /\ [Next]_vars => OutboxInv'
BY Zenon, QuietStep, DispatcherKeeps DEF Next

-----------------------------------------------------------------------------
(* How a row changes, step by step. *)

(* A row of the outbox is changed only by whoever may claim it, or by the  *)
(* holder of its claim in a step that takes the holder on.                 *)
LEMMA RowChange ==
  ASSUME DispatchInv, NEW w \in Dispatchers, ClaimOutbox(w) \/ DispatcherStep(w) \/ Crash(w),
         NEW d \in Deliveries, outbox'[d] # outbox[d]
  PROVE  Claimable(d) \/ (Owns(w, d) /\ dispatcher'[w] # dispatcher[w])
<1>0. /\ dispatcher \in [Dispatchers -> DispatcherStates] /\ dispatcher[w] \in DispatcherStates
      /\ outbox \in [Deliveries -> OutboxRows]
  BY Zenon DEF DispatchInv, PathTypeOK, DispatcherTypeOK, StoreTypeOK
<1>1. CASE ClaimOutbox(w)
  BY Zenon, <1>1 DEF ClaimOutbox
<1>2. CASE Publish(w) \/ Crash(w)
  BY Zenon, <1>2 DEF Publish, Crash, storeVars
<1>3. CASE BeginOutboxPublish(w)
  <2>1. PICK id \in dispatcher[w].batch :
          \/ UNCHANGED outbox
          \/ /\ Owns(w, id[1])
             /\ outbox' = [outbox EXCEPT ![id[1]] = SettledRow(id[1], "failed")]
             /\ Continue(w, dispatcher[w].batch \ {id})
          \/ /\ Owns(w, id[1])
             /\ CountAttempt(id[1])
             /\ dispatcher' = [dispatcher EXCEPT ![w] = Begun(w, id)]
    BY Zenon, <1>3 DEF BeginOutboxPublish, SettledRow
  <2>2. Owns(w, id[1]) /\ d = id[1]
    BY Zenon, <1>0, <2>1 DEF CountAttempt
  <2>3. dispatcher[w].pc = "next"
    BY Zenon, <1>3 DEF BeginOutboxPublish
  <2>4. dispatcher'[w] \in {AfterItem(w, dispatcher[w].batch \ {id}), Begun(w, id)}
    BY Zenon, <1>0, <2>1 DEF Continue
  <2>5. Begun(w, id).pc = "publish"
    BY Zenon, <1>0 DEF Begun, DispatcherStates
  <2>6. AfterItem(w, dispatcher[w].batch \ {id}) # dispatcher[w]
    <3>1. dispatcher[w].batch \ {id} # dispatcher[w].batch
      BY Zenon
    <3>2. CASE dispatcher[w].batch \ {id} = {}
      BY <2>3, <3>2 DEF AfterItem, Idle
    <3>3. CASE dispatcher[w].batch \ {id} # {}
      <4>1. AfterItem(w, dispatcher[w].batch \ {id}).batch = dispatcher[w].batch \ {id}
        BY Zenon, <1>0, <3>3 DEF AfterItem, DispatcherStates
      <4> QED BY Zenon, <3>1, <4>1
    <3> QED BY Zenon, <3>2, <3>3
  <2> QED BY Zenon, <2>2, <2>3, <2>4, <2>5, <2>6
<1>4. CASE MarkOutboxDispatched(w) \/ RetryOutbox(w) \/ FailOutbox(w)
  <2>1. /\ Owns(w, dispatcher[w].current[1])
        /\ \E new : outbox' = [outbox EXCEPT ![dispatcher[w].current[1]] = new]
        /\ Continue(w, dispatcher[w].batch)
    BY Zenon, <1>4 DEF MarkOutboxDispatched, RetryOutbox, FailOutbox
  <2>2. d = dispatcher[w].current[1]
    BY Zenon, <1>0, <2>1
  <2>3. dispatcher[w].pc \in {"mark", "settle"}
    BY Zenon, <1>4 DEF MarkOutboxDispatched, RetryOutbox, FailOutbox
  <2>4. dispatcher'[w] = AfterItem(w, dispatcher[w].batch)
    BY Zenon, <1>0, <2>1 DEF Continue
  <2>5. AfterItem(w, dispatcher[w].batch).pc \in {"idle", "next"}
    BY Zenon, <1>0 DEF AfterItem, DispatcherStates, Idle
  <2> QED BY Zenon, <2>1, <2>2, <2>3, <2>4, <2>5
<1> QED BY Zenon, <1>1, <1>2, <1>3, <1>4 DEF DispatcherStep

(* A claimed row is due, and nothing runs out on a settled one. *)
AtRest ==
  \A d \in Deliveries :
    /\ outbox[d].claim # None => outbox[d].availableIn = 0
    /\ outbox[d].state # "open" =>
         outbox[d].claim = None /\ outbox[d].age = 0 /\ outbox[d].availableIn = 0

LEMMA AtRestInit == Init => AtRest
BY DEF Init, StoreInit, NewOutbox, AtRest

(* What a step of the outbox leaves of a row keeps it at rest. *)
LEMMA AtRestStep == DispatchInv /\ AtRest /\ [Next]_vars => AtRest'
<1> SUFFICES ASSUME DispatchInv, AtRest, [Next]_vars, NEW d \in Deliveries
             PROVE  /\ outbox'[d].claim # None => outbox'[d].availableIn = 0
                    /\ outbox'[d].state # "open" =>
                         outbox'[d].claim = None /\ outbox'[d].age = 0 /\ outbox'[d].availableIn = 0
  BY Zenon DEF AtRest
<1>0. outbox \in [Deliveries -> OutboxRows] /\ outbox[d] \in OutboxRows
  BY Zenon DEF DispatchInv, PathTypeOK, StoreTypeOK
<1>1. CASE outbox'[d] = outbox[d]
  BY Zenon, <1>1 DEF AtRest
<1>2. CASE Tick
  <2>1. /\ outbox'[d].claim = outbox[d].claim /\ outbox'[d].state = outbox[d].state
        /\ outbox'[d].availableIn = Down(outbox[d].availableIn)
        /\ outbox'[d].age = IF outbox[d].claim = None THEN 0 ELSE Up(outbox[d].age)
    BY Zenon, <1>0, <1>2 DEF Tick, StoreTick, OutboxRows
  <2> QED BY <2>1 DEF AtRest, Down
<1>3. CASE Replay
  BY <1>1, <1>3 DEF Replay, ReplayAdminDeadLetters, NewOutbox
<1>4. CASE StreamStep \/ UNCHANGED vars
  BY Zenon, <1>1, <1>4 DEF StreamStep, vars, storeVars
<1>5. ASSUME NEW w \in Dispatchers, ClaimOutbox(w) PROVE outbox'[d] = outbox[d] \/
        /\ outbox'[d].state = "open" /\ outbox'[d].availableIn = 0
  <2>1. PICK token \in FreshClaimTokens, claimed \in SUBSET {e \in Deliveries : Claimable(e)} :
          outbox' = [e \in Deliveries |->
            IF e \in claimed THEN [outbox[e] EXCEPT !.claim = token, !.age = 0] ELSE outbox[e]]
    BY Zenon, <1>5 DEF ClaimOutbox
  <2>2. CASE d \in claimed
    <3>1. outbox[d].state = "open" /\ outbox[d].availableIn = 0
      BY Zenon, <2>2 DEF Claimable
    <3>2. outbox'[d] = [outbox[d] EXCEPT !.claim = token, !.age = 0]
      BY Zenon, <2>1, <2>2
    <3> QED BY Zenon, <1>0, <3>1, <3>2 DEF OutboxRows
  <2> QED BY Zenon, <2>1, <2>2
<1>6. ASSUME NEW w \in Dispatchers, DispatcherStep(w), outbox'[d] # outbox[d]
      PROVE  \/ outbox'[d].claim = None /\ outbox'[d].state = "open"
             \/ outbox'[d].claim = None /\ outbox'[d].age = 0 /\ outbox'[d].availableIn = outbox[d].availableIn
             \/ /\ outbox'[d].claim = outbox[d].claim /\ outbox'[d].state = "open"
                /\ outbox'[d].availableIn = outbox[d].availableIn
  <2>1. \A s : /\ SettledRow(d, s).claim = None /\ SettledRow(d, s).age = 0
               /\ SettledRow(d, s).availableIn = outbox[d].availableIn
    BY Zenon, <1>0 DEF SettledRow, OutboxRows
  <2>2. \A v : RetriedRow(d, v).claim = None /\ RetriedRow(d, v).state = outbox[d].state
    BY Zenon, <1>0 DEF RetriedRow, OutboxRows
  <2>3. CASE BeginOutboxPublish(w)
    <3>1. PICK id \in dispatcher[w].batch :
            \/ outbox' = [outbox EXCEPT ![id[1]] = SettledRow(id[1], "failed")]
            \/ CountAttempt(id[1]) /\ Owns(w, id[1])
      BY Zenon, <1>6, <2>3 DEF BeginOutboxPublish, SettledRow
    <3>2. CASE outbox' = [outbox EXCEPT ![id[1]] = SettledRow(id[1], "failed")]
      <4>1. outbox'[d] = SettledRow(d, "failed")
        BY Zenon, <1>0, <1>6, <3>2
      <4> QED BY Zenon, <2>1, <4>1
    <3>3. CASE CountAttempt(id[1]) /\ Owns(w, id[1])
      <4>1. d = id[1]
        BY Zenon, <1>0, <1>6, <3>3 DEF CountAttempt
      <4>2. outbox'[d] = [outbox[d] EXCEPT !.attempts = outbox[d].attempts + 1]
        BY Zenon, <1>0, <3>3, <4>1 DEF CountAttempt
      <4> QED BY Zenon, <1>0, <3>3, <4>1, <4>2 DEF Owns, OutboxRows
    <3> QED BY Zenon, <3>1, <3>2, <3>3
  <2>4. CASE Publish(w)
    BY Zenon, <1>6, <2>4 DEF Publish, storeVars
  <2>5. CASE MarkOutboxDispatched(w) \/ FailOutbox(w)
    <3>1. PICK s \in {"dispatched", "failed"} :
            outbox' = [outbox EXCEPT ![dispatcher[w].current[1]] = SettledRow(dispatcher[w].current[1], s)]
      BY Zenon, <1>6, <2>5 DEF MarkOutboxDispatched, FailOutbox, SettledRow
    <3>2. outbox'[d] = SettledRow(d, s)
      BY Zenon, <1>0, <1>6, <3>1
    <3> QED BY Zenon, <2>1, <3>2
  <2>6. CASE RetryOutbox(w)
    <3>1. /\ Owns(w, dispatcher[w].current[1])
          /\ \E v : outbox' = [outbox EXCEPT ![dispatcher[w].current[1]] =
                                 RetriedRow(dispatcher[w].current[1], v)]
      BY Zenon, <1>6, <2>6 DEF RetryOutbox, RetriedRow
    <3>2. d = dispatcher[w].current[1] /\ \E v : outbox'[d] = RetriedRow(d, v)
      BY Zenon, <1>0, <1>6, <3>1
    <3>3. PICK v : outbox'[d] = RetriedRow(d, v)
      BY Zenon, <3>2
    <3>4. outbox[d].state = "open"
      BY Zenon, <3>1, <3>2 DEF Owns
    <3> QED BY Zenon, <2>2, <3>3, <3>4
  <2> QED BY Zenon, <1>6, <2>3, <2>4, <2>5, <2>6 DEF DispatcherStep
<1>7. ASSUME NEW w \in Dispatchers, DispatcherStep(w), outbox'[d] # outbox[d]
      PROVE  outbox[d].availableIn = 0
  <2>1. Claimable(d) \/ Owns(w, d)
    BY Zenon, <1>7, RowChange
  <2>2. dispatcher[w].token # None
    BY Zenon, <1>7 DEF DispatcherStep, BeginOutboxPublish, Publish, MarkOutboxDispatched, RetryOutbox,
                FailOutbox, DispatchInv, LoopState
  <2> QED BY Zenon, <2>1, <2>2 DEF Claimable, Owns, AtRest
<1>8. ASSUME NEW w \in Dispatchers, Crash(w) PROVE outbox'[d] = outbox[d]
  BY Zenon, <1>8 DEF Crash, storeVars
<1> QED BY Zenon, <1>1, <1>2, <1>3, <1>4, <1>5, <1>6, <1>7, <1>8 DEF Next

(* A row with nothing left to run out is the same after a tick. *)
LEMMA RestingRow ==
  ASSUME NEW o \in OutboxRows, o.age = 0, o.availableIn = 0
  PROVE  [o EXCEPT !.age = 0, !.availableIn = 0] = o
BY Zenon DEF OutboxRows

LEMMA RowsChangeInOrder == DispatchInv /\ AtRest /\ [Next]_vars => SettledStays /\ ClaimStands
<1> SUFFICES ASSUME DispatchInv, AtRest, [Next]_vars, NEW d \in Deliveries, outbox'[d] # outbox[d]
             PROVE  /\ outbox[d].state # "open" => outbox'[d] = NewOutbox(outbox[d].generation + 1)
                    /\ outbox[d].claim # None /\ outbox'[d].claim # outbox[d].claim =>
                         \/ outbox[d].age >= ClaimTTL
                         \/ outbox'[d].generation # outbox[d].generation
                         \/ \E w \in Dispatchers :
                              dispatcher[w].token = outbox[d].claim /\ dispatcher'[w] # dispatcher[w]
  BY Zenon DEF SettledStays, ClaimStands
<1>0. outbox[d] \in OutboxRows /\ outbox[d].generation \in Nat
  BY ConstantTypes DEF DispatchInv, PathTypeOK, StoreTypeOK, OutboxRows, Generations
<1>1. CASE Tick
  <2>1. outbox'[d] = [outbox[d] EXCEPT
          !.age = IF outbox[d].claim = None THEN 0 ELSE Up(outbox[d].age),
          !.availableIn = Down(outbox[d].availableIn)]
    BY Zenon, <1>1 DEF Tick, StoreTick
  <2>2. outbox'[d].claim = outbox[d].claim
    BY Zenon, <1>0, <2>1 DEF OutboxRows
  <2>3. ASSUME outbox[d].state # "open" PROVE outbox'[d] = outbox[d]
    <3>1. outbox[d].claim = None /\ outbox[d].age = 0 /\ outbox[d].availableIn = 0
      BY Zenon, <2>3 DEF AtRest
    <3>2. outbox'[d] = [outbox[d] EXCEPT !.age = 0, !.availableIn = 0]
      BY <2>1, <3>1 DEF Down
    <3> QED BY Zenon, <1>0, <3>1, <3>2, RestingRow
  <2> QED BY Zenon, <2>2, <2>3
<1>2. CASE Replay
  <2>1. outbox'[d] = NewOutbox(outbox[d].generation + 1)
    BY Zenon, <1>2 DEF Replay, ReplayAdminDeadLetters
  <2>2. outbox'[d].generation # outbox[d].generation
    BY <1>0, <2>1 DEF NewOutbox
  <2> QED BY Zenon, <2>1, <2>2
<1>3. CASE StreamStep \/ UNCHANGED vars
  BY Zenon, <1>3 DEF StreamStep, vars, storeVars
<1>4. ASSUME NEW w \in Dispatchers, ClaimOutbox(w) \/ DispatcherStep(w) \/ Crash(w)
      PROVE  /\ outbox[d].state = "open"
             /\ outbox[d].claim # None =>
                  \/ outbox[d].age >= ClaimTTL
                  \/ dispatcher[w].token = outbox[d].claim /\ dispatcher'[w] # dispatcher[w]
  BY Zenon, <1>4, RowChange DEF Claimable, Owns
<1> QED BY Zenon, <1>1, <1>2, <1>3, <1>4 DEF Next

-----------------------------------------------------------------------------
(* The invariant that the proofs of the outbox rest on is an invariant. *)
THEOREM OutboxInvariant == Spec => []OutboxInv
BY OutboxInvInit, OutboxInvStep, PTL DEF Spec

(* Every column, message and local variable keeps its type. *)
THEOREM OutboxTypes == Spec => []TypeOK
<1>1. OutboxInv => TypeOK
  BY Zenon DEF OutboxInv, DispatchInv, PathTypeOK, TypeOK
<1> QED BY <1>1, OutboxInvariant, PTL

(* MarkOutboxDispatched: a row says dispatched only when the stream has    *)
(* accepted the message of the row's own generation.                       *)
THEOREM DispatchedRowsAreStored == Spec => []DispatchedIsStored
<1>1. OutboxInv => DispatchedIsStored
  BY Zenon DEF OutboxInv, DispatchInv
<1> QED BY <1>1, OutboxInvariant, PTL

(* BeginOutboxPublish: however claims go stale and are taken over, each    *)
(* counted attempt makes at most one broker call.                          *)
THEOREM AttemptsBoundCalls == Spec => []OneCallPerAttempt
<1>1. OutboxInv => OneCallPerAttempt
  BY Zenon DEF OutboxInv, DispatchInv
<1> QED BY <1>1, OutboxInvariant, PTL

(* FailOutbox and the exhausted case of BeginOutboxPublish: a failed row   *)
(* has spent all its attempts and its delivery is final.                   *)
THEOREM FailedRowsAreExhausted == Spec => []FailedMeansExhausted
<1>1. OutboxInv => FailedMeansExhausted
  BY Zenon DEF OutboxInv
<1> QED BY <1>1, OutboxInvariant, PTL

(* Everything that the runs check of the rows at a point of time holds for *)
(* any number of deliveries, dispatchers, attempts, generations and        *)
(* crashes.                                                                *)
THEOREM OutboxSafety == Spec => []OutboxSafe
<1>1. OutboxInv => OutboxSafe
  BY Zenon DEF OutboxInv, DispatchInv, PathTypeOK, TypeOK, OutboxSafe
<1> QED BY <1>1, OutboxInvariant, PTL

(* MarkOutboxDispatched, FailOutbox: once settled, a row changes only when *)
(* its delivery is replayed.  ClaimOutbox: a claim is taken from its       *)
(* holder only when it is stale.                                           *)
THEOREM RowsKeepTheirHolders == Spec => SettledIsFinal /\ ClaimRespected
<1>1. DispatchInv /\ AtRest /\ [Next]_vars => [SettledStays]_vars /\ [ClaimStands]_vars
  BY Zenon, RowsChangeInOrder
<1>2. OutboxInv => DispatchInv
  BY Zenon DEF OutboxInv
<1>3. Spec => [][SettledStays]_vars /\ [][ClaimStands]_vars
  BY <1>1, <1>2, AtRestInit, AtRestStep, OutboxInvariant, PTL DEF Spec
<1> QED BY Zenon, <1>3 DEF SettledIsFinal, ClaimRespected

-----------------------------------------------------------------------------
(* Migration *)

CONSTANTS
  MaxUser, Apps, Records, Schedules, Devices, Bindings, ParentOf, LegacyDeliveries, AppOf, MaxContents, MaxRuns
VARIABLES source, target, draft, run, runs, quiet

M == INSTANCE Migration WITH Deliveries <- LegacyDeliveries

States == {"pending", "succeeded", "dlq"}
RunStatuses == {"pending", "acked", "dead_letter"}
PCs ==
  {"idle", "users", "applications", "records", "schedules", "events", "deliveries", "outbox",
   "devices", "bindings", "commit", "applied", "verified"}

MigrationSensible ==
  /\ MaxUser \in Nat \ {0} /\ MaxRuns \in Nat
  /\ None \notin States \cup RunStatuses \cup {"open", "discarded"}
  /\ \A x \in Records \cup Devices \cup LegacyDeliveries : AppOf[x] \in Apps
  /\ \A x \in Schedules : ParentOf[x] \in Records
  /\ \A b \in Bindings : ParentOf[b] \in Devices

SourceRows ==
  [users : 1..MaxUser, apps : SUBSET Apps, record : [Records -> Nat], schedules : SUBSET Schedules,
   devices : SUBSET Devices, bindings : SUBSET Bindings,
   delivery : [LegacyDeliveries -> RunStatuses \cup {None}]]

TargetRows ==
  [users : SUBSET Nat, apps : [Apps -> 0..MaxUser], record : [Records -> Nat],
   event : SUBSET LegacyDeliveries, schedules : SUBSET Schedules, devices : SUBSET Devices,
   bindings : SUBSET Bindings, delivery : [LegacyDeliveries -> States \cup {None}],
   outbox : [LegacyDeliveries -> {None, "open", "discarded"}]]

RunStates ==
  [pc : PCs, workspace : 0..MaxUser, seen : [LegacyDeliveries -> States \cup {None}]]

MigrationTyped ==
  /\ source \in SourceRows /\ target \in TargetRows /\ draft \in TargetRows /\ run \in RunStates
  /\ runs \in 0..MaxRuns /\ quiet \in BOOLEAN

(* The source never loses a row, so a copy, however old, holds none that   *)
(* the source has not.                                                     *)
Behind(t) ==
  /\ \A r \in Records : t.record[r] # 0 => source.record[r] # 0
  /\ t.schedules \subseteq source.schedules /\ t.devices \subseteq source.devices
  /\ t.bindings \subseteq source.bindings
  /\ \A d \in LegacyDeliveries : t.delivery[d] # None => source.delivery[d] # None

(* What refers to another row finds it. *)
Hangs(t) ==
  /\ \A x \in t.schedules : t.record[ParentOf[x]] # 0
  /\ \A b \in t.bindings : ParentOf[b] \in t.devices
  /\ \A d \in LegacyDeliveries : t.delivery[d] # None => d \in t.event
  /\ \A d \in t.event : t.apps[AppOf[d]] # 0

OutboxFits(t) ==
  \A d \in LegacyDeliveries : t.delivery[d] # None =>
    t.outbox[d] # None /\ (t.delivery[d] = "pending" => t.outbox[d] = "open")

(* Between the deliveries and the outbox, the run knows which deliveries   *)
(* it has settled.                                                         *)
SeenFits == \A d \in LegacyDeliveries : M!Terminal(run.seen[d]) => draft.delivery[d] = run.seen[d]

DeliveriesAgree(t) ==
  /\ \A d \in LegacyDeliveries : source.delivery[d] # None => t.delivery[d] # None
  /\ \A d \in LegacyDeliveries : source.delivery[d] \in {"acked", "dead_letter"} =>
       t.delivery[d] = M!legacyDeliveryState[source.delivery[d]]
OutboxAgrees(t) ==
  \A d \in LegacyDeliveries : source.delivery[d] \in {"acked", "dead_letter"} => t.outbox[d] = "discarded"

(* While the source is at rest, the tables that the run has passed agree   *)
(* with it.                                                                *)
Passed(pcs) == run.pc \in pcs /\ quiet
Progress ==
  /\ Passed(PCs \ {"idle", "users", "applications", "records", "applied", "verified"})
       => draft.record = source.record
  /\ Passed({"events", "deliveries", "outbox", "devices", "bindings", "commit"})
       => draft.schedules = source.schedules
  /\ Passed({"outbox", "devices", "bindings", "commit"}) => DeliveriesAgree(draft)
  /\ Passed({"outbox"}) => \A d \in LegacyDeliveries : source.delivery[d] \in {"acked", "dead_letter"} =>
       run.seen[d] = M!legacyDeliveryState[source.delivery[d]]
  /\ Passed({"devices", "bindings", "commit"}) => OutboxAgrees(draft)
  /\ Passed({"bindings", "commit"}) => draft.devices = source.devices
  /\ Passed({"commit"}) => draft.bindings = source.bindings
  /\ Passed({"applied", "verified"}) =>
       /\ target.record = source.record /\ target.schedules = source.schedules
       /\ target.devices = source.devices /\ target.bindings = source.bindings
       /\ DeliveriesAgree(target) /\ OutboxAgrees(target)

Fits ==
  /\ Behind(target) /\ Behind(draft) /\ Hangs(target) /\ Hangs(draft)
  /\ OutboxFits(target)
  /\ IF run.pc = "outbox" THEN SeenFits ELSE OutboxFits(draft)

MigrationInv == MigrationTyped /\ Fits /\ Progress

-----------------------------------------------------------------------------
(* The old server goes on *)

Grown ==
  /\ \A r \in Records : source.record[r] # 0 => source'.record[r] # 0
  /\ source.schedules \subseteq source'.schedules /\ source.devices \subseteq source'.devices
  /\ source.bindings \subseteq source'.bindings
  /\ \A d \in LegacyDeliveries : source.delivery[d] # None => source'.delivery[d] # None

LegacyActions ==
  \/ M!AddUser \/ \E a \in Apps : M!AddApp(a)
  \/ \E r \in Records : M!ChangeRecord(r)
  \/ \E x \in Schedules : M!AddSchedule(x)
  \/ \E v \in Devices : M!AddDevice(v)
  \/ \E b \in Bindings : M!Bind(b)
  \/ \E d \in LegacyDeliveries : M!Publish(d) \/ M!Settle(d) \/ M!Replay(d)

LEMMA SourceGrows ==
  ASSUME MigrationSensible, MigrationTyped, LegacyActions
  PROVE  source' \in SourceRows /\ Grown
<1>1. source \in SourceRows
  BY Zenon DEF MigrationTyped
<1>2. CASE M!AddUser
  BY <1>1, <1>2 DEF MigrationSensible, M!AddUser, M!Legacy, SourceRows, Grown
<1>3. ASSUME NEW a \in Apps, M!AddApp(a)
      PROVE  source' \in SourceRows /\ Grown
  BY Zenon, <1>1, <1>3 DEF M!AddApp, M!Legacy, SourceRows, Grown
<1>4. ASSUME NEW r \in Records, M!ChangeRecord(r)
      PROVE  source' \in SourceRows /\ Grown
  <2> DEFINE new == [source.record EXCEPT ![r] = @ + 1]
  <2>1. source' = [source EXCEPT !.record = new]
    BY Zenon, <1>1, <1>4 DEF M!ChangeRecord, M!Legacy, SourceRows
  <2>2. source.record \in [Records -> Nat]
    BY Zenon, <1>1 DEF SourceRows
  <2>3. new \in [Records -> Nat] /\ \A q \in Records : source.record[q] # 0 => new[q] # 0
    BY <2>2
  <2> HIDE DEF new
  <2> QED BY Zenon, <1>1, <2>1, <2>3 DEF SourceRows, Grown
<1>5. ASSUME NEW x \in Schedules, M!AddSchedule(x)
      PROVE  source' \in SourceRows /\ Grown
  BY Zenon, <1>1, <1>5 DEF M!AddSchedule, M!Legacy, SourceRows, Grown
<1>6. ASSUME NEW v \in Devices, M!AddDevice(v)
      PROVE  source' \in SourceRows /\ Grown
  BY Zenon, <1>1, <1>6 DEF M!AddDevice, M!Legacy, SourceRows, Grown
<1>7. ASSUME NEW b \in Bindings, M!Bind(b)
      PROVE  source' \in SourceRows /\ Grown
  BY Zenon, <1>1, <1>7 DEF M!Bind, M!Legacy, SourceRows, Grown
<1>8. ASSUME NEW d \in LegacyDeliveries, M!Publish(d) \/ M!Settle(d) \/ M!Replay(d)
      PROVE  source' \in SourceRows /\ Grown
  <2>1. source.delivery \in [LegacyDeliveries -> RunStatuses \cup {None}]
    BY Zenon, <1>1 DEF SourceRows
  <2>2. PICK status \in RunStatuses : source' = [source EXCEPT !.delivery[d] = status]
    BY Zenon, <1>8 DEF M!Publish, M!Settle, M!Replay, M!Legacy, RunStatuses
  <2> DEFINE new == [source.delivery EXCEPT ![d] = status]
  <2>3. source' = [source EXCEPT !.delivery = new]
    BY Zenon, <1>1, <2>2 DEF SourceRows
  <2>4. new \in [LegacyDeliveries -> RunStatuses \cup {None}] /\ \A c \in LegacyDeliveries : source.delivery[c] # None => new[c] # None
    BY Zenon, <2>1 DEF MigrationSensible
  <2> HIDE DEF new
  <2> QED BY Zenon, <1>1, <2>3, <2>4 DEF SourceRows, Grown
<1> QED BY Zenon, <1>2, <1>3, <1>4, <1>5, <1>6, <1>7, <1>8 DEF LegacyActions

LEMMA LegacyStep ==
  ASSUME MigrationSensible, MigrationInv, LegacyActions
  PROVE  MigrationInv'
<1>1. MigrationTyped /\ Fits /\ source' \in SourceRows /\ Grown
  BY Zenon, SourceGrows DEF MigrationInv
<1>2. UNCHANGED <<target, draft, run, runs>> /\ quiet' = FALSE
  BY Zenon DEF LegacyActions, M!AddUser, M!AddApp, M!ChangeRecord, M!AddSchedule, M!AddDevice, M!Bind, M!Publish, M!Settle, M!Replay, M!Legacy
<1>3. MigrationTyped'
  BY Zenon, <1>1, <1>2 DEF MigrationTyped, SourceRows, TargetRows, RunStates
<1>5. Behind(target)' /\ Behind(draft)'
  BY Zenon, <1>1, <1>2 DEF Grown, Behind, Fits
<1>6. Hangs(target)' /\ Hangs(draft)' /\ OutboxFits(target)'
  BY Zenon, <1>1, <1>2 DEF Fits, Hangs, OutboxFits
<1>7. IF run'.pc = "outbox" THEN SeenFits' ELSE OutboxFits(draft)'
  BY Zenon, <1>1, <1>2 DEF Fits, SeenFits, OutboxFits, M!Terminal
<1>8. Progress'
  BY Zenon, <1>2 DEF Progress, Passed
<1> QED BY Zenon, <1>3, <1>5, <1>6, <1>7, <1>8 DEF MigrationInv, Fits

-----------------------------------------------------------------------------
(* The run of apply *)

(* A step of the run that writes the draft: the invariant is then about    *)
(* the draft and the program counter alone.                                *)
LEMMA WritesDraft ==
  ASSUME MigrationInv, UNCHANGED <<source, target, runs, quiet>>, draft' \in TargetRows,
         run' \in RunStates, run'.pc \notin {"applied", "verified"},
         Behind(draft)', Hangs(draft)', IF run'.pc = "outbox" THEN SeenFits' ELSE OutboxFits(draft)',
         Progress'
  PROVE  MigrationInv'
<1>1. MigrationTyped'
  BY Zenon DEF MigrationInv, MigrationTyped
<1>2. Behind(target)' /\ Hangs(target)' /\ OutboxFits(target)'
  BY Zenon DEF MigrationInv, Fits, Behind, Hangs, OutboxFits
<1> QED BY Zenon, <1>1, <1>2 DEF MigrationInv, Fits

LEMMA Aborts ==
  ASSUME MigrationSensible, MigrationInv, M!Abort
  PROVE  MigrationInv'
<1>1. UNCHANGED <<source, target, runs, quiet>> /\ draft' = target /\ run' = M!NoRun
  BY Zenon DEF M!Abort
<1>2. run' \in RunStates /\ run'.pc = "idle"
  BY <1>1 DEF M!NoRun, RunStates, PCs, MigrationSensible
<1>3. draft' \in TargetRows
  BY Zenon, <1>1 DEF MigrationInv, MigrationTyped
<1>4. Behind(draft)' /\ Hangs(draft)' /\ OutboxFits(draft)'
  BY Zenon, <1>1 DEF MigrationInv, Fits, Behind, Hangs, OutboxFits
<1>5. Progress'
  BY Zenon, <1>2 DEF Progress, Passed
<1> QED BY Zenon, <1>1, <1>2, <1>3, <1>4, <1>5, WritesDraft

LEMMA BeginRunStep ==
  ASSUME MigrationSensible, MigrationInv, M!Begin
  PROVE  MigrationInv'
<1>1. /\ UNCHANGED <<source, target>> /\ draft' = target /\ run' = [M!NoRun EXCEPT !.pc = "users"]
      /\ runs < MaxRuns /\ runs' = runs + 1 /\ quiet' = TRUE
  BY Zenon DEF M!Begin
<1>2. run' \in RunStates /\ run'.pc = "users"
  BY <1>1 DEF M!NoRun, RunStates, PCs, MigrationSensible
<1>3. MigrationTyped'
  BY <1>1, <1>2 DEF MigrationInv, MigrationTyped, MigrationSensible
<1>4. Behind(target)' /\ Hangs(target)' /\ OutboxFits(target)'
  BY Zenon, <1>1 DEF MigrationInv, Fits, Behind, Hangs, OutboxFits
<1>5. Behind(draft)' /\ Hangs(draft)' /\ OutboxFits(draft)'
  BY Zenon, <1>1 DEF MigrationInv, Fits, Behind, Hangs, OutboxFits
<1>6. Progress'
  BY Zenon, <1>2 DEF Progress, Passed
<1> QED BY Zenon, <1>2, <1>3, <1>4, <1>5, <1>6 DEF MigrationInv, Fits

LEMMA UsersStep ==
  ASSUME MigrationSensible, MigrationInv, M!MigrateUsers
  PROVE  MigrationInv'
<1>1. /\ UNCHANGED <<source, target, runs, quiet>> /\ run.pc = "users"
      /\ draft' = [draft EXCEPT !.users = 1..source.users]
      /\ run' = [run EXCEPT !.pc = "applications", !.workspace = source.users]
  BY Zenon DEF M!MigrateUsers
<1>2. run' \in RunStates /\ run'.pc = "applications"
  <2>1. source.users \in 0..MaxUser
    BY DEF MigrationInv, MigrationTyped, SourceRows, MigrationSensible
  <2> QED BY Zenon, <1>1, <2>1 DEF MigrationInv, MigrationTyped, RunStates, PCs
<1>3. /\ draft' \in TargetRows
      /\ \A f \in {"apps", "record", "event", "schedules", "devices", "bindings", "delivery", "outbox"} :
           draft'[f] = draft[f]
  <2>1. 1..source.users \in SUBSET Nat
    BY DEF MigrationInv, MigrationTyped, SourceRows, MigrationSensible
  <2>2. draft \in TargetRows
    BY Zenon DEF MigrationInv, MigrationTyped
  <2> DEFINE new == 1..source.users
  <2> HIDE DEF new
  <2>3. draft' = [draft EXCEPT !.users = new] /\ new \in SUBSET Nat
    BY Zenon, <1>1, <2>1 DEF new
  <2> QED BY Zenon, <2>2, <2>3 DEF TargetRows
<1>4. Behind(draft)' /\ Hangs(draft)' /\ OutboxFits(draft)'
  BY <1>1, <1>3 DEF MigrationInv, Fits, Behind, Hangs, OutboxFits
<1>5. Progress'
  BY Zenon, <1>2 DEF Progress, Passed
<1> QED BY Zenon, <1>1, <1>2, <1>3, <1>4, <1>5, WritesDraft

LEMMA ApplicationsStep ==
  ASSUME MigrationSensible, MigrationInv, M!MigrateApplications
  PROVE  MigrationInv'
<1> DEFINE new == [a \in Apps |-> IF a \in source.apps /\ draft.apps[a] = 0 THEN run.workspace ELSE draft.apps[a]]
<1>1. /\ UNCHANGED <<source, target, runs, quiet>> /\ run.pc = "applications"
      /\ draft' = [draft EXCEPT !.apps = new] /\ run' = [run EXCEPT !.pc = "records"]
  BY Zenon DEF M!MigrateApplications, M!Then
<1>2. run' \in RunStates /\ run'.pc = "records"
  BY Zenon, <1>1 DEF MigrationInv, MigrationTyped, RunStates, PCs
<1>3. new \in [Apps -> 0..MaxUser] /\ \A a \in Apps : draft.apps[a] # 0 => new[a] # 0
  BY Zenon DEF MigrationInv, MigrationTyped, TargetRows, RunStates
<1> HIDE DEF new
<1>4. /\ draft' \in TargetRows /\ draft'.apps = new
      /\ \A f \in {"record", "event", "schedules", "devices", "bindings", "delivery", "outbox"} :
           draft'[f] = draft[f]
  BY Zenon, <1>1, <1>3 DEF MigrationInv, MigrationTyped, TargetRows
<1>5. Behind(draft)' /\ OutboxFits(draft)'
  BY <1>1, <1>4 DEF MigrationInv, Fits, Behind, OutboxFits
<1>6. \A d \in draft.event : AppOf[d] \in Apps
  BY Zenon DEF MigrationInv, MigrationTyped, TargetRows, MigrationSensible
<1>7. Hangs(draft)'
  BY Zenon, <1>3, <1>4, <1>6 DEF MigrationInv, Fits, Hangs
<1>8. Progress'
  BY Zenon, <1>2 DEF Progress, Passed
<1> QED BY Zenon, <1>1, <1>2, <1>4, <1>5, <1>7, <1>8, WritesDraft

LEMMA RecordsStep ==
  ASSUME MigrationSensible, MigrationInv, M!MigrateRecords
  PROVE  MigrationInv'
<1> SUFFICES ASSUME ~M!Abort PROVE MigrationInv'
  BY Zenon, Aborts
<1>1. /\ UNCHANGED <<source, target, runs, quiet>> /\ run.pc = "records"
      /\ draft' = [draft EXCEPT !.record = [r \in Records |-> source.record[r]]]
      /\ run' = [run EXCEPT !.pc = "schedules"]
  BY Zenon DEF M!MigrateRecords, M!Then
<1>2. run' \in RunStates /\ run'.pc = "schedules"
  BY Zenon, <1>1 DEF MigrationInv, MigrationTyped, RunStates, PCs
<1>3. source.record \in [Records -> Nat] /\ [r \in Records |-> source.record[r]] = source.record
  BY Zenon DEF MigrationInv, MigrationTyped, SourceRows
<1>4. /\ draft' \in TargetRows /\ draft'.record = source.record
      /\ \A f \in {"apps", "event", "schedules", "devices", "bindings", "delivery", "outbox"} :
           draft'[f] = draft[f]
  BY Zenon, <1>1, <1>3 DEF MigrationInv, MigrationTyped, TargetRows
<1>5. Behind(draft)' /\ OutboxFits(draft)'
  BY <1>1, <1>4 DEF MigrationInv, Fits, Behind, OutboxFits
<1>6. \A x \in draft.schedules : ParentOf[x] \in Records
  BY Zenon DEF MigrationInv, MigrationTyped, TargetRows, MigrationSensible
<1>7. Hangs(draft)'
  BY Zenon, <1>4, <1>6 DEF MigrationInv, Fits, Hangs, Behind
<1>8. Progress'
  BY Zenon, <1>1, <1>2, <1>4 DEF Progress, Passed
<1> QED BY Zenon, <1>1, <1>2, <1>4, <1>5, <1>7, <1>8, WritesDraft

LEMMA SchedulesStep ==
  ASSUME MigrationSensible, MigrationInv, M!MigrateSchedules
  PROVE  MigrationInv'
<1> SUFFICES ASSUME ~M!Abort PROVE MigrationInv'
  BY Zenon, Aborts
<1>1. /\ UNCHANGED <<source, target, runs, quiet>> /\ run.pc = "schedules"
      /\ \A x \in source.schedules : draft.record[ParentOf[x]] # 0
      /\ draft' = [draft EXCEPT !.schedules = source.schedules]
      /\ run' = [run EXCEPT !.pc = "events"]
  BY Zenon DEF M!MigrateSchedules, M!Then
<1>2. run' \in RunStates /\ run'.pc = "events"
  BY Zenon, <1>1 DEF MigrationInv, MigrationTyped, RunStates, PCs
<1>4. /\ draft' \in TargetRows /\ draft'.schedules = source.schedules
      /\ \A f \in {"apps", "record", "event", "devices", "bindings", "delivery", "outbox"} :
           draft'[f] = draft[f]
  BY Zenon, <1>1 DEF MigrationInv, MigrationTyped, TargetRows, SourceRows
<1>5. Behind(draft)' /\ OutboxFits(draft)'
  BY <1>1, <1>4 DEF MigrationInv, Fits, Behind, OutboxFits
<1>7. Hangs(draft)'
  BY Zenon, <1>1, <1>4 DEF MigrationInv, Fits, Hangs
<1>8. Progress'
  BY Zenon, <1>1, <1>2, <1>4 DEF MigrationInv, Progress, Passed, PCs
<1> QED BY Zenon, <1>1, <1>2, <1>4, <1>5, <1>7, <1>8, WritesDraft

LEMMA EventsStep ==
  ASSUME MigrationSensible, MigrationInv, M!MigrateEvents
  PROVE  MigrationInv'
<1> SUFFICES ASSUME ~M!Abort PROVE MigrationInv'
  BY Zenon, Aborts
<1> DEFINE read == {d \in LegacyDeliveries : source.delivery[d] # None}
<1>1. /\ UNCHANGED <<source, target, runs, quiet>> /\ run.pc = "events"
      /\ \A d \in read : draft.apps[AppOf[d]] # 0
      /\ draft' = [draft EXCEPT !.event = @ \cup read] /\ run' = [run EXCEPT !.pc = "deliveries"]
  BY Zenon DEF M!MigrateEvents, M!Then, M!Migrated
<1>2. run' \in RunStates /\ run'.pc = "deliveries"
  BY Zenon, <1>1 DEF MigrationInv, MigrationTyped, RunStates, PCs
<1>3. read \subseteq LegacyDeliveries
  BY Zenon
<1> HIDE DEF read
<1>4. /\ draft' \in TargetRows /\ draft'.event = draft.event \cup read
      /\ \A f \in {"apps", "record", "schedules", "devices", "bindings", "delivery", "outbox"} :
           draft'[f] = draft[f]
  BY Zenon, <1>1, <1>3 DEF MigrationInv, MigrationTyped, TargetRows
<1>5. Behind(draft)' /\ OutboxFits(draft)'
  BY <1>1, <1>4 DEF MigrationInv, Fits, Behind, OutboxFits
<1>7. Hangs(draft)'
  BY Zenon, <1>1, <1>4 DEF MigrationInv, Fits, Hangs
<1>8. Progress'
  BY Zenon, <1>1, <1>2, <1>4 DEF MigrationInv, Progress, Passed, PCs
<1> QED BY Zenon, <1>1, <1>2, <1>4, <1>5, <1>7, <1>8, WritesDraft

LEMMA DeliveriesStep ==
  ASSUME MigrationSensible, MigrationInv, M!MigrateDeliveries
  PROVE  MigrationInv'
<1> SUFFICES ASSUME ~M!Abort PROVE MigrationInv'
  BY Zenon, Aborts
<1> DEFINE new == [d \in LegacyDeliveries |-> M!DeliveryAfter(d, source.delivery)]
           read == [d \in LegacyDeliveries |->
                      IF source.delivery[d] = None THEN None ELSE M!legacyDeliveryState[source.delivery[d]]]
<1>1. /\ UNCHANGED <<source, target, runs, quiet>> /\ run.pc = "deliveries"
      /\ \A d \in LegacyDeliveries : source.delivery[d] # None => d \in draft.event
      /\ draft' = [draft EXCEPT !.delivery = new]
      /\ run' = [run EXCEPT !.pc = "outbox", !.seen = read]
  BY Zenon DEF M!MigrateDeliveries
<1>2. /\ source.delivery \in [LegacyDeliveries -> RunStatuses \cup {None}]
      /\ draft.delivery \in [LegacyDeliveries -> States \cup {None}]
  BY Zenon DEF MigrationInv, MigrationTyped, SourceRows, TargetRows
<1>3. \A status \in RunStatuses : M!legacyDeliveryState[status] \in States
  BY DEF RunStatuses, States, M!legacyDeliveryState
<1>4. \A status \in {"acked", "dead_letter"} : M!Terminal(M!legacyDeliveryState[status])
  BY DEF M!legacyDeliveryState, M!Terminal
<1>5. /\ None \notin States /\ None \notin RunStatuses /\ {"acked", "dead_letter"} \subseteq RunStatuses
      /\ ~M!Terminal(None)
  BY Zenon DEF MigrationSensible, RunStatuses, M!Terminal, States
<1>6. /\ new \in [LegacyDeliveries -> States \cup {None}] /\ read \in [LegacyDeliveries -> States \cup {None}]
      /\ \A d \in LegacyDeliveries :
           /\ source.delivery[d] = None => new[d] = draft.delivery[d] /\ read[d] = None
           /\ source.delivery[d] # None => new[d] # None /\ read[d] = M!legacyDeliveryState[source.delivery[d]]
           /\ M!Terminal(read[d]) => new[d] = read[d]
  BY Zenon, <1>2, <1>3, <1>5 DEF M!DeliveryAfter
<1>7. \A d \in LegacyDeliveries : source.delivery[d] \in {"acked", "dead_letter"} =>
        new[d] = M!legacyDeliveryState[source.delivery[d]] /\ read[d] = M!legacyDeliveryState[source.delivery[d]]
  BY Zenon, <1>4, <1>5, <1>6
<1> HIDE DEF new, read
<1>8. run' \in RunStates /\ run'.pc = "outbox" /\ run'.seen = read
  BY Zenon, <1>1, <1>6 DEF MigrationInv, MigrationTyped, RunStates, PCs
<1>9. /\ draft' \in TargetRows /\ draft'.delivery = new
      /\ \A f \in {"apps", "record", "event", "schedules", "devices", "bindings", "outbox"} :
           draft'[f] = draft[f]
  BY Zenon, <1>1, <1>6 DEF MigrationInv, MigrationTyped, TargetRows
<1>10. Behind(draft)'
  BY <1>1, <1>6, <1>9 DEF MigrationInv, Fits, Behind
<1>11. Hangs(draft)'
  BY <1>1, <1>6, <1>9 DEF MigrationInv, Fits, Hangs
<1>12. SeenFits'
  BY Zenon, <1>6, <1>8, <1>9 DEF SeenFits
<1>13. Progress'
  <2>1. DeliveriesAgree(draft)'
    BY <1>1, <1>6, <1>7, <1>9 DEF DeliveriesAgree
  <2>2. \A d \in LegacyDeliveries : source'.delivery[d] \in {"acked", "dead_letter"} =>
          run'.seen[d] = M!legacyDeliveryState[source'.delivery[d]]
    BY Zenon, <1>1, <1>7, <1>8
  <2>3. quiet => draft.record = source.record /\ draft.schedules = source.schedules
    BY Zenon, <1>1 DEF MigrationInv, Progress, Passed, PCs
  <2> QED BY Zenon, <1>1, <1>8, <1>9, <2>1, <2>2, <2>3 DEF Progress, Passed
<1> QED BY Zenon, <1>1, <1>8, <1>9, <1>10, <1>11, <1>12, <1>13, WritesDraft

LEMMA OutboxStep ==
  ASSUME MigrationSensible, MigrationInv, M!MigrateOutbox
  PROVE  MigrationInv'
<1> SUFFICES ASSUME ~M!Abort PROVE MigrationInv'
  BY Zenon, Aborts
<1> DEFINE read == {d \in LegacyDeliveries : source.delivery[d] # None}
           new == [d \in LegacyDeliveries |-> IF d \in read THEN M!OutboxAfter(d) ELSE draft.outbox[d]]
<1>1. /\ UNCHANGED <<source, target, runs, quiet>> /\ run.pc = "outbox"
      /\ draft' = [draft EXCEPT !.outbox = new] /\ run' = [run EXCEPT !.pc = "devices"]
  BY Zenon DEF M!MigrateOutbox, M!Then
<1>2. /\ draft.outbox \in [LegacyDeliveries -> {None, "open", "discarded"}]
      /\ draft.delivery \in [LegacyDeliveries -> States \cup {None}]
  BY Zenon DEF MigrationInv, MigrationTyped, TargetRows
<1>3. new \in [LegacyDeliveries -> {None, "open", "discarded"}]
  BY Zenon, <1>2 DEF M!OutboxAfter
<1>4. \A d \in LegacyDeliveries : draft.delivery[d] # None =>
        new[d] # None /\ (draft.delivery[d] = "pending" => new[d] = "open")
  <2> TAKE d \in LegacyDeliveries
  <2> HAVE draft.delivery[d] # None
  <2>1. d \in read
    BY Zenon DEF MigrationInv, Fits, Behind
  <2>2. new[d] = IF M!Terminal(run.seen[d]) THEN "discarded" ELSE "open"
    BY Zenon, <2>1 DEF M!OutboxAfter
  <2>3. M!Terminal(run.seen[d]) => draft.delivery[d] # "pending"
    BY Zenon, <1>1 DEF MigrationInv, Fits, SeenFits, M!Terminal
  <2> QED BY Zenon, <2>2, <2>3 DEF MigrationSensible
<1>5. quiet => \A d \in LegacyDeliveries : source.delivery[d] \in {"acked", "dead_letter"} => new[d] = "discarded"
  <2> SUFFICES ASSUME quiet, NEW d \in LegacyDeliveries, source.delivery[d] \in {"acked", "dead_letter"}
               PROVE  new[d] = "discarded"
    BY Zenon
  <2>1. run.seen[d] = M!legacyDeliveryState[source.delivery[d]]
    BY Zenon, <1>1 DEF MigrationInv, Progress, Passed
  <2>2. M!Terminal(run.seen[d])
    BY <2>1 DEF M!legacyDeliveryState, M!Terminal
  <2>3. d \in read
    BY Zenon DEF MigrationSensible, RunStatuses
  <2> QED BY Zenon, <2>2, <2>3 DEF M!OutboxAfter
<1> HIDE DEF new, read
<1>6. run' \in RunStates /\ run'.pc = "devices"
  BY Zenon, <1>1 DEF MigrationInv, MigrationTyped, RunStates, PCs
<1>7. /\ draft' \in TargetRows /\ draft'.outbox = new
      /\ \A f \in {"apps", "record", "event", "schedules", "devices", "bindings", "delivery"} :
           draft'[f] = draft[f]
  BY Zenon, <1>1, <1>3 DEF MigrationInv, MigrationTyped, TargetRows
<1>8. Behind(draft)' /\ Hangs(draft)'
  BY Zenon, <1>1, <1>7 DEF MigrationInv, Fits, Behind, Hangs
<1>9. OutboxFits(draft)'
  BY Zenon, <1>4, <1>7 DEF OutboxFits
<1>10. Progress'
  <2>1. quiet => OutboxAgrees(draft)'
    BY Zenon, <1>1, <1>5, <1>7 DEF OutboxAgrees
  <2>2. quiet => draft.record = source.record /\ draft.schedules = source.schedules /\ DeliveriesAgree(draft)
    BY Zenon, <1>1 DEF MigrationInv, Progress, Passed, PCs
  <2>3. DeliveriesAgree(draft) => DeliveriesAgree(draft)'
    BY Zenon, <1>1, <1>7 DEF DeliveriesAgree
  <2> QED BY Zenon, <1>1, <1>6, <1>7, <2>1, <2>2, <2>3 DEF Progress, Passed
<1> QED BY Zenon, <1>1, <1>6, <1>7, <1>8, <1>9, <1>10, WritesDraft

LEMMA DevicesStep ==
  ASSUME MigrationSensible, MigrationInv, M!MigrateDevices
  PROVE  MigrationInv'
<1> SUFFICES ASSUME ~M!Abort PROVE MigrationInv'
  BY Zenon, Aborts
<1>1. /\ UNCHANGED <<source, target, runs, quiet>> /\ run.pc = "devices"
      /\ draft' = [draft EXCEPT !.devices = source.devices] /\ run' = [run EXCEPT !.pc = "bindings"]
  BY Zenon DEF M!MigrateDevices, M!Then
<1>2. run' \in RunStates /\ run'.pc = "bindings"
  BY Zenon, <1>1 DEF MigrationInv, MigrationTyped, RunStates, PCs
<1>3. /\ draft' \in TargetRows /\ draft'.devices = source.devices
      /\ \A f \in {"apps", "record", "event", "schedules", "bindings", "delivery", "outbox"} :
           draft'[f] = draft[f]
  BY Zenon, <1>1 DEF MigrationInv, MigrationTyped, TargetRows, SourceRows
<1>4. Behind(draft)' /\ OutboxFits(draft)'
  BY <1>1, <1>3 DEF MigrationInv, Fits, Behind, OutboxFits
<1>5. Hangs(draft)'
  BY Zenon, <1>3 DEF MigrationInv, Fits, Hangs, Behind
<1>6. Progress'
  <2>1. quiet => /\ draft.record = source.record /\ draft.schedules = source.schedules
                 /\ DeliveriesAgree(draft) /\ OutboxAgrees(draft)
    BY Zenon, <1>1 DEF MigrationInv, Progress, Passed, PCs
  <2>2. /\ DeliveriesAgree(draft) => DeliveriesAgree(draft)'
        /\ OutboxAgrees(draft) => OutboxAgrees(draft)'
    BY Zenon, <1>1, <1>3 DEF DeliveriesAgree, OutboxAgrees
  <2> QED BY Zenon, <1>1, <1>2, <1>3, <2>1, <2>2 DEF Progress, Passed
<1> QED BY Zenon, <1>1, <1>2, <1>3, <1>4, <1>5, <1>6, WritesDraft

LEMMA BindingsStep ==
  ASSUME MigrationSensible, MigrationInv, M!MigrateBindings
  PROVE  MigrationInv'
<1> SUFFICES ASSUME ~M!Abort PROVE MigrationInv'
  BY Zenon, Aborts
<1>1. /\ UNCHANGED <<source, target, runs, quiet>> /\ run.pc = "bindings"
      /\ \A b \in source.bindings : ParentOf[b] \in draft.devices
      /\ draft' = [draft EXCEPT !.bindings = source.bindings] /\ run' = [run EXCEPT !.pc = "commit"]
  BY Zenon DEF M!MigrateBindings, M!Then
<1>2. run' \in RunStates /\ run'.pc = "commit"
  BY Zenon, <1>1 DEF MigrationInv, MigrationTyped, RunStates, PCs
<1>3. /\ draft' \in TargetRows /\ draft'.bindings = source.bindings
      /\ \A f \in {"apps", "record", "event", "schedules", "devices", "delivery", "outbox"} :
           draft'[f] = draft[f]
  BY Zenon, <1>1 DEF MigrationInv, MigrationTyped, TargetRows, SourceRows
<1>4. Behind(draft)' /\ OutboxFits(draft)'
  BY <1>1, <1>3 DEF MigrationInv, Fits, Behind, OutboxFits
<1>5. Hangs(draft)'
  BY Zenon, <1>1, <1>3 DEF MigrationInv, Fits, Hangs
<1>6. Progress'
  <2>1. quiet => /\ draft.record = source.record /\ draft.schedules = source.schedules
                 /\ DeliveriesAgree(draft) /\ OutboxAgrees(draft) /\ draft.devices = source.devices
    BY Zenon, <1>1 DEF MigrationInv, Progress, Passed, PCs
  <2>2. /\ DeliveriesAgree(draft) => DeliveriesAgree(draft)'
        /\ OutboxAgrees(draft) => OutboxAgrees(draft)'
    BY Zenon, <1>1, <1>3 DEF DeliveriesAgree, OutboxAgrees
  <2> QED BY Zenon, <1>1, <1>2, <1>3, <2>1, <2>2 DEF Progress, Passed
<1> QED BY Zenon, <1>1, <1>2, <1>3, <1>4, <1>5, <1>6, WritesDraft

LEMMA CommitStep ==
  ASSUME MigrationSensible, MigrationInv, M!Commit
  PROVE  MigrationInv'
<1>1. /\ UNCHANGED <<source, draft, runs, quiet>> /\ run.pc = "commit"
      /\ target' = draft /\ run' = [M!NoRun EXCEPT !.pc = "applied"]
  BY Zenon DEF M!Commit
<1>2. run' \in RunStates /\ run'.pc = "applied"
  BY <1>1 DEF M!NoRun, RunStates, PCs, MigrationSensible
<1>3. MigrationTyped'
  BY Zenon, <1>1, <1>2 DEF MigrationInv, MigrationTyped
<1>4. Behind(draft) /\ Hangs(draft) /\ OutboxFits(draft)
  BY Zenon, <1>1 DEF MigrationInv, Fits
<1>5. /\ Behind(target)' /\ Hangs(target)' /\ OutboxFits(target)'
      /\ Behind(draft)' /\ Hangs(draft)' /\ OutboxFits(draft)'
  BY Zenon, <1>1, <1>4 DEF Behind, Hangs, OutboxFits
<1>6. Progress'
  <2>1. quiet => /\ draft.record = source.record /\ draft.schedules = source.schedules
                 /\ DeliveriesAgree(draft) /\ OutboxAgrees(draft) /\ draft.devices = source.devices
                 /\ draft.bindings = source.bindings
    BY Zenon, <1>1 DEF MigrationInv, Progress, Passed, PCs
  <2>2. /\ DeliveriesAgree(draft) => DeliveriesAgree(target)'
        /\ OutboxAgrees(draft) => OutboxAgrees(target)'
    BY Zenon, <1>1 DEF DeliveriesAgree, OutboxAgrees
  <2> QED BY Zenon, <1>1, <1>2, <2>1, <2>2 DEF Progress, Passed
<1> QED BY Zenon, <1>2, <1>3, <1>5, <1>6 DEF MigrationInv, Fits

LEMMA EndStep ==
  ASSUME MigrationSensible, MigrationInv, M!Verify \/ M!Finish
  PROVE  MigrationInv'
<1>1. UNCHANGED <<source, target, draft, runs, quiet>> /\ run.pc \in {"applied", "verified"}
  BY Zenon DEF M!Verify, M!Finish
<1>2. run' \in RunStates /\ run'.pc \in {"idle", "verified"}
  BY DEF M!Verify, M!Finish, M!NoRun, MigrationInv, MigrationTyped, RunStates, PCs, MigrationSensible
<1>3. MigrationTyped'
  BY Zenon, <1>1, <1>2 DEF MigrationInv, MigrationTyped
<1>4. /\ Behind(target)' /\ Hangs(target)' /\ OutboxFits(target)'
      /\ Behind(draft)' /\ Hangs(draft)' /\ OutboxFits(draft)'
  BY Zenon, <1>1 DEF MigrationInv, Fits, Behind, Hangs, OutboxFits
<1>5. Progress'
  <2>1. quiet => /\ target.record = source.record /\ target.schedules = source.schedules
                 /\ target.devices = source.devices /\ target.bindings = source.bindings
                 /\ DeliveriesAgree(target) /\ OutboxAgrees(target)
    BY Zenon, <1>1 DEF MigrationInv, Progress, Passed
  <2>2. /\ DeliveriesAgree(target) => DeliveriesAgree(target)'
        /\ OutboxAgrees(target) => OutboxAgrees(target)'
    BY Zenon, <1>1 DEF DeliveriesAgree, OutboxAgrees
  <2> QED BY Zenon, <1>1, <1>2, <2>1, <2>2 DEF Progress, Passed
<1> QED BY Zenon, <1>2, <1>3, <1>4, <1>5 DEF MigrationInv, Fits

(* However the old server goes on while apply reads its tables one by one, *)
(* and however often apply is run and fails, what it has committed hangs   *)
(* together; and a run during which the source did not change has brought  *)
(* over every record, every delivery and every outcome.                    *)
THEOREM MigratedCopyAgrees == ASSUME MigrationSensible PROVE M!Spec => []M!CopyAgrees
<1>1. M!Init => MigrationInv
  <2> SUFFICES ASSUME M!Init PROVE MigrationInv
    BY Zenon
  <2>1. M!Empty \in TargetRows
    BY DEF M!Empty, TargetRows, MigrationSensible
  <2>2. M!NoRun \in RunStates /\ M!NoRun.pc = "idle"
    BY DEF M!NoRun, RunStates, PCs, MigrationSensible
  <2>3. source \in SourceRows
    BY DEF M!Init, SourceRows, MigrationSensible
  <2>4. MigrationTyped
    <3>1. runs \in 0..MaxRuns
      BY DEF M!Init, MigrationSensible
    <3> QED BY Zenon, <2>1, <2>2, <2>3, <3>1 DEF M!Init, MigrationTyped
  <2>5. Behind(M!Empty) /\ Hangs(M!Empty) /\ OutboxFits(M!Empty)
    BY Zenon DEF M!Empty, Behind, Hangs, OutboxFits
  <2>6. Fits
    BY Zenon, <2>2, <2>5 DEF M!Init, Fits
  <2>7. Progress
    BY Zenon DEF M!Init, Progress, Passed
  <2> QED BY Zenon, <2>4, <2>6, <2>7 DEF MigrationInv
<1>2. MigrationInv /\ [M!Next]_M!vars => MigrationInv'
  <2> SUFFICES ASSUME MigrationInv, [M!Next]_M!vars PROVE MigrationInv'
    BY Zenon
  <2>1. CASE LegacyActions
    BY Zenon, <2>1, LegacyStep
  <2>2. CASE M!Fail
    BY Zenon, <2>2, Aborts DEF M!Fail
  <2>3. CASE UNCHANGED M!vars
    <3>1. MigrationTyped'
      BY Zenon, <2>3 DEF M!vars, MigrationInv, MigrationTyped
    <3>2. Fits'
      BY Zenon, <2>3 DEF M!vars, MigrationInv, Fits, Behind, Hangs, OutboxFits, SeenFits
    <3>3. Progress'
      BY <2>3 DEF M!vars, MigrationInv, Progress, Passed, DeliveriesAgree, OutboxAgrees
    <3> QED BY Zenon, <3>1, <3>2, <3>3 DEF MigrationInv
  <2> QED BY Zenon, <2>1, <2>2, <2>3, BeginRunStep, UsersStep, ApplicationsStep, RecordsStep, SchedulesStep,
             EventsStep, DeliveriesStep, OutboxStep, DevicesStep, BindingsStep, CommitStep, EndStep
             DEF M!Next, LegacyActions
<1>3. MigrationInv => M!CopyAgrees
  <2> SUFFICES ASSUME MigrationInv PROVE M!CopyAgrees
    BY Zenon
  <2>1. M!TypeOK
    BY Zenon DEF MigrationInv, MigrationTyped, TargetRows, States, M!TypeOK
  <2>2. M!CopyIsClosed
    BY Zenon DEF MigrationInv, Fits, Hangs, OutboxFits, M!CopyIsClosed
  <2>3. M!LastRunAgrees
    BY Zenon DEF MigrationInv, Progress, Passed, DeliveriesAgree, OutboxAgrees, M!LastRunAgrees
  <2> QED BY Zenon, <2>1, <2>2, <2>3 DEF M!CopyAgrees
<1> QED BY <1>1, <1>2, <1>3, PTL DEF M!Spec

-----------------------------------------------------------------------------
(* Publication *)

CONSTANTS
  Requests, Keys, DedupKeys, Targets, KeyOf, DedupOf, TargetsOf, Idempotency, Windows, Patience, Horizon, MaxChanges
VARIABLES
  now, policy, rules, rule, subscription, event, delivery, queued, dedup, idempotency, request, changes

P == INSTANCE Publication WITH draft <- rule

Stamped == [targets : SUBSET Targets, created : Nat, stored : Nat, window : [Targets -> Windows]]
Answers == [event : Requests, expires : Nat, callback : SUBSET Targets]
Pcs == {"start", "find", "check", "begin", "locked", "stored", "done"}
Locals ==
  [pc : Pcs, targets : SUBSET Targets, callback : SUBSET Targets, created : Nat,
   answer : Requests \cup {None, "rejected", "failed"}]

(* What the proofs assume of the constants. *)
PublicationSensible ==
  /\ KeyOf \in [Requests -> Keys] /\ TargetsOf \in [Requests -> SUBSET Targets]
  /\ DedupOf \in [Requests -> DedupKeys \cup {None}] /\ None \notin DedupKeys
  /\ Windows \subseteq Nat /\ Idempotency \in Nat /\ Patience \in Nat /\ Horizon \in Nat
  /\ None \notin Requests /\ "rejected" \notin Requests /\ "failed" \notin Requests
  /\ None \notin Stamped /\ None \notin Answers

SettingsTyped ==
  /\ policy \in [Targets -> SUBSET P!Sinks] /\ rules \subseteq Targets /\ rule \subseteq Targets
  /\ subscription \in [Targets -> [open : BOOLEAN, window : Windows]]

StoreTyped ==
  /\ event \in [Requests -> Stamped \cup {None}]
  /\ delivery \subseteq Requests \X Targets \X P!Sinks /\ queued \subseteq Requests \X Targets
  /\ dedup \in [Targets \X DedupKeys -> [event : Requests \cup {None}, expires : Nat]]
  /\ idempotency \in [Keys -> Answers \cup {None}]

RequestsTyped == request \in [Requests -> Locals]

ClockTyped == now \in Nat /\ now <= Horizon

(* A request has stored nothing before its transaction. *)
Unpublished ==
  \A r \in Requests : request[r].pc \in {"start", "find", "check", "begin", "locked"} => event[r] = None

(* The lock of a key has one holder, who has seen that no answer is kept. *)
LocksHold ==
  /\ \A r, q \in Requests : P!At(r, "locked") /\ P!At(q, "locked") /\ KeyOf[r] = KeyOf[q] => r = q
  /\ \A r \in Requests : P!At(r, "locked") => ~P!Answered(KeyOf[r])

(* Stamps are past, and not older than a publisher is patient. *)
StampsAreRecent ==
  /\ \A r \in Requests : request[r].pc \in {"begin", "locked"} =>
       request[r].created <= now /\ now <= request[r].created + Patience
  /\ \A r \in Requests : event[r] # None => event[r].created <= event[r].stored /\ event[r].stored <= now

(* The answer that is kept for a key is that of its latest event. *)
AnswersAreLatest ==
  \A k \in Keys :
    IF idempotency[k] = None THEN \A r \in Requests : KeyOf[r] = k => event[r] = None
    ELSE LET e == idempotency[k].event IN
      /\ KeyOf[e] = k /\ event[e] # None /\ idempotency[k].expires = event[e].created + Idempotency
      /\ \A q \in Requests : q # e /\ KeyOf[q] = k /\ event[q] # None =>
           event[q].created + Idempotency <= event[e].stored

(* What hangs on an event was stored with it. *)
DeliveriesHaveEvents ==
  /\ \A r \in Requests, t \in Targets, sink \in P!Sinks : <<r, t, sink>> \in delivery => event[r] # None
  /\ \A r \in Requests, t \in Targets : <<r, t>> \in queued => event[r] # None
  /\ \A r \in Requests : event[r] # None =>
       \A t \in event[r].targets : \E sink \in P!Sinks : <<r, t, sink>> \in delivery

(* What requests were answered, or will be. *)
AnswersHaveEvents ==
  \A r \in Requests :
    /\ P!At(r, "stored") => event[r] # None
    /\ request[r].answer \in Requests =>
         event[request[r].answer] # None /\ KeyOf[request[r].answer] = KeyOf[r]

(* The deduplication key of an event is kept until its window has ended. *)
KeysAreKept ==
  \A r \in Requests, t \in Targets :
    <<r, t>> \in queued /\ DedupOf[r] # None /\ event[r].window[t] > 0 =>
      \/ dedup[<<t, DedupOf[r]>>].expires = event[r].created + event[r].window[t]
      \/ event[r].created + event[r].window[t] <= now

PublicationTyped == SettingsTyped /\ StoreTyped /\ RequestsTyped /\ ClockTyped

PublicationInv ==
  /\ PublicationTyped /\ Unpublished /\ LocksHold /\ StampsAreRecent
  /\ AnswersAreLatest /\ DeliveriesHaveEvents /\ AnswersHaveEvents /\ KeysAreKept
  /\ P!OneEventPerKey /\ P!JobsTellSinks /\ P!Deduplicated

-----------------------------------------------------------------------------
LEMMA PublicationInit ==
  ASSUME PublicationSensible, P!Init
  PROVE  PublicationInv
<1>1. P!NewRequest \in Locals /\ P!NoKey \in [event : Requests \cup {None}, expires : Nat]
  BY Zenon DEF P!NewRequest, Locals, Pcs, P!NoKey
<1>2. SettingsTyped /\ StoreTyped /\ ClockTyped
  <2>1. SettingsTyped
    BY Zenon DEF P!Init, SettingsTyped
  <2>2. StoreTyped
    BY Zenon, <1>1 DEF P!Init, StoreTyped
  <2>3. ClockTyped
    BY DEF P!Init, ClockTyped, PublicationSensible
  <2> QED BY Zenon, <2>1, <2>2, <2>3
<1>3. RequestsTyped
  BY Zenon, <1>1 DEF P!Init, RequestsTyped
<1>4. \A r \in Requests : request[r].pc = "start" /\ request[r].answer = None
  BY Zenon DEF P!Init, P!NewRequest
<1>5. Unpublished /\ LocksHold /\ StampsAreRecent /\ AnswersHaveEvents
  BY Zenon, <1>4 DEF P!Init, Unpublished, LocksHold, StampsAreRecent, AnswersHaveEvents, P!At, PublicationSensible
<1>6. AnswersAreLatest /\ DeliveriesHaveEvents /\ KeysAreKept
  BY Zenon DEF P!Init, AnswersAreLatest, DeliveriesHaveEvents, KeysAreKept
<1>7. P!OneEventPerKey /\ P!JobsTellSinks /\ P!Deduplicated
  BY Zenon DEF P!Init, P!OneEventPerKey, P!JobsTellSinks, P!Deduplicated
<1> QED BY Zenon, <1>2, <1>3, <1>5, <1>6, <1>7 DEF PublicationInv, PublicationTyped

(* A step of a request that stores nothing. *)
LEMMA RequestMoves ==
  ASSUME PublicationSensible, PublicationInv, NEW r \in Requests, RequestsTyped',
         P!UnchangedStore, P!UnchangedSettings,
         \A q \in Requests \ {r} : request'[q] = request[q],
         request'[r].pc \in {"start", "find", "check", "begin", "locked"} =>
           request[r].pc \in {"start", "find", "check", "begin", "locked"},
         P!At(r, "locked")' => ~P!Locked(KeyOf[r]) /\ ~P!Answered(KeyOf[r]),
         request'[r].pc \in {"begin", "locked"} =>
           request'[r].created <= now /\ now <= request'[r].created + Patience,
         ~P!At(r, "stored")',
         request'[r].answer \in Requests =>
           event[request'[r].answer] # None /\ KeyOf[request'[r].answer] = KeyOf[r]
  PROVE  PublicationInv'
<1>1. PublicationTyped'
  BY Zenon DEF PublicationInv, PublicationTyped, SettingsTyped, StoreTyped, ClockTyped, P!UnchangedStore, P!UnchangedSettings
<1>2. Unpublished'
  BY Zenon DEF PublicationInv, Unpublished, P!UnchangedStore
<1>3. LocksHold'
  <2>1. \A q \in Requests : q # r => (P!At(q, "locked")' <=> P!At(q, "locked"))
    BY Zenon DEF P!At
  <2>2. \A k : P!Answered(k)' <=> P!Answered(k)
    BY Zenon DEF P!Answered, P!UnchangedStore, P!UnchangedSettings
  <2> QED BY Zenon, <2>1, <2>2 DEF PublicationInv, LocksHold, P!Locked
<1>4. StampsAreRecent'
  BY Zenon DEF PublicationInv, StampsAreRecent, P!UnchangedStore, P!UnchangedSettings
<1>5. AnswersAreLatest' /\ DeliveriesHaveEvents' /\ KeysAreKept'
  BY Zenon DEF PublicationInv, AnswersAreLatest, DeliveriesHaveEvents, KeysAreKept, P!UnchangedStore, P!UnchangedSettings
<1>6. AnswersHaveEvents'
  BY Zenon DEF PublicationInv, AnswersHaveEvents, P!At, P!UnchangedStore
<1>7. P!OneEventPerKey' /\ P!JobsTellSinks' /\ P!Deduplicated'
  BY DEF PublicationInv, P!OneEventPerKey, P!JobsTellSinks, P!Deduplicated, P!UnchangedStore
<1> QED BY Zenon, <1>1, <1>2, <1>3, <1>4, <1>5, <1>6, <1>7 DEF PublicationInv

LEMMA DoneFields ==
  ASSUME RequestsTyped, NEW r \in Requests, NEW a \in Requests \cup {None, "rejected", "failed"}, P!Done(r, a)
  PROVE  /\ RequestsTyped' /\ \A q \in Requests \ {r} : request'[q] = request[q]
         /\ request'[r].pc = "done" /\ request'[r].answer = a
BY DEF RequestsTyped, Locals, Pcs, P!Done

(* A request that is answered. *)
LEMMA RequestEnds ==
  ASSUME PublicationSensible, PublicationInv, NEW r \in Requests,
         NEW a \in Requests \cup {None, "rejected", "failed"}, P!Done(r, a),
         P!UnchangedStore, P!UnchangedSettings,
         a \in Requests => event[a] # None /\ KeyOf[a] = KeyOf[r]
  PROVE  PublicationInv'
<1>1. /\ RequestsTyped' /\ \A q \in Requests \ {r} : request'[q] = request[q]
      /\ request'[r].pc = "done" /\ request'[r].answer = a
  BY Zenon, DoneFields DEF PublicationInv, PublicationTyped
<1> QED BY Zenon, <1>1, RequestMoves DEF P!At

(* The answer that is kept for a key can be given. *)
LEMMA KeptAnswer ==
  ASSUME PublicationSensible, PublicationInv, NEW r \in Requests, P!Answered(KeyOf[r])
  PROVE  /\ idempotency[KeyOf[r]].event \in Requests
         /\ event[idempotency[KeyOf[r]].event] # None /\ KeyOf[idempotency[KeyOf[r]].event] = KeyOf[r]
<1>1. KeyOf[r] \in Keys /\ idempotency[KeyOf[r]] # None
  BY Zenon DEF PublicationSensible, P!Answered
<1>2. idempotency[KeyOf[r]] \in Answers
  BY Zenon, <1>1 DEF PublicationInv, PublicationTyped, StoreTyped
<1>3. idempotency[KeyOf[r]].event \in Requests
  BY Zenon, <1>2 DEF Answers
<1> QED BY Zenon, <1>1, <1>3 DEF PublicationInv, AnswersAreLatest

LEMMA ResolveStep ==
  ASSUME PublicationSensible, PublicationInv, NEW r \in Requests, P!ResolveTargets(r)
  PROVE  PublicationInv'
<1> DEFINE targets == IF TargetsOf[r] # {} THEN TargetsOf[r] ELSE P!ResolveRoutingRules
<1>1. targets \in SUBSET Targets
  BY Zenon DEF PublicationSensible, PublicationInv, PublicationTyped, SettingsTyped, P!ResolveRoutingRules
<1>2. CASE targets = {}
  BY Zenon, <1>2, RequestEnds DEF P!ResolveTargets, PublicationSensible
<1>3. CASE targets # {}
  <2>1. request' = [request EXCEPT ![r].pc = "find", ![r].targets = targets] /\ request[r].pc = "start"
    BY Zenon, <1>3 DEF P!ResolveTargets, P!At
  <2> HIDE DEF targets
  <2>2. /\ RequestsTyped' /\ \A q \in Requests \ {r} : request'[q] = request[q]
        /\ request'[r].pc = "find" /\ request'[r].answer = request[r].answer
    BY <1>1, <2>1 DEF PublicationInv, PublicationTyped, RequestsTyped, Locals, Pcs
  <2>3. P!UnchangedStore /\ P!UnchangedSettings
    BY Zenon DEF P!ResolveTargets
  <2> QED BY Zenon, <2>1, <2>2, <2>3, RequestMoves DEF P!At, PublicationInv, AnswersHaveEvents
<1> QED BY Zenon, <1>2, <1>3

LEMMA FindStep ==
  ASSUME PublicationSensible, PublicationInv, NEW r \in Requests, P!FindPublication(r)
  PROVE  PublicationInv'
<1>1. CASE P!Answered(KeyOf[r])
  BY Zenon, <1>1, KeptAnswer, RequestEnds DEF P!FindPublication
<1>2. CASE ~P!Answered(KeyOf[r])
  <2>1. request' = [request EXCEPT ![r].pc = "check"] /\ request[r].pc = "find"
    BY Zenon, <1>2 DEF P!FindPublication, P!At
  <2>2. /\ RequestsTyped' /\ \A q \in Requests \ {r} : request'[q] = request[q]
        /\ request'[r].pc = "check" /\ request'[r].answer = request[r].answer
    BY <2>1 DEF PublicationInv, PublicationTyped, RequestsTyped, Locals, Pcs
  <2>3. P!UnchangedStore /\ P!UnchangedSettings
    BY Zenon DEF P!FindPublication
  <2> QED BY Zenon, <2>1, <2>2, <2>3, RequestMoves DEF P!At, PublicationInv, AnswersHaveEvents
<1> QED BY Zenon, <1>1, <1>2

LEMMA CheckStep ==
  ASSUME PublicationSensible, PublicationInv, NEW r \in Requests, P!CheckTargets(r)
  PROVE  PublicationInv'
<1> DEFINE direct == {t \in request[r].targets : "callback" \in policy[t]}
<1>1. CASE \E t \in request[r].targets : policy[t] = {}
  BY Zenon, <1>1, RequestEnds DEF P!CheckTargets, PublicationSensible
<1>2. CASE ~\E t \in request[r].targets : policy[t] = {}
  <2>1. /\ request' = [request EXCEPT ![r] =
                        [request[r] EXCEPT !.pc = "begin", !.created = now, !.callback = direct]]
        /\ request[r].pc = "check"
    BY Zenon, <1>2 DEF P!CheckTargets, P!At
  <2>2. direct \in SUBSET Targets /\ now \in Nat
    BY Zenon DEF PublicationInv, PublicationTyped, RequestsTyped, Locals, ClockTyped
  <2> HIDE DEF direct
  <2>3. /\ RequestsTyped' /\ \A q \in Requests \ {r} : request'[q] = request[q]
        /\ request'[r].pc = "begin" /\ request'[r].answer = request[r].answer
        /\ request'[r].created = now
    BY <2>1, <2>2 DEF PublicationInv, PublicationTyped, RequestsTyped, Locals, Pcs
  <2>4. P!UnchangedStore /\ P!UnchangedSettings
    BY Zenon DEF P!CheckTargets
  <2>5. now <= now + Patience
    BY <2>2 DEF PublicationSensible
  <2> QED BY <2>1, <2>2, <2>3, <2>4, <2>5, RequestMoves DEF P!At, PublicationInv, AnswersHaveEvents
<1> QED BY Zenon, <1>1, <1>2

LEMMA BeginPublishStep ==
  ASSUME PublicationSensible, PublicationInv, NEW r \in Requests, P!BeginPublish(r)
  PROVE  PublicationInv'
<1>1. CASE P!Repeats(r)
  BY Zenon, <1>1, KeptAnswer, RequestEnds DEF P!BeginPublish, P!Repeats
<1>2. CASE ~P!Repeats(r)
  <2>1. request' = [request EXCEPT ![r].pc = "locked"] /\ request[r].pc = "begin"
    BY Zenon, <1>2 DEF P!BeginPublish, P!At
  <2>2. /\ RequestsTyped' /\ \A q \in Requests \ {r} : request'[q] = request[q]
        /\ request'[r].pc = "locked" /\ request'[r].answer = request[r].answer
        /\ request'[r].created = request[r].created
    BY <2>1 DEF PublicationInv, PublicationTyped, RequestsTyped, Locals, Pcs
  <2>3. P!UnchangedStore /\ P!UnchangedSettings /\ ~P!Locked(KeyOf[r]) /\ ~P!Answered(KeyOf[r])
    BY Zenon, <1>2 DEF P!BeginPublish, P!Repeats
  <2> QED BY <2>1, <2>2, <2>3, RequestMoves DEF P!At, PublicationInv, AnswersHaveEvents, StampsAreRecent
<1> QED BY Zenon, <1>1, <1>2

(* An operator's step, and time. *)
LEMMA SettingsStep ==
  ASSUME PublicationSensible, PublicationInv, SettingsTyped', ClockTyped',
         P!UnchangedStore, UNCHANGED request, now' >= now,
         \A r \in Requests : request[r].pc \in {"begin", "locked"} => now' <= request[r].created + Patience
  PROVE  PublicationInv'
<1>1. PublicationTyped'
  BY Zenon DEF PublicationInv, PublicationTyped, StoreTyped, RequestsTyped, P!UnchangedStore
<1>2. now \in Nat /\ now' \in Nat
  BY Zenon DEF PublicationInv, PublicationTyped, ClockTyped
<1>3. Unpublished' /\ AnswersAreLatest' /\ DeliveriesHaveEvents'
  BY Zenon DEF PublicationInv, Unpublished, AnswersAreLatest, DeliveriesHaveEvents, P!UnchangedStore
<1>4. LocksHold'
  <2>1. ASSUME NEW k \in Keys, P!Answered(k)'
        PROVE  P!Answered(k)
    <3>1. idempotency[k] # None => idempotency[k].expires \in Nat
      BY Zenon DEF PublicationInv, PublicationTyped, StoreTyped, Answers
    <3> QED BY <1>2, <2>1, <3>1 DEF P!Answered, P!UnchangedStore
  <2>2. \A r \in Requests : KeyOf[r] \in Keys
    BY Zenon DEF PublicationSensible
  <2> QED BY Zenon, <2>1, <2>2 DEF PublicationInv, LocksHold, P!At
<1>5. StampsAreRecent'
  <2>1. \A r \in Requests : request[r].created \in Nat
    BY Zenon DEF PublicationInv, PublicationTyped, RequestsTyped, Locals
  <2>2. \A r \in Requests : event[r] # None => event[r].created \in Nat /\ event[r].stored \in Nat
    BY Zenon DEF PublicationInv, PublicationTyped, StoreTyped, Stamped
  <2> QED BY <1>2, <2>1, <2>2 DEF PublicationInv, StampsAreRecent, P!UnchangedStore
<1>6. AnswersHaveEvents'
  BY Zenon DEF PublicationInv, AnswersHaveEvents, P!At, P!UnchangedStore
<1>7. KeysAreKept'
  <2> SUFFICES ASSUME NEW r \in Requests, NEW t \in Targets,
                      <<r, t>> \in queued, DedupOf[r] # None, event[r].window[t] > 0,
                      event[r].created + event[r].window[t] <= now
               PROVE  event[r].created + event[r].window[t] <= now'
    BY Zenon DEF PublicationInv, KeysAreKept, P!UnchangedStore
  <2>1. event[r] \in Stamped
    BY Zenon DEF PublicationInv, DeliveriesHaveEvents, PublicationTyped, StoreTyped
  <2>2. event[r].created \in Nat /\ event[r].window[t] \in Nat
    BY Zenon, <2>1 DEF Stamped, PublicationSensible
  <2> QED BY <1>2, <2>2
<1>8. P!OneEventPerKey' /\ P!JobsTellSinks' /\ P!Deduplicated'
  BY DEF PublicationInv, P!OneEventPerKey, P!JobsTellSinks, P!Deduplicated, P!UnchangedStore
<1> QED BY Zenon, <1>1, <1>3, <1>4, <1>5, <1>6, <1>7, <1>8 DEF PublicationInv

-----------------------------------------------------------------------------
(* What the transaction stores. *)
LEMMA StoresFields ==
  ASSUME PublicationSensible, PublicationInv, NEW r \in Requests, P!PublishEvent(r),
         ~\E t \in request[r].targets : policy[t] = {}
  PROVE  /\ P!At(r, "locked") /\ P!UnchangedSettings
         /\ event'[r] = [targets |-> request[r].targets, created |-> request[r].created, stored |-> now,
                         window |-> [t \in Targets |-> subscription[t].window]]
         /\ event'[r] \in Stamped /\ \A q \in Requests \ {r} : event'[q] = event[q]
         /\ delivery' = delivery \cup UNION {{<<r, t, sink>> : sink \in policy[t]} : t \in request[r].targets}
         /\ queued' = queued \cup {<<r, t>> : t \in P!QueuedBy(r)}
         /\ dedup' = P!DedupAfter(r)
         /\ idempotency'[KeyOf[r]] = [event |-> r, expires |-> request[r].created + Idempotency,
                                      callback |-> P!CallbackJobs(r)]
         /\ idempotency'[KeyOf[r]] \in Answers
         /\ \A k \in Keys \ {KeyOf[r]} : idempotency'[k] = idempotency[k]
         /\ \A q \in Requests \ {r} : request'[q] = request[q]
         /\ request'[r].pc = "stored" /\ request'[r].answer = request[r].answer
         /\ RequestsTyped' /\ event' \in [Requests -> Stamped \cup {None}]
         /\ idempotency' \in [Keys -> Answers \cup {None}]
<1> USE DEF PublicationInv, PublicationTyped
<1> DEFINE e == [targets |-> request[r].targets, created |-> request[r].created, stored |-> now,
                 window |-> [t \in Targets |-> subscription[t].window]]
           a == [event |-> r, expires |-> request[r].created + Idempotency, callback |-> P!CallbackJobs(r)]
<1>1. e \in Stamped
  <2>1. [t \in Targets |-> subscription[t].window] \in [Targets -> Windows]
    BY Zenon DEF SettingsTyped
  <2>2. request[r].targets \in SUBSET Targets /\ request[r].created \in Nat /\ now \in Nat
    BY Zenon DEF RequestsTyped, Locals, ClockTyped
  <2> QED BY Zenon, <2>1, <2>2 DEF Stamped
<1>2. a \in Answers
  <2>1. request[r].targets \in SUBSET Targets /\ request[r].created + Idempotency \in Nat
    BY DEF RequestsTyped, Locals, PublicationSensible
  <2>2. P!CallbackJobs(r) \in SUBSET Targets
    BY Zenon, <2>1 DEF P!CallbackJobs
  <2> QED BY Zenon, <2>1, <2>2 DEF Answers
<1>3. /\ P!At(r, "locked") /\ P!UnchangedSettings /\ event' = [event EXCEPT ![r] = e]
      /\ idempotency' = [idempotency EXCEPT ![KeyOf[r]] = a]
      /\ request' = [request EXCEPT ![r].pc = "stored"]
      /\ delivery' = delivery \cup UNION {{<<r, t, sink>> : sink \in policy[t]} : t \in request[r].targets}
      /\ queued' = queued \cup {<<r, t>> : t \in P!QueuedBy(r)} /\ dedup' = P!DedupAfter(r)
  BY Zenon DEF P!PublishEvent
<1>4. KeyOf[r] \in Keys
  BY Zenon DEF PublicationSensible
<1> HIDE DEF e, a
<1>5. event'[r] = e /\ event' \in [Requests -> Stamped \cup {None}] /\ \A q \in Requests \ {r} : event'[q] = event[q]
  BY Zenon, <1>1, <1>3 DEF StoreTyped
<1>6. /\ idempotency'[KeyOf[r]] = a /\ idempotency' \in [Keys -> Answers \cup {None}]
      /\ \A k \in Keys \ {KeyOf[r]} : idempotency'[k] = idempotency[k]
  BY Zenon, <1>2, <1>3, <1>4 DEF StoreTyped
<1>7. /\ \A q \in Requests \ {r} : request'[q] = request[q]
      /\ request'[r].pc = "stored" /\ request'[r].answer = request[r].answer /\ RequestsTyped'
  BY <1>3 DEF RequestsTyped, Locals, Pcs
<1> QED BY Zenon, <1>1, <1>2, <1>3, <1>5, <1>6, <1>7 DEF e, a

(* The deduplication keys it leaves. *)
LEMMA DedupFields ==
  ASSUME PublicationSensible, PublicationInv, NEW r \in Requests
  PROVE  /\ P!DedupAfter(r) \in [Targets \X DedupKeys -> [event : Requests \cup {None}, expires : Nat]]
         /\ \A t \in Targets, d \in DedupKeys :
              \/ P!DedupAfter(r)[<<t, d>>] = dedup[<<t, d>>]
              \/ dedup[<<t, d>>].expires <= request[r].created
         /\ \A t \in P!QueuedBy(r) : DedupOf[r] # None /\ subscription[t].window > 0 =>
              /\ P!DedupAfter(r)[<<t, DedupOf[r]>>].expires = request[r].created + subscription[t].window
              /\ dedup[<<t, DedupOf[r]>>].expires <= request[r].created
<1> USE DEF PublicationInv, PublicationTyped
<1>1. request[r].targets \in SUBSET Targets /\ request[r].created \in Nat
  BY Zenon DEF RequestsTyped, Locals
<1>2. ASSUME NEW t \in Targets
      PROVE  subscription[t].window \in Nat /\ request[r].created + subscription[t].window \in Nat
  <2>1. subscription[t].window \in Windows
    BY Zenon DEF SettingsTyped
  <2>2. subscription[t].window \in Nat
    BY Zenon, <2>1 DEF PublicationSensible
  <2> QED BY <1>1, <2>2
<1>3. P!NoKey \in [event : Requests \cup {None}, expires : Nat] /\ P!NoKey.event = None
  BY Zenon DEF P!NoKey
<1>4. ASSUME NEW k \in Targets \X DedupKeys
      PROVE  /\ P!Purged(r)[k] \in [event : Requests \cup {None}, expires : Nat]
             /\ P!DedupAfter(r)[k] \in [event : Requests \cup {None}, expires : Nat]
  <2>1. dedup[k] \in [event : Requests \cup {None}, expires : Nat]
    BY Zenon DEF StoreTyped
  <2>2. P!Purged(r)[k] \in [event : Requests \cup {None}, expires : Nat]
    BY Zenon, <1>3, <2>1 DEF P!Purged
  <2>3. k[1] \in Targets
    BY Zenon
  <2>4. [event |-> r, expires |-> request[r].created + subscription[k[1]].window]
          \in [event : Requests \cup {None}, expires : Nat]
    BY Zenon, <1>2, <2>3
  <2> QED BY Zenon, <2>2, <2>4 DEF P!DedupAfter
<1>5. P!DedupAfter(r) \in [Targets \X DedupKeys -> [event : Requests \cup {None}, expires : Nat]]
  BY Zenon, <1>4 DEF P!DedupAfter
<1>6. ASSUME NEW t \in Targets, NEW d \in DedupKeys, ~(dedup[<<t, d>>].expires <= request[r].created)
      PROVE  P!DedupAfter(r)[<<t, d>>] = dedup[<<t, d>>]
  <2> DEFINE k == <<t, d>>
  <2>1. k \in Targets \X DedupKeys /\ k[1] = t /\ k[2] = d
    BY Zenon
  <2> HIDE DEF k
  <2>2. P!Purged(r)[k] = dedup[k]
    BY Zenon, <1>6, <2>1 DEF P!Purged, k
  <2>3. dedup[k].expires \in Nat
    BY Zenon, <2>1 DEF StoreTyped
  <2>4. dedup[k] # P!NoKey
    BY <1>1, <1>6, <2>3 DEF P!NoKey, k
  <2> QED BY Zenon, <2>1, <2>2, <2>4 DEF P!DedupAfter, k
<1>7. ASSUME NEW t \in P!QueuedBy(r), DedupOf[r] # None, subscription[t].window > 0
      PROVE  /\ P!DedupAfter(r)[<<t, DedupOf[r]>>].expires = request[r].created + subscription[t].window
             /\ dedup[<<t, DedupOf[r]>>].expires <= request[r].created
  <2> DEFINE k == <<t, DedupOf[r]>>
  <2>1. t \in Targets /\ t \in request[r].targets /\ ~P!Suppressed(r, t)
    BY Zenon, <1>1 DEF P!QueuedBy
  <2>2. DedupOf[r] \in DedupKeys
    BY Zenon, <1>7 DEF PublicationSensible
  <2>3. k \in Targets \X DedupKeys /\ k[1] = t /\ k[2] = DedupOf[r]
    BY Zenon, <2>1, <2>2
  <2> HIDE DEF k
  <2>4. dedup[k].expires \in Nat
    BY Zenon, <2>3 DEF StoreTyped
  <2>5. dedup[k].expires <= request[r].created
    BY <1>1, <1>7, <2>1, <2>4 DEF P!Suppressed, k
  <2>6. P!Purged(r)[k] = P!NoKey
    BY Zenon, <1>7, <2>1, <2>3, <2>5 DEF P!Purged
  <2>7. P!DedupAfter(r)[k] = [event |-> r, expires |-> request[r].created + subscription[t].window]
    BY Zenon, <1>7, <2>3, <2>6 DEF P!DedupAfter
  <2> QED BY <2>5, <2>7 DEF k
<1> QED BY Zenon, <1>5, <1>6, <1>7

LEMMA StoreStep ==
  ASSUME PublicationSensible, PublicationInv, NEW r \in Requests, P!PublishEvent(r),
         ~\E t \in request[r].targets : policy[t] = {}
  PROVE  PublicationInv'
<1> DEFINE k == KeyOf[r]
           c == request[r].created
<1>1. k \in Keys /\ c \in Nat /\ now \in Nat /\ c <= now /\ now <= c + Patience
  BY Zenon, StoresFields DEF PublicationSensible, PublicationInv, PublicationTyped, RequestsTyped, Locals,
     ClockTyped, StampsAreRecent, P!At
<1>2. /\ P!At(r, "locked") /\ P!UnchangedSettings /\ UNCHANGED now
      /\ event'[r].targets = request[r].targets /\ event'[r].created = c /\ event'[r].stored = now
      /\ \A t \in Targets : event'[r].window[t] = subscription[t].window
      /\ event'[r] \in Stamped /\ event'[r] # None /\ \A q \in Requests \ {r} : event'[q] = event[q]
  <2>1. event'[r] = [targets |-> request[r].targets, created |-> request[r].created, stored |-> now,
                     window |-> [t \in Targets |-> subscription[t].window]]
    BY Zenon, StoresFields
  <2>2. /\ event'[r].targets = request[r].targets /\ event'[r].created = c /\ event'[r].stored = now
        /\ \A t \in Targets : event'[r].window[t] = subscription[t].window
    BY <2>1
  <2>3. /\ P!At(r, "locked") /\ P!UnchangedSettings
        /\ event'[r] \in Stamped /\ \A q \in Requests \ {r} : event'[q] = event[q]
    BY Zenon, StoresFields
  <2> QED BY Zenon, <2>2, <2>3 DEF PublicationSensible, P!UnchangedSettings
<1>3. event[r] = None
  BY Zenon, <1>2 DEF PublicationInv, Unpublished, P!At
<1>4. /\ idempotency'[k].event = r /\ idempotency'[k].expires = c + Idempotency
      /\ idempotency'[k].callback = P!CallbackJobs(r) /\ idempotency'[k] # None
      /\ \A j \in Keys \ {k} : idempotency'[j] = idempotency[j]
  <2>1. /\ idempotency'[k] = [event |-> r, expires |-> c + Idempotency, callback |-> P!CallbackJobs(r)]
        /\ idempotency'[k] \in Answers /\ \A j \in Keys \ {k} : idempotency'[j] = idempotency[j]
    BY Zenon, StoresFields
  <2> QED BY <2>1 DEF PublicationSensible
<1>5. /\ \A q \in Requests \ {r} : request'[q] = request[q]
      /\ request'[r].pc = "stored" /\ request'[r].answer = request[r].answer
  BY Zenon, StoresFields
<1>6. request[r].targets \in SUBSET Targets
  BY Zenon DEF PublicationInv, PublicationTyped, RequestsTyped, Locals
<1>7. \A q \in Requests : event[q] # None => event'[q] = event[q]
  BY Zenon, <1>2, <1>3
<1>8. \A q \in Requests : event[q] # None =>
        /\ event[q] \in Stamped /\ event[q].created \in Nat /\ event[q].stored \in Nat /\ event[q].stored <= now
        /\ event[q].created <= now
  <2> SUFFICES ASSUME NEW q \in Requests, event[q] # None
               PROVE  /\ event[q] \in Stamped /\ event[q].created \in Nat /\ event[q].stored \in Nat
                      /\ event[q].stored <= now /\ event[q].created <= now
    BY Zenon
  <2>1. event[q] \in Stamped
    BY Zenon DEF PublicationInv, PublicationTyped, StoreTyped
  <2>2. event[q].created \in Nat /\ event[q].stored \in Nat
    BY Zenon, <2>1 DEF Stamped
  <2>3. event[q].created <= event[q].stored /\ event[q].stored <= now
    BY Zenon DEF PublicationInv, StampsAreRecent
  <2> QED BY <1>1, <2>1, <2>2, <2>3
<1> HIDE DEF k, c
(* deliveries *)
<1>9. /\ \A q \in Requests, t \in Targets, sink \in P!Sinks :
            /\ <<q, t, sink>> \in delivery => <<q, t, sink>> \in delivery'
            /\ <<q, t, sink>> \in delivery' /\ <<q, t, sink>> \notin delivery =>
                 q = r /\ t \in request[r].targets /\ sink \in policy[t]
      /\ \A t \in request[r].targets : \A sink \in policy[t] : <<r, t, sink>> \in delivery'
      /\ delivery' \subseteq Requests \X Targets \X P!Sinks
  <2> DEFINE Joined == UNION {{<<r, t, sink>> : sink \in policy[t]} : t \in request[r].targets}
  <2>1. delivery' = delivery \cup Joined
    BY Zenon, StoresFields
  <2>2. delivery \subseteq Requests \X Targets \X P!Sinks /\ \A t \in request[r].targets : policy[t] \subseteq P!Sinks
    BY Zenon, <1>6 DEF PublicationInv, PublicationTyped, StoreTyped, SettingsTyped
  <2>3. ASSUME NEW q, NEW t, NEW sink, <<q, t, sink>> \in Joined
        PROVE  q = r /\ t \in request[r].targets /\ sink \in policy[t]
    <3>1. PICK x \in request[r].targets : \E y \in policy[x] : <<q, t, sink>> = <<r, x, y>>
      BY Zenon, <2>3
    <3> QED BY Zenon, <3>1
  <2>4. \A t \in request[r].targets : \A sink \in policy[t] : <<r, t, sink>> \in Joined
    OBVIOUS
  <2>5. Joined \subseteq Requests \X Targets \X P!Sinks
    BY <1>6, <2>2
  <2> HIDE DEF Joined
  <2> QED BY Zenon, <2>1, <2>2, <2>3, <2>4, <2>5
<1>10. /\ \A q \in Requests, t \in Targets :
             <<q, t>> \in queued' <=> <<q, t>> \in queued \/ (q = r /\ t \in P!QueuedBy(r))
       /\ queued' \subseteq Requests \X Targets
  <2>1. queued' = queued \cup {<<r, t>> : t \in P!QueuedBy(r)} /\ P!QueuedBy(r) \subseteq Targets
    BY Zenon, <1>6, StoresFields DEF P!QueuedBy
  <2>2. queued \subseteq Requests \X Targets
    BY Zenon DEF PublicationInv, PublicationTyped, StoreTyped
  <2> QED BY <2>1, <2>2
<1>11. PublicationTyped'
  <2>1. dedup' \in [Targets \X DedupKeys -> [event : Requests \cup {None}, expires : Nat]]
    BY StoresFields, DedupFields
  <2>2. StoreTyped' /\ RequestsTyped'
    BY Zenon, <1>9, <1>10, <2>1, StoresFields DEF StoreTyped
  <2>3. SettingsTyped' /\ ClockTyped'
    BY Zenon, <1>2 DEF PublicationInv, PublicationTyped, SettingsTyped, ClockTyped, P!UnchangedSettings
  <2> QED BY Zenon, <2>2, <2>3 DEF PublicationTyped
<1>12. Unpublished'
  BY Zenon, <1>2, <1>5 DEF PublicationInv, Unpublished
<1>13. LocksHold'
  <2>1. \A q \in Requests : P!At(q, "locked")' => q # r /\ P!At(q, "locked")
    BY Zenon, <1>5 DEF P!At
  <2>2. ASSUME NEW q \in Requests, P!At(q, "locked")'
        PROVE  ~P!Answered(KeyOf[q])'
    <3>1. KeyOf[q] # k /\ KeyOf[q] \in Keys
      BY Zenon, <1>2, <2>1, <2>2 DEF PublicationInv, LocksHold, k, PublicationSensible
    <3>2. ~P!Answered(KeyOf[q])
      BY Zenon, <2>1, <2>2 DEF PublicationInv, LocksHold
    <3> QED BY Zenon, <1>2, <1>4, <3>1, <3>2 DEF P!Answered
  <2> QED BY Zenon, <2>1, <2>2 DEF PublicationInv, LocksHold
<1>14. StampsAreRecent'
  <2>1. \A q \in Requests : request'[q].pc \in {"begin", "locked"} => request'[q] = request[q]
    BY Zenon, <1>5
  <2> QED BY <1>1, <1>2, <2>1 DEF PublicationInv, StampsAreRecent
(* every earlier event of the key is past its retention *)
<1>15. \A q \in Requests : q # r /\ KeyOf[q] = k /\ event[q] # None => event[q].created + Idempotency <= now
  <2> SUFFICES ASSUME NEW q \in Requests, q # r, KeyOf[q] = k, event[q] # None
               PROVE  event[q].created + Idempotency <= now
    BY Zenon
  <2> DEFINE e == idempotency[k].event
  <2>1. ~P!Answered(k)
    BY Zenon, <1>2 DEF PublicationInv, LocksHold, k
  <2>2. idempotency[k] # None
    BY Zenon, <1>1 DEF PublicationInv, AnswersAreLatest
  <2>3. /\ idempotency[k].expires = event[e].created + Idempotency /\ event[e] # None
        /\ q # e => event[q].created + Idempotency <= event[e].stored
    BY Zenon, <1>1, <2>2 DEF PublicationInv, AnswersAreLatest
  <2>4. e \in Requests /\ idempotency[k].expires \in Nat
    BY Zenon, <1>1, <2>2 DEF PublicationInv, PublicationTyped, StoreTyped, Answers
  <2>5. idempotency[k].expires <= now
    BY <1>1, <2>1, <2>2, <2>4 DEF P!Answered
  <2> HIDE DEF e
  <2>6. CASE q = e
    BY Zenon, <2>3, <2>5, <2>6
  <2>7. CASE q # e
    <3>1. event[e].stored \in Nat /\ event[e].stored <= now /\ event[q].created \in Nat
      BY Zenon, <1>8, <2>3, <2>4
    <3> QED BY <1>1, <2>3, <2>7, <3>1 DEF PublicationSensible
  <2> QED BY Zenon, <2>6, <2>7
<1>16. AnswersAreLatest'
  <2> SUFFICES ASSUME NEW j \in Keys
               PROVE  IF idempotency'[j] = None THEN \A q \in Requests : KeyOf[q] = j => event'[q] = None
                      ELSE LET e == idempotency'[j].event IN
                        /\ KeyOf[e] = j /\ event'[e] # None
                        /\ idempotency'[j].expires = event'[e].created + Idempotency
                        /\ \A q \in Requests : q # e /\ KeyOf[q] = j /\ event'[q] # None =>
                             event'[q].created + Idempotency <= event'[e].stored
    BY Zenon DEF AnswersAreLatest
  <2>1. CASE j = k
    BY Zenon, <1>2, <1>4, <1>15, <2>1 DEF k
  <2>2. CASE j # k
    <3>1. idempotency'[j] = idempotency[j] /\ KeyOf[r] # j
      BY Zenon, <1>4, <2>2 DEF k
    <3>2. CASE idempotency[j] = None
      BY <1>2, <3>1, <3>2 DEF PublicationInv, AnswersAreLatest
    <3>3. CASE idempotency[j] # None
      <4> DEFINE e == idempotency[j].event
      <4>1. e \in Requests
        BY Zenon, <3>3 DEF PublicationInv, PublicationTyped, StoreTyped, Answers
      <4>2. /\ KeyOf[e] = j /\ event[e] # None /\ idempotency[j].expires = event[e].created + Idempotency
            /\ \A q \in Requests : q # e /\ KeyOf[q] = j /\ event[q] # None =>
                 event[q].created + Idempotency <= event[e].stored
        BY Zenon, <3>3 DEF PublicationInv, AnswersAreLatest
      <4> HIDE DEF e
      <4>3. event'[e] = event[e] /\ \A q \in Requests : KeyOf[q] = j => event'[q] = event[q]
        BY Zenon, <1>2, <3>1, <4>1, <4>2
      <4> QED BY Zenon, <3>1, <3>3, <4>2, <4>3 DEF e
    <3> QED BY Zenon, <3>2, <3>3
  <2> QED BY Zenon, <2>1, <2>2
<1>17. DeliveriesHaveEvents'
  <2>1. \A q \in Requests, t \in Targets, sink \in P!Sinks : <<q, t, sink>> \in delivery' => event'[q] # None
    BY Zenon, <1>2, <1>7, <1>9 DEF PublicationInv, DeliveriesHaveEvents
  <2>2. \A q \in Requests, t \in Targets : <<q, t>> \in queued' => event'[q] # None
    BY Zenon, <1>2, <1>7, <1>10 DEF PublicationInv, DeliveriesHaveEvents
  <2>3. ASSUME NEW q \in Requests, event'[q] # None, NEW t \in event'[q].targets
        PROVE  \E sink \in P!Sinks : <<q, t, sink>> \in delivery'
    <3>1. CASE q = r
      <4>1. t \in request[r].targets /\ t \in Targets
        BY Zenon, <1>2, <1>6, <3>1
      <4>2. policy[t] # {} /\ policy[t] \subseteq P!Sinks
        BY Zenon, <4>1 DEF PublicationInv, PublicationTyped, SettingsTyped
      <4> QED BY Zenon, <1>9, <3>1, <4>1, <4>2
    <3>2. CASE q # r
      <4>1. event'[q] = event[q] /\ t \in Targets
        BY Zenon, <1>2, <1>8, <2>3, <3>2 DEF Stamped
      <4>2. PICK sink \in P!Sinks : <<q, t, sink>> \in delivery
        BY Zenon, <2>3, <4>1 DEF PublicationInv, DeliveriesHaveEvents
      <4>3. <<q, t, sink>> \in delivery'
        BY Zenon, <1>9, <4>1, <4>2
      <4> QED BY Zenon, <4>3
    <3> QED BY Zenon, <3>1, <3>2
  <2> QED BY Zenon, <2>1, <2>2, <2>3 DEF DeliveriesHaveEvents
<1>18. AnswersHaveEvents'
  <2>1. \A q \in Requests : request'[q].answer = request[q].answer
    BY Zenon, <1>5
  <2>2. \A q \in Requests : P!At(q, "stored")' => q = r \/ P!At(q, "stored")
    BY Zenon, <1>5 DEF P!At
  <2> QED BY <1>2, <1>7, <2>1, <2>2 DEF PublicationInv, AnswersHaveEvents
<1>19. KeysAreKept'
  <2> SUFFICES ASSUME NEW q \in Requests, NEW t \in Targets,
                      <<q, t>> \in queued', DedupOf[q] # None, event'[q].window[t] > 0
               PROVE  \/ dedup'[<<t, DedupOf[q]>>].expires = event'[q].created + event'[q].window[t]
                      \/ event'[q].created + event'[q].window[t] <= now
    BY Zenon, <1>2 DEF KeysAreKept
  <2>1. DedupOf[q] \in DedupKeys
    BY Zenon DEF PublicationSensible
  <2>2. CASE <<q, t>> \in queued
    <3>1. event'[q] = event[q] /\ event[q] # None
      BY Zenon, <1>7, <2>2 DEF PublicationInv, DeliveriesHaveEvents
    <3>2. \/ dedup[<<t, DedupOf[q]>>].expires = event[q].created + event[q].window[t]
          \/ event[q].created + event[q].window[t] <= now
      BY Zenon, <2>2, <3>1 DEF PublicationInv, KeysAreKept
    <3>3. \/ dedup'[<<t, DedupOf[q]>>] = dedup[<<t, DedupOf[q]>>]
          \/ dedup[<<t, DedupOf[q]>>].expires <= c
      <4>1. dedup' = P!DedupAfter(r)
        BY Zenon, StoresFields
      <4> QED BY Zenon, <2>1, <4>1, DedupFields DEF c
    <3>4. event[q].created \in Nat /\ event[q].window[t] \in Nat
      BY Zenon, <1>8, <3>1 DEF Stamped, PublicationSensible
    <3> QED BY <1>1, <3>1, <3>2, <3>3, <3>4
  <2>3. CASE <<q, t>> \notin queued
    <3>1. q = r /\ t \in P!QueuedBy(r)
      BY Zenon, <1>10, <2>3
    <3>2. dedup' = P!DedupAfter(r)
      BY Zenon, StoresFields
    <3>3. dedup'[<<t, DedupOf[r]>>].expires = c + subscription[t].window
      BY Zenon, <1>2, <3>1, <3>2, DedupFields DEF c
    <3> QED BY Zenon, <1>2, <3>1, <3>3
  <2> QED BY Zenon, <2>2, <2>3
<1>20. P!OneEventPerKey'
  <2> SUFFICES ASSUME NEW p \in Requests, NEW q \in Requests,
                      p # q, KeyOf[p] = KeyOf[q], event'[p] # None, event'[q] # None
               PROVE  \/ event'[q].stored >= event'[p].created + Idempotency
                      \/ event'[p].stored >= event'[q].created + Idempotency
    BY Zenon DEF P!OneEventPerKey
  <2>1. CASE p # r /\ q # r
    BY Zenon, <1>2, <2>1 DEF PublicationInv, P!OneEventPerKey
  <2>2. CASE p = r
    <3>1. event'[q] = event[q] /\ event[q].created + Idempotency <= now /\ event'[p].stored = now
      BY Zenon, <1>2, <1>15, <2>2 DEF k
    <3>2. event[q].created \in Nat
      BY Zenon, <1>2, <1>8, <2>2
    <3> QED BY Zenon, <1>1, <3>1, <3>2 DEF PublicationSensible
  <2>3. CASE q = r
    <3>1. event'[p] = event[p] /\ event[p].created + Idempotency <= now /\ event'[q].stored = now
      BY Zenon, <1>2, <1>15, <2>3 DEF k
    <3>2. event[p].created \in Nat
      BY Zenon, <1>2, <1>8, <2>3
    <3> QED BY Zenon, <1>1, <3>1, <3>2 DEF PublicationSensible
  <2> QED BY Zenon, <2>1, <2>2, <2>3
<1>21. P!JobsTellSinks'
  <2> SUFFICES ASSUME NEW j \in Keys, idempotency'[j] # None, NEW t \in event'[idempotency'[j].event].targets
               PROVE  t \in idempotency'[j].callback <=> <<idempotency'[j].event, t, "callback">> \in delivery'
    BY Zenon DEF P!JobsTellSinks
  <2>0. "callback" \in P!Sinks
    BY Zenon DEF P!Sinks
  <2>1. CASE j = k
    <3>1. t \in request[r].targets /\ t \in Targets
      BY Zenon, <1>2, <1>4, <1>6, <2>1
    <3>2. <<r, t, "callback">> \notin delivery
      BY Zenon, <1>3, <2>0, <3>1 DEF PublicationInv, DeliveriesHaveEvents
    <3>3. t \in idempotency'[j].callback <=> "callback" \in policy[t]
      BY Zenon, <1>4, <2>1, <3>1 DEF P!CallbackJobs
    <3> QED BY Zenon, <1>4, <1>9, <2>0, <2>1, <3>1, <3>2, <3>3
  <2>2. CASE j # k
    <3> DEFINE e == idempotency[j].event
    <3>1. idempotency'[j] = idempotency[j]
      BY Zenon, <1>4, <2>2
    <3>2. e \in Requests /\ event[e] # None /\ KeyOf[e] = j
      BY Zenon, <3>1 DEF PublicationInv, PublicationTyped, StoreTyped, Answers, AnswersAreLatest
    <3>3. e # r /\ event'[e] = event[e] /\ t \in event[e].targets
      BY Zenon, <1>7, <2>2, <3>1, <3>2 DEF k
    <3>4. t \in Targets
      BY Zenon, <1>8, <3>2, <3>3 DEF Stamped
    <3>5. t \in idempotency[j].callback <=> <<e, t, "callback">> \in delivery
      BY Zenon, <3>1, <3>3 DEF PublicationInv, P!JobsTellSinks
    <3>6. <<e, t, "callback">> \in delivery' <=> <<e, t, "callback">> \in delivery
      BY Zenon, <1>9, <2>0, <3>2, <3>3, <3>4
    <3> QED BY Zenon, <3>1, <3>5, <3>6
  <2> QED BY Zenon, <2>1, <2>2
<1>22. P!Deduplicated'
  <2> DEFINE Apart(f, p, q, t) == \/ f[q].window[t] = 0
                                  \/ f[q].created >= f[p].created + f[p].window[t] - Patience
  <2>1. ASSUME NEW q \in Requests, NEW t \in Targets, q # r, DedupOf[q] # None, DedupOf[q] = DedupOf[r],
               <<q, t>> \in queued, t \in P!QueuedBy(r)
        PROVE  Apart(event', q, r, t)
    <3>1. /\ event[q] # None /\ event'[q] = event[q] /\ event[q].created \in Nat /\ event[q].created <= now
          /\ event[q].window[t] \in Nat /\ subscription[t].window \in Nat
      BY Zenon, <1>7, <1>8, <2>1 DEF PublicationInv, DeliveriesHaveEvents, PublicationTyped, SettingsTyped, Stamped,
         PublicationSensible
    <3>2. event'[r].window[t] = subscription[t].window /\ event'[r].created = c
      BY Zenon, <1>2
    <3>3. CASE subscription[t].window = 0
      BY Zenon, <3>2, <3>3
    <3>4. CASE subscription[t].window > 0 /\ event[q].window[t] = 0
      BY <1>1, <3>1, <3>2, <3>4 DEF PublicationSensible
    <3>5. CASE subscription[t].window > 0 /\ event[q].window[t] > 0
      <4>1. dedup[<<t, DedupOf[r]>>].expires <= c
        BY Zenon, <2>1, <3>5, DedupFields DEF c
      <4>2. \/ dedup[<<t, DedupOf[q]>>].expires = event[q].created + event[q].window[t]
            \/ event[q].created + event[q].window[t] <= now
        BY Zenon, <2>1, <3>5 DEF PublicationInv, KeysAreKept
      <4>3. event[q].created + event[q].window[t] <= c + Patience
        BY <1>1, <2>1, <3>1, <4>1, <4>2 DEF PublicationSensible
      <4> QED BY <1>1, <3>1, <3>2, <4>3 DEF PublicationSensible
    <3> QED BY <3>1, <3>3, <3>4, <3>5
  <2> SUFFICES ASSUME NEW p \in Requests, NEW q \in Requests, NEW t \in Targets,
                      p # q, DedupOf[p] # None, DedupOf[p] = DedupOf[q],
                      <<p, t>> \in queued', <<q, t>> \in queued'
               PROVE  Apart(event', p, q, t) \/ Apart(event', q, p, t)
    BY Zenon DEF P!Deduplicated
  <2>2. CASE <<p, t>> \in queued /\ <<q, t>> \in queued
    <3>1. event'[p] = event[p] /\ event'[q] = event[q]
      BY Zenon, <1>7, <2>2 DEF PublicationInv, DeliveriesHaveEvents
    <3>2. Apart(event, p, q, t) \/ Apart(event, q, p, t)
      BY Zenon, <2>2 DEF PublicationInv, P!Deduplicated
    <3> QED BY Zenon, <3>1, <3>2
  <2>3. CASE <<p, t>> \notin queued
    <3>1. p = r /\ t \in P!QueuedBy(r) /\ <<q, t>> \in queued
      BY Zenon, <1>10, <2>3
    <3> HIDE DEF Apart
    <3> QED BY Zenon, <2>1, <3>1
  <2>4. CASE <<q, t>> \notin queued
    <3>1. q = r /\ t \in P!QueuedBy(r) /\ <<p, t>> \in queued
      BY Zenon, <1>10, <2>4
    <3> HIDE DEF Apart
    <3> QED BY Zenon, <2>1, <3>1
  <2> QED BY Zenon, <2>2, <2>3, <2>4
<1> QED BY Zenon, <1>11, <1>12, <1>13, <1>14, <1>16, <1>17, <1>18, <1>19, <1>20, <1>21, <1>22 DEF PublicationInv

LEMMA PublicationStep ==
  ASSUME PublicationSensible, PublicationInv, [P!Next]_P!vars
  PROVE  PublicationInv'
<1>1. ASSUME NEW r \in Requests, P!PublishStep(r)
      PROVE  PublicationInv'
  <2>1. CASE P!PublishEvent(r) /\ \E t \in request[r].targets : policy[t] = {}
    BY Zenon, <2>1, RequestEnds DEF P!PublishEvent, PublicationSensible
  <2>2. CASE P!PublishEvent(r) /\ ~\E t \in request[r].targets : policy[t] = {}
    BY Zenon, <2>2, StoreStep
  <2>3. CASE P!Announce(r)
    BY Zenon, <2>3, RequestEnds DEF P!Announce, PublicationInv, AnswersHaveEvents
  <2> QED BY Zenon, <1>1, <2>1, <2>2, <2>3, ResolveStep, FindStep, CheckStep, BeginPublishStep DEF P!PublishStep
<1>2. ASSUME NEW r \in Requests, P!Fail(r)
      PROVE  PublicationInv'
  BY Zenon, <1>2, RequestEnds DEF P!Fail, PublicationSensible
<1>3. ASSUME SettingsTyped', P!UnchangedByOperator
      PROVE  PublicationInv'
  <2>1. ClockTyped' /\ now' >= now
    BY <1>3 DEF P!UnchangedByOperator, PublicationInv, PublicationTyped, ClockTyped
  <2>2. \A r \in Requests : request[r].pc \in {"begin", "locked"} => now' <= request[r].created + Patience
    BY Zenon, <1>3 DEF P!UnchangedByOperator, PublicationInv, StampsAreRecent
  <2> QED BY Zenon, <1>3, <2>1, <2>2, SettingsStep DEF P!UnchangedByOperator
<1>4. ASSUME NEW t \in Targets, P!ChangePolicy(t)
      PROVE  PublicationInv'
  BY Zenon, <1>3, <1>4 DEF P!ChangePolicy, PublicationInv, PublicationTyped, SettingsTyped
<1>5. ASSUME NEW t \in Targets, P!ValidateRule(t)
      PROVE  PublicationInv'
  BY Zenon, <1>3, <1>5 DEF P!ValidateRule, PublicationInv, PublicationTyped, SettingsTyped
<1>6. ASSUME NEW t \in Targets, P!RemoveRule(t)
      PROVE  PublicationInv'
  BY Zenon, <1>3, <1>6 DEF P!RemoveRule, P!DeleteRoutingRule, PublicationInv, PublicationTyped, SettingsTyped
<1>7. ASSUME NEW t \in Targets, P!ChangeSubscription(t)
      PROVE  PublicationInv'
  BY <1>3, <1>7 DEF P!ChangeSubscription, PublicationInv, PublicationTyped, SettingsTyped
<1>8. CASE P!StoreRule
  BY Zenon, <1>3, <1>8 DEF P!StoreRule, P!CreateRoutingRule, PublicationInv, PublicationTyped, SettingsTyped
<1>9. CASE P!Tick
  <2>1. ClockTyped' /\ now' >= now /\ SettingsTyped'
    BY <1>9 DEF P!Tick, PublicationInv, PublicationTyped, ClockTyped, SettingsTyped, PublicationSensible
  <2>2. ASSUME NEW r \in Requests, request[r].pc \in {"begin", "locked"}
        PROVE  now' <= request[r].created + Patience
    <3>1. request[r].created \in Nat /\ now \in Nat
      BY Zenon DEF PublicationInv, PublicationTyped, RequestsTyped, Locals, ClockTyped
    <3> QED BY <1>9, <2>2, <3>1 DEF P!Tick, PublicationSensible
  <2> QED BY Zenon, <1>9, <2>1, <2>2, SettingsStep DEF P!Tick
<1>10. CASE UNCHANGED P!vars
  BY Zenon, <1>3, <1>10 DEF P!vars, P!UnchangedByOperator, P!UnchangedStore, PublicationInv, PublicationTyped, SettingsTyped
<1> QED BY Zenon, <1>1, <1>2, <1>4, <1>5, <1>6, <1>7, <1>8, <1>9, <1>10 DEF P!Next

(* A publication takes effect once and as it is answered, however requests *)
(* overlap and whatever changes meanwhile.                                 *)
THEOREM PublicationsTakeEffectOnce == ASSUME PublicationSensible PROVE P!Spec => []P!PublishedOnce
<1>1. P!Init => PublicationInv
  BY Zenon, PublicationInit
<1>2. PublicationInv /\ [P!Next]_P!vars => PublicationInv'
  BY Zenon, PublicationStep
<1>3. PublicationInv => P!PublishedOnce
  <2> SUFFICES ASSUME PublicationInv PROVE P!PublishedOnce
    BY Zenon
  <2>1. P!AnswersAreStored
    BY Zenon DEF PublicationInv, AnswersHaveEvents, DeliveriesHaveEvents, P!AnswersAreStored
  <2>2. ASSUME NEW r \in Requests, event[r] # None
        PROVE  event[r] \in [targets : SUBSET Targets, created : P!Instants, stored : P!Instants,
                             window : [Targets -> Windows]]
    <3>1. event[r] \in Stamped /\ event[r].created \in Nat /\ event[r].stored \in Nat
      BY Zenon, <2>2 DEF PublicationInv, PublicationTyped, StoreTyped, Stamped
    <3>2. event[r].created <= event[r].stored /\ event[r].stored <= now /\ now \in Nat /\ now <= Horizon
      BY Zenon, <2>2 DEF PublicationInv, StampsAreRecent, PublicationTyped, ClockTyped
    <3>3. event[r].created \in P!Instants /\ event[r].stored \in P!Instants
      BY <3>1, <3>2 DEF P!Instants, PublicationSensible
    <3> QED BY Zenon, <3>1, <3>3 DEF Stamped
  <2>3. now \in P!Instants
    BY DEF PublicationInv, PublicationTyped, ClockTyped, P!Instants, PublicationSensible
  <2>4. P!TypeOK
    BY Zenon, <2>2, <2>3 DEF P!TypeOK, PublicationInv, PublicationTyped, SettingsTyped, StoreTyped
  <2> QED BY Zenon, <2>1, <2>4 DEF PublicationInv, P!PublishedOnce
<1> QED BY <1>1, <1>2, <1>3, PTL DEF P!Spec

-----------------------------------------------------------------------------
(* RetryPolicy *)

INSTANCE RetryPolicy
INSTANCE NaturalsInduction
INSTANCE WellFoundedInduction

(* Whatever a receiver answers and asks for, on every attempt.             *)
THEOREM ScheduleHolds ==
  ASSUME NEW Codes \in SUBSET Int, NEW Wishes \in SUBSET Int
  PROVE  ScheduleIsBounded(Codes, Wishes)
<1> SUFFICES ASSUME NEW status \in Codes, NEW wish \in Wishes, NEW failed \in BOOLEAN,
                    NEW attempt \in 1..MaxCallbackAttempts
             PROVE  LET outcome == Classify(status, wish, failed, attempt) IN
                      /\ outcome.delay \in 0..MaxDelay
                      /\ outcome.kind = "retry" <=>
                           /\ attempt < MaxCallbackAttempts
                           /\ failed \/ status \in {408, 425, 429} \/ status \div 100 = 5
  BY Zenon DEF ScheduleIsBounded
<1>1. status \in Int /\ wish \in Int /\ attempt \in 1..6
  BY Zenon DEF MaxCallbackAttempts
<1>2. status \in 500..599 <=> status \div 100 = 5
  BY <1>1
<1>3. attempt < 6 => Delays[attempt] \in 0..300
  BY <1>1 DEF Delays
<1>4. attempt < 6 => Waiting(wish, attempt) \in 0..300
  BY <1>1, <1>3 DEF Waiting, MaxDelay
<1>5. Transient(status, failed) <=> failed \/ status \in {408, 425, 429} \/ status \div 100 = 5
  BY <1>2 DEF Transient
<1>6. status \in 200..299 => ~(status \in {408, 425, 429} \/ status \div 100 = 5)
  BY <1>1
<1> DEFINE outcome == Classify(status, wish, failed, attempt)
<1>7. CASE ~failed /\ status \in 200..299
  <2>1. outcome = [kind |-> "delivered", delay |-> 0]
    BY Zenon, <1>7 DEF Classify
  <2>2. outcome.delay = 0 /\ outcome.kind = "delivered"
    BY <2>1
  <2>3. outcome.delay \in 0..MaxDelay /\ outcome.kind # "retry"
    BY <2>2 DEF MaxDelay
  <2> QED BY <1>6, <1>7, <2>3
<1>8. CASE ~(~failed /\ status \in 200..299) /\ (~Transient(status, failed) \/ attempt >= MaxCallbackAttempts)
  <2>1. outcome = [kind |-> "dead_letter", delay |-> 0]
    BY Zenon, <1>8 DEF Classify
  <2>2. outcome.delay = 0 /\ outcome.kind = "dead_letter"
    BY <2>1
  <2>3. outcome.delay \in 0..MaxDelay /\ outcome.kind # "retry"
    BY <2>2 DEF MaxDelay
  <2>4. attempt >= MaxCallbackAttempts => ~(attempt < MaxCallbackAttempts)
    BY <1>1 DEF MaxCallbackAttempts
  <2> QED BY <1>5, <1>8, <2>3, <2>4
<1>9. CASE ~(~failed /\ status \in 200..299) /\ Transient(status, failed) /\ ~(attempt >= MaxCallbackAttempts)
  <2> DEFINE delay == IF status = 429 /\ ~failed THEN Waiting(wish, attempt) ELSE Delays[attempt]
  <2>1. attempt < 6 /\ attempt < MaxCallbackAttempts
    BY <1>1, <1>9 DEF MaxCallbackAttempts
  <2>2. delay \in 0..MaxDelay
    BY Zenon, <1>3, <1>4, <2>1 DEF MaxDelay
  <2>3. outcome = [kind |-> "retry", delay |-> delay]
    BY Zenon, <1>9 DEF Classify
  <2>4. outcome.delay = delay /\ outcome.kind = "retry"
    BY <2>3
  <2> HIDE DEF delay
  <2> QED BY <1>5, <1>9, <2>1, <2>2, <2>4
<1> QED BY Zenon, <1>7, <1>8, <1>9

(* What a power of two is. *)
PowersDouble == 2^0 = 1 /\ \A n \in Nat : 2^n \in Nat /\ 2^(n + 1) = 2 * 2^n

Capped(power, cap) == IF power < cap THEN power ELSE cap

LEMMA CappedDoubling ==
  ASSUME NEW cap \in Nat, NEW power \in Nat
  PROVE  Capped(2 * power, cap) =
           IF Capped(power, cap) > cap \div 2 THEN cap ELSE 2 * Capped(power, cap)
BY DEF Capped

LEMMA Minimum ==
  ASSUME NEW S \in SUBSET Nat, S # {}
  PROVE  \E n \in S : \A m \in S : n <= m
<1>1. PICK n \in S : \A m \in Nat : <<m, n>> \in OpToRel(<, Nat) => m \notin S
  BY Zenon, NatLessThanWellFounded, WFMin
<1>2. \A m \in S : ~(m < n)
  BY Zenon, <1>1 DEF OpToRel
<1> QED BY <1>2

(* The loop of retryDelay computes the capped power of two, for every base,*)
(* cap and attempt.                                                        *)
THEOREM DelaysAreCappedPowers ==
  ASSUME PowersDouble, NEW Bases \in SUBSET Nat, NEW Caps \in SUBSET Nat,
         NEW Attempts \in SUBSET (Nat \ {0})
  PROVE  DelayIsCappedPower(Bases, Caps, Attempts)
<1> SUFFICES ASSUME NEW base \in Bases, NEW cap \in Caps, NEW attempt \in Attempts, base <= cap
             PROVE  retryDelay(base, cap, attempt) = Capped(base * 2^(attempt - 1), cap)
  BY Zenon DEF DelayIsCappedPower, Capped
<1> DEFINE F(f) == [step \in 1..attempt |->
                      IF step = 1 THEN base
                      ELSE IF f[step - 1] > cap \div 2 THEN cap ELSE 2 * f[step - 1]]
           delay == CHOOSE f : f = F(f)
           power == [step \in 1..attempt |-> base * 2^(step - 1)]
           expected == [step \in 1..attempt |-> Capped(power[step], cap)]
<1>1. retryDelay(base, cap, attempt) = delay[attempt]
  BY Zenon DEF retryDelay
<1>2. base \in Nat /\ cap \in Nat /\ attempt \in Nat /\ attempt >= 1
  OBVIOUS
<1>3. /\ power[1] = base
      /\ \A step \in 1..attempt : power[step] \in Nat /\ (step # 1 => power[step] = 2 * power[step - 1])
  <2>1. power[1] = base
    BY <1>2 DEF PowersDouble
  <2>2. ASSUME NEW step \in 1..attempt
        PROVE  power[step] \in Nat
    <3>1. 2^(step - 1) \in Nat
      BY <1>2 DEF PowersDouble
    <3> QED BY <1>2, <3>1
  <2>3. ASSUME NEW step \in 1..attempt, step # 1
        PROVE  power[step] = 2 * power[step - 1]
    <3>1. step - 2 \in Nat /\ (step - 2) + 1 = step - 1 /\ (step - 1) - 1 = step - 2 /\ step - 1 \in 1..attempt
      BY <1>2, <2>3
    <3>2. 2^(step - 1) = 2 * 2^(step - 2) /\ 2^(step - 2) \in Nat
      BY Zenon, <3>1 DEF PowersDouble
    <3>3. power[step] = base * 2^(step - 1) /\ power[step - 1] = base * 2^(step - 2)
      BY Zenon, <3>1
    <3> DEFINE x == 2^(step - 2)
    <3>4. x \in Nat /\ power[step] = base * (2 * x) /\ power[step - 1] = base * x
      BY Zenon, <3>2, <3>3
    <3> HIDE DEF x, power
    <3> QED BY <1>2, <3>4
  <2> QED BY Zenon, <2>1, <2>2, <2>3
<1> HIDE DEF power
<1>4. expected = F(expected)
  <2>1. ASSUME NEW step \in 1..attempt
        PROVE  expected[step] = F(expected)[step]
    <3>1. CASE step = 1
      BY <1>2, <1>3, <3>1 DEF Capped
    <3>2. CASE step # 1
      <4>1. step - 1 \in 1..attempt
        BY <1>2, <3>2
      <4>2. expected[step] = Capped(2 * power[step - 1], cap) /\ expected[step - 1] = Capped(power[step - 1], cap)
            /\ power[step - 1] \in Nat
        BY Zenon, <1>3, <3>2, <4>1
      <4>3. expected[step] = IF expected[step - 1] > cap \div 2 THEN cap ELSE 2 * expected[step - 1]
        BY <1>2, <4>2, CappedDoubling
      <4> HIDE DEF expected
      <4> QED BY Zenon, <3>2, <4>3
    <3> QED BY Zenon, <3>1, <3>2
  <2>2. expected = [step \in 1..attempt |-> expected[step]]
    BY Zenon
  <2> HIDE DEF expected
  <2> QED BY Zenon, <2>1, <2>2
<1>5. delay = F(delay)
  BY Zenon, <1>4
<1> DEFINE wrong == {step \in 1..attempt : delay[step] # expected[step]}
<1>6. wrong = {}
  <2> SUFFICES ASSUME wrong # {} PROVE FALSE
    BY Zenon
  <2>1. wrong \in SUBSET Nat
    BY <1>2
  <2>2. PICK step \in wrong : \A m \in wrong : step <= m
    BY Zenon, <2>1, Minimum
  <2> HIDE DEF delay
  <2>3. step \in 1..attempt /\ step # 1
    <3>1. delay[1] = base /\ expected[1] = base
      BY <1>2, <1>3, <1>5 DEF Capped
    <3> HIDE DEF expected
    <3> QED BY Zenon, <3>1
  <2>4. step - 1 \in 1..attempt /\ step - 1 \notin wrong
    BY <1>2, <2>2, <2>3
  <2>5. delay[step - 1] = expected[step - 1]
    BY Zenon, <2>4
  <2>6. /\ delay[step] = IF delay[step - 1] > cap \div 2 THEN cap ELSE 2 * delay[step - 1]
        /\ expected[step] = IF expected[step - 1] > cap \div 2 THEN cap ELSE 2 * expected[step - 1]
    <3> HIDE DEF expected
    <3> QED BY Zenon, <1>4, <1>5, <2>3
  <2> QED BY Zenon, <2>2, <2>5, <2>6
<1>7. delay[attempt] = expected[attempt]
  <2>1. attempt \in 1..attempt
    BY <1>2
  <2>2. attempt \notin wrong
    <3> HIDE DEF wrong
    <3> QED BY Zenon, <1>6
  <2> HIDE DEF delay, expected
  <2> QED BY Zenon, <2>1, <2>2
<1>8. expected[attempt] = Capped(base * 2^(attempt - 1), cap)
  <2>1. attempt \in 1..attempt
    BY <1>2
  <2> QED BY Zenon, <2>1 DEF power
<1> QED BY Zenon, <1>1, <1>7, <1>8
=============================================================================
