------------------------------ MODULE Migration ------------------------------
(***************************************************************************)
(* The move from the legacy database to the new one: migrate/migrate.go.   *)
(*                                                                         *)
(* apply writes the target in one transaction, but reads every table of    *)
(* the source by a statement of its own, while the old server may still be *)
(* writing; it may be run again.  A step is one table.  Rows that belong   *)
(* to an application and are copied with their current contents            *)
(* (credentials, functions, routing rules, queue subscriptions) are the    *)
(* records here; queue schedules hang on a record.  Push devices, and with *)
(* them files, hang on an application; push bindings, and with them        *)
(* outcomes, hang on a device.  Attempts and audit rows hang on what is in *)
(* the same step and are left out.                                         *)
(***************************************************************************)
EXTENDS Integers, FiniteSets

CONSTANTS
  MaxUser,      \* bound: users are 1..MaxUser, in the order of their ids
  Apps,
  Records,      \* mutable rows of an application
  Schedules, Devices, Bindings,
  ParentOf,     \* the record of a schedule, the device of a binding
  Deliveries,   \* one per event; an outbox row and an event go with each
  AppOf,        \* the application of a record, a device or a delivery
  None,
  MaxContents,  \* bound: times a record changes
  MaxRuns       \* bound: runs of apply

VARIABLES
  source,    \* users: the highest id; apps; record: contents; delivery: status
  target,    \* users: ids; apps: workspaces; record; event; delivery; outbox
  draft,     \* the target as the open transaction sees it
  run,       \* [pc, workspace, seen: deliveries with the state read for them]
  runs,      \* history: number of runs of apply
  quiet      \* history: the source has not changed since the last run began

vars == <<source, target, draft, run, runs, quiet>>

Empty ==
  [users |-> {}, apps |-> [a \in Apps |-> 0], record |-> [r \in Records |-> 0], event |-> {},
   schedules |-> {}, devices |-> {}, bindings |-> {},
   delivery |-> [d \in Deliveries |-> None], outbox |-> [d \in Deliveries |-> None]]

NoRun == [pc |-> "idle", workspace |-> 0, seen |-> [d \in Deliveries |-> None]]

Init ==
  /\ source = [users |-> 1, apps |-> {}, record |-> [r \in Records |-> 0],
               schedules |-> {}, devices |-> {}, bindings |-> {},
               delivery |-> [d \in Deliveries |-> None]]
  /\ target = Empty /\ draft = Empty /\ run = NoRun /\ runs = 0 /\ quiet = FALSE

-----------------------------------------------------------------------------
(* The old server goes on (external to the migration). *)
Legacy(next) ==
  /\ source' = next /\ source' # source /\ quiet' = FALSE
  /\ UNCHANGED <<target, draft, run, runs>>

AddUser == source.users < MaxUser /\ Legacy([source EXCEPT !.users = @ + 1])
AddApp(a) == Legacy([source EXCEPT !.apps = @ \cup {a}])
ChangeRecord(r) ==
  /\ AppOf[r] \in source.apps /\ source.record[r] < MaxContents
  /\ Legacy([source EXCEPT !.record[r] = @ + 1])

AddSchedule(x) ==
  /\ source.record[ParentOf[x]] # 0 /\ Legacy([source EXCEPT !.schedules = @ \cup {x}])
AddDevice(v) ==
  /\ AppOf[v] \in source.apps /\ Legacy([source EXCEPT !.devices = @ \cup {v}])
Bind(b) ==
  /\ ParentOf[b] \in source.devices /\ Legacy([source EXCEPT !.bindings = @ \cup {b}])

Publish(d) ==
  /\ AppOf[d] \in source.apps /\ source.delivery[d] = None
  /\ Legacy([source EXCEPT !.delivery[d] = "pending"])
Settle(d) ==
  /\ source.delivery[d] = "pending"
  /\ \E status \in {"acked", "dead_letter"} : Legacy([source EXCEPT !.delivery[d] = status])
Replay(d) ==
  /\ source.delivery[d] = "dead_letter" /\ Legacy([source EXCEPT !.delivery[d] = "pending"])

-----------------------------------------------------------------------------
(* apply *)
Begin ==
  /\ run.pc = "idle" /\ runs < MaxRuns /\ runs' = runs + 1
  /\ run' = [NoRun EXCEPT !.pc = "users"] /\ draft' = target /\ quiet' = TRUE
  /\ UNCHANGED <<source, target>>

Then(pc, next) ==
  /\ draft' = next /\ run' = [run EXCEPT !.pc = pc] /\ UNCHANGED <<source, target, runs, quiet>>

(* Every error ends the run; the deferred Rollback undoes it. *)
Abort == run' = NoRun /\ draft' = target /\ UNCHANGED <<source, target, runs, quiet>>

(* A user that is there is left as it is.  The workspace of the run is     *)
(* that of the last user.                                                  *)
MigrateUsers ==
  /\ run.pc = "users"
  /\ draft' = [draft EXCEPT !.users = 1..source.users]
  /\ run' = [run EXCEPT !.pc = "applications", !.workspace = source.users]
  /\ UNCHANGED <<source, target, runs, quiet>>

(* An application that is there keeps its workspace. *)
MigrateApplications ==
  /\ run.pc = "applications"
  /\ Then("records", [draft EXCEPT !.apps = [a \in Apps |->
       IF a \in source.apps /\ draft.apps[a] = 0 THEN run.workspace ELSE draft.apps[a]]])

Migrated(x) == draft.apps[AppOf[x]] # 0

(* targetApp fails if the application was not there when the applications  *)
(* were read; otherwise UPDATE, or INSERT if it changes nothing.           *)
MigrateRecords ==
  LET read == {r \in Records : source.record[r] # 0} IN
  /\ run.pc = "records"
  /\ IF \A r \in read : Migrated(r)
     THEN Then("schedules", [draft EXCEPT !.record = [r \in Records |-> source.record[r]]])
     ELSE Abort

(* The subscription of a schedule has to be there, though it was read by   *)
(* an earlier statement.                                                   *)
MigrateSchedules ==
  /\ run.pc = "schedules"
  /\ IF \A x \in source.schedules : draft.record[ParentOf[x]] # 0
     THEN Then("events", [draft EXCEPT !.schedules = source.schedules])
     ELSE Abort

InWorkspace(d) == draft.apps[AppOf[d]] = run.workspace

MigrateEvents ==
  LET read == {d \in Deliveries : source.delivery[d] # None} IN
  /\ run.pc = "events"
  /\ IF \A d \in read : Migrated(d) /\ InWorkspace(d)
     THEN Then("deliveries", [draft EXCEPT !.event = @ \cup read])
     ELSE Abort

legacyDeliveryState ==
  [pending |-> "pending", acked |-> "succeeded", dead_letter |-> "dlq"]

Terminal(state) == state \in {"succeeded", "dlq"}

(* A delivery that is there is only ever settled, never reopened. *)
DeliveryAfter(d, read) ==
  IF read[d] = None THEN draft.delivery[d]
  ELSE LET state == legacyDeliveryState[read[d]] IN
       IF draft.delivery[d] = None \/ Terminal(state) THEN state ELSE draft.delivery[d]

MigrateDeliveries ==
  LET read == source.delivery IN
  /\ run.pc = "deliveries"
  /\ IF \A d \in Deliveries : read[d] # None => d \in draft.event
     THEN /\ draft' = [draft EXCEPT !.delivery = [d \in Deliveries |-> DeliveryAfter(d, read)]]
          /\ run' = [run EXCEPT !.pc = "outbox", !.seen = [d \in Deliveries |->
               IF read[d] = None THEN None ELSE legacyDeliveryState[read[d]]]]
          /\ UNCHANGED <<source, target, runs, quiet>>
     ELSE Abort

(* The outbox row is open unless the state read for the delivery, a        *)
(* statement ago, was terminal.                                            *)
\* mutant of OutboxAfter: the row follows the status that the delivery has by now
OutboxAfterNow(d) ==
  IF source.delivery[d] \in {"acked", "dead_letter"} THEN "discarded" ELSE "open"

OutboxAfter(d) == IF Terminal(run.seen[d]) THEN "discarded" ELSE "open"

MigrateOutbox ==
  LET read == {d \in Deliveries : source.delivery[d] # None} IN
  /\ run.pc = "outbox"
  /\ IF \A d \in read : run.seen[d] # None
     THEN Then("devices", [draft EXCEPT !.outbox = [d \in Deliveries |->
            IF d \in read THEN OutboxAfter(d) ELSE draft.outbox[d]]])
     ELSE Abort

MigrateDevices ==
  /\ run.pc = "devices"
  /\ IF \A v \in source.devices : Migrated(v)
     THEN Then("bindings", [draft EXCEPT !.devices = source.devices])
     ELSE Abort

MigrateBindings ==
  /\ run.pc = "bindings"
  /\ IF \A b \in source.bindings : ParentOf[b] \in draft.devices
     THEN Then("commit", [draft EXCEPT !.bindings = source.bindings])
     ELSE Abort

Commit ==
  /\ run.pc = "commit" /\ target' = draft /\ run' = [NoRun EXCEPT !.pc = "applied"]
  /\ UNCHANGED <<source, draft, runs, quiet>>

Fail == run.pc \notin {"idle", "applied", "verified"} /\ Abort

(* verify: the counts of the copied tables. *)
Verify ==
  /\ run.pc = "applied"
  /\ run' = [run EXCEPT !.pc =
       IF Cardinality(target.event) = Cardinality({d \in Deliveries : source.delivery[d] # None})
       THEN "verified" ELSE "idle"]
  /\ UNCHANGED <<source, target, draft, runs, quiet>>

Finish ==
  /\ run.pc \in {"applied", "verified"} /\ run' = NoRun
  /\ UNCHANGED <<source, target, draft, runs, quiet>>

Next ==
  \/ AddUser \/ \E a \in Apps : AddApp(a)
  \/ \E r \in Records : ChangeRecord(r)
  \/ \E x \in Schedules : AddSchedule(x)
  \/ \E v \in Devices : AddDevice(v)
  \/ \E b \in Bindings : Bind(b)
  \/ \E d \in Deliveries : Publish(d) \/ Settle(d) \/ Replay(d)
  \/ Begin \/ MigrateUsers \/ MigrateApplications \/ MigrateRecords \/ MigrateSchedules
  \/ MigrateEvents \/ MigrateDeliveries \/ MigrateOutbox \/ MigrateDevices \/ MigrateBindings \/ Commit \/ Fail \/ Verify \/ Finish

Spec == Init /\ [][Next]_vars

-----------------------------------------------------------------------------
TypeOK ==
  /\ target.delivery \in [Deliveries -> {None, "pending", "succeeded", "dlq"}]
  /\ target.outbox \in [Deliveries -> {None, "open", "discarded"}]
  /\ target.apps \in [Apps -> 0..MaxUser] /\ runs \in 0..MaxRuns /\ quiet \in BOOLEAN

(* However the source changes while it is read, what is committed hangs    *)
(* together: a copied delivery has its event, its application and its      *)
(* outbox row, and one that is still to be delivered has an open one;      *)
(* schedules have their subscription, bindings their device.               *)
CopyIsClosed ==
  /\ \A d \in Deliveries : target.delivery[d] # None =>
       /\ d \in target.event /\ target.apps[AppOf[d]] # 0 /\ target.outbox[d] # None
       /\ target.delivery[d] = "pending" => target.outbox[d] = "open"
  /\ \A x \in target.schedules : target.record[ParentOf[x]] # 0
  /\ \A b \in target.bindings : ParentOf[b] \in target.devices

(* A last run against a source that is at rest brings over every delivery, *)
(* the outcome of those that have been settled, and every current record,  *)
(* whatever earlier runs have left.                                        *)
LastRunAgrees ==
  run.pc \in {"applied", "verified"} /\ quiet =>
    /\ target.record = source.record /\ target.schedules = source.schedules
    /\ target.devices = source.devices /\ target.bindings = source.bindings
    /\ \A d \in Deliveries : source.delivery[d] # None => target.delivery[d] # None
    /\ \A d \in Deliveries : source.delivery[d] \in {"acked", "dead_letter"} =>
         /\ target.delivery[d] = legacyDeliveryState[source.delivery[d]]
         /\ target.outbox[d] = "discarded"

(* What is committed hangs together, and a last run against a source at    *)
(* rest brings everything over.                                            *)
CopyAgrees == TypeOK /\ CopyIsClosed /\ LastRunAgrees
=============================================================================
