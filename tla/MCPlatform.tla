----------------------------- MODULE MCPlatform -----------------------------
(***************************************************************************)
(* The components of the platform around the delivery paths.  They share   *)
(* no state, so a behaviour moves one of them, which is chosen at the      *)
(* start, and leaves the others where they began.                          *)
(***************************************************************************)
EXTENDS FunctionInvocations, TLC

CONSTANTS g1, g2, s1, s2

VARIABLES
  which,
  now, policy, rules, draft, subscription, event, delivery, queued, dedup, idempotency, request,
  changes,
  app, enabled, endpoint, revoked, updates, client,
  process, started, latest, member,
  user, stored, caller, age, issued,
  source, target, copy, run, runs, quiet,
  stream, ledger, schema, lock, replica,
  minute, made, queue, recorder, counted, reported, closing

publicationVars ==
  <<now, policy, rules, draft, subscription, event, delivery, queued, dedup, idempotency, request,
    changes>>
applicationVars == <<app, enabled, endpoint, revoked, updates, client>>
registryVars == <<process, started, latest, member>>
sessionVars == <<user, stored, caller, age, issued>>
migrationVars == <<source, target, copy, run, runs, quiet>>
startupVars == <<stream, ledger, schema, lock, replica>>
dashboardVars == <<minute, made, queue, recorder, counted, reported, closing>>

MCHome == (s1 :> g1) @@ (s2 :> g2)

(* Two requests repeat a key, two repeat a deduplication key, and one      *)
(* leaves its targets to the routing rules.                                *)
MCRequests == {"r1", "r2", "r3"}
MCKeyOf == [r \in MCRequests |-> IF r = "r2" THEN "k2" ELSE "k1"]
MCDedupOf == [r \in MCRequests |-> IF r = "r3" THEN "d2" ELSE "d1"]
MCTargetsOf == [r \in MCRequests |-> IF r = "r2" THEN {} ELSE {"t1"}]
MCKeys == {"k1", "k2"}
MCDedupKeys == {"d1", "d2"}
MCTargets == {"t1"}
MCWindows == {0, 2}

P == INSTANCE Publication WITH
  Requests <- MCRequests, Keys <- MCKeys, DedupKeys <- MCDedupKeys, Targets <- MCTargets,
  KeyOf <- MCKeyOf, DedupOf <- MCDedupOf, TargetsOf <- MCTargetsOf,
  Idempotency <- 2, Windows <- MCWindows, Patience <- 1, Horizon <- 2, MaxChanges <- 1

MCEditors == {"e1", "e2"}
MCClients == {"c1"}
MCNames == {"n1", "n2"}
MCUrls == {"u1"}

A == INSTANCE Applications WITH
  Editors <- MCEditors, Clients <- MCClients, Names <- MCNames, Urls <- MCUrls, Attempts <- 2,
  MaxVersion <- 2, editor <- updates

MCProcesses == {"p1", "p2", "p3"}

R == INSTANCE InstanceRegistry WITH Processes <- MCProcesses, TTL <- 2, MaxStarted <- 2

MCSessions == {"s1", "s2"}
MCCallers == {"c1", "c2"}
MCUsers == {"u1"}

S == INSTANCE AdminSessions WITH
  Sessions <- MCSessions, Callers <- MCCallers, Users <- MCUsers, IdleTTL <- 2, AbsoluteTTL <- 3,
  MaxPasswords <- 2

MCApps == {"a1"}
MCRecords == {"r1"}
MCDeliveries == {"d1"}
MCSchedules == {"s1"}
MCDevices == {"v1"}
MCBindings == {"b1"}
MCAppOf == [x \in MCRecords \cup MCDeliveries \cup MCDevices |-> "a1"]
MCParentOf == ("s1" :> "r1") @@ ("b1" :> "v1")

M == INSTANCE Migration WITH
  MaxUser <- 2, Apps <- MCApps, Records <- MCRecords, Schedules <- MCSchedules,
  Devices <- MCDevices, Bindings <- MCBindings, ParentOf <- MCParentOf,
  Deliveries <- MCDeliveries, AppOf <- MCAppOf, MaxContents <- 2, MaxRuns <- 2, draft <- copy

(* Three binaries: one older, two newer that disagree on a migration, one  *)
(* of them with other settings.                                            *)
MCReplicas == {"r1", "r2", "r3"}
MCStreams == <<"deliveries", "callbacks">>
MCSettings == [r \in MCReplicas |-> IF r = "r3" THEN "long" ELSE "short"]
MCItems == ("r1" :> <<"a">>) @@ ("r2" :> <<"a", "b">>) @@ ("r3" :> <<"a", "c">>)

U == INSTANCE Startup WITH
  Replicas <- MCReplicas, Streams <- MCStreams, Settings <- MCSettings, Items <- MCItems

MCObservations == {"o1", "o2", "o3"}

D == INSTANCE Dashboard WITH
  Observations <- MCObservations, Capacity <- 1, Attempts <- 2, Skew <- 1, Horizon <- 4,
  now <- minute

-----------------------------------------------------------------------------
Components ==
  {"functions", "publication", "applications", "registry", "sessions", "migration", "startup",
   "dashboard"}

PlatformInit ==
  /\ which \in Components
  /\ Init /\ P!Init /\ A!Init /\ R!Init /\ S!Init /\ M!Init /\ U!Init /\ D!Init
  /\ which # "publication" => \A t \in MCTargets : subscription[t].window = 0
  /\ which # "applications" =>
       \A e \in MCEditors : updates[e].patch = CHOOSE p \in A!Patches : TRUE

(* The other components stay as they are. *)
Alone ==
  /\ UNCHANGED which
  /\ IF which = "functions" THEN TRUE ELSE UNCHANGED vars
  /\ IF which = "publication" THEN TRUE ELSE UNCHANGED publicationVars
  /\ IF which = "applications" THEN TRUE ELSE UNCHANGED applicationVars
  /\ IF which = "registry" THEN TRUE ELSE UNCHANGED registryVars
  /\ IF which = "sessions" THEN TRUE ELSE UNCHANGED sessionVars
  /\ IF which = "migration" THEN TRUE ELSE UNCHANGED migrationVars
  /\ IF which = "startup" THEN TRUE ELSE UNCHANGED startupVars
  /\ IF which = "dashboard" THEN TRUE ELSE UNCHANGED dashboardVars

PlatformNext ==
  /\ \/ which = "functions" /\ Next
     \/ which = "publication" /\ P!Next
     \/ which = "applications" /\ A!Next
     \/ which = "registry" /\ R!Next
     \/ which = "sessions" /\ S!Next
     \/ which = "migration" /\ M!Next
     \/ which = "startup" /\ U!Next
     \/ which = "dashboard" /\ D!Next
  /\ Alone

all ==
  <<which, vars, publicationVars, applicationVars, registryVars, sessionVars, migrationVars,
    startupVars, dashboardVars>>

PlatformSpec == PlatformInit /\ [][PlatformNext]_all

-----------------------------------------------------------------------------
(* A publication takes effect once, and as it is answered: requests with   *)
(* one idempotency key store one event while its answer is kept, within a  *)
(* window a deduplication key is queued once, and the stored answer        *)
(* announces the callbacks that were stored.                               *)
PublishedOnce == which = "publication" => P!PublishedOnce

(* However updates overlap, the callback endpoint agrees with its          *)
(* application, an application that wants callbacks has a URL, only the    *)
(* latest credential is valid, and an update changes what it was asked to. *)
EndpointAgrees ==
  /\ [](which = "applications" =>
         A!TypeOK /\ A!EndpointAgrees /\ A!CallbacksHaveUrl /\ A!LatestCredentialIsValid)
  /\ A!OnlyPatchedFields

(* A process that was replaced neither takes the record back nor removes   *)
(* it from its successor.                                                  *)
SuccessorKeepsRecord == [](which = "registry" => R!TypeOK) /\ R!SuccessorKeepsRecord

(* When the revocation after a change of the password has returned, the    *)
(* user's sessions from before are gone, but for those that a login or a   *)
(* refresh was writing while it ran; and no session outlives its absolute  *)
(* time.                                                                   *)
RevocationIsComplete == which = "sessions" => S!RevocationIsComplete

(* What a migration commits hangs together however the source changes, and *)
(* a last run against a source at rest brings everything over.             *)
CopyAgrees == which = "migration" => M!CopyAgrees

(* A replica starts serving only on the schema and the streams its binary  *)
(* and its settings ask for, whoever else starts at the time.              *)
StartsOnItsSchema == [](which = "startup" => U!TypeOK) /\ U!StartsOnItsSchema

(* Every observation is waiting, counted once, in the minute in which it   *)
(* is counted, or reported as failed, and a chart shows every minute in    *)
(* the bucket whose label it falls under.                                  *)
NothingLostInSilence ==
  /\ [](which = "dashboard" =>
         /\ D!TypeOK /\ D!NothingLostInSilence
         /\ D!Init => D!BucketsCover(100000..100060, {<<5, 1>>, <<60, 5>>, <<360, 15>>}))
  /\ D!PastIsFixed
=============================================================================
