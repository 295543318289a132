------------------------------- MODULE Startup -------------------------------
(***************************************************************************)
(* Replicas that start at the same time, perhaps from different binaries   *)
(* and with different settings.  Each one first compares the streams with  *)
(* its settings and creates the missing ones (broker/nats/bootstrap.go),   *)
(* then applies the migrations it embeds to the shared schema              *)
(* (store/postgres/client.go).  Only PostgreSQL's advisory lock and the    *)
(* transactions stand between them.                                        *)
(***************************************************************************)
EXTENDS Naturals, Sequences

CONSTANTS
  Replicas, None,
  Streams,     \* the sequence of streams
  Settings,    \* [Replicas -> settings of the streams]
  Items        \* [Replicas -> sequence of migrations, each by its checksum]

VARIABLES
  stream,    \* [name -> settings or None]
  ledger,    \* schema_migrations: [version -> checksum or None]
  schema,    \* the migrations whose SQL has taken effect, in order
  lock,      \* holder of the advisory lock
  replica    \* [pc, next: the stream or migration it has come to]

vars == <<stream, ledger, schema, lock, replica>>

Versions == UNION {DOMAIN Items[r] : r \in Replicas}

Names == {Streams[i] : i \in DOMAIN Streams}

Init ==
  /\ stream = [s \in Names |-> None]
  /\ ledger = [v \in Versions |-> None] /\ schema = <<>> /\ lock = None
  /\ replica = [r \in Replicas |-> [pc |-> "down", next |-> 1]]

Goes(r, pc, n) == replica' = [replica EXCEPT ![r] = [pc |-> pc, next |-> n]]

At(r, pc) == replica[r].pc = pc

-----------------------------------------------------------------------------
(* Bootstrap *)
Start(r) == At(r, "down") /\ Goes(r, "streams", 1) /\ UNCHANGED <<stream, ledger, schema, lock>>

Bootstrapped(r) ==
  IF replica[r].next = Len(Streams) THEN Goes(r, "lock", 1) ELSE Goes(r, "streams", replica[r].next + 1)

InspectStream(r) ==
  LET found == stream[Streams[replica[r].next]]
  IN /\ At(r, "streams")
     /\ CASE found = None        -> Goes(r, "create", replica[r].next)
          [] found = Settings[r] -> Bootstrapped(r)
          [] OTHER               -> Goes(r, "down", 1)           \* ErrUnsafeStreamConfig
     /\ UNCHANGED <<stream, ledger, schema, lock>>

(* The broker creates a stream that exists only if the settings agree. *)
Creatable(r, s) == stream[s] \in {None, Settings[r]}

CreateStream(r) ==
  LET s == Streams[replica[r].next]
  IN /\ At(r, "create")
     /\ IF Creatable(r, s)
        THEN stream' = [stream EXCEPT ![s] = Settings[r]] /\ Bootstrapped(r)
        ELSE Goes(r, "down", 1) /\ UNCHANGED stream
     /\ UNCHANGED <<ledger, schema, lock>>

-----------------------------------------------------------------------------
(* Migrate *)
MayLock(r) == lock = None

Lock(r) ==
  /\ At(r, "lock") /\ MayLock(r) /\ lock' = r /\ Goes(r, "ledger", 1)
  /\ UNCHANGED <<stream, ledger, schema>>

(* A version this binary does not know ends the start.  The lock is        *)
(* released in a deferred call.                                            *)
\* mutant of Newer: a binary starts on any schema
NewerNever(r) == FALSE

Newer(r) == \E v \in Versions : v > Len(Items[r]) /\ ledger[v] # None

Return(r, pc) == lock' = (IF lock = r THEN None ELSE lock) /\ Goes(r, pc, 1)

InspectLedger(r) ==
  /\ At(r, "ledger")
  /\ IF Newer(r) THEN Return(r, "down") ELSE Goes(r, "read", 1) /\ UNCHANGED lock
  /\ UNCHANGED <<stream, ledger, schema>>

ReadMigration(r) ==
  LET v == replica[r].next
  IN /\ At(r, "read") /\ v <= Len(Items[r])
     /\ CASE ledger[v] = None        -> Goes(r, "apply", v) /\ UNCHANGED lock
          [] ledger[v] = Items[r][v] -> Goes(r, "read", v + 1) /\ UNCHANGED lock
          [] OTHER                   -> Return(r, "down")       \* checksum changed
     /\ UNCHANGED <<stream, ledger, schema>>

(* applyMigration: the SQL and its row in the ledger are one transaction,  *)
(* which the primary key of the ledger lets happen once.  Its end may stay *)
(* unknown to the process.                                                 *)
Applied(r) ==
  LET v == replica[r].next
  IN /\ ledger[v] = None
     /\ ledger' = [ledger EXCEPT ![v] = Items[r][v]]
     /\ schema' = Append(schema, Items[r][v])

ApplyMigration(r) ==
  /\ At(r, "apply") /\ Applied(r) /\ Goes(r, "read", replica[r].next + 1)
  /\ UNCHANGED <<stream, lock>>

Undone(r) == UNCHANGED <<ledger, schema>>

ApplyFails(r) ==
  /\ At(r, "apply") /\ (Undone(r) \/ Applied(r)) /\ Return(r, "down") /\ UNCHANGED stream

Migrated(r) ==
  /\ At(r, "read") /\ replica[r].next > Len(Items[r]) /\ Return(r, "serving")
  /\ UNCHANGED <<stream, ledger, schema>>

(* The process ends, by an error or otherwise: PostgreSQL releases the     *)
(* lock with the connection.                                               *)
Die(r) ==
  /\ ~At(r, "down") /\ Return(r, "down") /\ UNCHANGED <<stream, ledger, schema>>

ReplicaStep(r) ==
  \/ Start(r) \/ InspectStream(r) \/ CreateStream(r)
  \/ Lock(r) \/ InspectLedger(r) \/ ReadMigration(r) \/ ApplyMigration(r) \/ ApplyFails(r)
  \/ Migrated(r) \/ Die(r)

Next == \E r \in Replicas : ReplicaStep(r)

Spec == Init /\ [][Next]_vars

-----------------------------------------------------------------------------
TypeOK ==
  /\ stream \in [Names -> {Settings[r] : r \in Replicas} \cup {None}]
  /\ lock \in Replicas \cup {None}
  /\ \A r \in Replicas :
       replica[r].pc \in {"down", "streams", "create", "lock", "ledger", "read", "apply", "serving"}

(* A replica starts serving only when every stream has its settings and    *)
(* the schema is exactly the one its binary was built for: each migration  *)
(* took effect once, in order, whoever applied it, and no newer binary has *)
(* changed the schema since it was inspected.                              *)
StartsOnItsSchema ==
  [][\A r \in Replicas : ~At(r, "serving") /\ replica'[r].pc = "serving" =>
       schema = Items[r] /\ \A s \in Names : stream[s] = Settings[r]]_vars
=============================================================================
