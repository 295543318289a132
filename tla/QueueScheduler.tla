--------------------------- MODULE QueueScheduler ---------------------------
(***************************************************************************)
(* service/queue_schedule.go over store/postgres/queue_scheduler.go: cron  *)
(* schedules of one queue subscription and the scheduler replicas that run *)
(* them.  A replica claims due schedules in a batch and completes them one *)
(* by one; an owner reads the clock, computes the next run and writes the  *)
(* schedule later, fenced by a version that runs do not change.            *)
(*                                                                         *)
(* A cron expression is its period: it fires at the multiples of it.  Runs *)
(* after Horizon are not looked at: the clock stops there, claims do not.  *)
(***************************************************************************)
EXTENDS Integers, FiniteSets

CONSTANTS
  Schedules,   \* schedules of the subscription
  Replicas,    \* scheduler processes
  Tokens,      \* claim tokens (random in the code)
  None,        \* SQL NULL
  Periods,     \* cron expressions
  Horizon,     \* bound: last instant of the clock
  ClaimTime,   \* duration of a claim (15 seconds in the code)
  BatchSize,   \* schedules per claim (32 in the code)
  MaxVersion,  \* bound: updates of a schedule
  MaxErrors    \* bound: crashes and store errors

VARIABLES
  now,        \* the clock
  accepting,  \* the subscription is enabled, not paused and not draining
  schedule,   \* queue_schedules
  enqueued,   \* history: deliveries inserted for every schedule and instant
  replica,    \* local state of every replica
  editor,     \* an update that has computed its next run
  errors      \* crashes so far

vars == <<now, accepting, schedule, enqueued, replica, editor, errors>>

LastPeriod == CHOOSE p \in Periods : \A q \in Periods : q <= p
Instants == 0..(Horizon + LastPeriod)

(* cron.Schedule.Next: the first time after t *)
NextAfter(period, t) == (t \div period + 1) * period

(* since: the clock reading from which nextRun was first computed *)
ScheduleRows ==
  [exists : BOOLEAN, enabled : BOOLEAN, period : Periods, nextRun : Instants, since : Instants,
   claim : Tokens \cup {None}, claimIn : 0..ClaimTime, version : 1..MaxVersion]

Claims == [of : Schedules, token : Tokens, at : Instants, period : Periods]
Edits == [of : Schedules, version : 1..MaxVersion, enabled : BOOLEAN, period : Periods, from : Instants]

Row(enabled, period, from, version) ==
  [exists |-> TRUE, enabled |-> enabled, period |-> period, nextRun |-> NextAfter(period, from),
   since |-> from, claim |-> None, claimIn |-> 0, version |-> version]

(* CreateSchedule, at the start of the clock *)
Init ==
  /\ now = 0 /\ accepting = TRUE /\ errors = 0
  /\ schedule \in [Schedules -> {Row(TRUE, p, 0, 1) : p \in Periods}]
  /\ enqueued = [run \in Schedules \X Instants |-> 0]
  /\ replica = [r \in Replicas |-> {}]
  /\ editor = {}

FreshTokens ==
  Tokens \ ({schedule[s].claim : s \in Schedules} \cup
            {c.token : c \in UNION {replica[r] : r \in Replicas}})

Due(s) ==
  /\ schedule[s].exists /\ schedule[s].enabled /\ schedule[s].nextRun <= now
  /\ schedule[s].claim = None \/ schedule[s].claimIn = 0

(* Rows that others are claiming are skipped, so any batch may come back. *)
ClaimDueQueueSchedules(r) ==
  /\ replica[r] = {} /\ accepting
  /\ \E token \in FreshTokens, due \in SUBSET {s \in Schedules : Due(s)} :
       /\ due # {} /\ Cardinality(due) <= BatchSize
       /\ schedule' = [s \in Schedules |->
            IF s \in due THEN [schedule[s] EXCEPT !.claim = token, !.claimIn = ClaimTime]
            ELSE schedule[s]]
       /\ replica' = [replica EXCEPT ![r] =
            {[of |-> s, token |-> token, at |-> schedule[s].nextRun, period |-> schedule[s].period] :
               s \in due}]
  /\ UNCHANGED <<now, accepting, enqueued, editor, errors>>

(* The claim stands and the schedule still waits for the occurrence. *)
Stands(c) ==
  schedule[c.of].exists /\ schedule[c.of].claim = c.token /\ schedule[c.of].nextRun = c.at

\* mutant of IsNew: the table of occurrences is not consulted
AlwaysNew(s, at) == TRUE

IsNew(s, at) == enqueued[<<s, at>>] = 0

Following(c) == NextAfter(c.period, c.at)

(* The loop of runOnce: a conflict abandons the rest of the batch.  Neither *)
(* the state of the subscription nor enabled is looked at again.            *)
CompleteQueueSchedule(r) ==
  /\ \E c \in replica[r] :
       \/ /\ Stands(c)
          /\ enqueued' = IF IsNew(c.of, c.at) THEN [enqueued EXCEPT ![<<c.of, c.at>>] = @ + 1] ELSE enqueued
          /\ schedule' = [schedule EXCEPT ![c.of] =
               [@ EXCEPT !.nextRun = Following(c), !.claim = None, !.claimIn = 0]]
          /\ replica' = [replica EXCEPT ![r] = @ \ {c}]
       \/ /\ ~Stands(c)
          /\ replica' = [replica EXCEPT ![r] = {}]
          /\ UNCHANGED <<schedule, enqueued>>
  /\ UNCHANGED <<now, accepting, editor, errors>>

(* The process dies, or a store call fails: the batch is forgotten. *)
Crash(r) ==
  /\ errors < MaxErrors /\ replica[r] # {}
  /\ errors' = errors + 1
  /\ replica' = [replica EXCEPT ![r] = {}]
  /\ UNCHANGED <<now, accepting, schedule, enqueued, editor>>

(* UpdateSchedule up to its statement: the clock is read here. *)
ReadClock ==
  /\ editor = {}
  /\ \E s \in Schedules, enabled \in BOOLEAN, period \in Periods :
       /\ schedule[s].exists /\ schedule[s].version < MaxVersion
       /\ editor' = {[of |-> s, version |-> schedule[s].version, enabled |-> enabled,
                      period |-> period, from |-> now]}
  /\ UNCHANGED <<now, accepting, schedule, enqueued, replica, errors>>

(* The statement is fenced by the version, and takes the claim away. *)
UpdateQueueSchedule ==
  /\ \E e \in editor :
       schedule' = IF schedule[e.of].exists /\ schedule[e.of].version = e.version
                   THEN [schedule EXCEPT ![e.of] = Row(e.enabled, e.period, e.from, e.version + 1)]
                   ELSE schedule
  /\ editor' = {}
  /\ UNCHANGED <<now, accepting, enqueued, replica, errors>>

DeleteQueueSchedule(s) ==
  /\ schedule[s].exists
  /\ schedule' = [schedule EXCEPT ![s].exists = FALSE, ![s].claim = None, ![s].claimIn = 0]
  /\ UNCHANGED <<now, accepting, enqueued, replica, editor, errors>>

(* Pause, resume, update and drain of the subscription. *)
SwitchSubscription ==
  /\ accepting' = ~accepting
  /\ UNCHANGED <<now, schedule, enqueued, replica, editor, errors>>

Tick ==
  /\ now' = IF now < Horizon THEN now + 1 ELSE now
  /\ schedule' = [s \in Schedules |->
       [schedule[s] EXCEPT !.claimIn = IF @ > 0 THEN @ - 1 ELSE 0]]
  /\ <<now', schedule'>> # <<now, schedule>>
  /\ UNCHANGED <<accepting, enqueued, replica, editor, errors>>

Run(r) == ClaimDueQueueSchedules(r) \/ CompleteQueueSchedule(r)

Next ==
  \/ \E r \in Replicas : Run(r) \/ Crash(r)
  \/ \E s \in Schedules : DeleteQueueSchedule(s)
  \/ ReadClock \/ UpdateQueueSchedule
  \/ SwitchSubscription
  \/ Tick

Spec == Init /\ [][Next]_vars

(* Run polls on a ticker for as long as the process lives and time passes. *)
(* Completing takes milliseconds and a claim 15 seconds: a replica that     *)
(* claims again and again is not late every time.                           *)
CompleteInTime(r) == (\E c \in replica[r] : Stands(c)) /\ CompleteQueueSchedule(r)

FairSpec ==
  /\ Spec
  /\ WF_vars(Tick)
  /\ \A r \in Replicas : WF_vars(Run(r)) /\ SF_vars(CompleteInTime(r))

-----------------------------------------------------------------------------
TypeOK ==
  /\ now \in 0..Horizon /\ accepting \in BOOLEAN /\ errors \in 0..MaxErrors
  /\ schedule \in [Schedules -> ScheduleRows]
  /\ enqueued \in [Schedules \X Instants -> Nat]
  /\ replica \in [Replicas -> SUBSET Claims]
  /\ editor \in SUBSET Edits

(* No instant of a schedule is enqueued twice, even when a slow update     *)
(* moves the schedule back to an instant that has been run since it read   *)
(* the clock.                                                              *)
EachRunOnce == \A run \in Schedules \X Instants : enqueued[run] <= 1

(* Between the clock reading of the last update and the next run, every    *)
(* instant of the cron expression has been enqueued: crashes, lost claims  *)
(* and pauses delay runs and skip none.                                    *)
NoneSkipped ==
  \A s \in Schedules, t \in Instants :
    LET row == schedule[s] IN
      row.exists /\ row.since < t /\ t < row.nextRun /\ t % row.period = 0 => enqueued[<<s, t>>] > 0

(* A due run is enqueued, unless the schedule is changed or the            *)
(* subscription stops accepting work.                                      *)
DueIsRun ==
  \A s \in Schedules :
    []<>(\/ schedule[s].nextRun > now
         \/ ~schedule[s].enabled \/ ~schedule[s].exists \/ ~accepting)
=============================================================================
