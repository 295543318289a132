----------------------------- MODULE QueueAdmin -----------------------------
(***************************************************************************)
(* service/queue.go over store/postgres/queue_v2.go: concurrent owners     *)
(* read the subscription and write the whole row back, with nothing but    *)
(* the version in between.  Update carries the version its caller saw in   *)
(* an earlier answer, Pause the one it has just read.                      *)
(***************************************************************************)
EXTENDS Integers

CONSTANTS Policies, MaxVersion, Owners

VARIABLES
  stored,  \* the row
  owner    \* per owner: the call in progress, and the last version it was shown

vars == <<stored, owner>>

Sub == INSTANCE QueueSubscription WITH subscription <- stored

Idle(o) == owner[o].call = "none"

Init ==
  /\ Sub!CreateQueueSubscription
  /\ owner = [o \in Owners |-> [call |-> "none", expected |-> 1, row |-> stored]]

(* GetQueueSubscription by a call of its own: the owner learns the version. *)
Get(o) ==
  /\ Idle(o) /\ stored.exists
  /\ owner' = [owner EXCEPT ![o].expected = stored.version]
  /\ UNCHANGED stored

(* Update reads the row; the caller's version decides later. *)
UpdateRead(o) ==
  /\ Idle(o) /\ stored.exists
  /\ \E p \in Policies, enabled \in BOOLEAN :
       owner' = [owner EXCEPT ![o] =
         [call |-> "write", expected |-> @.expected,
          row |-> [stored EXCEPT !.policy = p, !.enabled = enabled,
                                 !.paused = stored.paused /\ enabled]]]
  /\ UNCHANGED stored

(* Pause and resume read the row and the version they write with. *)
PauseRead(o) ==
  /\ Idle(o) /\ stored.exists
  /\ \E paused \in BOOLEAN :
       /\ paused => stored.enabled
       /\ owner' = [owner EXCEPT ![o] =
            [call |-> "write", expected |-> stored.version,
             row |-> [stored EXCEPT !.paused = paused]]]
  /\ UNCHANGED stored

Unchanged(o) == stored.exists /\ stored.version = owner[o].expected

(* Every column except the drain's is written; a refused write tells the   *)
(* owner nothing, a successful one returns the row.                        *)
UpdateQueueSubscription(o) ==
  /\ owner[o].call = "write"
  /\ \/ /\ Unchanged(o)
        /\ stored.version < MaxVersion
        /\ stored' = [owner[o].row EXCEPT !.draining = stored.draining, !.drained = stored.drained,
                                          !.version = stored.version + 1]
        /\ owner' = [owner EXCEPT ![o].call = "none", ![o].expected = stored.version + 1]
     \/ /\ ~Unchanged(o)
        /\ owner' = [owner EXCEPT ![o].call = "none"]
        /\ UNCHANGED stored

BeginQueueDrain ==
  /\ Sub!BeginQueueDrain
  /\ UNCHANGED owner

CompleteDrain ==
  /\ Sub!CompleteDrain
  /\ UNCHANGED owner

DeleteQueueSubscription ==
  /\ Sub!DeleteQueueSubscription
  /\ UNCHANGED owner

Next ==
  \/ \E o \in Owners : Get(o) \/ UpdateRead(o) \/ PauseRead(o) \/ UpdateQueueSubscription(o)
  \/ BeginQueueDrain \/ CompleteDrain \/ DeleteQueueSubscription

Spec == Init /\ [][Next]_vars

(* Concurrent read-modify-write calls behave like atomic ones: no pause,   *)
(* resume, drain or policy change that was accepted is lost.               *)
ImplementsAtomicUpdates == Sub!SubscriptionSpec
=============================================================================
