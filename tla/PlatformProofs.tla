--------------------------- MODULE PlatformProofs ---------------------------
(***************************************************************************)
(* What is proved of six components around the delivery paths, which share *)
(* no state.                                                               *)
(*                                                                         *)
(* Any number of owners that read a subscription and write it back behave  *)
(* as if each change were one atomic step.  The version a write expects is *)
(* at most the version of the row it has read, which is at most the stored *)
(* one.  If the stored version is still the expected one, all three are the*)
(* same; and two rows of one version differ at most in whether the drain is*)
(* complete, which the write leaves alone.                                 *)
(*                                                                         *)
(* Every run of a schedule is enqueued once and none is skipped (S), a     *)
(* revocation leaves no session of its user (U), an application agrees with*)
(* its endpoint and its credentials (A), a successor keeps the record of   *)
(* its instance (R), and a process closes its stores after their last use  *)
(* (D), for any values of the constants that the hypotheses allow.         *)
(***************************************************************************)
EXTENDS QueueAdmin, Sequences, TLAPS

-----------------------------------------------------------------------------
(* QueueAdmin *)

Rows ==
  [exists : BOOLEAN, enabled : BOOLEAN, paused : BOOLEAN, draining : BOOLEAN, drained : BOOLEAN,
   policy : Policies, version : Nat]

(* What an owner may make of a row. *)
Updated(s, p, enabled) ==
  [s EXCEPT !.policy = p, !.enabled = enabled, !.paused = s.paused /\ enabled]
Switched(s, paused) == [s EXCEPT !.paused = paused]

(* The columns that a write sets. *)
Agrees(row, edit) ==
  /\ row.exists = edit.exists /\ row.enabled = edit.enabled
  /\ row.paused = edit.paused /\ row.policy = edit.policy

EditOf(row, s) ==
  \/ \E p \in Policies, enabled \in BOOLEAN : Agrees(row, Updated(s, p, enabled))
  \/ \E paused \in BOOLEAN : (paused => s.enabled) /\ Agrees(row, Switched(s, paused))

PendingSound(o) ==
  /\ owner[o].expected <= owner[o].row.version
  /\ owner[o].row.version <= stored.version
  /\ owner[o].row.version = stored.version /\ stored.exists => EditOf(owner[o].row, stored)

AdminInv ==
  /\ stored \in Rows
  /\ owner \in [Owners -> [call : {"none", "write"}, expected : Nat, row : Rows]]
  /\ \A o \in Owners : owner[o].expected <= stored.version
  /\ \A o \in Owners : owner[o].call = "write" => PendingSound(o)

-----------------------------------------------------------------------------
LEMMA UpdatedFields ==
  ASSUME NEW s \in Rows, NEW p \in Policies, NEW enabled \in BOOLEAN
  PROVE  LET new == Updated(s, p, enabled) IN
           /\ new \in Rows
           /\ new.exists = s.exists /\ new.version = s.version
           /\ new.draining = s.draining /\ new.drained = s.drained
<1>1. s.paused \in BOOLEAN
  BY Zenon DEF Rows
<1>2. (s.paused /\ enabled) \in BOOLEAN
  BY Zenon, <1>1
<1>3. Updated(s, p, enabled) \in Rows
  BY <1>2, Zenon DEF Updated, Rows
<1>4. LET new == Updated(s, p, enabled) IN
        /\ new.exists = s.exists /\ new.version = s.version
        /\ new.draining = s.draining /\ new.drained = s.drained
  BY Zenon DEF Updated, Rows
<1> QED BY Zenon, <1>3, <1>4

LEMMA SwitchedFields ==
  ASSUME NEW s \in Rows, NEW paused \in BOOLEAN
  PROVE  LET new == Switched(s, paused) IN
           /\ new \in Rows
           /\ new.exists = s.exists /\ new.version = s.version
           /\ new.draining = s.draining /\ new.drained = s.drained
<1>1. Switched(s, paused) \in Rows
  BY Zenon DEF Switched, Rows
<1>2. LET new == Switched(s, paused) IN
        /\ new.exists = s.exists /\ new.version = s.version
        /\ new.draining = s.draining /\ new.drained = s.drained
  BY Zenon DEF Switched, Rows
<1> QED BY Zenon, <1>1, <1>2

(* Whether the drain is complete makes no difference to an edit. *)
LEMMA EditsIgnoreDrained ==
  ASSUME NEW s \in Rows, NEW t \in Rows, NEW row,
         s.exists = t.exists, s.enabled = t.enabled, s.paused = t.paused, s.policy = t.policy,
         EditOf(row, s)
  PROVE  EditOf(row, t)
<1>1. ASSUME NEW p \in Policies, NEW enabled \in BOOLEAN, Agrees(row, Updated(s, p, enabled))
      PROVE  Agrees(row, Updated(t, p, enabled))
  BY Zenon, <1>1 DEF Agrees, Updated, Rows
<1>2. ASSUME NEW paused \in BOOLEAN, Agrees(row, Switched(s, paused))
      PROVE  Agrees(row, Switched(t, paused))
  BY Zenon, <1>2 DEF Agrees, Switched, Rows
<1> QED BY Zenon, <1>1, <1>2 DEF EditOf

LEMMA AdminInit == Init => AdminInv
<1> HAVE Init
<1>1. PICK p \in Policies, enabled \in BOOLEAN :
        stored = [exists |-> TRUE, enabled |-> enabled, paused |-> FALSE, draining |-> FALSE,
                  drained |-> FALSE, policy |-> p, version |-> 1]
  BY Zenon DEF Init, Sub!CreateQueueSubscription
<1>2. stored \in Rows /\ stored.version = 1
  BY Zenon, <1>1 DEF Rows
<1>3. \A o \in Owners : owner[o] = [call |-> "none", expected |-> 1, row |-> stored]
  BY Zenon DEF Init
<1>4. owner \in [Owners -> [call : {"none", "write"}, expected : Nat, row : Rows]]
  BY Zenon, <1>2 DEF Init
<1> QED BY <1>2, <1>3, <1>4 DEF AdminInv

-----------------------------------------------------------------------------
(* The row moves on: a later version, or deleted, or the drain complete. *)
MovesOn ==
  /\ stored' \in Rows
  /\ stored'.version >= stored.version
  /\ \/ stored'.version > stored.version
     \/ ~stored'.exists
     \/ /\ stored'.exists = stored.exists /\ stored'.enabled = stored.enabled
        /\ stored'.paused = stored.paused /\ stored'.policy = stored.policy

LEMMA PendingStaysSound ==
  ASSUME AdminInv, MovesOn, NEW o \in Owners, owner'[o] = owner[o]
  PROVE  /\ owner'[o].expected <= stored'.version
         /\ owner'[o].call = "write" => PendingSound(o)'
<1>1. /\ stored \in Rows /\ stored' \in Rows /\ stored.version \in Nat /\ stored'.version \in Nat
      /\ owner[o].expected \in Nat /\ owner[o].row \in Rows /\ owner[o].row.version \in Nat
  BY Zenon DEF AdminInv, MovesOn, Rows
<1>2. owner'[o].expected <= stored'.version
  BY <1>1 DEF AdminInv, MovesOn
<1>3. ASSUME owner[o].call = "write" PROVE PendingSound(o)'
  <2>1. PendingSound(o)
    BY Zenon, <1>3 DEF AdminInv
  <2>2. owner[o].row.version <= stored'.version
    BY <1>1, <2>1 DEF PendingSound, MovesOn
  <2>3. ASSUME owner[o].row.version = stored'.version, stored'.exists
        PROVE  EditOf(owner[o].row, stored')
    <3>1. stored'.version >= stored.version /\ owner[o].row.version <= stored.version
      BY <2>1, Zenon DEF PendingSound, MovesOn
    <3>2. owner[o].row.version = stored.version /\ ~(stored'.version > stored.version)
      BY <1>1, <2>3, <3>1
    <3>3. /\ owner[o].row.version = stored.version
          /\ stored'.exists = stored.exists /\ stored'.enabled = stored.enabled
          /\ stored'.paused = stored.paused /\ stored'.policy = stored.policy
      BY <2>3, <3>2, Zenon DEF MovesOn
    <3>4. EditOf(owner[o].row, stored)
      BY Zenon, <2>1, <2>3, <3>3 DEF PendingSound
    <3> QED BY Zenon, <1>1, <3>3, <3>4, EditsIgnoreDrained
  <2>4. owner[o].expected <= owner[o].row.version
    BY Zenon, <2>1 DEF PendingSound
  <2> QED BY <2>2, <2>3, <2>4, EditsIgnoreDrained DEF PendingSound, EditOf, Agrees, Updated, Switched
<1> QED BY Zenon, <1>2, <1>3

(* Steps of the subscription itself. *)
LEMMA DrainMovesOn ==
  ASSUME AdminInv, BeginQueueDrain \/ CompleteDrain \/ DeleteQueueSubscription
  PROVE  MovesOn
<1>1. stored \in Rows /\ stored.version \in Nat
  BY Zenon DEF AdminInv, Rows
<1>2. CASE BeginQueueDrain
  <2> DEFINE changed == [stored EXCEPT !.draining = TRUE]
             new == [changed EXCEPT !.version = changed.version + 1]
  <2>1. stored' = new
    BY Zenon, <1>2 DEF BeginQueueDrain, Sub!BeginQueueDrain, Sub!Revise
  <2>2. changed \in Rows
    BY <1>1, Zenon DEF Rows
  <2>3. changed.version = stored.version
    BY Zenon, <1>1 DEF Rows
  <2> HIDE DEF changed
  <2>4. changed.version + 1 \in Nat
    BY <1>1, <2>3
  <2>5. new \in Rows
    BY <2>2, <2>4, Zenon DEF Rows
  <2>6. new.version = stored.version + 1
    BY Zenon, <2>2, <2>3 DEF Rows
  <2> QED BY <1>1, <2>1, <2>5, <2>6 DEF MovesOn
<1>3. CASE CompleteDrain
  <2>1. stored' = [stored EXCEPT !.drained = TRUE]
    BY Zenon, <1>3 DEF CompleteDrain, Sub!CompleteDrain
  <2>2. stored' \in Rows
    BY <1>1, <2>1, Zenon DEF Rows
  <2>3. /\ stored'.version = stored.version
        /\ stored'.exists = stored.exists /\ stored'.enabled = stored.enabled
        /\ stored'.paused = stored.paused /\ stored'.policy = stored.policy
    BY Zenon, <1>1, <2>1 DEF Rows
  <2> QED BY <1>1, <2>2, <2>3 DEF MovesOn
<1>4. CASE DeleteQueueSubscription
  <2>1. stored' = [stored EXCEPT !.exists = FALSE]
    BY Zenon, <1>4 DEF DeleteQueueSubscription, Sub!DeleteQueueSubscription
  <2>2. stored' \in Rows
    BY <1>1, <2>1, Zenon DEF Rows
  <2>3. stored'.version = stored.version /\ ~stored'.exists
    BY Zenon, <1>1, <2>1 DEF Rows
  <2> QED BY <1>1, <2>2, <2>3 DEF MovesOn
<1> QED BY Zenon, <1>2, <1>3, <1>4

(* A write that is accepted is an atomic change of the stored row. *)
LEMMA WriteIsAtomic ==
  ASSUME AdminInv, NEW o \in Owners, UpdateQueueSubscription(o), Unchanged(o)
  PROVE  Sub!Administer /\ MovesOn /\ stored'.version = stored.version + 1
<1> DEFINE row == owner[o].row
           kept == [row EXCEPT !.draining = stored.draining, !.drained = stored.drained]
           new == [kept EXCEPT !.version = stored.version + 1]
<1>1. /\ stored.exists /\ stored.version < MaxVersion /\ stored' = new
  BY Zenon DEF UpdateQueueSubscription, Unchanged
<1>2. stored \in Rows /\ stored.version \in Nat /\ row \in Rows /\ row.version \in Nat
  BY Zenon DEF AdminInv, Rows
<1>3. PendingSound(o) /\ owner[o].expected = stored.version /\ owner[o].expected \in Nat
  BY Zenon DEF AdminInv, UpdateQueueSubscription, Unchanged
<1>4. EditOf(row, stored)
  BY <1>1, <1>2, <1>3 DEF PendingSound
<1>5. stored.draining \in BOOLEAN /\ stored.drained \in BOOLEAN
  BY <1>2, Zenon DEF Rows
<1> HIDE DEF row
<1>6. kept \in Rows
  BY <1>2, <1>5, Zenon DEF Rows
<1>7. /\ kept.exists = row.exists /\ kept.enabled = row.enabled /\ kept.paused = row.paused
      /\ kept.policy = row.policy /\ kept.draining = stored.draining /\ kept.drained = stored.drained
  BY Zenon, <1>2 DEF Rows
<1> HIDE DEF kept
<1>8. stored.version + 1 \in Nat
  BY <1>2
<1>9. new \in Rows
  BY <1>6, <1>8, Zenon DEF Rows
<1>10. /\ new.exists = row.exists /\ new.enabled = row.enabled /\ new.paused = row.paused
       /\ new.policy = row.policy /\ new.draining = stored.draining /\ new.drained = stored.drained
       /\ new.version = stored.version + 1
  BY Zenon, <1>6, <1>7 DEF Rows
<1> HIDE DEF new
<1>11. ASSUME NEW edit \in Rows, Agrees(row, edit), edit.version = stored.version,
              edit.draining = stored.draining, edit.drained = stored.drained
       PROVE  stored' = [edit EXCEPT !.version = edit.version + 1]
  <2> DEFINE next == [edit EXCEPT !.version = edit.version + 1]
  <2>1. next \in Rows
    BY <1>8, <1>11, Zenon DEF Rows
  <2>2. /\ next.exists = edit.exists /\ next.enabled = edit.enabled /\ next.paused = edit.paused
        /\ next.policy = edit.policy /\ next.draining = edit.draining /\ next.drained = edit.drained
        /\ next.version = stored.version + 1
    BY Zenon, <1>11 DEF Rows
  <2> HIDE DEF next
  <2>3. new = next
    BY <1>9, <1>10, <1>11, <2>1, <2>2 DEF Rows, Agrees
  <2> QED BY Zenon, <1>1, <2>3 DEF next
<1>12. ASSUME NEW p \in Policies, NEW enabled \in BOOLEAN, Agrees(row, Updated(stored, p, enabled))
       PROVE  Sub!Update(p, enabled)
  <2>1. stored' = [Updated(stored, p, enabled) EXCEPT !.version = Updated(stored, p, enabled).version + 1]
    BY <1>2, <1>11, <1>12, UpdatedFields
  <2> QED BY Zenon, <1>1, <2>1 DEF Updated, Sub!Update, Sub!Revise
<1>13. ASSUME NEW paused \in BOOLEAN, paused => stored.enabled, Agrees(row, Switched(stored, paused))
       PROVE  Sub!Pause(paused)
  <2>1. stored' = [Switched(stored, paused) EXCEPT !.version = Switched(stored, paused).version + 1]
    BY Zenon, <1>2, <1>11, <1>13, SwitchedFields
  <2> QED BY Zenon, <1>1, <1>13, <2>1 DEF Switched, Sub!Pause, Sub!Revise
<1>14. Sub!Administer
  BY <1>4, <1>12, <1>13, Zenon DEF EditOf, Sub!Administer
<1>15. MovesOn
  <2>1. stored' \in Rows /\ stored'.version >= stored.version /\ stored'.version > stored.version
    BY <1>1, <1>2, <1>9, <1>10
  <2> QED BY <2>1, Zenon DEF MovesOn
<1> QED BY Zenon, <1>1, <1>10, <1>14, <1>15

-----------------------------------------------------------------------------
LEMMA ReadKeeps ==
  ASSUME AdminInv, NEW o \in Owners, Get(o) \/ UpdateRead(o) \/ PauseRead(o)
  PROVE  AdminInv' /\ UNCHANGED stored
<1>1. UNCHANGED stored /\ stored.exists
  BY Zenon DEF Get, UpdateRead, PauseRead
<1>2. stored \in Rows /\ stored.version \in Nat /\ owner[o].expected \in Nat
      /\ owner[o].expected <= stored.version /\ owner[o].row \in Rows
  BY Zenon DEF AdminInv, Rows
<1>3. MovesOn
  <2>1. stored' \in Rows /\ stored'.version >= stored.version
    BY <1>1, <1>2
  <2> QED BY <1>1, <2>1, Zenon DEF MovesOn
<1> DEFINE Calls == [call : {"none", "write"}, expected : Nat, row : Rows]
<1>4. ASSUME NEW call \in Calls, owner' = [owner EXCEPT ![o] = call],
             call.expected <= stored.version,
             call.call = "write" =>
               /\ call.row.version = stored.version
               /\ EditOf(call.row, stored)
      PROVE  AdminInv'
  <2>1. owner' \in [Owners -> Calls] /\ owner'[o] = call
    BY Zenon, <1>4 DEF AdminInv
  <2>2. \A n \in Owners \ {o} : owner'[n] = owner[n]
    BY Zenon, <1>4 DEF AdminInv
  <2>3. \A n \in Owners \ {o} :
          /\ owner'[n].expected <= stored'.version
          /\ owner'[n].call = "write" => PendingSound(n)'
    BY Zenon, <1>3, <2>2, PendingStaysSound
  <2>4. ASSUME call.call = "write" PROVE PendingSound(o)'
    <3>1. call.row.version = stored.version /\ EditOf(call.row, stored) /\ call.expected <= call.row.version
      BY Zenon, <1>4, <2>4
    <3>2. call.row.version <= stored.version
      BY <1>2, <3>1
    <3>3. EditOf(owner'[o].row, stored')
      BY Zenon, <1>1, <2>1, <3>1
    <3> QED BY Zenon, <1>1, <2>1, <3>1, <3>2, <3>3 DEF PendingSound, EditOf, Agrees, Updated, Switched
  <2>5. /\ owner'[o].expected <= stored'.version
        /\ owner'[o].call = "write" => PendingSound(o)'
    BY Zenon, <1>1, <1>4, <2>1, <2>4
  <2> QED BY Zenon, <1>1, <1>2, <2>1, <2>3, <2>5 DEF AdminInv
<1>5. CASE Get(o)
  <2> DEFINE call == [owner[o] EXCEPT !.expected = stored.version]
  <2>1. owner' = [owner EXCEPT ![o] = call] /\ owner[o].call = "none"
    BY Zenon, <1>5 DEF Get, Idle
  <2>2. call \in Calls /\ call.call = "none" /\ call.expected = stored.version
    BY Zenon, <1>2, <2>1 DEF AdminInv
  <2> HIDE DEF call
  <2>3. call.expected <= stored.version /\ call.call # "write"
    BY <1>2, <2>2
  <2>4. AdminInv'
    BY <1>4, <2>1, <2>2, <2>3, Zenon
  <2> QED BY Zenon, <1>1, <2>4
<1>6. CASE UpdateRead(o)
  <2>1. PICK p \in Policies, enabled \in BOOLEAN :
          owner' = [owner EXCEPT ![o] =
            [call |-> "write", expected |-> owner[o].expected, row |-> Updated(stored, p, enabled)]]
    BY Zenon, <1>6 DEF UpdateRead, Updated
  <2> DEFINE row == Updated(stored, p, enabled)
             call == [call |-> "write", expected |-> owner[o].expected, row |-> row]
  <2>2. row \in Rows /\ row.version = stored.version
    BY Zenon, <1>2, UpdatedFields
  <2>3. EditOf(row, stored)
    BY Zenon DEF EditOf, Agrees
  <2> HIDE DEF row
  <2>4. /\ call \in Calls /\ call.expected = owner[o].expected /\ call.row = row
        /\ owner' = [owner EXCEPT ![o] = call]
    BY Zenon, <1>2, <2>1, <2>2 DEF row
  <2> HIDE DEF call
  <2>5. call.expected <= stored.version
    BY Zenon, <1>2, <2>4
  <2>6. AdminInv'
    BY <1>4, <2>2, <2>3, <2>4, <2>5, Zenon
  <2> QED BY Zenon, <1>1, <2>6
<1>7. CASE PauseRead(o)
  <2>1. PICK paused \in BOOLEAN :
          /\ paused => stored.enabled
          /\ owner' = [owner EXCEPT ![o] =
               [call |-> "write", expected |-> stored.version, row |-> Switched(stored, paused)]]
    BY Zenon, <1>7 DEF PauseRead, Switched
  <2> DEFINE row == Switched(stored, paused)
             call == [call |-> "write", expected |-> stored.version, row |-> row]
  <2>2. row \in Rows /\ row.version = stored.version
    BY Zenon, <1>2, SwitchedFields
  <2>3. EditOf(row, stored)
    BY <2>1, Zenon DEF EditOf, Agrees
  <2> HIDE DEF row
  <2>4. /\ call \in Calls /\ call.expected = stored.version /\ call.row = row
        /\ owner' = [owner EXCEPT ![o] = call]
    BY Zenon, <1>2, <2>1, <2>2 DEF row
  <2> HIDE DEF call
  <2>5. call.expected <= stored.version
    BY <1>2, <2>4
  <2>6. AdminInv'
    BY <1>4, <2>2, <2>3, <2>4, <2>5, Zenon
  <2> QED BY Zenon, <1>1, <2>6
<1> QED BY Zenon, <1>1, <1>5, <1>6, <1>7

LEMMA WriteKeeps ==
  ASSUME AdminInv, NEW o \in Owners, UpdateQueueSubscription(o)
  PROVE  AdminInv' /\ (Sub!Administer \/ UNCHANGED stored)
<1> DEFINE Calls == [call : {"none", "write"}, expected : Nat, row : Rows]
<1>1. stored \in Rows /\ stored.version \in Nat /\ owner[o] \in Calls
      /\ owner[o].expected <= stored.version
  BY Zenon DEF AdminInv, Rows
<1>2. /\ MovesOn
      /\ Sub!Administer \/ UNCHANGED stored
      /\ \E n \in Nat : n <= stored'.version /\ owner' = [owner EXCEPT ![o] = [@ EXCEPT !.call = "none", !.expected = n]]
  <2>1. CASE Unchanged(o)
    <3>1. Sub!Administer /\ MovesOn /\ stored'.version = stored.version + 1
      BY Zenon, <2>1, WriteIsAtomic
    <3>2. owner' = [owner EXCEPT ![o] = [@ EXCEPT !.call = "none", !.expected = stored.version + 1]]
      BY Zenon, <2>1 DEF UpdateQueueSubscription
    <3>3. stored.version + 1 \in Nat /\ stored.version + 1 <= stored'.version
      BY <1>1, <3>1
    <3> QED BY <3>1, <3>2, <3>3, Zenon
  <2>2. CASE ~Unchanged(o)
    <3>1. UNCHANGED stored /\ owner' = [owner EXCEPT ![o] = [@ EXCEPT !.call = "none"]]
      BY Zenon, <2>2 DEF UpdateQueueSubscription
    <3>2. stored' \in Rows /\ stored'.version >= stored.version
      BY <1>1, <3>1
    <3>3. MovesOn
      BY <3>1, <3>2, Zenon DEF MovesOn
    <3>4. owner' = [owner EXCEPT ![o] = [@ EXCEPT !.call = "none", !.expected = owner[o].expected]]
      BY Zenon, <1>1, <3>1 DEF AdminInv
    <3> QED BY Zenon, <1>1, <3>1, <3>3, <3>4
  <2> QED BY Zenon, <2>1, <2>2
<1>3. PICK n \in Nat :
        n <= stored'.version /\ owner' = [owner EXCEPT ![o] = [@ EXCEPT !.call = "none", !.expected = n]]
  BY Zenon, <1>2
<1>4. owner' \in [Owners -> Calls] /\ owner'[o].call = "none" /\ owner'[o].expected = n
  BY Zenon, <1>1, <1>3 DEF AdminInv
<1>5. \A i \in Owners \ {o} : owner'[i] = owner[i]
  BY Zenon, <1>3 DEF AdminInv
<1>6. \A i \in Owners \ {o} :
        /\ owner'[i].expected <= stored'.version
        /\ owner'[i].call = "write" => PendingSound(i)'
  BY Zenon, <1>2, <1>5, PendingStaysSound
<1>7. stored' \in Rows
  BY Zenon, <1>2 DEF MovesOn
<1>8. AdminInv'
  BY Zenon, <1>3, <1>4, <1>6, <1>7 DEF AdminInv
<1> QED BY Zenon, <1>2, <1>8

LEMMA AdminStep ==
  AdminInv /\ [Next]_vars => AdminInv' /\ [Sub!Administer \/ Sub!CompleteDrain]_stored
<1> SUFFICES ASSUME AdminInv, [Next]_vars
             PROVE  AdminInv' /\ [Sub!Administer \/ Sub!CompleteDrain]_stored
  BY Zenon
<1>1. CASE UNCHANGED vars
  <2>1. UNCHANGED <<stored, owner>>
    BY Zenon, <1>1 DEF vars
  <2>2. \A o \in Owners : PendingSound(o) => PendingSound(o)'
    BY <2>1 DEF PendingSound, EditOf, Agrees, Updated, Switched
  <2> QED BY Zenon, <2>1, <2>2 DEF AdminInv
<1>2. ASSUME NEW o \in Owners, Get(o) \/ UpdateRead(o) \/ PauseRead(o) \/ UpdateQueueSubscription(o)
      PROVE  AdminInv' /\ (Sub!Administer \/ UNCHANGED stored)
  BY Zenon, <1>2, ReadKeeps, WriteKeeps
<1>3. CASE BeginQueueDrain \/ CompleteDrain \/ DeleteQueueSubscription
  <2>1. MovesOn /\ UNCHANGED owner
    BY Zenon, <1>3, DrainMovesOn DEF BeginQueueDrain, CompleteDrain, DeleteQueueSubscription
  <2>2. \A o \in Owners :
          /\ owner'[o].expected <= stored'.version
          /\ owner'[o].call = "write" => PendingSound(o)'
    BY Zenon, <2>1, PendingStaysSound
  <2>3. AdminInv'
    BY Zenon, <2>1, <2>2 DEF AdminInv, MovesOn
  <2>4. Sub!Administer \/ Sub!CompleteDrain
    BY <1>3, Zenon DEF BeginQueueDrain, CompleteDrain, DeleteQueueSubscription, Sub!Administer
  <2> QED BY Zenon, <2>3, <2>4
<1> QED BY <1>1, <1>2, <1>3, Zenon DEF Next

(* However many owners read the subscription, change it and write it back  *)
(* (service/queue.go), the row changes as if every accepted call were one  *)
(* atomic step: no policy change, pause, resume or drain is lost.          *)
THEOREM AdminImplementsAtomicUpdates == Spec => ImplementsAtomicUpdates
<1>1. Init => Sub!CreateQueueSubscription
  BY Zenon DEF Init
<1> QED BY <1>1, AdminInit, AdminStep, PTL DEF Spec, ImplementsAtomicUpdates, Sub!SubscriptionSpec

-----------------------------------------------------------------------------
(* QueueScheduler *)

CONSTANTS
  Schedules, Replicas, Tokens, None, Periods, Horizon, ClaimTime, BatchSize, MaxUpdates, MaxErrors
VARIABLES now, accepting, schedule, enqueued, replica, editor, errors

S == INSTANCE QueueScheduler WITH MaxVersion <- MaxUpdates

(* What the proofs assume of the constants. *)
SchedulesSensible ==
  /\ Periods \subseteq Nat \ {0} /\ Horizon \in Nat /\ None \notin Tokens
  /\ \E p \in Periods : \A q \in Periods : q <= p

-----------------------------------------------------------------------------
(* Multiples. *)
LEMMA ProductGrows ==
  ASSUME NEW p \in Nat \ {0}, NEW i \in Int, NEW j \in Int, i < j
  PROVE  i * p + p <= j * p
<1>1. (j - i - 1) \in Nat /\ p \in Nat
  OBVIOUS
<1>2. (j - i - 1) * p >= 0
  BY <1>1
<1>3. (j - i - 1) * p = j * p - i * p - p
  OBVIOUS
<1> QED BY <1>2, <1>3

LEMMA Division ==
  ASSUME NEW p \in Nat \ {0}, NEW t \in Nat
  PROVE  /\ t \div p \in Nat /\ t % p \in 0..(p - 1)
         /\ t = (t \div p) * p + (t % p)
OBVIOUS

LEMMA NextIsFirst ==
  ASSUME NEW p \in Nat \ {0}, NEW from \in Nat
  PROVE  /\ S!NextAfter(p, from) \in Nat /\ S!NextAfter(p, from) > from
         /\ S!NextAfter(p, from) <= from + p
         /\ \A t \in Nat : from < t /\ t < S!NextAfter(p, from) => t % p # 0
<1> DEFINE k == from \div p
           n == S!NextAfter(p, from)
<1>1. k \in Nat /\ from = k * p + (from % p) /\ from % p \in 0..(p - 1)
  BY Zenon, Division
<1>2. n = (k + 1) * p /\ (k + 1) * p = k * p + p /\ k * p \in Nat
  BY <1>1 DEF S!NextAfter
<1> HIDE DEF k
<1>3. n \in Nat /\ n > from /\ n <= from + p
  BY <1>1, <1>2
<1>4. ASSUME NEW t \in Nat, from < t, t < n, t % p = 0
      PROVE  FALSE
  <2> DEFINE j == t \div p
  <2>1. j \in Nat /\ t = j * p
    BY <1>4, Division
  <2> HIDE DEF j
  <2>2. CASE j <= k
    <3>1. j * p <= k * p
      <4>1. j = k \/ j < k
        BY <1>1, <2>1, <2>2
      <4>2. j * p \in Nat /\ k * p \in Nat
        BY Zenon, <1>1, <2>1, <1>2
      <4> QED BY <4>1, <4>2, <1>1, <2>1, ProductGrows
    <3> QED BY <1>1, <1>2, <1>4, <2>1, <3>1
  <2>3. CASE k < j
    <3>1. k * p + p <= j * p
      BY <1>1, <2>1, <2>3, ProductGrows
    <3> QED BY <1>2, <1>4, <2>1, <3>1
  <2> QED BY <1>1, <2>1, <2>2, <2>3
<1> QED BY Zenon, <1>3, <1>4
-----------------------------------------------------------------------------
RowFields == {"exists", "enabled", "period", "nextRun", "since", "claim", "claimIn", "version"}

Past == 0..Horizon

ScheduleShape(row) ==
  /\ DOMAIN row = RowFields /\ row.period \in Periods
  /\ row.since \in Nat /\ row.nextRun \in Nat

SchedulesShape ==
  /\ now \in Past
  /\ DOMAIN schedule = Schedules /\ \A s \in Schedules : ScheduleShape(schedule[s])
  /\ enqueued \in [Schedules \X S!Instants -> Nat]
  /\ DOMAIN replica = Replicas
  /\ \A r \in Replicas :
       replica[r] \subseteq [of : Schedules, token : Tokens, at : Past, period : Periods]
  /\ \A e \in editor : e.of \in Schedules /\ e.period \in Periods /\ e.from \in Past

(* A claim that stands was made for the cron expression that the schedule  *)
(* still has: an update takes the claim away.                              *)
ClaimsKnowPeriod ==
  \A r \in Replicas : \A c \in replica[r] :
    schedule[c.of].claim = c.token => schedule[c.of].period = c.period

(* NoneSkipped of one schedule. *)
RunUpTo(s, row, runs) ==
  \A t \in S!Instants :
    row.since < t /\ t < row.nextRun /\ t % row.period = 0 => runs[<<s, t>>] > 0

SchedulerInv ==
  /\ SchedulesShape /\ ClaimsKnowPeriod /\ S!EachRunOnce
  /\ \A s \in Schedules : schedule[s].exists => RunUpTo(s, schedule[s], enqueued)

LEMMA NewRow ==
  ASSUME SchedulesSensible, NEW s, NEW enabled, NEW period \in Periods, NEW from \in Past, NEW version, NEW runs
  PROVE  /\ ScheduleShape(S!Row(enabled, period, from, version))
         /\ S!Row(enabled, period, from, version).claim = None
         /\ S!Row(enabled, period, from, version).period = period
         /\ RunUpTo(s, S!Row(enabled, period, from, version), runs)
<1> DEFINE row == S!Row(enabled, period, from, version)
<1>1. DOMAIN row = RowFields /\ row.period = period /\ row.since = from /\ row.claim = None
      /\ row.nextRun = S!NextAfter(period, from)
  BY Zenon DEF S!Row, RowFields
<1> HIDE DEF row
<1>2. period \in Nat \ {0} /\ from \in Nat
  BY DEF SchedulesSensible, Past
<1>3. /\ S!NextAfter(period, from) \in Nat
      /\ \A t \in Nat : from < t /\ t < S!NextAfter(period, from) => t % period # 0
  BY Zenon, <1>2, NextIsFirst
<1>4. S!Instants \subseteq Nat
  BY DEF S!Instants
<1>5. ScheduleShape(row) /\ RunUpTo(s, row, runs)
  BY Zenon, <1>1, <1>2, <1>3, <1>4 DEF ScheduleShape, RunUpTo
<1> QED BY Zenon, <1>1, <1>5 DEF row

LEMMA PastInstants ==
  ASSUME SchedulesSensible
  PROVE  Past \subseteq S!Instants
<1>1. S!LastPeriod \in Periods
  BY Zenon DEF SchedulesSensible, S!LastPeriod
<1>2. S!LastPeriod \in Nat
  BY Zenon, <1>1 DEF SchedulesSensible
<1> QED BY <1>2 DEF SchedulesSensible, Past, S!Instants

LEMMA SchedulerInit ==
  ASSUME SchedulesSensible, S!Init
  PROVE  SchedulerInv
<1>1. /\ now = 0 /\ enqueued = [run \in Schedules \X S!Instants |-> 0]
      /\ replica = [r \in Replicas |-> {}] /\ editor = {}
      /\ schedule \in [Schedules -> {S!Row(TRUE, p, 0, 1) : p \in Periods}]
  BY Zenon DEF S!Init
<1>2. 0 \in Past
  BY DEF SchedulesSensible, Past
<1>3. ASSUME NEW s \in Schedules
      PROVE  ScheduleShape(schedule[s]) /\ RunUpTo(s, schedule[s], enqueued)
  <2>1. PICK p \in Periods : schedule[s] = S!Row(TRUE, p, 0, 1)
    BY Zenon, <1>1
  <2>2. ScheduleShape(S!Row(TRUE, p, 0, 1)) /\ RunUpTo(s, S!Row(TRUE, p, 0, 1), enqueued)
    BY Zenon, <1>2, NewRow
  <2> QED BY <2>1, <2>2, Zenon
<1>4. SchedulesShape
  BY Zenon, <1>1, <1>2, <1>3 DEF SchedulesShape
<1>5. ClaimsKnowPeriod /\ S!EachRunOnce
  BY <1>1 DEF ClaimsKnowPeriod, S!EachRunOnce
<1> QED BY Zenon, <1>3, <1>4, <1>5 DEF SchedulerInv
(* A step that runs nothing, moves no schedule and makes no claim. *)
LEMMA QuietScheduleStep ==
  ASSUME SchedulesSensible, SchedulerInv, now' \in Past, enqueued' = enqueued,
         DOMAIN schedule' = Schedules,
         \A s \in Schedules :
           /\ DOMAIN schedule'[s] = RowFields
           /\ schedule'[s].exists => schedule[s].exists
           /\ schedule'[s].period = schedule[s].period
           /\ schedule'[s].nextRun = schedule[s].nextRun
           /\ schedule'[s].since = schedule[s].since
           /\ schedule'[s].claim \in {schedule[s].claim, None},
         DOMAIN replica' = Replicas, \A r \in Replicas : replica'[r] \subseteq replica[r],
         \A e \in editor' : e.of \in Schedules /\ e.period \in Periods /\ e.from \in Past
  PROVE  SchedulerInv'
<1>1. SchedulesShape'
  BY Zenon DEF SchedulerInv, SchedulesShape, ScheduleShape
<1>2. ClaimsKnowPeriod'
  <2> SUFFICES ASSUME NEW r \in Replicas, NEW c \in replica'[r], schedule'[c.of].claim = c.token
               PROVE  schedule'[c.of].period = c.period
    BY Zenon DEF ClaimsKnowPeriod
  <2>1. c \in replica[r] /\ c.of \in Schedules /\ c.token # None
    BY DEF SchedulerInv, SchedulesShape, SchedulesSensible
  <2> QED BY <2>1 DEF SchedulerInv, ClaimsKnowPeriod
<1>3. S!EachRunOnce'
  BY Zenon DEF SchedulerInv, S!EachRunOnce
<1>4. ASSUME NEW s \in Schedules, schedule'[s].exists
      PROVE  RunUpTo(s, schedule'[s], enqueued')
  <2>1. RunUpTo(s, schedule[s], enqueued)
    BY Zenon, <1>4 DEF SchedulerInv
  <2> QED BY Zenon, <2>1 DEF RunUpTo
<1> QED BY Zenon, <1>1, <1>2, <1>3, <1>4 DEF SchedulerInv

LEMMA ClaimStep ==
  ASSUME SchedulesSensible, SchedulerInv, NEW r \in Replicas, S!ClaimDueQueueSchedules(r)
  PROVE  SchedulerInv'
<1>1. PICK token \in S!FreshTokens, due \in SUBSET {s \in Schedules : S!Due(s)} :
        /\ schedule' = [s \in Schedules |->
             IF s \in due THEN [schedule[s] EXCEPT !.claim = token, !.claimIn = ClaimTime]
             ELSE schedule[s]]
        /\ replica' = [replica EXCEPT ![r] =
             {[of |-> s, token |-> token, at |-> schedule[s].nextRun, period |-> schedule[s].period] :
                s \in due}]
  BY Zenon DEF S!ClaimDueQueueSchedules
<1>2. UNCHANGED <<now, enqueued, editor>>
  BY Zenon DEF S!ClaimDueQueueSchedules
<1>3. ASSUME NEW s \in Schedules
      PROVE  /\ DOMAIN schedule'[s] = RowFields
             /\ schedule'[s].exists = schedule[s].exists
             /\ schedule'[s].period = schedule[s].period
             /\ schedule'[s].nextRun = schedule[s].nextRun
             /\ schedule'[s].since = schedule[s].since
             /\ schedule'[s].claim = IF s \in due THEN token ELSE schedule[s].claim
  <2>1. DOMAIN schedule[s] = RowFields
    BY Zenon DEF SchedulerInv, SchedulesShape, ScheduleShape
  <2>2. CASE s \in due
    <3>1. schedule'[s] = [schedule[s] EXCEPT !.claim = token, !.claimIn = ClaimTime]
      BY Zenon, <1>1, <2>2
    <3> QED BY Zenon, <2>1, <2>2, <3>1 DEF RowFields
  <2>3. CASE s \notin due
    BY Zenon, <1>1, <2>1, <2>3
  <2> QED BY Zenon, <2>2, <2>3
<1>4. token \in Tokens /\ \A q \in Replicas : \A c \in replica[q] : c.token # token
  BY Zenon DEF S!FreshTokens
<1>5. ASSUME NEW s \in due
      PROVE  s \in Schedules /\ schedule[s].nextRun \in Past /\ schedule[s].period \in Periods
  <2>1. s \in Schedules /\ schedule[s].nextRun <= now
    BY Zenon DEF S!Due
  <2>2. schedule[s].nextRun \in Nat /\ schedule[s].period \in Periods /\ now \in 0..Horizon
    BY Zenon, <2>1 DEF SchedulerInv, SchedulesShape, ScheduleShape, Past
  <2> QED BY <2>1, <2>2 DEF Past, SchedulesSensible
<1> DEFINE batch == {[of |-> s, token |-> token, at |-> schedule[s].nextRun, period |-> schedule[s].period] :
                       s \in due}
<1>6. DOMAIN replica' = Replicas /\ replica'[r] = batch /\ \A q \in Replicas \ {r} : replica'[q] = replica[q]
  BY Zenon, <1>1 DEF SchedulerInv, SchedulesShape
<1>7. batch \subseteq [of : Schedules, token : Tokens, at : Past, period : Periods]
  BY <1>4, <1>5
<1>8. \A c \in batch : c.of \in due /\ c.period = schedule[c.of].period
  OBVIOUS
<1> HIDE DEF batch
<1>9. SchedulesShape'
  <2>1. DOMAIN schedule' = Schedules
    BY Zenon, <1>1
  <2>2. \A s \in Schedules : ScheduleShape(schedule'[s])
    BY Zenon, <1>3 DEF SchedulerInv, SchedulesShape, ScheduleShape
  <2> QED BY Zenon, <1>2, <1>6, <1>7, <2>1, <2>2 DEF SchedulerInv, SchedulesShape
<1>10. ClaimsKnowPeriod'
  <2> SUFFICES ASSUME NEW q \in Replicas, NEW c \in replica'[q], schedule'[c.of].claim = c.token
               PROVE  schedule'[c.of].period = c.period
    BY Zenon DEF ClaimsKnowPeriod
  <2>1. CASE q = r
    BY Zenon, <1>3, <1>5, <1>6, <1>8, <2>1
  <2>2. CASE q # r
    <3>1. c \in replica[q] /\ c.of \in Schedules /\ c.token # token
      BY <1>4, <1>6, <2>2 DEF SchedulerInv, SchedulesShape
    <3> QED BY <1>3, <3>1 DEF SchedulerInv, ClaimsKnowPeriod
  <2> QED BY Zenon, <2>1, <2>2
<1>11. S!EachRunOnce'
  BY Zenon, <1>2 DEF SchedulerInv, S!EachRunOnce
<1>12. ASSUME NEW s \in Schedules, schedule'[s].exists
       PROVE  RunUpTo(s, schedule'[s], enqueued')
  <2>1. RunUpTo(s, schedule[s], enqueued)
    BY Zenon, <1>3, <1>12 DEF SchedulerInv
  <2> QED BY Zenon, <1>2, <1>3, <2>1 DEF RunUpTo
<1> QED BY Zenon, <1>9, <1>10, <1>11, <1>12 DEF SchedulerInv
LEMMA RunsCounted ==
  ASSUME SchedulerInv, NEW run \in Schedules \X S!Instants,
         enqueued' = IF enqueued[run] = 0 THEN [enqueued EXCEPT ![run] = enqueued[run] + 1] ELSE enqueued
  PROVE  /\ enqueued' \in [Schedules \X S!Instants -> Nat] /\ enqueued'[run] > 0
         /\ \A x \in Schedules \X S!Instants : enqueued'[x] <= 1 /\ (enqueued[x] > 0 => enqueued'[x] > 0)
<1> DEFINE R == Schedules \X S!Instants
<1>1. enqueued \in [R -> Nat] /\ \A x \in R : enqueued[x] <= 1
  BY Zenon DEF SchedulerInv, SchedulesShape, S!EachRunOnce
<1>2. run \in R
  BY Zenon
<1> HIDE DEF R
<1>3. CASE enqueued[run] = 0
  <2>1. enqueued' = [enqueued EXCEPT ![run] = 1]
    BY <1>3
  <2>2. enqueued' \in [R -> Nat] /\ enqueued'[run] = 1 /\ \A x \in R \ {run} : enqueued'[x] = enqueued[x]
    BY <1>1, <1>2, <2>1
  <2>3. enqueued' \in [R -> Nat] /\ enqueued'[run] > 0
        /\ \A x \in R : enqueued'[x] <= 1 /\ (enqueued[x] > 0 => enqueued'[x] > 0)
    BY <1>1, <2>2
  <2> QED BY Zenon, <2>3 DEF R
<1>4. CASE enqueued[run] # 0
  <2>1. enqueued' = enqueued
    BY Zenon, <1>4
  <2>2. enqueued' \in [R -> Nat] /\ enqueued'[run] > 0
        /\ \A x \in R : enqueued'[x] <= 1 /\ (enqueued[x] > 0 => enqueued'[x] > 0)
    BY <1>1, <1>2, <1>4, <2>1
  <2> QED BY Zenon, <2>2 DEF R
<1> QED BY Zenon, <1>3, <1>4

(* One completed run. *)
LEMMA RunStep ==
  ASSUME SchedulesSensible, SchedulerInv, NEW r \in Replicas, NEW c \in replica[r], S!Stands(c),
         enqueued' = IF S!IsNew(c.of, c.at) THEN [enqueued EXCEPT ![<<c.of, c.at>>] = @ + 1] ELSE enqueued,
         schedule' = [schedule EXCEPT ![c.of] =
           [@ EXCEPT !.nextRun = S!Following(c), !.claim = None, !.claimIn = 0]],
         replica' = [replica EXCEPT ![r] = @ \ {c}],
         UNCHANGED <<now, editor>>
  PROVE  SchedulerInv'
<1> DEFINE s == c.of
           run == <<c.of, c.at>>
           row == [schedule[s] EXCEPT !.nextRun = S!Following(c), !.claim = None, !.claimIn = 0]
<1>1. s \in Schedules /\ c.at \in Past /\ c.period \in Periods /\ c.token \in Tokens
  BY Zenon DEF SchedulerInv, SchedulesShape
<1>2. run \in Schedules \X S!Instants
  BY Zenon, <1>1, PastInstants
<1>3. schedule[s].period = c.period /\ schedule[s].nextRun = c.at /\ schedule[s].exists
  BY Zenon DEF SchedulerInv, ClaimsKnowPeriod, S!Stands
<1>4. /\ S!Following(c) \in Nat /\ c.at \in Nat
      /\ \A t \in Nat : c.at < t /\ t < S!Following(c) => t % c.period # 0
  <2>1. c.period \in Nat \ {0} /\ c.at \in Nat
    BY <1>1 DEF SchedulesSensible, Past
  <2> QED BY Zenon, <2>1, NextIsFirst DEF S!Following
<1>5. ScheduleShape(schedule[s])
  BY Zenon, <1>1 DEF SchedulerInv, SchedulesShape
<1>6. /\ DOMAIN row = RowFields /\ row.period = schedule[s].period /\ row.since = schedule[s].since
      /\ row.nextRun = S!Following(c) /\ row.claim = None
  BY Zenon, <1>5 DEF ScheduleShape, RowFields
<1>7. DOMAIN schedule' = Schedules /\ schedule'[s] = row /\ \A t \in Schedules \ {s} : schedule'[t] = schedule[t]
  BY Zenon, <1>1 DEF SchedulerInv, SchedulesShape
<1>8. /\ enqueued' \in [Schedules \X S!Instants -> Nat] /\ enqueued'[run] > 0
      /\ \A x \in Schedules \X S!Instants : enqueued'[x] <= 1 /\ (enqueued[x] > 0 => enqueued'[x] > 0)
  <2>1. enqueued' = IF enqueued[run] = 0 THEN [enqueued EXCEPT ![run] = enqueued[run] + 1] ELSE enqueued
    BY Zenon DEF S!IsNew
  <2> HIDE DEF run
  <2> QED BY <1>2, <2>1, RunsCounted, Zenon
<1> HIDE DEF row
<1>9. SchedulesShape'
  <2>1. \A t \in Schedules : ScheduleShape(schedule'[t])
    BY Zenon, <1>4, <1>5, <1>6, <1>7 DEF SchedulerInv, SchedulesShape, ScheduleShape
  <2> QED BY Zenon, <1>7, <1>8, <2>1 DEF SchedulerInv, SchedulesShape
<1>10. ClaimsKnowPeriod'
  <2> SUFFICES ASSUME NEW q \in Replicas, NEW d \in replica'[q], schedule'[d.of].claim = d.token
               PROVE  schedule'[d.of].period = d.period
    BY Zenon DEF ClaimsKnowPeriod
  <2>1. d \in replica[q] /\ d.of \in Schedules /\ d.token \in Tokens
    BY Zenon DEF SchedulerInv, SchedulesShape
  <2>2. d.of # s
    BY Zenon, <1>6, <1>7, <2>1 DEF SchedulesSensible
  <2> QED BY Zenon, <1>7, <2>1, <2>2 DEF SchedulerInv, ClaimsKnowPeriod
<1>11. S!EachRunOnce'
  BY Zenon, <1>8 DEF S!EachRunOnce
<1>12. ASSUME NEW x \in Schedules, schedule'[x].exists
       PROVE  RunUpTo(x, schedule'[x], enqueued')
  <2> SUFFICES ASSUME NEW t \in S!Instants, schedule'[x].since < t, t < schedule'[x].nextRun,
                      t % schedule'[x].period = 0
               PROVE  enqueued'[<<x, t>>] > 0
    BY Zenon DEF RunUpTo
  <2>1. CASE x # s
    <3>1. schedule'[x] = schedule[x]
      BY Zenon, <1>7, <2>1
    <3>2. RunUpTo(x, schedule[x], enqueued)
      BY Zenon, <1>12, <3>1 DEF SchedulerInv
    <3>3. enqueued[<<x, t>>] > 0
      BY Zenon, <3>1, <3>2 DEF RunUpTo
    <3> QED BY Zenon, <1>8, <3>3
  <2>2. CASE x = s /\ t < c.at
    <3>1. RunUpTo(s, schedule[s], enqueued)
      BY Zenon, <1>1, <1>3 DEF SchedulerInv
    <3>2. enqueued[<<x, t>>] > 0
      BY <1>3, <1>6, <1>7, <2>2, <3>1 DEF RunUpTo
    <3> QED BY Zenon, <1>8, <3>2
  <2>3. CASE x = s /\ t = c.at
    BY Zenon, <1>8, <2>3
  <2>4. CASE x = s /\ c.at < t
    <3>1. t \in Nat /\ t < S!Following(c) /\ t % c.period = 0
      BY <1>3, <1>6, <1>7, <2>4 DEF S!Instants
    <3> QED BY Zenon, <1>4, <2>4, <3>1
  <2>5. t \in Int /\ c.at \in Int
    BY <1>4 DEF S!Instants
  <2> QED BY <2>1, <2>2, <2>3, <2>4, <2>5
<1> QED BY Zenon, <1>9, <1>10, <1>11, <1>12 DEF SchedulerInv
LEMMA CompleteStep ==
  ASSUME SchedulesSensible, SchedulerInv, NEW r \in Replicas, S!CompleteQueueSchedule(r)
  PROVE  SchedulerInv'
<1>1. UNCHANGED <<now, editor>>
  BY Zenon DEF S!CompleteQueueSchedule
<1>2. PICK c \in replica[r] :
        \/ /\ S!Stands(c)
           /\ enqueued' = IF S!IsNew(c.of, c.at) THEN [enqueued EXCEPT ![<<c.of, c.at>>] = @ + 1] ELSE enqueued
           /\ schedule' = [schedule EXCEPT ![c.of] =
                [@ EXCEPT !.nextRun = S!Following(c), !.claim = None, !.claimIn = 0]]
           /\ replica' = [replica EXCEPT ![r] = @ \ {c}]
        \/ /\ replica' = [replica EXCEPT ![r] = {}]
           /\ UNCHANGED <<schedule, enqueued>>
  BY Zenon DEF S!CompleteQueueSchedule
<1>3. CASE replica' = [replica EXCEPT ![r] = {}] /\ UNCHANGED <<schedule, enqueued>>
  BY Zenon, <1>1, <1>3, QuietScheduleStep DEF SchedulerInv, SchedulesShape, ScheduleShape
<1> QED BY Zenon, <1>1, <1>2, <1>3, RunStep

LEMMA UpdateStep ==
  ASSUME SchedulesSensible, SchedulerInv, S!UpdateQueueSchedule
  PROVE  SchedulerInv'
<1>1. UNCHANGED <<now, enqueued, replica>> /\ editor' = {}
  BY Zenon DEF S!UpdateQueueSchedule
<1>2. PICK e \in editor :
        \/ schedule' = [schedule EXCEPT ![e.of] = S!Row(e.enabled, e.period, e.from, e.version + 1)]
        \/ schedule' = schedule
  BY Zenon DEF S!UpdateQueueSchedule
<1>3. CASE schedule' = schedule
  BY Zenon, <1>1, <1>3, QuietScheduleStep DEF SchedulerInv, SchedulesShape, ScheduleShape
<1>4. CASE schedule' = [schedule EXCEPT ![e.of] = S!Row(e.enabled, e.period, e.from, e.version + 1)]
  <2> DEFINE s == e.of
             row == S!Row(e.enabled, e.period, e.from, e.version + 1)
  <2>1. s \in Schedules /\ e.period \in Periods /\ e.from \in Past
    BY Zenon DEF SchedulerInv, SchedulesShape
  <2>2. ScheduleShape(row) /\ row.claim = None /\ RunUpTo(s, row, enqueued)
    BY <2>1, NewRow
  <2> HIDE DEF row
  <2>3. DOMAIN schedule' = Schedules /\ schedule'[s] = row /\ \A t \in Schedules \ {s} : schedule'[t] = schedule[t]
    BY Zenon, <1>4, <2>1 DEF SchedulerInv, SchedulesShape, row
  <2>4. SchedulesShape'
    BY Zenon, <1>1, <2>2, <2>3 DEF SchedulerInv, SchedulesShape
  <2>5. ClaimsKnowPeriod'
    <3> SUFFICES ASSUME NEW q \in Replicas, NEW d \in replica[q], schedule'[d.of].claim = d.token
                 PROVE  schedule'[d.of].period = d.period
      BY Zenon, <1>1 DEF ClaimsKnowPeriod
    <3>1. d.of \in Schedules /\ d.token \in Tokens
      BY Zenon DEF SchedulerInv, SchedulesShape
    <3>2. d.of # s
      BY Zenon, <2>2, <2>3, <3>1 DEF SchedulesSensible
    <3> QED BY Zenon, <2>3, <3>1, <3>2 DEF SchedulerInv, ClaimsKnowPeriod
  <2>6. S!EachRunOnce'
    BY Zenon, <1>1 DEF SchedulerInv, S!EachRunOnce
  <2>7. \A t \in Schedules : schedule'[t].exists => RunUpTo(t, schedule'[t], enqueued')
    BY <1>1, <2>2, <2>3, Zenon DEF SchedulerInv
  <2> QED BY Zenon, <2>4, <2>5, <2>6, <2>7 DEF SchedulerInv
<1> QED BY Zenon, <1>2, <1>3, <1>4

LEMMA OtherSteps ==
  ASSUME SchedulesSensible, SchedulerInv,
         \/ \E r \in Replicas : S!Crash(r)
         \/ \E s \in Schedules : S!DeleteQueueSchedule(s)
         \/ S!ReadClock \/ S!SwitchSubscription \/ S!Tick \/ UNCHANGED S!vars
  PROVE  SchedulerInv'
<1>1. enqueued' = enqueued
  BY Zenon DEF S!Crash, S!DeleteQueueSchedule, S!ReadClock, S!SwitchSubscription, S!Tick, S!vars
<1>2. now' \in Past
  <2>1. now \in 0..Horizon /\ Horizon \in Nat
    BY Zenon DEF SchedulerInv, SchedulesShape, Past, SchedulesSensible
  <2>2. now' = now \/ now' = IF now < Horizon THEN now + 1 ELSE now
    BY Zenon DEF S!Crash, S!DeleteQueueSchedule, S!ReadClock, S!SwitchSubscription, S!Tick, S!vars
  <2> QED BY <2>1, <2>2 DEF Past
<1>3. DOMAIN replica' = Replicas /\ \A r \in Replicas : replica'[r] \subseteq replica[r]
  BY Zenon DEF S!Crash, S!DeleteQueueSchedule, S!ReadClock, S!SwitchSubscription, S!Tick, S!vars, SchedulerInv, SchedulesShape
<1>4. \A e \in editor' : e.of \in Schedules /\ e.period \in Periods /\ e.from \in Past
  <2>1. CASE S!ReadClock
    BY <2>1 DEF S!ReadClock, SchedulerInv, SchedulesShape
  <2>2. CASE editor' = editor
    BY Zenon, <2>2 DEF SchedulerInv, SchedulesShape
  <2> QED BY Zenon, <2>1, <2>2 DEF S!Crash, S!DeleteQueueSchedule, S!SwitchSubscription, S!Tick, S!vars
<1>5. DOMAIN schedule' = Schedules /\ \A s \in Schedules :
        /\ DOMAIN schedule'[s] = RowFields
        /\ schedule'[s].exists => schedule[s].exists
        /\ schedule'[s].period = schedule[s].period
        /\ schedule'[s].nextRun = schedule[s].nextRun
        /\ schedule'[s].since = schedule[s].since
        /\ schedule'[s].claim \in {schedule[s].claim, None}
  <2>1. DOMAIN schedule = Schedules /\ \A s \in Schedules : DOMAIN schedule[s] = RowFields
    BY Zenon DEF SchedulerInv, SchedulesShape, ScheduleShape
  <2>2. CASE schedule' = schedule
    BY Zenon, <2>1, <2>2
  <2>3. ASSUME NEW x \in Schedules, S!DeleteQueueSchedule(x)
        PROVE  DOMAIN schedule' = Schedules /\ \A s \in Schedules :
                 /\ DOMAIN schedule'[s] = RowFields
                 /\ schedule'[s].exists => schedule[s].exists
                 /\ schedule'[s].period = schedule[s].period
                 /\ schedule'[s].nextRun = schedule[s].nextRun
                 /\ schedule'[s].since = schedule[s].since
                 /\ schedule'[s].claim \in {schedule[s].claim, None}
    <3>1. schedule' = [schedule EXCEPT ![x] = [schedule[x] EXCEPT !.exists = FALSE, !.claim = None, !.claimIn = 0]]
      BY Zenon, <2>1, <2>3 DEF S!DeleteQueueSchedule
    <3> QED BY Zenon, <2>1, <3>1 DEF RowFields
  <2>4. CASE S!Tick
    <3>1. \A s \in Schedules : schedule'[s] =
            [schedule[s] EXCEPT !.claimIn = IF schedule[s].claimIn > 0 THEN schedule[s].claimIn - 1 ELSE 0]
      BY Zenon, <2>4 DEF S!Tick
    <3>2. DOMAIN schedule' = Schedules
      BY Zenon, <2>4 DEF S!Tick
    <3> QED BY Zenon, <2>1, <3>1, <3>2 DEF RowFields
  <2> QED BY Zenon, <2>2, <2>3, <2>4 DEF S!Crash, S!ReadClock, S!SwitchSubscription, S!vars
<1> QED BY Zenon, <1>1, <1>2, <1>3, <1>4, <1>5, QuietScheduleStep
-----------------------------------------------------------------------------
LEMMA SchedulerStep ==
  ASSUME SchedulesSensible, SchedulerInv, [S!Next]_S!vars
  PROVE  SchedulerInv'
<1>1. ASSUME NEW r \in Replicas, S!Run(r)
      PROVE  SchedulerInv'
  BY Zenon, <1>1, ClaimStep, CompleteStep DEF S!Run
<1>2. CASE S!UpdateQueueSchedule
  BY Zenon, <1>2, UpdateStep
<1> QED BY <1>1, <1>2, OtherSteps, Zenon DEF S!Next

(* Whatever replicas crash or stall past their claims, and however late an *)
(* update writes the next run that it has computed, no instant of a        *)
(* schedule is enqueued twice, and none between the last update and the    *)
(* next run is skipped.                                                    *)
THEOREM RunsAreExact == ASSUME SchedulesSensible PROVE S!Spec => [](S!EachRunOnce /\ S!NoneSkipped)
<1>1. S!Init => SchedulerInv
  BY Zenon, SchedulerInit
<1>2. SchedulerInv /\ [S!Next]_S!vars => SchedulerInv'
  BY Zenon, SchedulerStep
<1>3. SchedulerInv => S!EachRunOnce /\ S!NoneSkipped
  BY Zenon DEF SchedulerInv, S!NoneSkipped, RunUpTo
<1> QED BY <1>1, <1>2, <1>3, PTL DEF S!Spec

-----------------------------------------------------------------------------
(* AdminSessions *)

CONSTANTS Sessions, Callers, Users, IdleTTL, AbsoluteTTL, MaxPasswords
VARIABLES user, session, caller, age, issued

U == INSTANCE AdminSessions WITH stored <- session

Records == [user : Users, idle : Int, absolute : Int]

(* What the proofs assume of the constants. *)
SessionsSensible ==
  /\ IdleTTL \in Nat \ {0} /\ AbsoluteTTL \in Nat \ {0} /\ MaxPasswords \in Nat \ {0}
  /\ None \notin Records \cup Sessions

CallerFields == {"pc", "user", "session", "read", "todo", "overlapped"}

SessionsShape ==
  /\ DOMAIN caller = Callers /\ \A c \in Callers : DOMAIN caller[c] = CallerFields
  /\ user \in [Users -> [enabled : BOOLEAN, password : Nat \ {0}]]
  /\ session \in [Sessions -> Records \cup {None}]
  /\ age \in [Sessions -> Nat] /\ issued \in [Sessions -> Nat]

(* A login that is about to write has the session for itself, which has    *)
(* not begun.                                                              *)
LoginsAreFresh ==
  \A c \in Callers : caller[c].pc = "exchange" =>
    /\ caller[c].session \in Sessions /\ caller[c].user \in Users /\ caller[c].read \in Nat \ {0}
    /\ issued[caller[c].session] = 0
    /\ \A d \in Callers \ {c} : caller[d].session # caller[c].session

(* A refresh works on a session that has begun, and what it has read ages  *)
(* with the session.                                                       *)
RefreshesAgeToo ==
  \A c \in Callers :
    /\ caller[c].pc \in {"get", "put"} =>
         caller[c].session \in Sessions /\ issued[caller[c].session] # 0
    /\ caller[c].pc = "put" =>
         /\ caller[c].read \in Records /\ caller[c].read.absolute \in Nat
         /\ caller[c].read.absolute # 0 =>
              age[caller[c].session] + caller[c].read.absolute <= AbsoluteTTL

(* Nothing is stored or ages before it is issued. *)
Begun ==
  \A s \in Sessions :
    /\ issued[s] = 0 => session[s] = None /\ age[s] = 0
    /\ session[s] # None =>
         session[s].absolute \in Nat \ {0} /\ age[s] + session[s].absolute <= AbsoluteTTL

SessionInv == SessionsShape /\ LoginsAreFresh /\ RefreshesAgeToo /\ Begun

-----------------------------------------------------------------------------
LEMMA IdleFields ==
  /\ U!Idle.pc = "idle" /\ U!Idle.session = None /\ DOMAIN U!Idle = CallerFields
BY Zenon DEF U!Idle, CallerFields

LEMMA InvInit ==
  ASSUME SessionsSensible, U!Init
  PROVE  SessionInv
<1>1. SessionsShape
  BY IdleFields DEF U!Init, SessionsShape, SessionsSensible
<1>2. LoginsAreFresh /\ RefreshesAgeToo
  BY Zenon, IdleFields DEF U!Init, LoginsAreFresh, RefreshesAgeToo
<1>3. Begun
  BY Zenon DEF U!Init, Begun
<1> QED BY Zenon, <1>1, <1>2, <1>3 DEF SessionInv

(* The rules that change a record. *)
LEMMA TouchedRecord ==
  ASSUME SessionsSensible, NEW r \in Records
  PROVE  /\ U!Touched(r) \in Records /\ U!Touched(r).absolute = r.absolute
         /\ U!Extended(r) \in Records /\ U!Extended(r).absolute = r.absolute
         /\ U!Extended(r).idle <= r.absolute
BY DEF SessionsSensible, Records, U!Touched, U!Extended, U!Least

LEMMA AgedRecord ==
  ASSUME NEW r \in Records
  PROVE  U!Aged(r) \in Records /\ U!Aged(r).absolute = r.absolute - 1
<1>1. r.user \in Users /\ r.idle \in Int /\ r.absolute \in Int
  BY Zenon DEF Records
<1>2. DOMAIN r = {"user", "idle", "absolute"} /\ r = [f \in DOMAIN r |-> r[f]]
  BY Zenon DEF Records
<1> DEFINE q == [r EXCEPT !.idle = r.idle - 1]
<1>3. q.user = r.user /\ q.idle = r.idle - 1 /\ q.absolute = r.absolute /\ q \in Records
  BY <1>1, <1>2 DEF Records
<1>4. U!Aged(r) = [q EXCEPT !.absolute = r.absolute - 1]
  BY Zenon, <1>2 DEF U!Aged
<1> HIDE DEF q
<1> QED BY <1>1, <1>3, <1>4 DEF Records

-----------------------------------------------------------------------------
(* A step that leaves the callers that matter alone. *)
LEMMA AnswerStep ==
  ASSUME SessionInv, NEW c \in Callers, U!Answer(c)
  PROVE  /\ DOMAIN caller' = Callers /\ \A d \in Callers : DOMAIN caller'[d] = CallerFields
         /\ caller'[c] = U!Idle /\ \A d \in Callers \ {c} : caller'[d] = caller[d]
BY Zenon, IdleFields DEF SessionInv, SessionsShape, U!Answer

LEMMA LoginStep ==
  ASSUME SessionsSensible, SessionInv, NEW c \in Callers, NEW u \in Users, NEW s \in Sessions,
         U!AuthenticateAdminUser(c, u, s)
  PROVE  SessionInv'
<1> DEFINE new == [U!Idle EXCEPT !.pc = "exchange", !.user = u, !.session = s, !.read = user[u].password]
<1>1. DOMAIN new = CallerFields /\ new.pc = "exchange" /\ new.session = s
  BY Zenon DEF U!Idle, CallerFields
<1>2. new.user = u /\ new.read = user[u].password
  BY Zenon DEF U!Idle
<1>3. /\ DOMAIN caller' = Callers /\ caller'[c] = new
      /\ \A d \in Callers \ {c} : caller'[d] = caller[d]
  BY Zenon DEF U!AuthenticateAdminUser, SessionInv, SessionsShape
<1> HIDE DEF new
<1>4. UNCHANGED <<user, session, age, issued>> /\ U!Fresh(s)
  BY Zenon DEF U!AuthenticateAdminUser
<1>5. SessionsShape'
  BY Zenon, <1>1, <1>3, <1>4 DEF SessionInv, SessionsShape
<1>6. user[u].password \in Nat \ {0}
  BY Zenon DEF SessionInv, SessionsShape
<1>7. LoginsAreFresh'
  <2> SUFFICES ASSUME NEW d \in Callers, caller'[d].pc = "exchange"
               PROVE  /\ caller'[d].session \in Sessions /\ caller'[d].user \in Users
                      /\ caller'[d].read \in Nat \ {0}
                      /\ issued[caller'[d].session] = 0
                      /\ \A e \in Callers \ {d} : caller'[e].session # caller'[d].session
    BY Zenon, <1>4 DEF LoginsAreFresh
  <2>1. CASE d = c
    BY Zenon, <1>1, <1>2, <1>3, <1>4, <1>6, <2>1 DEF U!Fresh
  <2>2. CASE d # c
    <3>1. caller'[d] = caller[d] /\ caller[d].pc = "exchange"
      BY Zenon, <1>3, <2>2
    <3>2. caller[d].session # s
      BY Zenon, <1>4 DEF U!Fresh
    <3>3. \A e \in Callers \ {d} : caller'[e].session # caller[d].session
      BY <1>1, <1>3, <3>1, <3>2 DEF SessionInv, LoginsAreFresh
    <3> QED BY Zenon, <3>1, <3>3 DEF SessionInv, LoginsAreFresh
  <2> QED BY Zenon, <2>1, <2>2
<1>8. RefreshesAgeToo'
  BY <1>1, <1>3, <1>4 DEF SessionInv, RefreshesAgeToo
<1>9. Begun'
  BY Zenon, <1>4 DEF SessionInv, Begun
<1> QED BY Zenon, <1>5, <1>7, <1>8, <1>9 DEF SessionInv

LEMMA ExchangeStep ==
  ASSUME SessionsSensible, SessionInv, NEW c \in Callers, U!Exchange(c)
  PROVE  SessionInv'
<1> DEFINE s == caller[c].session
           new == U!Record(caller[c].user, IdleTTL, AbsoluteTTL)
<1>1. /\ s \in Sessions /\ caller[c].user \in Users /\ caller[c].read \in Nat \ {0}
      /\ issued[s] = 0 /\ \A d \in Callers \ {c} : caller[d].session # s
  BY Zenon DEF U!Exchange, SessionInv, LoginsAreFresh
<1>2. new \in Records /\ new.absolute = AbsoluteTTL
  BY <1>1 DEF SessionsSensible, U!Record, Records
<1>3. /\ session' = [session EXCEPT ![s] = new] /\ issued' = [issued EXCEPT ![s] = caller[c].read]
      /\ U!Answer(c) /\ UNCHANGED <<user, age>>
  BY Zenon DEF U!Exchange
<1> HIDE DEF new, s
<1>4. SessionsShape'
  BY Zenon, <1>1, <1>2, <1>3, AnswerStep DEF SessionInv, SessionsShape
<1>5. \A d \in Callers \ {c} : caller'[d] = caller[d] /\ caller[d].session # s
  BY Zenon, <1>1, <1>3, AnswerStep
<1>6. caller'[c].pc = "idle" /\ caller'[c].session = None
  BY Zenon, <1>3, AnswerStep, IdleFields
<1>7. LoginsAreFresh'
  <2> SUFFICES ASSUME NEW d \in Callers, caller'[d].pc = "exchange"
               PROVE  /\ caller'[d].session \in Sessions /\ caller'[d].user \in Users
                      /\ caller'[d].read \in Nat \ {0}
                      /\ issued'[caller'[d].session] = 0
                      /\ \A e \in Callers \ {d} : caller'[e].session # caller'[d].session
    BY Zenon DEF LoginsAreFresh
  <2>1. d # c /\ caller'[d] = caller[d] /\ caller[d].session # s
    BY Zenon, <1>5, <1>6
  <2>2. /\ caller[d].session \in Sessions /\ caller[d].user \in Users
        /\ caller[d].read \in Nat \ {0} /\ issued[caller[d].session] = 0
        /\ \A e \in Callers \ {d} : caller[e].session # caller[d].session
    BY Zenon, <2>1 DEF SessionInv, LoginsAreFresh
  <2>3. issued'[caller[d].session] = 0
    BY Zenon, <1>3, <2>1, <2>2 DEF SessionInv, SessionsShape
  <2>4. \A e \in Callers \ {d, c} : caller'[e].session # caller[d].session
    BY Zenon, <1>5, <2>2
  <2>5. caller'[c].session # caller[d].session
    BY Zenon, <1>6, <2>2 DEF SessionsSensible
  <2> QED BY Zenon, <2>1, <2>2, <2>3, <2>4, <2>5
<1>8. RefreshesAgeToo'
  <2> SUFFICES ASSUME NEW d \in Callers, caller'[d].pc \in {"get", "put"}
               PROVE  /\ caller'[d].session \in Sessions /\ issued'[caller'[d].session] # 0
                      /\ caller'[d].pc = "put" =>
                           /\ caller'[d].read \in Records /\ caller'[d].read.absolute \in Nat
                           /\ caller'[d].read.absolute # 0 =>
                                age'[caller'[d].session] + caller'[d].read.absolute <= AbsoluteTTL
    BY Zenon DEF RefreshesAgeToo
  <2>1. d # c /\ caller'[d] = caller[d] /\ caller[d].session # s
    BY Zenon, <1>5, <1>6
  <2> QED BY Zenon, <1>3, <2>1 DEF SessionInv, RefreshesAgeToo, SessionsShape
<1>9. Begun'
  <2> SUFFICES ASSUME NEW t \in Sessions
               PROVE  /\ issued'[t] = 0 => session'[t] = None /\ age'[t] = 0
                      /\ session'[t] # None =>
                           /\ session'[t].absolute \in Nat \ {0}
                           /\ age'[t] + session'[t].absolute <= AbsoluteTTL
    BY Zenon DEF Begun
  <2>1. CASE t # s
    BY Zenon, <1>1, <1>3, <2>1 DEF SessionInv, SessionsShape, Begun
  <2>2. CASE t = s
    BY <1>1, <1>2, <1>3, <2>2 DEF SessionInv, SessionsShape, Begun, SessionsSensible
  <2> QED BY Zenon, <2>1, <2>2
<1> QED BY Zenon, <1>4, <1>7, <1>8, <1>9 DEF SessionInv

LEMMA AuthenticateStep ==
  ASSUME SessionsSensible, SessionInv, NEW s \in Sessions, U!Authenticate(s)
  PROVE  SessionInv'
<1>1. session[s] \in Records /\ UNCHANGED <<user, caller, age, issued>>
  BY Zenon DEF U!Authenticate, SessionInv, SessionsShape
<1>2. /\ session' = [session EXCEPT ![s] = U!Touched(session[s])]
      /\ U!Touched(session[s]) \in Records /\ U!Touched(session[s]).absolute = session[s].absolute
  BY Zenon, <1>1, TouchedRecord DEF U!Authenticate
<1>3. SessionsShape'
  BY Zenon, <1>1, <1>2 DEF SessionInv, SessionsShape
<1>4. LoginsAreFresh' /\ RefreshesAgeToo'
  BY Zenon, <1>1 DEF SessionInv, LoginsAreFresh, RefreshesAgeToo
<1>5. Begun'
  BY Zenon, <1>1, <1>2 DEF U!Authenticate, SessionInv, SessionsShape, Begun, SessionsSensible
<1> QED BY Zenon, <1>3, <1>4, <1>5 DEF SessionInv

(* A caller that stops being a login or a refresh, or was none, while      *)
(* sessions disappear.                                                     *)
LEMMA QuietSessionStep ==
  ASSUME SessionsSensible, SessionInv, NEW c \in Callers,
         DOMAIN caller' = Callers, DOMAIN caller'[c] = CallerFields,
         \A d \in Callers \ {c} : caller'[d] = caller[d],
         caller'[c].pc \notin {"exchange", "get", "put"},
         caller'[c].session \in {None, caller[c].session},
         user' \in [Users -> [enabled : BOOLEAN, password : Nat \ {0}]],
         session' \in [Sessions -> Records \cup {None}],
         \A s \in Sessions : session'[s] \in {session[s], None},
         UNCHANGED <<age, issued>>
  PROVE  SessionInv'
<1>1. SessionsShape'
  BY Zenon DEF SessionInv, SessionsShape
<1>2. LoginsAreFresh'
  <2> SUFFICES ASSUME NEW d \in Callers, caller'[d].pc = "exchange"
               PROVE  /\ caller'[d].session \in Sessions /\ caller'[d].user \in Users
                      /\ caller'[d].read \in Nat \ {0}
                      /\ issued[caller'[d].session] = 0
                      /\ \A e \in Callers \ {d} : caller'[e].session # caller'[d].session
    BY Zenon DEF LoginsAreFresh
  <2>1. d # c /\ caller'[d] = caller[d]
    BY Zenon
  <2>2. /\ caller[d].session \in Sessions /\ caller[d].user \in Users
        /\ caller[d].read \in Nat \ {0} /\ issued[caller[d].session] = 0
        /\ \A e \in Callers \ {d} : caller[e].session # caller[d].session
    BY Zenon, <2>1 DEF SessionInv, LoginsAreFresh
  <2>3. caller'[c].session # caller[d].session
    BY Zenon, <2>1, <2>2 DEF SessionsSensible
  <2> QED BY Zenon, <2>1, <2>2, <2>3
<1>3. RefreshesAgeToo'
  BY Zenon DEF SessionInv, RefreshesAgeToo
<1>4. Begun'
  <2> SUFFICES ASSUME NEW s \in Sessions
               PROVE  /\ issued'[s] = 0 => session'[s] = None /\ age'[s] = 0
                      /\ session'[s] # None =>
                           /\ session'[s].absolute \in Nat \ {0}
                           /\ age'[s] + session'[s].absolute <= AbsoluteTTL
    BY Zenon DEF Begun
  <2>1. session'[s] = None \/ session'[s] = session[s]
    BY Zenon
  <2> QED BY Zenon, <2>1 DEF SessionInv, Begun
<1> QED BY Zenon, <1>1, <1>2, <1>3, <1>4 DEF SessionInv

(* A user with another password is still a user. *)
LEMMA PasswordField ==
  ASSUME NEW B, NEW P, NEW x \in P, NEW u \in Users,
         NEW f \in [Users -> [enabled : B, password : P]]
  PROVE  [f EXCEPT ![u].password = x] \in [Users -> [enabled : B, password : P]]
BY Zenon

(* So is one who is switched on or off. *)
LEMMA EnabledField ==
  ASSUME NEW P, NEW u \in Users, NEW f \in [Users -> [enabled : BOOLEAN, password : P]]
  PROVE  [f EXCEPT ![u].enabled = ~@] \in [Users -> [enabled : BOOLEAN, password : P]]
BY Zenon

LEMMA AdministratorStep ==
  ASSUME SessionsSensible, SessionInv, NEW c \in Callers,
         \/ \E u \in Users : U!RotatePassword(c, u)
         \/ U!Scan(c) \/ \E s \in Sessions : U!RevokeNext(c, s)
         \/ U!Revoked(c) \/ U!Done(c)
  PROVE  SessionInv'
<1> USE DEF SessionInv, SessionsShape
<1>1. ASSUME NEW u \in Users, U!RotatePassword(c, u)
      PROVE  SessionInv'
  <2> DEFINE new == [U!Idle EXCEPT !.pc = "scan", !.user = u, !.read = user[u].password + 1]
  <2>1. DOMAIN new = CallerFields /\ new.pc = "scan" /\ new.session = None
    BY Zenon DEF U!Idle, CallerFields
  <2>2. /\ DOMAIN caller' = Callers /\ caller'[c] = new
        /\ \A d \in Callers \ {c} : caller'[d] = caller[d]
    BY Zenon, <1>1 DEF U!RotatePassword
  <2> HIDE DEF new
  <2>3. user' \in [Users -> [enabled : BOOLEAN, password : Nat \ {0}]]
    <3>1. user' = [user EXCEPT ![u].password = user[u].password + 1]
      BY <1>1, Zenon DEF U!RotatePassword
    <3>2. user[u].password + 1 \in Nat \ {0}
      OBVIOUS
    <3> QED BY <3>1, <3>2, PasswordField, Zenon
  <2>4. session' = session /\ UNCHANGED <<age, issued>>
    BY Zenon, <1>1 DEF U!RotatePassword
  <2>5. caller'[c].pc \notin {"exchange", "get", "put"} /\ caller'[c].session \in {None, caller[c].session}
    BY Zenon, <2>1, <2>2
  <2> QED BY Zenon, <2>1, <2>2, <2>3, <2>4, <2>5, QuietSessionStep
<1>2. ASSUME U!Scan(c)
      PROVE  SessionInv'
  <2>1. /\ DOMAIN caller' = Callers /\ \A d \in Callers \ {c} : caller'[d] = caller[d]
        /\ UNCHANGED <<user, session, age, issued>>
    BY Zenon, <1>2 DEF U!Scan
  <2>2. /\ DOMAIN caller'[c] = CallerFields /\ caller'[c].pc = "revoke"
        /\ caller'[c].session = caller[c].session
    BY Zenon, <1>2 DEF U!Scan, CallerFields
  <2> QED BY Zenon, <2>1, <2>2, QuietSessionStep
<1>3. ASSUME NEW s \in Sessions, U!RevokeNext(c, s)
      PROVE  SessionInv'
  <2>1. /\ DOMAIN caller' = Callers /\ \A d \in Callers \ {c} : caller'[d] = caller[d]
        /\ UNCHANGED <<user, age, issued>>
    BY Zenon, <1>3 DEF U!RevokeNext
  <2>2. /\ DOMAIN caller'[c] = CallerFields /\ caller'[c].pc = "revoke"
        /\ caller'[c].session = caller[c].session
    BY Zenon, <1>3 DEF U!RevokeNext, CallerFields
  <2>3. /\ session' \in [Sessions -> Records \cup {None}]
        /\ \A t \in Sessions : session'[t] \in {session[t], None}
    BY Zenon, <1>3 DEF U!RevokeNext
  <2> QED BY Zenon, <2>1, <2>2, <2>3, QuietSessionStep
<1>4. ASSUME U!Revoked(c)
      PROVE  SessionInv'
  <2>1. /\ DOMAIN caller' = Callers /\ \A d \in Callers \ {c} : caller'[d] = caller[d]
        /\ UNCHANGED <<user, session, age, issued>>
    BY Zenon, <1>4 DEF U!Revoked
  <2>2. /\ DOMAIN caller'[c] = CallerFields /\ caller'[c].pc = "revoked"
        /\ caller'[c].session = caller[c].session
    BY Zenon, <1>4 DEF U!Revoked, CallerFields
  <2> QED BY Zenon, <2>1, <2>2, QuietSessionStep
<1>5. ASSUME U!Done(c)
      PROVE  SessionInv'
  <2>1. U!Answer(c) /\ UNCHANGED <<user, session, age, issued>>
    BY Zenon, <1>5 DEF U!Done
  <2> QED BY Zenon, <2>1, AnswerStep, IdleFields, QuietSessionStep
<1> QED BY Zenon, <1>1, <1>2, <1>3, <1>4, <1>5

(* Logout and SetEnabled. *)
LEMMA OutsideStep ==
  ASSUME SessionsSensible, SessionInv,
         (\E s \in Sessions : U!Logout(s)) \/ (\E u \in Users : U!SetEnabled(u))
  PROVE  SessionInv'
<1>1. UNCHANGED <<caller, age, issued>>
  BY Zenon DEF U!Logout, U!SetEnabled
<1>2. /\ user' \in [Users -> [enabled : BOOLEAN, password : Nat \ {0}]]
      /\ session' \in [Sessions -> Records \cup {None}]
      /\ \A t \in Sessions : session'[t] \in {session[t], None}
  <2>1. ASSUME NEW s \in Sessions, U!Logout(s)
        PROVE  /\ user' \in [Users -> [enabled : BOOLEAN, password : Nat \ {0}]]
               /\ session' \in [Sessions -> Records \cup {None}]
               /\ \A t \in Sessions : session'[t] \in {session[t], None}
    BY Zenon, <2>1 DEF U!Logout, SessionInv, SessionsShape
  <2>2. ASSUME NEW u \in Users, U!SetEnabled(u)
        PROVE  /\ user' \in [Users -> [enabled : BOOLEAN, password : Nat \ {0}]]
               /\ session' \in [Sessions -> Records \cup {None}]
               /\ \A t \in Sessions : session'[t] \in {session[t], None}
    <3>1. user' \in [Users -> [enabled : BOOLEAN, password : Nat \ {0}]]
      BY Zenon, <2>2, EnabledField DEF U!SetEnabled, SessionInv, SessionsShape
    <3>2. UNCHANGED session /\ session \in [Sessions -> Records \cup {None}]
      BY Zenon, <2>2 DEF U!SetEnabled, SessionInv, SessionsShape
    <3> QED BY Zenon, <3>1, <3>2
  <2> QED BY Zenon, <2>1, <2>2
<1>3. SessionsShape' /\ LoginsAreFresh' /\ RefreshesAgeToo'
  BY Zenon, <1>1, <1>2 DEF SessionInv, SessionsShape, LoginsAreFresh, RefreshesAgeToo
<1>4. Begun'
  <2> SUFFICES ASSUME NEW s \in Sessions
               PROVE  /\ issued'[s] = 0 => session'[s] = None /\ age'[s] = 0
                      /\ session'[s] # None =>
                           /\ session'[s].absolute \in Nat \ {0}
                           /\ age'[s] + session'[s].absolute <= AbsoluteTTL
    BY Zenon DEF Begun
  <2>1. session'[s] = None \/ session'[s] = session[s]
    BY Zenon, <1>2
  <2> QED BY Zenon, <1>1, <2>1 DEF SessionInv, Begun
<1> QED BY Zenon, <1>3, <1>4 DEF SessionInv
-----------------------------------------------------------------------------
(* Refreshing: authenticate, read, write back. *)
LEMMA RefreshAuthenticatesStep ==
  ASSUME SessionsSensible, SessionInv, NEW c \in Callers, NEW s \in Sessions, U!RefreshAuthenticates(c, s)
  PROVE  SessionInv'
<1> USE DEF SessionInv
<1> DEFINE new == [U!Idle EXCEPT !.pc = "get", !.session = s]
<1>1. DOMAIN new = CallerFields /\ new.pc = "get" /\ new.session = s
  BY Zenon DEF U!Idle, CallerFields
<1>2. /\ DOMAIN caller' = Callers /\ caller'[c] = new
      /\ \A d \in Callers \ {c} : caller'[d] = caller[d]
      /\ UNCHANGED <<user, age, issued>>
  BY Zenon DEF U!RefreshAuthenticates, SessionsShape
<1> HIDE DEF new
<1>3. session[s] \in Records /\ issued[s] # 0
  BY Zenon DEF U!RefreshAuthenticates, SessionsShape, Begun
<1>4. /\ session' \in [Sessions -> Records \cup {None}]
      /\ session'[s] \in Records /\ session'[s].absolute = session[s].absolute
      /\ \A t \in Sessions \ {s} : session'[t] = session[t]
  BY Zenon, <1>3, TouchedRecord DEF U!RefreshAuthenticates, SessionsShape
<1>5. SessionsShape'
  BY Zenon, <1>1, <1>2, <1>4 DEF SessionsShape
<1>6. LoginsAreFresh'
  <2> SUFFICES ASSUME NEW d \in Callers, caller'[d].pc = "exchange"
               PROVE  /\ caller'[d].session \in Sessions /\ caller'[d].user \in Users
                      /\ caller'[d].read \in Nat \ {0}
                      /\ issued[caller'[d].session] = 0
                      /\ \A e \in Callers \ {d} : caller'[e].session # caller'[d].session
    BY Zenon, <1>2 DEF LoginsAreFresh
  <2>1. d # c /\ caller'[d] = caller[d]
    BY Zenon, <1>1, <1>2
  <2> QED BY <1>1, <1>2, <1>3, <2>1 DEF LoginsAreFresh
<1>7. RefreshesAgeToo'
  BY <1>1, <1>2, <1>3 DEF RefreshesAgeToo
<1>8. Begun'
  <2> SUFFICES ASSUME NEW t \in Sessions
               PROVE  /\ issued'[t] = 0 => session'[t] = None /\ age'[t] = 0
                      /\ session'[t] # None =>
                           /\ session'[t].absolute \in Nat \ {0}
                           /\ age'[t] + session'[t].absolute <= AbsoluteTTL
    BY Zenon DEF Begun
  <2>1. CASE t = s
    BY Zenon, <1>2, <1>3, <1>4, <2>1 DEF Begun, U!RefreshAuthenticates
  <2>2. CASE t # s
    BY Zenon, <1>2, <1>4, <2>2 DEF Begun
  <2> QED BY Zenon, <2>1, <2>2
<1> QED BY Zenon, <1>5, <1>6, <1>7, <1>8

LEMMA RefreshGetsStep ==
  ASSUME SessionsSensible, SessionInv, NEW c \in Callers, U!RefreshGets(c)
  PROVE  SessionInv'
<1> USE DEF SessionInv
<1>1. UNCHANGED <<user, session, age, issued>> /\ caller[c].pc = "get"
  BY Zenon DEF U!RefreshGets
<1>2. CASE session[caller[c].session] = None
  <2>1. U!Answer(c)
    BY Zenon, <1>2 DEF U!RefreshGets
  <2> QED BY Zenon, <1>1, <2>1, AnswerStep, IdleFields, QuietSessionStep DEF SessionsShape
<1>3. CASE session[caller[c].session] # None
  <2> DEFINE s == caller[c].session
  <2>1. s \in Sessions /\ issued[s] # 0 /\ session[s] \in Records
    BY Zenon, <1>1, <1>3 DEF RefreshesAgeToo, SessionsShape
  <2>2. /\ DOMAIN caller' = Callers
        /\ \A d \in Callers \ {c} : caller'[d] = caller[d]
    BY Zenon, <1>3 DEF U!RefreshGets, SessionsShape
  <2>3. /\ DOMAIN caller'[c] = CallerFields /\ caller'[c].pc = "put"
        /\ caller'[c].session = s /\ caller'[c].read = session[s]
    BY <1>3 DEF U!RefreshGets, SessionsShape, CallerFields
  <2>4. SessionsShape'
    BY Zenon, <1>1, <2>2, <2>3 DEF SessionsShape
  <2>5. LoginsAreFresh'
    <3> SUFFICES ASSUME NEW d \in Callers, caller'[d].pc = "exchange"
                 PROVE  /\ caller'[d].session \in Sessions /\ caller'[d].user \in Users
                        /\ caller'[d].read \in Nat \ {0}
                        /\ issued[caller'[d].session] = 0
                        /\ \A e \in Callers \ {d} : caller'[e].session # caller'[d].session
      BY Zenon, <1>1 DEF LoginsAreFresh
    <3>1. d # c /\ caller'[d] = caller[d]
      BY Zenon, <2>2, <2>3
    <3> QED BY <2>1, <2>2, <2>3, <3>1 DEF LoginsAreFresh
  <2>6. RefreshesAgeToo'
    BY <1>1, <1>3, <2>1, <2>2, <2>3 DEF RefreshesAgeToo, Begun
  <2>7. Begun'
    BY Zenon, <1>1 DEF Begun
  <2> QED BY Zenon, <2>4, <2>5, <2>6, <2>7
<1> QED BY Zenon, <1>2, <1>3
LEMMA RefreshPutsStep ==
  ASSUME SessionsSensible, SessionInv, NEW c \in Callers, U!RefreshPuts(c)
  PROVE  SessionInv'
<1> USE DEF SessionInv
<1> DEFINE s == caller[c].session
           r == U!Extended(caller[c].read)
<1>1. U!Answer(c) /\ UNCHANGED <<user, age, issued>> /\ caller[c].pc = "put"
  BY Zenon DEF U!RefreshPuts
<1>2. /\ caller'[c] = U!Idle /\ \A d \in Callers \ {c} : caller'[d] = caller[d]
      /\ DOMAIN caller' = Callers /\ \A d \in Callers : DOMAIN caller'[d] = CallerFields
  BY Zenon, <1>1, AnswerStep
<1>3. CASE session' = session
  BY Zenon, <1>1, <1>2, <1>3, IdleFields, QuietSessionStep DEF SessionsShape
<1>4. CASE session' # session
  <2>1. /\ s \in Sessions /\ issued[s] # 0 /\ caller[c].read \in Records
        /\ caller[c].read.absolute \in Nat
        /\ caller[c].read.absolute # 0 => age[s] + caller[c].read.absolute <= AbsoluteTTL
    BY Zenon, <1>1 DEF RefreshesAgeToo
  <2>2. session' = [session EXCEPT ![s] = r] /\ ~(U!Least(r.idle, r.absolute) <= 0)
    BY Zenon, <1>4 DEF U!RefreshPuts
  <2>3. r \in Records /\ r.absolute = caller[c].read.absolute /\ r.idle <= r.absolute
    BY Zenon, <2>1, TouchedRecord
  <2> HIDE DEF r
  <2>4. r.absolute # 0
    BY <2>1, <2>2, <2>3 DEF U!Least, Records
  <2>5. SessionsShape'
    BY Zenon, <1>1, <1>2, <2>1, <2>2, <2>3 DEF SessionsShape
  <2>6. LoginsAreFresh'
    <3> SUFFICES ASSUME NEW d \in Callers, caller'[d].pc = "exchange"
                 PROVE  /\ caller'[d].session \in Sessions /\ caller'[d].user \in Users
                        /\ caller'[d].read \in Nat \ {0}
                        /\ issued[caller'[d].session] = 0
                        /\ \A e \in Callers \ {d} : caller'[e].session # caller'[d].session
      BY Zenon, <1>1 DEF LoginsAreFresh
    <3>1. d # c /\ caller'[d] = caller[d]
      BY Zenon, <1>2, IdleFields
    <3>2. caller[d].session \in Sessions
      BY Zenon, <3>1 DEF LoginsAreFresh
    <3> QED BY <1>2, <3>1, <3>2, IdleFields DEF LoginsAreFresh, SessionsSensible
  <2>7. RefreshesAgeToo'
    BY <1>1, <1>2, IdleFields DEF RefreshesAgeToo
  <2>8. Begun'
    <3> SUFFICES ASSUME NEW t \in Sessions
                 PROVE  /\ issued'[t] = 0 => session'[t] = None /\ age'[t] = 0
                        /\ session'[t] # None =>
                             /\ session'[t].absolute \in Nat \ {0}
                             /\ age'[t] + session'[t].absolute <= AbsoluteTTL
      BY Zenon DEF Begun
    <3>1. CASE t = s
      <4>1. session'[t] = r /\ issued'[t] # 0 /\ age'[t] = age[s]
        BY Zenon, <1>1, <2>1, <2>2, <3>1 DEF SessionsShape
      <4> QED BY Zenon, <2>1, <2>3, <2>4, <4>1
    <3>2. CASE t # s
      <4>1. session'[t] = session[t]
        BY Zenon, <2>2, <3>2 DEF SessionsShape
      <4> QED BY Zenon, <1>1, <4>1 DEF Begun
    <3> QED BY Zenon, <3>1, <3>2
  <2> QED BY Zenon, <2>5, <2>6, <2>7, <2>8
<1> QED BY Zenon, <1>3, <1>4

-----------------------------------------------------------------------------
(* Time. *)
LEMMA TickStep ==
  ASSUME SessionsSensible, SessionInv, U!Tick
  PROVE  SessionInv'
<1> USE DEF SessionInv
<1>1. UNCHANGED <<user, issued>>
  BY Zenon DEF U!Tick
<1>2. ASSUME NEW s \in Sessions
      PROVE  /\ age'[s] \in Nat /\ age'[s] <= age[s] + 1
             /\ issued[s] = 0 => age'[s] = age[s]
  BY DEF U!Tick, SessionsShape
<1>3. ASSUME NEW s \in Sessions, session'[s] # None
      PROVE  /\ session[s] # None /\ session[s] \in Records /\ session'[s] = U!Aged(session[s])
             /\ session[s].absolute # 1
  BY Zenon, <1>3 DEF U!Tick, SessionsShape
<1>4. /\ session' \in [Sessions -> Records \cup {None}] /\ age' \in [Sessions -> Nat]
  <2>1. \A s \in Sessions : session'[s] \in Records \cup {None}
    BY Zenon, <1>3, AgedRecord
  <2>2. session' = [s \in Sessions |-> session'[s]] /\ age' = [s \in Sessions |-> age'[s]]
    BY Zenon DEF U!Tick
  <2> QED BY Zenon, <1>2, <2>1, <2>2
<1>5. ASSUME NEW c \in Callers
      PROVE  /\ DOMAIN caller'[c] = CallerFields
             /\ caller'[c].pc = caller[c].pc /\ caller'[c].session = caller[c].session
             /\ caller[c].pc # "put" => caller'[c] = caller[c]
             /\ caller[c].pc = "put" =>
                  caller'[c].read = IF caller[c].read.absolute = 0 THEN caller[c].read ELSE U!Aged(caller[c].read)
  <2>1. CASE caller[c].pc # "put"
    BY Zenon, <2>1 DEF U!Tick, SessionsShape
  <2>2. CASE caller[c].pc = "put"
    <3>1. caller'[c] = [caller[c] EXCEPT !.read =
                          IF caller[c].read.absolute = 0 THEN caller[c].read ELSE U!Aged(caller[c].read)]
      BY Zenon, <2>2 DEF U!Tick
    <3>2. DOMAIN caller[c] = CallerFields
      BY Zenon DEF SessionsShape
    <3> QED BY Zenon, <2>2, <3>1, <3>2 DEF CallerFields
  <2> QED BY Zenon, <2>1, <2>2
<1>6. DOMAIN caller' = Callers
  BY Zenon DEF U!Tick
<1>7. SessionsShape'
  BY Zenon, <1>1, <1>4, <1>5, <1>6 DEF SessionsShape
<1>8. LoginsAreFresh'
  BY <1>1, <1>5 DEF LoginsAreFresh
<1>9. RefreshesAgeToo'
  <2> SUFFICES ASSUME NEW c \in Callers
               PROVE  /\ caller'[c].pc \in {"get", "put"} =>
                           caller'[c].session \in Sessions /\ issued[caller'[c].session] # 0
                      /\ caller'[c].pc = "put" =>
                           /\ caller'[c].read \in Records /\ caller'[c].read.absolute \in Nat
                           /\ caller'[c].read.absolute # 0 =>
                                age'[caller'[c].session] + caller'[c].read.absolute <= AbsoluteTTL
    BY Zenon, <1>1 DEF RefreshesAgeToo
  <2>1. caller'[c].pc \in {"get", "put"} =>
          caller'[c].session \in Sessions /\ issued[caller'[c].session] # 0
    BY Zenon, <1>5 DEF RefreshesAgeToo
  <2>2. CASE caller[c].pc = "put"
    <3> DEFINE s == caller[c].session
               r == caller[c].read
    <3>1. /\ s \in Sessions /\ r \in Records /\ r.absolute \in Nat
          /\ r.absolute # 0 => age[s] + r.absolute <= AbsoluteTTL
      BY Zenon, <2>2 DEF RefreshesAgeToo
    <3>2. caller'[c].session = s /\ caller'[c].read = IF r.absolute = 0 THEN r ELSE U!Aged(r)
      BY Zenon, <1>5, <2>2
    <3>3. U!Aged(r) \in Records /\ U!Aged(r).absolute = r.absolute - 1
      BY Zenon, <3>1, AgedRecord
    <3>4. age[s] \in Nat /\ age'[s] \in Nat /\ age'[s] <= age[s] + 1
      BY Zenon, <1>2, <3>1 DEF SessionsShape
    <3> HIDE DEF s, r
    <3>5. CASE r.absolute = 0
      BY Zenon, <2>1, <3>1, <3>2, <3>5
    <3>6. CASE r.absolute # 0
      BY <2>1, <3>1, <3>2, <3>3, <3>4, <3>6 DEF SessionsSensible
    <3> QED BY Zenon, <3>5, <3>6
  <2> QED BY Zenon, <1>5, <2>1, <2>2
<1>10. Begun'
  <2> SUFFICES ASSUME NEW s \in Sessions
               PROVE  /\ issued'[s] = 0 => session'[s] = None /\ age'[s] = 0
                      /\ session'[s] # None =>
                           /\ session'[s].absolute \in Nat \ {0}
                           /\ age'[s] + session'[s].absolute <= AbsoluteTTL
    BY Zenon DEF Begun
  <2>1. issued'[s] = 0 => session'[s] = None /\ age'[s] = 0
    BY Zenon, <1>1, <1>2, <1>3 DEF Begun
  <2>2. ASSUME session'[s] # None
        PROVE  session'[s].absolute \in Nat \ {0} /\ age'[s] + session'[s].absolute <= AbsoluteTTL
    <3>1. session'[s].absolute = session[s].absolute - 1 /\ session[s].absolute # 1 /\ session[s] # None
      BY Zenon, <1>3, <2>2, AgedRecord
    <3>2. session[s].absolute \in Nat \ {0} /\ age[s] + session[s].absolute <= AbsoluteTTL /\ age[s] \in Nat
      BY Zenon, <3>1 DEF Begun, SessionsShape
    <3>3. age'[s] \in Nat /\ age'[s] <= age[s] + 1
      BY Zenon, <1>2
    <3> QED BY <3>1, <3>2, <3>3 DEF SessionsSensible
  <2> QED BY Zenon, <2>1, <2>2
<1> QED BY Zenon, <1>7, <1>8, <1>9, <1>10
-----------------------------------------------------------------------------
LEMMA InvStep ==
  ASSUME SessionsSensible, SessionInv, [U!Next]_U!vars
  PROVE  SessionInv'
<1>1. ASSUME NEW c \in Callers, NEW s \in Sessions, NEW u \in Users, U!AuthenticateAdminUser(c, u, s)
      PROVE  SessionInv'
  BY Zenon, <1>1, LoginStep
<1>2. ASSUME NEW c \in Callers, NEW s \in Sessions, U!RefreshAuthenticates(c, s)
      PROVE  SessionInv'
  BY Zenon, <1>2, RefreshAuthenticatesStep
<1>3. ASSUME NEW c \in Callers, U!Exchange(c)
      PROVE  SessionInv'
  BY Zenon, <1>3, ExchangeStep
<1>4. ASSUME NEW c \in Callers, U!RefreshGets(c)
      PROVE  SessionInv'
  BY Zenon, <1>4, RefreshGetsStep
<1>5. ASSUME NEW c \in Callers, U!RefreshPuts(c)
      PROVE  SessionInv'
  BY Zenon, <1>5, RefreshPutsStep
<1>6. ASSUME NEW c \in Callers,
             \/ \E u \in Users : U!RotatePassword(c, u)
             \/ U!Scan(c) \/ \E s \in Sessions : U!RevokeNext(c, s)
             \/ U!Revoked(c) \/ U!Done(c)
      PROVE  SessionInv'
  BY Zenon, <1>6, AdministratorStep
<1>7. ASSUME NEW s \in Sessions, U!Authenticate(s)
      PROVE  SessionInv'
  BY Zenon, <1>7, AuthenticateStep
<1>8. CASE (\E s \in Sessions : U!Logout(s)) \/ (\E u \in Users : U!SetEnabled(u))
  BY Zenon, <1>8, OutsideStep
<1>9. CASE U!Tick
  BY Zenon, <1>9, TickStep
<1>10. CASE UNCHANGED U!vars
  BY <1>10 DEF U!vars, SessionInv, SessionsShape, LoginsAreFresh, RefreshesAgeToo, Begun
<1> QED BY <1>1, <1>2, <1>3, <1>4, <1>5, <1>6, <1>7, <1>8, <1>9, <1>10, Zenon DEF U!Next

-----------------------------------------------------------------------------
(* Revocation.  Caller c revokes, or has revoked; Old(c, s): a session of  *)
(* the user from before the change is stored, or a login or a refresh is   *)
(* about to store it.                                                      *)
Revoking(c) == caller[c].pc \in {"revoke", "revoked"}

Covered(c, s) == s \in caller[c].todo \cup caller[c].overlapped

Old(c, s) ==
  \/ session[s] # None /\ session[s].user = caller[c].user /\ issued[s] < caller[c].read
  \/ \E d \in Callers : /\ caller[d].pc = "put" /\ caller[d].session = s
                        /\ caller[d].read.user = caller[c].user /\ issued[s] < caller[c].read
  \/ \E d \in Callers : /\ caller[d].pc = "exchange" /\ caller[d].session = s
                        /\ caller[d].user = caller[c].user /\ caller[d].read < caller[c].read

(* The password that was set is not ahead of the user's. *)
ChangesAreMade ==
  \A c \in Callers : Revoking(c) \/ caller[c].pc = "scan" =>
    /\ caller[c].user \in Users /\ caller[c].read \in Nat
    /\ caller[c].read <= user[caller[c].user].password

(* What is old is still to be looked at, or was being written meanwhile. *)
OldIsCovered ==
  \A c \in Callers, s \in Sessions : Revoking(c) /\ Old(c, s) => Covered(c, s)

RevokedIsDone == \A c \in Callers : caller[c].pc = "revoked" => caller[c].todo = {}

RevocationInv == SessionInv /\ ChangesAreMade /\ OldIsCovered /\ RevokedIsDone

LEMMA UserOfRecord ==
  ASSUME NEW r \in Records
  PROVE  U!Touched(r).user = r.user /\ U!Extended(r).user = r.user /\ U!Aged(r).user = r.user
BY Zenon DEF Records, U!Touched, U!Extended, U!Aged

(* A step that leaves those who revoke alone and makes nothing old. *)
LEMMA RevocationStays ==
  ASSUME RevocationInv, SessionInv',
         \A c \in Callers : Revoking(c)' \/ caller'[c].pc = "scan" => caller'[c] = caller[c],
         \A u \in Users : user'[u].password = user[u].password,
         \A c \in Callers, s \in Sessions : Revoking(c) /\ caller'[c] = caller[c] /\ Old(c, s)' => Old(c, s)
  PROVE  RevocationInv'
<1>1. ChangesAreMade'
  BY Zenon DEF RevocationInv, ChangesAreMade, Revoking
<1>2. OldIsCovered'
  BY Zenon DEF RevocationInv, OldIsCovered, Revoking, Covered
<1>3. RevokedIsDone'
  BY Zenon DEF RevocationInv, RevokedIsDone, Revoking
<1> QED BY Zenon, <1>1, <1>2, <1>3 DEF RevocationInv

LEMMA RevocationLogin ==
  ASSUME RevocationInv, SessionInv', NEW c \in Callers, NEW u \in Users, NEW s \in Sessions,
         U!AuthenticateAdminUser(c, u, s)
  PROVE  RevocationInv'
<1> DEFINE new == [U!Idle EXCEPT !.pc = "exchange", !.user = u, !.session = s, !.read = user[u].password]
<1>1. /\ new.pc = "exchange" /\ new.user = u /\ new.session = s /\ new.read = user[u].password
  BY Zenon DEF U!Idle
<1>2. /\ caller'[c] = new /\ \A d \in Callers \ {c} : caller'[d] = caller[d]
      /\ UNCHANGED <<user, session, age, issued>>
  BY Zenon DEF U!AuthenticateAdminUser, RevocationInv, SessionInv, SessionsShape
<1> HIDE DEF new
<1>3. ASSUME NEW d \in Callers, NEW t \in Sessions, Revoking(d), caller'[d] = caller[d], Old(d, t)'
      PROVE  Old(d, t)
  <2>1. d # c
    BY Zenon, <1>1, <1>2, <1>3 DEF Revoking
  <2>2. caller[d].read \in Nat /\ caller[d].read <= user[caller[d].user].password
    BY Zenon, <1>3 DEF RevocationInv, ChangesAreMade
  <2>3. user[u].password \in Nat
    BY Zenon DEF RevocationInv, SessionInv, SessionsShape
  <2>4. ~(caller'[c].user = caller[d].user /\ caller'[c].read < caller[d].read)
    BY <1>1, <1>2, <2>2, <2>3
  <2> QED BY Zenon, <1>1, <1>2, <1>3, <2>4 DEF Old
<1> QED BY Zenon, <1>1, <1>2, <1>3, RevocationStays DEF Revoking

LEMMA RevocationExchange ==
  ASSUME RevocationInv, SessionInv', NEW c \in Callers, U!Exchange(c)
  PROVE  RevocationInv'
<1> DEFINE s == caller[c].session
<1>1. /\ caller'[c] = U!Idle /\ \A d \in Callers \ {c} : caller'[d] = caller[d]
      /\ caller[c].pc = "exchange" /\ UNCHANGED user
  BY Zenon, AnswerStep DEF U!Exchange, RevocationInv
<1>2. s \in Sessions /\ \A d \in Callers \ {c} : caller[d].session # s
  BY Zenon, <1>1 DEF RevocationInv, SessionInv, LoginsAreFresh
<1>3. /\ session'[s].user = caller[c].user /\ issued'[s] = caller[c].read
      /\ \A t \in Sessions \ {s} : session'[t] = session[t] /\ issued'[t] = issued[t]
  BY Zenon, <1>2 DEF U!Exchange, RevocationInv, SessionInv, SessionsShape, U!Record
<1> HIDE DEF s
<1>4. ASSUME NEW d \in Callers, NEW t \in Sessions, Revoking(d), caller'[d] = caller[d], Old(d, t)'
      PROVE  Old(d, t)
  <2>1. \A e \in Callers : caller'[e].pc \in {"put", "exchange"} => e # c /\ caller'[e] = caller[e]
    BY Zenon, <1>1, IdleFields
  <2>2. CASE t = s
    <3>1. ~\E e \in Callers : caller'[e].pc \in {"put", "exchange"} /\ caller'[e].session = t
      BY Zenon, <1>2, <2>1, <2>2
    <3>2. caller[c].user = caller[d].user /\ caller[c].read < caller[d].read
      BY Zenon, <1>3, <1>4, <2>2, <3>1 DEF Old
    <3> QED BY Zenon, <1>1, <2>2, <3>2 DEF Old, s
  <2>3. CASE t # s
    BY <1>3, <1>4, <2>1, <2>3 DEF Old
  <2> QED BY Zenon, <2>2, <2>3
<1> QED BY Zenon, <1>1, <1>4, IdleFields, RevocationStays DEF Revoking

LEMMA RevocationAuthenticates ==
  ASSUME SessionsSensible, RevocationInv, SessionInv', NEW s \in Sessions, session[s] # None,
         session' = [session EXCEPT ![s] = U!Touched(@)], UNCHANGED <<user, issued>>,
         \/ UNCHANGED caller
         \/ \E c \in Callers : caller' = [caller EXCEPT ![c] = [U!Idle EXCEPT !.pc = "get", !.session = s]]
  PROVE  RevocationInv'
<1>1. /\ session'[s].user = session[s].user /\ session'[s] # None
      /\ \A t \in Sessions \ {s} : session'[t] = session[t]
  <2>1. session[s] \in Records
    BY Zenon DEF RevocationInv, SessionInv, SessionsShape
  <2> QED BY <2>1, UserOfRecord, TouchedRecord DEF RevocationInv, SessionInv, SessionsShape, SessionsSensible
<1>2. \A d \in Callers : caller'[d] = caller[d] \/ caller'[d].pc = "get"
  <2>1. CASE UNCHANGED caller
    BY Zenon, <2>1
  <2>2. ASSUME NEW c \in Callers, caller' = [caller EXCEPT ![c] = [U!Idle EXCEPT !.pc = "get", !.session = s]]
        PROVE  \A d \in Callers : caller'[d] = caller[d] \/ caller'[d].pc = "get"
    <3>1. [U!Idle EXCEPT !.pc = "get", !.session = s].pc = "get"
      BY DEF U!Idle
    <3>2. DOMAIN caller = Callers
      BY Zenon DEF RevocationInv, SessionInv, SessionsShape
    <3> QED BY Zenon, <2>2, <3>1, <3>2
  <2> QED BY Zenon, <2>1, <2>2
<1>3. ASSUME NEW d \in Callers, NEW t \in Sessions, Revoking(d), caller'[d] = caller[d], Old(d, t)'
      PROVE  Old(d, t)
  <2>1. \A e \in Callers : caller'[e].pc \in {"put", "exchange"} => caller'[e] = caller[e]
    BY Zenon, <1>2
  <2>2. session'[t] # None => session[t] # None /\ session'[t].user = session[t].user
    BY Zenon, <1>1
  <2> QED BY Zenon, <1>3, <2>1, <2>2 DEF Old
<1> QED BY Zenon, <1>2, <1>3, RevocationStays DEF Revoking

LEMMA RevocationGets ==
  ASSUME RevocationInv, SessionInv', NEW c \in Callers, U!RefreshGets(c)
  PROVE  RevocationInv'
<1> DEFINE s == caller[c].session
<1>1. UNCHANGED <<user, session, issued>> /\ caller[c].pc = "get" /\ s \in Sessions
  BY Zenon DEF U!RefreshGets, RevocationInv, SessionInv, RefreshesAgeToo
<1>2. CASE session[s] = None
  <2>1. caller'[c] = U!Idle /\ \A d \in Callers \ {c} : caller'[d] = caller[d]
    BY Zenon, <1>2, AnswerStep DEF U!RefreshGets, RevocationInv
  <2>2. \A e \in Callers : caller'[e].pc \in {"put", "exchange"} => caller'[e] = caller[e]
    BY Zenon, <2>1, IdleFields
  <2>3. ASSUME NEW d \in Callers, NEW t \in Sessions, Revoking(d), caller'[d] = caller[d], Old(d, t)'
        PROVE  Old(d, t)
    BY Zenon, <1>1, <2>2, <2>3 DEF Old
  <2> QED BY Zenon, <1>1, <2>1, <2>3, IdleFields, RevocationStays DEF Revoking
<1>3. CASE session[s] # None
  <2>1. /\ caller'[c].pc = "put" /\ caller'[c].session = s /\ caller'[c].read = session[s]
        /\ \A d \in Callers \ {c} : caller'[d] = caller[d]
    BY <1>3 DEF U!RefreshGets, RevocationInv, SessionInv, SessionsShape, CallerFields
  <2> HIDE DEF s
  <2>2. ASSUME NEW d \in Callers, NEW t \in Sessions, Revoking(d), caller'[d] = caller[d], Old(d, t)'
        PROVE  Old(d, t)
    BY <1>1, <1>3, <2>1, <2>2 DEF Old
  <2> QED BY Zenon, <1>1, <2>1, <2>2, RevocationStays DEF Revoking
<1> QED BY Zenon, <1>2, <1>3

LEMMA RevocationPuts ==
  ASSUME SessionsSensible, RevocationInv, SessionInv', NEW c \in Callers, U!RefreshPuts(c)
  PROVE  RevocationInv'
<1> DEFINE s == caller[c].session
<1>1. UNCHANGED <<user, issued>> /\ caller[c].pc = "put" /\ s \in Sessions
  BY Zenon DEF U!RefreshPuts, RevocationInv, SessionInv, RefreshesAgeToo
<1>2. caller'[c] = U!Idle /\ \A d \in Callers \ {c} : caller'[d] = caller[d]
  BY Zenon, AnswerStep DEF U!RefreshPuts, RevocationInv
<1>3. \A t \in Sessions : session'[t] # session[t] => t = s /\ session'[t].user = caller[c].read.user
  <2>1. caller[c].read \in Records
    BY Zenon, <1>1 DEF RevocationInv, SessionInv, RefreshesAgeToo
  <2>2. U!Extended(caller[c].read).user = caller[c].read.user
    BY Zenon, <2>1, UserOfRecord
  <2> QED BY Zenon, <1>1, <2>2 DEF U!RefreshPuts, RevocationInv, SessionInv, SessionsShape
<1> HIDE DEF s
<1>4. ASSUME NEW d \in Callers, NEW t \in Sessions, Revoking(d), caller'[d] = caller[d], Old(d, t)'
      PROVE  Old(d, t)
  <2>1. \A e \in Callers : caller'[e].pc \in {"put", "exchange"} => caller'[e] = caller[e]
    BY Zenon, <1>2, IdleFields
  <2>2. CASE session'[t] = session[t]
    BY Zenon, <1>1, <1>4, <2>1, <2>2 DEF Old
  <2>3. CASE session'[t] # session[t]
    BY Zenon, <1>1, <1>3, <1>4, <2>1, <2>3 DEF Old, s
  <2> QED BY Zenon, <2>2, <2>3
<1> QED BY Zenon, <1>1, <1>2, <1>4, IdleFields, RevocationStays DEF Revoking

LEMMA RevocationTick ==
  ASSUME SessionsSensible, RevocationInv, SessionInv', U!Tick
  PROVE  RevocationInv'
<1>1. UNCHANGED <<user, issued>>
  BY Zenon DEF U!Tick
<1>2. \A t \in Sessions : session'[t] # None => session[t] # None /\ session'[t].user = session[t].user
  <2> SUFFICES ASSUME NEW t \in Sessions, session'[t] # None
               PROVE  session[t] # None /\ session'[t].user = session[t].user
    BY Zenon
  <2>1. session[t] # None /\ session'[t] = U!Aged(session[t]) /\ session[t] \in Records
    BY Zenon DEF U!Tick, RevocationInv, SessionInv, SessionsShape
  <2> QED BY Zenon, <2>1, UserOfRecord
<1>3. ASSUME NEW d \in Callers
      PROVE  /\ caller[d].pc # "put" => caller'[d] = caller[d]
             /\ caller[d].pc = "put" => /\ caller'[d].pc = "put" /\ caller'[d].session = caller[d].session
                                        /\ caller'[d].read.user = caller[d].read.user
  <2>1. CASE caller[d].pc # "put"
    BY Zenon, <2>1 DEF U!Tick
  <2>2. CASE caller[d].pc = "put"
    <3>1. caller'[d] = [caller[d] EXCEPT !.read =
                          IF caller[d].read.absolute = 0 THEN caller[d].read ELSE U!Aged(caller[d].read)]
      BY Zenon, <2>2 DEF U!Tick
    <3>2. DOMAIN caller[d] = CallerFields /\ caller[d].read \in Records
      BY Zenon, <2>2 DEF RevocationInv, SessionInv, SessionsShape, RefreshesAgeToo
    <3>3. /\ caller'[d].pc = "put" /\ caller'[d].session = caller[d].session
          /\ caller'[d].read = IF caller[d].read.absolute = 0 THEN caller[d].read ELSE U!Aged(caller[d].read)
      BY Zenon, <2>2, <3>1, <3>2 DEF CallerFields
    <3> QED BY Zenon, <2>2, <3>2, <3>3, UserOfRecord
  <2> QED BY Zenon, <2>1, <2>2
<1>4. ASSUME NEW d \in Callers, NEW t \in Sessions, Revoking(d), caller'[d] = caller[d], Old(d, t)'
      PROVE  Old(d, t)
  <2>1. session'[t] # None /\ session'[t].user = caller[d].user /\ issued[t] < caller[d].read => Old(d, t)
    BY Zenon, <1>2 DEF Old
  <2>2. ASSUME NEW e \in Callers, caller'[e].pc = "put", caller'[e].session = t,
               caller'[e].read.user = caller[d].user, issued[t] < caller[d].read
        PROVE  Old(d, t)
    <3>1. caller[e].pc = "put"
      BY Zenon, <1>3, <2>2
    <3> QED BY Zenon, <1>3, <2>2, <3>1 DEF Old
  <2>3. ASSUME NEW e \in Callers, caller'[e].pc = "exchange", caller'[e].session = t,
               caller'[e].user = caller[d].user, caller'[e].read < caller[d].read
        PROVE  Old(d, t)
    <3>1. caller'[e] = caller[e]
      BY Zenon, <1>3, <2>3
    <3> QED BY Zenon, <2>3, <3>1 DEF Old
  <2> QED BY Zenon, <1>1, <1>4, <2>1, <2>2, <2>3 DEF Old
<1> QED BY Zenon, <1>1, <1>3, <1>4, RevocationStays DEF Revoking

(* A password that is changed is behind nobody. *)
LEMMA RevocationRotates ==
  ASSUME RevocationInv, SessionInv', NEW c \in Callers, NEW u \in Users, U!RotatePassword(c, u)
  PROVE  RevocationInv'
<1> DEFINE new == [U!Idle EXCEPT !.pc = "scan", !.user = u, !.read = user[u].password + 1]
<1>1. /\ new.pc = "scan" /\ new.user = u /\ new.read = user[u].password + 1
  BY Zenon DEF U!Idle
<1>2. /\ caller'[c] = new /\ \A d \in Callers \ {c} : caller'[d] = caller[d]
      /\ UNCHANGED <<session, issued>>
  BY Zenon DEF U!RotatePassword, RevocationInv, SessionInv, SessionsShape
<1> HIDE DEF new
<1>3. \A v \in Users : user[v].password \in Nat
  BY Zenon DEF RevocationInv, SessionInv, SessionsShape
<1>4. /\ user'[u].password = user[u].password + 1
      /\ \A v \in Users \ {u} : user'[v].password = user[v].password
  BY DEF U!RotatePassword, RevocationInv, SessionInv, SessionsShape
<1>5. ChangesAreMade'
  <2> SUFFICES ASSUME NEW d \in Callers, Revoking(d)' \/ caller'[d].pc = "scan"
               PROVE  /\ caller'[d].user \in Users /\ caller'[d].read \in Nat
                      /\ caller'[d].read <= user'[caller'[d].user].password
    BY Zenon DEF ChangesAreMade
  <2>1. CASE d = c
    BY <1>1, <1>2, <1>3, <1>4, <2>1
  <2>2. CASE d # c
    <3>1. /\ caller'[d] = caller[d] /\ caller[d].user \in Users /\ caller[d].read \in Nat
          /\ caller[d].read <= user[caller[d].user].password
      BY Zenon, <1>2, <2>2 DEF RevocationInv, ChangesAreMade, Revoking
    <3>2. user'[caller[d].user].password >= user[caller[d].user].password
      BY <1>3, <1>4, <3>1
    <3>3. user[caller[d].user].password \in Nat /\ user'[caller[d].user].password \in Nat
      BY <1>3, <1>4, <3>1
    <3> QED BY <3>1, <3>2, <3>3
  <2> QED BY Zenon, <2>1, <2>2
<1>6. OldIsCovered'
  <2> SUFFICES ASSUME NEW d \in Callers, NEW t \in Sessions, Revoking(d)', Old(d, t)'
               PROVE  Covered(d, t)'
    BY Zenon DEF OldIsCovered
  <2>1. d # c /\ caller'[d] = caller[d]
    BY Zenon, <1>1, <1>2 DEF Revoking
  <2>2. \A e \in Callers : caller'[e].pc \in {"put", "exchange"} => caller'[e] = caller[e]
    BY Zenon, <1>1, <1>2
  <2>3. Old(d, t)
    BY Zenon, <1>2, <2>1, <2>2 DEF Old
  <2> QED BY Zenon, <2>1, <2>3 DEF RevocationInv, OldIsCovered, Revoking, Covered
<1>7. RevokedIsDone'
  BY Zenon, <1>1, <1>2 DEF RevocationInv, RevokedIsDone
<1> QED BY Zenon, <1>5, <1>6, <1>7 DEF RevocationInv

LEMMA RevocationScans ==
  ASSUME RevocationInv, SessionInv', NEW c \in Callers, U!Scan(c)
  PROVE  RevocationInv'
<1>1. /\ \A d \in Callers \ {c} : caller'[d] = caller[d]
      /\ caller[c].pc = "scan" /\ UNCHANGED <<user, session, issued>>
  BY Zenon DEF U!Scan, RevocationInv, SessionInv, SessionsShape
<1>2. /\ caller'[c].pc = "revoke" /\ caller'[c].user = caller[c].user /\ caller'[c].read = caller[c].read
      /\ caller'[c].todo = {s \in Sessions : session[s] # None} /\ caller'[c].overlapped = U!Writers
  BY DEF U!Scan, RevocationInv, SessionInv, SessionsShape, CallerFields
<1>3. \A e \in Callers : caller'[e].pc \in {"put", "exchange"} => caller'[e] = caller[e]
  BY Zenon, <1>1, <1>2
<1>4. ChangesAreMade'
  BY Zenon, <1>1, <1>2 DEF RevocationInv, ChangesAreMade, Revoking
<1>5. OldIsCovered'
  <2> SUFFICES ASSUME NEW d \in Callers, NEW t \in Sessions, Revoking(d)', Old(d, t)'
               PROVE  Covered(d, t)'
    BY Zenon DEF OldIsCovered
  <2>1. Old(d, t)
    BY <1>1, <1>2, <1>3 DEF Old
  <2>2. CASE d = c
    <3>1. session[t] # None \/ t \in U!Writers
      BY Zenon, <2>1 DEF Old, U!Writers
    <3> QED BY Zenon, <1>2, <2>2, <3>1 DEF Covered
  <2>3. CASE d # c
    BY Zenon, <1>1, <2>1, <2>3 DEF RevocationInv, OldIsCovered, Revoking, Covered
  <2> QED BY Zenon, <2>2, <2>3
<1>6. RevokedIsDone'
  BY Zenon, <1>1, <1>2 DEF RevocationInv, RevokedIsDone
<1> QED BY Zenon, <1>4, <1>5, <1>6 DEF RevocationInv

LEMMA RevocationRevokes ==
  ASSUME RevocationInv, SessionInv', NEW c \in Callers, NEW s \in Sessions, U!RevokeNext(c, s)
  PROVE  RevocationInv'
<1>1. /\ \A d \in Callers \ {c} : caller'[d] = caller[d]
      /\ caller[c].pc = "revoke" /\ UNCHANGED <<user, issued>>
  BY Zenon DEF U!RevokeNext, RevocationInv, SessionInv, SessionsShape
<1>2. /\ caller'[c].pc = "revoke" /\ caller'[c].user = caller[c].user /\ caller'[c].read = caller[c].read
      /\ caller'[c].todo = caller[c].todo \ {s}
      /\ caller'[c].overlapped = caller[c].overlapped \cup U!Writers
  BY Zenon DEF U!RevokeNext, RevocationInv, SessionInv, SessionsShape, CallerFields
<1>3. /\ \A t \in Sessions : session'[t] = session[t] \/ session'[t] = None
      /\ session'[s] # None => session[s] # None /\ session[s].user # caller[c].user /\ session'[s] = session[s]
  BY Zenon DEF U!RevokeNext, U!Belongs, RevocationInv, SessionInv, SessionsShape
<1>4. \A e \in Callers : caller'[e].pc \in {"put", "exchange"} => caller'[e] = caller[e]
  BY Zenon, <1>1, <1>2
<1>5. ChangesAreMade'
  BY Zenon, <1>1, <1>2 DEF RevocationInv, ChangesAreMade, Revoking
<1>6. OldIsCovered'
  <2> SUFFICES ASSUME NEW d \in Callers, NEW t \in Sessions, Revoking(d)', Old(d, t)'
               PROVE  Covered(d, t)'
    BY Zenon DEF OldIsCovered
  <2>1. Old(d, t)
    BY <1>1, <1>2, <1>3, <1>4 DEF Old
  <2>2. CASE d = c /\ t = s
    <3>1. t \in U!Writers
      BY <1>1, <1>2, <1>3, <1>4, <2>2 DEF Old, U!Writers
    <3> QED BY Zenon, <1>2, <2>2, <3>1 DEF Covered
  <2>3. CASE d = c /\ t # s
    BY Zenon, <1>1, <1>2, <2>1, <2>3 DEF RevocationInv, OldIsCovered, Revoking, Covered
  <2>4. CASE d # c
    BY Zenon, <1>1, <2>1, <2>4 DEF RevocationInv, OldIsCovered, Revoking, Covered
  <2> QED BY Zenon, <2>2, <2>3, <2>4
<1>7. RevokedIsDone'
  BY Zenon, <1>1, <1>2 DEF RevocationInv, RevokedIsDone
<1> QED BY Zenon, <1>5, <1>6, <1>7 DEF RevocationInv

LEMMA RevocationEnds ==
  ASSUME RevocationInv, SessionInv', NEW c \in Callers, U!Revoked(c) \/ U!Done(c)
  PROVE  RevocationInv'
<1>1. CASE U!Revoked(c)
  <2>1. /\ \A d \in Callers \ {c} : caller'[d] = caller[d]
        /\ caller[c].pc = "revoke" /\ caller[c].todo = {} /\ UNCHANGED <<user, session, issued>>
    BY Zenon, <1>1 DEF U!Revoked, RevocationInv, SessionInv, SessionsShape
  <2>2. /\ caller'[c].pc = "revoked" /\ caller'[c].user = caller[c].user /\ caller'[c].read = caller[c].read
        /\ caller'[c].todo = caller[c].todo /\ caller'[c].overlapped = caller[c].overlapped
    BY Zenon, <1>1 DEF U!Revoked, RevocationInv, SessionInv, SessionsShape, CallerFields
  <2>3. \A e \in Callers : caller'[e].pc \in {"put", "exchange"} => caller'[e] = caller[e]
    BY Zenon, <2>1, <2>2
  <2>4. ChangesAreMade' /\ RevokedIsDone'
    BY Zenon, <2>1, <2>2 DEF RevocationInv, ChangesAreMade, RevokedIsDone, Revoking
  <2>5. ASSUME NEW d \in Callers, NEW t \in Sessions, Revoking(d)', Old(d, t)'
        PROVE  Covered(d, t)'
    <3>1. Old(d, t) /\ Revoking(d)
      BY <2>1, <2>2, <2>3, <2>5 DEF Old, Revoking
    <3> QED BY Zenon, <2>1, <2>2, <3>1 DEF RevocationInv, OldIsCovered, Covered
  <2> QED BY Zenon, <2>4, <2>5 DEF RevocationInv, OldIsCovered
<1>2. CASE U!Done(c)
  <2>1. /\ caller'[c] = U!Idle /\ \A d \in Callers \ {c} : caller'[d] = caller[d]
        /\ UNCHANGED <<user, session, issued>>
    BY Zenon, <1>2, AnswerStep DEF U!Done, RevocationInv
  <2>2. \A e \in Callers : caller'[e].pc \in {"put", "exchange"} => caller'[e] = caller[e]
    BY Zenon, <2>1, IdleFields
  <2>3. ASSUME NEW d \in Callers, NEW t \in Sessions, Revoking(d), caller'[d] = caller[d], Old(d, t)'
        PROVE  Old(d, t)
    BY Zenon, <2>1, <2>2, <2>3 DEF Old
  <2> QED BY Zenon, <2>1, <2>3, IdleFields, RevocationStays DEF Revoking
<1> QED BY Zenon, <1>1, <1>2

LEMMA RevocationOutside ==
  ASSUME RevocationInv, SessionInv', UNCHANGED <<caller, issued>>,
         \A t \in Sessions : session'[t] \in {session[t], None},
         \A u \in Users : user'[u].password = user[u].password
  PROVE  RevocationInv'
<1>1. ASSUME NEW d \in Callers, NEW t \in Sessions, Revoking(d), caller'[d] = caller[d], Old(d, t)'
      PROVE  Old(d, t)
  BY Zenon, <1>1 DEF Old
<1> QED BY Zenon, <1>1, RevocationStays DEF Revoking

LEMMA RevocationStep ==
  ASSUME SessionsSensible, RevocationInv, [U!Next]_U!vars
  PROVE  RevocationInv'
<1>1. SessionInv'
  BY Zenon, InvStep DEF RevocationInv
<1>2. ASSUME NEW c \in Callers, NEW s \in Sessions, NEW u \in Users, U!AuthenticateAdminUser(c, u, s)
      PROVE  RevocationInv'
  BY Zenon, <1>1, <1>2, RevocationLogin
<1>3. ASSUME NEW c \in Callers, NEW s \in Sessions, U!RefreshAuthenticates(c, s)
      PROVE  RevocationInv'
  BY Zenon, <1>1, <1>3, RevocationAuthenticates DEF U!RefreshAuthenticates
<1>4. ASSUME NEW c \in Callers, NEW s \in Sessions, U!RevokeNext(c, s)
      PROVE  RevocationInv'
  BY Zenon, <1>1, <1>4, RevocationRevokes
<1>5. ASSUME NEW c \in Callers, NEW u \in Users, U!RotatePassword(c, u)
      PROVE  RevocationInv'
  BY Zenon, <1>1, <1>5, RevocationRotates
<1>6. ASSUME NEW c \in Callers, U!Exchange(c)
      PROVE  RevocationInv'
  BY Zenon, <1>1, <1>6, RevocationExchange
<1>7. ASSUME NEW c \in Callers, U!RefreshGets(c)
      PROVE  RevocationInv'
  BY Zenon, <1>1, <1>7, RevocationGets
<1>8. ASSUME NEW c \in Callers, U!RefreshPuts(c)
      PROVE  RevocationInv'
  BY Zenon, <1>1, <1>8, RevocationPuts
<1>9. ASSUME NEW c \in Callers, U!Scan(c)
      PROVE  RevocationInv'
  BY Zenon, <1>1, <1>9, RevocationScans
<1>10. ASSUME NEW c \in Callers, U!Revoked(c) \/ U!Done(c)
       PROVE  RevocationInv'
  BY Zenon, <1>1, <1>10, RevocationEnds
<1>11. ASSUME NEW s \in Sessions, U!Authenticate(s)
       PROVE  RevocationInv'
  BY Zenon, <1>1, <1>11, RevocationAuthenticates DEF U!Authenticate
<1>12. ASSUME NEW s \in Sessions, U!Logout(s)
       PROVE  RevocationInv'
  BY Zenon, <1>1, <1>12, RevocationOutside DEF U!Logout, RevocationInv, SessionInv, SessionsShape
<1>13. ASSUME NEW u \in Users, U!SetEnabled(u)
       PROVE  RevocationInv'
  <2>1. \A v \in Users : user'[v].password = user[v].password
    BY Zenon, <1>13 DEF U!SetEnabled, RevocationInv, SessionInv, SessionsShape
  <2> QED BY Zenon, <1>1, <1>13, <2>1, RevocationOutside DEF U!SetEnabled
<1>14. CASE U!Tick
  BY Zenon, <1>1, <1>14, RevocationTick
<1>15. CASE UNCHANGED U!vars
  BY Zenon, <1>1, <1>15, RevocationOutside DEF U!vars
<1> QED BY Zenon, <1>2, <1>3, <1>4, <1>5, <1>6, <1>7, <1>8, <1>9, <1>10, <1>11, <1>12, <1>13, <1>14,
           <1>15 DEF U!Next

(* Passwords are counted up to their bound, and a session that is stored   *)
(* has some idle time left.                                                *)
Counted ==
  /\ \A u \in Users : user[u].password \in 1..MaxPasswords
  /\ \A s \in Sessions : session[s] # None => session[s].idle \in 1..IdleTTL

LEMMA CountedStep ==
  ASSUME SessionsSensible, SessionInv, Counted, [U!Next]_U!vars
  PROVE  Counted'
<1> USE DEF SessionInv, SessionsShape
<1>1. \A u \in Users : user'[u].password \in 1..MaxPasswords
  <2>1. ASSUME NEW c \in Callers, NEW u \in Users, U!RotatePassword(c, u)
        PROVE  \A v \in Users : user'[v].password \in 1..MaxPasswords
    BY <2>1 DEF U!RotatePassword, Counted, SessionsSensible
  <2>2. ASSUME NEW u \in Users, U!SetEnabled(u)
        PROVE  \A v \in Users : user'[v].password \in 1..MaxPasswords
    <3>1. \A v \in Users : user'[v].password = user[v].password
      BY Zenon, <2>2 DEF U!SetEnabled
    <3> QED BY Zenon, <3>1 DEF Counted
  <2>3. CASE UNCHANGED user
    BY Zenon, <2>3 DEF Counted
  <2> QED BY <2>1, <2>2, <2>3
          DEF U!Next, U!vars, U!AuthenticateAdminUser, U!RefreshAuthenticates, U!RevokeNext, U!Exchange, U!RefreshGets,
              U!RefreshPuts, U!Scan, U!Revoked, U!Done, U!Authenticate, U!Logout, U!Tick
<1>2. ASSUME NEW s \in Sessions, session'[s] # None
      PROVE  session'[s].idle \in 1..IdleTTL
  <2>1. CASE session'[s] = session[s]
    BY Zenon, <1>2, <2>1 DEF Counted
  <2>2. CASE session[s] # None /\ session'[s] = U!Touched(session[s])
    <3>1. session[s] \in Records /\ session[s].absolute \in Nat \ {0}
      BY Zenon, <2>2 DEF Begun
    <3>2. U!Touched(session[s]).idle = U!Least(IdleTTL, session[s].absolute)
      BY Zenon, <3>1 DEF U!Touched, Records
    <3> QED BY <2>2, <3>1, <3>2 DEF U!Least, SessionsSensible
  <2>3. CASE U!Tick
    <3>1. session[s] # None /\ session[s].idle # 1 /\ session'[s] = U!Aged(session[s]) /\ session[s] \in Records
      BY Zenon, <1>2, <2>3 DEF U!Tick
    <3>2. U!Aged(session[s]).idle = session[s].idle - 1
      BY Zenon, <3>1 DEF U!Aged, Records
    <3>3. session[s].idle \in 1..IdleTTL
      BY Zenon, <3>1 DEF Counted
    <3> QED BY <3>1, <3>2, <3>3 DEF SessionsSensible
  <2>4. ASSUME NEW c \in Callers, U!RefreshPuts(c), session'[s] # session[s]
        PROVE  session'[s].idle \in 1..IdleTTL
    <3> DEFINE r == U!Extended(caller[c].read)
    <3>1. caller[c].read \in Records
      BY Zenon, <2>4 DEF U!RefreshPuts, RefreshesAgeToo
    <3>2. session'[s] = r /\ ~(U!Least(r.idle, r.absolute) <= 0)
      BY Zenon, <2>4 DEF U!RefreshPuts
    <3>3. r \in Records /\ r.idle = U!Least(IdleTTL, caller[c].read.absolute)
      BY Zenon, <3>1, TouchedRecord DEF U!Extended, Records
    <3>4. r.idle <= IdleTTL /\ r.idle > 0 /\ r.idle \in Int
      <4> HIDE DEF r
      <4> QED BY <3>1, <3>2, <3>3 DEF U!Least, Records, SessionsSensible
    <3> QED BY <3>2, <3>4 DEF SessionsSensible
  <2>5. ASSUME NEW c \in Callers, U!Exchange(c), session'[s] # session[s]
        PROVE  session'[s].idle \in 1..IdleTTL
    <3>1. session'[s] = U!Record(caller[c].user, IdleTTL, AbsoluteTTL)
      BY Zenon, <2>5 DEF U!Exchange
    <3> QED BY <3>1 DEF U!Record, SessionsSensible
  <2>6. ASSUME NEW t \in Sessions, session' = [session EXCEPT ![t] = None] \/ session' = session
        PROVE  session'[s] = session[s]
    BY Zenon, <1>2, <2>6
  <2>7. ASSUME NEW t \in Sessions, session[t] # None, session' = [session EXCEPT ![t] = U!Touched(@)]
        PROVE  session'[s] = session[s] \/ (session[s] # None /\ session'[s] = U!Touched(session[s]))
    BY Zenon, <2>7
  <2>8. CASE UNCHANGED session
    BY Zenon, <2>1, <2>8
  <2>9. ASSUME NEW c \in Callers, NEW t \in Sessions, U!RevokeNext(c, t)
         PROVE  session'[s] = session[s]
    BY Zenon, <2>6, <2>9 DEF U!RevokeNext
  <2>10. ASSUME NEW t \in Sessions, U!Logout(t)
         PROVE  session'[s] = session[s]
    BY Zenon, <2>6, <2>10 DEF U!Logout
  <2>11. ASSUME NEW c \in Callers, NEW t \in Sessions, U!RefreshAuthenticates(c, t)
         PROVE  session'[s] = session[s] \/ (session[s] # None /\ session'[s] = U!Touched(session[s]))
    BY Zenon, <2>7, <2>11 DEF U!RefreshAuthenticates
  <2>12. ASSUME NEW t \in Sessions, U!Authenticate(t)
         PROVE  session'[s] = session[s] \/ (session[s] # None /\ session'[s] = U!Touched(session[s]))
    BY Zenon, <2>7, <2>12 DEF U!Authenticate
  <2> QED BY Zenon, <2>1, <2>2, <2>3, <2>4, <2>5, <2>8, <2>9, <2>10, <2>11, <2>12
          DEF U!Next, U!vars, U!AuthenticateAdminUser, U!RefreshGets, U!Scan, U!Revoked, U!Done, U!SetEnabled, U!RotatePassword
<1> QED BY Zenon, <1>1, <1>2 DEF Counted

(* Sessions end: each within its times to live, and those from before a    *)
(* change of the password by the revocation that follows it, unless a      *)
(* login or a refresh was under way meanwhile.                             *)
THEOREM RevocationCompletes == ASSUME SessionsSensible PROVE U!Spec => []U!RevocationIsComplete
<1> DEFINE Inv == RevocationInv /\ Counted
<1>1. U!Init => Inv
  <2> SUFFICES ASSUME U!Init PROVE Inv
    BY Zenon
  <2>1. SessionInv
    BY Zenon, InvInit
  <2>2. \A c \in Callers : caller[c].pc = "idle"
    BY Zenon, IdleFields DEF U!Init
  <2>3. ChangesAreMade /\ OldIsCovered /\ RevokedIsDone
    BY Zenon, <2>2 DEF ChangesAreMade, OldIsCovered, RevokedIsDone, Revoking
  <2>4. Counted
    BY DEF U!Init, Counted, SessionsSensible
  <2> QED BY Zenon, <2>1, <2>3, <2>4 DEF RevocationInv
<1>2. Inv /\ [U!Next]_U!vars => Inv'
  BY Zenon, RevocationStep, CountedStep DEF RevocationInv
<1>3. Inv => U!RevocationIsComplete
  <2> SUFFICES ASSUME Inv PROVE U!RevocationIsComplete
    BY Zenon
  <2>1. U!EndsInTime
    BY Zenon DEF RevocationInv, SessionInv, Begun, U!EndsInTime
  <2>2. U!RevokedAreGone
    BY Zenon DEF RevocationInv, OldIsCovered, RevokedIsDone, Revoking, Covered, Old, U!RevokedAreGone
  <2>3. U!TypeOK
    <3>1. user \in [Users -> [enabled : BOOLEAN, password : 1..MaxPasswords]]
      <4>1. user \in [Users -> [enabled : BOOLEAN, password : Nat \ {0}]]
        BY Zenon DEF RevocationInv, SessionInv, SessionsShape
      <4>2. \A u \in Users : user[u].password \in 1..MaxPasswords
        BY Zenon DEF Counted
      <4> QED BY Zenon, <4>1, <4>2
    <3>2. ASSUME NEW s \in Sessions, session[s] # None
          PROVE  session[s].idle \in 1..IdleTTL /\ session[s].absolute \in 1..AbsoluteTTL
      <4>1. /\ session[s].absolute \in Nat \ {0} /\ age[s] + session[s].absolute <= AbsoluteTTL
            /\ age[s] \in Nat
        BY Zenon, <3>2 DEF RevocationInv, SessionInv, SessionsShape, Begun
      <4> QED BY <3>2, <4>1 DEF Counted, SessionsSensible
    <3> QED BY Zenon, <3>1, <3>2 DEF U!TypeOK
  <2> QED BY Zenon, <2>1, <2>2, <2>3 DEF U!RevocationIsComplete
<1> QED BY <1>1, <1>2, <1>3, PTL DEF U!Spec

-----------------------------------------------------------------------------
(* Applications *)

CONSTANTS Editors, Clients, Names, Urls, Attempts, MaxEdits
VARIABLES app, enabled, endpoint, revoked, update, client

A == INSTANCE Applications WITH MaxVersion <- MaxEdits, editor <- update

(* What the proofs assume of the constants: None is no row of an endpoint. *)
NoneIsNoRow == \A u, on : None # [url |-> u, enabled |-> on]

(* An update that is about to write has checked exactly what it will write *)
(* if nothing has changed.                                                 *)
WritesAreChecked ==
  \A e \in Editors :
    update[e].pc = "write" => A!validate(A!Merged(update[e].expected, update[e].patch))

(* The latest of the versions is the only valid one. *)
VersionsAgree == revoked \in Seq(BOOLEAN) /\ \A v \in 1..Len(revoked) : revoked[v] <=> v < Len(revoked)

EditorFields == {"pc", "patch", "expected", "round"}

EditorsKeepShape ==
  DOMAIN update = Editors /\ \A e \in Editors : DOMAIN update[e] = EditorFields

ApplicationInv ==
  EditorsKeepShape /\ WritesAreChecked /\ A!CallbacksHaveUrl /\ A!EndpointAgrees /\ VersionsAgree

-----------------------------------------------------------------------------
LEMMA ApplicationInit ==
  ASSUME A!Init
  PROVE  ApplicationInv
<1>1. PICK p \in [Editors -> A!Patches] :
        \A e \in Editors : update[e] = [pc |-> "read", patch |-> p[e], expected |-> None, round |-> 1]
  <2> DEFINE start(q) == [pc |-> "read", patch |-> q, expected |-> None, round |-> 1]
  <2>1. \A e \in Editors : \E q \in A!Patches : update[e] = start(q)
    BY Zenon DEF A!Init
  <2>2. \A e \in Editors : update[e] = start(CHOOSE q \in A!Patches : update[e] = start(q))
    BY Zenon, <2>1
  <2>3. [e \in Editors |-> CHOOSE q \in A!Patches : update[e] = start(q)] \in [Editors -> A!Patches]
    BY Zenon, <2>1
  <2> QED BY Zenon, <2>2, <2>3
<1>2. EditorsKeepShape /\ WritesAreChecked
  BY <1>1 DEF A!Init, EditorsKeepShape, EditorFields, WritesAreChecked
<1>3. A!CallbacksHaveUrl /\ A!EndpointAgrees /\ VersionsAgree
  BY DEF A!Init, A!CallbacksHaveUrl, A!EndpointAgrees, VersionsAgree
<1> QED BY Zenon, <1>2, <1>3 DEF ApplicationInv

LEMMA CreateStep ==
  ASSUME ApplicationInv, NEW config \in A!Configs, A!CreateApplication(config)
  PROVE  ApplicationInv'
<1>1. EditorsKeepShape' /\ WritesAreChecked'
  BY Zenon DEF ApplicationInv, EditorsKeepShape, WritesAreChecked, A!CreateApplication
<1>2. A!CallbacksHaveUrl' /\ A!EndpointAgrees'
  BY Zenon DEF A!CreateApplication, A!CallbacksHaveUrl, A!EndpointAgrees
<1>3. VersionsAgree'
  <2>1. revoked' = <<FALSE>>
    BY Zenon DEF A!CreateApplication
  <2>2. revoked' \in Seq(BOOLEAN) /\ Len(revoked') = 1 /\ revoked'[1] = FALSE
    BY <2>1
  <2>3. \A v \in 1..Len(revoked') : v = 1 /\ ~(v < Len(revoked'))
    BY <2>2
  <2> QED BY <2>2, <2>3, Zenon DEF VersionsAgree
<1> QED BY Zenon, <1>1, <1>2, <1>3 DEF ApplicationInv

LEMMA ReadStep ==
  ASSUME ApplicationInv, NEW e \in Editors, A!GetApplication(e)
  PROVE  ApplicationInv'
<1>1. EditorsKeepShape'
  BY Zenon DEF ApplicationInv, EditorsKeepShape, EditorFields, A!GetApplication, A!End
<1>2. WritesAreChecked'
  <2> SUFFICES ASSUME NEW f \in Editors, update'[f].pc = "write"
               PROVE  A!validate(A!Merged(update'[f].expected, update'[f].patch))
    BY Zenon DEF WritesAreChecked
  <2>1. CASE f # e
    BY Zenon, <2>1 DEF ApplicationInv, EditorsKeepShape, WritesAreChecked, A!GetApplication, A!End
  <2>2. CASE f = e
    <3>1. A!validate(A!Merged(app, update[e].patch))
      BY Zenon, <2>2 DEF ApplicationInv, EditorsKeepShape, EditorFields, A!GetApplication, A!End
    <3>2. update'[e].expected = app /\ update'[e].patch = update[e].patch
      BY <3>1 DEF ApplicationInv, EditorsKeepShape, EditorFields, A!GetApplication
    <3> QED BY Zenon, <2>2, <3>1, <3>2
  <2> QED BY Zenon, <2>1, <2>2
<1>3. A!CallbacksHaveUrl' /\ A!EndpointAgrees' /\ VersionsAgree'
  BY Zenon DEF ApplicationInv, A!GetApplication, A!CallbacksHaveUrl, A!EndpointAgrees, VersionsAgree
<1> QED BY Zenon, <1>1, <1>2, <1>3 DEF ApplicationInv

LEMMA WriteStep ==
  ASSUME ApplicationInv, NEW e \in Editors, A!CompareAndSwap(e)
  PROVE  ApplicationInv'
<1>1. EditorsKeepShape'
  BY Zenon DEF ApplicationInv, EditorsKeepShape, EditorFields, A!CompareAndSwap, A!End
<1>2. WritesAreChecked'
  <2> SUFFICES ASSUME NEW f \in Editors, update'[f].pc = "write"
               PROVE  A!validate(A!Merged(update'[f].expected, update'[f].patch))
    BY Zenon DEF WritesAreChecked
  <2>1. update'[e].pc # "write"
    BY DEF ApplicationInv, EditorsKeepShape, EditorFields, A!CompareAndSwap, A!End
  <2>2. update'[f] = update[f]
    BY Zenon, <2>1 DEF ApplicationInv, EditorsKeepShape, A!CompareAndSwap, A!End
  <2> QED BY Zenon, <2>2 DEF ApplicationInv, WritesAreChecked
<1>3. A!CallbacksHaveUrl' /\ A!EndpointAgrees'
  <2>1. CASE A!Unchanged(e)
    <3>1. A!validate(A!Merged(update[e].expected, update[e].patch))
      BY Zenon DEF ApplicationInv, WritesAreChecked, A!CompareAndSwap
    <3>2. /\ app' = A!Merged(update[e].expected, update[e].patch)
          /\ endpoint' = A!EndpointOf(app', enabled) /\ enabled' = enabled
      BY Zenon, <2>1 DEF A!CompareAndSwap, A!EndpointEnabled
    <3> QED BY Zenon, <3>1, <3>2 DEF A!CallbacksHaveUrl, A!EndpointAgrees
  <2>2. CASE ~A!Unchanged(e)
    BY Zenon, <2>2 DEF ApplicationInv, A!CompareAndSwap, A!CallbacksHaveUrl, A!EndpointAgrees
  <2> QED BY Zenon, <2>1, <2>2
<1>4. VersionsAgree'
  BY Zenon DEF ApplicationInv, A!CompareAndSwap, VersionsAgree
<1> QED BY Zenon, <1>1, <1>2, <1>3, <1>4 DEF ApplicationInv

LEMMA RowExcept ==
  \A u, on, off : [[url |-> u, enabled |-> on] EXCEPT !.enabled = off] = [url |-> u, enabled |-> off]
OBVIOUS

LEMMA DisableStep ==
  ASSUME NoneIsNoRow, ApplicationInv, A!Disable
  PROVE  ApplicationInv'
<1>1. EditorsKeepShape' /\ WritesAreChecked' /\ A!CallbacksHaveUrl' /\ VersionsAgree'
  BY Zenon DEF ApplicationInv, EditorsKeepShape, WritesAreChecked, A!CallbacksHaveUrl, VersionsAgree, A!Disable
<1>2. A!EndpointAgrees'
  <2> SUFFICES ASSUME app # None
               PROVE  endpoint' = A!EndpointOf(app, FALSE)
    BY Zenon DEF A!EndpointAgrees, A!Disable
  <2>1. endpoint = A!EndpointOf(app, enabled)
    BY Zenon DEF ApplicationInv, A!EndpointAgrees
  <2>2. CASE app.url = None
    BY Zenon, <2>1, <2>2 DEF A!EndpointOf, A!Disable
  <2>3. CASE app.url # None
    <3>1. endpoint = [url |-> app.url, enabled |-> enabled] /\ endpoint # None
      BY <2>1, <2>3, Zenon DEF A!EndpointOf, NoneIsNoRow
    <3>2. endpoint' = [endpoint EXCEPT !.enabled = FALSE]
      BY Zenon, <3>1 DEF A!Disable
    <3>3. [[url |-> app.url, enabled |-> enabled] EXCEPT !.enabled = FALSE]
            = [url |-> app.url, enabled |-> FALSE]
      BY RowExcept, Zenon
    <3>4. endpoint' = [url |-> app.url, enabled |-> FALSE]
      BY <3>1, <3>2, <3>3, Zenon
    <3> QED BY <2>3, <3>4, Zenon DEF A!EndpointOf
  <2> QED BY Zenon, <2>2, <2>3
<1> QED BY Zenon, <1>1, <1>2 DEF ApplicationInv

LEMMA RotateStep ==
  ASSUME ApplicationInv, A!RotateSecret
  PROVE  ApplicationInv'
<1>1. EditorsKeepShape' /\ WritesAreChecked' /\ A!CallbacksHaveUrl' /\ A!EndpointAgrees'
  BY Zenon DEF ApplicationInv, EditorsKeepShape, WritesAreChecked, A!CallbacksHaveUrl, A!EndpointAgrees, A!RotateSecret
<1> DEFINE old == [v \in DOMAIN revoked |-> TRUE]
<1>2. old \in Seq(BOOLEAN) /\ Len(old) = Len(revoked)
  <2>1. Len(revoked) \in Nat /\ DOMAIN revoked = 1..Len(revoked)
    BY DEF ApplicationInv, VersionsAgree
  <2>2. old = [v \in 1..Len(revoked) |-> TRUE]
    BY Zenon, <2>1
  <2> QED BY <2>1, <2>2
<1>3. revoked' = Append(old, FALSE)
  BY Zenon DEF A!RotateSecret
<1>4. VersionsAgree'
  <2>1. revoked' \in Seq(BOOLEAN) /\ Len(revoked') = Len(revoked) + 1
    BY <1>2, <1>3
  <2>2. ASSUME NEW v \in 1..Len(revoked')
        PROVE  revoked'[v] <=> v < Len(revoked')
    <3>1. Len(revoked) \in Nat /\ DOMAIN revoked = 1..Len(revoked)
      BY DEF ApplicationInv, VersionsAgree
    <3>2. CASE v = Len(revoked) + 1
      BY <1>2, <1>3, <2>1, <3>1, <3>2
    <3>3. CASE v \in 1..Len(revoked)
      BY <1>2, <1>3, <2>1, <3>1, <3>3
    <3> QED BY <2>1, <2>2, <3>1, <3>2, <3>3
  <2> QED BY Zenon, <2>1, <2>2 DEF VersionsAgree
<1> QED BY Zenon, <1>1, <1>4 DEF ApplicationInv

LEMMA ApplicationStep ==
  ASSUME NoneIsNoRow, ApplicationInv, [A!Next]_A!vars
  PROVE  ApplicationInv'
<1>1. ASSUME NEW c \in Clients, A!FindCredential(c) \/ A!CheckEnabled(c)
      PROVE  UNCHANGED <<app, enabled, endpoint, revoked, update>>
  BY Zenon, <1>1 DEF A!FindCredential, A!CheckEnabled
<1>2. ASSUME UNCHANGED <<app, enabled, endpoint, revoked, update>>
      PROVE  ApplicationInv'
  BY Zenon, <1>2 DEF ApplicationInv, EditorsKeepShape, WritesAreChecked, A!CallbacksHaveUrl,
              A!EndpointAgrees, VersionsAgree
<1>3. CASE UNCHANGED A!vars
  BY Zenon, <1>2, <1>3 DEF A!vars
<1> QED
  BY Zenon, <1>1, <1>2, <1>3, CreateStep, ReadStep, WriteStep, DisableStep, RotateStep DEF A!Next

-----------------------------------------------------------------------------
(* The invariant that the theorems rest on is an invariant. *)
THEOREM ApplicationInvariant ==
  ASSUME NoneIsNoRow
  PROVE  A!Spec => []ApplicationInv
BY ApplicationInit, ApplicationStep, PTL DEF A!Spec

(* CompareAndSwapApplication and syncCallback: however updates, disabling  *)
(* and rotation overlap, the endpoint row agrees with the application row, *)
(* and an application that wants callbacks has a URL.                      *)
THEOREM EndpointFollowsApplication ==
  ASSUME NoneIsNoRow
  PROVE  A!Spec => [](A!EndpointAgrees /\ A!CallbacksHaveUrl)
<1>1. ApplicationInv => A!EndpointAgrees /\ A!CallbacksHaveUrl
  BY Zenon DEF ApplicationInv
<1> QED BY <1>1, ApplicationInvariant, PTL

(* RotateSecret: the latest version of the credential is valid, and no     *)
(* other.                                                                  *)
THEOREM OneCredentialIsValid ==
  ASSUME NoneIsNoRow
  PROVE  A!Spec => []A!LatestCredentialIsValid
<1>1. ApplicationInv => A!LatestCredentialIsValid
  BY DEF ApplicationInv, VersionsAgree, A!LatestCredentialIsValid
<1> QED BY <1>1, ApplicationInvariant, PTL

(* UpdateApplication: the fields that a request does not set keep what     *)
(* other requests have written since it read them.                         *)
THEOREM UpdatesKeepOtherFields ==
  ASSUME NoneIsNoRow
  PROVE  A!Spec => A!OnlyPatchedFields
<1> DEFINE Keeps == \A e \in Editors : update[e].pc = "write" /\ update'[e].pc = "done" =>
                      \A f \in A!Fields : app'[f] = IF f \in DOMAIN update[e].patch
                                                  THEN update[e].patch[f] ELSE app[f]
<1>1. ApplicationInv /\ [A!Next]_A!vars => [Keeps]_A!vars
  <2> SUFFICES ASSUME ApplicationInv, A!Next,
                      NEW e \in Editors, update[e].pc = "write", update'[e].pc = "done",
                      NEW f \in A!Fields
               PROVE  app'[f] = IF f \in DOMAIN update[e].patch THEN update[e].patch[f] ELSE app[f]
    BY Zenon DEF A!vars
  <2>1. PICK d \in Editors : A!GetApplication(d) \/ A!CompareAndSwap(d)
    BY Zenon DEF A!Next, A!CreateApplication, A!Disable, A!RotateSecret, A!FindCredential, A!CheckEnabled
  <2>2. d = e
    BY Zenon, <2>1 DEF ApplicationInv, EditorsKeepShape, A!GetApplication, A!CompareAndSwap, A!End
  <2>3. A!CompareAndSwap(e)
    BY Zenon, <2>1, <2>2 DEF A!GetApplication
  <2>4. A!Unchanged(e)
    BY <2>3 DEF ApplicationInv, EditorsKeepShape, EditorFields, A!CompareAndSwap, A!End
  <2> QED BY Zenon, <2>3, <2>4 DEF A!CompareAndSwap, A!Unchanged, A!Merged
<1> QED BY <1>1, ApplicationInvariant, PTL DEF A!Spec, A!OnlyPatchedFields

-----------------------------------------------------------------------------
(* InstanceRegistry *)

CONSTANTS Processes, TTL, MaxStarted
VARIABLES process, started, latest, member

R == INSTANCE InstanceRegistry

(* What the proofs assume of the constants: a generation is never None and *)
(* a record that is written lasts.                                         *)
RecordsLast == None \notin Processes /\ TTL \in Nat \ {0} /\ MaxStarted \in Nat

-----------------------------------------------------------------------------
LEMMA RegistryInit ==
  ASSUME RecordsLast, R!Init
  PROVE  R!TypeOK
BY DEF RecordsLast, R!Init, R!TypeOK, R!Vacant

LEMMA TakeKeepsTypes ==
  ASSUME RecordsLast, R!TypeOK, NEW p \in Processes, R!Take(p)
  PROVE  /\ member' \in [by : Processes \cup {None}, left : 0..TTL]
         /\ member'.by = None <=> member'.left = 0
BY DEF RecordsLast, R!TypeOK, R!Take

LEMMA RegistryStep ==
  ASSUME RecordsLast, R!TypeOK, [R!Next]_R!vars
  PROVE  R!TypeOK'
<1> USE DEF RecordsLast
<1>1. ASSUME NEW p \in Processes, R!NewInstance(p)
      PROVE  R!TypeOK'
  BY <1>1 DEF R!NewInstance, R!TypeOK
<1>2. ASSUME NEW p \in Processes, R!FirstHeartbeat(p)
      PROVE  R!TypeOK'
  <2>1. CASE R!MayTake(p)
    BY Zenon, <1>2, <2>1, TakeKeepsTypes DEF R!FirstHeartbeat, R!TypeOK
  <2>2. CASE ~R!MayTake(p)
    BY Zenon, <1>2, <2>2 DEF R!FirstHeartbeat, R!TypeOK
  <2> QED BY Zenon, <2>1, <2>2
<1>3. ASSUME NEW p \in Processes, R!Heartbeat(p)
      PROVE  R!TypeOK'
  <2>1. CASE R!MayTake(p)
    BY Zenon, <1>3, <2>1, TakeKeepsTypes DEF R!Heartbeat, R!TypeOK
  <2>2. CASE ~R!MayTake(p)
    BY Zenon, <1>3, <2>2 DEF R!Heartbeat, R!TypeOK
  <2> QED BY Zenon, <2>1, <2>2
<1>4. ASSUME NEW p \in Processes, R!Cancel(p) \/ R!Die(p)
      PROVE  R!TypeOK'
  BY Zenon, <1>4 DEF R!Cancel, R!Die, R!TypeOK
<1>5. ASSUME NEW p \in Processes, R!ReleaseInstance(p)
      PROVE  R!TypeOK'
  <2>1. member' = member \/ member' = R!Vacant
    BY Zenon, <1>5 DEF R!ReleaseInstance, R!Released
  <2> QED BY <1>5, <2>1 DEF R!ReleaseInstance, R!TypeOK, R!Vacant
<1>6. CASE R!Tick
  <2>1. CASE member.left <= 1
    BY <1>6, <2>1 DEF R!Tick, R!TypeOK, R!Vacant
  <2>2. CASE ~(member.left <= 1)
    BY <1>6, <2>2 DEF R!Tick, R!TypeOK
  <2> QED BY Zenon, <2>1, <2>2
<1>7. CASE UNCHANGED R!vars
  BY Zenon, <1>7 DEF R!vars, R!TypeOK
<1> QED BY Zenon, <1>1, <1>2, <1>3, <1>4, <1>5, <1>6, <1>7 DEF R!Next

(* Only four steps write the record: both heartbeats by the rule of        *)
(* heartbeatScript, the release, and time.                                 *)
LEMMA RecordStep ==
  ASSUME RecordsLast, R!TypeOK, [R!Next]_R!vars, member.by # None, member'.by # member.by
  PROVE  \/ \E p \in Processes : member'.by = p /\ started[p] > started[member.by]
         \/ member' = R!Vacant /\ (member.left = 1 \/ process[member.by] = "cancelled")
<1>1. ASSUME NEW p \in Processes, R!MayTake(p), R!Take(p)
      PROVE  member'.by = p /\ started[p] > started[member.by]
  BY Zenon, <1>1 DEF R!MayTake, R!Take, R!TypeOK
<1>2. ASSUME NEW p \in Processes, R!FirstHeartbeat(p) \/ R!Heartbeat(p)
      PROVE  R!MayTake(p) /\ R!Take(p)
  BY Zenon, <1>2 DEF R!FirstHeartbeat, R!Heartbeat
<1>3. ASSUME NEW p \in Processes, R!ReleaseInstance(p)
      PROVE  member' = R!Vacant /\ process[member.by] = "cancelled"
  BY Zenon, <1>3 DEF R!ReleaseInstance, R!Released, R!MayRelease
<1>4. ASSUME R!Tick
      PROVE  member' = R!Vacant /\ member.left = 1
  <2>1. member.left \in Nat /\ member.left # 0
    BY DEF R!TypeOK, RecordsLast
  <2> QED BY <1>4, <2>1 DEF R!Tick
<1>5. ASSUME NEW p \in Processes, R!NewInstance(p) \/ R!Cancel(p) \/ R!Die(p)
      PROVE  FALSE
  BY Zenon, <1>5 DEF R!NewInstance, R!Cancel, R!Die
<1>6. CASE UNCHANGED R!vars
  BY Zenon, <1>6 DEF R!vars
<1> QED BY Zenon, <1>1, <1>2, <1>3, <1>4, <1>5, <1>6 DEF R!Next

-----------------------------------------------------------------------------
(* Every record of a process and of the registry keeps its type, and a     *)
(* record exists exactly while it has time left.                           *)
THEOREM RegistryTypes ==
  ASSUME RecordsLast
  PROVE  R!Spec => []R!TypeOK
BY RegistryInit, RegistryStep, PTL DEF R!Spec

(* heartbeatScript and releaseInstanceScript: whatever processes hang,     *)
(* die or come back, while a record lasts it passes only to a process that *)
(* was started later.                                                      *)
THEOREM SuccessorIsSafe ==
  ASSUME RecordsLast
  PROVE  R!Spec => R!SuccessorKeepsRecord
<1>1. R!TypeOK /\ [R!Next]_R!vars =>
        [member.by # None /\ member'.by # member.by =>
           \/ \E p \in Processes : member'.by = p /\ started[p] > started[member.by]
           \/ member' = R!Vacant /\ (member.left = 1 \/ process[member.by] = "cancelled")]_R!vars
  BY Zenon, RecordStep
<1> QED BY <1>1, RegistryTypes, PTL DEF R!Spec, R!SuccessorKeepsRecord

-----------------------------------------------------------------------------
(* Process *)

CONSTANTS Workers, Requests
VARIABLES role, phase, opened, live, running, listener, worker, request, stream, hub, outcome

D == INSTANCE Process

DependencyNames == {"redis", "recorder", "nats", "postgres", "hub", "bridge", "runtime", "stream", "dashboard"}

Phases == {"start", "serve", "drain", "close hub", "shutdown", "unwind", "exited"}
Results == {"off", "on", "failed", "done", "collected"}
Outcomes == {"clean", "start failed", "worker failed", "listener failed", "timed out"}

ProcessTyped ==
  /\ role \in {"api", "worker"}
  /\ phase \in Phases
  /\ live \in BOOLEAN /\ running \in BOOLEAN /\ stream \in BOOLEAN
  /\ listener \in {"off", "on", "failed"}
  /\ worker \in [Workers -> Results]
  /\ request \in [Requests -> BOOLEAN]
  /\ hub \in {"off", "on", "closed"}
  /\ outcome \in Outcomes

(* What is open is a prefix of the dependencies, and all of them while the *)
(* process serves.                                                         *)
OpenInOrder ==
  /\ opened \in Seq(DependencyNames) /\ Len(opened) <= Len(D!Dependencies)
  /\ \A i \in 1..Len(opened) : opened[i] = D!Dependencies[i]
  /\ phase \in {"serve", "drain", "close hub", "shutdown"} => Len(opened) = Len(D!Dependencies)

(* Who uses the stores: nobody before the process serves; a worker process *)
(* has no requests and an API process no workers; after a clean end nobody *)
(* does any more.                                                          *)
NoWorker == \A w \in Workers : worker[w] # "on"
Unused == NoWorker /\ D!Idle /\ ~stream

UsersEnd ==
  /\ phase = "start" => listener = "off" /\ Unused
  /\ role = "worker" => D!Idle /\ ~stream
  /\ role = "api" => NoWorker
  /\ phase \in {"drain", "close hub"} => role = "api"
  /\ outcome = "clean" /\ phase = "shutdown" /\ role = "worker" => Unused
  /\ outcome = "clean" /\ phase \in {"close hub", "shutdown"} => ~stream
  /\ outcome = "clean" /\ phase \in {"unwind", "exited"} => Unused
  /\ role = "api" /\ phase \in {"unwind", "exited"} => listener # "on"
  /\ phase = "exited" => Unused

ProcessInv == ProcessTyped /\ OpenInOrder /\ UsersEnd

-----------------------------------------------------------------------------
LEMMA DependenciesAre ==
  ASSUME role \in {"api", "worker"}
  PROVE  /\ D!Dependencies \in Seq(DependencyNames) /\ Len(D!Dependencies) \in Nat /\ Len(D!Dependencies) >= 7
         /\ D!Dependencies[1] = "redis" /\ D!Dependencies[3] = "nats" /\ D!Dependencies[4] = "postgres"
<1>1. CASE role = "api"
  BY <1>1 DEF D!Dependencies, DependencyNames
<1>2. CASE role = "worker"
  BY <1>2 DEF D!Dependencies, DependencyNames
<1> QED BY Zenon, <1>1, <1>2

LEMMA Shortened ==
  ASSUME NEW T, NEW q \in Seq(T), NEW n \in 0..Len(q)
  PROVE  LET p == SubSeq(q, 1, n) IN
         p \in Seq(T) /\ Len(p) = n /\ \A i \in 1..n : p[i] = q[i]
<1>1. n \in Nat /\ \A i \in 1..n : q[i] \in T
  OBVIOUS
<1> QED BY <1>1

LEMMA Lengthened ==
  ASSUME NEW T, NEW q \in Seq(T), NEW x \in T
  PROVE  LET p == Append(q, x) IN
         p \in Seq(T) /\ Len(p) = Len(q) + 1 /\ (\A i \in 1..Len(q) : p[i] = q[i]) /\ p[Len(q) + 1] = x
OBVIOUS

LEMMA TypedStep ==
  ASSUME ProcessInv, [D!Next]_D!vars
  PROVE  ProcessTyped' /\ UNCHANGED role
<1>1. ProcessTyped
  BY Zenon DEF ProcessInv
<1>2. CASE D!MainStep
  <2>1. ASSUME NEW w \in Workers, D!Collect(w)
        PROVE  ProcessTyped' /\ UNCHANGED role
    BY Zenon, <1>1, <2>1 DEF D!Collect, ProcessTyped, Phases, Outcomes, Results
  <2>2. CASE D!Open \/ D!OpenFails \/ D!Serve \/ D!ShutdownWorker \/ D!ServeFails \/ D!Stop
    BY <1>1, <2>2 DEF D!Open, D!OpenFails, D!Serve, D!ShutdownWorker, D!ServeFails, D!Stop, ProcessTyped, Phases, Outcomes, Results
  <2>3. CASE D!DrainStream \/ D!CloseHub \/ D!Shutdown \/ D!ShutdownEnds \/ D!Close \/ D!Exit
    <3>1. CASE D!DrainStream
      BY Zenon, <1>1, <3>1 DEF D!DrainStream, ProcessTyped, Phases, Outcomes, Results
    <3>2. CASE D!CloseHub \/ D!Shutdown
      BY Zenon, <1>1, <3>2 DEF D!CloseHub, D!Shutdown, ProcessTyped, Phases, Outcomes, Results
    <3>3. CASE D!ShutdownEnds
      BY Zenon, <1>1, <3>3 DEF D!ShutdownEnds, ProcessTyped, Phases, Outcomes, Results
    <3>4. CASE D!Close \/ D!Exit
      BY Zenon, <1>1, <3>4 DEF D!Close, D!Exit, ProcessTyped, Phases, Outcomes, Results
    <3> QED BY Zenon, <2>3, <3>1, <3>2, <3>3, <3>4
  <2> QED BY Zenon, <1>2, <2>1, <2>2, <2>3 DEF D!MainStep
<1>3. ASSUME NEW w \in Workers, D!WorkerEnds(w)
      PROVE  ProcessTyped' /\ UNCHANGED role
  <2>1. worker' \in [Workers -> Results]
    <3>1. PICK result \in {"failed", "done"} : worker' = [worker EXCEPT ![w] = result]
      BY Zenon, <1>3 DEF D!WorkerEnds
    <3> QED BY Zenon, <1>1, <3>1 DEF ProcessTyped, Phases, Outcomes, Results
  <2>2. UNCHANGED <<role, phase, opened, live, running, listener, request, stream, hub, outcome>>
    BY Zenon, <1>3 DEF D!WorkerEnds
  <2> QED BY Zenon, <1>1, <2>1, <2>2 DEF ProcessTyped
<1>4. ASSUME NEW r \in Requests, D!RequestBegins(r) \/ D!RequestEnds(r) \/ D!Upgrade(r)
      PROVE  ProcessTyped' /\ UNCHANGED role
  <2>1. /\ \E b \in BOOLEAN : request' = [request EXCEPT ![r] = b]
        /\ UNCHANGED <<role, phase, opened, live, running, listener, worker, hub, outcome>>
        /\ stream' \in {stream, TRUE}
    BY Zenon, <1>4 DEF D!RequestBegins, D!RequestEnds, D!Upgrade
  <2>2. request' \in [Requests -> BOOLEAN]
    <3>1. PICK b \in BOOLEAN : request' = [request EXCEPT ![r] = b]
      BY Zenon, <2>1
    <3> QED BY Zenon, <1>1, <3>1 DEF ProcessTyped, Phases, Outcomes, Results
  <2>3. stream' \in BOOLEAN
    BY Zenon, <1>1, <2>1 DEF ProcessTyped, Phases, Outcomes, Results
  <2> QED BY Zenon, <1>1, <2>1, <2>2, <2>3 DEF ProcessTyped
<1>5. CASE D!Signal \/ D!ListenerFails \/ D!StreamEnds \/ UNCHANGED D!vars
  BY <1>1, <1>5 DEF D!Signal, D!ListenerFails, D!StreamEnds, D!vars, ProcessTyped, Phases, Outcomes, Results
<1> QED BY Zenon, <1>2, <1>3, <1>4, <1>5 DEF D!Next

LEMMA OrderStep ==
  ASSUME ProcessInv, [D!Next]_D!vars
  PROVE  OpenInOrder'
<1>1. UNCHANGED role /\ D!Dependencies' = D!Dependencies
  BY Zenon, TypedStep DEF D!Dependencies
<1>2. /\ opened \in Seq(DependencyNames) /\ Len(opened) <= Len(D!Dependencies)
      /\ \A i \in 1..Len(opened) : opened[i] = D!Dependencies[i]
      /\ phase \in {"serve", "drain", "close hub", "shutdown"} => Len(opened) = Len(D!Dependencies)
  BY Zenon DEF ProcessInv, OpenInOrder
<1>3. D!Dependencies \in Seq(DependencyNames) /\ Len(D!Dependencies) \in Nat
  BY Zenon, DependenciesAre DEF ProcessInv, ProcessTyped, Phases, Outcomes, Results
<1> DEFINE n == Len(opened)
<1>0. opened \in Seq(DependencyNames) /\ n <= Len(D!Dependencies)
  BY Zenon, <1>2
<1>9. n \in Nat
  BY <1>0
<1>4. CASE D!Open
  <2>1. n < Len(D!Dependencies) /\ opened' = Append(opened, D!Dependencies[n + 1]) /\ phase' = "start"
    BY Zenon, <1>4 DEF D!Open
  <2>2. D!Dependencies[n + 1] \in DependencyNames
    <3>1. n + 1 \in 1..Len(D!Dependencies)
      <4> HIDE DEF n
      <4> QED BY <1>9, <1>0, <1>3, <2>1
    <3> QED BY <1>3, <3>1
  <2>3. /\ opened' \in Seq(DependencyNames) /\ Len(opened') = n + 1 /\ \A i \in 1..n : opened'[i] = opened[i]
        /\ opened'[n + 1] = D!Dependencies[n + 1]
    <3> DEFINE x == D!Dependencies[n + 1]
    <3> HIDE DEF x
    <3>1. x \in DependencyNames /\ opened' = Append(opened, x)
      BY Zenon, <2>1, <2>2 DEF x
    <3>2. /\ opened' \in Seq(DependencyNames) /\ Len(opened') = n + 1 /\ \A i \in 1..n : opened'[i] = opened[i]
          /\ opened'[n + 1] = x
      BY <1>0, <3>1, Lengthened
    <3> QED BY Zenon, <3>2 DEF x
  <2> HIDE DEF n
  <2>4. \A i \in 1..Len(opened') : opened'[i] = D!Dependencies[i]
    <3> SUFFICES ASSUME NEW i \in 1..(n + 1) PROVE opened'[i] = D!Dependencies[i]
      BY Zenon, <2>3
    <3>1. i \in 1..n \/ i = n + 1
      BY <1>9
    <3> QED BY Zenon, <1>2, <2>3, <3>1 DEF n
  <2>5. Len(opened') <= Len(D!Dependencies) /\ phase' \notin {"serve", "drain", "close hub", "shutdown"}
    BY <1>9, <1>0, <1>3, <2>1, <2>3
  <2> QED BY Zenon, <1>1, <2>3, <2>4, <2>5 DEF OpenInOrder
<1>5. CASE D!Close
  <2>1. opened # <<>> /\ opened' = SubSeq(opened, 1, n - 1) /\ phase' = "unwind"
    BY Zenon, <1>5 DEF D!Close
  <2>2. opened' \in Seq(DependencyNames) /\ Len(opened') = n - 1 /\ \A i \in 1..Len(opened') : opened'[i] = opened[i]
    <3>1. n - 1 \in 0..Len(opened)
      BY <1>9, <1>0, <2>1
    <3> QED BY Zenon, <1>0, <2>1, <3>1, Shortened
  <2>3. \A i \in 1..Len(opened') : opened'[i] = D!Dependencies[i]
    <3> HIDE DEF n
    <3>1. \A i \in 1..(n - 1) : i \in 1..n
      BY <1>9
    <3> QED BY Zenon, <1>2, <2>2, <3>1 DEF n
  <2>4. Len(opened') <= Len(D!Dependencies) /\ phase' \notin {"serve", "drain", "close hub", "shutdown"}
    <3> HIDE DEF n
    <3> QED BY <1>9, <1>0, <1>3, <2>1, <2>2
  <2> QED BY Zenon, <1>1, <2>2, <2>3, <2>4 DEF OpenInOrder
<1>6. CASE UNCHANGED opened /\ (phase' \in {"serve", "drain", "close hub", "shutdown"} => n = Len(D!Dependencies))
  BY Zenon, <1>1, <1>2, <1>6 DEF OpenInOrder
<1>7. ASSUME ~D!Open, ~D!Close
      PROVE  UNCHANGED opened /\ (phase' \in {"serve", "drain", "close hub", "shutdown"} => n = Len(D!Dependencies))
  <2>1. ASSUME NEW w \in Workers, D!Collect(w) \/ D!WorkerEnds(w)
        PROVE  UNCHANGED opened /\ (phase' \in {"serve", "drain", "close hub", "shutdown"} => n = Len(D!Dependencies))
    BY Zenon, <1>2, <2>1 DEF D!Collect, D!WorkerEnds
  <2>2. ASSUME NEW r \in Requests, D!RequestBegins(r) \/ D!RequestEnds(r) \/ D!Upgrade(r)
        PROVE  UNCHANGED opened /\ (phase' \in {"serve", "drain", "close hub", "shutdown"} => n = Len(D!Dependencies))
    BY Zenon, <1>2, <2>2 DEF D!RequestBegins, D!RequestEnds, D!Upgrade
  <2>3. CASE D!OpenFails \/ D!Serve \/ D!ShutdownWorker \/ D!ServeFails \/ D!Stop \/ D!Signal \/ D!ListenerFails \/ D!StreamEnds
    BY Zenon, <1>2, <2>3 DEF D!OpenFails, D!Serve, D!ShutdownWorker, D!ServeFails, D!Stop, D!Signal, D!ListenerFails, D!StreamEnds
  <2>4. CASE D!DrainStream \/ D!CloseHub \/ D!Shutdown \/ D!ShutdownEnds \/ D!Exit \/ UNCHANGED D!vars
    BY Zenon, <1>2, <2>4 DEF D!DrainStream, D!CloseHub, D!Shutdown, D!ShutdownEnds, D!Exit, D!vars
  <2> QED BY Zenon, <1>7, <2>1, <2>2, <2>3, <2>4 DEF D!Next, D!MainStep
<1> QED BY Zenon, <1>4, <1>5, <1>6, <1>7

(* Users only end, and the process goes on as it was. *)
LEMMA UsersKept ==
  ASSUME UsersEnd, UNCHANGED <<role, phase, outcome>>, listener' = "on" => listener = "on",
         phase = "start" => UNCHANGED listener,
         \A w \in Workers : worker'[w] = "on" => worker[w] = "on",
         \A r \in Requests : request'[r] => request[r], stream' => stream
  PROVE  UsersEnd'
<1>1. NoWorker => NoWorker'
  BY Zenon DEF NoWorker
<1>2. D!Idle => D!Idle'
  BY Zenon DEF D!Idle
<1> QED BY Zenon, <1>1, <1>2 DEF UsersEnd, Unused

LEMMA UsersStep ==
  ASSUME ProcessInv, [D!Next]_D!vars
  PROVE  UsersEnd'
<1>1. ProcessTyped /\ UsersEnd /\ UNCHANGED role
  BY Zenon, TypedStep DEF ProcessInv
<1>2. ASSUME NEW w \in Workers, D!Collect(w)
      PROVE  UsersEnd'
  <2>1. /\ role = "worker" /\ phase = "serve" /\ UNCHANGED <<listener, request, stream>>
        /\ worker' = [worker EXCEPT ![w] = "collected"] /\ (D!Idle' <=> D!Idle)
        /\ \/ phase' = "shutdown" /\ outcome' # "clean"
           \/ phase' = "shutdown" /\ \A v \in Workers \ {w} : worker[v] = "collected"
           \/ phase' = "serve"
    BY Zenon, <1>2 DEF D!Collect, D!Idle
  <2>2. phase' = "shutdown" /\ outcome' = "clean" => NoWorker'
    BY Zenon, <1>1, <2>1 DEF ProcessTyped, Phases, Outcomes, Results, NoWorker
  <2> QED BY Zenon, <1>1, <2>1, <2>2 DEF UsersEnd, Unused
<1>3. ASSUME NEW w \in Workers, D!WorkerEnds(w)
      PROVE  UsersEnd'
  <2>1. /\ worker[w] = "on" /\ worker'[w] # "on" /\ \A v \in Workers \ {w} : worker'[v] = worker[v]
        /\ UNCHANGED <<phase, listener, request, stream, outcome>>
    BY Zenon, <1>1, <1>3 DEF D!WorkerEnds, ProcessTyped, Phases, Outcomes, Results
  <2> QED BY Zenon, <1>1, <2>1, UsersKept
<1>4. ASSUME NEW r \in Requests, D!RequestBegins(r)
      PROVE  UsersEnd'
  <2>1. /\ role = "api" /\ listener = "on" /\ UNCHANGED <<phase, listener, worker, stream, outcome>>
        /\ (NoWorker' <=> NoWorker)
    BY Zenon, <1>4 DEF D!RequestBegins, NoWorker
  <2>2. phase # "exited"
    BY Zenon, <1>1, <2>1 DEF UsersEnd
  <2> QED BY Zenon, <1>1, <2>1, <2>2 DEF UsersEnd, Unused
<1>5. ASSUME NEW r \in Requests, D!RequestEnds(r) \/ D!Upgrade(r)
      PROVE  UsersEnd'
  <2>1. /\ request[r] /\ UNCHANGED <<phase, listener, worker, outcome>>
        /\ \A q \in Requests : request'[q] => request[q]
        /\ stream' = stream \/ phase = "serve"
    BY Zenon, <1>1, <1>5 DEF D!RequestEnds, D!Upgrade, ProcessTyped, Phases, Outcomes, Results
  <2>2. phase = "serve" => UsersEnd'
    <3>1. NoWorker' <=> NoWorker
      BY Zenon, <2>1 DEF NoWorker
    <3>2. role = "api"
      BY Zenon, <1>1, <2>1 DEF UsersEnd, ProcessTyped, Phases, Outcomes, Results, D!Idle
    <3> QED BY Zenon, <1>1, <2>1, <3>1, <3>2 DEF UsersEnd
  <2>3. stream' = stream => UsersEnd'
    BY <1>1, <2>1, UsersKept
  <2> QED BY Zenon, <2>1, <2>2, <2>3
<1>6. CASE D!Open \/ D!Signal \/ D!ListenerFails \/ D!StreamEnds \/ UNCHANGED D!vars
  <2>1. /\ UNCHANGED <<role, phase, outcome, worker, request>> /\ (listener' = "on" => listener = "on")
        /\ (phase = "start" => UNCHANGED listener) /\ (stream' => stream)
    <3>1. CASE D!Open
      BY Zenon, <3>1 DEF D!Open
    <3>2. CASE D!Signal
      BY Zenon, <3>2 DEF D!Signal
    <3>3. CASE D!ListenerFails
      <4>1. listener' # "on" /\ phase # "start"
        BY Zenon, <3>3 DEF D!ListenerFails
      <4> QED BY Zenon, <3>3, <4>1 DEF D!ListenerFails
    <3>4. CASE D!StreamEnds
      BY Zenon, <3>4 DEF D!StreamEnds
    <3>5. CASE UNCHANGED D!vars
      BY Zenon, <3>5 DEF D!vars
    <3> QED BY Zenon, <1>6, <3>1, <3>2, <3>3, <3>4, <3>5
  <2> QED BY Zenon, <1>1, <2>1, UsersKept
<1>10. CASE D!OpenFails \/ D!ShutdownWorker \/ D!ServeFails \/ D!Stop \/ D!CloseHub \/ D!Shutdown \/ D!Close
  <2>1. (NoWorker' <=> NoWorker) /\ (D!Idle' <=> D!Idle) /\ UNCHANGED stream
    <3>1. UNCHANGED <<worker, request, stream>>
      BY Zenon, <1>10 DEF D!OpenFails, D!ShutdownWorker, D!ServeFails, D!Stop, D!CloseHub, D!Shutdown, D!Close
    <3> QED BY Zenon, <3>1 DEF NoWorker, D!Idle
  <2>2. CASE D!OpenFails
    <3>1. /\ phase' \notin {"start", "drain", "close hub", "shutdown", "exited"} /\ outcome' # "clean"
          /\ listener' # "on" /\ UNCHANGED role
      BY Zenon, <1>1, <2>2 DEF D!OpenFails, UsersEnd
    <3> QED BY Zenon, <1>1, <2>1, <3>1 DEF UsersEnd
  <2>3. CASE D!ShutdownWorker
    BY <1>1, <2>1, <2>3 DEF UsersEnd, Unused, D!ShutdownWorker
  <2>4. CASE D!ServeFails
    BY Zenon, <1>1, <2>1, <2>4 DEF UsersEnd, Unused, D!ServeFails
  <2>5. CASE D!Stop
    BY Zenon, <1>1, <2>1, <2>5 DEF UsersEnd, Unused, D!Stop
  <2>6. CASE D!CloseHub
    <3>1. /\ phase' \notin {"start", "drain", "close hub", "unwind", "exited"} /\ UNCHANGED <<role, outcome>>
          /\ phase \in {"drain", "close hub"} /\ phase \in {"close hub", "shutdown"}
      BY Zenon, <2>6 DEF D!CloseHub
    <3>2. role = "api" /\ role # "worker"
      BY Zenon, <1>1, <3>1 DEF UsersEnd
    <3> QED BY Zenon, <1>1, <2>1, <3>1, <3>2 DEF UsersEnd
  <2>7. CASE D!Shutdown
    BY <1>1, <2>1, <2>7 DEF UsersEnd, Unused, D!Shutdown
  <2>8. CASE D!Close
    BY <1>1, <2>1, <2>8 DEF UsersEnd, Unused, D!Close
  <2> QED BY Zenon, <1>10, <2>2, <2>3, <2>4, <2>5, <2>6, <2>7, <2>8
<1>7. CASE D!Serve
  <2>1. (role = "api" => (NoWorker' <=> NoWorker)) /\ (D!Idle' <=> D!Idle)
    BY Zenon, <1>1, <1>7 DEF D!Serve, NoWorker, D!Idle, ProcessTyped, Phases, Outcomes, Results
  <2> QED BY Zenon, <1>1, <1>7, <2>1 DEF UsersEnd, Unused, D!Serve
<1>8. CASE D!DrainStream
  <2>1. (NoWorker' <=> NoWorker) /\ (D!Idle' <=> D!Idle) /\ UNCHANGED stream /\ (outcome' = "clean" => ~stream)
    BY Zenon, <1>1, <1>8 DEF D!DrainStream, ProcessTyped, Phases, Outcomes, Results, NoWorker, D!Idle
  <2>2. /\ phase' \notin {"start", "unwind", "exited", "shutdown"} /\ phase \in {"drain", "close hub"}
        /\ UNCHANGED role
    BY Zenon, <1>8 DEF D!DrainStream
  <2> QED BY Zenon, <1>1, <2>1, <2>2 DEF UsersEnd
<1>11. CASE D!ShutdownEnds
  <2>1. (NoWorker' <=> NoWorker) /\ (D!Idle' <=> D!Idle) /\ UNCHANGED stream /\ (outcome' = "clean" => D!Idle)
    BY Zenon, <1>1, <1>11 DEF D!ShutdownEnds, ProcessTyped, Phases, Outcomes, Results, NoWorker, D!Idle
  <2>2. /\ phase' \notin {"start", "drain", "close hub", "shutdown", "exited"} /\ phase \in {"close hub", "shutdown"}
        /\ outcome' = "clean" => outcome = "clean"
        /\ role = "api" /\ role # "worker" /\ listener' # "on" /\ UNCHANGED role
    BY Zenon, <1>11 DEF D!ShutdownEnds
  <2> QED BY Zenon, <1>1, <2>1, <2>2 DEF UsersEnd, Unused
<1>9. CASE D!Exit
  <2>1. NoWorker' /\ D!Idle' /\ ~stream'
    BY Zenon, <1>9 DEF D!Exit, NoWorker, D!Idle
  <2> QED BY Zenon, <1>1, <1>9, <2>1 DEF UsersEnd, Unused, D!Exit
<1> QED BY Zenon, <1>2, <1>3, <1>4, <1>5, <1>6, <1>7, <1>8, <1>9, <1>10, <1>11 DEF D!Next, D!MainStep

(* A process closes redis, the broker and the database only when no worker,*)
(* no request and no stream session uses them any more, unless one of them *)
(* has failed or a time limit has passed.                                  *)
THEOREM StoresAreClosedLast == D!Spec => [](D!TypeOK /\ D!StoresOutliveUse)
<1>1. D!Init => ProcessInv
  <2> SUFFICES ASSUME D!Init PROVE ProcessInv
    BY Zenon
  <2>1. ProcessTyped
    BY Zenon DEF D!Init, ProcessTyped, Phases, Outcomes, Results
  <2>2. OpenInOrder
    <3>1. Len(D!Dependencies) \in Nat
      BY Zenon, <2>1, DependenciesAre DEF ProcessTyped, Phases, Outcomes, Results
    <3> QED BY <3>1 DEF D!Init, OpenInOrder
  <2>3. UsersEnd
    BY Zenon DEF D!Init, UsersEnd, Unused, NoWorker, D!Idle
  <2> QED BY Zenon, <2>1, <2>2, <2>3 DEF ProcessInv
<1>2. ProcessInv /\ [D!Next]_D!vars => ProcessInv'
  BY Zenon, TypedStep, OrderStep, UsersStep DEF ProcessInv
<1>3. ProcessInv => D!TypeOK /\ D!StoresOutliveUse
  <2> SUFFICES ASSUME ProcessInv PROVE D!TypeOK /\ D!StoresOutliveUse
    BY Zenon
  <2>1. /\ D!Dependencies \in Seq(DependencyNames) /\ Len(D!Dependencies) \in Nat /\ Len(D!Dependencies) >= 7
        /\ D!Dependencies[1] = "redis" /\ D!Dependencies[3] = "nats" /\ D!Dependencies[4] = "postgres"
    BY Zenon, DependenciesAre DEF ProcessInv, ProcessTyped, Phases, Outcomes, Results
  <2>2. D!TypeOK
    <3>1. opened = SubSeq(D!Dependencies, 1, Len(opened))
      <4>1. opened \in Seq(DependencyNames) /\ Len(opened) <= Len(D!Dependencies)
            /\ \A i \in 1..Len(opened) : opened[i] = D!Dependencies[i]
        BY Zenon DEF ProcessInv, OpenInOrder
      <4> DEFINE p == SubSeq(D!Dependencies, 1, Len(opened))
      <4>2. Len(opened) \in 0..Len(D!Dependencies)
        BY <2>1, <4>1
      <4>3. p \in Seq(DependencyNames) /\ Len(p) = Len(opened) /\ \A i \in 1..Len(opened) : p[i] = D!Dependencies[i]
        BY Zenon, <2>1, <4>2, Shortened
      <4> HIDE DEF p
      <4>4. opened = p
        BY <4>1, <4>3
      <4> QED BY Zenon, <4>4 DEF p
    <3> QED BY Zenon, <3>1 DEF ProcessInv, ProcessTyped, Phases, Outcomes, Results, D!TypeOK
  <2>3. D!StoresOutliveUse
    <3> SUFFICES ASSUME outcome = "clean",
                        (\E w \in Workers : worker[w] = "on") \/ (\E r \in Requests : request[r]) \/ stream,
                        NEW d \in {"redis", "nats", "postgres"}
                 PROVE  D!Usable(d)
      BY Zenon DEF D!StoresOutliveUse
    <3>1. ~Unused
      BY Zenon DEF Unused, NoWorker, D!Idle
    <3>2. phase \in {"serve", "drain", "close hub", "shutdown"}
      BY Zenon, <3>1 DEF ProcessInv, ProcessTyped, Phases, Outcomes, Results, UsersEnd
    <3>3. Len(opened) = Len(D!Dependencies) /\ \A i \in 1..Len(opened) : opened[i] = D!Dependencies[i]
      BY Zenon, <3>2 DEF ProcessInv, OpenInOrder
    <3>4. opened[1] = "redis" /\ opened[3] = "nats" /\ opened[4] = "postgres" /\ {1, 3, 4} \subseteq 1..Len(opened)
      BY <2>1, <3>3
    <3> QED BY Zenon, <3>4 DEF D!Usable, D!EndWithSignal
  <2> QED BY Zenon, <2>2, <2>3
<1> QED BY <1>1, <1>2, <1>3, PTL DEF D!Spec
=============================================================================
