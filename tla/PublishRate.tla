----------------------------- MODULE PublishRate -----------------------------
(***************************************************************************)
(* Publishing under rate limits: the token buckets in Redis                *)
(* (redisstate/ratelimit.go), the three of them that a realtime publish    *)
(* has to pass one after the other (redisstate/realtime_rate.go), and the  *)
(* batches that are checked as a whole before the first of their messages  *)
(* goes out (realtime/hub.go).  Sessions on any replica share the buckets. *)
(*                                                                         *)
(* Tokens are counted in parts of 1/Window, so that a bucket gains as many *)
(* parts in a tick as it has tokens when it is full.                       *)
(***************************************************************************)
EXTENDS Naturals, Sequences, FiniteSets

CONSTANTS
  Sessions, Channels,
  Limit,        \* [{"app", "connection", "channel"} -> tokens of a full bucket]
  Window,       \* ticks in which an empty bucket fills
  MaxItems,     \* bound on the messages of a batch (50)
  MaxBatches    \* bound: batches of a session

Buckets == {<<"app">>} \cup ({"connection"} \X Sessions) \cup ({"channel"} \X Channels)

Dimensions(s, c) == << <<"app">>, <<"connection", s>>, <<"channel", c>> >>

VARIABLES
  bucket,     \* [tokens, age: ticks since its last use, at most 2 * Window]
  granted,    \* history: [bucket -> [k -> calls it granted in the last k ticks]]
  session,    \* [pc, items, item: position, dimension: position,
              \*  refused: positions, batches]
  sent        \* history: [session -> positions of the batch that went out]

vars == <<bucket, granted, session, sent>>

Full(b) == Window * Limit[b[1]]

(* A bucket that was not used for two windows has expired. *)
Expired == 2 * Window

Resting(n) == [pc |-> "idle", items |-> <<>>, item |-> 1, dimension |-> 1, refused |-> {}, batches |-> n]

Init ==
  /\ bucket = [b \in Buckets |-> [tokens |-> Full(b), age |-> Expired]]
  /\ granted = [b \in Buckets |-> [k \in 0..Window |-> 0]]
  /\ session = [s \in Sessions |-> Resting(0)] /\ sent = [s \in Sessions |-> {}]

-----------------------------------------------------------------------------
(* tokenBucketScript, with a cost of one *)
Least(m, n) == IF m <= n THEN m ELSE n

Refilled(b) ==
  IF bucket[b].age = Expired THEN Full(b)
  ELSE Least(Full(b), bucket[b].tokens + bucket[b].age * Limit[b[1]])

Allowed(b) == Refilled(b) >= Window

Used(b) ==
  /\ bucket' = [bucket EXCEPT ![b] =
       [tokens |-> IF Allowed(b) THEN Refilled(b) - Window ELSE Refilled(b), age |-> 0]]
  /\ granted' = IF Allowed(b) THEN [granted EXCEPT ![b] = [k \in 0..Window |-> @[k] + 1]] ELSE granted

-----------------------------------------------------------------------------
Become(s, r) == session' = [session EXCEPT ![s] = r]

(* PublishBatchV2, and publishV2 as a batch of one: what the frame and the *)
(* token of the connection do not allow is refused at once.                *)
Publish(s) ==
  /\ session[s].pc = "idle" /\ session[s].batches < MaxBatches
  /\ \E items \in UNION {[1..n -> Channels] : n \in 1..MaxItems} :
       Become(s, [Resting(session[s].batches + 1) EXCEPT !.pc = "rate", !.items = items])
  /\ sent' = [sent EXCEPT ![s] = {}]
  /\ UNCHANGED <<bucket, granted>>

(* After the last item the batch goes on as a whole or not at all. *)
\* mutant of Rated: only what was refused stays behind
RatedAlone(r) ==
  IF r.item < Len(r.items) THEN [r EXCEPT !.item = @ + 1, !.dimension = 1]
  ELSE IF r.refused = 1..Len(r.items) THEN Resting(r.batches)
  ELSE [r EXCEPT !.pc = "send", !.item = 1]

Rated(r) ==
  IF r.item < Len(r.items) THEN [r EXCEPT !.item = @ + 1, !.dimension = 1]
  ELSE IF r.refused # {} THEN Resting(r.batches)                       \* rejectedBatch
  ELSE [r EXCEPT !.pc = "send", !.item = 1]

(* ratePublishV2: the first bucket that is empty refuses the item; the     *)
(* tokens taken before are not given back.                                 *)
Rate(s) ==
  LET r == session[s]
      b == Dimensions(s, r.items[r.item])[r.dimension]
  IN /\ r.pc = "rate" /\ Used(b)
     /\ Become(s, IF ~Allowed(b) THEN Rated([r EXCEPT !.refused = @ \cup {r.item}])
                  ELSE IF r.dimension < 3 THEN [r EXCEPT !.dimension = @ + 1]
                  ELSE Rated(r))
     /\ UNCHANGED sent

(* Redis does not answer: the item is refused, its token perhaps taken. *)
RateFails(s) ==
  LET r == session[s]
      b == Dimensions(s, r.items[r.item])[r.dimension]
  IN /\ r.pc = "rate" /\ (Used(b) \/ UNCHANGED <<bucket, granted>>)
     /\ Become(s, Rated([r EXCEPT !.refused = @ \cup {r.item}]))
     /\ UNCHANGED sent

(* publishPreparedV2: each message is accepted or fails by itself. *)
Dispatch(s) ==
  LET r == session[s]
  IN /\ r.pc = "send"
     /\ sent' \in {sent, [sent EXCEPT ![s] = @ \cup {r.item}]}
     /\ Become(s, IF r.item < Len(r.items) THEN [r EXCEPT !.item = @ + 1] ELSE Resting(r.batches))
     /\ UNCHANGED <<bucket, granted>>

Tick ==
  /\ bucket' = [b \in Buckets |-> [bucket[b] EXCEPT !.age = Least(@ + 1, Expired)]]
  /\ granted' = [b \in Buckets |-> [k \in 0..Window |-> IF k = 0 THEN 0 ELSE granted[b][k - 1]]]
  /\ UNCHANGED <<session, sent>>

SessionStep(s) == Publish(s) \/ Rate(s) \/ RateFails(s) \/ Dispatch(s)

Next == Tick \/ \E s \in Sessions : SessionStep(s)

Spec == Init /\ [][Next]_vars

-----------------------------------------------------------------------------
TypeOK ==
  /\ \A b \in Buckets : bucket[b].tokens \in 0..Full(b) /\ bucket[b].age \in 0..Expired
  /\ \A s \in Sessions : session[s].pc \in {"idle", "rate", "send"}

(* However calls of different sessions interleave, whenever a bucket was   *)
(* used or left to expire: in the last k ticks it has granted at most what *)
(* it holds when it is full and what it gained in these ticks.             *)
RateHolds ==
  \A b \in Buckets, k \in 0..Window :
    Window * granted[b][k] <= Full(b) + k * Limit[b[1]]

(* A message goes out only when every message of its batch has passed all  *)
(* three limits.                                                           *)
BatchPassesWhole ==
  [][\A s \in Sessions : sent'[s] \ sent[s] # {} => session[s].refused = {}]_vars
=============================================================================
