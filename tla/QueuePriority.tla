--------------------------- MODULE QueuePriority ---------------------------
(***************************************************************************)
(* The order in which PullQueueDeliveries (store/postgres/queue_v2.go)     *)
(* prefers eligible deliveries: by priority, which grows with the time     *)
(* waited up to a ceiling, then by available_at.                           *)
(*                                                                         *)
(* backlog holds the eligible deliveries in the order of available_at,     *)
(* created_at, id.  A slot is the identity of a delivery while it waits.   *)
(* Publishers never stop.                                                  *)
(***************************************************************************)
EXTENDS Integers, Sequences, FiniteSets

CONSTANTS
  Slots,    \* deliveries that may wait at a time
  Lowest,   \* lowest priority (-10 in the code)
  Ceiling,  \* highest priority, and what aging leads to (10 in the code)
  Step      \* waiting time that counts as one priority (a minute in the code)

VARIABLES backlog

vars == <<backlog>>

(* Waiting times are told apart until every priority has reached the ceiling. *)
MaxWait == (Ceiling - Lowest) * Step

Waiting == {backlog[i].slot : i \in 1..Len(backlog)}

Init == backlog = <<>>

Arrive(slot) ==
  /\ slot \notin Waiting
  /\ \E priority \in Lowest..Ceiling :
       backlog' = Append(backlog, [slot |-> slot, priority |-> priority, waited |-> 0])

\* mutant of Rank: priorities do not age
RankWithoutAge(item) == item.priority

Rank(item) ==
  LET aged == item.priority + item.waited \div Step IN IF aged < Ceiling THEN aged ELSE Ceiling

(* ORDER BY rank DESC, available_at, created_at, id LIMIT 1. *)
First(i) ==
  \A j \in 1..Len(backlog) :
    \/ Rank(backlog[i]) > Rank(backlog[j])
    \/ Rank(backlog[i]) = Rank(backlog[j]) /\ i <= j

Without(i) == SubSeq(backlog, 1, i - 1) \o SubSeq(backlog, i + 1, Len(backlog))

Pull == \E i \in 1..Len(backlog) : First(i) /\ backlog' = Without(i)

Tick ==
  /\ \E i \in 1..Len(backlog) : backlog[i].waited < MaxWait
  /\ backlog' = [i \in 1..Len(backlog) |->
       [backlog[i] EXCEPT !.waited = IF @ < MaxWait THEN @ + 1 ELSE @]]

Next == Pull \/ Tick \/ \E slot \in Slots : Arrive(slot)

(* Consumers keep pulling and time passes, while publishers do as they     *)
(* please.                                                                 *)
Spec == Init /\ [][Next]_vars /\ WF_vars(Pull) /\ WF_vars(Tick)

-----------------------------------------------------------------------------
(* Starvation protection: a delivery of the lowest priority is leased in   *)
(* the end, whatever else keeps arriving.                                  *)
NeverStarved == \A slot \in Slots : []<>(slot \notin Waiting)
=============================================================================
