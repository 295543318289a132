------------------------------- MODULE Outbox -------------------------------
(***************************************************************************)
(* The transactional outbox on its own: dispatchers, the rows they move,   *)
(* the stream they move them to, an operator who replays dead letters.     *)
(***************************************************************************)
EXTENDS OutboxDispatcher

vars == <<storeVars, streamVars, dispatcherVars>>

Init == StoreInit /\ StreamInit /\ DispatcherInit

Tick == StoreTick /\ UNCHANGED <<streamVars, dispatcherVars>>

Replay ==
  /\ \E ids \in SUBSET Deliveries : ReplayAdminDeadLetters(ids)
  /\ UNCHANGED <<streamVars, dispatcherVars>>

StreamStep ==
  /\ \/ \E id \in MessageIds : ForgetDuplicate(id)
     \/ \E m \in Messages : ExpireMessage(m)
  /\ UNCHANGED <<storeVars, dispatcherVars>>

Next ==
  \/ Tick
  \/ Replay
  \/ StreamStep
  \/ \E w \in Dispatchers : ClaimOutbox(w) \/ DispatcherStep(w) \/ Crash(w)

(* Run polls on a ticker, and RunOnce finishes what it began.  The strong  *)
(* fairness says that a dispatcher does not for ever let its claim go      *)
(* stale before the first transaction after it: ClaimTTL is 30 s by        *)
(* default, the transaction takes milliseconds.                            *)
Fairness ==
  /\ WF_vars(Tick)
  /\ \A w \in Dispatchers :
       /\ WF_vars(ClaimOutbox(w))
       /\ WF_vars(DispatcherStep(w))
       /\ SF_vars(BeginOutboxPublish(w) /\ outbox' # outbox)

Spec == Init /\ [][Next]_vars
FairSpec == Spec /\ Fairness

TypeOK == StoreTypeOK /\ StreamTypeOK /\ DispatcherTypeOK

(* A row is given up only when every attempt is spent, and giving up the   *)
(* row and dead-lettering its delivery are one transaction.                *)
FailedMeansExhausted ==
  \A d \in Deliveries :
    outbox[d].state = "failed" =>
      outbox[d].attempts = MaxAttempts /\ row[d].status \in {"dead_letter", "acked"}

(* What holds of the rows at any time, proved in PublicationProofs:        *)
(* columns and local variables keep their types, a dispatched row is in    *)
(* the stream, every counted attempt makes at most one broker call, and a  *)
(* failed row has used its attempts.                                       *)
OutboxSafe == TypeOK /\ DispatchedIsStored /\ OneCallPerAttempt /\ FailedMeansExhausted

(* A dispatched or failed row changes again only through a replay, which   *)
(* starts the next generation.                                             *)
SettledStays ==
  \A d \in Deliveries :
    outbox[d].state # "open" /\ outbox'[d] # outbox[d] =>
      outbox'[d] = NewOutbox(outbox[d].generation + 1)

SettledIsFinal == [][SettledStays]_vars

(* Nobody takes a row from a dispatcher whose claim is not stale: a claim  *)
(* disappears by a step of its holder, by takeover after ClaimTTL, or with *)
(* the generation it was made for.                                         *)
ClaimStands ==
  \A d \in Deliveries :
    outbox[d].claim # None /\ outbox'[d].claim # outbox[d].claim =>
      \/ outbox[d].age >= ClaimTTL
      \/ outbox'[d].generation # outbox[d].generation
      \/ \E w \in Dispatchers : dispatcher[w].token = outbox[d].claim /\ dispatcher'[w] # dispatcher[w]

ClaimRespected == [][ClaimStands]_vars

(* Every row is dispatched or given up in the end, whatever crashes. *)
EventuallySettled ==
  \A d \in Deliveries : outbox[d].state = "open" ~> outbox[d].state # "open"

(* A row is worked on by the holder of its claim until it is settled, is   *)
(* settled in the end, and then stays so until a replay.                   *)
RowsSettle == ClaimRespected /\ SettledIsFinal /\ EventuallySettled

-----------------------------------------------------------------------------
(* The inductive invariant behind OutboxSafe. *)
OutboxInv == DispatchInv /\ FailedMeansExhausted
=============================================================================
