-------------------------- MODULE DispatcherProofs --------------------------
(***************************************************************************)
(* What holds of the dispatchers of the outbox for any sets of deliveries, *)
(* dispatchers and tokens and any bounds, whoever else works on the        *)
(* deliveries and the stream: the lemmas that the proofs of the outbox, of *)
(* the stream path and of the callback path share.                         *)
(***************************************************************************)
EXTENDS OutboxDispatcher, TLAPS

(* The bounds are natural numbers and 0 is within every range. *)
LEMMA ConstantTypes ==
  /\ MaxAge \in Nat /\ MaxRetry \in Nat /\ MaxAge >= MaxRetry /\ MaxAttempts \in Nat
  /\ 0 \in 0..MaxAge /\ 0 \in 0..MaxRetry /\ 0 \in 0..MaxAttempts
  /\ MaxProcessing \in Nat /\ 0 \in 0..MaxProcessing
  /\ CallbackLease \in Nat /\ 0 \in 0..CallbackLease
  /\ RetryAfter \in Nat /\ 0 \in 0..RetryAfter
  /\ MaxCallbacks \in Nat /\ 0 \in 0..MaxCallbacks
  /\ MaxGeneration \in Nat /\ 1 \in Generations
  /\ MaxCrashes \in Nat /\ 0 \in 0..MaxCrashes
BY ClaimTTLAssumption, MaxRetryAssumption, MaxAttemptsAssumption, LeaseAssumption,
   MaxProcessingAssumption, CallbackLeaseAssumption, MaxCallbacksAssumption, RetryAfterAssumption,
   MaxGenerationAssumption, MaxCrashesAssumption
DEF MaxAge, Generations

(* A row whose status is replaced, or kept, is still a row. *)
LEMMA StatusField ==
  ASSUME NEW S, NEW G, NEW F, NEW x \in S, NEW d \in Deliveries,
         NEW f \in [Deliveries -> [status : S, generation : G]]
  PROVE  [f EXCEPT ![d].status = IF @ \in F THEN @ ELSE x]
           \in [Deliveries -> [status : S, generation : G]]
BY Zenon

(* The order of the numbers of attempts is transitive. *)
LEMMA AtLeast ==
  ASSUME NEW a \in Nat, NEW b \in Nat, NEW c \in Nat, a <= b, b <= c
  PROVE  a <= c
OBVIOUS

(* Time left and ages stay within their range. *)
LEMMA TimerTypes ==
  /\ \A n \in 0..MaxAge : Up(n) \in 0..MaxAge
  /\ \A m \in Nat : \A n \in 0..m : Down(n) \in 0..m
BY ConstantTypes DEF Up, Down

(* What is left of a retry delay is within the range of delays. *)
LEMMA RemainingDelay ==
  \A delay \in 0..MaxRetry : \A age \in 0..MaxAge :
    (IF delay > age THEN delay - age ELSE 0) \in 0..MaxRetry
BY ConstantTypes

(* Time passing keeps every column in its range. *)
LEMMA TickType == StoreTypeOK /\ StoreTick => StoreTypeOK'
<1> SUFFICES ASSUME StoreTypeOK, StoreTick PROVE StoreTypeOK'
  BY Zenon
<1>1. ASSUME NEW d \in Deliveries PROVE assignment'[d] \in Assignments
  <2>1. assignment[d] \in Assignments
    BY Zenon DEF StoreTypeOK
  <2>2. Down(assignment[d].expiresIn) \in 0..MaxProcessing /\ Down(assignment[d].maxIn) \in 0..MaxProcessing
    BY Zenon, <2>1, TimerTypes, ConstantTypes DEF Assignments
  <2> QED BY Zenon, <2>1, <2>2 DEF StoreTick, Assignments
<1>2. ASSUME NEW d \in Deliveries PROVE callback'[d] \in Callbacks
  <2>1. callback[d] \in Callbacks
    BY Zenon DEF StoreTypeOK
  <2>2. Down(callback[d].leaseIn) \in 0..CallbackLease /\ Down(callback[d].retryIn) \in 0..RetryAfter
    BY Zenon, <2>1, TimerTypes, ConstantTypes DEF Callbacks
  <2> QED BY Zenon, <2>1, <2>2 DEF StoreTick, Callbacks
<1>3. ASSUME NEW d \in Deliveries PROVE outbox'[d] \in OutboxRows
  <2>1. outbox[d] \in OutboxRows
    BY Zenon DEF StoreTypeOK
  <2>2. /\ (IF outbox[d].claim = None THEN 0 ELSE Up(outbox[d].age)) \in 0..MaxAge
        /\ Down(outbox[d].availableIn) \in 0..MaxRetry
    BY Zenon, <2>1, TimerTypes, ConstantTypes DEF OutboxRows
  <2> QED BY Zenon, <2>1, <2>2 DEF StoreTick, OutboxRows
<1> QED BY Zenon, <1>1, <1>2, <1>3 DEF StoreTypeOK, StoreTick

(* A replay starts a generation within the bound. *)
LEMMA ReplayType ==
  ASSUME StoreTypeOK, NEW ids \in SUBSET Deliveries, ReplayAdminDeadLetters(ids)
  PROVE  StoreTypeOK'
<1>1. \A d \in ids : row[d].generation + 1 \in Generations
  BY ConstantTypes DEF ReplayAdminDeadLetters, StoreTypeOK, Rows, Generations
<1>2. ASSUME NEW d \in Deliveries PROVE row'[d] \in Rows
  BY Zenon, <1>1 DEF ReplayAdminDeadLetters, StoreTypeOK, Rows, Statuses
<1>3. ASSUME NEW d \in Deliveries PROVE assignment'[d] \in Assignments
  BY Zenon, ConstantTypes DEF ReplayAdminDeadLetters, StoreTypeOK, Assignments, Unassigned
<1>4. ASSUME NEW d \in Deliveries PROVE callback'[d] \in Callbacks
  BY Zenon, ConstantTypes DEF ReplayAdminDeadLetters, StoreTypeOK, Callbacks, NoCallback
<1>5. ASSUME NEW d \in Deliveries PROVE outbox'[d] \in OutboxRows
  BY Zenon, <1>1, ConstantTypes DEF ReplayAdminDeadLetters, StoreTypeOK, OutboxRows, NewOutbox
<1> QED BY Zenon, <1>2, <1>3, <1>4, <1>5 DEF StoreTypeOK, ReplayAdminDeadLetters

(* Giving up on a delivery clears its assignment. *)
LEMMA DeadLetterType ==
  ASSUME row \in [Deliveries -> Rows], assignment \in [Deliveries -> Assignments],
         NEW d \in Deliveries, DeadLetterUnlessAcked(d)
  PROVE  row' \in [Deliveries -> Rows] /\ assignment' \in [Deliveries -> Assignments]
<1>1. CASE row[d].status = "acked"
  BY Zenon, <1>1 DEF DeadLetterUnlessAcked
<1>2. CASE row[d].status # "acked"
  <2>1. row' \in [Deliveries -> Rows]
    BY <1>2 DEF DeadLetterUnlessAcked, Rows, Statuses
  <2>2. [assignment[d] EXCEPT !.conn = None, !.token = None, !.expiresIn = 0] \in Assignments
    BY Zenon, ConstantTypes DEF Assignments
  <2> QED BY Zenon, <1>2, <2>1, <2>2 DEF DeadLetterUnlessAcked
<1> QED BY Zenon, <1>1, <1>2

(* What the statements of the outbox make of a row. *)
SettledRow(d, s) == [outbox[d] EXCEPT !.state = s, !.claim = None, !.age = 0]
RetriedRow(d, v) == [outbox[d] EXCEPT !.claim = None, !.age = 0, !.availableIn = v]

(* The statements of the outbox change a row within its type. *)
LEMMA OutboxUpdateType ==
  ASSUME outbox \in [Deliveries -> OutboxRows], NEW d \in Deliveries
  PROVE  /\ \A s \in {"open", "dispatched", "failed"} : SettledRow(d, s) \in OutboxRows
         /\ \A v \in 0..MaxRetry : RetriedRow(d, v) \in OutboxRows
BY Zenon, ConstantTypes DEF OutboxRows, SettledRow, RetriedRow

(* A dispatcher that continues or abandons its batch is in a proper state. *)
LEMMA LoopType ==
  ASSUME dispatcher \in [Dispatchers -> DispatcherStates], NEW w \in Dispatchers,
         NEW rest \in SUBSET MessageIds, Continue(w, rest) \/ Abandon(w)
  PROVE  dispatcher' \in [Dispatchers -> DispatcherStates]
<1>1. Idle \in DispatcherStates
  BY Zenon, ConstantTypes DEF DispatcherStates, Idle
<1>2. AfterItem(w, rest) \in DispatcherStates
  BY Zenon, <1>1, ConstantTypes DEF DispatcherStates, AfterItem
<1> QED BY Zenon, <1>1, <1>2 DEF Continue, Abandon

(* The claim, and the loop of RunOnce, one statement at a time. *)
LEMMA ClaimType ==
  ASSUME PathTypeOK, NEW w \in Dispatchers, ClaimOutbox(w) PROVE PathTypeOK'
<1>1. UNCHANGED <<row, assignment, callback, publishes, crashes, messages, window>>
  BY Zenon DEF ClaimOutbox, streamVars
<1>2. PICK token \in FreshClaimTokens, claimed \in SUBSET {d \in Deliveries : Claimable(d)} :
        /\ outbox' = [d \in Deliveries |->
             IF d \in claimed THEN [outbox[d] EXCEPT !.claim = token, !.age = 0] ELSE outbox[d]]
        /\ dispatcher' = [dispatcher EXCEPT ![w] =
             [Idle EXCEPT !.pc = "next", !.token = token,
                          !.batch = {<<d, outbox[d].generation>> : d \in claimed}]]
  BY Zenon DEF ClaimOutbox
<1>3. token \in ClaimTokens
  BY Zenon DEF FreshClaimTokens
<1>4. ASSUME NEW d \in Deliveries PROVE outbox'[d] \in OutboxRows
  BY Zenon, <1>2, <1>3, ConstantTypes DEF OutboxRows, PathTypeOK, StoreTypeOK
<1>5. {<<d, outbox[d].generation>> : d \in claimed} \in SUBSET MessageIds
  <2> SUFFICES ASSUME NEW d \in claimed PROVE <<d, outbox[d].generation>> \in MessageIds
    BY Zenon
  <2> QED BY Zenon DEF OutboxRows, PathTypeOK, StoreTypeOK, MessageIds
<1>6. ASSUME NEW v \in Dispatchers PROVE dispatcher'[v] \in DispatcherStates
  BY Zenon, <1>2, <1>3, <1>5, ConstantTypes DEF DispatcherStates, PathTypeOK, DispatcherTypeOK, Idle
<1> QED BY Zenon, <1>1, <1>2, <1>4, <1>6 DEF PathTypeOK, StoreTypeOK, StreamTypeOK, DispatcherTypeOK

(* An attempt is begun, the row given up, or the batch abandoned. *)
LEMMA BeginType ==
  ASSUME PathTypeOK, NEW w \in Dispatchers, BeginOutboxPublish(w) PROVE PathTypeOK'
<1>1. UNCHANGED <<callback, publishes, crashes, messages, window>>
  BY Zenon DEF BeginOutboxPublish, streamVars
<1>2. PICK id \in dispatcher[w].batch :
        \/ /\ Abandon(w)
           /\ UNCHANGED <<row, assignment, outbox>>
        \/ /\ outbox' = [outbox EXCEPT ![id[1]] =
                [@ EXCEPT !.state = "failed", !.claim = None, !.age = 0]]
           /\ DeadLetterUnlessAcked(id[1])
           /\ Continue(w, dispatcher[w].batch \ {id})
        \/ /\ ~Exhausted(id[1])
           /\ CountAttempt(id[1])
           /\ dispatcher' = [dispatcher EXCEPT ![w] = Begun(w, id)]
           /\ UNCHANGED <<row, assignment>>
  BY Zenon DEF BeginOutboxPublish
<1>3. id \in MessageIds /\ id[1] \in Deliveries
  BY <1>2 DEF DispatcherStates, MessageIds, PathTypeOK, DispatcherTypeOK
<1>4. ~Exhausted(id[1]) => outbox[id[1]].attempts + 1 \in 0..MaxAttempts
  BY <1>3, ConstantTypes DEF Exhausted, OutboxRows, PathTypeOK, StoreTypeOK
<1>5. row' \in [Deliveries -> Rows] /\ assignment' \in [Deliveries -> Assignments]
  BY Zenon, <1>2, <1>3, DeadLetterType DEF PathTypeOK, StoreTypeOK
<1>6. outbox' \in [Deliveries -> OutboxRows]
  <2>1. CASE UNCHANGED outbox
    BY Zenon, <2>1 DEF PathTypeOK, StoreTypeOK
  <2>2. CASE outbox' = [outbox EXCEPT ![id[1]] = SettledRow(id[1], "failed")]
    BY Zenon, <2>2, <1>3, OutboxUpdateType DEF PathTypeOK, StoreTypeOK
  <2>3. CASE ~Exhausted(id[1]) /\ CountAttempt(id[1])
    <3>1. outbox[id[1]] \in OutboxRows
      BY Zenon, <1>3 DEF PathTypeOK, StoreTypeOK
    <3>2. [outbox[id[1]] EXCEPT !.attempts = outbox[id[1]].attempts + 1] \in OutboxRows
      BY Zenon, <3>1, <2>3, <1>4 DEF OutboxRows
    <3>3. outbox' = [outbox EXCEPT ![id[1]] =
            [outbox[id[1]] EXCEPT !.attempts = outbox[id[1]].attempts + 1]]
      BY Zenon, <2>3, <1>3 DEF CountAttempt, PathTypeOK, StoreTypeOK
    <3> QED BY Zenon, <3>2, <3>3, <1>3 DEF PathTypeOK, StoreTypeOK
  <2> QED BY Zenon, <1>2, <2>1, <2>2, <2>3 DEF SettledRow
<1>7. dispatcher' \in [Dispatchers -> DispatcherStates]
  <2>1. dispatcher[w].batch \ {id} \in SUBSET MessageIds
    BY Zenon DEF DispatcherStates, PathTypeOK, DispatcherTypeOK
  <2>2. ~Exhausted(id[1]) => Begun(w, id) \in DispatcherStates
    BY Zenon, <1>3, <1>4 DEF Begun, DispatcherStates, PathTypeOK, DispatcherTypeOK
  <2> QED BY Zenon, <1>2, <2>1, <2>2, LoopType DEF PathTypeOK, DispatcherTypeOK
<1> QED BY Zenon, <1>1, <1>5, <1>6, <1>7 DEF PathTypeOK, StoreTypeOK, StreamTypeOK, DispatcherTypeOK

(* The broker call counts itself and moves the dispatcher on. *)
LEMMA PublishType ==
  ASSUME PathTypeOK, NEW w \in Dispatchers, Publish(w), dispatcher[w].current \in MessageIds,
         dispatcher[w].attempt \in 1..MaxAttempts
  PROVE  PathTypeOK'
<1>1. UNCHANGED <<row, assignment, callback, outbox, crashes>>
  BY Zenon DEF Publish, storeVars
<1>2. publishes' \in [MessageIds \X (1..MaxAttempts) -> Nat]
  BY DEF Publish, PathTypeOK, DispatcherTypeOK
<1>3. dispatcher' \in [Dispatchers -> DispatcherStates]
  <2>1. PICK pc \in {"mark", "settle"} : dispatcher' = [dispatcher EXCEPT ![w].pc = pc]
    BY Zenon DEF Publish
  <2>2. [dispatcher[w] EXCEPT !.pc = pc] \in DispatcherStates
    BY Zenon DEF PathTypeOK, DispatcherTypeOK, DispatcherStates
  <2> QED BY Zenon, <2>1, <2>2 DEF PathTypeOK, DispatcherTypeOK
<1>4. StreamTypeOK'
  BY Zenon, IdsAssumption DEF Publish, Accept, streamVars, PathTypeOK, StreamTypeOK, Messages, MessageStates
<1> QED BY Zenon, <1>1, <1>2, <1>3, <1>4 DEF PathTypeOK, StoreTypeOK, DispatcherTypeOK

(* Marking, retrying and failing keep the rows within their types. *)
LEMMA SettleType ==
  ASSUME PathTypeOK, NEW w \in Dispatchers, dispatcher[w].current \in MessageIds,
         dispatcher[w].attempt \in 1..MaxAttempts,
         MarkOutboxDispatched(w) \/ RetryOutbox(w) \/ FailOutbox(w)
  PROVE  PathTypeOK'
<1> DEFINE d == dispatcher[w].current[1]
           delay == RetryDelay[dispatcher[w].attempt]
           wait == IF delay > outbox[d].age THEN delay - outbox[d].age ELSE 0
<1>0. dispatcher[w].batch \in SUBSET MessageIds
  BY Zenon DEF PathTypeOK, DispatcherTypeOK, DispatcherStates
<1>1. d \in Deliveries
  BY Zenon DEF MessageIds
<1>2. wait \in 0..MaxRetry
  <2>1. delay \in 0..MaxRetry
    BY Zenon, RetryDelayAssumption
  <2>2. outbox[d].age \in 0..MaxAge
    BY Zenon, <1>1 DEF PathTypeOK, StoreTypeOK, OutboxRows
  <2> HIDE DEF d, delay
  <2> QED BY <2>1, <2>2, ConstantTypes
<1>3. \A s \in Statuses : SetStatusUnlessFinal(d, s) => row' \in [Deliveries -> Rows]
  <2> SUFFICES ASSUME NEW s \in Statuses, SetStatusUnlessFinal(d, s)
               PROVE  row' \in [Deliveries -> Rows]
    BY Zenon
  <2>1. row \in [Deliveries -> [status : Statuses, generation : Generations]]
    BY Zenon DEF PathTypeOK, StoreTypeOK, Rows
  <2> QED BY <1>1, <2>1, StatusField DEF SetStatusUnlessFinal, Rows
<1> HIDE DEF d
<1>4. CASE MarkOutboxDispatched(w)
  <2>0. /\ UNCHANGED outbox \/ outbox' = [outbox EXCEPT ![d] = SettledRow(d, "dispatched")]
        /\ UNCHANGED row \/ SetStatusUnlessFinal(d, "dispatched")
    BY Zenon, <1>4 DEF MarkOutboxDispatched, SettledRow, d
  <2>1. row' \in [Deliveries -> Rows] /\ outbox' \in [Deliveries -> OutboxRows]
    BY Zenon, <1>1, <1>3, <2>0, OutboxUpdateType, ConstantTypes DEF PathTypeOK, StoreTypeOK, Statuses
  <2>2. dispatcher' \in [Dispatchers -> DispatcherStates]
    BY Zenon, <1>4, <1>0, LoopType DEF MarkOutboxDispatched, PathTypeOK, DispatcherTypeOK
  <2> QED BY Zenon, <1>4, <2>1, <2>2
          DEF MarkOutboxDispatched, streamVars, PathTypeOK, StoreTypeOK, StreamTypeOK, DispatcherTypeOK
<1>5. CASE RetryOutbox(w)
  <2>0. /\ UNCHANGED outbox \/ outbox' = [outbox EXCEPT ![d] = RetriedRow(d, wait)]
        /\ UNCHANGED row \/ SetStatusUnlessFinal(d, "retrying")
    BY Zenon, <1>5 DEF RetryOutbox, RetriedRow, d
  <2> HIDE DEF wait
  <2>1. row' \in [Deliveries -> Rows] /\ outbox' \in [Deliveries -> OutboxRows]
    BY Zenon, <1>1, <1>2, <1>3, <2>0, OutboxUpdateType DEF PathTypeOK, StoreTypeOK, Statuses
  <2>2. dispatcher' \in [Dispatchers -> DispatcherStates]
    BY Zenon, <1>5, <1>0, LoopType DEF RetryOutbox, PathTypeOK, DispatcherTypeOK
  <2> QED BY Zenon, <1>5, <2>1, <2>2
          DEF RetryOutbox, streamVars, PathTypeOK, StoreTypeOK, StreamTypeOK, DispatcherTypeOK
<1>6. CASE FailOutbox(w)
  <2>0. /\ UNCHANGED outbox \/ outbox' = [outbox EXCEPT ![d] = SettledRow(d, "failed")]
        /\ UNCHANGED <<row, assignment>> \/ DeadLetterUnlessAcked(d)
    BY Zenon, <1>6 DEF FailOutbox, SettledRow, d
  <2>1. /\ row' \in [Deliveries -> Rows] /\ assignment' \in [Deliveries -> Assignments]
        /\ outbox' \in [Deliveries -> OutboxRows]
    BY Zenon, <1>1, <2>0, OutboxUpdateType, DeadLetterType, ConstantTypes DEF PathTypeOK, StoreTypeOK
  <2>2. dispatcher' \in [Dispatchers -> DispatcherStates]
    BY Zenon, <1>6, <1>0, LoopType DEF FailOutbox, PathTypeOK, DispatcherTypeOK
  <2> QED BY Zenon, <1>6, <2>1, <2>2
          DEF FailOutbox, streamVars, PathTypeOK, StoreTypeOK, StreamTypeOK, DispatcherTypeOK
<1> QED BY Zenon, <1>4, <1>5, <1>6

-----------------------------------------------------------------------------
(* Steps after which one dispatcher is back in its loop: it abandoned the  *)
(* batch, or goes on with a part of it.                                    *)
Looped(w) ==
  /\ dispatcher[w].pc # "idle"
  /\ \A v \in Dispatchers : v # w => dispatcher'[v] = dispatcher[v]
  /\ \/ dispatcher'[w] = Idle
     \/ /\ dispatcher'[w].pc = "next"
        /\ dispatcher'[w].token = dispatcher[w].token
        /\ dispatcher'[w].batch \subseteq dispatcher[w].batch
        /\ dispatcher'[w].current = None

(* Changes of rows that leave attempts and generations alone and claims    *)
(* none: at most they give claims up.                                      *)
ClaimsOnlyDropped ==
  \A d \in Deliveries :
    /\ outbox'[d].generation = outbox[d].generation
    /\ outbox'[d].attempts = outbox[d].attempts
    /\ outbox'[d].claim \in {outbox[d].claim, None}

StoredNext(id) == \E c \in 1..Copies : messages'[<<id, c>>] # "none"
StoredStays == \A id \in MessageIds : Stored(id) => StoredNext(id)

(* What a step back to the loop of RunOnce does to the dispatcher. *)
LEMMA LoopStep ==
  ASSUME PathTypeOK, NEW w \in Dispatchers, dispatcher[w].pc # "idle",
         NEW rest \in SUBSET dispatcher[w].batch, Continue(w, rest) \/ Abandon(w)
  PROVE  Looped(w)
<1>1. \A v \in Dispatchers : v # w => dispatcher'[v] = dispatcher[v]
  BY Zenon DEF Continue, Abandon, PathTypeOK, DispatcherTypeOK
<1>2. dispatcher'[w] \in {Idle, AfterItem(w, rest)}
  BY Zenon DEF Continue, Abandon, PathTypeOK, DispatcherTypeOK
<1>3. \/ AfterItem(w, rest) = Idle
      \/ /\ AfterItem(w, rest).pc = "next"
         /\ AfterItem(w, rest).token = dispatcher[w].token
         /\ AfterItem(w, rest).batch = rest
         /\ AfterItem(w, rest).current = None
  <2>1. dispatcher[w] \in DispatcherStates
    BY Zenon DEF PathTypeOK, DispatcherTypeOK
  <2> QED BY Zenon, <2>1 DEF AfterItem, DispatcherStates
<1> QED BY Zenon, <1>1, <1>2, <1>3 DEF Looped

(* Such a step keeps everything that is said about the dispatchers. *)
LEMMA LoopKeeps ==
  ASSUME PathTypeOK, PathTypeOK', LoopState, TokensDistinct, ClaimsAreCurrent, AttemptIsCurrent,
         MarkIsStored, CallIsNew, NoCallAhead,
         NEW w \in Dispatchers, Looped(w), ClaimsOnlyDropped, StoredStays, UNCHANGED publishes
  PROVE  LoopState' /\ TokensDistinct' /\ ClaimsAreCurrent' /\ AttemptIsCurrent'
         /\ MarkIsStored' /\ CallIsNew' /\ NoCallAhead'
<1>1. LoopState'
  <2> SUFFICES ASSUME NEW v \in Dispatchers
               PROVE  /\ dispatcher'[v].pc = "idle" => dispatcher'[v] = Idle
                      /\ dispatcher'[v].pc # "idle" => dispatcher'[v].token # None
                      /\ dispatcher'[v].pc = "next" => dispatcher'[v].current = None
                      /\ dispatcher'[v].pc \in InCall =>
                           /\ dispatcher'[v].current \in MessageIds
                           /\ dispatcher'[v].attempt \in 1..MaxAttempts
    BY Zenon DEF LoopState, Idle
  <2>1. CASE dispatcher'[v] = dispatcher[v]
    BY Zenon, <2>1 DEF LoopState
  <2>2. CASE dispatcher'[v] = Idle
    BY <2>2 DEF Idle, InCall
  <2>3. CASE v = w /\ dispatcher'[w].pc = "next"
    BY SMTT(30), <2>3 DEF Looped, LoopState, Idle, InCall
  <2> QED BY Zenon, <2>1, <2>2, <2>3 DEF Looped
<1>2. TokensDistinct'
  BY DEF TokensDistinct, Looped, Idle
<1>3. ClaimsAreCurrent'
  <2> SUFFICES ASSUME NEW v \in Dispatchers, NEW id \in MessageIds, Holds(v, id)'
               PROVE  /\ id[2] <= outbox'[id[1]].generation
                      /\ outbox'[id[1]].claim = dispatcher'[v].token =>
                           id[2] = outbox'[id[1]].generation
    BY Zenon DEF ClaimsAreCurrent
  <2>0. dispatcher'[v] # Idle
    BY IdsAssumption DEF Holds, Idle
  <2>1. dispatcher'[v].token # None
    BY Zenon, <1>1, <2>0 DEF LoopState, Idle
  <2>2. Holds(v, id) /\ dispatcher'[v].token = dispatcher[v].token
    BY Zenon, <2>0, IdsAssumption DEF Holds, Looped, Idle
  <2>3. id[1] \in Deliveries
    BY Zenon DEF MessageIds
  <2> QED BY Zenon, <2>1, <2>2, <2>3 DEF ClaimsAreCurrent, ClaimsOnlyDropped
<1>4. AttemptIsCurrent'
  <2> SUFFICES ASSUME NEW v \in Dispatchers, dispatcher'[v].pc \in InCall
               PROVE  LET d == dispatcher'[v].current[1] IN
                        /\ outbox'[d].claim = dispatcher'[v].token =>
                             outbox'[d].attempts = dispatcher'[v].attempt
                        /\ outbox'[d].generation = dispatcher'[v].current[2] =>
                             dispatcher'[v].attempt <= outbox'[d].attempts
    BY Zenon DEF AttemptIsCurrent
  <2>1. v # w /\ dispatcher'[v] = dispatcher[v]
    BY DEF Looped, InCall, Idle
  <2>2. dispatcher[v].token # None /\ dispatcher[v].current[1] \in Deliveries
    BY Zenon, <2>1 DEF LoopState, InCall, MessageIds
  <2> QED BY <2>1, <2>2 DEF AttemptIsCurrent, ClaimsOnlyDropped
<1>5. MarkIsStored'
  BY DEF MarkIsStored, Stored, StoredNext, StoredStays, Looped, Idle, LoopState, InCall
<1>6. CallIsNew'
  BY DEF CallIsNew, Looped, Idle
<1>7. NoCallAhead'
  BY DEF NoCallAhead, ClaimsOnlyDropped, MessageIds
<1> QED BY Zenon, <1>1, <1>2, <1>3, <1>4, <1>5, <1>6, <1>7

(* Steps that no dispatcher takes: time, the stream, an operator's replay. *)
RowsAgeOrReplay ==
  \A d \in Deliveries :
    \/ /\ outbox'[d].generation = outbox[d].generation
       /\ outbox'[d].attempts = outbox[d].attempts
       /\ outbox'[d].claim = outbox[d].claim
    \/ /\ outbox'[d].generation = outbox[d].generation + 1
       /\ outbox'[d].claim = None

(* A step that moves no dispatcher and takes no row back keeps the claims. *)
LEMMA QuietKeeps ==
  ASSUME PathTypeOK, PathTypeOK', LoopState, TokensDistinct, ClaimsAreCurrent, AttemptIsCurrent,
         MarkIsStored, CallIsNew, NoCallAhead,
         UNCHANGED <<dispatcher, publishes>>, RowsAgeOrReplay, StoredStays
  PROVE  LoopState' /\ TokensDistinct' /\ ClaimsAreCurrent' /\ AttemptIsCurrent'
         /\ MarkIsStored' /\ CallIsNew' /\ NoCallAhead'
<1>0. \A d \in Deliveries : outbox[d].generation \in Nat /\ outbox[d].attempts \in Nat
  BY ConstantTypes DEF PathTypeOK, StoreTypeOK, OutboxRows, Generations
<1>1. LoopState' /\ TokensDistinct' /\ CallIsNew'
  BY Zenon DEF LoopState, TokensDistinct, CallIsNew
<1>2. ClaimsAreCurrent'
  <2> SUFFICES ASSUME NEW w \in Dispatchers, NEW id \in MessageIds, Holds(w, id)
               PROVE  /\ id[2] <= outbox'[id[1]].generation
                      /\ outbox'[id[1]].claim = dispatcher[w].token =>
                           id[2] = outbox'[id[1]].generation
    BY Zenon DEF ClaimsAreCurrent, Holds
  <2>1. dispatcher[w] # Idle /\ dispatcher[w].token # None
    BY IdsAssumption DEF Holds, Idle, LoopState
  <2>2. id[1] \in Deliveries /\ id[2] \in Nat
    BY ConstantTypes DEF MessageIds, Generations
  <2> QED BY <1>0, <2>1, <2>2 DEF ClaimsAreCurrent, RowsAgeOrReplay
<1>3. AttemptIsCurrent'
  <2> SUFFICES ASSUME NEW w \in Dispatchers, dispatcher[w].pc \in InCall
               PROVE  LET d == dispatcher[w].current[1] IN
                        /\ outbox'[d].claim = dispatcher[w].token =>
                             outbox'[d].attempts = dispatcher[w].attempt
                        /\ outbox'[d].generation = dispatcher[w].current[2] =>
                             dispatcher[w].attempt <= outbox'[d].attempts
    BY Zenon DEF AttemptIsCurrent
  <2> DEFINE id == dispatcher[w].current
  <2>1. id \in MessageIds /\ id[1] \in Deliveries /\ id[2] \in Nat /\ dispatcher[w].token # None
    BY ConstantTypes DEF LoopState, InCall, MessageIds, Generations
  <2>2. id[2] <= outbox[id[1]].generation
    BY Zenon, <2>1 DEF ClaimsAreCurrent, Holds
  <2> QED BY SMTT(30), <1>0, <2>1, <2>2 DEF AttemptIsCurrent, RowsAgeOrReplay
<1>4. MarkIsStored'
  BY Zenon DEF MarkIsStored, Stored, StoredNext, StoredStays, LoopState, InCall
<1>5. NoCallAhead'
  <2> SUFFICES ASSUME NEW id \in MessageIds, NEW n \in 1..MaxAttempts,
                      \/ id[2] > outbox'[id[1]].generation
                      \/ id[2] = outbox'[id[1]].generation /\ n > outbox'[id[1]].attempts
               PROVE  publishes[<<id, n>>] = 0
    BY Zenon DEF NoCallAhead
  <2>1. id[1] \in Deliveries /\ id[2] \in Nat
    BY ConstantTypes DEF MessageIds, Generations
  <2> QED BY <1>0, <2>1 DEF NoCallAhead, RowsAgeOrReplay
<1> QED BY Zenon, <1>1, <1>2, <1>3, <1>4, <1>5

(* A fresh token keeps claims apart. *)
LEMMA ClaimKeeps ==
  ASSUME PathTypeOK, PathTypeOK', LoopState, TokensDistinct, ClaimsAreCurrent, AttemptIsCurrent,
         MarkIsStored, CallIsNew, NoCallAhead, NEW w \in Dispatchers, ClaimOutbox(w)
  PROVE  LoopState' /\ TokensDistinct' /\ ClaimsAreCurrent' /\ AttemptIsCurrent'
         /\ MarkIsStored' /\ CallIsNew' /\ NoCallAhead'
<1>1. PICK token \in FreshClaimTokens, claimed \in SUBSET {d \in Deliveries : Claimable(d)} :
        /\ outbox' = [d \in Deliveries |->
             IF d \in claimed THEN [outbox[d] EXCEPT !.claim = token, !.age = 0] ELSE outbox[d]]
        /\ dispatcher' = [dispatcher EXCEPT ![w] =
             [Idle EXCEPT !.pc = "next", !.token = token,
                          !.batch = {<<d, outbox[d].generation>> : d \in claimed}]]
  BY Zenon DEF ClaimOutbox
<1>2. UNCHANGED <<messages, publishes>>
  BY Zenon DEF ClaimOutbox, streamVars
<1>3. /\ token \in ClaimTokens /\ token # None
      /\ \A v \in Dispatchers : dispatcher[v].token # token
  BY Zenon, NoneAssumption DEF FreshClaimTokens
<1>4. \A v \in Dispatchers : v # w => dispatcher'[v] = dispatcher[v]
  BY Zenon, <1>1 DEF PathTypeOK, DispatcherTypeOK
<1>5. /\ dispatcher'[w].pc = "next" /\ dispatcher'[w].token = token /\ dispatcher'[w].current = None
      /\ dispatcher'[w].batch = {<<d, outbox[d].generation>> : d \in claimed}
  BY Zenon, <1>1 DEF PathTypeOK, DispatcherTypeOK, Idle
<1>6. \A d \in Deliveries :
        /\ outbox'[d].generation = outbox[d].generation
        /\ outbox'[d].attempts = outbox[d].attempts
        /\ outbox'[d].claim \in {outbox[d].claim, token}
  BY Zenon, <1>1 DEF PathTypeOK, StoreTypeOK, OutboxRows
<1>7. LoopState'
  BY <1>3, <1>4, <1>5 DEF LoopState, InCall
<1>8. TokensDistinct'
  BY <1>3, <1>4, <1>5 DEF TokensDistinct
<1>9. ClaimsAreCurrent'
  <2> SUFFICES ASSUME NEW v \in Dispatchers, NEW id \in MessageIds, Holds(v, id)'
               PROVE  /\ id[2] <= outbox'[id[1]].generation
                      /\ outbox'[id[1]].claim = dispatcher'[v].token =>
                           id[2] = outbox'[id[1]].generation
    BY Zenon DEF ClaimsAreCurrent
  <2>1. id[1] \in Deliveries /\ id[2] \in Nat /\ outbox[id[1]].generation \in Nat
    BY ConstantTypes DEF MessageIds, Generations, PathTypeOK, StoreTypeOK, OutboxRows
  <2>2. CASE v = w
    <3>1. PICK d \in claimed : id = <<d, outbox[d].generation>>
      BY Zenon, <1>5, <2>2, IdsAssumption DEF Holds
    <3> QED BY <1>6, <2>1, <3>1
  <2>3. CASE v # w
    <3>1. Holds(v, id) /\ dispatcher'[v] = dispatcher[v]
      BY Zenon, <1>4, <2>3 DEF Holds
    <3> QED BY Zenon, <1>3, <1>6, <2>1, <3>1 DEF ClaimsAreCurrent
  <2> QED BY Zenon, <2>2, <2>3
<1>10. AttemptIsCurrent'
  <2> SUFFICES ASSUME NEW v \in Dispatchers, dispatcher'[v].pc \in InCall
               PROVE  LET d == dispatcher'[v].current[1] IN
                        /\ outbox'[d].claim = dispatcher'[v].token =>
                             outbox'[d].attempts = dispatcher'[v].attempt
                        /\ outbox'[d].generation = dispatcher'[v].current[2] =>
                             dispatcher'[v].attempt <= outbox'[d].attempts
    BY Zenon DEF AttemptIsCurrent
  <2>1. v # w /\ dispatcher'[v] = dispatcher[v]
    BY Zenon, <1>4, <1>5 DEF InCall
  <2>2. dispatcher[v].current[1] \in Deliveries
    BY Zenon, <2>1 DEF LoopState, MessageIds
  <2> QED BY <1>3, <1>6, <2>1, <2>2 DEF AttemptIsCurrent
<1>11. MarkIsStored'
  BY Zenon, <1>2, <1>4, <1>5 DEF MarkIsStored, Stored
<1>12. CallIsNew'
  BY <1>2, <1>4, <1>5 DEF CallIsNew
<1>13. NoCallAhead'
  BY <1>2, <1>6 DEF NoCallAhead, MessageIds
<1> QED BY Zenon, <1>7, <1>8, <1>9, <1>10, <1>11, <1>12, <1>13

(* Counting an attempt under a standing claim licenses a new call. *)
LEMMA CountKeeps ==
  ASSUME PathTypeOK, PathTypeOK', LoopState, TokensDistinct, ClaimsAreCurrent, AttemptIsCurrent,
         MarkIsStored, CallIsNew, NoCallAhead, NEW w \in Dispatchers,
         dispatcher[w].pc = "next", NEW id \in dispatcher[w].batch, Owns(w, id[1]),
         ~Exhausted(id[1]), CountAttempt(id[1]),
         dispatcher' = [dispatcher EXCEPT ![w] = Begun(w, id)], UNCHANGED <<messages, publishes>>
  PROVE  LoopState' /\ TokensDistinct' /\ ClaimsAreCurrent' /\ AttemptIsCurrent'
         /\ MarkIsStored' /\ CallIsNew' /\ NoCallAhead'
<1> DEFINE d == id[1]
           n == outbox[d].attempts + 1
<1>1. id \in MessageIds /\ d \in Deliveries /\ id[2] \in Nat
  BY ConstantTypes DEF PathTypeOK, DispatcherTypeOK, DispatcherStates, MessageIds, Generations
<1>2. /\ dispatcher[w].token # None
      /\ outbox[d].claim = dispatcher[w].token
      /\ id[2] = outbox[d].generation
  BY Zenon, <1>1 DEF LoopState, Owns, ClaimsAreCurrent, Holds
<1>3. \A v \in Dispatchers : v # w => dispatcher'[v] = dispatcher[v]
  BY Zenon DEF PathTypeOK, DispatcherTypeOK
<1>4. /\ dispatcher'[w].pc = "publish" /\ dispatcher'[w].token = dispatcher[w].token
      /\ dispatcher'[w].current = id /\ dispatcher'[w].attempt = n
      /\ dispatcher'[w].batch \subseteq dispatcher[w].batch
  BY DEF PathTypeOK, DispatcherTypeOK, DispatcherStates, Begun
<1>5. \A e \in Deliveries : /\ outbox[e].generation \in Nat /\ outbox[e].attempts \in Nat
                            /\ outbox'[e].generation = outbox[e].generation
                            /\ outbox'[e].claim = outbox[e].claim
                            /\ e # d => outbox'[e].attempts = outbox[e].attempts
                            /\ e = d => outbox'[e].attempts = n
  BY <1>1, ConstantTypes DEF PathTypeOK, StoreTypeOK, OutboxRows, Generations, CountAttempt
<1>6. n \in 1..MaxAttempts
  BY SMTT(30), <1>1, <1>5, ConstantTypes DEF Exhausted
<1> HIDE DEF d, n
<1>7. LoopState'
  BY <1>1, <1>2, <1>3, <1>4, <1>6 DEF LoopState, InCall
<1>8. TokensDistinct'
  <2>1. \A v \in Dispatchers : dispatcher'[v].token = dispatcher[v].token
    BY Zenon, <1>3, <1>4
  <2> SUFFICES ASSUME NEW u \in Dispatchers, NEW v \in Dispatchers, u # v,
                      dispatcher'[u].token # None
               PROVE  dispatcher'[u].token # dispatcher'[v].token
    BY Zenon DEF TokensDistinct
  <2>2. dispatcher[u].token # dispatcher[v].token
    BY Zenon, <2>1 DEF TokensDistinct
  <2> QED BY Zenon, <2>1, <2>2
<1>9. ClaimsAreCurrent'
  <2> SUFFICES ASSUME NEW v \in Dispatchers, NEW i \in MessageIds, Holds(v, i)'
               PROVE  /\ i[2] <= outbox'[i[1]].generation
                      /\ outbox'[i[1]].claim = dispatcher'[v].token =>
                           i[2] = outbox'[i[1]].generation
    BY Zenon DEF ClaimsAreCurrent
  <2>1. Holds(v, i) /\ dispatcher'[v].token = dispatcher[v].token
    BY Zenon, <1>3, <1>4 DEF Holds
  <2>2. i[1] \in Deliveries
    BY Zenon DEF MessageIds
  <2> QED BY Zenon, <1>5, <2>1, <2>2 DEF ClaimsAreCurrent
<1>10. AttemptIsCurrent'
  <2> SUFFICES ASSUME NEW v \in Dispatchers, dispatcher'[v].pc \in InCall
               PROVE  LET e == dispatcher'[v].current[1] IN
                        /\ outbox'[e].claim = dispatcher'[v].token =>
                             outbox'[e].attempts = dispatcher'[v].attempt
                        /\ outbox'[e].generation = dispatcher'[v].current[2] =>
                             dispatcher'[v].attempt <= outbox'[e].attempts
    BY Zenon DEF AttemptIsCurrent
  <2>1. CASE v = w
    <3>1. n <= n
      BY <1>6
    <3>2. outbox'[id[1]].attempts = n
      BY Zenon, <1>1, <1>5 DEF d
    <3> QED BY Zenon, <1>4, <2>1, <3>1, <3>2
  <2>2. CASE v # w
    <3>1. dispatcher'[v] = dispatcher[v] /\ dispatcher[v].current \in MessageIds
      BY Zenon, <1>3, <2>2 DEF LoopState
    <3>2. dispatcher[v].current[1] \in Deliveries /\ dispatcher[v].attempt \in Nat
      BY <3>1, ConstantTypes DEF MessageIds, LoopState
    <3>3. dispatcher[v].token # dispatcher[w].token
      BY Zenon, <1>2, <2>2 DEF TokensDistinct
    <3>4. outbox[dispatcher[v].current[1]].attempts <= outbox'[dispatcher[v].current[1]].attempts
      BY <1>5, <3>2 DEF n
    <3>5. outbox'[dispatcher[v].current[1]].attempts \in Nat
      BY <1>5, <1>6, <3>2
    <3>6. dispatcher[v].current[1] = d => outbox'[dispatcher[v].current[1]].claim # dispatcher[v].token
      BY Zenon, <1>1, <1>2, <1>5, <3>3
    <3> DEFINE c == dispatcher[v].current
    <3>7. /\ outbox[c[1]].claim = dispatcher[v].token => outbox[c[1]].attempts = dispatcher[v].attempt
          /\ outbox[c[1]].generation = c[2] => dispatcher[v].attempt <= outbox[c[1]].attempts
      BY Zenon, <3>1 DEF AttemptIsCurrent
    <3>8. outbox'[c[1]].claim = dispatcher[v].token => outbox'[c[1]].attempts = dispatcher[v].attempt
      BY Zenon, <1>5, <3>2, <3>6, <3>7
    <3>9. outbox'[c[1]].generation = c[2] => dispatcher[v].attempt <= outbox'[c[1]].attempts
      <4>1. outbox'[c[1]].generation = outbox[c[1]].generation /\ outbox[c[1]].attempts \in Nat
        BY Zenon, <1>5, <3>2
      <4> QED BY Zenon, <3>2, <3>4, <3>5, <3>7, <4>1, AtLeast
    <3> QED BY Zenon, <3>1, <3>8, <3>9
  <2> QED BY Zenon, <2>1, <2>2
<1>11. MarkIsStored'
  BY Zenon, <1>3, <1>4 DEF MarkIsStored, Stored
<1>12. CallIsNew'
  <2> SUFFICES ASSUME NEW u \in Dispatchers, dispatcher'[u].pc = "publish"
               PROVE  /\ publishes[<<dispatcher'[u].current, dispatcher'[u].attempt>>] = 0
                      /\ \A v \in Dispatchers \ {u} :
                           dispatcher'[v].pc = "publish" /\ dispatcher'[v].current = dispatcher'[u].current
                             => dispatcher'[v].attempt # dispatcher'[u].attempt
    BY Zenon DEF CallIsNew
  <2>1. publishes[<<id, n>>] = 0
    <3>1. n > outbox[d].attempts
      BY <1>1, <1>5 DEF n
    <3> QED BY Zenon, <1>1, <1>2, <1>6, <3>1 DEF NoCallAhead, d
  <2>2. \A v \in Dispatchers \ {w} :
          dispatcher[v].pc = "publish" /\ dispatcher[v].current = id => dispatcher[v].attempt # n
    <3> SUFFICES ASSUME NEW v \in Dispatchers \ {w}, dispatcher[v].pc = "publish",
                        dispatcher[v].current = id
                 PROVE  dispatcher[v].attempt # n
      BY Zenon
    <3>1. dispatcher[v].attempt <= outbox[d].attempts /\ dispatcher[v].attempt \in Nat
      <4>1. dispatcher[v].pc \in InCall
        BY Zenon DEF InCall
      <4>2. dispatcher[v].attempt \in 1..MaxAttempts
        BY Zenon, <4>1 DEF LoopState
      <4>3. outbox[id[1]].generation = id[2] => dispatcher[v].attempt <= outbox[id[1]].attempts
        BY Zenon, <4>1 DEF AttemptIsCurrent
      <4>4. id[2] = outbox[id[1]].generation
        BY Zenon, <1>2 DEF d
      <4> QED BY <4>2, <4>3, <4>4, ConstantTypes DEF d
    <3> QED BY <1>1, <1>5, <3>1 DEF n
  <2> QED BY SMTT(30), <1>3, <1>4, <2>1, <2>2 DEF CallIsNew
<1>13. NoCallAhead'
  <2> SUFFICES ASSUME NEW i \in MessageIds, NEW m \in 1..MaxAttempts,
                      \/ i[2] > outbox'[i[1]].generation
                      \/ i[2] = outbox'[i[1]].generation /\ m > outbox'[i[1]].attempts
               PROVE  publishes[<<i, m>>] = 0
    BY Zenon DEF NoCallAhead
  <2>1. i[1] \in Deliveries
    BY Zenon DEF MessageIds
  <2>2. m > outbox'[i[1]].attempts => m > outbox[i[1]].attempts
    BY SMTT(30), <1>5, <2>1, ConstantTypes DEF n
  <2> QED BY Zenon, <1>5, <2>1, <2>2 DEF NoCallAhead
<1> QED BY Zenon, <1>7, <1>8, <1>9, <1>10, <1>11, <1>12, <1>13

(* The stream forgets no accepted id. *)
LEMMA StreamKeeps ==
  ASSUME StreamTypeOK, NEW id \in MessageIds,
         \/ Accept(id)
         \/ ForgetDuplicate(id)
         \/ \E m \in Messages : ExpireMessage(m)
         \/ UNCHANGED messages
  PROVE  StoredStays
<1>1. \A m \in Messages : messages[m] # "none" => messages'[m] # "none"
  BY Zenon DEF StreamTypeOK, Accept, ForgetDuplicate, ExpireMessage, streamVars, Messages
<1> QED BY Zenon, <1>1, IdsAssumption DEF StoredStays, Stored, StoredNext, Messages

(* An accepted id is stored. *)
LEMMA AcceptStores ==
  ASSUME StreamTypeOK, NEW id \in MessageIds, Accept(id), WindowIsStored
  PROVE  StoredNext(id)
<1>1. CASE id \in window
  BY Zenon, <1>1 DEF Accept, streamVars, Stored, StoredNext, WindowIsStored
<1>2. CASE id \notin window
  <2>1. PICK c \in 1..Copies : messages' = [messages EXCEPT ![<<id, c>>] = "ready"]
    BY Zenon, <1>2 DEF Accept
  <2>2. messages'[<<id, c>>] = "ready"
    BY Zenon, <2>1, IdsAssumption DEF StreamTypeOK, Messages
  <2> QED BY Zenon, <2>2 DEF StoredNext
<1> QED BY Zenon, <1>1, <1>2

(* The broker call uses up what licensed it. *)
LEMMA PublishKeeps ==
  ASSUME PathTypeOK, PathTypeOK', LoopState, TokensDistinct, ClaimsAreCurrent, AttemptIsCurrent,
         WindowIsStored, MarkIsStored, CallIsNew, NoCallAhead, OneCallPerAttempt,
         NEW w \in Dispatchers, Publish(w)
  PROVE  LoopState' /\ TokensDistinct' /\ ClaimsAreCurrent' /\ AttemptIsCurrent' /\ WindowIsStored'
         /\ MarkIsStored' /\ CallIsNew' /\ NoCallAhead' /\ OneCallPerAttempt'
<1> DEFINE id == dispatcher[w].current
           n == dispatcher[w].attempt
<1>1. id \in MessageIds /\ n \in 1..MaxAttempts /\ id[1] \in Deliveries /\ id[2] \in Nat
  BY ConstantTypes DEF Publish, LoopState, InCall, MessageIds, Generations
<1>2. UNCHANGED outbox
  BY Zenon DEF Publish, storeVars
<1>3. publishes' = [publishes EXCEPT ![<<id, n>>] = @ + 1]
  BY Zenon DEF Publish
<1>4. PICK pc \in {"mark", "settle"} :
        /\ dispatcher' = [dispatcher EXCEPT ![w].pc = pc]
        /\ Accept(id) \/ (pc = "settle" /\ UNCHANGED streamVars)
  BY Zenon DEF Publish
<1>5. \A v \in Dispatchers : v # w => dispatcher'[v] = dispatcher[v]
  BY Zenon, <1>4 DEF PathTypeOK, DispatcherTypeOK
<1>6. /\ dispatcher'[w].pc = pc /\ dispatcher'[w].token = dispatcher[w].token
      /\ dispatcher'[w].batch = dispatcher[w].batch
      /\ dispatcher'[w].current = id /\ dispatcher'[w].attempt = n
  BY Zenon, <1>4 DEF PathTypeOK, DispatcherTypeOK, DispatcherStates
<1>7. dispatcher[w].pc = "publish" /\ dispatcher[w].token # None
  BY Zenon DEF Publish, LoopState
<1>8. StoredStays
  BY Zenon, <1>1, <1>4, StreamKeeps DEF PathTypeOK, streamVars
<1> HIDE DEF id, n
<1>9. LoopState'
  BY Zenon, <1>1, <1>5, <1>6, <1>7 DEF LoopState, InCall
<1>10. TokensDistinct'
  <2>1. \A v \in Dispatchers : dispatcher'[v].token = dispatcher[v].token
    BY Zenon, <1>5, <1>6
  <2> SUFFICES ASSUME NEW u \in Dispatchers, NEW v \in Dispatchers, u # v,
                      dispatcher'[u].token # None
               PROVE  dispatcher'[u].token # dispatcher'[v].token
    BY Zenon DEF TokensDistinct
  <2>2. dispatcher[u].token # dispatcher[v].token
    BY Zenon, <2>1 DEF TokensDistinct
  <2> QED BY Zenon, <2>1, <2>2
<1>11. ClaimsAreCurrent'
  BY <1>2, <1>5, <1>6 DEF ClaimsAreCurrent, Holds, id
<1>12. AttemptIsCurrent'
  BY <1>2, <1>5, <1>6, <1>7 DEF AttemptIsCurrent, InCall, id, n
<1>13. MarkIsStored'
  <2>1. pc = "mark" => StoredNext(id)
    BY Zenon, <1>1, <1>4, AcceptStores DEF PathTypeOK
  <2>2. \A v \in Dispatchers : v # w /\ dispatcher[v].pc = "mark" => StoredNext(dispatcher[v].current)
    BY Zenon, <1>8 DEF MarkIsStored, StoredStays, LoopState, InCall
  <2> QED BY Zenon, <1>5, <1>6, <2>1, <2>2 DEF MarkIsStored, Stored, StoredNext
<1>14. WindowIsStored'
  <2>1. window' \subseteq window \cup {id} /\ (id \in window' => id \in window \/ StoredNext(id))
    BY Zenon, <1>1, <1>4, AcceptStores DEF PathTypeOK, Accept, streamVars
  <2>2. \A i \in window : StoredNext(i)
    BY Zenon, <1>8, IdsAssumption DEF WindowIsStored, StoredStays, PathTypeOK, StreamTypeOK
  <2> QED BY Zenon, <2>1, <2>2 DEF WindowIsStored, Stored, StoredNext
<1>15. publishes[<<id, n>>] = 0 /\ publishes'[<<id, n>>] = 1
  BY <1>1, <1>3, <1>7 DEF CallIsNew, PathTypeOK, DispatcherTypeOK, id, n
<1>16. \A i \in MessageIds, m \in 1..MaxAttempts :
         <<i, m>> # <<id, n>> => publishes'[<<i, m>>] = publishes[<<i, m>>]
  BY Zenon, <1>1, <1>3 DEF PathTypeOK, DispatcherTypeOK
<1>17. CallIsNew'
  <2> SUFFICES ASSUME NEW u \in Dispatchers, dispatcher'[u].pc = "publish"
               PROVE  /\ publishes'[<<dispatcher'[u].current, dispatcher'[u].attempt>>] = 0
                      /\ \A v \in Dispatchers \ {u} :
                           dispatcher'[v].pc = "publish" /\ dispatcher'[v].current = dispatcher'[u].current
                             => dispatcher'[v].attempt # dispatcher'[u].attempt
    BY Zenon DEF CallIsNew
  <2>1. u # w /\ dispatcher'[u] = dispatcher[u]
    BY Zenon, <1>5, <1>6
  <2>2. /\ dispatcher[u].current \in MessageIds /\ dispatcher[u].attempt \in 1..MaxAttempts
        /\ <<dispatcher[u].current, dispatcher[u].attempt>> # <<id, n>>
    BY Zenon, <1>7, <2>1 DEF CallIsNew, LoopState, InCall, id, n
  <2> QED BY SMTT(30), <1>5, <1>6, <1>16, <2>1, <2>2 DEF CallIsNew
<1>18. NoCallAhead'
  <2>1. /\ id[2] <= outbox[id[1]].generation
        /\ id[2] = outbox[id[1]].generation => n <= outbox[id[1]].attempts
    BY Zenon, <1>1, <1>7 DEF ClaimsAreCurrent, AttemptIsCurrent, Holds, InCall, id, n
  <2> SUFFICES ASSUME NEW i \in MessageIds, NEW m \in 1..MaxAttempts,
                      \/ i[2] > outbox[i[1]].generation
                      \/ i[2] = outbox[i[1]].generation /\ m > outbox[i[1]].attempts
               PROVE  publishes'[<<i, m>>] = 0
    BY Zenon, <1>2 DEF NoCallAhead
  <2>2. outbox[id[1]].generation \in Nat /\ outbox[id[1]].attempts \in Nat
    BY <1>1, ConstantTypes DEF PathTypeOK, StoreTypeOK, OutboxRows, Generations
  <2>3. <<i, m>> # <<id, n>>
    BY <1>1, <2>1, <2>2
  <2> QED BY Zenon, <1>16, <2>3 DEF NoCallAhead
<1>19. OneCallPerAttempt'
  BY <1>1, <1>15, <1>16 DEF OneCallPerAttempt
<1> QED BY Zenon, <1>9, <1>10, <1>11, <1>12, <1>13, <1>14, <1>17, <1>18, <1>19

(* Rows that keep their state keep what is said about settled rows. *)
SettledAsBefore(d) ==
  /\ outbox'[d].state = outbox[d].state
  /\ outbox'[d].generation = outbox[d].generation
  /\ outbox'[d].attempts = outbox[d].attempts

(* What is said of dispatched rows survives unchanged rows. *)
LEMMA SettledKeeps ==
  ASSUME PathTypeOK, DispatchedIsStored, StoredStays,
         \A d \in Deliveries : SettledAsBefore(d) \/ outbox'[d].state = "open"
  PROVE  DispatchedIsStored'
<1>1. \A d \in Deliveries : <<d, outbox[d].generation>> \in MessageIds
  BY Zenon DEF PathTypeOK, StoreTypeOK, OutboxRows, MessageIds
<1> QED BY Zenon, <1>1 DEF DispatchedIsStored, SettledAsBefore, StoredStays, StoredNext, Stored

(* The duplicate window names stored ids as long as it does not grow. *)
LEMMA WindowKeeps ==
  ASSUME PathTypeOK, WindowIsStored, StoredStays, window' \subseteq window
  PROVE  WindowIsStored'
BY Zenon, IdsAssumption DEF WindowIsStored, StoredStays, StoredNext, Stored, PathTypeOK, StreamTypeOK

(* Giving up a row leaves final deliveries final. *)
LEMMA DeadLetterIsFinal ==
  ASSUME row \in [Deliveries -> Rows], NEW d \in Deliveries, DeadLetterUnlessAcked(d)
  PROVE  /\ row'[d].status \in {"acked", "dead_letter"}
         /\ \A e \in Deliveries : e # d => row'[e] = row[e]
BY Zenon DEF DeadLetterUnlessAcked, Rows

(* A status written by the outbox leaves a final status final. *)
LEMMA SetStatusKeeps ==
  ASSUME row \in [Deliveries -> Rows], NEW d \in Deliveries, NEW s \in Statuses,
         SetStatusUnlessFinal(d, s)
  PROVE  \A e \in Deliveries :
           row[e].status \in {"acked", "dead_letter"} => row'[e].status = row[e].status
BY Zenon DEF SetStatusUnlessFinal, Rows

(* Settling a row under a standing claim. *)
LEMMA SettledRowEffect ==
  ASSUME PathTypeOK, NEW d \in Deliveries, NEW s \in {"dispatched", "failed"},
         outbox' = [outbox EXCEPT ![d] = SettledRow(d, s)]
  PROVE  /\ ClaimsOnlyDropped
         /\ outbox'[d].state = s
         /\ \A e \in Deliveries : e # d => outbox'[e] = outbox[e]
<1>1. outbox'[d] = SettledRow(d, s) /\ \A e \in Deliveries : e # d => outbox'[e] = outbox[e]
  BY Zenon DEF PathTypeOK, StoreTypeOK
<1>2. /\ SettledRow(d, s).state = s /\ SettledRow(d, s).claim = None
      /\ SettledRow(d, s).generation = outbox[d].generation
      /\ SettledRow(d, s).attempts = outbox[d].attempts
  BY Zenon DEF PathTypeOK, StoreTypeOK, OutboxRows, SettledRow
<1> QED BY Zenon, <1>1, <1>2 DEF ClaimsOnlyDropped

(* Handing a row back for a later attempt under a standing claim. *)
LEMMA RetriedRowEffect ==
  ASSUME PathTypeOK, NEW d \in Deliveries, NEW v \in 0..MaxRetry,
         outbox' = [outbox EXCEPT ![d] = RetriedRow(d, v)]
  PROVE  /\ ClaimsOnlyDropped
         /\ \A e \in Deliveries : outbox'[e].state = outbox[e].state
<1>1. outbox'[d] = RetriedRow(d, v) /\ \A e \in Deliveries : e # d => outbox'[e] = outbox[e]
  BY Zenon DEF PathTypeOK, StoreTypeOK
<1>2. /\ RetriedRow(d, v).state = outbox[d].state /\ RetriedRow(d, v).claim = None
      /\ RetriedRow(d, v).generation = outbox[d].generation
      /\ RetriedRow(d, v).attempts = outbox[d].attempts
  BY Zenon DEF PathTypeOK, StoreTypeOK, OutboxRows, RetriedRow
<1> QED BY Zenon, <1>1, <1>2 DEF ClaimsOnlyDropped

-----------------------------------------------------------------------------
(* One lemma per kind of step: the inductive invariant is kept.            *)

(* A claim changes claims only. *)
LEMMA ClaimStep ==
  ASSUME DispatchInv, NEW w \in Dispatchers, ClaimOutbox(w)
  PROVE  DispatchInv'
<1>1. PathTypeOK'
  BY Zenon, ClaimType DEF DispatchInv
<1>2. UNCHANGED <<messages, window, publishes, row>>
  BY Zenon DEF ClaimOutbox, streamVars
<1>3. StoredStays
  BY Zenon, <1>2 DEF StoredStays, Stored, StoredNext
<1>4. \A d \in Deliveries : SettledAsBefore(d)
  <2>1. \A d \in Deliveries :
          /\ outbox'[d].state = outbox[d].state
          /\ outbox'[d].generation = outbox[d].generation
          /\ outbox'[d].attempts = outbox[d].attempts
    <3>1. PICK token \in FreshClaimTokens, claimed \in SUBSET {d \in Deliveries : Claimable(d)} :
            outbox' = [d \in Deliveries |->
              IF d \in claimed THEN [outbox[d] EXCEPT !.claim = token, !.age = 0] ELSE outbox[d]]
      BY Zenon DEF ClaimOutbox
    <3> QED BY Zenon, <3>1 DEF DispatchInv, PathTypeOK, StoreTypeOK, OutboxRows
  <2> QED BY Zenon, <1>2, <2>1 DEF SettledAsBefore
<1>5. DispatchedIsStored' /\ WindowIsStored'
  BY Zenon, <1>2, <1>3, <1>4, SettledKeeps, WindowKeeps DEF DispatchInv
<1>6. OneCallPerAttempt'
  BY Zenon, <1>2 DEF DispatchInv, OneCallPerAttempt
<1> QED BY Zenon, <1>1, <1>5, <1>6, ClaimKeeps DEF DispatchInv

(* A step back to the loop that keeps what is said of settled rows. *)
LEMMA BackToLoop ==
  ASSUME DispatchInv, PathTypeOK', NEW w \in Dispatchers, dispatcher[w].pc # "idle",
         NEW rest \in SUBSET dispatcher[w].batch, Continue(w, rest) \/ Abandon(w),
         ClaimsOnlyDropped, DispatchedIsStored',
         UNCHANGED <<publishes, messages, window>>
  PROVE  DispatchInv'
<1>1. Looped(w)
  BY Zenon, LoopStep DEF DispatchInv
<1>2. StoredStays
  BY Zenon DEF StoredStays, Stored, StoredNext
<1>3. WindowIsStored'
  BY Zenon, <1>2, WindowKeeps DEF DispatchInv
<1>4. OneCallPerAttempt'
  BY Zenon DEF DispatchInv, OneCallPerAttempt
<1> QED BY Zenon, <1>1, <1>2, <1>3, <1>4, LoopKeeps DEF DispatchInv

(* The claim of a dispatcher that owns the row is on the generation it     *)
(* read, and the row's counter is the dispatcher's attempt.                *)
LEMMA OwnerIsCurrent ==
  ASSUME DispatchInv, NEW w \in Dispatchers, dispatcher[w].pc \in InCall,
         Owns(w, dispatcher[w].current[1])
  PROVE  /\ dispatcher[w].current = <<dispatcher[w].current[1],
                                      outbox[dispatcher[w].current[1]].generation>>
         /\ outbox[dispatcher[w].current[1]].attempts = dispatcher[w].attempt
<1>1. dispatcher[w].current \in MessageIds
  BY Zenon DEF DispatchInv, LoopState
<1>2. dispatcher[w].current[2] = outbox[dispatcher[w].current[1]].generation
  BY Zenon, <1>1 DEF DispatchInv, ClaimsAreCurrent, Holds, Owns
<1>3. dispatcher[w].current = <<dispatcher[w].current[1], dispatcher[w].current[2]>>
  BY <1>1 DEF MessageIds
<1>4. outbox[dispatcher[w].current[1]].attempts = dispatcher[w].attempt
  BY Zenon DEF DispatchInv, AttemptIsCurrent, Owns
<1> QED BY Zenon, <1>2, <1>3, <1>4

(* A row that is given up. *)
LEMMA GivenUp ==
  ASSUME DispatchInv, NEW d \in Deliveries, UNCHANGED messages,
         outbox' = [outbox EXCEPT ![d] = SettledRow(d, "failed")]
  PROVE  ClaimsOnlyDropped /\ DispatchedIsStored'
<1>1. /\ ClaimsOnlyDropped
      /\ outbox'[d].state = "failed"
      /\ \A e \in Deliveries : e # d => outbox'[e] = outbox[e]
  BY Zenon, SettledRowEffect DEF DispatchInv
<1> QED BY Zenon, <1>1 DEF DispatchInv, DispatchedIsStored, Stored

(* Beginning an attempt, finding none left, or finding the claim lost. *)
LEMMA BeginStep ==
  ASSUME DispatchInv, NEW w \in Dispatchers, BeginOutboxPublish(w)
  PROVE  DispatchInv'
<1>1. PathTypeOK' /\ UNCHANGED <<messages, window, publishes>> /\ dispatcher[w].pc = "next"
  BY Zenon, BeginType DEF DispatchInv, BeginOutboxPublish, streamVars
<1>2. PICK id \in dispatcher[w].batch :
        \/ /\ Abandon(w)
           /\ UNCHANGED <<row, assignment, outbox>>
        \/ /\ Exhausted(id[1])
           /\ outbox' = [outbox EXCEPT ![id[1]] = SettledRow(id[1], "failed")]
           /\ DeadLetterUnlessAcked(id[1])
           /\ Continue(w, dispatcher[w].batch \ {id})
        \/ /\ Owns(w, id[1])
           /\ ~Exhausted(id[1])
           /\ CountAttempt(id[1])
           /\ dispatcher' = [dispatcher EXCEPT ![w] = Begun(w, id)]
           /\ UNCHANGED <<row, assignment>>
  BY Zenon DEF BeginOutboxPublish, SettledRow
<1>3. id[1] \in Deliveries
  BY DEF DispatchInv, PathTypeOK, DispatcherTypeOK, DispatcherStates, MessageIds
<1>5. StoredStays
  BY Zenon, <1>1 DEF StoredStays, Stored, StoredNext
<1>6. CASE Abandon(w) /\ UNCHANGED <<row, assignment, outbox>>
  <2>1. ClaimsOnlyDropped /\ \A d \in Deliveries : SettledAsBefore(d)
    BY Zenon, <1>6 DEF ClaimsOnlyDropped, SettledAsBefore
  <2>2. DispatchedIsStored'
    BY Zenon, <2>1, <1>5, SettledKeeps DEF DispatchInv
  <2> QED BY Zenon, <1>1, <1>6, <2>1, <2>2, BackToLoop
<1>7. CASE /\ Exhausted(id[1])
           /\ outbox' = [outbox EXCEPT ![id[1]] = SettledRow(id[1], "failed")]
           /\ DeadLetterUnlessAcked(id[1])
           /\ Continue(w, dispatcher[w].batch \ {id})
  <2>2. ClaimsOnlyDropped /\ DispatchedIsStored'
    BY Zenon, <1>1, <1>3, <1>7, GivenUp
  <2>3. dispatcher[w].batch \ {id} \in SUBSET dispatcher[w].batch
    BY Zenon
  <2> QED BY Zenon, <1>1, <1>7, <2>2, <2>3, BackToLoop
<1>8. CASE /\ Owns(w, id[1])
           /\ ~Exhausted(id[1])
           /\ CountAttempt(id[1])
           /\ dispatcher' = [dispatcher EXCEPT ![w] = Begun(w, id)]
           /\ UNCHANGED <<row, assignment>>
  <2>1. \A d \in Deliveries : SettledAsBefore(d) \/ outbox'[d].state = "open"
    <3>1. /\ outbox'[id[1]].state = "open"
          /\ \A d \in Deliveries : d # id[1] => outbox'[d] = outbox[d]
      BY Zenon, <1>3, <1>8 DEF CountAttempt, Owns, DispatchInv, PathTypeOK, StoreTypeOK, OutboxRows
    <3> QED BY Zenon, <1>8, <3>1 DEF SettledAsBefore
  <2>2. DispatchedIsStored' /\ WindowIsStored'
    BY Zenon, <1>1, <1>5, <2>1, SettledKeeps, WindowKeeps DEF DispatchInv
  <2>3. OneCallPerAttempt'
    BY Zenon, <1>1 DEF DispatchInv, OneCallPerAttempt
  <2> QED BY Zenon, <1>1, <1>8, <2>2, <2>3, CountKeeps DEF DispatchInv
<1> QED BY Zenon, <1>2, <1>6, <1>7, <1>8

(* The broker call. *)
LEMMA PublishStep ==
  ASSUME DispatchInv, NEW w \in Dispatchers, Publish(w)
  PROVE  DispatchInv'
<1>1. dispatcher[w].current \in MessageIds /\ dispatcher[w].attempt \in 1..MaxAttempts
  BY Zenon DEF DispatchInv, Publish, LoopState, InCall
<1>2. PathTypeOK'
  BY Zenon, <1>1, PublishType DEF DispatchInv
<1>3. UNCHANGED <<row, outbox>>
  BY Zenon DEF Publish, storeVars
<1>4. StoredStays
  <2>1. Accept(dispatcher[w].current) \/ UNCHANGED messages
    BY Zenon DEF Publish, streamVars
  <2> QED BY Zenon, <1>1, <2>1, StreamKeeps DEF DispatchInv, PathTypeOK
<1>5. DispatchedIsStored'
  <2>1. \A d \in Deliveries : SettledAsBefore(d)
    BY Zenon, <1>3 DEF SettledAsBefore
  <2> QED BY Zenon, <1>4, <2>1, SettledKeeps DEF DispatchInv
<1> QED BY Zenon, <1>2, <1>5, PublishKeeps DEF DispatchInv

(* The three transactions that may follow the call. *)
LEMMA SettleStep ==
  ASSUME DispatchInv, NEW w \in Dispatchers,
         MarkOutboxDispatched(w) \/ RetryOutbox(w) \/ FailOutbox(w)
  PROVE  DispatchInv'
<1> DEFINE id == dispatcher[w].current
           d == id[1]
<1>1. /\ dispatcher[w].pc \in InCall /\ dispatcher[w].pc # "idle"
      /\ id \in MessageIds /\ d \in Deliveries /\ dispatcher[w].attempt \in 1..MaxAttempts
  <2>1. dispatcher[w].pc \in InCall
    BY Zenon DEF MarkOutboxDispatched, RetryOutbox, FailOutbox, InCall
  <2>2. id \in MessageIds /\ dispatcher[w].attempt \in 1..MaxAttempts
    BY Zenon, <2>1 DEF DispatchInv, LoopState
  <2> QED BY Zenon, <2>1, <2>2 DEF MessageIds, InCall
<1>2. PathTypeOK'
  BY Zenon, <1>1, SettleType DEF DispatchInv
<1>3. UNCHANGED <<messages, window, publishes>>
  BY Zenon DEF MarkOutboxDispatched, RetryOutbox, FailOutbox, streamVars
<1>4. StoredStays
  BY Zenon, <1>3 DEF StoredStays, Stored, StoredNext
<1>5. Continue(w, dispatcher[w].batch) \/ Abandon(w)
  BY Zenon DEF MarkOutboxDispatched, RetryOutbox, FailOutbox
<1>6. SUFFICES ClaimsOnlyDropped /\ DispatchedIsStored'
  BY Zenon, <1>1, <1>2, <1>3, <1>5, BackToLoop
<1>7. CASE UNCHANGED <<row, outbox>>
  <2>1. ClaimsOnlyDropped /\ \A e \in Deliveries : SettledAsBefore(e)
    BY Zenon, <1>7 DEF ClaimsOnlyDropped, SettledAsBefore
  <2> QED BY Zenon, <1>4, <2>1, SettledKeeps DEF DispatchInv
<1>8. CASE /\ MarkOutboxDispatched(w) /\ Owns(w, d)
           /\ outbox' = [outbox EXCEPT ![d] = SettledRow(d, "dispatched")]
           /\ SetStatusUnlessFinal(d, "dispatched")
  <2>1. /\ ClaimsOnlyDropped
        /\ outbox'[d].state = "dispatched"
        /\ \A e \in Deliveries : e # d => outbox'[e] = outbox[e]
    BY Zenon, <1>1, <1>8, SettledRowEffect DEF DispatchInv
  <2>3. StoredNext(<<d, outbox[d].generation>>)
    <3>1. Stored(id)
      BY Zenon, <1>8 DEF DispatchInv, MarkIsStored, MarkOutboxDispatched
    <3> QED BY Zenon, <1>1, <1>4, <1>8, <3>1, OwnerIsCurrent DEF StoredStays
  <2>4. DispatchedIsStored'
    BY Zenon, <1>3, <2>1, <2>3 DEF DispatchInv, DispatchedIsStored, Stored, StoredNext, ClaimsOnlyDropped
  <2> QED BY Zenon, <2>1, <2>4
<1>9. CASE /\ RetryOutbox(w)
           /\ \E v \in 0..MaxRetry : outbox' = [outbox EXCEPT ![d] = RetriedRow(d, v)]
           /\ SetStatusUnlessFinal(d, "retrying")
  <2>1. /\ ClaimsOnlyDropped
        /\ \A e \in Deliveries : outbox'[e].state = outbox[e].state
    BY Zenon, <1>1, <1>9, RetriedRowEffect DEF DispatchInv
  <2>3. \A e \in Deliveries : SettledAsBefore(e)
    BY Zenon, <2>1 DEF SettledAsBefore, ClaimsOnlyDropped
  <2> QED BY Zenon, <1>4, <2>1, <2>3, SettledKeeps DEF DispatchInv
<1>10. CASE /\ FailOutbox(w) /\ Owns(w, d)
            /\ outbox' = [outbox EXCEPT ![d] = SettledRow(d, "failed")]
            /\ DeadLetterUnlessAcked(d)
  <2> QED BY Zenon, <1>1, <1>3, <1>10, GivenUp
<1>11. CASE MarkOutboxDispatched(w)
  BY Zenon, <1>7, <1>8, <1>11 DEF MarkOutboxDispatched, SettledRow
<1>12. CASE RetryOutbox(w)
  <2> DEFINE delay == RetryDelay[dispatcher[w].attempt]
             wait == IF delay > outbox[d].age THEN delay - outbox[d].age ELSE 0
  <2>1. wait \in 0..MaxRetry
    <3>1. delay \in 0..MaxRetry
      BY Zenon, <1>1, RetryDelayAssumption
    <3>2. outbox[d].age \in 0..MaxAge
      BY Zenon, <1>1 DEF DispatchInv, PathTypeOK, StoreTypeOK, OutboxRows
    <3> QED BY Zenon, <3>1, <3>2, RemainingDelay
  <2>2. \/ UNCHANGED <<row, outbox>>
        \/ /\ outbox' = [outbox EXCEPT ![d] = RetriedRow(d, wait)]
           /\ SetStatusUnlessFinal(d, "retrying")
    BY Zenon, <1>12 DEF RetryOutbox, RetriedRow
  <2> HIDE DEF wait
  <2> QED BY Zenon, <1>7, <1>9, <1>12, <2>1, <2>2
<1>13. CASE FailOutbox(w)
  BY Zenon, <1>7, <1>10, <1>13 DEF FailOutbox, SettledRow
<1> QED BY Zenon, <1>11, <1>12, <1>13

(* A crash forgets the batch and leaves its claims to become stale. *)
LEMMA CrashStep ==
  ASSUME DispatchInv, NEW w \in Dispatchers, Crash(w)
  PROVE  DispatchInv'
<1>1. UNCHANGED <<row, assignment, callback, outbox, messages, window, publishes>>
  BY Zenon DEF Crash, storeVars, streamVars
<1>2. PathTypeOK'
  <2>1. dispatcher' \in [Dispatchers -> DispatcherStates] /\ crashes' \in 0..MaxCrashes
    BY ConstantTypes, LoopType DEF Crash, DispatchInv, PathTypeOK, DispatcherTypeOK
  <2> QED BY Zenon, <1>1, <2>1
          DEF DispatchInv, PathTypeOK, StoreTypeOK, StreamTypeOK, DispatcherTypeOK
<1>3. StoredStays
  BY Zenon, <1>1 DEF StoredStays, Stored, StoredNext
<1>4. ClaimsOnlyDropped /\ \A d \in Deliveries : SettledAsBefore(d)
  BY Zenon, <1>1 DEF ClaimsOnlyDropped, SettledAsBefore
<1>5. DispatchedIsStored'
  BY Zenon, <1>3, <1>4, SettledKeeps DEF DispatchInv
<1> QED BY Zenon, <1>1, <1>2, <1>4, <1>5, BackToLoop DEF Crash

-----------------------------------------------------------------------------
(* Steps in which no dispatcher moves: time, the stream, an operator, and  *)
(* whoever consumes the stream.                                            *)
LEMMA OthersKeep ==
  ASSUME DispatchInv, UNCHANGED <<dispatcher, publishes, crashes>>, StoreTypeOK', StreamTypeOK',
         RowsAgeOrReplay, StoredStays, window' \subseteq window,
         \A d \in Deliveries : SettledAsBefore(d) \/ outbox'[d].state = "open"
  PROVE  DispatchInv'
<1>1. PathTypeOK'
  BY Zenon DEF DispatchInv, PathTypeOK, DispatcherTypeOK
<1>2. DispatchedIsStored' /\ WindowIsStored'
  BY Zenon, SettledKeeps, WindowKeeps DEF DispatchInv
<1>3. OneCallPerAttempt'
  BY Zenon DEF DispatchInv, OneCallPerAttempt
<1> QED BY Zenon, <1>1, <1>2, <1>3, QuietKeeps DEF DispatchInv

(* Time changes no status, generation, attempt or claim. *)
LEMMA TickKeeps ==
  ASSUME StoreTypeOK, StoreTick
  PROVE  /\ StoreTypeOK' /\ RowsAgeOrReplay /\ UNCHANGED row
         /\ \A d \in Deliveries : SettledAsBefore(d)
<1>1. StoreTypeOK' /\ UNCHANGED row
  BY Zenon, TickType DEF StoreTick
<1>2. \A d \in Deliveries :
        /\ outbox'[d].state = outbox[d].state
        /\ outbox'[d].generation = outbox[d].generation
        /\ outbox'[d].attempts = outbox[d].attempts
        /\ outbox'[d].claim = outbox[d].claim
  BY Zenon DEF StoreTick, StoreTypeOK, OutboxRows
<1> QED BY Zenon, <1>1, <1>2 DEF RowsAgeOrReplay, SettledAsBefore

(* A replay opens the rows it replays. *)
LEMMA ReplayKeeps ==
  ASSUME StoreTypeOK, NEW ids \in SUBSET Deliveries, ReplayAdminDeadLetters(ids)
  PROVE  /\ StoreTypeOK' /\ RowsAgeOrReplay
         /\ \A d \in Deliveries : SettledAsBefore(d) \/ outbox'[d].state = "open"
<1>1. StoreTypeOK'
  BY Zenon, ReplayType
<1>2. \A d \in Deliveries :
        outbox'[d] = outbox[d] \/ outbox'[d] = NewOutbox(outbox[d].generation + 1)
  BY Zenon DEF ReplayAdminDeadLetters
<1>3. \A g : /\ NewOutbox(g).generation = g /\ NewOutbox(g).claim = None
             /\ NewOutbox(g).state = "open"
  BY Zenon DEF NewOutbox
<1>4. RowsAgeOrReplay
  BY <1>2, <1>3 DEF RowsAgeOrReplay
<1>5. \A d \in Deliveries : SettledAsBefore(d) \/ outbox'[d].state = "open"
  <2> SUFFICES ASSUME NEW d \in Deliveries
               PROVE  SettledAsBefore(d) \/ outbox'[d].state = "open"
    BY Zenon
  <2>1. CASE outbox'[d] = outbox[d]
    BY Zenon, <2>1 DEF SettledAsBefore
  <2>2. CASE outbox'[d] = NewOutbox(outbox[d].generation + 1)
    BY Zenon, <1>3, <2>2
  <2> QED BY Zenon, <1>2, <2>1, <2>2
<1> QED BY Zenon, <1>1, <1>4, <1>5

(* Nothing happens to the outbox. *)
LEMMA OutboxUntouched ==
  ASSUME UNCHANGED outbox
  PROVE  RowsAgeOrReplay /\ \A d \in Deliveries : SettledAsBefore(d)
BY Zenon DEF RowsAgeOrReplay, SettledAsBefore

(* What the stream does without a publication keeps what it stores on      *)
(* record, and an acknowledgement is the only way to "acked".              *)
LEMMA StreamMoves ==
  ASSUME StreamTypeOK,
         \/ \E id \in MessageIds : ForgetDuplicate(id)
         \/ \E m \in Messages : ExpireMessage(m) \/ HandOut(m) \/ NackMessage(m)
         \/ UNCHANGED streamVars
  PROVE  /\ StreamTypeOK' /\ window' \subseteq window /\ StoredStays
         /\ \A m \in Messages : /\ messages'[m] = "none" <=> messages[m] = "none"
                                /\ messages'[m] = "acked" <=> messages[m] = "acked"
<1>1. /\ StreamTypeOK' /\ window' \subseteq window
      /\ \A m \in Messages : /\ messages'[m] = "none" <=> messages[m] = "none"
                             /\ messages'[m] = "acked" <=> messages[m] = "acked"
  <2>1. CASE \E id \in MessageIds : ForgetDuplicate(id)
    BY Zenon, <2>1 DEF ForgetDuplicate, StreamTypeOK
  <2>2. CASE \E m \in Messages : ExpireMessage(m)
    BY Zenon, <2>2 DEF ExpireMessage, StreamTypeOK, MessageStates
  <2>3. CASE \E m \in Messages : HandOut(m)
    BY Zenon, <2>3 DEF HandOut, StreamTypeOK, MessageStates
  <2>4. CASE \E m \in Messages : NackMessage(m)
    BY Zenon, <2>4 DEF NackMessage, StreamTypeOK, MessageStates
  <2>5. CASE UNCHANGED streamVars
    BY Zenon, <2>5 DEF streamVars, StreamTypeOK
  <2> QED BY Zenon, <2>1, <2>2, <2>3, <2>4, <2>5
<1>2. StoredStays
  BY Zenon, <1>1, IdsAssumption DEF StoredStays, Stored, StoredNext, Messages
<1> QED BY Zenon, <1>1, <1>2

LEMMA AckMoves ==
  ASSUME StreamTypeOK, NEW m \in Messages, AckMessage(m)
  PROVE  /\ StreamTypeOK' /\ window' = window /\ StoredStays
         /\ \A n \in Messages : /\ messages'[n] = "none" <=> messages[n] = "none"
                                /\ messages'[n] = "acked" => n = m \/ messages[n] = "acked"
<1>1. /\ StreamTypeOK' /\ window' = window
      /\ \A n \in Messages : /\ messages'[n] = "none" <=> messages[n] = "none"
                             /\ messages'[n] = "acked" => n = m \/ messages[n] = "acked"
  BY Zenon DEF AckMessage, StreamTypeOK, MessageStates
<1>2. StoredStays
  BY Zenon, <1>1, IdsAssumption DEF StoredStays, Stored, StoredNext, Messages
<1> QED BY Zenon, <1>1, <1>2

-----------------------------------------------------------------------------
(* What a dispatcher may do to a delivery and to a message of the stream:  *)
(* it takes no final status back, unassigns only what it gives up, gives   *)
(* up only rows whose attempts are spent, and publishes no generation      *)
(* that the outbox has not reached.                                        *)
StatusMoves(d) ==
  /\ row'[d].generation = row[d].generation
  /\ row[d].status \in {"acked", "dead_letter"} => row'[d].status = row[d].status
  /\ row'[d].status \in {row[d].status, "dispatched", "retrying", "dead_letter"}

AssignmentMoves(d) ==
  \/ assignment'[d] = assignment[d]
  \/ /\ row'[d].status = "dead_letter"
     /\ assignment'[d].conn = None /\ assignment'[d].token = None
     /\ assignment'[d].expiresIn = 0 /\ assignment'[d].maxIn = assignment[d].maxIn

OutboxMoves(d) ==
  /\ outbox'[d].generation = outbox[d].generation
  /\ outbox'[d].state = "failed" =>
       \/ outbox[d].state = "failed" /\ outbox'[d].attempts = outbox[d].attempts
       \/ outbox'[d].attempts = MaxAttempts /\ row'[d].status \in {"acked", "dead_letter"}

MessageMoves(m) ==
  \/ messages'[m] = messages[m]
  \/ /\ messages[m] = "none" /\ messages'[m] = "ready"
     /\ m[1][2] <= outbox[m[1][1]].generation

LEMMA DeadLetterMoves ==
  ASSUME row \in [Deliveries -> Rows], assignment \in [Deliveries -> Assignments],
         NEW d \in Deliveries, DeadLetterUnlessAcked(d)
  PROVE  /\ \A e \in Deliveries : StatusMoves(e) /\ AssignmentMoves(e)
         /\ row'[d].status \in {"acked", "dead_letter"}
<1>1. CASE row[d].status = "acked"
  BY Zenon, <1>1 DEF DeadLetterUnlessAcked, StatusMoves, AssignmentMoves
<1>2. CASE row[d].status # "acked"
  <2>1. \A e \in Deliveries : e # d => row'[e] = row[e] /\ assignment'[e] = assignment[e]
    BY Zenon, <1>2 DEF DeadLetterUnlessAcked
  <2>2. row'[d].status = "dead_letter" /\ row'[d].generation = row[d].generation
    BY Zenon, <1>2 DEF DeadLetterUnlessAcked, Rows
  <2>3. /\ assignment'[d].conn = None /\ assignment'[d].token = None
        /\ assignment'[d].expiresIn = 0 /\ assignment'[d].maxIn = assignment[d].maxIn
    <3>1. assignment'[d] = [assignment[d] EXCEPT !.conn = None, !.token = None, !.expiresIn = 0]
      BY Zenon, <1>2 DEF DeadLetterUnlessAcked
    <3>2. assignment[d] \in Assignments
      BY Zenon
    <3> QED BY Zenon, <3>1, <3>2 DEF Assignments
  <2> QED BY <1>2, <2>1, <2>2, <2>3 DEF StatusMoves, AssignmentMoves
<1> QED BY Zenon, <1>1, <1>2

LEMMA SetStatusMoves ==
  ASSUME row \in [Deliveries -> Rows], NEW d \in Deliveries, NEW s \in {"dispatched", "retrying"},
         SetStatusUnlessFinal(d, s)
  PROVE  \A e \in Deliveries : StatusMoves(e)
<1>1. \A e \in Deliveries : e # d => row'[e] = row[e]
  BY Zenon DEF SetStatusUnlessFinal
<1>2. /\ row'[d].generation = row[d].generation
      /\ row'[d].status = IF row[d].status \in {"acked", "dead_letter"} THEN row[d].status ELSE s
  BY Zenon DEF SetStatusUnlessFinal, Rows
<1> QED BY Zenon, <1>1, <1>2 DEF StatusMoves

(* A row that a transaction of the outbox leaves alone. *)
LEMMA RowsUntouched ==
  ASSUME UNCHANGED <<row, assignment>>
  PROVE  \A d \in Deliveries : StatusMoves(d) /\ AssignmentMoves(d)
BY Zenon DEF StatusMoves, AssignmentMoves

(* A row given up with its attempts spent. *)
LEMMA GivenUpMoves ==
  ASSUME DispatchInv, NEW d \in Deliveries, outbox[d].attempts = MaxAttempts,
         outbox' = [outbox EXCEPT ![d] = SettledRow(d, "failed")], DeadLetterUnlessAcked(d)
  PROVE  \A e \in Deliveries : StatusMoves(e) /\ AssignmentMoves(e) /\ OutboxMoves(e)
<1>1. /\ ClaimsOnlyDropped
      /\ \A e \in Deliveries : e # d => outbox'[e] = outbox[e]
  BY Zenon, SettledRowEffect DEF DispatchInv
<1>2. /\ \A e \in Deliveries : StatusMoves(e) /\ AssignmentMoves(e)
      /\ row'[d].status \in {"acked", "dead_letter"}
  BY Zenon, DeadLetterMoves DEF DispatchInv, PathTypeOK, StoreTypeOK
<1>3. \A e \in Deliveries : OutboxMoves(e)
  BY Zenon, <1>1, <1>2 DEF OutboxMoves, ClaimsOnlyDropped
<1> QED BY Zenon, <1>2, <1>3

(* Claiming and crashing touch no delivery and no message. *)
LEMMA ClaimMoves ==
  ASSUME DispatchInv, NEW w \in Dispatchers, ClaimOutbox(w) \/ Crash(w)
  PROVE  /\ UNCHANGED <<callback, messages>>
         /\ \A d \in Deliveries : StatusMoves(d) /\ AssignmentMoves(d) /\ OutboxMoves(d)
<1>1. UNCHANGED <<row, assignment, callback, messages>>
  BY Zenon DEF ClaimOutbox, Crash, storeVars, streamVars
<1>2. \A d \in Deliveries :
        /\ outbox'[d].generation = outbox[d].generation
        /\ outbox'[d].state = outbox[d].state
        /\ outbox'[d].attempts = outbox[d].attempts
  <2>1. CASE Crash(w)
    BY Zenon, <2>1 DEF Crash, storeVars
  <2>2. CASE ClaimOutbox(w)
    <3>1. PICK token \in FreshClaimTokens, claimed \in SUBSET {d \in Deliveries : Claimable(d)} :
            outbox' = [d \in Deliveries |->
              IF d \in claimed THEN [outbox[d] EXCEPT !.claim = token, !.age = 0] ELSE outbox[d]]
      BY Zenon, <2>2 DEF ClaimOutbox
    <3> QED BY Zenon, <3>1 DEF DispatchInv, PathTypeOK, StoreTypeOK, OutboxRows
  <2> QED BY Zenon, <2>1, <2>2
<1> QED BY Zenon, <1>1, <1>2, RowsUntouched DEF OutboxMoves

(* Beginning an attempt, or giving the row up. *)
LEMMA BeginMoves ==
  ASSUME DispatchInv, NEW w \in Dispatchers, BeginOutboxPublish(w)
  PROVE  /\ UNCHANGED <<callback, messages>>
         /\ \A d \in Deliveries : StatusMoves(d) /\ AssignmentMoves(d) /\ OutboxMoves(d)
<1>1. UNCHANGED <<callback, messages>>
  BY Zenon DEF BeginOutboxPublish, streamVars
<1>2. PICK id \in dispatcher[w].batch :
        \/ UNCHANGED <<row, assignment, outbox>>
        \/ /\ Exhausted(id[1])
           /\ outbox' = [outbox EXCEPT ![id[1]] = SettledRow(id[1], "failed")]
           /\ DeadLetterUnlessAcked(id[1])
        \/ /\ CountAttempt(id[1])
           /\ Owns(w, id[1])
           /\ UNCHANGED <<row, assignment>>
  BY Zenon DEF BeginOutboxPublish, SettledRow
<1>3. id[1] \in Deliveries
  BY DEF DispatchInv, PathTypeOK, DispatcherTypeOK, DispatcherStates, MessageIds
<1>4. outbox[id[1]] \in OutboxRows
  BY Zenon, <1>3 DEF DispatchInv, PathTypeOK, StoreTypeOK
<1>5. CASE UNCHANGED <<row, assignment, outbox>>
  BY Zenon, <1>1, <1>5, RowsUntouched DEF OutboxMoves
<1>6. CASE /\ Exhausted(id[1])
           /\ outbox' = [outbox EXCEPT ![id[1]] = SettledRow(id[1], "failed")]
           /\ DeadLetterUnlessAcked(id[1])
  <2>1. outbox[id[1]].attempts \in 0..MaxAttempts /\ outbox[id[1]].attempts >= MaxAttempts
    BY Zenon, <1>4, <1>6 DEF Exhausted, OutboxRows
  <2>2. outbox[id[1]].attempts = MaxAttempts
    BY <2>1, MaxAttemptsAssumption
  <2> QED BY Zenon, <1>1, <1>3, <1>6, <2>2, GivenUpMoves
<1>7. CASE CountAttempt(id[1]) /\ Owns(w, id[1]) /\ UNCHANGED <<row, assignment>>
  <2>1. \A d \in Deliveries : d # id[1] => outbox'[d] = outbox[d]
    BY Zenon, <1>7 DEF CountAttempt, DispatchInv, PathTypeOK, StoreTypeOK
  <2>2. outbox'[id[1]].state = "open" /\ outbox'[id[1]].generation = outbox[id[1]].generation
    BY Zenon, <1>3, <1>4, <1>7 DEF CountAttempt, Owns, DispatchInv, PathTypeOK, StoreTypeOK, OutboxRows
  <2>3. \A d \in Deliveries : OutboxMoves(d)
    BY Zenon, <2>1, <2>2 DEF OutboxMoves
  <2> QED BY Zenon, <1>1, <1>7, <2>3, RowsUntouched
<1> QED BY Zenon, <1>2, <1>5, <1>6, <1>7

(* The broker call stores at most the message of the row that was claimed. *)
LEMMA PublishMoves ==
  ASSUME DispatchInv, NEW w \in Dispatchers, Publish(w)
  PROVE  UNCHANGED storeVars /\ \A m \in Messages : MessageMoves(m)
<1> DEFINE id == dispatcher[w].current
<1>1. id \in MessageIds
  BY Zenon DEF DispatchInv, Publish, LoopState, InCall
<1>2. id[2] <= outbox[id[1]].generation
  BY Zenon, <1>1 DEF DispatchInv, ClaimsAreCurrent, Holds
<1>3. UNCHANGED messages \/ \E c \in 1..Copies :
        messages[<<id, c>>] = "none" /\ messages' = [messages EXCEPT ![<<id, c>>] = "ready"]
  BY Zenon DEF Publish, Accept, streamVars
<1>4. \A m \in Messages : MessageMoves(m)
  <2>1. CASE UNCHANGED messages
    BY Zenon, <2>1 DEF MessageMoves
  <2>2. ASSUME NEW c \in 1..Copies, messages[<<id, c>>] = "none",
               messages' = [messages EXCEPT ![<<id, c>>] = "ready"],
               NEW m \in Messages
        PROVE  MessageMoves(m)
    <3>1. CASE m = <<id, c>>
      BY Zenon, <1>2, <2>2, <3>1 DEF MessageMoves, DispatchInv, PathTypeOK, StreamTypeOK
    <3>2. CASE m # <<id, c>>
      BY Zenon, <2>2, <3>2 DEF MessageMoves, DispatchInv, PathTypeOK, StreamTypeOK
    <3> QED BY Zenon, <3>1, <3>2
  <2> QED BY Zenon, <1>3, <2>1, <2>2
<1> QED BY Zenon, <1>4 DEF Publish

(* The three transactions that may follow the call. *)
LEMMA SettleMoves ==
  ASSUME DispatchInv, NEW w \in Dispatchers,
         MarkOutboxDispatched(w) \/ RetryOutbox(w) \/ FailOutbox(w)
  PROVE  /\ UNCHANGED <<callback, messages>>
         /\ \A d \in Deliveries : StatusMoves(d) /\ AssignmentMoves(d) /\ OutboxMoves(d)
<1> DEFINE d == dispatcher[w].current[1]
<1>1. /\ dispatcher[w].pc \in InCall
      /\ d \in Deliveries /\ dispatcher[w].attempt \in 1..MaxAttempts
  <2>1. dispatcher[w].pc \in InCall
    BY Zenon DEF MarkOutboxDispatched, RetryOutbox, FailOutbox, InCall
  <2>2. dispatcher[w].current \in MessageIds /\ dispatcher[w].attempt \in 1..MaxAttempts
    BY Zenon, <2>1 DEF DispatchInv, LoopState
  <2> QED BY Zenon, <2>1, <2>2 DEF MessageIds
<1>2. UNCHANGED <<callback, messages>>
  BY Zenon DEF MarkOutboxDispatched, RetryOutbox, FailOutbox, streamVars
<1>3. row \in [Deliveries -> Rows] /\ outbox[d] \in OutboxRows
  BY Zenon, <1>1 DEF DispatchInv, PathTypeOK, StoreTypeOK
<1>4. CASE MarkOutboxDispatched(w) \/ RetryOutbox(w)
  <2>1. UNCHANGED assignment
    BY Zenon, <1>4 DEF MarkOutboxDispatched, RetryOutbox
  <2>2. UNCHANGED row \/ \E s \in {"dispatched", "retrying"} : SetStatusUnlessFinal(d, s)
    BY Zenon, <1>4 DEF MarkOutboxDispatched, RetryOutbox
  <2>3. \A e \in Deliveries : StatusMoves(e)
    <3>1. CASE UNCHANGED row
      BY Zenon, <3>1 DEF StatusMoves
    <3> QED BY Zenon, <1>1, <1>3, <2>2, <3>1, SetStatusMoves
  <2>4. \A e \in Deliveries : AssignmentMoves(e)
    BY Zenon, <2>1 DEF AssignmentMoves
  <2>5. /\ \A e \in Deliveries : e # d => outbox'[e] = outbox[e]
        /\ outbox'[d].generation = outbox[d].generation
        /\ outbox'[d].state \in {outbox[d].state, "dispatched"}
        /\ outbox'[d].attempts = outbox[d].attempts
    <3>1. CASE MarkOutboxDispatched(w)
      <4>1. UNCHANGED outbox \/ outbox' = [outbox EXCEPT ![d] = SettledRow(d, "dispatched")]
        BY Zenon, <3>1 DEF MarkOutboxDispatched, SettledRow
      <4> QED BY Zenon, <1>1, <1>3, <4>1, SettledRowEffect DEF DispatchInv, ClaimsOnlyDropped
    <3>2. CASE RetryOutbox(w)
      <4>1. UNCHANGED outbox \/ \E v : outbox' = [outbox EXCEPT ![d] = RetriedRow(d, v)]
        BY Zenon, <3>2 DEF RetryOutbox, RetriedRow
      <4>2. \A v : /\ RetriedRow(d, v).generation = outbox[d].generation
                   /\ RetriedRow(d, v).state = outbox[d].state
                   /\ RetriedRow(d, v).attempts = outbox[d].attempts
        BY Zenon, <1>3 DEF RetriedRow, OutboxRows
      <4> HIDE DEF d
      <4>3. CASE UNCHANGED outbox
        BY Zenon, <4>3
      <4>4. ASSUME NEW v, outbox' = [outbox EXCEPT ![d] = RetriedRow(d, v)]
            PROVE  /\ \A e \in Deliveries : e # d => outbox'[e] = outbox[e]
                   /\ outbox'[d] = RetriedRow(d, v)
        BY Zenon, <1>1, <4>4 DEF DispatchInv, PathTypeOK, StoreTypeOK
      <4> QED BY <4>1, <4>2, <4>3, <4>4
    <3> QED BY Zenon, <1>4, <3>1, <3>2
  <2>6. \A e \in Deliveries : OutboxMoves(e)
    <3> HIDE DEF d
    <3> QED BY Zenon, <2>5 DEF OutboxMoves
  <2> QED BY Zenon, <1>2, <2>3, <2>4, <2>6
<1>5. CASE FailOutbox(w)
  <2>1. CASE UNCHANGED <<row, assignment, outbox>>
    BY Zenon, <1>2, <2>1, RowsUntouched DEF OutboxMoves
  <2>2. CASE /\ Owns(w, d)
             /\ outbox' = [outbox EXCEPT ![d] = SettledRow(d, "failed")]
             /\ DeadLetterUnlessAcked(d)
    <3>1. dispatcher[w].attempt = MaxAttempts
      BY <1>1, <1>5, ConstantTypes DEF FailOutbox
    <3>2. outbox[d].attempts = MaxAttempts
      BY Zenon, <1>1, <2>2, <3>1, OwnerIsCurrent
    <3> QED BY Zenon, <1>1, <1>2, <2>2, <3>2, GivenUpMoves
  <2> QED BY Zenon, <1>5, <2>1, <2>2 DEF FailOutbox, SettledRow
<1> QED BY Zenon, <1>4, <1>5

(* All of it: one step of one dispatcher. *)
LEMMA DispatcherMoves ==
  ASSUME DispatchInv, NEW w \in Dispatchers, ClaimOutbox(w) \/ DispatcherStep(w) \/ Crash(w)
  PROVE  /\ DispatchInv' /\ UNCHANGED callback
         /\ \A d \in Deliveries : StatusMoves(d) /\ AssignmentMoves(d) /\ OutboxMoves(d)
         /\ \A m \in Messages : MessageMoves(m)
<1>1. UNCHANGED messages => \A m \in Messages : MessageMoves(m)
  BY Zenon DEF MessageMoves
<1>2. CASE ClaimOutbox(w) \/ Crash(w)
  BY Zenon, <1>1, <1>2, ClaimStep, CrashStep, ClaimMoves
<1>3. CASE BeginOutboxPublish(w)
  BY Zenon, <1>1, <1>3, BeginStep, BeginMoves
<1>4. CASE Publish(w)
  <2>1. UNCHANGED <<row, assignment, callback, outbox>>
    BY Zenon, <1>4, PublishMoves DEF storeVars
  <2> QED BY Zenon, <1>4, <2>1, PublishStep, PublishMoves, RowsUntouched DEF OutboxMoves
<1>5. CASE MarkOutboxDispatched(w) \/ RetryOutbox(w) \/ FailOutbox(w)
  BY Zenon, <1>1, <1>5, SettleStep, SettleMoves
<1> QED BY Zenon, <1>2, <1>3, <1>4, <1>5 DEF DispatcherStep

(* The dispatchers start idle and with nothing published. *)
LEMMA DispatchInvInit ==
  ASSUME StoreInit, StreamInit, DispatcherInit
  PROVE  DispatchInv
<1>1. PathTypeOK
  BY Zenon, ConstantTypes, IdsAssumption
  DEF StoreInit, StreamInit, DispatcherInit, PathTypeOK, StoreTypeOK, StreamTypeOK,
      DispatcherTypeOK, Rows, Assignments, Callbacks, OutboxRows, DispatcherStates, Idle,
      Unassigned, NoCallback, NewOutbox, Statuses, Messages, MessageStates
<1>2. LoopState /\ TokensDistinct /\ ClaimsAreCurrent /\ AttemptIsCurrent /\ MarkIsStored /\ CallIsNew
  BY Zenon, IdsAssumption DEF DispatcherInit, Idle, LoopState, TokensDistinct, ClaimsAreCurrent,
     Holds, AttemptIsCurrent, MarkIsStored, CallIsNew, InCall
<1>3. WindowIsStored /\ NoCallAhead /\ OneCallPerAttempt
  BY DEF StreamInit, DispatcherInit, WindowIsStored, NoCallAhead, OneCallPerAttempt
<1>4. DispatchedIsStored
  BY Zenon DEF StoreInit, NewOutbox, DispatchedIsStored
<1> QED BY Zenon, <1>1, <1>2, <1>3, <1>4 DEF DispatchInv
=============================================================================
