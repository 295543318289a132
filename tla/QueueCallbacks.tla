--------------------------- MODULE QueueCallbacks ---------------------------
(***************************************************************************)
(* worker/queue_callbacks.go over store/postgres/queue_callbacks.go: the   *)
(* workers that report the results of queue deliveries by HTTP.  A claim   *)
(* counts the attempt and lasts for the timeout of the call and a margin;  *)
(* a worker that finds its claim gone ends its process.                    *)
(*                                                                         *)
(* The call starts at most Stall after the claim: the code does not check  *)
(* it, it relies on the margin.                                            *)
(***************************************************************************)
EXTENDS Integers, FiniteSets

CONSTANTS
  Callbacks,    \* result callbacks: one per delivery, generation and outcome
  Workers,      \* worker processes
  Tokens,       \* claim tokens (random in the code)
  None,         \* SQL NULL
  Timeout,      \* longest HTTP call
  Margin,       \* what a claim lasts longer (5 seconds in the code)
  Stall,        \* longest time from a claim to its call
  MaxCalls,     \* attempts of a callback (6 in the code)
  RetryDelay,   \* cap of the delay before the next attempt
  MaxErrors     \* bound: crashes and store errors

ASSUME TimesAssumption == {Timeout, Margin} \subseteq Nat \ {0} /\ {Stall, RetryDelay} \subseteq Nat
ASSUME StallAssumption == Stall < Margin
ASSUME MaxCallsAssumption == MaxCalls \in Nat \ {0}
ASSUME MaxErrorsAssumption == MaxErrors \in Nat
ASSUME NoneAssumption == None \notin Tokens

VARIABLES
  result,  \* queue_result_callbacks
  worker,  \* local state of every worker
  calls,   \* history: HTTP calls of every callback
  errors   \* crashes so far

vars == <<result, worker, calls, errors>>

\* mutant of ClaimTime: the margin is forgotten
ClaimTimeExact == Timeout

ClaimTime == Timeout + Margin

Results ==
  [status : {"absent", "pending", "delivered", "failed", "deleted"}, attempts : 0..MaxCalls,
   availableIn : 0..RetryDelay, claim : Tokens \cup {None}, claimIn : 0..ClaimTime]

(* "claimed": about to call; "call": the request is out; "finish": it has  *)
(* ended in outcome; "stopped": Run has returned an error.                 *)
Idle == [pc |-> "idle", of |-> None, token |-> None, attempt |-> 0, timeLeft |-> 0,
         outcome |-> "pending", delay |-> 0]
WorkerStates ==
  [pc : {"idle", "claimed", "call", "finish", "stopped"}, of : Callbacks \cup {None},
   token : Tokens \cup {None}, attempt : 0..MaxCalls, timeLeft : 0..(Timeout + Stall),
   outcome : {"pending", "delivered", "failed"}, delay : 0..RetryDelay]

Init ==
  /\ result = [c \in Callbacks |-> [status |-> "absent", attempts |-> 0, availableIn |-> 0,
                                    claim |-> None, claimIn |-> 0]]
  /\ worker = [w \in Workers |-> Idle]
  /\ calls = [c \in Callbacks |-> 0]
  /\ errors = 0

(* A queue delivery is settled; a conflicting row is left alone. *)
InsertQueueResultCallback(c) ==
  /\ result[c].status = "absent"
  /\ result' = [result EXCEPT ![c].status = "pending"]
  /\ UNCHANGED <<worker, calls, errors>>

(* The rows go with their subscription. *)
DeleteRow(c) ==
  /\ result[c].status # "deleted"
  /\ result' = [result EXCEPT ![c] = [@ EXCEPT !.status = "deleted", !.claim = None, !.claimIn = 0]]
  /\ UNCHANGED <<worker, calls, errors>>

FreshTokens ==
  Tokens \ ({result[c].claim : c \in Callbacks} \cup {worker[w].token : w \in Workers})

Claimable(c) ==
  /\ result[c].status = "pending" /\ result[c].attempts < MaxCalls
  /\ result[c].availableIn = 0
  /\ result[c].claim = None \/ result[c].claimIn = 0

Claimed(row, token) ==
  [row EXCEPT !.claim = token, !.claimIn = ClaimTime, !.attempts = @ + 1]

(* Rows that others are claiming are skipped, so any candidate may come first. *)
ClaimQueueResultCallback(w) ==
  /\ worker[w].pc = "idle"
  /\ \E c \in Callbacks, token \in FreshTokens :
       /\ Claimable(c)
       /\ result' = [result EXCEPT ![c] = Claimed(@, token)]
       /\ worker' = [worker EXCEPT ![w] =
            [Idle EXCEPT !.pc = "claimed", !.of = c, !.token = token,
                         !.attempt = result[c].attempts + 1, !.timeLeft = Stall]]
  /\ UNCHANGED <<calls, errors>>

Deliver(w) ==
  /\ worker[w].pc = "claimed"
  /\ worker' = [worker EXCEPT ![w].pc = "call", ![w].timeLeft = Timeout]
  /\ calls' = [calls EXCEPT ![worker[w].of] = @ + 1]
  /\ UNCHANGED <<result, errors>>

(* Classify: the last attempt is not retried.  The call ends in an answer, *)
(* in an error, or by its timeout.                                         *)
Outcomes(attempt) ==
  [outcome : {"delivered", "failed"}, delay : {0}] \cup
  IF attempt < MaxCalls THEN [outcome : {"pending"}, delay : 0..RetryDelay] ELSE {}

CallEnds(w) ==
  /\ worker[w].pc = "call"
  /\ \E end \in Outcomes(worker[w].attempt) :
       worker' = [worker EXCEPT ![w] =
         [@ EXCEPT !.pc = "finish", !.timeLeft = 0, !.outcome = end.outcome, !.delay = end.delay]]
  /\ UNCHANGED <<result, calls, errors>>

Owns(w) ==
  LET row == result[worker[w].of] IN
    /\ row.status = "pending" /\ row.claim = worker[w].token /\ row.attempts = worker[w].attempt

(* A conflict ends Run and with it the process. *)
FinishQueueResultCallback(w) ==
  /\ worker[w].pc = "finish"
  /\ \/ /\ Owns(w)
        /\ result' = [result EXCEPT ![worker[w].of] =
             [@ EXCEPT !.status = worker[w].outcome, !.availableIn = worker[w].delay,
                       !.claim = None, !.claimIn = 0]]
        /\ worker' = [worker EXCEPT ![w] = Idle]
     \/ /\ ~Owns(w)
        /\ worker' = [worker EXCEPT ![w] = [Idle EXCEPT !.pc = "stopped"]]
        /\ UNCHANGED result
  /\ UNCHANGED <<calls, errors>>

(* The process dies, or a store call fails before or after its commit. *)
Crash(w) ==
  /\ errors < MaxErrors
  /\ worker[w].pc \in {"claimed", "call", "finish"}
  /\ errors' = errors + 1
  /\ worker' = [worker EXCEPT ![w] = [Idle EXCEPT !.pc = "stopped"]]
  /\ UNCHANGED <<result, calls>>

Restart(w) ==
  /\ worker[w].pc = "stopped"
  /\ worker' = [worker EXCEPT ![w] = Idle]
  /\ UNCHANGED <<result, calls, errors>>

Down(n) == IF n > 0 THEN n - 1 ELSE 0

Tick ==
  /\ \A w \in Workers : worker[w].pc \in {"claimed", "call"} => worker[w].timeLeft > 0
  /\ result' = [c \in Callbacks |->
       [result[c] EXCEPT !.availableIn = Down(@), !.claimIn = Down(@)]]
  /\ worker' = [w \in Workers |-> [worker[w] EXCEPT !.timeLeft = Down(@)]]
  /\ <<result', worker'>> # <<result, worker>>
  /\ UNCHANGED <<calls, errors>>

WorkerStep(w) ==
  ClaimQueueResultCallback(w) \/ Deliver(w) \/ CallEnds(w) \/ FinishQueueResultCallback(w) \/ Restart(w)

Next ==
  \/ \E c \in Callbacks : InsertQueueResultCallback(c) \/ DeleteRow(c)
  \/ \E w \in Workers : WorkerStep(w) \/ Crash(w)
  \/ Tick

Spec == Init /\ [][Next]_vars

(* Run loops for ever, a process that ended is started again, time passes. *)
FairSpec == Spec /\ WF_vars(Tick) /\ \A w \in Workers : WF_vars(WorkerStep(w))

-----------------------------------------------------------------------------
TypeOK ==
  /\ result \in [Callbacks -> Results]
  /\ worker \in [Workers -> WorkerStates]
  /\ calls \in [Callbacks -> Nat]
  /\ errors \in 0..MaxErrors

Calling(w, c) == worker[w].pc = "call" /\ worker[w].of = c

(* However often workers crash, a callback is called at most MaxCalls times. *)
CallsBounded == \A c \in Callbacks : calls[c] <= MaxCalls

(* Two workers never call for the same result at the same time: the claim  *)
(* outlasts the call.                                                      *)
CallsDoNotOverlap ==
  \A v, w \in Workers, c \in Callbacks : Calling(v, c) /\ Calling(w, c) => v = w

(* Once the outcome of a callback is stored, nobody is calling for it: a   *)
(* late worker cannot overwrite what the owner of the claim will find.     *)
StoredOutcomeIsFinal ==
  \A w \in Workers, c \in Callbacks :
    result[c].status \in {"delivered", "failed"} => ~Calling(w, c)

(* Every callback ends, unless its last worker died after counting the     *)
(* last attempt: then it stays pending and nobody may claim it.            *)
EventuallyReported ==
  \A c \in Callbacks : []<>(result[c].status # "pending" \/ result[c].attempts = MaxCalls)
=============================================================================
