------------------------ MODULE FunctionInvocations ------------------------
(***************************************************************************)
(* Functions: an application calls a function of another one, and exactly  *)
(* one of the owner's connected sessions is to handle the call.  Modelled  *)
(* are service/functions.go (Invoke, catalogue), function_invocations.go   *)
(* (the row that decides), nats_bridge.go (dispatch over core NATS) and    *)
(* hub.go (the gateway that offers the call to its sessions).              *)
(*                                                                         *)
(* All calls here carry one idempotency key, within its retention of 24    *)
(* hours, so there is one row.  claim_by and deadline are the time left    *)
(* until them.  Every SQL statement is a step.  A statement whose context  *)
(* ends before the answer is still on its way: its caller goes on as after *)
(* an error, and the statement is executed later or never.                 *)
(***************************************************************************)
EXTENDS Integers, FiniteSets

CONSTANTS
  Calls,        \* concurrent Invoke requests with the key
  Gateways,     \* API processes with a hub and a bridge
  Sessions,     \* connections of the owning application
  Home,         \* the gateway of every session
  None,         \* SQL NULL, no session
  ClaimTimeout, \* time to find a handler (claim_by)
  Timeouts,     \* timeouts that functions are registered with
  MaxPublishes, \* bound: dispatches of the invocation
  MaxFaults     \* bound: store calls without an answer, failures, changes of the catalogue

ASSUME HomeAssumption == Home \in [Sessions -> Gateways] /\ None \notin Sessions
ASSUME TimeAssumption ==
  ClaimTimeout \in Nat /\ Timeouts \subseteq Nat /\ \A t \in Timeouts : ClaimTimeout <= t
ASSUME BoundAssumption == {MaxPublishes, MaxFaults} \subseteq Nat

VARIABLES
  function,   \* the row of the function, with the state of the owning application
  editor,     \* an update that has read the function
  row,        \* function_invocations
  call,       \* local state of every Invoke
  hint,       \* a wake-up waits in the watch of the call
  requests,   \* dispatches on their way to a gateway
  replies,    \* acceptances on their way back to the call
  handler,    \* local state of handleInvocation of every gateway
  session,    \* sessions of the owner
  frame,      \* the rpc.invoke frame in the session's queue or at its client
  sends,      \* history: frames queued for every session
  late,       \* statements whose callers have given up on them
  published, faults

vars == <<function, editor, row, call, hint, requests, replies, handler, session, frame, sends,
          late, published, faults>>

Terminal == {"success", "handler_error", "unavailable", "timeout"}
States == {"none", "pending", "reserved", "claimed"} \cup Terminal

Statements == {"claim", "acknowledge", "release", "success", "handler_error"}
Functions == [exists : BOOLEAN, enabled : BOOLEAN, owner : BOOLEAN, timeout : Timeouts]

NoRow == [state |-> "none", conn |-> None, claimIn |-> 0, deadlineIn |-> 0, by |-> None]
IdleCall ==
  [pc |-> "find", claimIn |-> 0, deadlineIn |-> 0, replay |-> FALSE,
   accepted |-> FALSE, until |-> "claim", answer |-> "none"]
IdleHandler == [pc |-> "idle", todo |-> {}, at |-> None]

Fault == faults < MaxFaults /\ faults' = faults + 1

Init ==
  /\ function \in [exists : {TRUE}, enabled : {TRUE}, owner : {TRUE}, timeout : Timeouts]
  /\ editor = {}
  /\ row = NoRow
  /\ call = [c \in Calls |-> IdleCall] /\ hint = [c \in Calls |-> FALSE]
  /\ requests = [g \in Gateways |-> 0] /\ replies = {}
  /\ handler = [g \in Gateways |-> IdleHandler]
  /\ session = [s \in Sessions |-> "new"] /\ frame = [s \in Sessions |-> "none"]
  /\ sends = [s \in Sessions |-> 0]
  /\ late = {}
  /\ published = 0 /\ faults = 0

-----------------------------------------------------------------------------
(* function_invocations.go: what the statements make of the row. *)

\* mutant of Swept: a claimed invocation without handler is unavailable too
SweptAlike ==
  IF \/ row.state = "claimed" /\ row.deadlineIn = 0
     \/ row.state \in {"pending", "reserved"} /\ row.claimIn = 0
  THEN [row EXCEPT !.state = "unavailable", !.conn = None] ELSE row

(* Every read first settles a row whose time is over. *)
Swept ==
  IF row.state = "claimed" /\ row.deadlineIn = 0
  THEN [row EXCEPT !.state = "timeout", !.conn = None]
  ELSE IF row.state \in {"pending", "reserved"} /\ row.claimIn = 0
       THEN [row EXCEPT !.state = "unavailable", !.conn = None]
       ELSE row

MayClaim(s) ==
  row.state = "pending" /\ row.claimIn > 0 /\ row.deadlineIn > 0 /\ function.owner

MayAcknowledge(s) ==
  row.state = "reserved" /\ row.conn = s /\ row.claimIn > 0 /\ row.deadlineIn > 0

MayRelease(s) ==
  /\ row.conn = s
  /\ \/ row.state = "reserved" /\ row.claimIn > 0
     \/ row.state = "claimed" /\ row.deadlineIn > 0

\* mutant of MayComplete: a result that comes after the deadline counts
MayCompleteLate(s) == row.conn = s /\ row.state \in {"claimed", "success", "handler_error"}

MayComplete(s) == row.state = "claimed" /\ row.conn = s /\ row.deadlineIn > 0

Allowed(statement, s) ==
  CASE statement = "claim" -> MayClaim(s)
    [] statement = "acknowledge" -> MayAcknowledge(s)
    [] statement = "release" -> MayRelease(s)
    [] OTHER -> MayComplete(s)

(* transitionInvocation, CompleteInvocation: a statement that finds no row *)
(* to change reads the invocation, and so settles it if its time is over.  *)
After(statement, s) ==
  IF ~Allowed(statement, s) THEN Swept
  ELSE CASE statement = "claim" -> [row EXCEPT !.state = "reserved", !.conn = s]
         [] statement = "acknowledge" -> [row EXCEPT !.state = "claimed"]
         [] statement = "release" -> [row EXCEPT !.state = "pending", !.conn = None]
         [] OTHER -> [row EXCEPT !.state = statement, !.by = s]

(* The context ends first: the caller sees an error. *)
Unanswered(statement, s) ==
  /\ Fault
  /\ late' = late \cup {<<statement, s>>}

ExecuteLate ==
  /\ \E l \in late : row' = After(l[1], l[2]) /\ late' = late \ {l}
  /\ UNCHANGED <<function, editor, call, hint, requests, replies, handler, session, frame, sends,
                 published, faults>>

-----------------------------------------------------------------------------
(* service/functions.go and functions.go: the catalogue. *)

ReadFunction ==
  /\ editor = {} /\ function.exists /\ Fault
  /\ \E enabled \in BOOLEAN, t \in Timeouts :
       editor' \in {{[function EXCEPT !.enabled = enabled]}, {[function EXCEPT !.timeout = t]}}
  /\ UNCHANGED <<function, row, call, hint, requests, replies, handler, session, frame, sends, late,
                 published>>

(* Update writes back all it has read: nothing fences it. *)
UpdateFunction ==
  /\ editor # {} /\ editor' = {}
  /\ function' \in {IF function.exists
                    THEN [function EXCEPT !.enabled = e.enabled, !.timeout = e.timeout]
                    ELSE function : e \in editor}
  /\ UNCHANGED <<row, call, hint, requests, replies, handler, session, frame, sends, late,
                 published, faults>>

DeleteFunction ==
  /\ Fault
  /\ function.exists /\ function' = [function EXCEPT !.exists = FALSE]
  /\ UNCHANGED <<editor, row, call, hint, requests, replies, handler, session, frame, sends, late,
                 published>>

(* The owning application is disabled or enabled. *)
SwitchOwner ==
  /\ Fault
  /\ function' = [function EXCEPT !.owner = ~@]
  /\ UNCHANGED <<editor, row, call, hint, requests, replies, handler, session, frame, sends, late,
                 published>>
-----------------------------------------------------------------------------
(* service/functions.go: Invoke, and PublishInvocation of the bridge. *)

At(c, pc) == call[c].pc = pc
Goto(c, pc) == call' = [call EXCEPT ![c].pc = pc]
Answer(c, answer) == call' = [call EXCEPT ![c].pc = "done", ![c].answer = answer]

UnchangedByCall ==
  UNCHANGED <<function, editor, handler, session, frame, sends, late>>

(* A read of the invocation by a call: a settled row is its answer. *)
ReadBy(c, pc, replay) ==
  LET r == Swept IN
    /\ row' = r
    /\ call' = [call EXCEPT ![c] =
         IF r.state \in Terminal
         THEN [@ EXCEPT !.pc = "done", !.answer = r.state, !.replay = replay]
         ELSE [@ EXCEPT !.pc = pc, !.replay = replay,
                        !.until = IF r.state = "claimed" THEN "deadline" ELSE "claim"]]

FindInvocation(c) ==
  /\ At(c, "find")
  /\ \/ row.state # "none" /\ ReadBy(c, "watch", TRUE)
     \/ row.state = "none" /\ Goto(c, "get") /\ UNCHANGED row
  /\ UnchangedByCall /\ UNCHANGED <<hint, requests, replies, published, faults>>

(* The clock is read here: the times left run from now on. *)
GetFunction(c) ==
  /\ At(c, "get")
  /\ IF function.exists /\ function.enabled
     THEN call' = [call EXCEPT ![c].pc = "create", ![c].claimIn = ClaimTimeout,
                               ![c].deadlineIn = function.timeout]
     ELSE Answer(c, "not_found")
  /\ UnchangedByCall /\ UNCHANGED <<row, hint, requests, replies, published, faults>>

(* INSERT ... ON CONFLICT DO NOTHING *)
Creates(c) == row.state = "none" /\ function.exists /\ function.enabled /\ function.owner

CreateInvocation(c) ==
  /\ At(c, "create")
  /\ \/ /\ Creates(c)
        /\ row' = [state |-> "pending", conn |-> None, claimIn |-> call[c].claimIn,
                   deadlineIn |-> call[c].deadlineIn, by |-> None]
        /\ Goto(c, "watch")
     \/ ~Creates(c) /\ row.state # "none" /\ ReadBy(c, "watch", TRUE)
     \/ ~Creates(c) /\ row.state = "none" /\ Answer(c, "not_found") /\ UNCHANGED row
  /\ UnchangedByCall /\ UNCHANGED <<hint, requests, replies, published, faults>>

(* Only the call that has created the invocation dispatches it. *)
WatchInvocation(c) ==
  /\ At(c, "watch")
  /\ \/ Goto(c, IF call[c].replay THEN "read" ELSE "publish") /\ UNCHANGED faults
     \/ Fault /\ Answer(c, "unavailable_now")
  /\ UnchangedByCall /\ UNCHANGED <<row, hint, requests, replies, published>>

Route(g) == \E s \in Sessions : Home[s] = g /\ session[s] = "open"

(* Core NATS hands the request to one member of the queue group, or to      *)
(* nobody.  The publisher gives up when claim_by has passed or the bridge   *)
(* is closed, and Invoke goes on waiting all the same.                      *)
PublishInvocation(c) ==
  /\ At(c, "publish")
  /\ \/ /\ ~call[c].accepted /\ row.claimIn > 0 /\ published < MaxPublishes
        /\ published' = published + 1
        /\ Goto(c, "reply")
        /\ \/ \E g \in Gateways : Route(g) /\ requests' = [requests EXCEPT ![g] = @ + 1]
           \/ UNCHANGED requests
        /\ UNCHANGED replies
     \/ Goto(c, "read") /\ replies' = {} /\ UNCHANGED <<requests, published>>
  /\ UnchangedByCall /\ UNCHANGED <<row, hint, faults>>

Publishing(c) == ~call[c].replay /\ (At(c, "publish") \/ At(c, "reply"))

(* handleAcceptance: a yes is kept, whatever comes after it. *)
TakeReply(c) ==
  /\ Publishing(c)
  /\ \E accepted \in replies :
       /\ replies' = replies \ {accepted}
       /\ call' = [call EXCEPT ![c].accepted = @ \/ accepted]
  /\ UnchangedByCall /\ UNCHANGED <<row, hint, requests, published, faults>>

(* The reply, or 20 milliseconds without one. *)
StopWaiting(c) ==
  /\ At(c, "reply")
  /\ Goto(c, IF call[c].accepted THEN "read" ELSE "publish")
  /\ replies' = IF call[c].accepted THEN {} ELSE replies
  /\ UnchangedByCall /\ UNCHANGED <<row, hint, requests, published, faults>>

ReadInvocation(c) ==
  /\ At(c, "read") /\ ReadBy(c, "wait", call[c].replay)
  /\ UnchangedByCall /\ UNCHANGED <<hint, requests, replies, published, faults>>

\* mutant of TimerFires: only a hint ends the wait
TimerNever(c) == FALSE

TimerFires(c) == IF call[c].until = "claim" THEN row.claimIn = 0 ELSE row.deadlineIn = 0

Wake(c) ==
  /\ At(c, "wait") /\ (hint[c] \/ TimerFires(c))
  /\ hint' = [hint EXCEPT ![c] = FALSE] /\ Goto(c, "read")
  /\ UnchangedByCall /\ UNCHANGED <<row, requests, replies, published, faults>>

(* The caller goes away, or a store call fails, or the process dies. *)
Cancel(c) ==
  /\ ~At(c, "done") /\ Fault
  /\ Answer(c, "canceled")
  /\ UnchangedByCall /\ UNCHANGED <<row, hint, requests, replies, published>>

-----------------------------------------------------------------------------
(* nats_bridge.go, handleInvocation, and hub.go, InvokeFunction.  Messages *)
(* of the route are handled one at a time.                                 *)

UnchangedByGateway == UNCHANGED <<function, editor, call, hint, published>>

Open(g) == {s \in Sessions : Home[s] = g /\ session[s] = "open"}

(* A reply reaches the publisher, if there still is one, or is lost. *)
Reply(accepted) ==
  \/ UNCHANGED replies
  \/ (\E c \in Calls : Publishing(c)) /\ replies' = replies \cup {accepted}

(* The request must agree with the row, which has not changed since: the   *)
(* row's identity, name, input and deadline are immutable.                 *)
HandleInvocation(g) ==
  /\ handler[g].pc = "idle" /\ requests[g] > 0
  /\ requests' = [requests EXCEPT ![g] = @ - 1]
  /\ row' = Swept
  /\ handler' = [handler EXCEPT ![g] = [pc |-> "next", todo |-> Open(g), at |-> None]]
  /\ UnchangedByGateway /\ UNCHANGED <<replies, session, frame, sends, late, faults>>

(* Sessions are tried in the order of their random identifiers.  A session *)
(* whose claim fails, or is not answered, is passed over without release.  *)
ClaimInvocation(g) ==
  /\ handler[g].pc = "next"
  /\ \E s \in handler[g].todo :
       LET next == [handler EXCEPT ![g].todo = @ \ {s}]
           held == [next EXCEPT ![g].pc = "held", ![g].at = s] IN
         \/ session[s] = "closed" /\ handler' = next /\ UNCHANGED <<row, late, faults>>
         \/ /\ session[s] = "open" /\ row' = After("claim", s) /\ UNCHANGED <<late, faults>>
            /\ handler' = IF MayClaim(s) THEN held ELSE next
         \/ /\ session[s] = "open" /\ Unanswered("claim", s)
            /\ handler' = next /\ UNCHANGED row
  /\ UnchangedByGateway /\ UNCHANGED <<requests, replies, session, frame, sends>>

(* Any failure after the claim releases it. *)
AcknowledgeInvocation(g) ==
  LET s == handler[g].at
      to(pc) == handler' = [handler EXCEPT ![g].pc = pc] IN
    /\ handler[g].pc = "held"
    /\ \/ session[s] = "closed" /\ to("release") /\ UNCHANGED <<row, late, faults>>
       \/ /\ session[s] = "open" /\ row' = After("acknowledge", s) /\ UNCHANGED <<late, faults>>
          /\ to(IF MayAcknowledge(s) THEN "send" ELSE "release")
       \/ session[s] = "open" /\ Unanswered("acknowledge", s) /\ to("release") /\ UNCHANGED row
    /\ UnchangedByGateway /\ UNCHANGED <<requests, replies, session, frame, sends>>

(* Send: a session whose queue is full is closed, and nothing is queued. *)
SendFrame(g) ==
  LET s == handler[g].at IN
    /\ handler[g].pc = "send"
    /\ \/ /\ session[s] = "open"
          /\ frame' = [frame EXCEPT ![s] = "queued"] /\ sends' = [sends EXCEPT ![s] = @ + 1]
          /\ Reply(TRUE)
          /\ handler' = [handler EXCEPT ![g] = IdleHandler]
          /\ UNCHANGED session
       \/ /\ session' = [session EXCEPT ![s] = "closed"]
          /\ handler' = [handler EXCEPT ![g].pc = "release"]
          /\ UNCHANGED <<frame, sends, replies>>
    /\ UnchangedByGateway /\ UNCHANGED <<row, requests, late, faults>>

(* Released or not, the next session is tried. *)
AfterRelease(g) == [handler EXCEPT ![g].pc = "next", ![g].at = None]

ReleaseInvocation(g) ==
  LET s == handler[g].at IN
    /\ handler[g].pc = "release"
    /\ \/ row' = After("release", s) /\ UNCHANGED <<late, faults>>
       \/ Unanswered("release", s) /\ UNCHANGED row
    /\ handler' = AfterRelease(g)
    /\ UnchangedByGateway /\ UNCHANGED <<requests, replies, session, frame, sends>>

RefuseInvocation(g) ==
  /\ handler[g].pc = "next" /\ handler[g].todo = {}
  /\ Reply(FALSE)
  /\ handler' = [handler EXCEPT ![g] = IdleHandler]
  /\ UnchangedByGateway /\ UNCHANGED <<row, requests, session, frame, sends, late, faults>>

-----------------------------------------------------------------------------
(* The owner's sessions. *)

UnchangedBySession ==
  UNCHANGED <<function, editor, call, requests, replies, handler, published>>

(* Subscribe to "functions": the first session of a gateway opens its route. *)
OpenSession(s) ==
  /\ session[s] = "new" /\ session' = [session EXCEPT ![s] = "open"]
  /\ UnchangedBySession /\ UNCHANGED <<row, hint, frame, sends, late, faults>>

CloseSession(s) ==
  /\ session[s] = "open" /\ session' = [session EXCEPT ![s] = "closed"]
  /\ UnchangedBySession /\ UNCHANGED <<row, hint, frame, sends, late, faults>>

(* writeLoop *)
WriteFrame(s) ==
  /\ session[s] = "open" /\ frame[s] = "queued" /\ frame' = [frame EXCEPT ![s] = "received"]
  /\ UnchangedBySession /\ UNCHANGED <<row, hint, session, sends, late, faults>>

Watching(c) == call[c].pc \in {"publish", "reply", "read", "wait"}

(* HandleResult, CompleteResult: the hint is sent after the commit, and only *)
(* to an answered statement.  Hints may be lost.                             *)
HandleResult(s) ==
  /\ session[s] = "open" /\ frame[s] = "received"
  /\ \E result \in {"success", "handler_error"} :
       \/ /\ row' = After(result, s) /\ UNCHANGED <<late, faults>>
          /\ \E woken \in SUBSET {c \in Calls : MayComplete(s) /\ Watching(c)} :
               hint' = [c \in Calls |-> hint[c] \/ c \in woken]
       \/ Unanswered(result, s) /\ UNCHANGED <<row, hint>>
  /\ UnchangedBySession /\ UNCHANGED <<session, frame, sends>>

-----------------------------------------------------------------------------
Down(n) == IF n > 0 THEN n - 1 ELSE 0

Tick ==
  /\ row' = [row EXCEPT !.claimIn = Down(@), !.deadlineIn = Down(@)]
  /\ call' = [c \in Calls |-> IF At(c, "create")
       THEN [call[c] EXCEPT !.claimIn = Down(@), !.deadlineIn = Down(@)] ELSE call[c]]
  /\ <<row', call'>> # <<row, call>>
  /\ UNCHANGED <<function, editor, hint, requests, replies, handler, session, frame, sends, late,
                 published, faults>>

InvokeStep(c) ==
  \/ FindInvocation(c) \/ GetFunction(c) \/ CreateInvocation(c) \/ WatchInvocation(c)
  \/ PublishInvocation(c) \/ StopWaiting(c) \/ ReadInvocation(c) \/ Wake(c)

GatewayStep(g) ==
  \/ HandleInvocation(g) \/ ClaimInvocation(g) \/ AcknowledgeInvocation(g) \/ SendFrame(g)
  \/ ReleaseInvocation(g) \/ RefuseInvocation(g)

SessionStep(s) == OpenSession(s) \/ CloseSession(s) \/ WriteFrame(s) \/ HandleResult(s)

CatalogueStep == ReadFunction \/ UpdateFunction \/ DeleteFunction \/ SwitchOwner

Next ==
  \/ \E c \in Calls : InvokeStep(c) \/ TakeReply(c) \/ Cancel(c)
  \/ \E g \in Gateways : GatewayStep(g)
  \/ \E s \in Sessions : SessionStep(s)
  \/ CatalogueStep \/ ExecuteLate \/ Tick

Spec == Init /\ [][Next]_vars

(* Time passes and the goroutine of a request runs.  Nothing is asked of   *)
(* gateways, sessions, the network or anybody's hints.                     *)
FairSpec == Spec /\ WF_vars(Tick) /\ \A c \in Calls : WF_vars(InvokeStep(c))

-----------------------------------------------------------------------------
TimeLeft == {0} \cup UNION {0..t : t \in Timeouts}
Rows ==
  [state : States, conn : Sessions \cup {None}, claimIn : 0..ClaimTimeout, deadlineIn : TimeLeft,
   by : Sessions \cup {None}]
CallStates ==
  [pc : {"find", "get", "create", "watch", "publish", "reply", "read", "wait", "done"},
   claimIn : 0..ClaimTimeout, deadlineIn : TimeLeft, replay : BOOLEAN, accepted : BOOLEAN,
   until : {"claim", "deadline"}, answer : States \cup {"not_found", "unavailable_now", "canceled"}]
Handlers ==
  [pc : {"idle", "next", "held", "send", "release"}, todo : SUBSET Sessions,
   at : Sessions \cup {None}]

TypeOK ==
  /\ function \in Functions /\ editor \in SUBSET Functions
  /\ row \in Rows /\ call \in [Calls -> CallStates] /\ hint \in [Calls -> BOOLEAN]
  /\ requests \in [Gateways -> Nat] /\ replies \in SUBSET BOOLEAN
  /\ handler \in [Gateways -> Handlers]
  /\ session \in [Sessions -> {"new", "open", "closed"}]
  /\ frame \in [Sessions -> {"none", "queued", "received"}]
  /\ sends \in [Sessions -> Nat]
  /\ late \in SUBSET (Statements \X Sessions)

(* The call is put into the queue of at most one session, and once, though *)
(* the publisher dispatches it again and again, to any gateway, and claims,*)
(* acknowledgements and releases take effect after their senders have given*)
(* up on them.                                                             *)
SentOnce ==
  \A s, t \in Sessions : sends[s] <= 1 /\ (sends[s] > 0 /\ sends[t] > 0 => s = t)

(* A caller that is told "unavailable" may try elsewhere: no handler has   *)
(* been given this call, and none will be.                                 *)
UnavailableMeansUnsent ==
  \A s \in Sessions : row.state = "unavailable" =>
    sends[s] = 0 /\ ~(\E g \in Gateways : handler[g].pc = "send" /\ handler[g].at = s)

(* The frame of an invocation is queued once, and an invocation that is    *)
(* answered as unavailable was never sent to anybody.                      *)
SentAtMostOnce == TypeOK /\ SentOnce /\ UnavailableMeansUnsent

(* All calls with the key are given one outcome, the one that is stored,   *)
(* and a result is that of the session that was sent the call.             *)
OneOutcome ==
  /\ \A c \in Calls : call[c].answer \in Terminal => call[c].answer = row.state
  /\ row.state \in {"success", "handler_error"} => row.by # None /\ sends[row.by] = 1

(* Invoke returns, though every hint may be lost: its timer is set for the *)
(* time at which the row will be settled.                                  *)
InvokeReturns == \A c \in Calls : []<>(call[c].pc \in {"find", "done"})
=============================================================================
