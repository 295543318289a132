--------------------------- MODULE SessionProofs ----------------------------
(***************************************************************************)
(* What is proved of the calls of functions through the sessions of their  *)
(* handlers and of the closing of sessions (C), which share no state.      *)
(*                                                                         *)
(* SentOnce, UnavailableMeansUnsent and OneOutcome hold for any number of  *)
(* calls, gateways, sessions and dispatches.                               *)
(*                                                                         *)
(* Every Close in the stack of a thread runs the Once of its session, so a *)
(* session is closed by one thread, and the session at the bottom of a     *)
(* stack is waited for by no thread that its own thread waits for: no      *)
(* threads wait for each other in a circle, for any number of sessions.    *)
(***************************************************************************)
EXTENDS FunctionInvocations, Sequences, TLAPS

-----------------------------------------------------------------------------
(* FunctionInvocations *)

RowFields == {"state", "conn", "claimIn", "deadlineIn", "by"}
CallFields == {"pc", "claimIn", "deadlineIn", "replay", "accepted", "until", "answer"}
HandlerFields == {"pc", "todo", "at"}

Shape ==
  /\ DOMAIN row = RowFields /\ row.state \in States
  /\ DOMAIN call = Calls /\ \A c \in Calls : DOMAIN call[c] = CallFields
  /\ DOMAIN handler = Gateways
  /\ \A g \in Gateways :
       DOMAIN handler[g] = HandlerFields /\ handler[g].todo \subseteq Sessions
       /\ (handler[g].pc \in {"held", "send", "release"} => handler[g].at \in Sessions)
  /\ sends \in [Sessions -> Nat] /\ DOMAIN frame = Sessions
  /\ late \subseteq Statements \X Sessions

(* What a gateway has claimed and neither sent nor released. *)
Holds(g) == handler[g].pc \in {"held", "send", "release"}

Settled == row.state \in Terminal
Owned(s) == row.state \in {"reserved", "claimed"} /\ row.conn = s

(* The row stays with the session that a gateway holds it for, or that a   *)
(* release is on its way for, until its time is over.  So there is one     *)
(* such gateway or one such release.                                       *)
HeldRow ==
  /\ \A g \in Gateways : Holds(g) => Settled \/ Owned(handler[g].at)
  /\ \A s \in Sessions : <<"release", s>> \in late => Settled \/ Owned(s)
  /\ \A g, h \in Gateways : Holds(g) /\ Holds(h) => g = h
  /\ \A s \in Sessions, g \in Gateways : <<"release", s>> \in late => ~Holds(g)
  /\ \A s, t \in Sessions : <<"release", s>> \in late /\ <<"release", t>> \in late => s = t

(* The acknowledged row cannot become available to anybody else. *)
AboutToSend ==
  \A g \in Gateways : handler[g].pc = "send" =>
    /\ row.state = "timeout" \/ row.state = "claimed"
    /\ \A s \in Sessions : sends[s] = 0

Sent ==
  \A s \in Sessions : sends[s] > 0 =>
    /\ sends[s] = 1 /\ \A t \in Sessions \ {s} : sends[t] = 0
    /\ \A g \in Gateways : ~Holds(g)
    /\ \A t \in Sessions : <<"release", t>> \notin late
    /\ \/ row.state = "claimed" /\ row.conn = s
       \/ row.state \in {"success", "handler_error", "timeout"}

(* Results come from a session that was sent the call. *)
ResultsFollow ==
  \A s \in Sessions :
    /\ frame[s] # "none" => sends[s] > 0
    /\ \A result \in {"success", "handler_error"} : <<result, s>> \in late => sends[s] > 0

Outcomes ==
  /\ \A c \in Calls : call[c].answer \in Terminal => call[c].answer = row.state
  /\ row.state \in {"success", "handler_error"} => row.by \in Sessions /\ sends[row.by] > 0

InvocationInv == Shape /\ HeldRow /\ AboutToSend /\ Sent /\ ResultsFollow /\ Outcomes
-----------------------------------------------------------------------------
(* Most steps leave the claim with whoever has it: the row takes one of    *)
(* these ways, gateways and releases give up at most what they have, and a *)
(* call that is answered is given the outcome that is stored.              *)
RowMoves ==
  /\ DOMAIN row' = RowFields /\ row'.state \in States
  /\ \/ row'.state = row.state /\ row'.conn = row.conn /\ row'.by = row.by
     \/ row.state = "none" /\ row'.state = "pending"
     \/ row.state = "pending" /\ row'.state = "reserved"
     \/ row.state = "reserved" /\ row'.state = "claimed" /\ row'.conn = row.conn
     \/ row.state \in {"pending", "reserved"} /\ row'.state = "unavailable"
     \/ row.state = "claimed" /\ row'.state = "timeout"
     \/ /\ row.state = "claimed" /\ row'.state \in {"success", "handler_error"}
        /\ row'.by \in Sessions /\ sends[row'.by] > 0

CallsTruthful ==
  /\ DOMAIN call' = Calls
  /\ \A c \in Calls :
       /\ DOMAIN call'[c] = CallFields
       /\ call'[c].answer \in Terminal =>
            call'[c].answer = call[c].answer \/ call'[c].answer = row'.state

HandlerShape(h) ==
  DOMAIN h = HandlerFields /\ h.todo \subseteq Sessions
  /\ (h.pc \in {"held", "send", "release"} => h.at \in Sessions)

HandlersLetGo ==
  /\ DOMAIN handler' = Gateways
  /\ \A g \in Gateways :
       /\ HandlerShape(handler'[g])
       /\ handler'[g].pc \in {"held", "send", "release"} =>
            Holds(g) /\ handler'[g].at = handler[g].at
       /\ handler'[g].pc = "send" =>
            handler[g].pc = "send" \/ (row.state = "reserved" /\ row'.state = "claimed")

LateLetGo ==
  /\ late' \subseteq Statements \X Sessions
  /\ \A s \in Sessions :
       /\ <<"release", s>> \in late' => <<"release", s>> \in late
       /\ \A result \in {"success", "handler_error"} :
            <<result, s>> \in late' => <<result, s>> \in late \/ sends[s] > 0

SendsKept ==
  /\ sends' = sends /\ DOMAIN frame' = Sessions
  /\ \A s \in Sessions : frame'[s] # "none" => sends[s] > 0

Coasts == RowMoves /\ CallsTruthful /\ HandlersLetGo /\ LateLetGo /\ SendsKept

LEMMA CoastStep ==
  ASSUME InvocationInv, Coasts
  PROVE  InvocationInv'
<1> USE DEF InvocationInv, Coasts
<1>1. Shape'
  BY Zenon DEF Shape, RowMoves, CallsTruthful, HandlersLetGo, HandlerShape, LateLetGo, SendsKept
<1>2. Settled => Settled'
  BY Zenon DEF RowMoves, Settled, Terminal
<1>3. ASSUME NEW s \in Sessions, Owned(s)
      PROVE  Settled' \/ Owned(s)'
  BY Zenon, <1>3 DEF RowMoves, Settled, Owned, Terminal
<1>4. HeldRow'
  BY Zenon, <1>2, <1>3 DEF HeldRow, Holds, HandlersLetGo, LateLetGo, HandlerShape
<1>5. AboutToSend'
  BY DEF AboutToSend, Sent, RowMoves, HandlersLetGo, SendsKept, Shape
<1>6. Sent'
  <2> SUFFICES ASSUME NEW s \in Sessions, sends[s] > 0
               PROVE  /\ sends[s] = 1 /\ \A t \in Sessions \ {s} : sends[t] = 0
                      /\ \A g \in Gateways : handler'[g].pc \notin {"held", "send", "release"}
                      /\ \A t \in Sessions : <<"release", t>> \notin late'
                      /\ \/ row'.state = "claimed" /\ row'.conn = s
                         \/ row'.state \in {"success", "handler_error", "timeout"}
    BY Zenon DEF Sent, SendsKept, Holds
  <2>1. /\ \A g \in Gateways : handler'[g].pc \notin {"held", "send", "release"}
        /\ \A t \in Sessions : <<"release", t>> \notin late'
    BY Zenon DEF Sent, HandlersLetGo, LateLetGo
  <2>2. \/ row'.state = "claimed" /\ row'.conn = s
        \/ row'.state \in {"success", "handler_error", "timeout"}
    BY Zenon DEF Sent, RowMoves
  <2> QED BY Zenon, <2>1, <2>2 DEF Sent
<1>7. ResultsFollow'
  BY Zenon DEF ResultsFollow, LateLetGo, SendsKept
<1>8. Outcomes'
  BY Zenon DEF Outcomes, RowMoves, CallsTruthful, SendsKept, Terminal
<1> QED BY Zenon, <1>1, <1>4, <1>5, <1>6, <1>7, <1>8
-----------------------------------------------------------------------------
(* What the statements do. *)
LEMMA SweptRow ==
  ASSUME InvocationInv, row' = Swept
  PROVE  RowMoves
<1>1. DOMAIN row = RowFields /\ row.state \in States
  BY Zenon DEF InvocationInv, Shape
<1>2. CASE row.state = "claimed" /\ row.deadlineIn = 0
  BY Zenon, <1>1, <1>2 DEF Swept, RowMoves, RowFields, States, Terminal
<1>3. CASE row.state \in {"pending", "reserved"} /\ row.claimIn = 0 /\ row.state # "claimed"
  BY Zenon, <1>1, <1>3 DEF Swept, RowMoves, RowFields, States, Terminal
<1>4. CASE Swept = row
  BY Zenon, <1>1, <1>4 DEF RowMoves
<1> QED BY Zenon, <1>2, <1>3, <1>4 DEF Swept

LEMMA RefusedRow ==
  ASSUME InvocationInv, NEW statement, NEW s, ~Allowed(statement, s), row' = After(statement, s)
  PROVE  RowMoves
BY Zenon, SweptRow DEF After

LEMMA ClaimedRow ==
  ASSUME InvocationInv, NEW s, row' = After("claim", s)
  PROVE  /\ RowMoves
         /\ MayClaim(s) => row.state = "pending" /\ row'.state = "reserved" /\ row'.conn = s
<1>1. DOMAIN row = RowFields
  BY Zenon DEF InvocationInv, Shape
<1>2. CASE MayClaim(s)
  <2>1. row' = [row EXCEPT !.state = "reserved", !.conn = s] /\ row.state = "pending"
    BY Zenon, <1>2 DEF After, Allowed, MayClaim
  <2> QED BY Zenon, <1>1, <2>1 DEF RowMoves, RowFields, States, Terminal
<1>3. CASE ~MayClaim(s)
  BY Zenon, <1>3, RefusedRow DEF Allowed
<1> QED BY Zenon, <1>2, <1>3

LEMMA AcknowledgedRow ==
  ASSUME InvocationInv, NEW s, row' = After("acknowledge", s)
  PROVE  /\ RowMoves
         /\ MayAcknowledge(s) => row.state = "reserved" /\ row'.state = "claimed"
<1>1. DOMAIN row = RowFields
  BY Zenon DEF InvocationInv, Shape
<1>2. CASE MayAcknowledge(s)
  <2>1. row' = [row EXCEPT !.state = "claimed"] /\ row.state = "reserved"
    BY Zenon, <1>2 DEF After, Allowed, MayAcknowledge
  <2> QED BY Zenon, <1>1, <2>1 DEF RowMoves, RowFields, States, Terminal
<1>3. CASE ~MayAcknowledge(s)
  BY Zenon, <1>3, RefusedRow DEF Allowed
<1> QED BY Zenon, <1>2, <1>3

LEMMA CompletedRow ==
  ASSUME InvocationInv, NEW s \in Sessions, sends[s] > 0,
         NEW result \in {"success", "handler_error"}, row' = After(result, s)
  PROVE  RowMoves
<1>1. DOMAIN row = RowFields
  BY Zenon DEF InvocationInv, Shape
<1>2. CASE MayComplete(s)
  <2>1. row' = [row EXCEPT !.state = result, !.by = s] /\ row.state = "claimed"
    BY Zenon, <1>2 DEF After, Allowed, MayComplete
  <2> QED BY Zenon, <1>1, <2>1 DEF RowMoves, RowFields, States, Terminal
<1>3. CASE ~MayComplete(s)
  BY Zenon, <1>3, RefusedRow DEF Allowed
<1> QED BY Zenon, <1>2, <1>3

LEMMA ReleasedRow ==
  ASSUME InvocationInv, NEW s, MayRelease(s), row' = After("release", s)
  PROVE  /\ row.state \in {"reserved", "claimed"} /\ row.conn = s
         /\ DOMAIN row' = RowFields /\ row'.state = "pending"
<1>1. DOMAIN row = RowFields
  BY Zenon DEF InvocationInv, Shape
<1>2. row' = [row EXCEPT !.state = "pending", !.conn = None] /\ row.state \in {"reserved", "claimed"}
  BY Zenon DEF After, Allowed, MayRelease
<1> QED BY Zenon, <1>1, <1>2 DEF RowFields, MayRelease

LEMMA SameRow ==
  ASSUME InvocationInv, row' = row
  PROVE  RowMoves
BY Zenon DEF InvocationInv, Shape, RowMoves

(* The parts of Coasts that an action does not touch. *)
LEMMA SameCalls ==
  ASSUME InvocationInv, call' = call
  PROVE  CallsTruthful
BY Zenon DEF InvocationInv, Shape, CallsTruthful

LEMMA SameHandlers ==
  ASSUME InvocationInv, handler' = handler
  PROVE  HandlersLetGo
BY Zenon DEF InvocationInv, Shape, HandlersLetGo, HandlerShape, Holds

LEMMA SameLate ==
  ASSUME InvocationInv, late' \subseteq late
  PROVE  LateLetGo
BY Zenon DEF InvocationInv, Shape, LateLetGo

LEMMA SameSends ==
  ASSUME InvocationInv, UNCHANGED <<sends, frame>>
  PROVE  SendsKept
BY Zenon DEF InvocationInv, Shape, SendsKept, ResultsFollow

LEMMA OneHandler ==
  ASSUME InvocationInv, NEW g \in Gateways, NEW h, handler' = [handler EXCEPT ![g] = h],
         HandlerShape(h),
         h.pc \in {"held", "send", "release"} => Holds(g) /\ h.at = handler[g].at,
         h.pc = "send" => handler[g].pc = "send" \/ (row.state = "reserved" /\ row'.state = "claimed")
  PROVE  HandlersLetGo
BY Zenon DEF InvocationInv, Shape, HandlersLetGo, HandlerShape, Holds

LEMMA OneCall ==
  ASSUME InvocationInv, NEW c \in Calls, NEW r, call' = [call EXCEPT ![c] = r],
         DOMAIN r = CallFields,
         r.answer \in Terminal => r.answer = call[c].answer \/ r.answer = row'.state
  PROVE  CallsTruthful
BY Zenon DEF InvocationInv, Shape, CallsTruthful
-----------------------------------------------------------------------------
(* The steps of a call. *)
LEMMA GotoCall ==
  ASSUME InvocationInv, NEW c \in Calls, NEW pc, Goto(c, pc)
  PROVE  CallsTruthful
<1> DEFINE r == [call[c] EXCEPT !.pc = pc]
<1>1. call' = [call EXCEPT ![c] = r]
  BY Zenon DEF Goto
<1>2. DOMAIN call[c] = CallFields
  BY Zenon DEF InvocationInv, Shape
<1>3. DOMAIN r = CallFields /\ r.answer = call[c].answer
  BY Zenon, <1>2 DEF CallFields
<1> QED BY Zenon, <1>1, <1>3, OneCall

LEMMA AnsweredCall ==
  ASSUME InvocationInv, NEW c \in Calls, NEW answer, Answer(c, answer),
         answer \notin Terminal \/ answer = row'.state
  PROVE  CallsTruthful
<1> DEFINE r == [call[c] EXCEPT !.pc = "done", !.answer = answer]
<1>1. call' = [call EXCEPT ![c] = r]
  BY Zenon DEF Answer
<1>2. DOMAIN call[c] = CallFields
  BY Zenon DEF InvocationInv, Shape
<1>3. DOMAIN r = CallFields /\ r.answer = answer
  BY Zenon, <1>2 DEF CallFields
<1> QED BY Zenon, <1>1, <1>3, OneCall

LEMMA ReadingCall ==
  ASSUME InvocationInv, NEW c \in Calls, NEW pc, NEW replay, ReadBy(c, pc, replay)
  PROVE  RowMoves /\ CallsTruthful
<1>1. row' = Swept
  BY Zenon DEF ReadBy
<1>2. DOMAIN call[c] = CallFields
  BY Zenon DEF InvocationInv, Shape
<1> DEFINE done == [call[c] EXCEPT !.pc = "done", !.answer = row'.state, !.replay = replay]
           on == [call[c] EXCEPT !.pc = pc, !.replay = replay,
                    !.until = IF row'.state = "claimed" THEN "deadline" ELSE "claim"]
<1>3. call' = [call EXCEPT ![c] = IF row'.state \in Terminal THEN done ELSE on]
  BY Zenon, <1>1 DEF ReadBy
<1>4. DOMAIN done = CallFields /\ done.answer = row'.state
  BY Zenon, <1>2 DEF CallFields
<1>5. DOMAIN on = CallFields /\ on.answer = call[c].answer
  BY Zenon, <1>2 DEF CallFields
<1> HIDE DEF done, on
<1>6. CallsTruthful
  BY Zenon, <1>3, <1>4, <1>5, OneCall
<1> QED BY Zenon, <1>1, <1>6, SweptRow

LEMMA CallSteps ==
  ASSUME InvocationInv, NEW c \in Calls, InvokeStep(c) \/ TakeReply(c) \/ Cancel(c)
  PROVE  Coasts
<1>1. UnchangedByCall
  BY Zenon DEF InvokeStep, FindInvocation, GetFunction, CreateInvocation, WatchInvocation,
         PublishInvocation, StopWaiting, ReadInvocation, Wake, TakeReply, Cancel
<1>2. HandlersLetGo /\ LateLetGo /\ SendsKept
  BY Zenon, <1>1, SameHandlers, SameLate, SameSends DEF UnchangedByCall
<1>3. SUFFICES RowMoves /\ CallsTruthful
  BY Zenon, <1>2 DEF Coasts
<1>4. CASE FindInvocation(c)
  BY Zenon, <1>4, ReadingCall, GotoCall, SameRow DEF FindInvocation
<1>5. CASE GetFunction(c)
  <2>1. row' = row
    BY Zenon, <1>5 DEF GetFunction
  <2>2. CASE function.exists /\ function.enabled
    <3> DEFINE r == [call[c] EXCEPT !.pc = "create", !.claimIn = ClaimTimeout,
                                    !.deadlineIn = function.timeout]
    <3>1. call' = [call EXCEPT ![c] = r]
      BY Zenon, <1>5, <2>2 DEF GetFunction
    <3>2. DOMAIN call[c] = CallFields
      BY Zenon DEF InvocationInv, Shape
    <3>3. DOMAIN r = CallFields /\ r.answer = call[c].answer
      BY Zenon, <3>2 DEF CallFields
    <3> QED BY Zenon, <2>1, <3>1, <3>3, OneCall, SameRow
  <2>3. CASE ~(function.exists /\ function.enabled)
    <3>1. Answer(c, "not_found")
      BY Zenon, <1>5, <2>3 DEF GetFunction
    <3>2. "not_found" \notin Terminal
      BY Zenon DEF Terminal
    <3> QED BY Zenon, <2>1, <3>1, <3>2, AnsweredCall, SameRow
  <2> QED BY Zenon, <2>2, <2>3
<1>6. CASE CreateInvocation(c)
  <2>1. CASE ReadBy(c, "watch", TRUE)
    BY Zenon, <2>1, ReadingCall
  <2>2. CASE Answer(c, "not_found") /\ row' = row
    BY Zenon, <2>2, AnsweredCall, SameRow DEF Terminal
  <2>3. CASE Creates(c) /\ Goto(c, "watch")
             /\ row' = [state |-> "pending", conn |-> None, claimIn |-> call[c].claimIn,
                        deadlineIn |-> call[c].deadlineIn, by |-> None]
    <3>1. row.state = "none" /\ row'.state = "pending" /\ DOMAIN row' = RowFields
      BY Zenon, <2>3 DEF Creates, RowFields
    <3> QED BY Zenon, <2>3, <3>1, GotoCall DEF RowMoves, States
  <2> QED BY Zenon, <1>6, <2>1, <2>2, <2>3 DEF CreateInvocation
<1>7. CASE WatchInvocation(c)
  <2>1. row' = row
    BY Zenon, <1>7 DEF WatchInvocation
  <2>2. "unavailable_now" \notin Terminal
    BY Zenon DEF Terminal
  <2> QED BY Zenon, <1>7, <2>1, <2>2, GotoCall, AnsweredCall, SameRow DEF WatchInvocation
<1>8. CASE PublishInvocation(c) \/ StopWaiting(c) \/ Wake(c)
  BY Zenon, <1>8, GotoCall, SameRow DEF PublishInvocation, StopWaiting, Wake
<1>9. CASE ReadInvocation(c)
  BY Zenon, <1>9, ReadingCall DEF ReadInvocation
<1>10. CASE TakeReply(c)
  <2>1. PICK accepted \in replies : call' = [call EXCEPT ![c].accepted = @ \/ accepted]
    BY Zenon, <1>10 DEF TakeReply
  <2> DEFINE r == [call[c] EXCEPT !.accepted = @ \/ accepted]
  <2>2. call' = [call EXCEPT ![c] = r]
    BY Zenon, <2>1
  <2>3. DOMAIN call[c] = CallFields
    BY Zenon DEF InvocationInv, Shape
  <2>4. DOMAIN r = CallFields /\ r.answer = call[c].answer
    BY Zenon, <2>3 DEF CallFields
  <2>5. row' = row
    BY Zenon, <1>10 DEF TakeReply
  <2> QED BY Zenon, <2>2, <2>4, <2>5, OneCall, SameRow
<1>11. CASE Cancel(c)
  <2>1. row' = row /\ Answer(c, "canceled")
    BY Zenon, <1>11 DEF Cancel
  <2>2. "canceled" \notin Terminal
    BY Zenon DEF Terminal
  <2> QED BY Zenon, <2>1, <2>2, AnsweredCall, SameRow
<1> QED BY Zenon, <1>4, <1>5, <1>6, <1>7, <1>8, <1>9, <1>10, <1>11 DEF InvokeStep
-----------------------------------------------------------------------------
(* The steps of a gateway. *)
LEMMA LateStatement ==
  ASSUME InvocationInv, NEW s \in Sessions, NEW statement \in {"claim", "acknowledge"},
         Unanswered(statement, s)
  PROVE  LateLetGo
<1>1. late' = late \cup {<<statement, s>>}
  BY Zenon DEF Unanswered
<1>2. \A t : <<statement, s>> \notin {<<"release", t>>, <<"success", t>>, <<"handler_error", t>>}
  BY Zenon
<1> QED BY <1>1, <1>2 DEF InvocationInv, Shape, LateLetGo, Statements

(* A pending row is nobody's: no gateway holds it, no release is on its    *)
(* way and nothing has been sent.                                          *)
LEMMA PendingIsFree ==
  ASSUME InvocationInv, row.state = "pending"
  PROVE  /\ \A g \in Gateways : ~Holds(g)
         /\ \A s \in Sessions : <<"release", s>> \notin late
         /\ \A s \in Sessions : sends[s] = 0
<1>1. ~Settled /\ \A s : ~Owned(s)
  BY Zenon DEF Settled, Owned, Terminal
<1>2. /\ \A g \in Gateways : ~Holds(g)
      /\ \A s \in Sessions : <<"release", s>> \notin late
  BY <1>1, Zenon DEF InvocationInv, HeldRow
<1>3. \A s \in Sessions : sends[s] \in Nat /\ ~(sends[s] > 0)
  BY Zenon DEF InvocationInv, Sent, Shape
<1> QED BY <1>2, <1>3

LEMMA ClaimStep ==
  ASSUME InvocationInv, NEW g \in Gateways, ClaimInvocation(g)
  PROVE  InvocationInv'
<1>1. PICK s \in handler[g].todo :
        LET next == [handler EXCEPT ![g].todo = @ \ {s}]
            held == [next EXCEPT ![g].pc = "held", ![g].at = s] IN
          \/ session[s] = "closed" /\ handler' = next /\ UNCHANGED <<row, late, faults>>
          \/ /\ session[s] = "open" /\ row' = After("claim", s) /\ UNCHANGED <<late, faults>>
             /\ handler' = IF MayClaim(s) THEN held ELSE next
          \/ /\ session[s] = "open" /\ Unanswered("claim", s)
             /\ handler' = next /\ UNCHANGED row
  BY Zenon DEF ClaimInvocation
<1>2. UNCHANGED <<call, frame, sends>> /\ handler[g].pc = "next"
  BY Zenon DEF ClaimInvocation, UnchangedByGateway
<1>3. CallsTruthful /\ SendsKept
  BY Zenon, <1>2, SameCalls, SameSends
<1>4. /\ s \in Sessions /\ DOMAIN handler[g] = HandlerFields /\ handler[g].todo \subseteq Sessions
      /\ g \in DOMAIN handler
  BY Zenon, <1>1 DEF InvocationInv, Shape
<1> DEFINE n == [handler[g] EXCEPT !.todo = @ \ {s}]
           h == [n EXCEPT !.pc = "held", !.at = s]
<1>5. DOMAIN n = HandlerFields /\ n.pc = "next" /\ n.todo \subseteq Sessions
  BY Zenon, <1>2, <1>4 DEF HandlerFields
<1>6. DOMAIN h = HandlerFields /\ h.pc = "held" /\ h.todo \subseteq Sessions /\ h.at = s
  BY Zenon, <1>4, <1>5 DEF HandlerFields
<1>7. CASE handler' = [handler EXCEPT ![g] = n] /\ RowMoves /\ LateLetGo
  <2>1. HandlerShape(n)
    BY Zenon, <1>5 DEF HandlerShape
  <2>2. HandlersLetGo
    BY Zenon, <1>5, <1>7, <2>1, OneHandler
  <2> QED BY Zenon, <1>3, <1>7, <2>2, CoastStep DEF Coasts
<1>8. CASE MayClaim(s) /\ row' = After("claim", s) /\ late' = late /\ handler' = [handler EXCEPT ![g] = h]
  <2>1. RowMoves /\ row.state = "pending" /\ row'.state = "reserved" /\ row'.conn = s
    BY Zenon, <1>8, ClaimedRow
  <2>2. /\ \A k \in Gateways : ~Holds(k)
        /\ \A t \in Sessions : <<"release", t>> \notin late
        /\ \A t \in Sessions : sends[t] = 0
    BY Zenon, <2>1, PendingIsFree
  <2>3. /\ DOMAIN handler' = Gateways /\ handler'[g] = h
        /\ \A k \in Gateways \ {g} : handler'[k] = handler[k]
    BY Zenon, <1>8 DEF InvocationInv, Shape
  <2> HIDE DEF h, n
  <2>4. Shape'
    BY Zenon, <1>2, <1>3, <1>4, <1>6, <1>8, <2>1, <2>3 DEF InvocationInv, Shape, RowMoves, CallsTruthful
  <2>5. HeldRow'
    BY <1>6, <1>8, <2>1, <2>2, <2>3 DEF HeldRow, Holds, Owned
  <2>6. AboutToSend'
    BY Zenon, <1>6, <2>2, <2>3 DEF AboutToSend, Holds
  <2>7. Sent'
    BY <1>2, <2>2 DEF Sent
  <2>8. ResultsFollow'
    BY Zenon, <1>2, <1>8 DEF InvocationInv, ResultsFollow
  <2>9. Outcomes'
    BY Zenon, <1>2, <2>1 DEF InvocationInv, Outcomes, Terminal
  <2> QED BY Zenon, <2>4, <2>5, <2>6, <2>7, <2>8, <2>9 DEF InvocationInv
<1>9. CASE session[s] = "closed" /\ handler' = [handler EXCEPT ![g] = n] /\ UNCHANGED <<row, late>>
  BY Zenon, <1>7, <1>9, SameRow, SameLate
<1>10. CASE ~MayClaim(s) /\ row' = After("claim", s) /\ late' = late /\ handler' = [handler EXCEPT ![g] = n]
  BY Zenon, <1>7, <1>10, ClaimedRow, SameLate
<1>11. CASE Unanswered("claim", s) /\ handler' = [handler EXCEPT ![g] = n] /\ row' = row
  BY Zenon, <1>4, <1>7, <1>11, SameRow, LateStatement
<1>12. /\ [handler EXCEPT ![g].todo = @ \ {s}] = [handler EXCEPT ![g] = n]
       /\ [[handler EXCEPT ![g].todo = @ \ {s}] EXCEPT ![g].pc = "held", ![g].at = s]
            = [handler EXCEPT ![g] = h]
  BY Zenon, <1>4
<1> HIDE DEF h, n
<1> QED BY Zenon, <1>1, <1>8, <1>9, <1>10, <1>11, <1>12
LEMMA AcknowledgeStep ==
  ASSUME InvocationInv, NEW g \in Gateways, AcknowledgeInvocation(g)
  PROVE  Coasts
<1> DEFINE s == handler[g].at
           to(pc) == [handler[g] EXCEPT !.pc = pc]
<1>1. UNCHANGED <<call, frame, sends>> /\ handler[g].pc = "held"
  BY Zenon DEF AcknowledgeInvocation, UnchangedByGateway
<1>2. CallsTruthful /\ SendsKept
  BY Zenon, <1>1, SameCalls, SameSends
<1>3. s \in Sessions /\ DOMAIN handler[g] = HandlerFields /\ handler[g].todo \subseteq Sessions /\ Holds(g)
  BY Zenon, <1>1 DEF InvocationInv, Shape, Holds
<1>4. \A pc : DOMAIN to(pc) = HandlerFields /\ to(pc).pc = pc /\ to(pc).at = s
               /\ to(pc).todo = handler[g].todo
  BY Zenon, <1>3 DEF HandlerFields
<1>5. \A pc : HandlerShape(to(pc))
  BY Zenon, <1>3, <1>4 DEF HandlerShape
<1> HIDE DEF to
<1>6. \/ handler' = [handler EXCEPT ![g] = to("release")] /\ row' = row /\ late' = late
      \/ /\ row' = After("acknowledge", s) /\ late' = late
         /\ handler' = [handler EXCEPT ![g] = to(IF MayAcknowledge(s) THEN "send" ELSE "release")]
      \/ Unanswered("acknowledge", s) /\ handler' = [handler EXCEPT ![g] = to("release")] /\ row' = row
  BY Zenon DEF AcknowledgeInvocation, to
<1>7. RowMoves /\ LateLetGo
  BY Zenon, <1>3, <1>6, SameRow, SameLate, AcknowledgedRow, LateStatement
<1>8. HandlersLetGo
  <2>1. CASE handler' = [handler EXCEPT ![g] = to("release")]
    BY Zenon, <1>3, <1>4, <1>5, <2>1, OneHandler
  <2>2. CASE /\ MayAcknowledge(s) /\ row' = After("acknowledge", s)
             /\ handler' = [handler EXCEPT ![g] = to("send")]
    <3>1. row.state = "reserved" /\ row'.state = "claimed"
      BY Zenon, <2>2, AcknowledgedRow
    <3> QED BY Zenon, <1>3, <1>4, <1>5, <2>2, <3>1, OneHandler
  <2> QED BY Zenon, <1>6, <2>1, <2>2
<1> QED BY Zenon, <1>2, <1>7, <1>8 DEF Coasts

LEMMA ReleaseStep ==
  ASSUME InvocationInv, NEW g \in Gateways, ReleaseInvocation(g)
  PROVE  InvocationInv'
<1> DEFINE s == handler[g].at
           h == [handler[g] EXCEPT !.pc = "next", !.at = None]
<1>1. UNCHANGED <<call, frame, sends>> /\ handler[g].pc = "release" /\ handler' = [handler EXCEPT ![g] = h]
  BY Zenon DEF ReleaseInvocation, UnchangedByGateway, AfterRelease
<1>2. CallsTruthful /\ SendsKept
  BY Zenon, <1>1, SameCalls, SameSends
<1>3. s \in Sessions /\ DOMAIN handler[g] = HandlerFields /\ handler[g].todo \subseteq Sessions /\ Holds(g)
  BY Zenon, <1>1 DEF InvocationInv, Shape, Holds
<1>4. DOMAIN h = HandlerFields /\ h.pc = "next" /\ h.todo = handler[g].todo
  BY Zenon, <1>3 DEF HandlerFields
<1>5. HandlerShape(h)
  BY Zenon, <1>3, <1>4 DEF HandlerShape
<1> HIDE DEF h
<1>6. HandlersLetGo
  BY Zenon, <1>1, <1>4, <1>5, OneHandler
<1>7. /\ \A k \in Gateways : handler'[k].pc \notin {"held", "send", "release"}
      /\ \A t \in Sessions : <<"release", t>> \notin late
      /\ \A t \in Sessions : sends[t] = 0
  <2>1. \A k \in Gateways \ {g} : ~Holds(k)
    BY Zenon, <1>3 DEF InvocationInv, HeldRow
  <2>2. \A k \in Gateways : handler'[k].pc \notin {"held", "send", "release"}
    BY Zenon, <1>1, <1>4, <2>1 DEF Holds, InvocationInv, Shape
  <2>3. \A t \in Sessions : <<"release", t>> \notin late
    BY Zenon, <1>3 DEF InvocationInv, HeldRow
  <2>4. \A t \in Sessions : sends[t] \in Nat /\ ~(sends[t] > 0)
    BY Zenon, <1>3 DEF InvocationInv, Sent, Shape
  <2> QED BY <2>2, <2>3, <2>4
<1>8. CASE late' = late /\ row' = After("release", s) /\ ~MayRelease(s)
  <2>1. RowMoves
    BY Zenon, <1>8, RefusedRow DEF Allowed
  <2> QED BY Zenon, <1>2, <1>6, <1>8, <2>1, SameLate, CoastStep DEF Coasts
<1>9. CASE late' = late /\ row' = After("release", s) /\ MayRelease(s)
  <2>1. /\ row.state \in {"reserved", "claimed"} /\ DOMAIN row' = RowFields /\ row'.state = "pending"
    BY Zenon, <1>9, ReleasedRow
  <2>2. Shape'
    BY Zenon, <1>1, <1>2, <1>6, <1>9, <2>1
       DEF InvocationInv, Shape, CallsTruthful, HandlersLetGo, HandlerShape, States
  <2>3. HeldRow' /\ AboutToSend' /\ Sent'
    BY <1>1, <1>7, <1>9 DEF HeldRow, AboutToSend, Sent, Holds
  <2>4. ResultsFollow'
    BY Zenon, <1>1, <1>9 DEF InvocationInv, ResultsFollow
  <2>5. Outcomes'
    BY Zenon, <1>1, <2>1 DEF InvocationInv, Outcomes, Terminal
  <2> QED BY Zenon, <2>2, <2>3, <2>4, <2>5 DEF InvocationInv
<1>10. CASE Unanswered("release", s) /\ row' = row
  <2>1. late' = late \cup {<<"release", s>>}
    BY Zenon, <1>10 DEF Unanswered
  <2>2. Shape'
    BY <1>1, <1>2, <1>3, <1>6, <1>10, <2>1
       DEF InvocationInv, Shape, CallsTruthful, HandlersLetGo, HandlerShape, Statements
  <2>3. Settled \/ Owned(s)
    BY Zenon, <1>3 DEF InvocationInv, HeldRow
  <2>4. \A t \in Sessions : <<"release", t>> \in late' <=> t = s
    BY Zenon, <1>3, <1>7, <2>1
  <2>5. HeldRow'
    BY Zenon, <1>7, <1>10, <2>3, <2>4 DEF HeldRow, Holds, Settled, Owned
  <2>6. AboutToSend' /\ Sent'
    BY <1>1, <1>7 DEF AboutToSend, Sent
  <2>7. ResultsFollow'
    BY Zenon, <1>1, <2>1 DEF InvocationInv, ResultsFollow
  <2>8. Outcomes'
    BY Zenon, <1>1, <1>10 DEF InvocationInv, Outcomes
  <2> QED BY Zenon, <2>2, <2>5, <2>6, <2>7, <2>8 DEF InvocationInv
<1> QED BY Zenon, <1>8, <1>9, <1>10 DEF ReleaseInvocation

LEMMA SendStep ==
  ASSUME InvocationInv, NEW g \in Gateways, SendFrame(g)
  PROVE  InvocationInv'
<1> DEFINE s == handler[g].at
           h == [handler[g] EXCEPT !.pc = "release"]
<1>1. UNCHANGED <<call, row, late>> /\ handler[g].pc = "send"
  BY Zenon DEF SendFrame, UnchangedByGateway
<1>2. RowMoves /\ CallsTruthful /\ LateLetGo
  BY Zenon, <1>1, SameRow, SameCalls, SameLate
<1>3. s \in Sessions /\ DOMAIN handler[g] = HandlerFields /\ handler[g].todo \subseteq Sessions /\ Holds(g)
  BY Zenon, <1>1 DEF InvocationInv, Shape, Holds
<1>4. CASE UNCHANGED <<frame, sends>> /\ handler' = [handler EXCEPT ![g] = h]
  <2>1. DOMAIN h = HandlerFields /\ h.pc = "release" /\ h.todo = handler[g].todo /\ h.at = s
    BY Zenon, <1>3 DEF HandlerFields
  <2>2. HandlerShape(h)
    BY Zenon, <1>3, <2>1 DEF HandlerShape
  <2> HIDE DEF h
  <2>3. HandlersLetGo
    BY Zenon, <1>3, <1>4, <2>1, <2>2, OneHandler
  <2> QED BY Zenon, <1>2, <1>4, <2>3, SameSends, CoastStep DEF Coasts
<1>5. CASE /\ frame' = [frame EXCEPT ![s] = "queued"] /\ sends' = [sends EXCEPT ![s] = @ + 1]
           /\ handler' = [handler EXCEPT ![g] = IdleHandler]
  <2>1. /\ row.state = "timeout" \/ (row.state = "claimed" /\ row.conn = s)
        /\ \A t \in Sessions : sends[t] = 0
    <3>1. row.state = "timeout" \/ row.state = "claimed"
      BY Zenon, <1>1 DEF InvocationInv, AboutToSend
    <3>2. Settled \/ Owned(s)
      BY Zenon, <1>3 DEF InvocationInv, HeldRow
    <3> QED BY Zenon, <1>1, <3>1, <3>2 DEF InvocationInv, AboutToSend, Settled, Owned, Terminal
  <2>2. HandlerShape(IdleHandler) /\ IdleHandler.pc = "idle"
    BY Zenon DEF HandlerShape, IdleHandler, HandlerFields
  <2>3. /\ DOMAIN handler' = Gateways /\ \A k \in Gateways : HandlerShape(handler'[k])
        /\ \A k \in Gateways : handler'[k].pc \notin {"held", "send", "release"}
    <3>1. \A k \in Gateways \ {g} : ~Holds(k)
      BY Zenon, <1>3 DEF InvocationInv, HeldRow
    <3> QED BY Zenon, <1>5, <2>2, <3>1 DEF InvocationInv, Shape, Holds, HandlerShape
  <2>4. \A t \in Sessions : <<"release", t>> \notin late
    BY Zenon, <1>3 DEF InvocationInv, HeldRow
  <2>5. /\ sends' \in [Sessions -> Nat] /\ sends'[s] = 1 /\ \A t \in Sessions \ {s} : sends'[t] = 0
        /\ DOMAIN frame' = Sessions /\ \A t \in Sessions \ {s} : frame'[t] = frame[t]
    BY <1>3, <1>5, <2>1 DEF InvocationInv, Shape
  <2>6. Shape'
    BY Zenon, <1>1, <2>3, <2>5 DEF InvocationInv, Shape, HandlerShape
  <2>7. HeldRow' /\ AboutToSend'
    BY Zenon, <1>1, <2>3, <2>4 DEF HeldRow, AboutToSend, Holds
  <2>8. Sent'
    BY <1>1, <2>1, <2>3, <2>4, <2>5 DEF Sent, Holds
  <2>9. ResultsFollow'
    <3> SUFFICES ASSUME NEW t \in Sessions
                 PROVE  /\ frame'[t] # "none" => sends'[t] > 0
                        /\ \A result \in {"success", "handler_error"} :
                             <<result, t>> \in late' => sends'[t] > 0
      BY Zenon DEF ResultsFollow
    <3>1. CASE t = s
      BY <2>5, <3>1
    <3>2. CASE t # s
      <4>1. frame[t] = "none" /\ \A result \in {"success", "handler_error"} : <<result, t>> \notin late
        BY <2>1 DEF InvocationInv, ResultsFollow
      <4>2. frame'[t] = frame[t]
        BY Zenon, <2>5, <3>2
      <4> QED BY Zenon, <1>1, <4>1, <4>2
    <3> QED BY Zenon, <3>1, <3>2
  <2>10. Outcomes'
    BY Zenon, <1>1, <2>1 DEF InvocationInv, Outcomes
  <2> QED BY Zenon, <2>6, <2>7, <2>8, <2>9, <2>10 DEF InvocationInv
<1> QED BY Zenon, <1>4, <1>5 DEF SendFrame
LEMMA GatewaySteps ==
  ASSUME InvocationInv, NEW g \in Gateways, GatewayStep(g)
  PROVE  InvocationInv'
<1>1. CASE HandleInvocation(g)
  <2> DEFINE h == [pc |-> "next", todo |-> Open(g), at |-> None]
  <2>1. /\ handler' = [handler EXCEPT ![g] = h] /\ row' = Swept
        /\ UNCHANGED <<call, frame, sends, late>>
    BY Zenon, <1>1 DEF HandleInvocation, UnchangedByGateway
  <2>2. HandlerShape(h) /\ h.pc = "next"
    BY Zenon DEF HandlerShape, HandlerFields, Open
  <2> HIDE DEF h
  <2>3. HandlersLetGo
    BY Zenon, <2>1, <2>2, OneHandler
  <2> QED BY Zenon, <2>1, <2>3, SweptRow, SameCalls, SameLate, SameSends, CoastStep DEF Coasts
<1>2. CASE ClaimInvocation(g)
  BY Zenon, <1>2, ClaimStep
<1>3. CASE AcknowledgeInvocation(g)
  BY Zenon, <1>3, AcknowledgeStep, CoastStep
<1>4. CASE SendFrame(g)
  BY Zenon, <1>4, SendStep
<1>5. CASE ReleaseInvocation(g)
  BY Zenon, <1>5, ReleaseStep
<1>6. CASE RefuseInvocation(g)
  <2>1. /\ handler' = [handler EXCEPT ![g] = IdleHandler]
        /\ UNCHANGED <<row, call, frame, sends, late>>
    BY Zenon, <1>6 DEF RefuseInvocation, UnchangedByGateway
  <2>2. HandlerShape(IdleHandler) /\ IdleHandler.pc = "idle"
    BY Zenon DEF HandlerShape, IdleHandler, HandlerFields
  <2>3. HandlersLetGo
    BY Zenon, <2>1, <2>2, OneHandler
  <2> QED BY Zenon, <2>1, <2>3, SameRow, SameCalls, SameLate, SameSends, CoastStep DEF Coasts
<1> QED BY Zenon, <1>1, <1>2, <1>3, <1>4, <1>5, <1>6 DEF GatewayStep

-----------------------------------------------------------------------------
(* The steps of sessions, of late statements and of everybody else. *)
LEMMA SessionSteps ==
  ASSUME InvocationInv, NEW s \in Sessions, SessionStep(s)
  PROVE  Coasts
<1>1. UNCHANGED <<call, handler>>
  BY Zenon DEF SessionStep, OpenSession, CloseSession, WriteFrame, HandleResult, UnchangedBySession
<1>2. CallsTruthful /\ HandlersLetGo
  BY Zenon, <1>1, SameCalls, SameHandlers
<1>3. CASE OpenSession(s) \/ CloseSession(s)
  <2>1. UNCHANGED <<row, late, frame, sends>>
    BY Zenon, <1>3 DEF OpenSession, CloseSession
  <2> QED BY Zenon, <1>2, <2>1, SameRow, SameLate, SameSends DEF Coasts
<1>4. CASE WriteFrame(s)
  <2>1. UNCHANGED <<row, late, sends>> /\ frame[s] = "queued" /\ frame' = [frame EXCEPT ![s] = "received"]
    BY Zenon, <1>4 DEF WriteFrame
  <2>2. SendsKept
    BY Zenon, <2>1 DEF SendsKept, InvocationInv, Shape, ResultsFollow
  <2> QED BY Zenon, <1>2, <2>1, <2>2, SameRow, SameLate DEF Coasts
<1>5. CASE HandleResult(s)
  <2>1. UNCHANGED <<frame, sends>> /\ frame[s] = "received"
    BY Zenon, <1>5 DEF HandleResult
  <2>2. sends[s] > 0
    BY Zenon, <2>1 DEF InvocationInv, ResultsFollow
  <2>3. PICK result \in {"success", "handler_error"} :
          \/ row' = After(result, s) /\ late' = late
          \/ late' = late \cup {<<result, s>>} /\ row' = row
    BY Zenon, <1>5 DEF HandleResult, Unanswered
  <2>4. CASE row' = After(result, s) /\ late' = late
    BY Zenon, <1>2, <2>1, <2>2, <2>4, CompletedRow, SameLate, SameSends DEF Coasts
  <2>5. CASE late' = late \cup {<<result, s>>} /\ row' = row
    <3>1. LateLetGo
      BY <2>2, <2>5 DEF LateLetGo, InvocationInv, Shape, Statements
    <3> QED BY Zenon, <1>2, <2>1, <2>5, <3>1, SameRow, SameSends DEF Coasts
  <2> QED BY Zenon, <2>3, <2>4, <2>5
<1> QED BY Zenon, <1>3, <1>4, <1>5 DEF SessionStep

LEMMA LateStep ==
  ASSUME InvocationInv, ExecuteLate
  PROVE  InvocationInv'
<1>1. PICK l \in late : row' = After(l[1], l[2]) /\ late' = late \ {l}
  BY Zenon DEF ExecuteLate
<1>2. UNCHANGED <<call, handler, frame, sends>>
  BY Zenon DEF ExecuteLate
<1>3. PICK statement \in Statements, s \in Sessions : l = <<statement, s>>
  BY <1>1 DEF InvocationInv, Shape
<1>4. row' = After(statement, s)
  BY Zenon, <1>1, <1>3
<1>5. CallsTruthful /\ HandlersLetGo /\ LateLetGo /\ SendsKept
  BY Zenon, <1>1, <1>2, SameCalls, SameHandlers, SameLate, SameSends
<1>6. CASE statement = "claim" \/ statement = "acknowledge"
  BY Zenon, <1>4, <1>5, <1>6, ClaimedRow, AcknowledgedRow, CoastStep DEF Coasts
<1>7. CASE statement \in {"success", "handler_error"}
  <2>1. sends[s] > 0
    BY Zenon, <1>1, <1>3, <1>7 DEF InvocationInv, ResultsFollow
  <2> QED BY Zenon, <1>4, <1>5, <1>7, <2>1, CompletedRow, CoastStep DEF Coasts
<1>8. CASE statement = "release" /\ ~MayRelease(s)
  <2>1. RowMoves
    BY Zenon, <1>4, <1>8, RefusedRow DEF Allowed
  <2> QED BY Zenon, <1>5, <2>1, CoastStep DEF Coasts
<1>9. CASE statement = "release" /\ MayRelease(s)
  <2>1. row.state \in {"reserved", "claimed"} /\ DOMAIN row' = RowFields /\ row'.state = "pending"
    BY Zenon, <1>4, <1>9, ReleasedRow
  <2>2. <<"release", s>> \in late
    BY Zenon, <1>1, <1>3, <1>9
  <2>3. /\ \A g \in Gateways : ~Holds(g)
        /\ \A t \in Sessions : <<"release", t>> \notin late'
    BY Zenon, <1>1, <1>3, <1>9, <2>2 DEF InvocationInv, HeldRow
  <2>4. \A t \in Sessions : sends[t] \in Nat /\ ~(sends[t] > 0)
    BY Zenon, <2>2 DEF InvocationInv, Sent, Shape
  <2>5. Shape'
    BY Zenon, <1>1, <1>2, <2>1 DEF InvocationInv, Shape, States
  <2>6. HeldRow' /\ AboutToSend' /\ Sent'
    BY Zenon, <1>2, <2>3, <2>4 DEF HeldRow, AboutToSend, Sent, Holds
  <2>7. ResultsFollow'
    BY Zenon, <1>1, <1>2 DEF InvocationInv, ResultsFollow
  <2>8. Outcomes'
    BY Zenon, <1>2, <2>1 DEF InvocationInv, Outcomes, Terminal
  <2> QED BY Zenon, <2>5, <2>6, <2>7, <2>8 DEF InvocationInv
<1> QED BY Zenon, <1>6, <1>7, <1>8, <1>9 DEF Statements
LEMMA TickStep ==
  ASSUME InvocationInv, Tick
  PROVE  Coasts
<1>1. UNCHANGED <<handler, late, frame, sends>>
  BY Zenon DEF Tick
<1>2. RowMoves
  <2>1. DOMAIN row = RowFields /\ row.state \in States
    BY Zenon DEF InvocationInv, Shape
  <2>2. row' = [row EXCEPT !.claimIn = Down(row.claimIn), !.deadlineIn = Down(row.deadlineIn)]
    BY Zenon DEF Tick
  <2>3. DOMAIN row' = RowFields /\ row'.state = row.state /\ row'.conn = row.conn /\ row'.by = row.by
    BY Zenon, <2>1, <2>2 DEF RowFields
  <2> QED BY Zenon, <2>1, <2>3 DEF RowMoves
<1>3. CallsTruthful
  <2>1. ASSUME NEW c \in Calls
        PROVE  DOMAIN call'[c] = CallFields /\ call'[c].answer = call[c].answer
    <3>1. DOMAIN call[c] = CallFields
      BY Zenon DEF InvocationInv, Shape
    <3>2. CASE call'[c] = call[c]
      BY Zenon, <3>1, <3>2
    <3>3. CASE call'[c] = [call[c] EXCEPT !.claimIn = Down(call[c].claimIn),
                                          !.deadlineIn = Down(call[c].deadlineIn)]
      BY Zenon, <3>1, <3>3 DEF CallFields
    <3> QED BY Zenon, <3>2, <3>3 DEF Tick
  <2>2. DOMAIN call' = Calls
    BY Zenon DEF Tick
  <2> QED BY Zenon, <2>1, <2>2 DEF CallsTruthful
<1> QED BY Zenon, <1>1, <1>2, <1>3, SameHandlers, SameLate, SameSends DEF Coasts

LEMMA InvInit ==
  ASSUME Init
  PROVE  InvocationInv
<1>1. /\ row = NoRow /\ late = {} /\ sends = [s \in Sessions |-> 0]
      /\ frame = [s \in Sessions |-> "none"]
      /\ call = [c \in Calls |-> IdleCall] /\ handler = [g \in Gateways |-> IdleHandler]
  BY Zenon DEF Init
<1>2. DOMAIN NoRow = RowFields /\ NoRow.state = "none"
  BY Zenon DEF NoRow, RowFields
<1>3. DOMAIN IdleCall = CallFields /\ IdleCall.answer = "none"
  BY Zenon DEF IdleCall, CallFields
<1>4. DOMAIN IdleHandler = HandlerFields /\ IdleHandler.pc = "idle" /\ IdleHandler.todo = {}
  BY Zenon DEF IdleHandler, HandlerFields
<1>5. Shape
  BY Zenon, <1>1, <1>2, <1>3, <1>4 DEF Shape, States
<1>6. HeldRow /\ AboutToSend /\ Sent /\ ResultsFollow
  BY <1>1, <1>4 DEF HeldRow, AboutToSend, Sent, ResultsFollow, Holds
<1>7. Outcomes
  BY Zenon, <1>1, <1>2, <1>3 DEF Outcomes, Terminal
<1> QED BY Zenon, <1>5, <1>6, <1>7 DEF InvocationInv

LEMMA InvStep ==
  ASSUME InvocationInv, [Next]_vars
  PROVE  InvocationInv'
<1>1. ASSUME NEW c \in Calls, InvokeStep(c) \/ TakeReply(c) \/ Cancel(c)
      PROVE  InvocationInv'
  BY Zenon, <1>1, CallSteps, CoastStep
<1>2. ASSUME NEW g \in Gateways, GatewayStep(g)
      PROVE  InvocationInv'
  BY Zenon, <1>2, GatewaySteps
<1>3. ASSUME NEW s \in Sessions, SessionStep(s)
      PROVE  InvocationInv'
  BY Zenon, <1>3, SessionSteps, CoastStep
<1>4. CASE CatalogueStep \/ UNCHANGED vars
  <2>1. UNCHANGED <<row, call, handler, late, frame, sends>>
    BY Zenon, <1>4 DEF CatalogueStep, ReadFunction, UpdateFunction, DeleteFunction, SwitchOwner, vars
  <2> QED BY Zenon, <2>1, SameRow, SameCalls, SameHandlers, SameLate, SameSends, CoastStep DEF Coasts
<1>5. CASE ExecuteLate
  BY Zenon, <1>5, LateStep
<1>6. CASE Tick
  BY Zenon, <1>6, TickStep, CoastStep
<1> QED BY <1>1, <1>2, <1>3, <1>4, <1>5, <1>6, Zenon DEF Next

(* The invariant holds of every behaviour of calls, gateways and sessions. *)
THEOREM InvocationInvariant == Spec => []InvocationInv
<1>1. Init => InvocationInv
  BY Zenon, InvInit
<1>2. InvocationInv /\ [Next]_vars => InvocationInv'
  BY Zenon, InvStep
<1> QED BY <1>1, <1>2, PTL DEF Spec

-----------------------------------------------------------------------------
(* The types. *)

LEMMA RowChange ==
  ASSUME NEW r \in Rows, NEW state \in States, NEW s \in Sessions \cup {None}
  PROVE  /\ [r EXCEPT !.state = state] \in Rows
         /\ [r EXCEPT !.state = state, !.conn = s] \in Rows
         /\ [r EXCEPT !.state = state, !.by = s] \in Rows
BY Zenon DEF Rows

(* Whatever statement is executed leaves a row of the table. *)
LEMMA RowTypes ==
  ASSUME TypeOK
  PROVE  /\ Swept \in Rows
         /\ \A statement \in Statements, s \in Sessions : After(statement, s) \in Rows
<1>0. row \in Rows
  BY Zenon DEF TypeOK
<1>1. Swept \in Rows
  BY Zenon, <1>0, RowChange DEF Swept, States, Terminal
<1>2. ASSUME NEW statement \in Statements, NEW s \in Sessions
      PROVE  After(statement, s) \in Rows
  <2>1. /\ [row EXCEPT !.state = "reserved", !.conn = s] \in Rows
        /\ [row EXCEPT !.state = "claimed"] \in Rows
        /\ [row EXCEPT !.state = "pending", !.conn = None] \in Rows
    BY Zenon, <1>0, RowChange DEF States, Terminal
  <2>2. statement \in {"success", "handler_error"} => [row EXCEPT !.state = statement, !.by = s] \in Rows
    BY Zenon, <1>0, RowChange DEF States, Terminal
  <2> QED BY Zenon, <1>1, <2>1, <2>2 DEF After, Statements
<1> QED BY Zenon, <1>1, <1>2

CallPcs == {"find", "get", "create", "watch", "publish", "reply", "read", "wait", "done"}
Answers == States \cup {"not_found", "unavailable_now", "canceled"}

LEMMA CallChange ==
  ASSUME NEW k \in CallStates, NEW pc \in CallPcs
  PROVE  /\ [k EXCEPT !.pc = pc] \in CallStates
         /\ \A answer \in Answers : [k EXCEPT !.pc = pc, !.answer = answer] \in CallStates
         /\ \A answer \in Answers, replay \in BOOLEAN :
              [k EXCEPT !.pc = pc, !.answer = answer, !.replay = replay] \in CallStates
         /\ \A until \in {"claim", "deadline"}, replay \in BOOLEAN :
              [k EXCEPT !.pc = pc, !.replay = replay, !.until = until] \in CallStates
         /\ \A m \in 0..ClaimTimeout, n \in TimeLeft :
              [k EXCEPT !.pc = pc, !.claimIn = m, !.deadlineIn = n] \in CallStates
         /\ \A accepted \in BOOLEAN : [k EXCEPT !.accepted = accepted] \in CallStates
<1>1. [k EXCEPT !.pc = pc] \in CallStates
  BY DEF CallStates, CallPcs
<1>2. ASSUME NEW answer \in Answers
      PROVE  [k EXCEPT !.pc = pc, !.answer = answer] \in CallStates
  BY DEF CallStates, CallPcs, Answers
<1>3. ASSUME NEW answer \in Answers, NEW replay \in BOOLEAN
      PROVE  [k EXCEPT !.pc = pc, !.answer = answer, !.replay = replay] \in CallStates
  BY DEF CallStates, CallPcs, Answers
<1>4. ASSUME NEW until \in {"claim", "deadline"}, NEW replay \in BOOLEAN
      PROVE  [k EXCEPT !.pc = pc, !.replay = replay, !.until = until] \in CallStates
  BY DEF CallStates, CallPcs
<1>5. ASSUME NEW m \in 0..ClaimTimeout, NEW n \in TimeLeft
      PROVE  [k EXCEPT !.pc = pc, !.claimIn = m, !.deadlineIn = n] \in CallStates
  BY DEF CallStates, CallPcs
<1>6. ASSUME NEW accepted \in BOOLEAN
      PROVE  [k EXCEPT !.accepted = accepted] \in CallStates
  BY DEF CallStates
<1> QED BY Zenon, <1>1, <1>2, <1>3, <1>4, <1>5, <1>6

LEMMA GotoTypes ==
  ASSUME TypeOK, NEW c \in Calls, NEW pc \in CallPcs
  PROVE  /\ Goto(c, pc) => call' \in [Calls -> CallStates]
         /\ \A answer \in Answers : Answer(c, answer) => call' \in [Calls -> CallStates]
<1>1. call \in [Calls -> CallStates] /\ call[c] \in CallStates /\ "done" \in CallPcs
  BY Zenon DEF TypeOK, CallPcs
<1>2. Goto(c, pc) => call' \in [Calls -> CallStates]
  BY Zenon, <1>1, CallChange DEF Goto
<1>3. ASSUME NEW answer \in Answers, Answer(c, answer)
      PROVE  call' \in [Calls -> CallStates]
  <2>1. [call[c] EXCEPT !.pc = "done", !.answer = answer] \in CallStates
    BY Zenon, <1>1, CallChange
  <2>2. call' = [call EXCEPT ![c] = [call[c] EXCEPT !.pc = "done", !.answer = answer]]
    BY Zenon, <1>1, <1>3 DEF Answer
  <2> QED BY Zenon, <1>1, <2>1, <2>2
<1> QED BY Zenon, <1>2, <1>3

LEMMA ReadTypes ==
  ASSUME TypeOK, NEW c \in Calls, NEW pc \in CallPcs, NEW replay \in BOOLEAN, ReadBy(c, pc, replay)
  PROVE  row' \in Rows /\ call' \in [Calls -> CallStates]
<1> DEFINE r == Swept
           settled == [call[c] EXCEPT !.pc = "done", !.answer = r.state, !.replay = replay]
           open == [call[c] EXCEPT !.pc = pc, !.replay = replay,
                                   !.until = IF r.state = "claimed" THEN "deadline" ELSE "claim"]
<1>0. call \in [Calls -> CallStates] /\ call[c] \in CallStates /\ "done" \in CallPcs
  BY Zenon DEF TypeOK, CallPcs
<1>1. r \in Rows
  BY Zenon, RowTypes
<1>2. r.state \in States
  BY Zenon, <1>1 DEF Rows
<1>3. settled \in CallStates
  <2>1. r.state \in Answers
    BY Zenon, <1>2 DEF Answers
  <2> HIDE DEF r
  <2> QED BY Zenon, <1>0, <2>1, CallChange
<1>4. open \in CallStates
  <2> DEFINE until == IF r.state = "claimed" THEN "deadline" ELSE "claim"
  <2>1. until \in {"claim", "deadline"}
    BY Zenon
  <2> HIDE DEF r, until
  <2>2. [call[c] EXCEPT !.pc = pc, !.replay = replay, !.until = until] \in CallStates
    BY Zenon, <1>0, <2>1, CallChange
  <2> QED BY Zenon, <2>2 DEF until
<1>5. row' = r /\ call' = [call EXCEPT ![c] = IF r.state \in Terminal THEN settled ELSE open]
  BY Zenon DEF ReadBy
<1> HIDE DEF r, settled, open
<1> QED BY Zenon, <1>0, <1>1, <1>3, <1>4, <1>5

LEMMA CallTypes ==
  ASSUME TypeOK, NEW c \in Calls, InvokeStep(c) \/ TakeReply(c) \/ Cancel(c)
  PROVE  TypeOK'
<1>0. /\ call \in [Calls -> CallStates] /\ call[c] \in CallStates /\ hint \in [Calls -> BOOLEAN]
      /\ call[c].replay \in BOOLEAN /\ call[c].accepted \in BOOLEAN
      /\ call[c].claimIn \in 0..ClaimTimeout /\ call[c].deadlineIn \in TimeLeft
      /\ row \in Rows /\ requests \in [Gateways -> Nat] /\ replies \in SUBSET BOOLEAN
  BY Zenon DEF TypeOK, CallStates
<1>1. /\ {"find", "get", "create", "watch", "publish", "reply", "read", "wait", "done"} \subseteq CallPcs
      /\ {"not_found", "unavailable_now", "canceled"} \subseteq Answers
  BY Zenon DEF CallPcs, Answers
<1>2. CASE FindInvocation(c)
  BY Zenon, <1>0, <1>1, <1>2, ReadTypes, GotoTypes DEF FindInvocation, UnchangedByCall, TypeOK
<1>3. CASE GetFunction(c)
  <2>1. function.timeout \in TimeLeft
    <3>1. function.timeout \in Timeouts /\ function.timeout \in Nat
      BY Zenon, TimeAssumption DEF TypeOK, Functions
    <3>2. function.timeout \in 0..function.timeout
      BY <3>1
    <3> QED BY Zenon, <3>1, <3>2 DEF TimeLeft
  <2>2. ClaimTimeout \in 0..ClaimTimeout
    BY TimeAssumption
  <2>3. [call[c] EXCEPT !.pc = "create", !.claimIn = ClaimTimeout, !.deadlineIn = function.timeout]
          \in CallStates
    BY <1>0, <1>1, <2>1, <2>2, CallChange
  <2>4. CASE function.exists /\ function.enabled
    BY Zenon, <1>0, <1>3, <2>3, <2>4 DEF GetFunction, UnchangedByCall, TypeOK
  <2>5. CASE ~(function.exists /\ function.enabled)
    BY Zenon, <1>0, <1>1, <1>3, <2>5, GotoTypes DEF GetFunction, UnchangedByCall, TypeOK
  <2> QED BY Zenon, <2>4, <2>5
<1>4. CASE CreateInvocation(c)
  <2>1. [state |-> "pending", conn |-> None, claimIn |-> call[c].claimIn,
         deadlineIn |-> call[c].deadlineIn, by |-> None] \in Rows
    BY Zenon, <1>0 DEF Rows, States
  <2> QED BY Zenon, <1>0, <1>1, <1>4, <2>1, ReadTypes, GotoTypes DEF CreateInvocation, UnchangedByCall, TypeOK
<1>5. CASE WatchInvocation(c)
  BY Zenon, <1>0, <1>1, <1>5, GotoTypes DEF WatchInvocation, UnchangedByCall, TypeOK
<1>6. CASE PublishInvocation(c)
  BY <1>0, <1>1, <1>6, GotoTypes DEF PublishInvocation, UnchangedByCall, TypeOK
<1>7. CASE StopWaiting(c)
  BY Zenon, <1>0, <1>1, <1>7, GotoTypes DEF StopWaiting, UnchangedByCall, TypeOK
<1>8. CASE ReadInvocation(c)
  BY <1>0, <1>1, <1>8, ReadTypes DEF ReadInvocation, UnchangedByCall, TypeOK
<1>9. CASE Wake(c)
  BY Zenon, <1>0, <1>1, <1>9, GotoTypes DEF Wake, UnchangedByCall, TypeOK
<1>10. CASE TakeReply(c)
  <2>1. PICK accepted \in replies :
          /\ replies' = replies \ {accepted}
          /\ call' = [call EXCEPT ![c].accepted = @ \/ accepted]
    BY Zenon, <1>10 DEF TakeReply
  <2>2. [call[c] EXCEPT !.accepted = call[c].accepted \/ accepted] \in CallStates
    BY Zenon, <1>0, <1>1, CallChange
  <2>3. call' \in [Calls -> CallStates]
    BY Zenon, <1>0, <2>1, <2>2
  <2> QED BY Zenon, <1>0, <1>10, <2>1, <2>3 DEF TakeReply, UnchangedByCall, TypeOK
<1>11. CASE Cancel(c)
  BY Zenon, <1>0, <1>1, <1>11, GotoTypes DEF Cancel, UnchangedByCall, TypeOK
<1> QED BY Zenon, <1>2, <1>3, <1>4, <1>5, <1>6, <1>7, <1>8, <1>9, <1>10, <1>11 DEF InvokeStep

LEMMA HandlerChange ==
  ASSUME TypeOK, NEW g \in Gateways
  PROVE  /\ handler[g] \in Handlers /\ handler[g].todo \in SUBSET Sessions
         /\ handler[g].pc \in {"held", "send", "release"} => handler[g].at \in Sessions \cup {None}
         /\ \A pc \in {"idle", "next", "held", "send", "release"}, todo \in SUBSET Sessions,
               at \in Sessions \cup {None} :
              /\ [handler EXCEPT ![g].pc = pc] \in [Gateways -> Handlers]
              /\ [handler EXCEPT ![g].todo = todo] \in [Gateways -> Handlers]
              /\ [handler EXCEPT ![g].pc = pc, ![g].at = at] \in [Gateways -> Handlers]
              /\ [handler EXCEPT ![g] = [pc |-> pc, todo |-> todo, at |-> at]] \in [Gateways -> Handlers]
<1>1. handler \in [Gateways -> Handlers] /\ handler[g] \in Handlers
  BY Zenon DEF TypeOK
<1>2. ASSUME NEW pc \in {"idle", "next", "held", "send", "release"}, NEW todo \in SUBSET Sessions,
             NEW at \in Sessions \cup {None}
      PROVE  /\ [handler[g] EXCEPT !.pc = pc] \in Handlers
             /\ [handler[g] EXCEPT !.todo = todo] \in Handlers
             /\ [handler[g] EXCEPT !.pc = pc, !.at = at] \in Handlers
             /\ [pc |-> pc, todo |-> todo, at |-> at] \in Handlers
  BY Zenon, <1>1 DEF Handlers
<1>3. handler[g].todo \in SUBSET Sessions /\ handler[g].at \in Sessions \cup {None}
  BY Zenon, <1>1 DEF Handlers
<1> QED BY <1>1, <1>2, <1>3

LEMMA GatewayTypes ==
  ASSUME TypeOK, InvocationInv, NEW g \in Gateways, GatewayStep(g)
  PROVE  TypeOK'
<1>0. /\ row \in Rows /\ requests \in [Gateways -> Nat] /\ replies \in SUBSET BOOLEAN
      /\ handler \in [Gateways -> Handlers] /\ session \in [Sessions -> {"new", "open", "closed"}]
      /\ frame \in [Sessions -> {"none", "queued", "received"}] /\ sends \in [Sessions -> Nat]
      /\ late \in SUBSET (Statements \X Sessions)
  BY Zenon DEF TypeOK
<1>1. handler[g].pc \in {"held", "send", "release"} => handler[g].at \in Sessions
  BY Zenon DEF InvocationInv, Shape
<1>2. {"claim", "acknowledge", "release"} \subseteq Statements /\ None \in Sessions \cup {None}
  BY Zenon DEF Statements
<1>3. ASSUME NEW statement \in Statements, NEW s \in Sessions, Unanswered(statement, s)
      PROVE  late' \in SUBSET (Statements \X Sessions)
  BY <1>0, <1>3 DEF Unanswered
<1>4. \A accepted \in BOOLEAN : Reply(accepted) => replies' \in SUBSET BOOLEAN
  BY Zenon, <1>0 DEF Reply
<1>5. [handler EXCEPT ![g] = IdleHandler] \in [Gateways -> Handlers]
  BY Zenon, HandlerChange, <1>2 DEF IdleHandler
<1>6. CASE HandleInvocation(g)
  <2>1. handler' \in [Gateways -> Handlers]
    <3>1. Open(g) \in SUBSET Sessions
      BY Zenon DEF Open
    <3> QED BY Zenon, <1>2, <1>6, <3>1, HandlerChange DEF HandleInvocation
  <2>2. requests[g] - 1 \in Nat
    BY <1>0, <1>6 DEF HandleInvocation
  <2>3. requests' \in [Gateways -> Nat]
    BY Zenon, <1>0, <1>6, <2>2 DEF HandleInvocation
  <2> QED BY Zenon, <1>6, <2>1, <2>3, RowTypes DEF HandleInvocation, UnchangedByGateway, TypeOK
<1>7. CASE ClaimInvocation(g)
  <2>1. PICK s \in handler[g].todo :
          LET next == [handler EXCEPT ![g].todo = @ \ {s}]
              held == [next EXCEPT ![g].pc = "held", ![g].at = s] IN
            \/ session[s] = "closed" /\ handler' = next /\ UNCHANGED <<row, late, faults>>
            \/ /\ session[s] = "open" /\ row' = After("claim", s) /\ UNCHANGED <<late, faults>>
               /\ handler' = IF MayClaim(s) THEN held ELSE next
            \/ /\ session[s] = "open" /\ Unanswered("claim", s)
               /\ handler' = next /\ UNCHANGED row
    BY Zenon, <1>7 DEF ClaimInvocation
  <2>2. s \in Sessions /\ handler[g].todo \ {s} \in SUBSET Sessions
    BY Zenon, <2>1, HandlerChange
  <2> DEFINE next == [handler EXCEPT ![g].todo = handler[g].todo \ {s}]
             held == [next EXCEPT ![g].pc = "held", ![g].at = s]
  <2>3. next \in [Gateways -> Handlers]
    BY Zenon, <2>2, HandlerChange
  <2>4. held \in [Gateways -> Handlers]
    <3> HIDE DEF next
    <3>1. [next[g] EXCEPT !.pc = "held", !.at = s] \in Handlers
      BY Zenon, <2>2, <2>3 DEF Handlers
    <3> QED BY Zenon, <2>3, <3>1
  <2>5. handler' \in {next, held}
    BY Zenon, <2>1
  <2> HIDE DEF next, held
  <2>6. handler' \in [Gateways -> Handlers]
    BY Zenon, <2>3, <2>4, <2>5
  <2>7. row' \in Rows /\ late' \in SUBSET (Statements \X Sessions)
    BY <1>0, <1>2, <1>3, <2>1, <2>2, RowTypes
  <2> QED BY Zenon, <1>7, <2>6, <2>7 DEF ClaimInvocation, UnchangedByGateway, TypeOK
<1>8. CASE AcknowledgeInvocation(g)
  <2> DEFINE s == handler[g].at
  <2>1. s \in Sessions
    BY Zenon, <1>1, <1>8 DEF AcknowledgeInvocation
  <2>2. \/ handler' = [handler EXCEPT ![g].pc = "send"]
        \/ handler' = [handler EXCEPT ![g].pc = "release"]
    BY Zenon, <1>8 DEF AcknowledgeInvocation
  <2>3. handler' \in [Gateways -> Handlers]
    <3>1. /\ [handler EXCEPT ![g].pc = "send"] \in [Gateways -> Handlers]
          /\ [handler EXCEPT ![g].pc = "release"] \in [Gateways -> Handlers]
      BY Zenon, <1>2, HandlerChange
    <3> QED BY Zenon, <2>2, <3>1
  <2>4. \/ row' = row /\ late' = late
        \/ row' = After("acknowledge", s) /\ late' = late
        \/ row' = row /\ Unanswered("acknowledge", s)
    BY Zenon, <1>8 DEF AcknowledgeInvocation
  <2> HIDE DEF s
  <2>5. row' \in Rows /\ late' \in SUBSET (Statements \X Sessions)
    BY <1>0, <1>2, <1>3, <2>1, <2>4, RowTypes
  <2> QED BY Zenon, <1>8, <2>3, <2>5 DEF AcknowledgeInvocation, UnchangedByGateway, TypeOK
<1>9. CASE SendFrame(g)
  <2>1. [handler EXCEPT ![g].pc = "release"] \in [Gateways -> Handlers]
    BY Zenon, <1>2, HandlerChange
  <2>2. handler' \in [Gateways -> Handlers] /\ replies' \in SUBSET BOOLEAN
    BY Zenon, <1>0, <1>4, <1>5, <1>9, <2>1 DEF SendFrame
  <2>3. /\ session' \in [Sessions -> {"new", "open", "closed"}]
        /\ frame' \in [Sessions -> {"none", "queued", "received"}] /\ sends' \in [Sessions -> Nat]
    <3>1. \/ /\ frame' = [frame EXCEPT ![handler[g].at] = "queued"]
             /\ sends' = [sends EXCEPT ![handler[g].at] = @ + 1] /\ session' = session
          \/ /\ session' = [session EXCEPT ![handler[g].at] = "closed"]
             /\ frame' = frame /\ sends' = sends
      BY Zenon, <1>9 DEF SendFrame
    <3>2. sends[handler[g].at] + 1 \in Nat
      BY <1>0, <1>1, <1>9 DEF SendFrame
    <3> QED BY Zenon, <1>0, <3>1, <3>2
  <2> QED BY Zenon, <1>9, <2>2, <2>3 DEF SendFrame, UnchangedByGateway, TypeOK
<1>10. CASE ReleaseInvocation(g)
  <2> DEFINE s == handler[g].at
  <2>1. s \in Sessions
    BY Zenon, <1>1, <1>10 DEF ReleaseInvocation
  <2>2. handler' \in [Gateways -> Handlers]
    BY <1>2, <1>10, HandlerChange DEF ReleaseInvocation, AfterRelease
  <2>3. \/ row' = After("release", s) /\ late' = late
        \/ row' = row /\ Unanswered("release", s)
    BY Zenon, <1>10 DEF ReleaseInvocation
  <2> HIDE DEF s
  <2>4. row' \in Rows /\ late' \in SUBSET (Statements \X Sessions)
    BY <1>0, <1>2, <1>3, <2>1, <2>3, RowTypes
  <2> QED BY Zenon, <1>10, <2>2, <2>4 DEF ReleaseInvocation, UnchangedByGateway, TypeOK
<1>11. CASE RefuseInvocation(g)
  BY Zenon, <1>4, <1>5, <1>11 DEF RefuseInvocation, UnchangedByGateway, TypeOK
<1> QED BY Zenon, <1>6, <1>7, <1>8, <1>9, <1>10, <1>11 DEF GatewayStep

LEMMA SessionTypes ==
  ASSUME TypeOK, NEW s \in Sessions, SessionStep(s)
  PROVE  TypeOK'
<1>0. /\ row \in Rows /\ hint \in [Calls -> BOOLEAN] /\ late \in SUBSET (Statements \X Sessions)
      /\ session \in [Sessions -> {"new", "open", "closed"}]
      /\ frame \in [Sessions -> {"none", "queued", "received"}]
  BY Zenon DEF TypeOK
<1>1. CASE OpenSession(s) \/ CloseSession(s)
  <2>1. session' \in [Sessions -> {"new", "open", "closed"}]
    BY Zenon, <1>0, <1>1 DEF OpenSession, CloseSession
  <2> QED BY Zenon, <1>1, <2>1 DEF OpenSession, CloseSession, UnchangedBySession, TypeOK
<1>2. CASE WriteFrame(s)
  <2>1. frame' \in [Sessions -> {"none", "queued", "received"}]
    BY Zenon, <1>0, <1>2 DEF WriteFrame
  <2> QED BY Zenon, <1>2, <2>1 DEF WriteFrame, UnchangedBySession, TypeOK
<1>3. CASE HandleResult(s)
  <2>1. PICK result \in {"success", "handler_error"} :
          \/ /\ row' = After(result, s) /\ UNCHANGED <<late, faults>>
             /\ \E woken \in SUBSET {c \in Calls : MayComplete(s) /\ Watching(c)} :
                  hint' = [c \in Calls |-> hint[c] \/ c \in woken]
          \/ Unanswered(result, s) /\ UNCHANGED <<row, hint>>
    BY Zenon, <1>3 DEF HandleResult
  <2>2. result \in Statements
    BY Zenon DEF Statements
  <2>3. row' \in Rows /\ hint' \in [Calls -> BOOLEAN] /\ late' \in SUBSET (Statements \X Sessions)
    <3>1. CASE /\ row' = After(result, s) /\ late' = late
               /\ \E woken \in SUBSET {c \in Calls : MayComplete(s) /\ Watching(c)} :
                    hint' = [c \in Calls |-> hint[c] \/ c \in woken]
      <4>1. row' \in Rows
        BY Zenon, <2>2, <3>1, RowTypes
      <4>2. hint' \in [Calls -> BOOLEAN]
        BY Zenon, <3>1
      <4> QED BY Zenon, <1>0, <3>1, <4>1, <4>2
    <3>2. CASE Unanswered(result, s) /\ UNCHANGED <<row, hint>>
      BY <1>0, <2>2, <3>2 DEF Unanswered
    <3> QED BY Zenon, <2>1, <3>1, <3>2
  <2> QED BY Zenon, <1>3, <2>3 DEF HandleResult, UnchangedBySession, TypeOK
<1> QED BY Zenon, <1>1, <1>2, <1>3 DEF SessionStep

LEMMA CatalogueTypes ==
  ASSUME TypeOK, CatalogueStep
  PROVE  TypeOK'
<1>0. /\ function \in Functions /\ editor \in SUBSET Functions
      /\ \A e \in Functions : e.enabled \in BOOLEAN /\ e.timeout \in Timeouts
  BY Zenon DEF TypeOK, Functions
<1>1. ASSUME NEW enabled \in BOOLEAN, NEW t \in Timeouts
      PROVE  /\ [function EXCEPT !.enabled = enabled] \in Functions
             /\ [function EXCEPT !.timeout = t] \in Functions
             /\ [function EXCEPT !.enabled = enabled, !.timeout = t] \in Functions
             /\ [function EXCEPT !.exists = enabled] \in Functions
             /\ [function EXCEPT !.owner = ~function.owner] \in Functions
  BY Zenon, <1>0 DEF Functions
<1>2. CASE ReadFunction
  <2>1. editor' \in SUBSET Functions
    BY Zenon, <1>1, <1>2 DEF ReadFunction
  <2> QED BY Zenon, <1>2, <2>1 DEF ReadFunction, TypeOK
<1>3. CASE UpdateFunction
  <2>1. PICK e \in editor : function' = IF function.exists
          THEN [function EXCEPT !.enabled = e.enabled, !.timeout = e.timeout] ELSE function
    BY Zenon, <1>3 DEF UpdateFunction
  <2>2. e.enabled \in BOOLEAN /\ e.timeout \in Timeouts
    BY Zenon, <1>0
  <2>3. function' \in Functions
    BY Zenon, <1>0, <1>1, <2>1, <2>2
  <2> QED BY Zenon, <1>3, <2>3 DEF UpdateFunction, TypeOK
<1>4. CASE DeleteFunction
  <2>1. function' \in Functions
    BY Zenon, <1>0, <1>4 DEF DeleteFunction, Functions
  <2> QED BY Zenon, <1>4, <2>1 DEF DeleteFunction, TypeOK
<1>5. CASE SwitchOwner
  <2>1. function' \in Functions
    BY Zenon, <1>0, <1>5 DEF SwitchOwner, Functions
  <2> QED BY Zenon, <1>5, <2>1 DEF SwitchOwner, TypeOK
<1> QED BY Zenon, <1>2, <1>3, <1>4, <1>5 DEF CatalogueStep

LEMMA DownTypes ==
  /\ \A n \in 0..ClaimTimeout : Down(n) \in 0..ClaimTimeout
  /\ \A n \in TimeLeft : Down(n) \in TimeLeft
<1>1. \A n \in 0..ClaimTimeout : Down(n) \in 0..ClaimTimeout
  BY TimeAssumption DEF Down
<1>2. ASSUME NEW n \in TimeLeft
      PROVE  Down(n) \in TimeLeft
  <2>1. CASE n = 0
    BY <2>1 DEF Down, TimeLeft
  <2>2. CASE n # 0
    <3>1. PICK t \in Timeouts : n \in 0..t
      BY Zenon, <2>2 DEF TimeLeft
    <3>2. Down(n) \in 0..t
      BY <3>1, TimeAssumption DEF Down
    <3> QED BY Zenon, <3>2 DEF TimeLeft
  <2> QED BY Zenon, <2>1, <2>2
<1> QED BY Zenon, <1>1, <1>2

LEMMA TickTypes ==
  ASSUME TypeOK, Tick
  PROVE  TypeOK'
<1>0. row \in Rows /\ call \in [Calls -> CallStates]
  BY Zenon DEF TypeOK
<1>1. row' \in Rows
  <2>1. row.claimIn \in 0..ClaimTimeout /\ row.deadlineIn \in TimeLeft
    BY Zenon, <1>0 DEF Rows
  <2>2. Down(row.claimIn) \in 0..ClaimTimeout /\ Down(row.deadlineIn) \in TimeLeft
    BY Zenon, <2>1, DownTypes
  <2>3. row' = [row EXCEPT !.claimIn = Down(row.claimIn), !.deadlineIn = Down(row.deadlineIn)]
    BY Zenon DEF Tick
  <2> QED BY Zenon, <1>0, <2>2, <2>3 DEF Rows
<1>2. ASSUME NEW c \in Calls
      PROVE  [call[c] EXCEPT !.claimIn = Down(@), !.deadlineIn = Down(@)] \in CallStates
  <2>1. call[c] \in CallStates
    BY Zenon, <1>0
  <2>2. call[c].claimIn \in 0..ClaimTimeout /\ call[c].deadlineIn \in TimeLeft
    BY Zenon, <2>1 DEF CallStates
  <2>3. Down(call[c].claimIn) \in 0..ClaimTimeout /\ Down(call[c].deadlineIn) \in TimeLeft
    BY Zenon, <2>2, DownTypes
  <2> QED BY Zenon, <2>1, <2>3 DEF CallStates
<1>3. call' \in [Calls -> CallStates]
  BY Zenon, <1>0, <1>2 DEF Tick
<1> QED BY Zenon, <1>1, <1>3 DEF Tick, TypeOK

LEMMA TypesInit ==
  ASSUME Init
  PROVE  TypeOK
<1>1. NoRow \in Rows
  BY TimeAssumption DEF NoRow, Rows, States, TimeLeft
<1>2. IdleCall \in CallStates
  BY TimeAssumption DEF IdleCall, CallStates, States, TimeLeft
<1>3. IdleHandler \in Handlers
  BY Zenon DEF IdleHandler, Handlers
<1>4. function \in Functions
  BY Zenon DEF Init, Functions
<1> QED BY Zenon, <1>1, <1>2, <1>3, <1>4 DEF Init, TypeOK

LEMMA TypesStep ==
  ASSUME TypeOK, InvocationInv, [Next]_vars
  PROVE  TypeOK'
<1>1. CASE UNCHANGED vars
  BY Zenon, <1>1 DEF vars, TypeOK
<1>2. CASE ExecuteLate
  <2>1. PICK l \in late : row' = After(l[1], l[2]) /\ late' = late \ {l}
    BY Zenon, <1>2 DEF ExecuteLate
  <2>2. l[1] \in Statements /\ l[2] \in Sessions
    BY Zenon DEF TypeOK
  <2>3. row' \in Rows
    BY Zenon, <2>1, <2>2, RowTypes
  <2> QED BY Zenon, <1>2, <2>1, <2>3 DEF ExecuteLate, TypeOK
<1>3. CASE \E c \in Calls : InvokeStep(c) \/ TakeReply(c) \/ Cancel(c)
  BY Zenon, <1>3, CallTypes
<1>4. CASE \E g \in Gateways : GatewayStep(g)
  BY Zenon, <1>4, GatewayTypes
<1>5. CASE \E s \in Sessions : SessionStep(s)
  BY Zenon, <1>5, SessionTypes
<1> QED BY <1>1, <1>2, <1>3, <1>4, <1>5, CatalogueTypes, TickTypes, Zenon DEF Next

(* However often a call is dispatched, and however late claims,            *)
(* acknowledgements and releases take effect, one session at most is sent  *)
(* the call, once, and none is if the call is unavailable.                 *)
THEOREM CallIsSentOnce == Spec => []SentAtMostOnce
<1>1. InvocationInv => SentOnce
  <2> SUFFICES ASSUME InvocationInv, NEW s \in Sessions, NEW t \in Sessions
               PROVE  sends[s] <= 1 /\ (sends[s] > 0 /\ sends[t] > 0 => s = t)
    BY Zenon DEF SentOnce
  <2>1. sends[s] \in Nat /\ sends[t] \in Nat
    BY Zenon DEF InvocationInv, Shape
  <2> QED BY <2>1 DEF InvocationInv, Sent
<1>2. InvocationInv => UnavailableMeansUnsent
  <2> SUFFICES ASSUME InvocationInv, NEW s \in Sessions, row.state = "unavailable"
               PROVE  /\ sends[s] = 0
                      /\ \A g \in Gateways : handler[g].pc # "send"
    BY Zenon DEF UnavailableMeansUnsent
  <2>1. sends[s] \in Nat /\ ~(sends[s] > 0)
    BY Zenon DEF InvocationInv, Shape, Sent
  <2>2. \A g \in Gateways : handler[g].pc # "send"
    BY Zenon DEF InvocationInv, AboutToSend
  <2> QED BY <2>1, <2>2
<1>3. Init => TypeOK
  BY Zenon, TypesInit
<1>4. TypeOK /\ InvocationInv /\ [Next]_vars => TypeOK'
  BY Zenon, TypesStep
<1> QED BY <1>1, <1>2, <1>3, <1>4, InvocationInvariant, PTL DEF Spec, SentAtMostOnce

(* All calls with the key get the outcome that is stored, and a result is  *)
(* that of the session that was sent the call.                             *)
THEOREM CallsAgreeOnOutcome == Spec => []OneOutcome
<1>1. InvocationInv => OneOutcome
  <2> SUFFICES ASSUME InvocationInv
               PROVE  OneOutcome
    BY Zenon
  <2>1. ASSUME row.state \in {"success", "handler_error"}
        PROVE  row.by # None /\ sends[row.by] = 1
    <3>1. row.by \in Sessions /\ sends[row.by] > 0
      BY Zenon, <2>1 DEF InvocationInv, Outcomes
    <3> QED BY Zenon, <3>1, HomeAssumption DEF InvocationInv, Sent
  <2> QED BY Zenon, <2>1 DEF InvocationInv, Outcomes, OneOutcome
<1> QED BY <1>1, InvocationInvariant, PTL

-----------------------------------------------------------------------------
(* SessionClose *)

CONSTANTS Bridged, Subscribers
VARIABLES registered, closed, members, handling, route, done, once, stack, wire

C == INSTANCE SessionClose WITH Handlers <- Subscribers

(* What the proofs assume of the constants: the hub and the bridge are not *)
(* sessions.                                                               *)
ThreadsDiffer == "hub" \notin Sessions /\ "bridge" \notin Sessions /\ None \notin Sessions

Outermost == {"loop", "close", "send"}
Inner == {"remove", "leave", "send", "finish"}
Frames ==
  [session : Sessions \cup {None}, pc : Outermost \cup Inner, targets : SUBSET Sessions,
   closing : Sessions \cup {None}]

(* The outermost call of a thread is a loop; every other is a Close that   *)
(* the call outside it waits for.                                          *)
Chained ==
  \A t \in C!Threads : \A i \in 1..Len(stack[t]) :
    IF i = Len(stack[t]) THEN stack[t][i].session = None /\ stack[t][i].pc \in Outermost
    ELSE /\ stack[t][i].session \in Sessions /\ stack[t][i].pc \in Inner
         /\ stack[t][i + 1].closing = stack[t][i].session

(* A Close that runs holds its Once; past its first step the session has   *)
(* left the hub.                                                           *)
RunsOnce ==
  \A t \in C!Threads : \A i \in 1..Len(stack[t]) :
    stack[t][i].session # None =>
      /\ once[stack[t][i].session] = "running"
      /\ stack[t][i].pc # "remove" => stack[t][i].session \notin registered

(* No two calls close one session. *)
OneRunner ==
  \A t, u \in C!Threads : \A i \in 1..Len(stack[t]), j \in 1..Len(stack[u]) :
    stack[t][i].session # None /\ stack[t][i].session = stack[u][j].session => t = u /\ i = j

StacksHold == stack \in [C!Threads -> Seq(Frames)] /\ Chained /\ RunsOnce /\ OneRunner

OnceTells ==
  /\ once \in [Sessions -> {"new", "running", "done"}] /\ done \subseteq Sessions
  /\ registered \subseteq Sessions
  /\ \A s \in Sessions : /\ s \in done <=> once[s] # "new"
                         /\ once[s] = "done" => s \notin registered

(* Close of the hub still has to close who is registered. *)
HubCloses ==
  LET n == Len(stack["hub"]) IN
  /\ ~closed => stack["hub"] = <<>>
  /\ closed /\ stack["hub"] = <<>> => registered = {}
  /\ stack["hub"] # <<>> =>
       /\ stack["hub"][n].pc = "close"
       /\ registered \subseteq stack["hub"][n].targets \cup {stack["hub"][n].closing}

RoutesHold == handling \subseteq registered /\ C!RouteFollowsHandlers

CloseInv == StacksHold /\ OnceTells /\ HubCloses /\ RoutesHold /\ C!NoCircularWait

-----------------------------------------------------------------------------
(* The three ways in which a stack changes. *)
LEMMA SeqTop ==
  ASSUME NEW S, NEW q \in Seq(S), q # <<>>, NEW x \in S
  PROVE  LET p == <<x>> \o Tail(q) IN
         /\ p \in Seq(S) /\ Len(p) = Len(q) /\ Len(q) > 0 /\ p[1] = x /\ Head(q) = q[1]
         /\ \A i \in 2..Len(q) : p[i] = q[i]
OBVIOUS

LEMMA SeqPush ==
  ASSUME NEW S, NEW q \in Seq(S), NEW x \in S
  PROVE  LET p == <<x>> \o q IN
         /\ p \in Seq(S) /\ Len(p) = Len(q) + 1 /\ p[1] = x
         /\ \A i \in 1..Len(q) : p[i + 1] = q[i]
         /\ \A i \in 2..Len(p) : p[i] = q[i - 1]
OBVIOUS

Popped(q, x) == <<x>> \o Tail(Tail(q))

LEMMA SeqPop ==
  ASSUME NEW q \in Seq(Frames), NEW x \in Frames, Len(q) > 1
  PROVE  LET p == Popped(q, x) IN
         /\ p \in Seq(Frames) /\ Len(p) = Len(q) - 1 /\ p[1] = x /\ Head(Tail(q)) = q[2]
         /\ \A i \in 2..Len(p) : p[i] = q[i + 1]
<1> DEFINE r == Tail(q)
           p == <<x>> \o Tail(r)
<1>1. r \in Seq(Frames) /\ Len(r) = Len(q) - 1 /\ \A i \in 1..Len(r) : r[i] = q[i + 1]
  OBVIOUS
<1>2. Len(q) \in Nat
  OBVIOUS
<1> HIDE DEF r
<1>3. r # <<>>
  BY <1>1, <1>2
<1>4. /\ p \in Seq(Frames) /\ Len(p) = Len(r) /\ Len(r) > 0 /\ p[1] = x /\ Head(r) = r[1]
      /\ \A i \in 2..Len(r) : p[i] = r[i]
  BY <1>1, <1>2, <1>3, SeqTop
<1> HIDE DEF p
<1>5. /\ p \in Seq(Frames) /\ Len(p) = Len(q) - 1 /\ p[1] = x /\ Head(r) = q[2]
      /\ \A i \in 2..Len(p) : p[i] = q[i + 1]
  BY <1>1, <1>2, <1>4
<1> QED BY Zenon, <1>5 DEF p, r, Popped

(* After a step of t nobody waits in a circle if t does not wait or nobody *)
(* waits for t.                                                            *)
LEMMA NoCircleArises ==
  ASSUME C!NoCircularWait, NEW t \in C!Threads,
         \A u, v \in C!Threads \ {t} : C!WaitsFor(u, v)' => C!WaitsFor(u, v),
         \/ \A v \in C!Threads : ~C!WaitsFor(t, v)'
         \/ \A v \in C!Threads : ~C!WaitsFor(v, t)'
  PROVE  C!NoCircularWait'
<1> SUFFICES ASSUME NEW circle \in (SUBSET C!Threads) \ {{}}
             PROVE  \E u \in circle : \A v \in circle : ~C!WaitsFor(u, v)'
  BY Zenon DEF C!NoCircularWait, C!Threads
<1>1. CASE t \in circle /\ \A v \in C!Threads : ~C!WaitsFor(t, v)'
  BY Zenon, <1>1
<1>2. CASE t \notin circle
  <2>1. PICK u \in circle : \A v \in circle : ~C!WaitsFor(u, v)
    BY Zenon DEF C!NoCircularWait
  <2> QED BY Zenon, <1>2, <2>1
<1>3. CASE t \in circle /\ \A v \in C!Threads : ~C!WaitsFor(v, t)'
  <2>1. CASE circle = {t}
    BY Zenon, <1>3, <2>1
  <2>2. CASE circle # {t}
    <3>1. circle \ {t} \in (SUBSET C!Threads) \ {{}}
      BY Zenon, <1>3, <2>2
    <3>2. PICK u \in circle \ {t} : \A v \in circle \ {t} : ~C!WaitsFor(u, v)
      BY Zenon, <3>1 DEF C!NoCircularWait
    <3> QED BY Zenon, <1>3, <3>2
  <2> QED BY Zenon, <2>1, <2>2
<1> QED BY Zenon, <1>1, <1>2, <1>3

(* Threads that do not move wait as before. *)
LEMMA OthersWait ==
  ASSUME NEW t \in C!Threads, \A u \in C!Threads \ {t} : stack'[u] = stack[u]
  PROVE  \A u, v \in C!Threads \ {t} : C!WaitsFor(u, v)' => C!WaitsFor(u, v)
BY Zenon DEF C!WaitsFor, C!Top

(* Who calls nothing does not wait; who runs no Close is not waited for. *)
LEMMA NoWait ==
  ASSUME StacksHold', NEW t \in C!Threads
  PROVE  /\ stack'[t] = <<>> \/ stack'[t][1].closing = None =>
              \A v \in C!Threads : ~C!WaitsFor(t, v)'
         /\ (\A i \in 1..Len(stack'[t]) : stack'[t][i].session = None) =>
              \A v \in C!Threads : ~C!WaitsFor(v, t)'
<1>1. \A u \in C!Threads : stack'[u] \in Seq(Frames)
  BY Zenon DEF StacksHold
<1>2. ASSUME NEW u \in C!Threads, stack'[u] # <<>>
      PROVE  Head(stack'[u]) = stack'[u][1]
  BY <1>1, <1>2
<1>3. ASSUME NEW u \in C!Threads
      PROVE  DOMAIN stack'[u] = 1..Len(stack'[u])
  BY <1>1, <1>3
<1> QED BY Zenon, <1>2, <1>3 DEF C!WaitsFor, C!Top

LEMMA FrameTyped ==
  ASSUME StacksHold, NEW t \in C!Threads, NEW i \in 1..Len(stack[t])
  PROVE  /\ stack[t] \in Seq(Frames) /\ Len(stack[t]) \in Nat /\ stack[t][i] \in Frames
         /\ stack[t][i].session \in Sessions \cup {None} /\ stack[t][i].closing \in Sessions \cup {None}
<1>1. stack[t] \in Seq(Frames)
  BY Zenon DEF StacksHold
<1>2. Len(stack[t]) \in Nat /\ stack[t][i] \in Frames
  BY <1>1
<1> QED BY Zenon, <1>1, <1>2 DEF Frames

LEMMA ChainAt ==
  ASSUME StacksHold, NEW t \in C!Threads, NEW i \in 1..Len(stack[t])
  PROVE  IF i = Len(stack[t]) THEN stack[t][i].session = None /\ stack[t][i].pc \in Outermost
         ELSE /\ stack[t][i].session \in Sessions /\ stack[t][i].pc \in Inner
              /\ stack[t][i + 1].closing = stack[t][i].session
BY Zenon DEF StacksHold, Chained

(* A thread replaces its innermost call. *)
LEMMA TopChanges ==
  ASSUME ThreadsDiffer, StacksHold, NEW t \in C!Threads, stack[t] # <<>>, NEW x \in Frames, C!Become(t, x),
         x.session = stack[t][1].session, UNCHANGED once, registered' \subseteq registered,
         x.pc \in IF Len(stack[t]) = 1 THEN Outermost ELSE Inner,
         x.session # None /\ x.pc # "remove" => x.session \notin registered'
  PROVE  /\ StacksHold' /\ \A u \in C!Threads \ {t} : stack'[u] = stack[u]
         /\ Len(stack'[t]) = Len(stack[t]) /\ stack'[t][1] = x /\ stack'[t] # <<>>
         /\ \A i \in 2..Len(stack[t]) : stack'[t][i] = stack[t][i]
<1> DEFINE n == Len(stack[t])
<1>1. stack[t] \in Seq(Frames) /\ n \in Nat /\ n > 0
  BY DEF StacksHold
<1>2. /\ stack' = [stack EXCEPT ![t] = <<x>> \o Tail(stack[t])]
  BY Zenon DEF C!Become
<1>3. /\ stack'[t] = <<x>> \o Tail(stack[t]) /\ \A u \in C!Threads \ {t} : stack'[u] = stack[u]
  BY Zenon, <1>2 DEF StacksHold
<1>4. /\ stack'[t] \in Seq(Frames) /\ Len(stack'[t]) = n /\ stack'[t][1] = x
      /\ \A i \in 2..n : stack'[t][i] = stack[t][i]
  BY <1>1, <1>3, SeqTop
<1>5. stack' \in [C!Threads -> Seq(Frames)]
  BY Zenon, <1>2, <1>3, <1>4 DEF StacksHold
<1> HIDE DEF n
<1>6. \A u \in C!Threads : /\ Len(stack'[u]) = Len(stack[u])
                         /\ \A i \in 1..Len(stack[u]) :
                              /\ stack'[u][i].session = stack[u][i].session
                              /\ u # t \/ i # 1 => stack'[u][i] = stack[u][i]
  BY <1>1, <1>3, <1>4 DEF n
<1>7. Chained'
  <2> SUFFICES ASSUME NEW u \in C!Threads, NEW i \in 1..Len(stack[u])
               PROVE  IF i = Len(stack[u]) THEN stack'[u][i].session = None /\ stack'[u][i].pc \in Outermost
                      ELSE /\ stack'[u][i].session \in Sessions /\ stack'[u][i].pc \in Inner
                           /\ stack'[u][i + 1].closing = stack'[u][i].session
    BY <1>6 DEF Chained
  <2>1. IF i = Len(stack[u]) THEN stack[u][i].session = None /\ stack[u][i].pc \in Outermost
        ELSE /\ stack[u][i].session \in Sessions /\ stack[u][i].pc \in Inner
             /\ stack[u][i + 1].closing = stack[u][i].session
    BY Zenon DEF StacksHold, Chained
  <2>2. stack'[u][i].session = stack[u][i].session
    BY Zenon, <1>6
  <2>3. i # Len(stack[u]) => stack'[u][i + 1] = stack[u][i + 1]
    <3>1. Len(stack[u]) \in Nat
      BY DEF StacksHold
    <3> QED BY <1>6, <3>1
  <2>4. CASE u = t /\ i = 1
    BY Zenon, <1>4, <2>1, <2>2, <2>3, <2>4 DEF n
  <2>5. CASE ~(u = t /\ i = 1)
    BY Zenon, <1>6, <2>1, <2>2, <2>3, <2>5
  <2> QED BY Zenon, <2>4, <2>5
<1>8. RunsOnce'
  <2> SUFFICES ASSUME NEW u \in C!Threads, NEW i \in 1..Len(stack[u]), stack'[u][i].session # None
               PROVE  /\ once[stack'[u][i].session] = "running"
                      /\ stack'[u][i].pc # "remove" => stack'[u][i].session \notin registered'
    BY <1>6 DEF RunsOnce
  <2>1. /\ once[stack[u][i].session] = "running"
        /\ stack[u][i].pc # "remove" => stack[u][i].session \notin registered
    BY <1>6 DEF StacksHold, RunsOnce
  <2>2. CASE u = t /\ i = 1
    BY Zenon, <1>4, <1>6, <2>1, <2>2
  <2>3. CASE ~(u = t /\ i = 1)
    BY Zenon, <1>6, <2>1, <2>3
  <2> QED BY Zenon, <2>2, <2>3
<1>9. OneRunner'
  <2> SUFFICES ASSUME NEW v \in C!Threads, NEW u \in C!Threads, NEW i \in 1..Len(stack'[v]), NEW j \in 1..Len(stack'[u]),
                      stack'[v][i].session # None /\ stack'[v][i].session = stack'[u][j].session
               PROVE  v = u /\ i = j
    BY Zenon DEF OneRunner
  <2>1. i \in 1..Len(stack[v]) /\ j \in 1..Len(stack[u])
    BY Zenon, <1>6
  <2>2. stack'[v][i].session = stack[v][i].session /\ stack'[u][j].session = stack[u][j].session
    BY Zenon, <1>6, <2>1
  <2>3. OneRunner
    BY Zenon DEF StacksHold
  <2>4. stack[v][i].session # None /\ stack[v][i].session = stack[u][j].session
    BY Zenon, <2>2
  <2>5. \A k \in 1..Len(stack[v]), m \in 1..Len(stack[u]) :
          stack[v][k].session # None /\ stack[v][k].session = stack[u][m].session => v = u /\ k = m
    BY Zenon, <2>3 DEF OneRunner
  <2> QED BY <2>1, <2>4, <2>5
<1>10. StacksHold'
  BY Zenon, <1>5, <1>7, <1>8, <1>9 DEF StacksHold
<1>11. Len(stack'[t]) = Len(stack[t]) /\ \A i \in 2..Len(stack[t]) : stack'[t][i] = stack[t][i]
  BY Zenon, <1>4 DEF n
<1>12. stack'[t] # <<>>
  BY <1>1, <1>4 DEF n
<1> QED BY Zenon, <1>3, <1>4, <1>10, <1>11, <1>12

(* A thread begins. *)
LEMMA StackBegins ==
  ASSUME ThreadsDiffer, StacksHold, NEW t \in C!Threads, stack[t] = <<>>, NEW x \in Frames,
         stack' = [stack EXCEPT ![t] = <<x>>], x.session = None, x.pc \in Outermost, UNCHANGED once,
         \A s \in registered' : s \in registered \/ once[s] # "running"
  PROVE  /\ StacksHold' /\ stack'[t] = <<x>> /\ Len(stack'[t]) = 1 /\ stack'[t][1] = x
         /\ \A u \in C!Threads \ {t} : stack'[u] = stack[u]
<1>1. /\ stack'[t] = <<x>> /\ \A u \in C!Threads \ {t} : stack'[u] = stack[u]
      /\ stack' \in [C!Threads -> Seq(Frames)]
  BY DEF StacksHold
<1>2. Len(stack'[t]) = 1 /\ stack'[t][1] = x
  BY Zenon, <1>1
<1>3. \A u \in C!Threads : \A i \in 1..Len(stack'[u]) :
        \/ u = t /\ i = 1 /\ stack'[u][i].session = None
        \/ u # t /\ stack'[u] = stack[u]
  BY <1>1, <1>2
<1>4. Chained'
  <2> SUFFICES ASSUME NEW u \in C!Threads, NEW i \in 1..Len(stack'[u])
               PROVE  IF i = Len(stack'[u]) THEN stack'[u][i].session = None /\ stack'[u][i].pc \in Outermost
                      ELSE /\ stack'[u][i].session \in Sessions /\ stack'[u][i].pc \in Inner
                           /\ stack'[u][i + 1].closing = stack'[u][i].session
    BY Zenon DEF Chained
  <2>1. CASE u = t
    BY <1>2, <2>1
  <2>2. CASE u # t
    BY <1>1, <2>2 DEF StacksHold, Chained
  <2> QED BY Zenon, <2>1, <2>2
<1>5. RunsOnce' /\ OneRunner'
  BY <1>3 DEF StacksHold, RunsOnce, OneRunner
<1> QED BY Zenon, <1>1, <1>2, <1>4, <1>5 DEF StacksHold

(* A Close begins. *)
LEMMA StackEnters ==
  ASSUME ThreadsDiffer, StacksHold, OnceTells, NEW t \in C!Threads, C!EnterClose(t)
  PROVE  /\ StacksHold' /\ \A u \in C!Threads \ {t} : stack'[u] = stack[u]
         /\ Len(stack'[t]) = Len(stack[t]) + 1 /\ stack'[t] # <<>> /\ stack'[t][1].closing = None
         /\ \A i \in 1..Len(stack[t]) : stack'[t][i + 1] = stack[t][i]
         /\ stack[t][1].closing \in Sessions /\ C!Top(t) = stack[t][1]
<1> DEFINE n == Len(stack[t])
           c == stack[t][1].closing
           x == C!Call(c, "remove", {})
<1>1. stack[t] \in Seq(Frames) /\ n \in Nat /\ n > 0 /\ stack[t][1] \in Frames /\ C!Top(t) = stack[t][1]
  BY DEF StacksHold, C!EnterClose, C!Top
<1>2. c \in Sessions /\ once[c] = "new" /\ once' = [once EXCEPT ![c] = "running"] /\ UNCHANGED registered
  BY Zenon, <1>1 DEF C!EnterClose, Frames
<1>3. x \in Frames /\ x.session = c /\ x.closing = None /\ x.pc = "remove"
  BY Zenon, <1>2 DEF C!Call, Frames, Outermost, Inner
<1>4. stack' = [stack EXCEPT ![t] = <<x>> \o stack[t]]
  BY Zenon, <1>1 DEF C!EnterClose
<1> HIDE DEF x
<1>5. stack'[t] = <<x>> \o stack[t] /\ \A u \in C!Threads \ {t} : stack'[u] = stack[u]
  BY Zenon, <1>4 DEF StacksHold
<1>6. /\ stack'[t] \in Seq(Frames) /\ Len(stack'[t]) = n + 1 /\ stack'[t][1] = x
      /\ \A i \in 1..n : stack'[t][i + 1] = stack[t][i]
      /\ \A i \in 2..(n + 1) : stack'[t][i] = stack[t][i - 1]
  BY <1>1, <1>3, <1>5, SeqPush
<1>7. stack' \in [C!Threads -> Seq(Frames)]
  BY Zenon, <1>4, <1>5, <1>6 DEF StacksHold
<1>8. \A u \in C!Threads : \A i \in 1..Len(stack[u]) : stack[u][i].session # c
  BY Zenon, <1>2, <1>2 DEF StacksHold, RunsOnce, ThreadsDiffer
<1> HIDE DEF n, c
<1>9. Chained'
  <2> SUFFICES ASSUME NEW u \in C!Threads, NEW i \in 1..Len(stack'[u])
               PROVE  IF i = Len(stack'[u]) THEN stack'[u][i].session = None /\ stack'[u][i].pc \in Outermost
                      ELSE /\ stack'[u][i].session \in Sessions /\ stack'[u][i].pc \in Inner
                           /\ stack'[u][i + 1].closing = stack'[u][i].session
    BY Zenon DEF Chained
  <2>1. CASE u # t
    BY <1>5, <2>1 DEF StacksHold, Chained
  <2>2. CASE u = t /\ i = 1
    <3>1. stack'[t][2] = stack[t][1] /\ i # Len(stack'[u])
      BY <1>1, <1>6, <2>2 DEF n
    <3> QED BY <1>2, <1>3, <1>6, <2>2, <3>1 DEF Inner, c
  <2>3. CASE u = t /\ i # 1
    <3> DEFINE j == i - 1
    <3>1. j \in 1..n /\ i = j + 1 /\ stack'[t][i] = stack[t][j] /\ (i = Len(stack'[t]) <=> j = n)
      BY <1>1, <1>6, <2>3
    <3>2. IF j = n THEN stack[t][j].session = None /\ stack[t][j].pc \in Outermost
          ELSE /\ stack[t][j].session \in Sessions /\ stack[t][j].pc \in Inner
               /\ stack[t][j + 1].closing = stack[t][j].session
      BY Zenon, <3>1 DEF StacksHold, Chained, n
    <3> HIDE DEF j
    <3>3. j # n => stack'[t][i + 1] = stack[t][j + 1]
      BY <1>1, <1>6, <3>1
    <3> QED BY Zenon, <2>3, <3>1, <3>2, <3>3
  <2> QED BY Zenon, <2>1, <2>2, <2>3
<1>10. \A u \in C!Threads : \A i \in 1..Len(stack'[u]) :
         \/ u = t /\ i = 1 /\ stack'[u][i] = x
         \/ u = t /\ i # 1 /\ i - 1 \in 1..Len(stack[u]) /\ stack'[u][i] = stack[u][i - 1]
         \/ u # t /\ i \in 1..Len(stack[u]) /\ stack'[u][i] = stack[u][i]
  BY <1>1, <1>5, <1>6 DEF n
<1>11. RunsOnce'
  <2> SUFFICES ASSUME NEW u \in C!Threads, NEW i \in 1..Len(stack'[u]), stack'[u][i].session # None
               PROVE  /\ once'[stack'[u][i].session] = "running"
                      /\ stack'[u][i].pc # "remove" => stack'[u][i].session \notin registered
    BY Zenon, <1>2 DEF RunsOnce
  <2>1. CASE stack'[u][i] = x
    BY Zenon, <1>2, <1>3, <2>1 DEF OnceTells
  <2>2. ASSUME NEW j \in 1..Len(stack[u]), stack'[u][i] = stack[u][j]
        PROVE  /\ once'[stack'[u][i].session] = "running"
               /\ stack'[u][i].pc # "remove" => stack'[u][i].session \notin registered
    <3>1. stack[u][j].session # c /\ stack[u][j].session # None
      BY Zenon, <1>8, <2>2
    <3>2. /\ once[stack[u][j].session] = "running"
          /\ stack[u][j].pc # "remove" => stack[u][j].session \notin registered
      BY Zenon, <3>1 DEF StacksHold, RunsOnce
    <3>3. stack[u][j].session \in Sessions
      BY Zenon, <3>1, FrameTyped
    <3> QED BY Zenon, <1>2, <2>2, <3>1, <3>2, <3>3 DEF OnceTells
  <2> QED BY Zenon, <1>10, <2>1, <2>2
<1>12. OneRunner'
  <2> SUFFICES ASSUME NEW u \in C!Threads, NEW v \in C!Threads,
                      NEW i \in 1..Len(stack'[u]), NEW j \in 1..Len(stack'[v]),
                      stack'[u][i].session # None, stack'[u][i].session = stack'[v][j].session
               PROVE  u = v /\ i = j
    BY DEF OneRunner
  <2>1. CASE u = t /\ i = 1
    <3>1. stack'[v][j].session = c
      BY Zenon, <1>3, <1>6, <2>1
    <3>2. v = t /\ j = 1
      BY Zenon, <1>8, <1>10, <3>1
    <3> QED BY Zenon, <2>1, <3>2
  <2>2. CASE v = t /\ j = 1
    <3>1. stack'[u][i].session = c
      BY Zenon, <1>3, <1>6, <2>2
    <3>2. u = t /\ i = 1
      BY Zenon, <1>8, <1>10, <3>1
    <3> QED BY Zenon, <2>2, <3>2
  <2>3. CASE ~(u = t /\ i = 1) /\ ~(v = t /\ j = 1)
    <3> DEFINE k == IF u = t THEN i - 1 ELSE i
               l == IF v = t THEN j - 1 ELSE j
    <3>1. k \in 1..Len(stack[u]) /\ l \in 1..Len(stack[v]) /\ stack'[u][i] = stack[u][k] /\ stack'[v][j] = stack[v][l]
      BY Zenon, <1>10, <2>3
    <3> HIDE DEF k, l
    <3>2. u = v /\ k = l
      BY <3>1 DEF StacksHold, OneRunner
    <3> QED BY <3>2 DEF k, l
  <2> QED BY Zenon, <2>1, <2>2, <2>3
<1>13. stack'[t] # <<>> /\ stack'[t][1].closing = None
  BY <1>1, <1>3, <1>6
<1> QED BY Zenon, <1>1, <1>2, <1>5, <1>6, <1>7, <1>9, <1>11, <1>12, <1>13 DEF StacksHold, n, c

(* A call ends. *)
LEMMA StackReturns ==
  ASSUME ThreadsDiffer, StacksHold, OnceTells, NEW t \in C!Threads, C!Return(t)
  PROVE  /\ StacksHold' /\ OnceTells' /\ \A u \in C!Threads \ {t} : stack'[u] = stack[u]
         /\ stack'[t] = <<>> \/ stack'[t][1].closing = None
         /\ stack'[t] = <<>> => stack[t][Len(stack[t])] = C!Top(t) /\ Len(stack[t]) = 1
         /\ stack'[t] # <<>> =>
              /\ Len(stack'[t]) = Len(stack[t]) - 1
              /\ \A i \in 1..Len(stack'[t]) : i # 1 => stack'[t][i] = stack[t][i + 1]
              /\ stack'[t][1].pc = stack[t][2].pc /\ stack'[t][1].targets = stack[t][2].targets
              /\ stack[t][2].closing \notin registered
<1> DEFINE n == Len(stack[t])
           s == stack[t][1].session
<1>1. stack[t] \in Seq(Frames) /\ n \in Nat /\ n > 0 /\ stack[t][1] \in Frames /\ C!Top(t) = stack[t][1]
  BY DEF StacksHold, C!Return, C!Top
<1>2. UNCHANGED <<registered, done>>
  BY Zenon DEF C!Return
<1>3. CASE s = None
  <2>1. stack' = [stack EXCEPT ![t] = <<>>] /\ UNCHANGED once
    BY Zenon, <1>1, <1>3 DEF C!Return
  <2>2. /\ stack'[t] = <<>> /\ Len(stack'[t]) = 0 /\ \A u \in C!Threads \ {t} : stack'[u] = stack[u]
        /\ stack' \in [C!Threads -> Seq(Frames)]
    BY <2>1 DEF StacksHold
  <2>3. n = 1
    <3>1. 1 \in 1..Len(stack[t])
      BY <1>1
    <3> QED BY Zenon, <1>3, <3>1, ChainAt DEF ThreadsDiffer
  <2>4. \A u \in C!Threads : \A i \in 1..Len(stack'[u]) : u # t /\ stack'[u] = stack[u]
    BY <2>2
  <2>5. Chained' /\ RunsOnce' /\ OneRunner'
    <3>1. Chained'
      BY <2>4 DEF StacksHold, Chained
    <3>2. RunsOnce'
      BY <1>2, <2>1, <2>4 DEF StacksHold, RunsOnce
    <3>3. OneRunner'
      BY <2>4 DEF StacksHold, OneRunner
    <3> QED BY Zenon, <3>1, <3>2, <3>3
  <2>6. OnceTells'
    BY Zenon, <1>2, <2>1 DEF OnceTells
  <2> QED BY Zenon, <1>1, <2>2, <2>3, <2>5, <2>6 DEF StacksHold
<1>4. CASE s # None
  <2> DEFINE x == [stack[t][2] EXCEPT !.closing = None]
  <2>1. n > 1 /\ s \in Sessions /\ stack[t][2].closing = s /\ stack[t][2] \in Frames /\ stack[t][1].pc \in Inner
    <3>1. 1 \in 1..Len(stack[t]) /\ 1 # n
      BY <1>1, <1>4 DEF StacksHold, Chained
    <3>2. stack[t][1].session \in Sessions /\ stack[t][1].pc \in Inner /\ stack[t][1 + 1].closing = stack[t][1].session
      BY Zenon, <3>1, ChainAt
    <3>3. 2 \in 1..Len(stack[t]) /\ n > 1 /\ 1 + 1 = 2
      <4>1. \A m \in Nat : m > 0 /\ 1 # m => 2 \in 1..m /\ m > 1 /\ 1 + 1 = 2
        OBVIOUS
      <4> QED BY Zenon, <1>1, <3>1, <4>1
    <3>4. stack[t][2] \in Frames
      BY Zenon, <3>3, FrameTyped
    <3> QED BY Zenon, <3>2, <3>3, <3>4
  <2>2. x \in Frames /\ x.closing = None /\ x.session = stack[t][2].session /\ x.pc = stack[t][2].pc /\ x.targets = stack[t][2].targets
    BY Zenon, <2>1 DEF Frames
  <2>3. Head(Tail(stack[t])) = stack[t][2]
    <3>1. stack[t] \in Seq(Frames) /\ n > 1 /\ x \in Frames
      BY Zenon, <1>1, <2>1, <2>2
    <3> QED BY <3>1
  <2>4. stack' = [stack EXCEPT ![t] = <<x>> \o Tail(Tail(stack[t]))] /\ once' = [once EXCEPT ![s] = "done"]
    BY Zenon, <1>1, <1>4, <2>3 DEF C!Return
  <2> HIDE DEF x
  <2>5. stack'[t] = <<x>> \o Tail(Tail(stack[t])) /\ \A u \in C!Threads \ {t} : stack'[u] = stack[u]
    BY Zenon, <2>4 DEF StacksHold
  <2>6. /\ stack'[t] \in Seq(Frames) /\ Len(stack'[t]) = n - 1 /\ stack'[t][1] = x
        /\ \A i \in 2..(n - 1) : stack'[t][i] = stack[t][i + 1]
    <3>1. stack[t] \in Seq(Frames) /\ n > 1 /\ x \in Frames
      BY Zenon, <1>1, <2>1, <2>2
    <3>2. /\ stack'[t] \in Seq(Frames) /\ Len(stack'[t]) = n - 1 /\ stack'[t][1] = x
          /\ \A i \in 2..Len(stack'[t]) : stack'[t][i] = stack[t][i + 1]
      <4> DEFINE p == Popped(stack[t], x)
      <4>1. /\ p \in Seq(Frames) /\ Len(p) = n - 1 /\ p[1] = x
            /\ \A i \in 2..Len(p) : p[i] = stack[t][i + 1]
        BY Zenon, <3>1, SeqPop
      <4>2. stack'[t] = p
        BY Zenon, <2>5 DEF Popped
      <4> HIDE DEF p, n
      <4> QED BY Zenon, <4>1, <4>2
    <3> QED BY Zenon, <3>2
  <2>7. stack' \in [C!Threads -> Seq(Frames)]
    BY Zenon, <2>4, <2>5, <2>6 DEF StacksHold
  <2>8. s \notin registered
    <3>1. stack[t][1].pc # "remove"
      BY Zenon, <1>1 DEF C!Return
    <3> QED BY <1>1, <1>4, <3>1 DEF StacksHold, RunsOnce
  <2>9. \A u \in C!Threads : \A i \in 1..Len(stack'[u]) :
          LET j == IF u = t THEN i + 1 ELSE i IN
          /\ j \in 1..Len(stack[u]) /\ stack'[u][i].session = stack[u][j].session
          /\ stack'[u][i].pc = stack[u][j].pc /\ ~(u = t /\ j = 1)
          /\ i # 1 \/ u # t => stack'[u][i] = stack[u][j]
          /\ i = Len(stack'[u]) <=> j = Len(stack[u])
    <3> SUFFICES ASSUME NEW u \in C!Threads, NEW i \in 1..Len(stack'[u])
                 PROVE  LET j == IF u = t THEN i + 1 ELSE i IN
                        /\ j \in 1..Len(stack[u]) /\ stack'[u][i].session = stack[u][j].session
                        /\ stack'[u][i].pc = stack[u][j].pc /\ ~(u = t /\ j = 1)
                        /\ i # 1 \/ u # t => stack'[u][i] = stack[u][j]
                        /\ i = Len(stack'[u]) <=> j = Len(stack[u])
      BY Zenon
    <3>1. CASE u # t
      BY Zenon, <2>5, <3>1
    <3>2. CASE u = t /\ i = 1
      <4>1. i + 1 = 2 /\ 2 \in 1..n /\ stack'[u][i] = x /\ Len(stack'[u]) = n - 1 /\ Len(stack[u]) = n
        BY <1>1, <2>1, <2>6, <3>2
      <4>2. 1 = n - 1 <=> 2 = n
        BY <1>1
      <4> HIDE DEF n
      <4> QED BY <2>2, <3>2, <4>1, <4>2
    <3>3. CASE u = t /\ i # 1
      <4>1. i + 1 \in 1..n /\ stack'[u][i] = stack[u][i + 1] /\ Len(stack'[u]) = n - 1 /\ Len(stack[u]) = n
        BY <1>1, <2>1, <2>6, <3>3
      <4>2. i = n - 1 <=> i + 1 = n
        BY <1>1
      <4>3. i + 1 # 1
        OBVIOUS
      <4> HIDE DEF n
      <4> QED BY Zenon, <3>3, <4>1, <4>2, <4>3
    <3> QED BY Zenon, <3>1, <3>2, <3>3
  <2> HIDE DEF n, s
  <2>10. Chained'
    <3> SUFFICES ASSUME NEW u \in C!Threads, NEW i \in 1..Len(stack'[u])
                 PROVE  IF i = Len(stack'[u]) THEN stack'[u][i].session = None /\ stack'[u][i].pc \in Outermost
                        ELSE /\ stack'[u][i].session \in Sessions /\ stack'[u][i].pc \in Inner
                             /\ stack'[u][i + 1].closing = stack'[u][i].session
      BY Zenon DEF Chained
    <3> DEFINE j == IF u = t THEN i + 1 ELSE i
    <3>1. /\ j \in 1..Len(stack[u]) /\ stack'[u][i].session = stack[u][j].session
          /\ stack'[u][i].pc = stack[u][j].pc /\ (i = Len(stack'[u]) <=> j = Len(stack[u]))
      BY <2>9
    <3>2. IF j = Len(stack[u]) THEN stack[u][j].session = None /\ stack[u][j].pc \in Outermost
          ELSE /\ stack[u][j].session \in Sessions /\ stack[u][j].pc \in Inner
               /\ stack[u][j + 1].closing = stack[u][j].session
      BY Zenon, <3>1 DEF StacksHold, Chained
    <3>3. i # Len(stack'[u]) => stack'[u][i + 1] = stack[u][j + 1]
      <4>1. Len(stack'[u]) \in Nat
        BY <2>7
      <4>2. SUFFICES ASSUME i # Len(stack'[u])
                     PROVE  stack'[u][i + 1] = stack[u][j + 1]
        OBVIOUS
      <4>3. i + 1 \in 1..Len(stack'[u]) /\ i + 1 # 1
        BY <4>1, <4>2
      <4>4. stack'[u][i + 1] = stack[u][IF u = t THEN i + 1 + 1 ELSE i + 1]
        BY Zenon, <2>9, <4>3
      <4> QED BY Zenon, <4>4
    <3> HIDE DEF j
    <3> QED BY Zenon, <3>1, <3>2, <3>3
  <2>11. RunsOnce'
    <3> SUFFICES ASSUME NEW u \in C!Threads, NEW i \in 1..Len(stack'[u]), stack'[u][i].session # None
                 PROVE  /\ once'[stack'[u][i].session] = "running"
                        /\ stack'[u][i].pc # "remove" => stack'[u][i].session \notin registered
      BY Zenon, <1>2 DEF RunsOnce
    <3> DEFINE j == IF u = t THEN i + 1 ELSE i
    <3>1. /\ j \in 1..Len(stack[u]) /\ stack'[u][i].session = stack[u][j].session
          /\ stack'[u][i].pc = stack[u][j].pc /\ ~(u = t /\ j = 1)
      BY Zenon, <2>9
    <3> HIDE DEF j
    <3>2. stack[u][j].session # s
      <4>1. 1 \in 1..Len(stack[t])
        BY <1>1 DEF n
      <4> QED BY <1>4, <3>1, <4>1 DEF StacksHold, OneRunner, s
    <3>3. /\ once[stack[u][j].session] = "running"
          /\ stack[u][j].pc # "remove" => stack[u][j].session \notin registered
      BY Zenon, <3>1 DEF StacksHold, RunsOnce
    <3>4. stack[u][j].session \in Sessions
      BY Zenon, <3>1, FrameTyped
    <3> QED BY Zenon, <2>4, <3>1, <3>2, <3>3, <3>4 DEF OnceTells
  <2>12. OneRunner'
    <3> SUFFICES ASSUME NEW u \in C!Threads, NEW v \in C!Threads,
                        NEW i \in 1..Len(stack'[u]), NEW j \in 1..Len(stack'[v]),
                        stack'[u][i].session # None, stack'[u][i].session = stack'[v][j].session
                 PROVE  u = v /\ i = j
      BY DEF OneRunner
    <3> DEFINE k == IF u = t THEN i + 1 ELSE i
               l == IF v = t THEN j + 1 ELSE j
    <3>1. k \in 1..Len(stack[u]) /\ l \in 1..Len(stack[v]) /\ stack[u][k].session = stack[v][l].session /\ stack[u][k].session # None
      BY <2>9
    <3> HIDE DEF k, l
    <3>2. u = v /\ k = l
      BY <3>1 DEF StacksHold, OneRunner
    <3> QED BY <3>2 DEF k, l
  <2>13. OnceTells'
    <3>1. once[s] = "running"
      BY <1>1, <1>4 DEF StacksHold, RunsOnce, s, n
    <3> QED BY Zenon, <1>2, <2>1, <2>4, <2>8, <3>1 DEF OnceTells
  <2>14. stack'[t] # <<>>
    BY <2>1, <2>6 DEF n
  <2>15. \A i \in 1..Len(stack'[t]) : i # 1 => stack'[t][i] = stack[t][i + 1]
    BY Zenon, <2>9
  <2> QED BY Zenon, <2>1, <2>2, <2>5, <2>6, <2>7, <2>8, <2>10, <2>11, <2>12, <2>13, <2>14, <2>15 DEF StacksHold, n, s
<1> QED BY Zenon, <1>3, <1>4

(* The loop of Hub.Close stays as it is. *)
LEMMA HubKept ==
  ASSUME HubCloses, UNCHANGED closed, registered' \subseteq registered,
         stack'["hub"] = <<>> <=> stack["hub"] = <<>>,
         stack["hub"] # <<>> => stack'["hub"][Len(stack'["hub"])] = stack["hub"][Len(stack["hub"])]
  PROVE  HubCloses'
BY Zenon DEF HubCloses

(* A thread that changes its innermost call, not the loop of Hub.Close. *)
LEMMA TopKeepsHub ==
  ASSUME StacksHold, HubCloses, UNCHANGED closed, registered' \subseteq registered, NEW t \in C!Threads,
         \A u \in C!Threads \ {t} : stack'[u] = stack[u], stack[t] # <<>>, stack'[t] # <<>>,
         Len(stack'[t]) = Len(stack[t]), \A i \in 2..Len(stack[t]) : stack'[t][i] = stack[t][i],
         t # "hub" \/ Len(stack[t]) # 1
  PROVE  HubCloses'
<1>1. CASE t # "hub"
  <2>1. stack'["hub"] = stack["hub"]
    BY Zenon, <1>1 DEF C!Threads
  <2> QED BY Zenon, <2>1, HubKept
<1>2. CASE t = "hub"
  <2>1. Len(stack[t]) \in Nat /\ Len(stack[t]) > 0
    BY DEF StacksHold
  <2>2. Len(stack[t]) \in 2..Len(stack[t])
    <3>1. \A m \in Nat : m > 0 /\ m # 1 => m \in 2..m
      OBVIOUS
    <3> QED BY Zenon, <1>2, <2>1, <3>1
  <2> QED BY Zenon, <1>2, <2>2, HubKept
<1> QED BY Zenon, <1>1, <1>2

(* A thread begins a loop that closes a session. *)
LEMMA LoopBegins ==
  ASSUME ThreadsDiffer, CloseInv, NEW t \in C!Threads, t # "hub", stack[t] = <<>>, NEW x \in Frames,
         stack' = [stack EXCEPT ![t] = <<x>>], x.session = None, x.pc \in Outermost,
         UNCHANGED <<once, done, registered, closed, handling, route>>
  PROVE  CloseInv'
<1>1. /\ StacksHold' /\ Len(stack'[t]) = 1 /\ stack'[t][1] = x
      /\ \A u \in C!Threads \ {t} : stack'[u] = stack[u]
  BY Zenon, StackBegins DEF CloseInv
<1>2. C!NoCircularWait'
  <2>1. \A v \in C!Threads : ~C!WaitsFor(v, t)'
    BY <1>1, NoWait
  <2> QED BY Zenon, <1>1, <2>1, OthersWait, NoCircleArises DEF CloseInv
<1>3. HubCloses'
  <2>1. stack'["hub"] = stack["hub"]
    BY Zenon, <1>1 DEF C!Threads
  <2> QED BY Zenon, <2>1, HubKept DEF CloseInv
<1> QED BY Zenon, <1>1, <1>2, <1>3 DEF CloseInv, OnceTells, RoutesHold, C!RouteFollowsHandlers

LEMMA RegisterStep ==
  ASSUME ThreadsDiffer, CloseInv, NEW s \in Sessions, C!Register(s)
  PROVE  CloseInv'
<1>1. CASE C!MayRegister
  <2>1. /\ registered' = registered \cup {s} /\ ~closed /\ once[s] = "new" /\ s \notin registered
        /\ UNCHANGED <<stack, closed, handling, route, done, once>>
    BY Zenon, <1>1 DEF C!Register, C!MayRegister
  <2>2. StacksHold'
    <3>1. RunsOnce'
      BY Zenon, <2>1 DEF CloseInv, StacksHold, RunsOnce
    <3> QED BY <2>1, <3>1 DEF CloseInv, StacksHold, Chained, OneRunner
  <2>3. OnceTells'
    BY Zenon, <2>1 DEF CloseInv, OnceTells
  <2>4. HubCloses'
    BY Zenon, <2>1 DEF CloseInv, HubCloses
  <2>5. RoutesHold'
    BY Zenon, <2>1 DEF CloseInv, RoutesHold, C!RouteFollowsHandlers
  <2>6. C!NoCircularWait'
    BY <2>1 DEF CloseInv, C!NoCircularWait, C!WaitsFor, C!Top
  <2> QED BY Zenon, <2>2, <2>3, <2>4, <2>5, <2>6 DEF CloseInv
<1>2. CASE ~C!MayRegister
  <2> DEFINE x == [C!Call(None, "loop", {}) EXCEPT !.closing = s]
  <2>1. x \in Frames /\ x.session = None /\ x.pc \in Outermost
    BY Zenon DEF C!Call, Frames, Outermost, Inner
  <2>2. /\ stack[s] = <<>> /\ stack' = [stack EXCEPT ![s] = <<x>>]
        /\ UNCHANGED <<once, done, registered, closed, handling, route>>
    BY Zenon, <1>2 DEF C!Register
  <2> HIDE DEF x
  <2>3. s \in C!Threads /\ s # "hub"
    BY Zenon DEF C!Threads, ThreadsDiffer
  <2> QED BY Zenon, <2>1, <2>2, <2>3, LoopBegins
<1> QED BY Zenon, <1>1, <1>2

LEMMA JoinStep ==
  ASSUME CloseInv, NEW s \in Sessions, C!Join(s) \/ C!SubscribeFunctions(s)
  PROVE  CloseInv'
<1>1. UNCHANGED <<registered, closed, done, once, stack>>
  BY Zenon DEF C!Join, C!SubscribeFunctions
<1>2. RoutesHold'
  BY DEF CloseInv, RoutesHold, C!RouteFollowsHandlers, C!Join, C!SubscribeFunctions
<1>3. StacksHold' /\ OnceTells' /\ HubCloses'
  BY <1>1 DEF CloseInv, StacksHold, Chained, RunsOnce, OneRunner, OnceTells, HubCloses
<1>4. C!NoCircularWait'
  BY <1>1 DEF CloseInv, C!NoCircularWait, C!WaitsFor, C!Top
<1> QED BY Zenon, <1>2, <1>3, <1>4 DEF CloseInv

LEMMA ServeStep ==
  ASSUME ThreadsDiffer, CloseInv, NEW s \in Sessions, C!Serve(s)
  PROVE  CloseInv'
<1> DEFINE x == [C!Call(None, "loop", {}) EXCEPT !.closing = s]
<1>1. x \in Frames /\ x.session = None /\ x.pc \in Outermost
  BY Zenon DEF C!Call, Frames, Outermost, Inner
<1>2. /\ stack[s] = <<>> /\ stack' = [stack EXCEPT ![s] = <<x>>]
      /\ UNCHANGED <<once, done, registered, closed, handling, route>>
  BY Zenon DEF C!Serve
<1> HIDE DEF x
<1>3. s \in C!Threads /\ s # "hub"
  BY Zenon DEF C!Threads, ThreadsDiffer
<1> QED BY Zenon, <1>1, <1>2, <1>3, LoopBegins

LEMMA DeliverV2Step ==
  ASSUME ThreadsDiffer, CloseInv, C!DeliverV2
  PROVE  CloseInv'
<1> DEFINE x == C!Call(None, "send", registered \cap members)
<1>1. x \in Frames /\ x.session = None /\ x.pc \in Outermost
  BY Zenon DEF C!Call, Frames, Outermost, Inner, CloseInv, OnceTells
<1>2. /\ stack["bridge"] = <<>> /\ stack' = [stack EXCEPT !["bridge"] = <<x>>]
      /\ UNCHANGED <<once, done, registered, closed, handling, route>>
  BY Zenon DEF C!DeliverV2
<1> HIDE DEF x
<1>3. "bridge" \in C!Threads /\ "bridge" # "hub"
  BY Zenon DEF C!Threads
<1> QED BY Zenon, <1>1, <1>2, <1>3, LoopBegins

LEMMA CloseHubStep ==
  ASSUME ThreadsDiffer, CloseInv, C!CloseHub
  PROVE  CloseInv'
<1> DEFINE x == C!Call(None, "close", registered)
<1>1. x \in Frames /\ x.session = None /\ x.pc = "close" /\ x.pc \in Outermost /\ x.targets = registered
  BY Zenon DEF C!Call, Frames, Outermost, Inner, CloseInv, OnceTells
<1>2. /\ stack["hub"] = <<>> /\ stack' = [stack EXCEPT !["hub"] = <<x>>] /\ closed'
      /\ UNCHANGED <<once, done, registered, handling, route>>
  BY Zenon DEF C!CloseHub, CloseInv, HubCloses
<1> HIDE DEF x
<1>3. "hub" \in C!Threads
  BY Zenon DEF C!Threads
<1>4. /\ StacksHold' /\ Len(stack'["hub"]) = 1 /\ stack'["hub"][1] = x /\ stack'["hub"] = <<x>>
      /\ \A u \in C!Threads \ {"hub"} : stack'[u] = stack[u]
  BY Zenon, <1>1, <1>2, <1>3, StackBegins DEF CloseInv
<1>5. C!NoCircularWait'
  <2>1. \A v \in C!Threads : ~C!WaitsFor(v, "hub")'
    BY <1>1, <1>3, <1>4, NoWait
  <2> QED BY Zenon, <1>3, <1>4, <2>1, OthersWait, NoCircleArises DEF CloseInv
<1>6. HubCloses'
  <2>1. stack'["hub"] # <<>>
    BY <1>4
  <2> QED BY Zenon, <1>1, <1>2, <1>4, <2>1 DEF HubCloses
<1> QED BY Zenon, <1>2, <1>4, <1>5, <1>6 DEF CloseInv, OnceTells, RoutesHold, C!RouteFollowsHandlers

LEMMA EnterCloseStep ==
  ASSUME ThreadsDiffer, CloseInv, NEW t \in C!Threads, C!EnterClose(t)
  PROVE  CloseInv'
<1> DEFINE c == stack[t][1].closing
<1>1. /\ StacksHold' /\ \A u \in C!Threads \ {t} : stack'[u] = stack[u]
      /\ Len(stack'[t]) = Len(stack[t]) + 1 /\ stack'[t] # <<>> /\ stack'[t][1].closing = None
      /\ \A i \in 1..Len(stack[t]) : stack'[t][i + 1] = stack[t][i]
      /\ c \in Sessions /\ C!Top(t) = stack[t][1]
  BY Zenon, StackEnters DEF CloseInv
<1>2. /\ stack[t] # <<>> /\ once[c] = "new" /\ once' = [once EXCEPT ![c] = "running"]
      /\ done' = done \cup {c} /\ UNCHANGED <<registered, closed, handling, route>>
  BY Zenon, <1>1 DEF C!EnterClose
<1> HIDE DEF c
<1>3. OnceTells'
  BY Zenon, <1>1, <1>2 DEF CloseInv, OnceTells
<1>4. HubCloses'
  <2>1. CASE t # "hub"
    <3>1. stack'["hub"] = stack["hub"]
      BY Zenon, <1>1, <2>1 DEF C!Threads
    <3> QED BY Zenon, <1>2, <3>1, HubKept DEF CloseInv
  <2>2. CASE t = "hub"
    <3>1. Len(stack[t]) \in Nat /\ Len(stack[t]) > 0
      BY <1>2 DEF CloseInv, StacksHold
    <3>2. Len(stack[t]) \in 1..Len(stack[t])
      BY <3>1
    <3> QED BY Zenon, <1>1, <1>2, <2>2, <3>2, HubKept DEF CloseInv
  <2> QED BY Zenon, <2>1, <2>2
<1>5. C!NoCircularWait'
  <2>1. \A v \in C!Threads : ~C!WaitsFor(t, v)'
    BY Zenon, <1>1, NoWait
  <2> QED BY Zenon, <1>1, <2>1, OthersWait, NoCircleArises DEF CloseInv
<1> QED BY Zenon, <1>1, <1>2, <1>3, <1>4, <1>5 DEF CloseInv, RoutesHold, C!RouteFollowsHandlers

LEMMA AlreadyClosedStep ==
  ASSUME ThreadsDiffer, CloseInv, NEW t \in C!Threads, C!AlreadyClosed(t)
  PROVE  CloseInv'
<1> DEFINE y == stack[t][1]
           x == [y EXCEPT !.closing = None]
           n == Len(stack[t])
<1>1. stack[t] \in Seq(Frames) /\ n \in Nat /\ n > 0 /\ y \in Frames /\ C!Top(t) = y /\ stack[t] # <<>>
  BY DEF CloseInv, StacksHold, C!AlreadyClosed, C!Top
<1>2. /\ C!Become(t, x) /\ y.closing # None /\ once[y.closing] = "done"
      /\ UNCHANGED <<registered, closed, handling, route, done, once>>
  BY Zenon, <1>1 DEF C!AlreadyClosed
<1>3. /\ x \in Frames /\ x.session = y.session /\ x.pc = y.pc /\ x.targets = y.targets /\ x.closing = None
      /\ y.closing \in Sessions
  BY Zenon, <1>1, <1>2 DEF Frames
<1>4. x.pc \in IF n = 1 THEN Outermost ELSE Inner
  <2>1. 1 \in 1..n
    BY <1>1
  <2>2. y.pc \in IF 1 = n THEN Outermost ELSE Inner
    BY Zenon, <2>1, ChainAt DEF CloseInv
  <2> HIDE DEF n, x, y
  <2> QED BY Zenon, <1>3, <2>2
<1>5. y.session # None /\ y.pc # "remove" => y.session \notin registered
  <2>1. 1 \in 1..n
    BY <1>1
  <2> QED BY Zenon, <2>1 DEF CloseInv, StacksHold, RunsOnce
<1> HIDE DEF x, y
<1>6. /\ StacksHold' /\ \A u \in C!Threads \ {t} : stack'[u] = stack[u]
      /\ Len(stack'[t]) = n /\ stack'[t][1] = x /\ stack'[t] # <<>>
      /\ \A i \in 2..n : stack'[t][i] = stack[t][i]
  BY <1>1, <1>2, <1>3, <1>4, <1>5, TopChanges DEF CloseInv, y
<1>7. C!NoCircularWait'
  <2>1. \A v \in C!Threads : ~C!WaitsFor(t, v)'
    BY Zenon, <1>3, <1>6, NoWait
  <2> QED BY Zenon, <1>6, <2>1, OthersWait, NoCircleArises DEF CloseInv
<1>8. HubCloses'
  <2>1. CASE t = "hub" /\ n = 1
    <3>1. y.pc = "close" /\ registered \subseteq y.targets \cup {y.closing} /\ closed
      BY Zenon, <1>1, <2>1 DEF CloseInv, HubCloses, y
    <3>2. y.closing \notin registered
      BY Zenon, <1>2, <1>3 DEF CloseInv, OnceTells
    <3>3. registered \subseteq x.targets \cup {x.closing}
      BY Zenon, <1>3, <3>1, <3>2
    <3>4. stack'["hub"][Len(stack'["hub"])] = x /\ stack'["hub"] # <<>>
      BY Zenon, <1>6, <2>1
    <3> HIDE DEF n
    <3> QED BY Zenon, <1>2, <1>3, <3>1, <3>3, <3>4 DEF HubCloses
  <2>2. CASE ~(t = "hub" /\ n = 1)
    BY Zenon, <1>1, <1>2, <1>6, <2>2, TopKeepsHub DEF CloseInv
  <2> QED BY Zenon, <2>1, <2>2
<1> QED BY Zenon, <1>2, <1>6, <1>7, <1>8 DEF CloseInv, OnceTells, RoutesHold, C!RouteFollowsHandlers

(* A step of a Close that runs: its call is not the outermost one. *)
LEMMA InnerCall ==
  ASSUME ThreadsDiffer, CloseInv, NEW t \in C!Threads, NEW pc \in {"remove", "leave"}, C!At(t, pc)
  PROVE  /\ stack[t] # <<>> /\ Len(stack[t]) # 1 /\ C!Top(t) = stack[t][1]
         /\ stack[t][1].session \in Sessions
         /\ pc # "remove" => stack[t][1].session \notin registered
<1>1. stack[t] \in Seq(Frames) /\ stack[t] # <<>> /\ C!Top(t) = stack[t][1] /\ 1 \in 1..Len(stack[t])
  BY DEF CloseInv, StacksHold, C!At, C!Top
<1>2. stack[t][1].pc = pc
  BY Zenon, <1>1 DEF C!At
<1>3. Len(stack[t]) # 1 /\ stack[t][1].session \in Sessions
  BY Zenon, <1>1, <1>2, ChainAt DEF CloseInv, Outermost
<1> QED BY Zenon, <1>1, <1>2, <1>3 DEF CloseInv, StacksHold, RunsOnce, ThreadsDiffer

(* Such a step leaves the thread waiting for nobody. *)
LEMMA InnerStep ==
  ASSUME ThreadsDiffer, CloseInv, NEW t \in C!Threads, stack[t] # <<>>, Len(stack[t]) # 1, NEW x \in Frames,
         C!Become(t, x), x.session = stack[t][1].session, x.closing = None, x.pc \in Inner, x.pc # "remove",
         x.session \notin registered', registered' \subseteq registered, UNCHANGED <<once, done, closed>>,
         RoutesHold'
  PROVE  CloseInv'
<1>1. /\ StacksHold' /\ \A u \in C!Threads \ {t} : stack'[u] = stack[u]
      /\ Len(stack'[t]) = Len(stack[t]) /\ stack'[t][1] = x /\ stack'[t] # <<>>
      /\ \A i \in 2..Len(stack[t]) : stack'[t][i] = stack[t][i]
  BY Zenon, TopChanges DEF CloseInv
<1>2. C!NoCircularWait'
  <2>1. \A v \in C!Threads : ~C!WaitsFor(t, v)'
    BY Zenon, <1>1, NoWait
  <2> QED BY Zenon, <1>1, <2>1, OthersWait, NoCircleArises DEF CloseInv
<1>3. HubCloses'
  BY Zenon, <1>1, TopKeepsHub DEF CloseInv
<1>4. OnceTells'
  BY Zenon DEF CloseInv, OnceTells
<1> QED BY Zenon, <1>1, <1>2, <1>3, <1>4 DEF CloseInv

LEMMA RemoveSessionStep ==
  ASSUME ThreadsDiffer, CloseInv, NEW t \in C!Threads, C!RemoveSession(t)
  PROVE  CloseInv'
<1> DEFINE s == stack[t][1].session
           x == C!Call(s, IF s \in registered \cap members THEN "leave" ELSE "finish", {})
<1>1. stack[t] # <<>> /\ Len(stack[t]) # 1 /\ C!Top(t) = stack[t][1] /\ s \in Sessions
  BY Zenon, InnerCall DEF C!RemoveSession
<1>2. /\ C!Become(t, x) /\ registered' = registered \ {s} /\ handling' = handling \ {s}
      /\ route' = C!RouteAfter(s) /\ UNCHANGED <<closed, done, once>>
  BY Zenon, <1>1 DEF C!RemoveSession, C!Removed
<1>3. /\ x \in Frames /\ x.session = s /\ x.closing = None /\ x.pc \in Inner /\ x.pc # "remove"
  BY Zenon, <1>1 DEF C!Call, Frames, Outermost, Inner
<1> HIDE DEF x, s
<1>4. RoutesHold'
  BY Zenon, <1>2 DEF CloseInv, RoutesHold, C!RouteFollowsHandlers, C!RouteAfter
<1> QED BY Zenon, <1>1, <1>2, <1>3, <1>4, InnerStep DEF s

LEMMA DispatchLeaveStep ==
  ASSUME ThreadsDiffer, CloseInv, NEW t \in C!Threads, C!DispatchLeave(t)
  PROVE  CloseInv'
<1> DEFINE s == stack[t][1].session
           x == IF Bridged THEN C!Call(s, "finish", {}) ELSE C!Call(s, "send", registered \cap members)
<1>1. /\ stack[t] # <<>> /\ Len(stack[t]) # 1 /\ C!Top(t) = stack[t][1] /\ s \in Sessions
      /\ s \notin registered
  BY Zenon, InnerCall DEF C!DispatchLeave
<1>2. C!Become(t, x) /\ UNCHANGED <<registered, handling, route, closed, done, once>>
  BY Zenon, <1>1 DEF C!DispatchLeave
<1>3. /\ x \in Frames /\ x.session = s /\ x.closing = None /\ x.pc \in Inner /\ x.pc # "remove"
  BY Zenon, <1>1 DEF C!Call, Frames, Outermost, Inner, CloseInv, OnceTells
<1> HIDE DEF x, s
<1>4. RoutesHold'
  BY Zenon, <1>2 DEF CloseInv, RoutesHold, C!RouteFollowsHandlers
<1> QED BY Zenon, <1>1, <1>2, <1>3, <1>4, InnerStep DEF s

(* A thread that finds a target that is not done waits for nobody: no Close*)
(* of it runs.                                                             *)
LEMMA SendCloseStep ==
  ASSUME ThreadsDiffer, CloseInv, NEW t \in C!Threads, NEW s \in Sessions, NEW full \in BOOLEAN,
         C!Send(t, s, full)
  PROVE  CloseInv'
<1> DEFINE y == stack[t][1]
           x == [y EXCEPT !.targets = @ \ {s}, !.closing = IF full /\ s \notin done THEN s ELSE None]
           n == Len(stack[t])
<1>1. stack[t] \in Seq(Frames) /\ n \in Nat /\ n > 0 /\ y \in Frames /\ C!Top(t) = y /\ stack[t] # <<>>
  BY DEF CloseInv, StacksHold, C!Send, C!At, C!Top
<1>2. /\ C!Become(t, x) /\ y.pc = "send"
      /\ UNCHANGED <<registered, closed, handling, route, done, once>>
  BY Zenon, <1>1 DEF C!Send, C!At
<1>3. /\ x \in Frames /\ x.session = y.session /\ x.pc = "send"
      /\ x.closing = None \/ x.closing \in Sessions \ done
  BY Zenon, <1>1, <1>2 DEF Frames
<1>4. x.pc \in IF n = 1 THEN Outermost ELSE Inner
  BY <1>3 DEF Outermost, Inner
<1>5. 1 \in 1..n
  BY <1>1
<1>6. y.session # None => y.session \notin registered
  BY Zenon, <1>2, <1>5 DEF CloseInv, StacksHold, RunsOnce
<1> HIDE DEF x, y
<1>7. /\ StacksHold' /\ \A u \in C!Threads \ {t} : stack'[u] = stack[u]
      /\ Len(stack'[t]) = n /\ stack'[t][1] = x /\ stack'[t] # <<>>
      /\ \A i \in 2..n : stack'[t][i] = stack[t][i]
  BY Zenon, <1>1, <1>2, <1>3, <1>4, <1>6, TopChanges DEF CloseInv, y
<1>8. \A v \in C!Threads : ~C!WaitsFor(t, v)'
  <2>1. CASE x.closing = None
    BY Zenon, <1>7, <2>1, NoWait
  <2>2. CASE x.closing \in Sessions \ done
    <3>1. once'[x.closing] = "new" /\ x.closing # None
      BY Zenon, <1>2, <2>2 DEF CloseInv, OnceTells, ThreadsDiffer
    <3>2. \A v \in C!Threads : \A i \in 1..Len(stack'[v]) : stack'[v][i].session # x.closing
      BY Zenon, <1>7, <3>1 DEF StacksHold, RunsOnce
    <3>3. Head(stack'[t]) = x /\ \A v \in C!Threads : DOMAIN stack'[v] = 1..Len(stack'[v])
      BY <1>7 DEF StacksHold
    <3> QED BY Zenon, <3>2, <3>3 DEF C!WaitsFor, C!Top
  <2> QED BY Zenon, <1>3, <2>1, <2>2
<1>9. C!NoCircularWait'
  BY Zenon, <1>7, <1>8, OthersWait, NoCircleArises DEF CloseInv
<1>10. HubCloses'
  <2>1. t # "hub" \/ n # 1
    BY Zenon, <1>1, <1>2 DEF CloseInv, HubCloses, y
  <2> QED BY Zenon, <1>1, <1>2, <1>7, <2>1, TopKeepsHub DEF CloseInv
<1> QED BY Zenon, <1>2, <1>7, <1>9, <1>10 DEF CloseInv, OnceTells, RoutesHold, C!RouteFollowsHandlers

(* Close of the hub closes the next session inside no other Close, so that *)
(* nobody waits for it.                                                    *)
LEMMA CloseNextStep ==
  ASSUME ThreadsDiffer, CloseInv, NEW t \in C!Threads, NEW s \in Sessions, C!CloseNext(t, s)
  PROVE  CloseInv'
<1> DEFINE y == stack[t][1]
           x == [y EXCEPT !.targets = @ \ {s}, !.closing = s]
           n == Len(stack[t])
<1>1. stack[t] \in Seq(Frames) /\ n \in Nat /\ n > 0 /\ y \in Frames /\ C!Top(t) = y /\ stack[t] # <<>>
  BY DEF CloseInv, StacksHold, C!CloseNext, C!At, C!Top
<1>2. /\ C!Become(t, x) /\ y.pc = "close" /\ y.closing = None
      /\ UNCHANGED <<registered, closed, handling, route, done, once>>
  BY Zenon, <1>1 DEF C!CloseNext, C!At
<1>3. /\ x \in Frames /\ x.session = y.session /\ x.pc = "close" /\ x.targets = y.targets \ {s}
      /\ x.closing = s
  BY Zenon, <1>1, <1>2 DEF Frames
<1>4. n = 1 /\ y.session = None
  <2>1. 1 \in 1..n
    BY <1>1
  <2> QED BY Zenon, <1>2, <2>1, ChainAt DEF CloseInv, Inner
<1>5. x.pc \in Outermost
  BY Zenon, <1>3 DEF Outermost
<1> HIDE DEF x, y
<1>6. /\ StacksHold' /\ \A u \in C!Threads \ {t} : stack'[u] = stack[u]
      /\ Len(stack'[t]) = n /\ stack'[t][1] = x /\ stack'[t] # <<>>
      /\ \A i \in 2..n : stack'[t][i] = stack[t][i]
  BY Zenon, <1>1, <1>2, <1>3, <1>4, <1>5, TopChanges DEF CloseInv, y
<1>7. \A v \in C!Threads : ~C!WaitsFor(v, t)'
  <2>1. \A i \in 1..Len(stack'[t]) : stack'[t][i].session = None
    BY <1>3, <1>4, <1>6
  <2> QED BY Zenon, <1>6, <2>1, NoWait
<1>8. C!NoCircularWait'
  BY Zenon, <1>6, <1>7, OthersWait, NoCircleArises DEF CloseInv
<1>9. HubCloses'
  <2>1. CASE t # "hub"
    BY Zenon, <1>1, <1>2, <1>6, <2>1, TopKeepsHub DEF CloseInv
  <2>2. CASE t = "hub"
    <3>1. registered \subseteq y.targets \cup {y.closing} /\ closed
      BY Zenon, <1>1, <1>4, <2>2 DEF CloseInv, HubCloses, y
    <3>2. registered \subseteq x.targets \cup {x.closing}
      BY Zenon, <1>2, <1>3, <3>1 DEF CloseInv, OnceTells, ThreadsDiffer
    <3>3. stack'["hub"][Len(stack'["hub"])] = x /\ stack'["hub"] # <<>>
      BY Zenon, <1>4, <1>6, <2>2
    <3> HIDE DEF n
    <3> QED BY Zenon, <1>2, <1>3, <3>1, <3>2, <3>3 DEF HubCloses
  <2> QED BY Zenon, <2>1, <2>2
<1> QED BY Zenon, <1>2, <1>6, <1>8, <1>9 DEF CloseInv, OnceTells, RoutesHold, C!RouteFollowsHandlers

LEMMA ReturnStep ==
  ASSUME ThreadsDiffer, CloseInv, NEW t \in C!Threads, C!Return(t)
  PROVE  CloseInv'
<1> DEFINE n == Len(stack[t])
           m == Len(stack'[t])
<1>1. /\ StacksHold' /\ OnceTells' /\ \A u \in C!Threads \ {t} : stack'[u] = stack[u]
      /\ stack'[t] = <<>> \/ stack'[t][1].closing = None
      /\ stack'[t] = <<>> => stack[t][n] = C!Top(t) /\ n = 1
      /\ stack'[t] # <<>> =>
           /\ m = n - 1
           /\ \A i \in 1..m : i # 1 => stack'[t][i] = stack[t][i + 1]
           /\ stack'[t][1].pc = stack[t][2].pc /\ stack'[t][1].targets = stack[t][2].targets
           /\ stack[t][2].closing \notin registered
  BY Zenon, StackReturns DEF CloseInv
<1>2. stack[t] # <<>> /\ UNCHANGED <<registered, closed, handling, route>> /\ C!Top(t).closing = None
  BY Zenon DEF C!Return
<1>3. n \in Nat /\ m \in Nat /\ (stack'[t] # <<>> => m > 0)
  BY <1>1 DEF CloseInv, StacksHold
<1>4. C!NoCircularWait'
  <2>1. \A v \in C!Threads : ~C!WaitsFor(t, v)'
    BY Zenon, <1>1, NoWait
  <2> QED BY Zenon, <1>1, <2>1, OthersWait, NoCircleArises DEF CloseInv
<1>5. HubCloses'
  <2>1. CASE t # "hub"
    <3>1. stack'["hub"] = stack["hub"]
      BY Zenon, <1>1, <2>1 DEF C!Threads
    <3> QED BY Zenon, <1>2, <3>1, HubKept DEF CloseInv
  <2>2. CASE t = "hub" /\ stack'[t] = <<>>
    <3>1. C!Top(t).pc = "close" /\ registered \subseteq C!Top(t).targets \cup {None}
      BY Zenon, <1>1, <1>2, <2>2 DEF CloseInv, HubCloses
    <3>2. C!Top(t).targets = {}
      BY Zenon, <3>1 DEF C!Return
    <3>3. registered = {}
      BY Zenon, <3>1, <3>2 DEF CloseInv, OnceTells, ThreadsDiffer
    <3>4. closed
      BY Zenon, <1>2, <2>2 DEF CloseInv, HubCloses
    <3> QED BY Zenon, <1>2, <2>2, <3>3, <3>4 DEF HubCloses
  <2>3. CASE t = "hub" /\ stack'[t] # <<>>
    <3>1. /\ stack[t][n].pc = "close" /\ registered \subseteq stack[t][n].targets \cup {stack[t][n].closing}
          /\ closed
      BY Zenon, <1>2, <2>3 DEF CloseInv, HubCloses
    <3>2. CASE m = 1
      <4>1. n = 2
        BY <1>1, <1>3, <2>3, <3>2
      <4>2. /\ stack'[t][m].pc = "close"
            /\ registered \subseteq stack'[t][m].targets \cup {stack'[t][m].closing}
        <5> HIDE DEF m, n
        <5> QED BY Zenon, <1>1, <2>3, <3>1, <3>2, <4>1
      <4> QED BY Zenon, <1>2, <2>3, <3>1, <4>2 DEF HubCloses
    <3>3. CASE m # 1
      <4>1. m \in 1..m /\ m + 1 = n
        BY <1>1, <1>3, <2>3
      <4>2. stack'[t][m] = stack[t][n]
        <5> HIDE DEF m, n
        <5> QED BY Zenon, <1>1, <2>3, <3>3, <4>1
      <4> QED BY Zenon, <1>2, <2>3, <4>2, HubKept DEF CloseInv
    <3> QED BY Zenon, <3>2, <3>3
  <2> QED BY Zenon, <2>1, <2>2, <2>3
<1> QED BY Zenon, <1>1, <1>2, <1>4, <1>5 DEF CloseInv, RoutesHold, C!RouteFollowsHandlers

LEMMA CloseInvStep ==
  ASSUME ThreadsDiffer, CloseInv, [C!Next]_C!vars
  PROVE  CloseInv'
<1>1. ASSUME NEW s \in Sessions, C!Register(s) \/ C!Join(s) \/ C!SubscribeFunctions(s) \/ C!Serve(s)
      PROVE  CloseInv'
  BY Zenon, <1>1, RegisterStep, JoinStep, ServeStep
<1>2. ASSUME NEW t \in C!Threads, C!ThreadStep(t)
      PROVE  CloseInv'
  BY Zenon, <1>2, EnterCloseStep, AlreadyClosedStep, RemoveSessionStep, DispatchLeaveStep, ReturnStep,
     SendCloseStep, CloseNextStep DEF C!ThreadStep
<1>3. CASE UNCHANGED C!vars
  <2>1. C!NoCircularWait'
    BY <1>3 DEF C!vars, CloseInv, C!NoCircularWait, C!WaitsFor, C!Top
  <2>2. StacksHold' /\ OnceTells'
    BY <1>3 DEF C!vars, CloseInv, StacksHold, Chained, RunsOnce, OneRunner, OnceTells
  <2> QED BY Zenon, <1>3, <2>1, <2>2 DEF C!vars, CloseInv, HubCloses, RoutesHold, C!RouteFollowsHandlers
<1> QED BY Zenon, <1>1, <1>2, <1>3, CloseHubStep, DeliverV2Step DEF C!Next

LEMMA CloseInvInit ==
  ASSUME C!Init
  PROVE  CloseInv
<1>1. \A t \in C!Threads : stack[t] = <<>> /\ Len(stack[t]) = 0
  BY Zenon DEF C!Init
<1>2. stack \in [C!Threads -> Seq(Frames)]
  BY DEF C!Init
<1>3. StacksHold
  BY <1>1, <1>2 DEF StacksHold, Chained, RunsOnce, OneRunner
<1>4. OnceTells
  BY Zenon DEF C!Init, OnceTells
<1>5. HubCloses
  BY Zenon, <1>1 DEF C!Init, HubCloses, C!Threads
<1>6. RoutesHold
  BY Zenon DEF C!Init, RoutesHold, C!RouteFollowsHandlers
<1>7. C!NoCircularWait
  <2> SUFFICES ASSUME NEW circle \in (SUBSET C!Threads) \ {{}}
               PROVE  \E t \in circle : \A u \in circle : ~C!WaitsFor(t, u)
    BY Zenon DEF C!NoCircularWait
  <2>1. PICK t \in circle : TRUE
    BY Zenon
  <2> QED BY Zenon, <1>1, <2>1 DEF C!WaitsFor
<1> QED BY Zenon, <1>3, <1>4, <1>5, <1>6, <1>7 DEF CloseInv

(* However sessions, the bridge and the hub close sessions, the function   *)
(* route is held exactly while there is a handler, no thread waits for     *)
(* itself through others, and a hub that has closed has no session.        *)
THEOREM ClosingIsSound ==
  ASSUME ThreadsDiffer
  PROVE  C!Spec => []C!HubFollowsSessions
<1>1. CloseInv => C!HubFollowsSessions
  BY Zenon DEF CloseInv, C!HubFollowsSessions, C!TypeOK, OnceTells, RoutesHold, HubCloses, C!ClosedHubIsEmpty
<1> QED BY <1>1, CloseInvInit, CloseInvStep, PTL DEF C!Spec
=============================================================================
