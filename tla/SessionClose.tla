---------------------------- MODULE SessionClose ----------------------------
(***************************************************************************)
(* Closing realtime sessions: Session.Close (realtime/session.go), Send,   *)
(* DeliverV2, register and Close of the hub (realtime/hub.go) and the      *)
(* function routes of realtime/nats_bridge.go.                             *)
(*                                                                         *)
(* Close runs inside a sync.Once, and while it runs it delivers a leave    *)
(* frame to the other members of the channel.  A member whose queue is     *)
(* full is closed on the spot, inside the first Close.  A second caller of *)
(* a Close that is running waits for its end.  A thread is the stack of    *)
(* calls of a goroutine.  Without a bridge frames are delivered by the     *)
(* thread that sends them, with a bridge by the thread of its callback.    *)
(***************************************************************************)
EXTENDS Integers, Sequences, FiniteSets

CONSTANTS
  Sessions,
  None,        \* no session
  Bridged,     \* frames are routed by the bridge
  Handlers     \* sessions that subscribe to functions

Threads == Sessions \cup {"hub", "bridge"}

VARIABLES
  registered,  \* hub.sessions
  closed,      \* hub.closed
  members,     \* sessions that have joined the channel
  handling,    \* sessions that are subscribed to functions
  route,       \* the hub holds the function route of the application
  done,        \* sessions whose channel done is closed
  once,        \* state of the sync.Once of every session
  stack,       \* calls of every thread, the innermost first
  wire         \* leave frames that the bridge has not delivered

vars == <<registered, closed, members, handling, route, done, once, stack, wire>>

(* A call of Close for a session, or (None) a loop over targets. *)
Call(s, pc, targets) == [session |-> s, pc |-> pc, targets |-> targets, closing |-> None]

Init ==
  /\ registered = {} /\ closed = FALSE /\ members = {} /\ handling = {} /\ route = FALSE
  /\ done = {} /\ once = [s \in Sessions |-> "new"]
  /\ stack = [t \in Threads |-> <<>>] /\ wire = 0

Top(t) == Head(stack[t])
At(t, pc) == stack[t] # <<>> /\ Top(t).pc = pc /\ Top(t).closing = None
Become(t, call) == stack' = [stack EXCEPT ![t] = <<call>> \o Tail(@)]

-----------------------------------------------------------------------------
MayRegister == ~closed

(* A session that comes too late is closed by whoever asked for it. *)
Register(s) ==
  /\ s \notin registered /\ once[s] = "new" /\ stack[s] = <<>>
  /\ IF MayRegister THEN registered' = registered \cup {s} /\ UNCHANGED stack
     ELSE /\ stack' = [stack EXCEPT ![s] = <<[Call(None, "loop", {}) EXCEPT !.closing = s]>>]
          /\ UNCHANGED registered
  /\ UNCHANGED <<closed, members, handling, route, done, once, wire>>

(* Subscribes to the channel and enters presence. *)
Join(s) ==
  /\ s \in registered \ members /\ members' = members \cup {s}
  /\ UNCHANGED <<registered, closed, handling, route, done, once, stack, wire>>

(* Subscribe to functions: the first handler of the application makes the *)
(* hub join the route; when that fails, nothing changes.                  *)
SubscribeFunctions(s) ==
  /\ s \in (registered \cap Handlers) \ handling
  /\ handling' = handling \cup {s} /\ route' = TRUE
  /\ UNCHANGED <<registered, closed, members, done, once, stack, wire>>

(* The reader or the writer of a session ends and closes it. *)
Serve(s) ==
  /\ s \in registered /\ stack[s] = <<>>
  /\ stack' = [stack EXCEPT ![s] = <<[Call(None, "loop", {}) EXCEPT !.closing = s]>>]
  /\ UNCHANGED <<registered, closed, members, handling, route, done, once, wire>>

CloseHub ==
  /\ ~closed /\ closed' = TRUE
  /\ stack' = [stack EXCEPT !["hub"] = <<Call(None, "close", registered)>>]
  /\ UNCHANGED <<registered, members, handling, route, done, once, wire>>

-----------------------------------------------------------------------------
(* once.Do: the first caller runs, a later one waits, or finds it done. *)
EnterClose(t) ==
  /\ stack[t] # <<>> /\ Top(t).closing # None /\ once[Top(t).closing] = "new"
  /\ once' = [once EXCEPT ![Top(t).closing] = "running"]
  /\ done' = done \cup {Top(t).closing}
  /\ stack' = [stack EXCEPT ![t] = <<Call(Top(t).closing, "remove", {})>> \o @]
  /\ UNCHANGED <<registered, closed, members, handling, route, wire>>

AlreadyClosed(t) ==
  /\ stack[t] # <<>> /\ Top(t).closing # None /\ once[Top(t).closing] = "done"
  /\ Become(t, [Top(t) EXCEPT !.closing = None])
  /\ UNCHANGED <<registered, closed, members, handling, route, done, once, wire>>

Removed(t) == registered \ {Top(t).session}

\* mutant of RouteAfter: every handler that leaves releases the route
RouteAfterAny(s) == route /\ s \notin handling

RouteAfter(s) == route /\ (s \in handling => \E h \in handling \ {s} : h \in registered)

(* Under the mutex; a session that was never registered has nothing to do. *)
RemoveSession(t) ==
  LET s == Top(t).session IN
    /\ At(t, "remove")
    /\ registered' = Removed(t) /\ handling' = handling \ {s} /\ route' = RouteAfter(s)
    /\ Become(t, Call(s, IF s \in registered \cap members THEN "leave" ELSE "finish", {}))
    /\ UNCHANGED <<closed, members, done, once, wire>>

(* The leave frame: to the bridge, or DeliverV2 chooses its targets. *)
DispatchLeave(t) ==
  LET s == Top(t).session IN
    /\ At(t, "leave")
    /\ IF Bridged THEN wire' = wire + 1 /\ Become(t, Call(s, "finish", {}))
       ELSE Become(t, Call(s, "send", registered \cap members)) /\ UNCHANGED wire
    /\ UNCHANGED <<registered, closed, members, handling, route, done, once>>

(* A frame of the bridge, a leave or any other, is delivered. *)
DeliverV2 ==
  /\ Bridged /\ stack["bridge"] = <<>>
  /\ wire' \in {wire, IF wire > 0 THEN wire - 1 ELSE 0}
  /\ registered \cap members # {}
  /\ stack' = [stack EXCEPT !["bridge"] = <<Call(None, "send", registered \cap members)>>]
  /\ UNCHANGED <<registered, closed, members, handling, route, done, once>>

(* Send to the next target: a target that is not done and whose queue is   *)
(* full is closed.                                                         *)
Send(t, s, full) ==
  /\ At(t, "send") /\ s \in Top(t).targets
  /\ Become(t, [Top(t) EXCEPT !.targets = @ \ {s},
                              !.closing = IF full /\ s \notin done THEN s ELSE None])
  /\ UNCHANGED <<registered, closed, members, handling, route, done, once, wire>>

(* The loop of Hub.Close. *)
CloseNext(t, s) ==
  /\ At(t, "close") /\ s \in Top(t).targets
  /\ Become(t, [Top(t) EXCEPT !.targets = @ \ {s}, !.closing = s])
  /\ UNCHANGED <<registered, closed, members, handling, route, done, once, wire>>

Return(t) ==
  /\ stack[t] # <<>> /\ Top(t).closing = None
  /\ Top(t).pc \in {"finish", "loop"} \/ (Top(t).pc \in {"send", "close"} /\ Top(t).targets = {})
  /\ LET s == Top(t).session IN
       /\ once' = IF s = None THEN once ELSE [once EXCEPT ![s] = "done"]
       /\ stack' = [stack EXCEPT ![t] =
            IF s = None THEN <<>>
            ELSE <<[Head(Tail(@)) EXCEPT !.closing = None]>> \o Tail(Tail(@))]
  /\ UNCHANGED <<registered, closed, members, handling, route, done, wire>>

ThreadStep(t) ==
  \/ EnterClose(t) \/ AlreadyClosed(t) \/ RemoveSession(t) \/ DispatchLeave(t) \/ Return(t)
  \/ \E s \in Sessions, full \in BOOLEAN : Send(t, s, full)
  \/ \E s \in Sessions : CloseNext(t, s)

Next ==
  \/ \E s \in Sessions : Register(s) \/ Join(s) \/ SubscribeFunctions(s) \/ Serve(s)
  \/ \E t \in Threads : ThreadStep(t)
  \/ CloseHub \/ DeliverV2

Spec == Init /\ [][Next]_vars

-----------------------------------------------------------------------------
TypeOK ==
  /\ registered \subseteq Sessions /\ done \subseteq Sessions
  /\ once \in [Sessions -> {"new", "running", "done"}]

(* t waits for the end of a Close that u runs. *)
WaitsFor(t, u) ==
  /\ stack[t] # <<>> /\ Top(t).closing # None
  /\ \E i \in DOMAIN stack[u] : stack[u][i].session = Top(t).closing

(* Nobody waits for ever, though the Closes of several sessions call and   *)
(* wait for each other: threads never wait for each other in a circle, and *)
(* none waits for itself, so every Close that is called can return.        *)
NoCircularWait ==
  \A circle \in (SUBSET Threads) \ {{}} : \E t \in circle : \A u \in circle : ~WaitsFor(t, u)

(* When Close of the hub has returned, no session is registered and none   *)
(* will be, also if one was being registered at the time.                  *)
ClosedHubIsEmpty == closed /\ stack["hub"] = <<>> => registered = {}

(* The hub holds the function route exactly while it has a handler, however*)
(* handlers come and go.                                                   *)
RouteFollowsHandlers == route <=> handling \cap registered # {}

(* The hub holds the function route exactly while it has a handler, threads*)
(* that close sessions never wait in a circle, and a closed hub is empty.  *)
HubFollowsSessions == TypeOK /\ RouteFollowsHandlers /\ ClosedHubIsEmpty /\ NoCircularWait
=============================================================================
