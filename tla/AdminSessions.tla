---------------------------- MODULE AdminSessions ----------------------------
(***************************************************************************)
(* Browser sessions of the console: service/admin_sessions.go over the     *)
(* records of redisstate/session.go and the users of                       *)
(* store/postgres/admin_users.go.                                          *)
(*                                                                         *)
(* Every call of Redis or PostgreSQL is a step.  Calls of a login, of a    *)
(* refresh and of the revocation that follows a change of the password     *)
(* interleave.  Instants are the time left until them; a session that was  *)
(* read goes on ageing in the hands of its reader.                         *)
(***************************************************************************)
EXTENDS Integers, FiniteSets

CONSTANTS
  Sessions, Callers, Users, None,
  IdleTTL, AbsoluteTTL,
  MaxPasswords     \* bound: passwords a user has had

VARIABLES
  user,      \* [enabled, password]
  stored,    \* the record of a session, or None
  caller,    \* logins, refreshes and the administrator
  age,       \* history: time since the session was issued
  issued     \* history: the password with which it was issued

vars == <<user, stored, caller, age, issued>>

Idle == [pc |-> "idle", user |-> None, session |-> None, read |-> None, todo |-> {}, overlapped |-> {}]

Record(u, idle, absolute) == [user |-> u, idle |-> idle, absolute |-> absolute]
Least(a, b) == IF a < b THEN a ELSE b

Init ==
  /\ user = [u \in Users |-> [enabled |-> TRUE, password |-> 1]]
  /\ stored = [s \in Sessions |-> None] /\ caller = [c \in Callers |-> Idle]
  /\ age = [s \in Sessions |-> 0] /\ issued = [s \in Sessions |-> 0]

Answer(c) == caller' = [caller EXCEPT ![c] = Idle]

(* A random id is new: nothing has referred to it. *)
Fresh(s) ==
  /\ issued[s] = 0 /\ \A c \in Callers : caller[c].session # s

-----------------------------------------------------------------------------
(* Exchange: AuthenticateAdminUser, then Put. *)
AuthenticateAdminUser(c, u, s) ==
  /\ caller[c] = Idle /\ user[u].enabled /\ Fresh(s)
  /\ caller' = [caller EXCEPT ![c] = [Idle EXCEPT !.pc = "exchange", !.user = u, !.session = s,
                                                  !.read = user[u].password]]
  /\ UNCHANGED <<user, stored, age, issued>>

Exchange(c) ==
  LET s == caller[c].session IN
  /\ caller[c].pc = "exchange" /\ Answer(c)
  /\ stored' = [stored EXCEPT ![s] = Record(caller[c].user, IdleTTL, AbsoluteTTL)]
  /\ issued' = [issued EXCEPT ![s] = caller[c].read]
  /\ UNCHANGED <<user, age>>

(* validateAndTouchSessionScript: what has expired is gone. *)
Touched(r) == [r EXCEPT !.idle = Least(IdleTTL, r.absolute)]

Authenticate(s) ==
  /\ stored[s] # None
  /\ stored' = [stored EXCEPT ![s] = Touched(@)]
  /\ UNCHANGED <<user, caller, age, issued>>

-----------------------------------------------------------------------------
(* Refresh: Authenticate, Get, Put. *)
RefreshAuthenticates(c, s) ==
  /\ caller[c] = Idle /\ stored[s] # None
  /\ stored' = [stored EXCEPT ![s] = Touched(@)]
  /\ caller' = [caller EXCEPT ![c] = [Idle EXCEPT !.pc = "get", !.session = s]]
  /\ UNCHANGED <<user, age, issued>>

RefreshGets(c) ==
  LET r == stored[caller[c].session] IN
  /\ caller[c].pc = "get"
  /\ IF r = None THEN Answer(c)
     ELSE caller' = [caller EXCEPT ![c].pc = "put", ![c].read = r]
  /\ UNCHANGED <<user, stored, age, issued>>

(* The new idle time ends with the session; Put writes whatever is there,  *)
(* unless the session has ended meanwhile.                                 *)
Extended(r) == [r EXCEPT !.idle = Least(IdleTTL, r.absolute)]

RefreshPuts(c) ==
  LET s == caller[c].session
      r == Extended(caller[c].read) IN
  /\ caller[c].pc = "put" /\ Answer(c)
  /\ stored' = IF Least(r.idle, r.absolute) <= 0 THEN stored ELSE [stored EXCEPT ![s] = r]
  /\ UNCHANGED <<user, age, issued>>

Logout(s) ==
  /\ stored[s] # None /\ stored' = [stored EXCEPT ![s] = None]
  /\ UNCHANGED <<user, caller, age, issued>>

-----------------------------------------------------------------------------
(* The administrator. *)
SetEnabled(u) ==
  /\ user' = [user EXCEPT ![u].enabled = ~@]
  /\ UNCHANGED <<stored, caller, age, issued>>

(* rotatePassword: RotateAdminUserPassword, then RevokeAdminUserSessions,  *)
(* which scans the keys and reads and deletes one at a time.  SCAN returns *)
(* every key that is there from its start to its end.  read: the password  *)
(* that was set.                                                           *)
Writers == {caller[d].session : d \in {e \in Callers : caller[e].pc \in {"exchange", "get", "put"}}}

RotatePassword(c, u) ==
  /\ caller[c] = Idle /\ user[u].password < MaxPasswords
  /\ user' = [user EXCEPT ![u].password = @ + 1]
  /\ caller' = [caller EXCEPT ![c] = [Idle EXCEPT !.pc = "scan", !.user = u,
                                                  !.read = user[u].password + 1]]
  /\ UNCHANGED <<stored, age, issued>>

Scan(c) ==
  /\ caller[c].pc = "scan"
  /\ caller' = [caller EXCEPT ![c].pc = "revoke",
                              ![c].todo = {s \in Sessions : stored[s] # None},
                              ![c].overlapped = Writers]
  /\ UNCHANGED <<user, stored, age, issued>>

\* mutant of Belongs: the first session found is the only one
BelongsFirst(c, s) == stored[s] # None /\ stored[s].user = caller[c].user
                      /\ caller[c].todo = {t \in Sessions : stored[t] # None}

Belongs(c, s) == stored[s] # None /\ stored[s].user = caller[c].user

RevokeNext(c, s) ==
  /\ caller[c].pc = "revoke" /\ s \in caller[c].todo
  /\ stored' = IF Belongs(c, s) THEN [stored EXCEPT ![s] = None] ELSE stored
  /\ caller' = [caller EXCEPT ![c].todo = @ \ {s},
                              ![c].overlapped = @ \cup Writers]
  /\ UNCHANGED <<user, age, issued>>

Revoked(c) ==
  /\ caller[c].pc = "revoke" /\ caller[c].todo = {}
  /\ caller' = [caller EXCEPT ![c].pc = "revoked"]
  /\ UNCHANGED <<user, stored, age, issued>>

Done(c) ==
  /\ caller[c].pc = "revoked" /\ Answer(c)
  /\ UNCHANGED <<user, stored, age, issued>>

-----------------------------------------------------------------------------
Aged(r) ==
  [r EXCEPT !.idle = @ - 1, !.absolute = @ - 1]

Tick ==
  /\ stored' = [s \in Sessions |->
       IF stored[s] = None \/ stored[s].idle = 1 \/ stored[s].absolute = 1 THEN None ELSE Aged(stored[s])]
  /\ caller' = [c \in Callers |->
       IF caller[c].pc # "put" THEN caller[c]
       ELSE [caller[c] EXCEPT !.read = IF @.absolute = 0 THEN @ ELSE Aged(@)]]
  /\ age' = [s \in Sessions |-> IF issued[s] # 0 /\ age[s] <= AbsoluteTTL THEN age[s] + 1 ELSE age[s]]
  /\ UNCHANGED <<user, issued>>

Next ==
  \/ \E c \in Callers :
       \/ \E s \in Sessions : \/ \E u \in Users : AuthenticateAdminUser(c, u, s)
                              \/ RefreshAuthenticates(c, s) \/ RevokeNext(c, s)
       \/ \E u \in Users : RotatePassword(c, u)
       \/ Exchange(c) \/ RefreshGets(c) \/ RefreshPuts(c) \/ Scan(c) \/ Revoked(c) \/ Done(c)
  \/ \E s \in Sessions : Authenticate(s) \/ Logout(s)
  \/ \E u \in Users : SetEnabled(u)
  \/ Tick

Spec == Init /\ [][Next]_vars

-----------------------------------------------------------------------------
TypeOK ==
  /\ user \in [Users -> [enabled : BOOLEAN, password : 1..MaxPasswords]]
  /\ \A s \in Sessions : stored[s] # None =>
       stored[s].idle \in 1..IdleTTL /\ stored[s].absolute \in 1..AbsoluteTTL

(* However often it is used and refreshed, and however late a refresh      *)
(* writes back what it has read, a session ends AbsoluteTTL after the      *)
(* login.                                                                  *)
EndsInTime ==
  \A s \in Sessions : stored[s] # None => age[s] + stored[s].absolute <= AbsoluteTTL

(* When the revocation after a change of the password has returned, the    *)
(* sessions of the user from before that change which are left come from a *)
(* login or a refresh that was under way while it ran.                     *)
RevokedAreGone ==
  \A c \in Callers : caller[c].pc = "revoked" =>
    \A s \in Sessions :
      stored[s] # None /\ stored[s].user = caller[c].user /\ issued[s] < caller[c].read =>
        s \in caller[c].overlapped

(* Sessions end: by their time, and by the revocation. *)
RevocationIsComplete == TypeOK /\ EndsInTime /\ RevokedAreGone
=============================================================================
