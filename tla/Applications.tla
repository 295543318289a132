----------------------------- MODULE Applications -----------------------------
(***************************************************************************)
(* One application of service/apps.go over store/postgres/apps.go: its     *)
(* configuration, the callback endpoint kept beside it and its credentials.*)
(* An update reads the row, merges the fields of the request, checks the   *)
(* whole configuration and writes it if the editable fields are still the  *)
(* ones it has read; else it starts again.  Transactions are single steps. *)
(***************************************************************************)
EXTENDS Integers, Sequences

CONSTANTS
  Editors,      \* requests that update the application
  Clients,      \* requests that authenticate with an API key
  Names, Urls,
  None,         \* no application, URL or endpoint
  Attempts,     \* rounds of an update
  MaxVersion    \* bound: versions of the credential

(* "queue" stands for websocket too and "callback" for all: what matters here *)
(* is whether the mode needs a URL.                                           *)
Modes == {"queue", "callback"}
Fields == {"name", "url", "mode"}
Values == [name |-> Names, url |-> Urls \cup {None}, mode |-> Modes]
Configs == [name : Names, url : Urls \cup {None}, mode : Modes]
(* The fields a request sets, with the values it sets them to. *)
Patches == UNION {[{f} -> Values[f]] : f \in Fields} \cup
           {[url |-> u, mode |-> m] : u \in Urls \cup {None}, m \in Modes}

VARIABLES
  app,          \* editable fields of the row, or None
  enabled,
  endpoint,     \* row of callback_endpoints: URL and whether enabled
  revoked,      \* per version of the credential: is it revoked
  editor,       \* local state of the updates
  client        \* local state of the authentications

vars == <<app, enabled, endpoint, revoked, editor, client>>

validate(c) == c.mode = "callback" => c.url # None

EndpointOf(c, on) == IF c.url = None THEN None ELSE [url |-> c.url, enabled |-> on]

Init ==
  /\ app = None /\ enabled = FALSE /\ endpoint = None /\ revoked = <<>>
  /\ editor \in [Editors -> {[pc |-> "read", patch |-> p, expected |-> None, round |-> 1] :
                               p \in Patches}]
  /\ client = [c \in Clients |-> [pc |-> "find", key |-> 0]]

CreateApplication(config) ==
  /\ app = None /\ validate(config)
  /\ app' = config /\ enabled' = TRUE
  /\ endpoint' = EndpointOf(config, TRUE)
  /\ revoked' = <<FALSE>>
  /\ UNCHANGED <<editor, client>>

-----------------------------------------------------------------------------
Merged(c, patch) == [f \in Fields |-> IF f \in DOMAIN patch THEN patch[f] ELSE c[f]]

End(e, result) == editor' = [editor EXCEPT ![e].pc = result]

GetApplication(e) ==
  /\ editor[e].pc = "read" /\ app # None
  /\ IF validate(Merged(app, editor[e].patch))
     THEN editor' = [editor EXCEPT ![e].pc = "write", ![e].expected = app]
     ELSE End(e, "invalid")
  /\ UNCHANGED <<app, enabled, endpoint, revoked, client>>

\* mutant of Unchanged: UpdateApplication, which compares nothing
UnchangedUnchecked(e) == TRUE

(* The WHERE clause of CompareAndSwapApplication. *)
Unchanged(e) == editor[e].expected = app

(* syncCallback writes what the row says now. *)
EndpointEnabled == enabled

CompareAndSwap(e) ==
  /\ editor[e].pc = "write"
  /\ IF Unchanged(e)
     THEN LET config == Merged(editor[e].expected, editor[e].patch) IN
            /\ app' = config /\ endpoint' = EndpointOf(config, EndpointEnabled)
            /\ End(e, "done")
     ELSE /\ IF editor[e].round < Attempts
             THEN editor' = [editor EXCEPT ![e].pc = "read", ![e].round = @ + 1]
             ELSE End(e, "conflict")
          /\ UNCHANGED <<app, endpoint>>
  /\ UNCHANGED <<enabled, revoked, client>>

Disable ==
  /\ enabled /\ enabled' = FALSE
  /\ endpoint' = IF endpoint = None THEN None ELSE [endpoint EXCEPT !.enabled = FALSE]
  /\ UNCHANGED <<app, revoked, editor, client>>

(* All live credentials are revoked, then the next version is stored. *)
RotateSecret ==
  /\ app # None /\ Len(revoked) < MaxVersion
  /\ \E v \in DOMAIN revoked : ~revoked[v]
  /\ revoked' = Append([v \in DOMAIN revoked |-> TRUE], FALSE)
  /\ UNCHANGED <<app, enabled, endpoint, editor, client>>

-----------------------------------------------------------------------------
(* AuthenticateAPIKey: the credential of the key, then the application. *)
FindCredential(c) ==
  /\ client[c].pc = "find"
  /\ \E v \in DOMAIN revoked :
       client' = [client EXCEPT ![c] =
         [pc |-> IF revoked[v] THEN "unauthorized" ELSE "app", key |-> v]]
  /\ UNCHANGED <<app, enabled, endpoint, revoked, editor>>

CheckEnabled(c) ==
  /\ client[c].pc = "app"
  /\ client' = [client EXCEPT ![c].pc = IF enabled THEN "authenticated" ELSE "unauthorized"]
  /\ UNCHANGED <<app, enabled, endpoint, revoked, editor>>

Next ==
  \/ \E config \in Configs : CreateApplication(config)
  \/ \E e \in Editors : GetApplication(e) \/ CompareAndSwap(e)
  \/ \E c \in Clients : FindCredential(c) \/ CheckEnabled(c)
  \/ Disable \/ RotateSecret

Spec == Init /\ [][Next]_vars

-----------------------------------------------------------------------------
TypeOK ==
  /\ app \in Configs \cup {None} /\ enabled \in BOOLEAN
  /\ endpoint \in [url : Urls, enabled : BOOLEAN] \cup {None}
  /\ revoked \in Seq(BOOLEAN)

(* However updates and disabling overlap, an application that wants        *)
(* callbacks has a URL, though each update has checked only what it read.  *)
CallbacksHaveUrl == app # None => validate(app)

(* The endpoint row agrees with the application row: same URL, and enabled *)
(* exactly when the application is.                                        *)
EndpointAgrees == app # None => endpoint = EndpointOf(app, enabled)

(* One credential is valid, the latest, and it stays valid until it is     *)
(* rotated; a revoked one never comes back.                                *)
LatestCredentialIsValid ==
  app # None => \A v \in DOMAIN revoked : revoked[v] <=> v < Len(revoked)

(* An update changes only the fields its request sets: what others changed *)
(* since it read the row stays.                                            *)
OnlyPatchedFields ==
  [][\A e \in Editors : editor[e].pc = "write" /\ editor'[e].pc = "done" =>
       \A f \in Fields : app'[f] = IF f \in DOMAIN editor[e].patch
                                   THEN editor[e].patch[f] ELSE app[f]]_vars
=============================================================================
