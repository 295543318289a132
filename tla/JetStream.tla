----------------------------- MODULE JetStream -----------------------------
(***************************************************************************)
(* The NATS JetStream work-queue stream (RH_DELIVERIES or RH_CALLBACKS) as *)
(* RelayHub uses it: publication with a message id and a duplicate window, *)
(* explicit acknowledgement, unlimited redelivery.  The server is not part *)
(* of the repository; what is modelled is what broker/nats/client.go and   *)
(* broker/nats/bootstrap.go ask of it.                                     *)
(*                                                                         *)
(* A physical message is a pair <<id, copy>>: a publication repeated after *)
(* the duplicate window has passed is stored a second time.                *)
(***************************************************************************)
EXTENDS Naturals

CONSTANTS
  Ids,        \* message ids: one per delivery and generation
  Copies,     \* bound: physical messages that one id may be stored as
  MayExpire   \* whether messages may outlive the stream's MaxAge

ASSUME CopiesAssumption == Copies \in Nat \ {0}
ASSUME MayExpireAssumption == MayExpire \in BOOLEAN

VARIABLES
  messages,   \* [Ids \X (1..Copies) -> MessageStates]
  window      \* ids the server still recognises as duplicates

streamVars == <<messages, window>>

Messages == Ids \X (1..Copies)

(* "none": not stored; "ready": may be handed to a consumer; "pending":    *)
(* handed out and not acknowledged; "acked", "expired": gone.              *)
MessageStates == {"none", "ready", "pending", "acked", "expired"}

StreamTypeOK ==
  /\ messages \in [Messages -> MessageStates]
  /\ window \in SUBSET Ids

StreamInit ==
  /\ messages = [m \in Messages |-> "none"]
  /\ window = {}

(* The id was accepted by the stream at some time. *)
Stored(id) == \E c \in 1..Copies : messages[<<id, c>>] # "none"

(* Some copy can still reach a consumer. *)
Recoverable(id) == \E c \in 1..Copies : messages[<<id, c>>] \in {"ready", "pending"}

(* Some copy was dropped at the maximum age. *)
TimedOut(id) == \E c \in 1..Copies : messages[<<id, c>>] = "expired"

(* The server accepts a publication: a known id is a duplicate and stores  *)
(* nothing, any other id is stored once more.                              *)
Accept(id) ==
  \/ /\ id \in window
     /\ UNCHANGED streamVars
  \/ /\ id \notin window
     /\ \E c \in 1..Copies :
          /\ messages[<<id, c>>] = "none"
          /\ \A k \in 1..(c - 1) : messages[<<id, k>>] # "none"
          /\ messages' = [messages EXCEPT ![<<id, c>>] = "ready"]
     /\ window' = window \cup {id}

(* The duplicate window passes.  The bound Copies limits how often. *)
ForgetDuplicate(id) ==
  /\ id \in window
  /\ \E c \in 1..Copies : messages[<<id, c>>] = "none"
  /\ window' = window \ {id}
  /\ UNCHANGED messages

(* The message reaches the stream's MaxAge before it is acknowledged. *)
ExpireMessage(m) ==
  /\ MayExpire
  /\ messages[m] \in {"ready", "pending"}
  /\ messages' = [messages EXCEPT ![m] = "expired"]
  /\ UNCHANGED window

(* The consumer is handed a message, or handed it again because the wait   *)
(* for its acknowledgement ran out (no MaxDeliver is configured).          *)
HandOut(m) ==
  /\ messages[m] \in {"ready", "pending"}
  /\ messages' = [messages EXCEPT ![m] = "pending"]
  /\ UNCHANGED window

(* An acknowledgement names the stored message, so it counts even when it  *)
(* comes from an earlier hand-out.                                         *)
AckMessage(m) ==
  /\ messages' = [messages EXCEPT ![m] = IF @ \in {"ready", "pending"} THEN "acked" ELSE @]
  /\ UNCHANGED window

NackMessage(m) ==
  /\ messages' = [messages EXCEPT ![m] = IF @ = "pending" THEN "ready" ELSE @]
  /\ UNCHANGED window
=============================================================================
