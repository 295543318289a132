--------------------------- MODULE RealtimeProofs ---------------------------
(***************************************************************************)
(* What is proved of three parts of realtime messaging that share no state:*)
(* a subscription to a channel, the presence of connections (P) and the    *)
(* rate at which sessions publish (G).                                     *)
(*                                                                         *)
(* The channel.  A message is routed once, and frames keep their order on  *)
(* the way from the router to the subscriber.  The page of a rewind is read*)
(* after the subscription is in place: a message that the page lacks is    *)
(* routed later, and waits in the buffer until the page has been sent.     *)
(*                                                                         *)
(* Presence.  A record that its owner refreshes every period still has a   *)
(* period to live when the next refresh begins.                            *)
(*                                                                         *)
(* The rate.  What a bucket has granted since a tick and what it could     *)
(* grant now stay within its limit and what the ticks since then refill.   *)
(***************************************************************************)
EXTENDS RealtimeChannel, TLAPS

-----------------------------------------------------------------------------
(* RealtimeChannel *)

(* What the proofs assume of the constants. *)
ChannelSensible ==
  /\ Stored \subseteq Messages /\ \A a \in Actions : MessageOf[a] \in Messages
  /\ Limit \in Nat /\ HistoryMax \in Nat \ {0} /\ QueueSize \in Nat

Routed == [kind : {"message", "action"}, of : Messages]
Live == [kind : {"message", "action"}, of : Messages, under : Nat]
Told == [kind : {"page", "part", "error", "subscribed"}, of : SUBSET Messages, under : Nat]
Shown == Live \cup Told
Readers ==
  [pc : {"idle", "read", "confirm", "finish", "flush"}, page : SUBSET Messages, batch : Seq(Live)]

PublishTyped ==
  /\ publisher \in [Messages -> {"start", "append", "route", "done", "failed"}]
  /\ stream \in Seq(Messages) /\ Len(stream) <= HistoryMax /\ trimmed \in Nat /\ wire \in Seq(Routed)

SessionTyped ==
  /\ deliverer \in Seq(Live) /\ Len(deliverer) <= 1
  /\ open \in BOOLEAN /\ subscribed \in BOOLEAN /\ rewinding \in BOOLEAN
  /\ buffer \in Seq(Live) /\ Len(buffer) <= QueueSize /\ seen \in SUBSET Messages
  /\ outbound \in Seq(Shown) /\ Len(outbound) <= QueueSize /\ reader \in Readers
  /\ received \in Seq(Shown) /\ arrived \in Seq(Live) /\ subscriptions \in Nat

ChannelTyped == PublishTyped /\ SessionTyped

(* A message is routed once, so one frame of it is ever under way or has   *)
(* ever arrived.                                                           *)
RoutedOnce ==
  /\ \A i \in DOMAIN wire : wire[i].kind = "message" => publisher[wire[i].of] = "done"
  /\ \A i \in DOMAIN arrived : arrived[i].kind = "message" => publisher[arrived[i].of] = "done"
  /\ \A i, j \in DOMAIN wire :
       wire[i].kind = "message" /\ wire[j].kind = "message" /\ wire[i].of = wire[j].of => i = j
  /\ \A i, j \in DOMAIN arrived :
       arrived[i].kind = "message" /\ arrived[j].kind = "message" /\ arrived[i].of = arrived[j].of => i = j
  /\ \A i \in DOMAIN wire, j \in DOMAIN arrived :
       wire[i].kind = "message" /\ arrived[j].kind = "message" => wire[i].of # arrived[j].of

(* What is kept was appended before it was routed, and until the history is*)
(* trimmed it holds all of it.                                             *)
Kept == {stream[i] : i \in DOMAIN stream}
Written(m) == publisher[m] \in {"route", "done", "failed"}

AppendedFirst ==
  /\ \A m \in Stored : publisher[m] \in {"route", "done"} /\ trimmed = 0 => m \in Kept
  /\ \A m \in Kept \cup seen \cup reader.page : Written(m)
  /\ trimmed = 0 => seen \cup reader.page \subseteq Kept

(* The buffer and the page belong to the rewind that is going on. *)
RewindsInTurn ==
  /\ subscribed => open
  /\ reader.pc \in {"idle", "read"} => reader.page = {}
  /\ ~rewinding => reader.page = {} /\ reader.pc # "read"
  /\ reader.pc # "flush" => reader.batch = <<>>
  /\ open /\ ~rewinding => buffer = <<>> /\ reader.pc \in {"idle", "confirm"}
  /\ open /\ rewinding => reader.pc # "idle"

(* Frames carry the subscription they were chosen under. *)
Numbered ==
  /\ \A i \in DOMAIN Sent : Sent[i].under <= subscriptions
  /\ open =>
       /\ \A i \in DOMAIN deliverer : deliverer[i].under <= subscriptions
       /\ \A i \in DOMAIN reader.batch : reader.batch[i].under = subscriptions
       /\ \A i \in DOMAIN buffer : buffer[i].under = subscriptions
       /\ reader.pc = "read" => /\ \A i \in DOMAIN Sent : Sent[i].under # subscriptions
                                /\ \A i \in DOMAIN deliverer : deliverer[i].under # subscriptions

Before(f, g) == \E k, l \in DOMAIN arrived : k < l /\ arrived[k] = f /\ arrived[l] = g
FromHub(s) == \A i \in DOMAIN s : s[i].kind = "message" => \E k \in DOMAIN arrived : arrived[k] = s[i]
InOrder(s) ==
  \A i, j \in DOMAIN s : i < j /\ s[i].kind = "message" /\ s[j].kind = "message" => Before(s[i], s[j])
Precede(s, t) ==
  \A i \in DOMAIN s, j \in DOMAIN t : s[i].kind = "message" /\ t[j].kind = "message" => Before(s[i], t[j])

(* What is sent, what is about to be sent, what is flushed and what is     *)
(* buffered follow each other in the order of arrival.                     *)
Ordered ==
  /\ FromHub(Sent) /\ InOrder(Sent)
  /\ open =>
       /\ FromHub(deliverer) /\ FromHub(reader.batch) /\ FromHub(buffer)
       /\ deliverer # <<>> => reader.batch = <<>> /\ buffer = <<>>
       /\ Precede(Sent, deliverer) /\ Precede(Sent, reader.batch) /\ Precede(Sent, buffer)
       /\ InOrder(reader.batch) /\ InOrder(buffer) /\ Precede(reader.batch, buffer)

(* The frame of m will not arrive any more. *)
Gone(m) ==
  /\ publisher[m] \in {"done", "failed"}
  /\ \A i \in DOMAIN wire : wire[i].kind = "message" => wire[i].of # m

IsPage(f) == f.kind \in {"page", "part"}

(* Nothing that a page shows is shown live: it is dropped while the rewind *)
(* goes on, and remembered afterwards until its frame cannot arrive.       *)
Apart(s, t) ==
  \A i \in DOMAIN s, j \in DOMAIN t :
    IsPage(s[i]) /\ t[j].kind = "message" /\ s[i].under = t[j].under => t[j].of \notin s[i].of

Pages ==
  /\ Apart(Sent, Sent) /\ (open => Apart(Sent, deliverer))
  /\ open => \A i \in DOMAIN Sent : IsPage(Sent[i]) /\ Sent[i].under = subscriptions =>
       IF rewinding THEN Sent[i].of = reader.page
       ELSE \A m \in Sent[i].of : m \in seen \/ Gone(m)

Held(f) ==
  \/ \E i \in DOMAIN Sent : Sent[i] = f
  \/ \E i \in DOMAIN deliverer : deliverer[i] = f
  \/ \E i \in DOMAIN reader.batch : reader.batch[i] = f
  \/ \E i \in DOMAIN buffer : buffer[i] = f

(* A page that shows the whole history shows all that is remembered; what  *)
(* it does not show is on the way.                                         *)
NoGap ==
  open /\ subscribed =>
    \A p \in DOMAIN Sent : Sent[p].kind = "page" /\ Sent[p].under = subscriptions =>
      /\ seen \subseteq Sent[p].of
      /\ \A i \in DOMAIN arrived : arrived[i].kind = "message" /\ arrived[i].of \in Stored =>
           arrived[i].of \in Sent[p].of \/ Held([arrived[i] EXCEPT !.under = subscriptions])

ChannelInv ==
  ChannelTyped /\ RoutedOnce /\ AppendedFirst /\ RewindsInTurn /\ Numbered /\ Ordered /\ Pages /\ NoGap

-----------------------------------------------------------------------------
(* Sequences *)

LEMMA AppendFrame ==
  ASSUME NEW T, NEW s \in Seq(T), NEW x \in T
  PROVE  LET p == Append(s, x) IN
         /\ p \in Seq(T) /\ Len(p) = Len(s) + 1 /\ p[Len(s) + 1] = x
         /\ \A i \in 1..Len(s) : p[i] = s[i]
OBVIOUS

LEMMA TakeFrame ==
  ASSUME NEW T, NEW s \in Seq(T), s # <<>>
  PROVE  LET p == Tail(s) IN
         /\ Len(s) \in Nat \ {0} /\ Head(s) = s[1] /\ s[1] \in T
         /\ p \in Seq(T) /\ Len(p) = Len(s) - 1 /\ \A i \in 1..(Len(s) - 1) : p[i] = s[i + 1]
OBVIOUS

LEMMA ShiftedFrames ==
  ASSUME NEW T, NEW s \in Seq(T), s # <<>>
  PROVE  LET p == Tail(s) IN
         /\ p \in Seq(T) /\ 1 \in DOMAIN s /\ Head(s) = s[1] /\ s[1] \in T
         /\ \A i \in DOMAIN p : i + 1 \in DOMAIN s /\ p[i] = s[i + 1] /\ 1 < i + 1
         /\ \A i, j \in DOMAIN p : i < j => i + 1 < j + 1
         /\ \A i \in DOMAIN s : i = 1 \/ \E j \in DOMAIN p : p[j] = s[i]
<1> DEFINE p == Tail(s)  n == Len(s)
<1>1. n \in Nat \ {0} /\ DOMAIN s = 1..n /\ Head(s) = s[1] /\ s[1] \in T
      /\ p \in Seq(T) /\ DOMAIN p = 1..(n - 1) /\ \A i \in 1..(n - 1) : p[i] = s[i + 1]
  OBVIOUS
<1> HIDE DEF p, n
<1>2. \A i \in DOMAIN s : i = 1 \/ (i - 1 \in DOMAIN p /\ p[i - 1] = s[i])
  BY <1>1
<1>3. /\ 1 \in DOMAIN s /\ \A i \in DOMAIN p : i + 1 \in DOMAIN s /\ p[i] = s[i + 1] /\ 1 < i + 1
      /\ \A i, j \in DOMAIN p : i < j => i + 1 < j + 1
  BY <1>1
<1> QED BY Zenon, <1>1, <1>2, <1>3 DEF p

LEMMA JoinedFrames ==
  ASSUME NEW T, NEW r \in Seq(T), NEW o \in Seq(T)
  PROVE  LET p == r \o o IN
         /\ p \in Seq(T) /\ Len(p) = Len(r) + Len(o) /\ Len(r) \in Nat /\ Len(o) \in Nat
         /\ \A i \in 1..Len(r) : p[i] = r[i]
         /\ \A i \in 1..Len(o) : p[Len(r) + i] = o[i]
OBVIOUS

LEMMA MoveFrame ==
  ASSUME NEW T, NEW r \in Seq(T), NEW o \in Seq(T), o # <<>>
  PROVE  Append(r, Head(o)) \o Tail(o) = r \o o
<1> DEFINE p == Append(r, Head(o))  q == Tail(o)  x == p \o q  y == r \o o
<1>1. p \in Seq(T) /\ Len(p) = Len(r) + 1 /\ q \in Seq(T) /\ Len(q) = Len(o) - 1 /\ Len(r) \in Nat /\ Len(o) \in Nat
  OBVIOUS
<1>2. x \in Seq(T) /\ Len(x) = Len(p) + Len(q) /\ y \in Seq(T) /\ Len(y) = Len(r) + Len(o)
  <2> HIDE DEF p, q
  <2> QED BY Zenon, <1>1, JoinedFrames
<1>3. ASSUME NEW i \in 1..(Len(r) + Len(o)) PROVE x[i] = y[i]
  <2>1. CASE i <= Len(r)
    BY <2>1
  <2>2. CASE i = Len(r) + 1
    BY <2>2
  <2>3. CASE i > Len(r) + 1
    <3>1. x[i] = q[i - Len(p)] /\ q[i - Len(p)] = o[i - Len(p) + 1]
      BY <1>1, <2>3
    <3>2. y[i] = o[i - Len(r)]
      BY <1>1, <2>3
    <3> QED BY <1>1, <3>1, <3>2
  <2> QED BY <1>1, <2>1, <2>2, <2>3
<1> HIDE DEF x, y
<1> QED BY <1>1, <1>2, <1>3

LEMMA SendFrame ==
  ASSUME NEW T, NEW r \in Seq(T), NEW o \in Seq(T), NEW x \in T
  PROVE  r \o Append(o, x) = Append(r \o o, x)
OBVIOUS

LEMMA SentIs ==
  ASSUME SessionTyped
  PROVE  Sent \in Seq(Shown) /\ Len(Sent) \in Nat /\ DOMAIN Sent = 1..Len(Sent)
BY DEF SessionTyped, Sent

LEMMA SendEffect ==
  ASSUME ChannelSensible, SessionTyped, NEW f \in Shown, Send(f), UNCHANGED received
  PROVE  /\ outbound' \in Seq(Shown) /\ Len(outbound') <= QueueSize /\ UNCHANGED <<rewinding, buffer, seen>>
         /\ \/ open /\ UNCHANGED <<open, subscribed>> /\ Sent' = Append(Sent, f)
            \/ open' = FALSE /\ subscribed' = FALSE /\ Sent' = Sent
<1>1. CASE open /\ Len(outbound) < QueueSize
  <2>1. outbound' = Append(outbound, f) /\ UNCHANGED <<rewinding, buffer, seen, open, subscribed>>
    BY Zenon, <1>1 DEF Send, hub
  <2>2. outbound' \in Seq(Shown) /\ Len(outbound') = Len(outbound) + 1
    BY <2>1 DEF SessionTyped
  <2>3. Sent' = Append(Sent, f)
    BY <2>1, SendFrame DEF SessionTyped, Sent
  <2>4. Len(outbound') <= QueueSize
    BY <1>1, <2>2 DEF SessionTyped, ChannelSensible
  <2> QED BY Zenon, <1>1, <2>1, <2>2, <2>3, <2>4
<1>2. CASE ~(open /\ Len(outbound) < QueueSize)
  <2>1. open' = FALSE /\ subscribed' = FALSE /\ UNCHANGED <<outbound, rewinding, buffer, seen>>
    BY Zenon, <1>2 DEF Send
  <2>2. Sent' = Sent
    BY Zenon, <2>1 DEF Sent
  <2>3. outbound \in Seq(Shown) /\ Len(outbound) <= QueueSize
    BY Zenon DEF SessionTyped
  <2> QED BY Zenon, <2>1, <2>2, <2>3
<1> QED BY Zenon, <1>1, <1>2

-----------------------------------------------------------------------------
(* Publication *)

LEMMA OrderStands ==
  ASSUME Ordered, Sent' = Sent, UNCHANGED <<deliverer, reader, buffer, arrived, open>>
  PROVE  Ordered'
BY DEF Ordered, FromHub, InOrder, Precede, Before

LEMMA IdleIs ==
  Idle \in Readers /\ Idle.pc = "idle" /\ Idle.page = {} /\ Idle.batch = <<>>
BY DEF Idle, Readers

(* The subscriber's side stands still, and no frame that was gone returns. *)
LEMMA StandsStill ==
  ASSUME ChannelInv, SessionTyped', PublishTyped', RoutedOnce', AppendedFirst',
         Sent' = Sent, UNCHANGED <<deliverer, hub, reader, arrived, subscriptions>>,
         \A m \in Messages : Gone(m) => Gone(m)'
  PROVE  ChannelInv'
<1>1. UNCHANGED <<open, subscribed, rewinding, buffer, seen>>
  BY Zenon DEF hub
<1>2. RewindsInTurn'
  BY Zenon, <1>1 DEF ChannelInv, RewindsInTurn
<1>3. Numbered'
  BY Zenon, <1>1 DEF ChannelInv, Numbered
<1>4. Ordered'
  BY <1>1 DEF ChannelInv, Ordered, FromHub, InOrder, Precede, Before
<1>5. \A i \in DOMAIN Sent : IsPage(Sent[i]) => Sent[i].of \subseteq Messages
  <2>1. \A i \in DOMAIN Sent : Sent[i] \in Shown
    BY SentIs DEF ChannelInv, ChannelTyped
  <2> QED BY Zenon, <2>1 DEF Shown, Live, Told, IsPage
<1>6. Pages'
  <2>1. Apart(Sent, Sent)' /\ (open' => Apart(Sent, deliverer)')
    BY Zenon, <1>1 DEF ChannelInv, Pages, Apart, IsPage
  <2>2. ASSUME open', NEW i \in DOMAIN Sent', IsPage(Sent[i])', Sent'[i].under = subscriptions'
        PROVE  IF rewinding' THEN Sent'[i].of = reader'.page ELSE \A m \in Sent'[i].of : m \in seen' \/ Gone(m)'
    <3>1. open /\ i \in DOMAIN Sent /\ IsPage(Sent[i]) /\ Sent[i].under = subscriptions
      BY Zenon, <1>1, <2>2 DEF IsPage
    <3>2. IF rewinding THEN Sent[i].of = reader.page ELSE \A m \in Sent[i].of : m \in seen \/ Gone(m)
      BY Zenon, <3>1 DEF ChannelInv, Pages
    <3>3. Sent[i].of \subseteq Messages
      BY Zenon, <1>5, <3>1
    <3> QED BY Zenon, <1>1, <3>2, <3>3
  <2> QED BY Zenon, <2>1, <2>2 DEF Pages
<1>7. NoGap'
  BY <1>1 DEF ChannelInv, NoGap, Held
<1> QED BY Zenon, <1>2, <1>3, <1>4, <1>6, <1>7 DEF ChannelInv, ChannelTyped

LEMMA SessionUnmoved ==
  ASSUME ChannelInv, UNCHANGED <<deliverer, hub, outbound, reader, histories>>
  PROVE  SessionTyped' /\ Sent' = Sent
BY Zenon DEF ChannelInv, ChannelTyped, SessionTyped, Sent, hub, histories

(* A publication that is not over goes on. *)
LEMMA PublisherMoves ==
  ASSUME ChannelInv, NEW m \in Messages, publisher[m] \in {"start", "append", "route"},
         NEW pc \in {"append", "route", "done", "failed"}, To(m, pc)
  PROVE  /\ publisher' \in [Messages -> {"start", "append", "route", "done", "failed"}]
         /\ publisher'[m] = pc /\ \A n \in Messages \ {m} : publisher'[n] = publisher[n]
         /\ \A n \in Messages : publisher[n] \in {"done", "failed"} => n # m /\ publisher'[n] = publisher[n]
         /\ \A i \in DOMAIN wire : wire[i].kind = "message" => publisher'[wire[i].of] = "done" /\ wire[i].of # m
         /\ \A i \in DOMAIN arrived : arrived[i].kind = "message" => publisher'[arrived[i].of] = "done" /\ arrived[i].of # m
         /\ pc # "append" => \A n \in Messages : Written(n) => Written(n)'
<1>1. /\ publisher \in [Messages -> {"start", "append", "route", "done", "failed"}]
      /\ publisher' = [publisher EXCEPT ![m] = pc]
  BY Zenon DEF ChannelInv, ChannelTyped, PublishTyped, To
<1>2. /\ publisher' \in [Messages -> {"start", "append", "route", "done", "failed"}]
      /\ publisher'[m] = pc /\ \A n \in Messages \ {m} : publisher'[n] = publisher[n]
      /\ \A n \in Messages : publisher[n] \in {"done", "failed"} => n # m /\ publisher'[n] = publisher[n]
  BY Zenon, <1>1
<1>3. /\ \A i \in DOMAIN wire : wire[i] \in Routed
      /\ \A i \in DOMAIN arrived : arrived[i] \in Live
  BY DEF ChannelInv, ChannelTyped, PublishTyped, SessionTyped
<1>4. ASSUME NEW i \in DOMAIN wire, wire[i].kind = "message"
      PROVE  publisher'[wire[i].of] = "done" /\ wire[i].of # m
  <2>1. wire[i].of \in Messages /\ publisher[wire[i].of] = "done"
    BY Zenon, <1>3, <1>4 DEF ChannelInv, RoutedOnce, Routed
  <2> QED BY Zenon, <1>2, <2>1
<1>5. ASSUME NEW i \in DOMAIN arrived, arrived[i].kind = "message"
      PROVE  publisher'[arrived[i].of] = "done" /\ arrived[i].of # m
  <2>1. arrived[i].of \in Messages /\ publisher[arrived[i].of] = "done"
    BY Zenon, <1>3, <1>5 DEF ChannelInv, RoutedOnce, Live
  <2> QED BY Zenon, <1>2, <2>1
<1>6. pc # "append" => \A n \in Messages : Written(n) => Written(n)'
  BY Zenon, <1>2 DEF Written
<1> QED BY Zenon, <1>2, <1>4, <1>5, <1>6

LEMMA KeptIs ==
  ASSUME ChannelTyped
  PROVE  /\ Kept \subseteq Messages /\ seen \subseteq Messages /\ reader.page \subseteq Messages
         /\ \A i \in 1..Len(stream) : stream[i] \in Kept
         /\ \A m \in Kept : \E i \in 1..Len(stream) : m = stream[i]
<1>1. stream \in Seq(Messages)
  BY Zenon DEF ChannelTyped, PublishTyped
<1>2. DOMAIN stream = 1..Len(stream) /\ \A i \in 1..Len(stream) : stream[i] \in Messages
  BY <1>1
<1>3. seen \subseteq Messages /\ reader.page \subseteq Messages
  BY Zenon DEF ChannelTyped, SessionTyped, Readers
<1> QED BY Zenon, <1>2, <1>3 DEF Kept

LEMMA PublishStep ==
  ASSUME ChannelSensible, ChannelInv, NEW m \in Messages,
         RecordMessage(m) \/ PublishFails(m)
  PROVE  ChannelInv'
<1> DEFINE next == IF RecordMessage(m) THEN AfterRecord(m) ELSE "failed"
<1>1. /\ publisher[m] \in {"start", "append", "route"} /\ To(m, next) /\ next \in {"append", "route", "done", "failed"}
      /\ next = "append" => publisher[m] = "start"
      /\ next = "route" => m \notin Stored /\ publisher[m] = "start"
      /\ next # "done"
      /\ UNCHANGED <<stream, trimmed, wire, deliverer, hub, outbound, reader, histories>>
  BY Zenon DEF RecordMessage, PublishFails, AfterRecord
<1> HIDE DEF next
<1>2. SessionTyped' /\ Sent' = Sent
  BY Zenon, <1>1, SessionUnmoved
<1>3. /\ publisher' \in [Messages -> {"start", "append", "route", "done", "failed"}]
      /\ publisher'[m] = next /\ \A n \in Messages \ {m} : publisher'[n] = publisher[n]
      /\ \A n \in Messages : publisher[n] \in {"done", "failed"} => n # m /\ publisher'[n] = publisher[n]
      /\ \A i \in DOMAIN wire : wire[i].kind = "message" => publisher'[wire[i].of] = "done" /\ wire[i].of # m
      /\ \A i \in DOMAIN arrived : arrived[i].kind = "message" => publisher'[arrived[i].of] = "done" /\ arrived[i].of # m
  <2>1. publisher[m] \in {"start", "append", "route"} /\ To(m, next) /\ next \in {"append", "route", "done", "failed"}
    BY Zenon, <1>1
  <2> QED BY <2>1, PublisherMoves
<1>4. PublishTyped'
  BY Zenon, <1>1, <1>3 DEF ChannelInv, ChannelTyped, PublishTyped
<1>5. RoutedOnce'
  BY <1>1, <1>3 DEF ChannelInv, RoutedOnce, histories
<1>6. AppendedFirst'
  <2>1. Kept' = Kept /\ UNCHANGED <<seen, reader, trimmed>>
    BY Zenon, <1>1 DEF Kept, hub
  <2>2. \A n \in Messages : Written(n) => Written(n)'
    BY Zenon, <1>1, <1>3 DEF Written
  <2>3. Kept \cup seen \cup reader.page \subseteq Messages
    BY Zenon, KeptIs DEF ChannelInv
  <2>4. \A n \in Stored : publisher'[n] \in {"route", "done"} => publisher[n] \in {"route", "done"}
    BY Zenon, <1>1, <1>3 DEF ChannelSensible
  <2> QED BY Zenon, <2>1, <2>2, <2>3, <2>4 DEF ChannelInv, AppendedFirst
<1>7. \A n \in Messages : Gone(n) => Gone(n)'
  BY Zenon, <1>1, <1>3 DEF Gone
<1> QED BY Zenon, <1>1, <1>2, <1>4, <1>5, <1>6, <1>7, StandsStill DEF histories

LEMMA ActionStep ==
  ASSUME ChannelSensible, ChannelInv, NEW a \in Actions,
         PutAction(a) \/ RemoveAction(a) \/ DispatchAction(a)
  PROVE  ChannelInv'
<1>1. UNCHANGED <<publisher, stream, trimmed, deliverer, hub, outbound, reader, histories>>
  BY Zenon DEF PutAction, RemoveAction, DispatchAction
<1>2. SessionTyped' /\ Sent' = Sent
  BY Zenon, <1>1, SessionUnmoved
<1>3. /\ wire' \in Seq(Routed)
      /\ \A i \in DOMAIN wire' : wire'[i].kind = "message" => i \in DOMAIN wire /\ wire'[i] = wire[i]
  <2>1. CASE UNCHANGED wire
    BY Zenon, <2>1 DEF ChannelInv, ChannelTyped, PublishTyped
  <2>2. CASE DispatchAction(a)
    <3>1. wire' = Append(wire, ActionFrame(a)) /\ wire \in Seq(Routed)
      BY Zenon, <2>2 DEF DispatchAction, ChannelInv, ChannelTyped, PublishTyped
    <3>2. ActionFrame(a) \in Routed /\ ActionFrame(a).kind # "message"
      BY Zenon DEF ActionFrame, Routed, ChannelSensible
    <3> QED BY <3>1, <3>2
  <2> QED BY Zenon, <2>1, <2>2 DEF PutAction, RemoveAction
<1>4. PublishTyped'
  BY Zenon, <1>1, <1>3 DEF ChannelInv, ChannelTyped, PublishTyped
<1>5. RoutedOnce'
  BY <1>1, <1>3 DEF ChannelInv, RoutedOnce, histories
<1>6. AppendedFirst'
  BY <1>1 DEF ChannelInv, AppendedFirst, Kept, Written, hub
<1>7. \A n \in Messages : Gone(n) => Gone(n)'
  BY Zenon, <1>1, <1>3 DEF Gone
<1> QED BY Zenon, <1>1, <1>2, <1>4, <1>5, <1>6, <1>7, StandsStill DEF histories

LEMMA RouteStep ==
  ASSUME ChannelSensible, ChannelInv, NEW m \in Messages, PublishRealtimeV2(m)
  PROVE  ChannelInv'
<1>1. /\ publisher[m] = "route" /\ To(m, "done") /\ wire' = Append(wire, MessageFrame(m))
      /\ UNCHANGED <<stream, trimmed, deliverer, hub, outbound, reader, histories>>
  BY Zenon DEF PublishRealtimeV2, AfterRoute
<1>2. SessionTyped' /\ Sent' = Sent
  BY Zenon, <1>1, SessionUnmoved
<1>3. /\ publisher' \in [Messages -> {"start", "append", "route", "done", "failed"}]
      /\ publisher'[m] = "done" /\ \A n \in Messages \ {m} : publisher'[n] = publisher[n]
      /\ \A n \in Messages : publisher[n] \in {"done", "failed"} => n # m /\ publisher'[n] = publisher[n]
      /\ \A i \in DOMAIN wire : wire[i].kind = "message" => publisher'[wire[i].of] = "done" /\ wire[i].of # m
      /\ \A i \in DOMAIN arrived : arrived[i].kind = "message" => publisher'[arrived[i].of] = "done" /\ arrived[i].of # m
      /\ \A n \in Messages : Written(n) => Written(n)'
  <2>1. publisher[m] \in {"start", "append", "route"} /\ "done" \in {"append", "route", "done", "failed"} /\ "done" # "append"
    BY Zenon, <1>1
  <2> QED BY Zenon, <1>1, <2>1, PublisherMoves
<1>4. /\ wire' \in Seq(Routed) /\ DOMAIN wire = 1..Len(wire) /\ DOMAIN wire' = 1..(Len(wire) + 1) /\ Len(wire) \in Nat
      /\ \A i \in 1..Len(wire) : wire'[i] = wire[i]
      /\ wire'[Len(wire) + 1].kind = "message" /\ wire'[Len(wire) + 1].of = m
  <2>1. MessageFrame(m) \in Routed /\ MessageFrame(m).kind = "message" /\ MessageFrame(m).of = m
    BY Zenon DEF MessageFrame, Routed
  <2>2. wire \in Seq(Routed)
    BY Zenon DEF ChannelInv, ChannelTyped, PublishTyped
  <2> QED BY <1>1, <2>1, <2>2
<1>5. PublishTyped'
  BY Zenon, <1>1, <1>3, <1>4 DEF ChannelInv, ChannelTyped, PublishTyped
<1>6. RoutedOnce'
  <2>1. UNCHANGED arrived
    BY Zenon, <1>1 DEF histories
  <2>2. \A i \in DOMAIN wire' : wire'[i].kind = "message" =>
          \/ i \in DOMAIN wire /\ wire'[i] = wire[i] /\ wire[i].of # m /\ publisher'[wire[i].of] = "done"
          \/ i = Len(wire) + 1 /\ wire'[i].of = m
    BY <1>3, <1>4
  <2> QED BY <1>3, <2>1, <2>2 DEF ChannelInv, RoutedOnce
<1>7. AppendedFirst'
  <2>1. Kept' = Kept /\ UNCHANGED <<seen, reader, trimmed>>
    BY Zenon, <1>1 DEF Kept, hub
  <2>2. Kept \cup seen \cup reader.page \subseteq Messages
    BY Zenon, KeptIs DEF ChannelInv
  <2>3. \A n \in Stored : publisher'[n] \in {"route", "done"} => publisher[n] \in {"route", "done"}
    BY Zenon, <1>1, <1>3 DEF ChannelSensible
  <2> QED BY Zenon, <1>3, <2>1, <2>2, <2>3 DEF ChannelInv, AppendedFirst
<1>8. ASSUME NEW n \in Messages, Gone(n)
      PROVE  Gone(n)'
  BY <1>3, <1>4, <1>8 DEF Gone
<1> QED BY Zenon, <1>1, <1>2, <1>5, <1>6, <1>7, <1>8, StandsStill DEF histories

LEMMA AppendStep ==
  ASSUME ChannelSensible, ChannelInv, NEW m \in Messages, AppendHistory(m)
  PROVE  ChannelInv'
<1>1. /\ publisher[m] = "append" /\ To(m, "route")
      /\ stream' = IF Len(stream) = HistoryMax THEN Append(Tail(stream), m) ELSE Append(stream, m)
      /\ trimmed' = IF Len(stream) = HistoryMax THEN trimmed + 1 ELSE trimmed
      /\ UNCHANGED <<wire, deliverer, hub, outbound, reader, histories>>
  BY Zenon DEF AppendHistory
<1>2. SessionTyped' /\ Sent' = Sent
  BY Zenon, <1>1, SessionUnmoved
<1>3. /\ publisher' \in [Messages -> {"start", "append", "route", "done", "failed"}]
      /\ publisher'[m] = "route" /\ \A n \in Messages \ {m} : publisher'[n] = publisher[n]
      /\ \A n \in Messages : publisher[n] \in {"done", "failed"} => n # m /\ publisher'[n] = publisher[n]
      /\ \A i \in DOMAIN wire : wire[i].kind = "message" => publisher'[wire[i].of] = "done" /\ wire[i].of # m
      /\ \A i \in DOMAIN arrived : arrived[i].kind = "message" => publisher'[arrived[i].of] = "done" /\ arrived[i].of # m
      /\ \A n \in Messages : Written(n) => Written(n)'
  <2>1. publisher[m] \in {"start", "append", "route"} /\ "route" \in {"append", "route", "done", "failed"} /\ "route" # "append"
    BY Zenon, <1>1
  <2> QED BY Zenon, <1>1, <2>1, PublisherMoves
<1>4. /\ stream \in Seq(Messages) /\ Len(stream) <= HistoryMax /\ trimmed \in Nat /\ HistoryMax \in Nat \ {0}
      /\ wire \in Seq(Routed)
  BY Zenon DEF ChannelSensible, ChannelInv, ChannelTyped, PublishTyped
<1>5. /\ stream' \in Seq(Messages) /\ Len(stream') <= HistoryMax /\ trimmed' \in Nat
      /\ Kept' \subseteq Kept \cup {m}
      /\ trimmed' = 0 => trimmed = 0 /\ Kept' = Kept \cup {m}
  <2>1. CASE Len(stream) = HistoryMax
    <3>1. stream # <<>>
      BY Zenon, <1>4, <2>1
    <3> DEFINE t == Tail(stream)
    <3>2. t \in Seq(Messages) /\ Len(t) = Len(stream) - 1 /\ \A i \in 1..Len(t) : t[i] = stream[i + 1]
      BY <1>4, <3>1
    <3>3. stream' = Append(t, m) /\ trimmed' = trimmed + 1
      BY Zenon, <1>1, <2>1
    <3> HIDE DEF t
    <3>4. /\ stream' \in Seq(Messages) /\ Len(stream') = Len(stream)
          /\ \A i \in 1..Len(t) : stream'[i] = t[i]
          /\ stream'[Len(stream)] = m
      BY <1>4, <3>2, <3>3
    <3>5. ASSUME NEW i \in DOMAIN stream'
          PROVE  stream'[i] \in Kept \cup {m}
      <4>1. i \in 1..Len(stream) /\ DOMAIN stream = 1..Len(stream) /\ Len(stream) \in Nat
        BY <1>4, <3>4
      <4>2. CASE i = Len(stream)
        BY Zenon, <3>4, <4>2
      <4>3. CASE i # Len(stream)
        <5>1. i \in 1..Len(t) /\ i + 1 \in DOMAIN stream
          BY <3>2, <4>1, <4>3
        <5>2. stream'[i] = stream[i + 1]
          BY Zenon, <3>2, <3>4, <5>1
        <5> QED BY Zenon, <5>1, <5>2 DEF Kept
      <4> QED BY Zenon, <4>2, <4>3
    <3> QED BY <1>4, <2>1, <3>3, <3>4, <3>5 DEF Kept
  <2>2. CASE Len(stream) # HistoryMax
    <3>1. stream' = Append(stream, m) /\ trimmed' = trimmed
      BY Zenon, <1>1, <2>2
    <3>2. /\ stream' \in Seq(Messages) /\ Len(stream') = Len(stream) + 1 /\ stream'[Len(stream) + 1] = m
          /\ \A i \in 1..Len(stream) : stream'[i] = stream[i]
          /\ DOMAIN stream = 1..Len(stream) /\ DOMAIN stream' = 1..(Len(stream) + 1) /\ Len(stream) \in Nat
      BY <1>4, <3>1
    <3>3. \A i \in DOMAIN stream' : stream'[i] \in Kept \cup {m}
      BY <3>2 DEF Kept
    <3>4. \A i \in DOMAIN stream : stream[i] \in Kept'
      <4> TAKE i \in DOMAIN stream
      <4>1. i \in DOMAIN stream' /\ stream'[i] = stream[i]
        BY <3>2
      <4> QED BY Zenon, <4>1 DEF Kept
    <3>5. m \in Kept'
      <4>1. Len(stream) + 1 \in DOMAIN stream' /\ stream'[Len(stream) + 1] = m
        BY <3>2
      <4> QED BY Zenon, <4>1 DEF Kept
    <3>6. Kept' = Kept \cup {m}
      <4>1. Kept' \subseteq Kept \cup {m}
        <5> HIDE DEF Kept
        <5>1. \A x \in Kept' : \E i \in DOMAIN stream' : x = stream'[i]
          BY Zenon DEF Kept
        <5> QED BY Zenon, <3>3, <5>1
      <4>2. Kept \subseteq Kept'
        <5>1. \A x \in Kept : \E i \in DOMAIN stream : x = stream[i]
          BY Zenon DEF Kept
        <5> QED BY Zenon, <3>4, <5>1
      <4> QED BY Zenon, <3>5, <4>1, <4>2
    <3>7. Len(stream') <= HistoryMax
      <4>1. \A a, b \in Nat : a <= b /\ a # b => a + 1 <= b
        OBVIOUS
      <4> QED BY Zenon, <1>4, <2>2, <3>2, <4>1
    <3> QED BY Zenon, <1>4, <3>1, <3>2, <3>6, <3>7
  <2> QED BY Zenon, <2>1, <2>2
<1>6. PublishTyped'
  BY Zenon, <1>1, <1>3, <1>4, <1>5 DEF PublishTyped
<1>7. RoutedOnce'
  BY <1>1, <1>3 DEF ChannelInv, RoutedOnce, histories
<1>8. AppendedFirst'
  <2>1. UNCHANGED <<seen, reader>>
    BY Zenon, <1>1 DEF hub
  <2>2. Kept \cup seen \cup reader.page \subseteq Messages
    BY Zenon, KeptIs DEF ChannelInv
  <2>3. \A n \in Stored : publisher'[n] \in {"route", "done"} => publisher[n] \in {"route", "done"} \/ n = m
    BY Zenon, <1>3 DEF ChannelSensible
  <2>4. Written(m)'
    BY Zenon, <1>3 DEF Written
  <2>5. AppendedFirst
    BY Zenon DEF ChannelInv
  <2>6. \A n \in (Kept \cup seen \cup reader.page)' : Written(n)'
    BY Zenon, <1>3, <1>5, <2>1, <2>2, <2>4, <2>5 DEF AppendedFirst
  <2>7. \A n \in Stored : publisher'[n] \in {"route", "done"} /\ trimmed' = 0 => n \in Kept'
    BY Zenon, <1>5, <2>3, <2>5 DEF AppendedFirst
  <2>8. trimmed' = 0 => seen' \cup reader'.page \subseteq Kept'
    BY Zenon, <1>5, <2>1, <2>5 DEF AppendedFirst
  <2> QED BY Zenon, <2>6, <2>7, <2>8 DEF AppendedFirst
<1>9. \A n \in Messages : Gone(n) => Gone(n)'
  BY Zenon, <1>1, <1>3 DEF Gone
<1> QED BY Zenon, <1>1, <1>2, <1>6, <1>7, <1>8, <1>9, StandsStill DEF histories

-----------------------------------------------------------------------------
(* The session *)

LEMMA WriteStep ==
  ASSUME ChannelSensible, ChannelInv, WriteLoop
  PROVE  ChannelInv'
<1>1. /\ outbound # <<>> /\ received' = Append(received, Head(outbound)) /\ outbound' = Tail(outbound)
      /\ UNCHANGED <<publisher, stream, trimmed, wire, deliverer, hub, reader, arrived, subscriptions>>
  BY Zenon DEF WriteLoop, publishing
<1>2. received \in Seq(Shown) /\ outbound \in Seq(Shown) /\ Len(outbound) <= QueueSize /\ ChannelTyped
  BY Zenon DEF ChannelInv, ChannelTyped, SessionTyped
<1>3. Sent' = Sent
  BY Zenon, <1>1, <1>2, MoveFrame DEF Sent
<1>4. /\ outbound' \in Seq(Shown) /\ Len(outbound') <= Len(outbound) /\ Len(outbound') \in Nat /\ Len(outbound) \in Nat
      /\ received' \in Seq(Shown)
  BY <1>1, <1>2
<1>5. SessionTyped'
  <2>1. Len(outbound') <= QueueSize
    BY <1>2, <1>4 DEF ChannelSensible
  <2> QED BY Zenon, <1>1, <1>2, <1>4, <2>1 DEF ChannelTyped, SessionTyped, hub
<1>6. PublishTyped' /\ RoutedOnce'
  BY <1>1, <1>2 DEF ChannelInv, ChannelTyped, PublishTyped, RoutedOnce
<1>7. AppendedFirst'
  BY <1>1 DEF ChannelInv, AppendedFirst, Kept, Written, hub
<1>8. \A m \in Messages : Gone(m) => Gone(m)'
  BY Zenon, <1>1 DEF Gone
<1> QED BY Zenon, <1>1, <1>3, <1>5, <1>6, <1>7, <1>8, StandsStill

(* A session that is closed is sent nothing any more. *)
LEMMA Closes ==
  ASSUME ChannelInv, ChannelTyped', RoutedOnce', AppendedFirst',
         open' = FALSE, subscribed' = FALSE, Sent' = Sent, UNCHANGED subscriptions,
         reader'.pc \in {"idle", "read"} => reader'.page = {},
         ~rewinding' => reader'.page = {} /\ reader'.pc # "read",
         reader'.pc # "flush" => reader'.batch = <<>>,
         \A i \in DOMAIN arrived : i \in DOMAIN arrived' /\ arrived'[i] = arrived[i]
  PROVE  ChannelInv'
<1>1. RewindsInTurn' /\ NoGap'
  BY Zenon DEF RewindsInTurn, NoGap
<1>2. Numbered'
  BY Zenon DEF ChannelInv, Numbered
<1>3. Pages'
  BY Zenon DEF ChannelInv, Pages, Apart, IsPage
<1>4. FromHub(Sent)'
  BY DEF ChannelInv, Ordered, FromHub
<1>5. InOrder(Sent)'
  <2> SUFFICES ASSUME NEW i \in DOMAIN Sent, NEW j \in DOMAIN Sent, i < j,
                      Sent[i].kind = "message", Sent[j].kind = "message"
               PROVE  \E k, l \in DOMAIN arrived' : k < l /\ arrived'[k] = Sent[i] /\ arrived'[l] = Sent[j]
    BY DEF InOrder, Before
  <2>1. PICK k \in DOMAIN arrived, l \in DOMAIN arrived : k < l /\ arrived[k] = Sent[i] /\ arrived[l] = Sent[j]
    BY DEF ChannelInv, Ordered, InOrder, Before
  <2> QED BY Zenon, <2>1
<1>6. Ordered'
  BY Zenon, <1>4, <1>5 DEF Ordered
<1> QED BY Zenon, <1>1, <1>2, <1>3, <1>6 DEF ChannelInv

LEMMA CloseStep ==
  ASSUME ChannelInv, Close
  PROVE  ChannelInv'
<1>1. /\ open' = FALSE /\ subscribed' = FALSE
      /\ UNCHANGED <<publisher, stream, trimmed, wire, deliverer, rewinding, buffer, seen, outbound, reader,
                     received, arrived, subscriptions>>
  BY Zenon DEF Close, publishing, histories
<1>2. ChannelTyped' /\ Sent' = Sent
  BY Zenon, <1>1 DEF ChannelInv, ChannelTyped, PublishTyped, SessionTyped, Sent
<1>3. RoutedOnce' /\ AppendedFirst'
  BY <1>1 DEF ChannelInv, RoutedOnce, AppendedFirst, Kept, Written
<1> QED BY Zenon, <1>1, <1>2, <1>3, Closes DEF ChannelInv, RewindsInTurn

(* What a step that is not about publication leaves alone. *)
LEMMA NotPublishing ==
  ASSUME ChannelInv, UNCHANGED <<publisher, stream, trimmed, wire, arrived>>
  PROVE  PublishTyped' /\ RoutedOnce' /\ Kept' = Kept /\ (\A m : Written(m)' <=> Written(m)) /\ (\A m : Gone(m)' <=> Gone(m))
BY DEF ChannelInv, ChannelTyped, PublishTyped, RoutedOnce, Kept, Written, Gone

(* One more frame has been sent. *)
LEMMA SentGrows ==
  ASSUME SessionTyped, NEW f \in Shown, Sent' = Append(Sent, f)
  PROVE  /\ \A i \in DOMAIN Sent : i \in DOMAIN Sent' /\ Sent'[i] = Sent[i]
         /\ \A i \in DOMAIN Sent' : \/ i \in DOMAIN Sent /\ Sent'[i] = Sent[i]
                                    \/ i \notin DOMAIN Sent /\ Sent'[i] = f /\ \A j \in DOMAIN Sent : j < i
         /\ \E i \in DOMAIN Sent' : Sent'[i] = f
         /\ \A i, j \in DOMAIN Sent' : i < j => i \in DOMAIN Sent
<1>1. Sent \in Seq(Shown) /\ Len(Sent) \in Nat /\ DOMAIN Sent = 1..Len(Sent)
  BY Zenon, SentIs
<1> DEFINE n == Len(Sent)
<1>2. /\ DOMAIN Sent' = 1..(n + 1) /\ Sent'[n + 1] = f
      /\ \A i \in 1..n : Sent'[i] = Sent[i]
  BY <1>1
<1> HIDE DEF n
<1>3. n \in Nat /\ DOMAIN Sent = 1..n /\ n + 1 \in 1..(n + 1)
  BY <1>1 DEF n
<1> QED BY <1>2, <1>3

(* The reader tells the client of its subscription: a page, a confirmation *)
(* or an error.                                                            *)
LEMMA Tells ==
  ASSUME ChannelSensible, ChannelInv, NEW f \in Told, Send(f), f.under = subscriptions,
         UNCHANGED <<publisher, stream, trimmed, wire, deliverer, received, arrived, subscriptions>>,
         reader.pc \in {"read", "confirm"}, reader' \in Readers, reader'.batch = <<>>,
         reader'.pc \in {"confirm", "finish", "idle"}, reader'.pc = "confirm" => reader.pc = "read",
         reader'.pc = "idle" => ~rewinding /\ reader'.page = {}, reader'.pc = "finish" => rewinding,
         AppendedFirst',
         IF IsPage(f) THEN reader.pc = "read" /\ f.of = reader'.page ELSE reader'.page = reader.page,
         f.kind = "page" =>
           /\ seen \subseteq f.of
           /\ \A i \in DOMAIN arrived : arrived[i].kind = "message" /\ arrived[i].of \in Stored => arrived[i].of \in f.of
  PROVE  ChannelInv'
<1>1. ChannelTyped /\ SessionTyped /\ f \in Shown /\ f.kind # "message"
  BY Zenon DEF ChannelInv, ChannelTyped, Shown, Told
<1>2. /\ outbound' \in Seq(Shown) /\ Len(outbound') <= QueueSize /\ UNCHANGED <<rewinding, buffer, seen>>
      /\ \/ open /\ UNCHANGED <<open, subscribed>> /\ Sent' = Append(Sent, f)
         \/ open' = FALSE /\ subscribed' = FALSE /\ Sent' = Sent
  BY Zenon, <1>1, SendEffect
<1>3. PublishTyped' /\ RoutedOnce' /\ \A m : Gone(m)' <=> Gone(m)
  BY Zenon, NotPublishing
<1>4. SessionTyped'
  <2>1. open' \in BOOLEAN /\ subscribed' \in BOOLEAN
    BY Zenon, <1>1, <1>2 DEF SessionTyped
  <2> QED BY Zenon, <1>1, <1>2, <2>1 DEF SessionTyped
<1>5. CASE open' = FALSE /\ subscribed' = FALSE /\ Sent' = Sent
  <2>1. /\ reader'.pc \in {"idle", "read"} => reader'.page = {}
        /\ ~rewinding' => reader'.page = {} /\ reader'.pc # "read"
    BY Zenon, <1>2 DEF ChannelInv, RewindsInTurn
  <2> QED BY Zenon, <1>3, <1>4, <1>5, <2>1, Closes DEF ChannelTyped
<1>6. CASE open /\ UNCHANGED <<open, subscribed>> /\ Sent' = Append(Sent, f)
  <2>1. /\ \A i \in DOMAIN Sent : i \in DOMAIN Sent' /\ Sent'[i] = Sent[i]
        /\ \A i \in DOMAIN Sent' : \/ i \in DOMAIN Sent /\ Sent'[i] = Sent[i]
                                   \/ i \notin DOMAIN Sent /\ Sent'[i] = f /\ \A j \in DOMAIN Sent : j < i
    BY Zenon, <1>1, <1>6, SentGrows
  <2>2. /\ subscriptions \in Nat /\ reader.batch = <<>> /\ (reader.pc = "read" => rewinding)
    BY Zenon, <1>1, <1>6 DEF SessionTyped, ChannelInv, RewindsInTurn
  <2>3. RewindsInTurn'
    BY Zenon, <1>2, <1>6, <2>2 DEF ChannelInv, RewindsInTurn
  <2>4. Numbered'
    BY <1>2, <1>6, <2>1, <2>2 DEF ChannelInv, Numbered
  <2>5. Ordered'
    <3>0. /\ FromHub(Sent) /\ InOrder(Sent) /\ Precede(Sent, deliverer) /\ Precede(Sent, buffer)
          /\ FromHub(deliverer) /\ FromHub(buffer) /\ InOrder(buffer)
          /\ \A g, h : Before(g, h)' <=> Before(g, h)
      BY Zenon, <1>6 DEF ChannelInv, Ordered, Before
    <3>6. \A i \in DOMAIN Sent' : Sent'[i].kind = "message" => i \in DOMAIN Sent /\ Sent'[i] = Sent[i]
      BY Zenon, <1>1, <2>1
    <3>1. FromHub(Sent)' /\ InOrder(Sent)'
      <4>1. FromHub(Sent)'
        BY Zenon, <3>0, <3>6 DEF FromHub
      <4>2. InOrder(Sent)'
        BY Zenon, <3>0, <3>6 DEF InOrder
      <4> QED BY Zenon, <4>1, <4>2
    <3>2. Precede(Sent, deliverer)' /\ Precede(Sent, buffer)'
      <4>1. Precede(Sent, deliverer)'
        BY Zenon, <3>0, <3>6 DEF Precede
      <4>2. Precede(Sent, buffer)'
        BY Zenon, <1>2, <3>0, <3>6 DEF Precede
      <4> QED BY Zenon, <4>1, <4>2
    <3>3. FromHub(deliverer)' /\ FromHub(buffer)' /\ InOrder(buffer)'
      <4>1. FromHub(deliverer)' /\ FromHub(buffer)'
        BY Zenon, <1>2, <3>0 DEF FromHub
      <4>2. InOrder(buffer)'
        BY Zenon, <1>2, <3>0 DEF InOrder
      <4> QED BY Zenon, <4>1, <4>2
    <3>4. (deliverer # <<>> => buffer = <<>>)'
      BY Zenon, <1>2, <1>6 DEF ChannelInv, Ordered
    <3>5. FromHub(reader.batch)' /\ InOrder(reader.batch)' /\ Precede(reader.batch, buffer)' /\ Precede(Sent, reader.batch)'
      BY DEF FromHub, InOrder, Precede
    <3> QED BY Zenon, <3>1, <3>2, <3>3, <3>4, <3>5 DEF Ordered
  <2>6. Apart(Sent, Sent)' /\ Apart(Sent, deliverer)'
    <3>1. IsPage(f) => /\ \A i \in DOMAIN Sent : Sent[i].under # f.under
                       /\ \A i \in DOMAIN deliverer : deliverer[i].under # f.under
      BY Zenon, <1>6 DEF ChannelInv, Numbered
    <3>2. Apart(Sent, Sent) /\ Apart(Sent, deliverer)
      BY Zenon, <1>6 DEF ChannelInv, Pages
    <3>3. Apart(Sent, Sent)'
      BY <1>1, <2>1, <3>1, <3>2 DEF Apart, IsPage
    <3>4. Apart(Sent, deliverer)'
      BY <1>1, <2>1, <3>1, <3>2 DEF Apart, IsPage
    <3> QED BY Zenon, <3>3, <3>4
  <2>7. Pages'
    <3> SUFFICES ASSUME NEW i \in DOMAIN Sent', IsPage(Sent'[i]), Sent'[i].under = subscriptions
                 PROVE  IF rewinding THEN Sent'[i].of = reader'.page
                        ELSE \A m \in Sent'[i].of : m \in seen \/ Gone(m)'
      BY Zenon, <1>2, <2>6 DEF Pages, IsPage
    <3>1. CASE i \in DOMAIN Sent /\ Sent'[i] = Sent[i]
      <4>1. reader.pc # "read"
        BY Zenon, <1>6, <3>1 DEF ChannelInv, Numbered
      <4>2. reader'.page = reader.page
        BY Zenon, <4>1
      <4>3. IF rewinding THEN Sent[i].of = reader.page ELSE \A m \in Sent[i].of : m \in seen \/ Gone(m)
        BY Zenon, <1>6, <3>1 DEF ChannelInv, Pages
      <4> QED BY Zenon, <1>3, <3>1, <4>2, <4>3
    <3>2. CASE Sent'[i] = f
      BY Zenon, <2>2, <3>2
    <3> QED BY Zenon, <2>1, <3>1, <3>2
  <2>8. NoGap'
    <3> SUFFICES ASSUME subscribed, NEW p \in DOMAIN Sent', Sent'[p].kind = "page", Sent'[p].under = subscriptions
                 PROVE  /\ seen \subseteq Sent'[p].of
                        /\ \A i \in DOMAIN arrived : arrived[i].kind = "message" /\ arrived[i].of \in Stored =>
                             arrived[i].of \in Sent'[p].of \/ Held([arrived[i] EXCEPT !.under = subscriptions])'
      BY Zenon, <1>2, <1>6 DEF NoGap
    <3>1. CASE p \in DOMAIN Sent /\ Sent'[p] = Sent[p]
      <4>1. /\ seen \subseteq Sent[p].of
            /\ \A i \in DOMAIN arrived : arrived[i].kind = "message" /\ arrived[i].of \in Stored =>
                 arrived[i].of \in Sent[p].of \/ Held([arrived[i] EXCEPT !.under = subscriptions])
        BY Zenon, <1>6, <3>1 DEF ChannelInv, NoGap
      <4>2. ASSUME NEW g, Held(g)
            PROVE  Held(g)'
        BY <1>2, <2>1, <2>2, <4>2 DEF Held
      <4> QED BY Zenon, <3>1, <4>1, <4>2
    <3>2. CASE Sent'[p] = f
      BY Zenon, <3>2
    <3> QED BY Zenon, <2>1, <3>1, <3>2
  <2> QED BY Zenon, <1>3, <1>4, <2>3, <2>4, <2>5, <2>7, <2>8 DEF ChannelInv, ChannelTyped
<1> QED BY Zenon, <1>2, <1>5, <1>6

LEMMA PageIs ==
  ASSUME ChannelSensible, PublishTyped, NEW cursor \in {0} \cup (trimmed + 1)..(trimmed + Len(stream))
  PROVE  /\ Range(Page(cursor)) \subseteq Kept
         /\ cursor = 0 /\ Len(stream) <= Limit => Range(Page(cursor)) = Kept
<1> DEFINE last == IF cursor = 0 THEN Len(stream) ELSE cursor - trimmed - 1
           first == IF last > Limit THEN last - Limit + 1 ELSE 1
           p == SubSeq(stream, first, last)
<1>1. stream \in Seq(Messages) /\ Len(stream) \in Nat /\ DOMAIN stream = 1..Len(stream) /\ trimmed \in Nat /\ Limit \in Nat
  BY DEF PublishTyped, ChannelSensible
<1>2. last \in Nat /\ last <= Len(stream) /\ first \in Nat /\ first >= 1 /\ first <= last + 1
  BY <1>1
<1>3. cursor = 0 /\ Len(stream) <= Limit => first = 1 /\ last = Len(stream)
  BY <1>1
<1>4. Page(cursor) = p
  BY Zenon DEF Page
<1> HIDE DEF first, last
<1>5. DOMAIN p = 1..(last - first + 1) /\ \A i \in 1..(last - first + 1) : p[i] = stream[first + i - 1]
  BY <1>1, <1>2
<1> HIDE DEF p
<1>6. \A i \in DOMAIN p : first + i - 1 \in DOMAIN stream /\ p[i] = stream[first + i - 1]
  BY <1>1, <1>2, <1>5
<1>7. Range(p) \subseteq Kept
  BY Zenon, <1>6 DEF Range, Kept
<1>8. ASSUME cursor = 0, Len(stream) <= Limit
      PROVE  Kept \subseteq Range(p)
  <2>1. first = 1 /\ last = Len(stream)
    BY Zenon, <1>3, <1>8
  <2>2. \A i \in DOMAIN stream : i \in DOMAIN p /\ p[i] = stream[i]
    BY <1>1, <1>5, <2>1
  <2> QED BY Zenon, <2>2 DEF Range, Kept
<1> QED BY Zenon, <1>4, <1>7, <1>8

LEMMA HistoryStep ==
  ASSUME ChannelSensible, ChannelInv, NEW cursor \in {0} \cup (trimmed + 1)..(trimmed + Len(stream)),
         HistoryV2(cursor)
  PROVE  ChannelInv'
<1> DEFINE f == PageFrame(cursor)
           page == Range(Page(cursor))
<1>1. /\ reader.pc = "read" /\ reader' = [reader EXCEPT !.page = page, !.pc = "confirm"] /\ Send(f)
      /\ UNCHANGED <<publisher, stream, trimmed, wire, deliverer, received, arrived, subscriptions>>
  BY Zenon DEF HistoryV2, Reader, publishing, histories
<1>2. ChannelTyped /\ PublishTyped /\ SessionTyped /\ AppendedFirst /\ reader \in Readers /\ reader.batch = <<>>
      /\ subscriptions \in Nat
  BY Zenon, <1>1 DEF ChannelInv, ChannelTyped, SessionTyped, RewindsInTurn
<1>3. page \subseteq Kept /\ (cursor = 0 /\ Len(stream) <= Limit => page = Kept) /\ Kept \subseteq Messages
  BY Zenon, <1>2, PageIs, KeptIs
<1>4. /\ f.kind = (IF cursor = 0 /\ trimmed = 0 /\ Len(stream) <= Limit THEN "page" ELSE "part")
      /\ f.of = page /\ f.under = subscriptions
      /\ f = [kind |-> f.kind, of |-> f.of, under |-> f.under]
  BY Zenon DEF PageFrame
<1> HIDE DEF f, page
<1>5. f \in Told /\ IsPage(f)
  BY Zenon, <1>2, <1>3, <1>4 DEF Told, IsPage
<1>6. /\ reader' \in Readers /\ reader'.batch = <<>> /\ reader'.pc = "confirm" /\ reader'.page = page
  BY Zenon, <1>1, <1>2, <1>3 DEF Readers
<1>7. UNCHANGED seen
  BY Zenon, <1>1 DEF Send, hub
<1>8. AppendedFirst'
  BY <1>1, <1>2, <1>3, <1>6, <1>7 DEF AppendedFirst, Kept, Written
<1>9. f.kind = "page" =>
        /\ seen \subseteq f.of
        /\ \A i \in DOMAIN arrived : arrived[i].kind = "message" /\ arrived[i].of \in Stored => arrived[i].of \in f.of
  BY Zenon, <1>2, <1>3, <1>4 DEF AppendedFirst, ChannelInv, RoutedOnce
<1> QED BY Zenon, <1>1, <1>4, <1>5, <1>6, <1>8, <1>9, Tells

LEMMA TellStep ==
  ASSUME ChannelSensible, ChannelInv, HistoryFails \/ Confirm
  PROVE  ChannelInv'
<1> DEFINE f == [kind |-> IF HistoryFails THEN "error" ELSE "subscribed", of |-> {}, under |-> subscriptions]
<1>1. /\ Send(f) /\ UNCHANGED <<publisher, stream, trimmed, wire, deliverer, received, arrived, subscriptions>>
      /\ \/ reader.pc = "read" /\ reader' = [reader EXCEPT !.pc = "confirm"]
         \/ reader.pc = "confirm" /\ reader' = [reader EXCEPT !.pc = IF rewinding THEN "finish" ELSE "idle"]
  BY Zenon DEF HistoryFails, Confirm, Reader, publishing, histories
<1>2. ChannelTyped /\ AppendedFirst /\ reader \in Readers /\ reader.batch = <<>> /\ subscriptions \in Nat
  BY Zenon, <1>1 DEF ChannelInv, ChannelTyped, SessionTyped, RewindsInTurn
<1>3. f \in Told /\ ~IsPage(f) /\ f.under = subscriptions /\ f.kind # "page"
  BY Zenon, <1>2 DEF Told, IsPage
<1> HIDE DEF f
<1>4. /\ reader' \in Readers /\ reader'.batch = <<>> /\ reader'.page = reader.page
      /\ reader'.pc \in {"confirm", "finish", "idle"} /\ (reader'.pc = "confirm" => reader.pc = "read")
      /\ (reader'.pc = "finish" => rewinding) /\ (reader'.pc = "idle" => ~rewinding)
  BY Zenon, <1>1, <1>2 DEF Readers
<1>5. UNCHANGED seen
  BY Zenon, <1>1 DEF Send, hub
<1>6. AppendedFirst'
  BY <1>1, <1>2, <1>4, <1>5 DEF AppendedFirst, Kept, Written
<1>7. reader'.pc = "idle" => reader'.page = {}
  BY Zenon, <1>4 DEF ChannelInv, RewindsInTurn
<1> QED BY Zenon, <1>1, <1>3, <1>4, <1>6, <1>7, Tells

(* The history and what is remembered of it stay as they are. *)
LEMMA HistoryUnmoved ==
  ASSUME ChannelInv, UNCHANGED <<publisher, stream, trimmed>>, seen' \subseteq seen \cup reader.page,
         reader'.page \subseteq reader.page
  PROVE  AppendedFirst'
<1>1. AppendedFirst
  BY Zenon DEF ChannelInv
<1>2. Kept' = Kept /\ \A m : Written(m)' <=> Written(m)
  BY Zenon DEF Kept, Written
<1>3. seen' \cup reader'.page \subseteq seen \cup reader.page
  BY Zenon
<1> QED BY Zenon, <1>1, <1>2, <1>3 DEF AppendedFirst

(* A live frame that was chosen or buffered is sent. *)
LEMMA SendsLive ==
  ASSUME ChannelSensible, ChannelInv, open, NEW f \in Live, Sent' = Append(Sent, f),
         UNCHANGED <<publisher, stream, trimmed, wire, hub, arrived, subscriptions>>,
         SessionTyped', RewindsInTurn', reader'.page = reader.page,
         f.under <= subscriptions, reader'.pc = "read" => reader.pc = "read" /\ f.under # subscriptions,
         \A i \in DOMAIN deliverer' : \E j \in DOMAIN deliverer : deliverer'[i] = deliverer[j],
         \A i \in DOMAIN reader'.batch : \E j \in DOMAIN reader.batch : reader'.batch[i] = reader.batch[j],
         f.kind = "message" =>
           /\ \E k \in DOMAIN arrived : arrived[k] = f
           /\ \A i \in DOMAIN Sent : Sent[i].kind = "message" => Before(Sent[i], f)
           /\ \A i \in DOMAIN deliverer' : deliverer'[i].kind = "message" => Before(f, deliverer'[i])
           /\ \A i \in DOMAIN reader'.batch : reader'.batch[i].kind = "message" => Before(f, reader'.batch[i])
           /\ \A i \in DOMAIN buffer : buffer[i].kind = "message" => Before(f, buffer[i])
           /\ \A i \in DOMAIN Sent : IsPage(Sent[i]) /\ Sent[i].under = f.under => f.of \notin Sent[i].of,
         InOrder(reader.batch)', deliverer' # <<>> => reader'.batch = <<>> /\ buffer = <<>>,
         \A g : Held(g) => Held(g)'
  PROVE  ChannelInv'
<1>1. ChannelTyped /\ SessionTyped /\ f \in Shown /\ ~IsPage(f) /\ f.kind # "page"
  BY Zenon DEF ChannelInv, ChannelTyped, Shown, Live, IsPage
<1>2. PublishTyped' /\ RoutedOnce' /\ \A m : Gone(m)' <=> Gone(m)
  BY Zenon, NotPublishing
<1>3. UNCHANGED <<open, subscribed, rewinding, buffer, seen>>
  BY Zenon DEF hub
<1>4. AppendedFirst'
  BY Zenon, <1>3, HistoryUnmoved
<1>5. /\ \A i \in DOMAIN Sent : i \in DOMAIN Sent' /\ Sent'[i] = Sent[i]
      /\ \A i \in DOMAIN Sent' : \/ i \in DOMAIN Sent /\ Sent'[i] = Sent[i]
                                 \/ i \notin DOMAIN Sent /\ Sent'[i] = f /\ \A j \in DOMAIN Sent : j < i
      /\ \A i, j \in DOMAIN Sent' : i < j => i \in DOMAIN Sent
  BY Zenon, <1>1, SentGrows
<1>6. Numbered'
  <2>1. Numbered
    BY Zenon DEF ChannelInv
  <2>2. \A i \in DOMAIN Sent' : Sent'[i].under <= subscriptions
    BY Zenon, <1>5, <2>1 DEF Numbered
  <2>3. \A i \in DOMAIN deliverer' : deliverer'[i].under <= subscriptions
    BY Zenon, <2>1 DEF Numbered
  <2>4. \A i \in DOMAIN reader'.batch : reader'.batch[i].under = subscriptions
    BY Zenon, <2>1 DEF Numbered
  <2>5. ASSUME reader'.pc = "read"
        PROVE  /\ \A i \in DOMAIN Sent' : Sent'[i].under # subscriptions
               /\ \A i \in DOMAIN deliverer' : deliverer'[i].under # subscriptions
    <3>1. \A i \in DOMAIN Sent' : Sent'[i].under # subscriptions
      <4>1. \A i \in DOMAIN Sent : Sent[i].under # subscriptions
        BY Zenon, <2>1, <2>5 DEF Numbered
      <4>2. f.under # subscriptions
        BY Zenon, <2>5
      <4>3. \A i \in DOMAIN Sent' : (i \in DOMAIN Sent /\ Sent'[i] = Sent[i]) \/ Sent'[i] = f
        BY Zenon, <1>5
      <4> QED BY <4>1, <4>2, <4>3
    <3>2. \A i \in DOMAIN deliverer' : deliverer'[i].under # subscriptions
      <4>1. \A j \in DOMAIN deliverer : deliverer[j].under # subscriptions
        BY Zenon, <2>1, <2>5 DEF Numbered
      <4> QED BY Zenon, <4>1
    <3> QED BY Zenon, <3>1, <3>2
  <2> QED BY Zenon, <1>3, <2>1, <2>2, <2>3, <2>4, <2>5 DEF Numbered
<1>7. Ordered'
  <2>1. \A g, h : Before(g, h)' <=> Before(g, h)
    BY DEF Before
  <2>2. FromHub(Sent)'
    <3>1. FromHub(Sent)
      BY Zenon DEF ChannelInv, Ordered
    <3> QED BY <1>5, <3>1 DEF FromHub
  <2>3. InOrder(Sent)'
    <3> SUFFICES ASSUME NEW i \in DOMAIN Sent', NEW j \in DOMAIN Sent', i < j,
                        Sent'[i].kind = "message", Sent'[j].kind = "message"
                 PROVE  Before(Sent'[i], Sent'[j])
      BY Zenon, <2>1 DEF InOrder
    <3>1. i \in DOMAIN Sent /\ Sent'[i] = Sent[i]
      BY Zenon, <1>5
    <3>2. CASE j \in DOMAIN Sent /\ Sent'[j] = Sent[j]
      BY Zenon, <3>1, <3>2 DEF ChannelInv, Ordered, InOrder
    <3>3. CASE Sent'[j] = f
      BY Zenon, <3>1, <3>3
    <3> QED BY Zenon, <1>5, <3>2, <3>3
  <2>4. Precede(Sent, deliverer) /\ Precede(Sent, reader.batch) /\ Precede(Sent, buffer)
        /\ FromHub(deliverer) /\ FromHub(reader.batch) /\ FromHub(buffer) /\ InOrder(buffer) /\ Precede(reader.batch, buffer)
    BY Zenon DEF ChannelInv, Ordered
  <2>5. Precede(Sent, deliverer)'
    <3> SUFFICES ASSUME NEW i \in DOMAIN Sent', NEW j \in DOMAIN deliverer',
                        Sent'[i].kind = "message", deliverer'[j].kind = "message"
                 PROVE  Before(Sent'[i], deliverer'[j])
      BY Zenon, <2>1 DEF Precede
    <3>1. CASE i \in DOMAIN Sent /\ Sent'[i] = Sent[i]
      BY Zenon, <2>4, <3>1 DEF Precede
    <3>2. CASE Sent'[i] = f
      BY Zenon, <3>2
    <3> QED BY Zenon, <1>5, <3>1, <3>2
  <2>6. Precede(Sent, reader.batch)'
    <3> SUFFICES ASSUME NEW i \in DOMAIN Sent', NEW j \in DOMAIN reader'.batch,
                        Sent'[i].kind = "message", reader'.batch[j].kind = "message"
                 PROVE  Before(Sent'[i], reader'.batch[j])
      BY Zenon, <2>1 DEF Precede
    <3>1. CASE i \in DOMAIN Sent /\ Sent'[i] = Sent[i]
      BY Zenon, <2>4, <3>1 DEF Precede
    <3>2. CASE Sent'[i] = f
      BY Zenon, <3>2
    <3> QED BY Zenon, <1>5, <3>1, <3>2
  <2>7. Precede(Sent, buffer)'
    <3> SUFFICES ASSUME NEW i \in DOMAIN Sent', NEW j \in DOMAIN buffer',
                        Sent'[i].kind = "message", buffer'[j].kind = "message"
                 PROVE  Before(Sent'[i], buffer'[j])
      BY Zenon, <2>1 DEF Precede
    <3>1. CASE i \in DOMAIN Sent /\ Sent'[i] = Sent[i]
      BY Zenon, <1>3, <2>4, <3>1 DEF Precede
    <3>2. CASE Sent'[i] = f
      BY Zenon, <1>3, <3>2
    <3> QED BY Zenon, <1>5, <3>1, <3>2
  <2>8. FromHub(deliverer)' /\ FromHub(reader.batch)' /\ FromHub(buffer)'
    <3>1. FromHub(deliverer)'
      <4> SUFFICES ASSUME NEW i \in DOMAIN deliverer', deliverer'[i].kind = "message"
                   PROVE  \E k \in DOMAIN arrived : arrived[k] = deliverer'[i]
        BY Zenon DEF FromHub
      <4>1. PICK j \in DOMAIN deliverer : deliverer'[i] = deliverer[j]
        BY Zenon
      <4> QED BY Zenon, <2>4, <4>1 DEF FromHub
    <3>2. FromHub(reader.batch)'
      <4> SUFFICES ASSUME NEW i \in DOMAIN reader'.batch, reader'.batch[i].kind = "message"
                   PROVE  \E k \in DOMAIN arrived : arrived[k] = reader'.batch[i]
        BY Zenon DEF FromHub
      <4>1. PICK j \in DOMAIN reader.batch : reader'.batch[i] = reader.batch[j]
        BY Zenon
      <4> QED BY Zenon, <2>4, <4>1 DEF FromHub
    <3>3. FromHub(buffer)'
      BY Zenon, <1>3, <2>4 DEF FromHub
    <3> QED BY Zenon, <3>1, <3>2, <3>3
  <2>9. InOrder(buffer)' /\ Precede(reader.batch, buffer)'
    <3>1. InOrder(buffer)'
      BY Zenon, <1>3, <2>1, <2>4 DEF InOrder
    <3>2. Precede(reader.batch, buffer)'
      BY Zenon, <1>3, <2>1, <2>4 DEF Precede
    <3> QED BY Zenon, <3>1, <3>2
  <2> QED BY Zenon, <1>3, <2>2, <2>3, <2>5, <2>6, <2>7, <2>8, <2>9 DEF Ordered
<1>8. Apart(Sent, Sent)' /\ Apart(Sent, deliverer)'
  <2>1. Apart(Sent, Sent) /\ Apart(Sent, deliverer)
    BY Zenon DEF ChannelInv, Pages
  <2>2. ASSUME NEW i \in DOMAIN Sent', NEW j \in DOMAIN Sent', IsPage(Sent'[i]), Sent'[j].kind = "message",
               Sent'[i].under = Sent'[j].under
        PROVE  Sent'[j].of \notin Sent'[i].of
    <3>1. i \in DOMAIN Sent /\ Sent'[i] = Sent[i]
      BY Zenon, <1>1, <1>5, <2>2
    <3>2. CASE j \in DOMAIN Sent /\ Sent'[j] = Sent[j]
      BY Zenon, <2>1, <2>2, <3>1, <3>2 DEF Apart
    <3>3. CASE Sent'[j] = f
      BY Zenon, <2>2, <3>1, <3>3
    <3> QED BY Zenon, <1>5, <3>2, <3>3
  <2>3. ASSUME NEW i \in DOMAIN Sent', NEW j \in DOMAIN deliverer', IsPage(Sent'[i]), deliverer'[j].kind = "message",
               Sent'[i].under = deliverer'[j].under
        PROVE  deliverer'[j].of \notin Sent'[i].of
    <3>1. i \in DOMAIN Sent /\ Sent'[i] = Sent[i]
      BY Zenon, <1>1, <1>5, <2>3
    <3> QED BY <2>1, <2>3, <3>1 DEF Apart
  <2> QED BY Zenon, <2>2, <2>3 DEF Apart, IsPage
<1>9. Pages'
  <2> SUFFICES ASSUME NEW i \in DOMAIN Sent', IsPage(Sent'[i]), Sent'[i].under = subscriptions
               PROVE  IF rewinding THEN Sent'[i].of = reader.page
                      ELSE \A m \in Sent'[i].of : m \in seen \/ Gone(m)
    BY Zenon, <1>2, <1>3, <1>8 DEF Pages, IsPage
  <2>1. i \in DOMAIN Sent /\ Sent'[i] = Sent[i]
    BY Zenon, <1>1, <1>5
  <2> QED BY Zenon, <2>1 DEF ChannelInv, Pages
<1>10. NoGap'
  <2> SUFFICES ASSUME subscribed, NEW p \in DOMAIN Sent', Sent'[p].kind = "page", Sent'[p].under = subscriptions
               PROVE  /\ seen \subseteq Sent'[p].of
                      /\ \A i \in DOMAIN arrived : arrived[i].kind = "message" /\ arrived[i].of \in Stored =>
                           arrived[i].of \in Sent'[p].of \/ Held([arrived[i] EXCEPT !.under = subscriptions])'
    BY Zenon, <1>3 DEF NoGap
  <2>1. p \in DOMAIN Sent /\ Sent'[p] = Sent[p]
    BY Zenon, <1>1, <1>5
  <2>2. /\ seen \subseteq Sent[p].of
        /\ \A i \in DOMAIN arrived : arrived[i].kind = "message" /\ arrived[i].of \in Stored =>
             arrived[i].of \in Sent[p].of \/ Held([arrived[i] EXCEPT !.under = subscriptions])
    BY Zenon, <2>1 DEF ChannelInv, NoGap
  <2> QED BY Zenon, <2>1, <2>2
<1> QED BY Zenon, <1>2, <1>4, <1>6, <1>7, <1>9, <1>10 DEF ChannelInv, ChannelTyped

LEMMA SendStep ==
  ASSUME ChannelSensible, ChannelInv, SendChosen
  PROVE  ChannelInv'
<1> DEFINE f == Head(deliverer)
<1>1. /\ deliverer # <<>> /\ deliverer' = <<>> /\ Send(f)
      /\ UNCHANGED <<publisher, stream, trimmed, wire, reader, received, arrived, subscriptions>>
  BY Zenon DEF SendChosen, publishing, histories
<1>2. ChannelTyped /\ SessionTyped /\ deliverer \in Seq(Live) /\ Len(deliverer) <= 1 /\ RewindsInTurn
  BY Zenon DEF ChannelInv, ChannelTyped, SessionTyped
<1>3. f \in Live /\ f \in Shown /\ 1 \in DOMAIN deliverer /\ f = deliverer[1] /\ \A i \in DOMAIN deliverer : i = 1
  BY <1>1, <1>2 DEF Shown
<1> HIDE DEF f
<1>4. /\ outbound' \in Seq(Shown) /\ Len(outbound') <= QueueSize /\ UNCHANGED <<rewinding, buffer, seen>>
      /\ \/ open /\ UNCHANGED <<open, subscribed>> /\ Sent' = Append(Sent, f)
         \/ open' = FALSE /\ subscribed' = FALSE /\ Sent' = Sent
  BY Zenon, <1>1, <1>2, <1>3, SendEffect
<1>5. SessionTyped'
  <2>1. open' \in BOOLEAN /\ subscribed' \in BOOLEAN
    BY Zenon, <1>2, <1>4 DEF SessionTyped
  <2>2. deliverer' \in Seq(Live) /\ Len(deliverer') <= 1
    BY <1>1
  <2> QED BY Zenon, <1>1, <1>2, <1>4, <2>1, <2>2 DEF SessionTyped
<1>6. CASE open' = FALSE /\ subscribed' = FALSE /\ Sent' = Sent
  <2>1. PublishTyped' /\ RoutedOnce'
    BY Zenon, <1>1, NotPublishing
  <2>2. AppendedFirst'
    BY Zenon, <1>1, <1>4, HistoryUnmoved
  <2> QED BY Zenon, <1>1, <1>2, <1>4, <1>5, <1>6, <2>1, <2>2, Closes DEF ChannelTyped, RewindsInTurn
<1>7. CASE open /\ UNCHANGED <<open, subscribed>> /\ Sent' = Append(Sent, f)
  <2>1. reader.batch = <<>> /\ buffer = <<>> /\ Precede(Sent, deliverer) /\ FromHub(deliverer) /\ Apart(Sent, deliverer)
    BY Zenon, <1>1, <1>7 DEF ChannelInv, Ordered, Pages
  <2>2. f.under <= subscriptions /\ (reader.pc = "read" => f.under # subscriptions)
    BY Zenon, <1>3, <1>7 DEF ChannelInv, Numbered
  <2>3. RewindsInTurn'
    BY Zenon, <1>1, <1>2, <1>4, <1>7 DEF RewindsInTurn
  <2>4. f.kind = "message" =>
          /\ \E k \in DOMAIN arrived : arrived[k] = f
          /\ \A i \in DOMAIN Sent : Sent[i].kind = "message" => Before(Sent[i], f)
          /\ \A i \in DOMAIN Sent : IsPage(Sent[i]) /\ Sent[i].under = f.under => f.of \notin Sent[i].of
    BY Zenon, <1>3, <2>1 DEF FromHub, Precede, Apart
  <2>5. \E i \in DOMAIN Sent' : Sent'[i] = f
    BY Zenon, <1>2, <1>3, <1>7, SentGrows
  <2>6. \A i \in DOMAIN Sent : i \in DOMAIN Sent' /\ Sent'[i] = Sent[i]
    BY Zenon, <1>2, <1>3, <1>7, SentGrows
  <2>7. \A g : Held(g) => Held(g)'
    BY Zenon, <1>1, <1>3, <1>4, <2>5, <2>6 DEF Held
  <2>8. InOrder(reader.batch)'
    BY <1>1, <2>1 DEF InOrder
  <2>9. reader'.batch = <<>> /\ DOMAIN deliverer' = {} /\ DOMAIN reader'.batch = {} /\ DOMAIN buffer = {} /\ reader'.page = reader.page
    BY <1>1, <2>1
  <2>10. UNCHANGED hub
    BY Zenon, <1>4, <1>7 DEF hub
  <2> QED BY Zenon, <1>1, <1>3, <1>5, <1>7, <2>2, <2>3, <2>4, <2>7, <2>8, <2>9, <2>10, SendsLive
<1> QED BY Zenon, <1>4, <1>6, <1>7

LEMMA ArrivedAnew ==
  ASSUME ChannelInv, NEW i \in DOMAIN arrived
  PROVE  /\ [arrived[i] EXCEPT !.under = subscriptions] \in Live
         /\ [arrived[i] EXCEPT !.under = subscriptions].of = arrived[i].of
<1>1. arrived[i] \in Live /\ subscriptions \in Nat
  BY DEF ChannelInv, ChannelTyped, SessionTyped
<1> QED BY <1>1 DEF Live

(* The rewind goes on or ends, and nothing is sent. *)
LEMMA RewindMoves ==
  ASSUME ChannelSensible, ChannelInv, open, Sent' = Sent,
         UNCHANGED <<publisher, stream, trimmed, wire, deliverer, open, subscribed, arrived, subscriptions>>,
         SessionTyped', AppendedFirst', RewindsInTurn', reader'.pc # "read",
         \A i \in DOMAIN reader'.batch : \/ \E j \in DOMAIN reader.batch : reader'.batch[i] = reader.batch[j]
                                         \/ \E j \in DOMAIN buffer : reader'.batch[i] = buffer[j],
         \A i \in DOMAIN buffer' : \E j \in DOMAIN buffer : buffer'[i] = buffer[j],
         InOrder(reader.batch)', InOrder(buffer)', Precede(reader.batch, buffer)',
         deliverer # <<>> => reader'.batch = <<>> /\ buffer' = <<>>,
         \A i \in DOMAIN Sent : IsPage(Sent[i]) /\ Sent[i].under = subscriptions =>
           IF rewinding' THEN Sent[i].of = reader'.page ELSE \A m \in Sent[i].of : m \in seen',
         \A p \in DOMAIN Sent : Sent[p].kind = "page" /\ Sent[p].under = subscriptions =>
           seen' \subseteq seen \cup Sent[p].of /\ \A g \in Live : Held(g) => g.of \in Sent[p].of \/ Held(g)'
  PROVE  ChannelInv'
<1>1. PublishTyped' /\ RoutedOnce' /\ \A m : Gone(m)' <=> Gone(m)
  BY Zenon, NotPublishing
<1>2. Numbered'
  <2>1. Numbered
    BY Zenon DEF ChannelInv
  <2>2. ASSUME NEW i \in DOMAIN reader'.batch
        PROVE  reader'.batch[i].under = subscriptions
    <3>1. CASE \E j \in DOMAIN reader.batch : reader'.batch[i] = reader.batch[j]
      BY Zenon, <2>1, <3>1 DEF Numbered
    <3>2. CASE \E j \in DOMAIN buffer : reader'.batch[i] = buffer[j]
      BY Zenon, <2>1, <3>2 DEF Numbered
    <3> QED BY Zenon, <3>1, <3>2
  <2>3. ASSUME NEW i \in DOMAIN buffer'
        PROVE  buffer'[i].under = subscriptions
    <3>1. PICK j \in DOMAIN buffer : buffer'[i] = buffer[j]
      BY Zenon
    <3> QED BY Zenon, <2>1, <3>1 DEF Numbered
  <2> QED BY Zenon, <2>1, <2>2, <2>3 DEF Numbered
<1>3. Ordered'
  <2>1. \A g, h : Before(g, h)' <=> Before(g, h)
    BY Zenon DEF Before
  <2>2. Precede(Sent, deliverer) /\ Precede(Sent, reader.batch) /\ Precede(Sent, buffer)
        /\ FromHub(deliverer) /\ FromHub(reader.batch) /\ FromHub(buffer) /\ FromHub(Sent) /\ InOrder(Sent)
    BY Zenon DEF ChannelInv, Ordered
  <2>3. FromHub(Sent)' /\ FromHub(deliverer)' /\ InOrder(Sent)' /\ Precede(Sent, deliverer)'
    BY <2>1, <2>2 DEF FromHub, InOrder, Precede
  <2>4. FromHub(reader.batch)' /\ FromHub(buffer)'
    <3>1. \A g : (\E k \in DOMAIN arrived' : arrived'[k] = g) <=> (\E k \in DOMAIN arrived : arrived[k] = g)
      BY Zenon
    <3>2. FromHub(reader.batch)'
      <4> SUFFICES ASSUME NEW i \in DOMAIN reader'.batch, reader'.batch[i].kind = "message"
                   PROVE  \E k \in DOMAIN arrived : arrived[k] = reader'.batch[i]
        BY Zenon, <3>1 DEF FromHub
      <4>1. CASE \E j \in DOMAIN reader.batch : reader'.batch[i] = reader.batch[j]
        <5>1. PICK j \in DOMAIN reader.batch : reader'.batch[i] = reader.batch[j]
          BY Zenon, <4>1
        <5> QED BY Zenon, <2>2, <5>1 DEF FromHub
      <4>2. CASE \E j \in DOMAIN buffer : reader'.batch[i] = buffer[j]
        <5>1. PICK j \in DOMAIN buffer : reader'.batch[i] = buffer[j]
          BY Zenon, <4>2
        <5> QED BY Zenon, <2>2, <5>1 DEF FromHub
      <4> QED BY Zenon, <4>1, <4>2
    <3>3. FromHub(buffer)'
      <4> SUFFICES ASSUME NEW i \in DOMAIN buffer', buffer'[i].kind = "message"
                   PROVE  \E k \in DOMAIN arrived : arrived[k] = buffer'[i]
        BY Zenon, <3>1 DEF FromHub
      <4>1. PICK j \in DOMAIN buffer : buffer'[i] = buffer[j]
        BY Zenon
      <4> QED BY Zenon, <2>2, <4>1 DEF FromHub
    <3> QED BY Zenon, <3>2, <3>3
  <2>5. Precede(Sent, reader.batch)'
    <3> SUFFICES ASSUME NEW n \in DOMAIN Sent, NEW i \in DOMAIN reader'.batch,
                        Sent[n].kind = "message", reader'.batch[i].kind = "message"
                 PROVE  Before(Sent[n], reader'.batch[i])
      BY Zenon, <2>1 DEF Precede
    <3>1. CASE \E j \in DOMAIN reader.batch : reader'.batch[i] = reader.batch[j]
      BY Zenon, <2>2, <3>1 DEF Precede
    <3>2. CASE \E j \in DOMAIN buffer : reader'.batch[i] = buffer[j]
      BY Zenon, <2>2, <3>2 DEF Precede
    <3> QED BY Zenon, <3>1, <3>2
  <2>6. Precede(Sent, buffer)'
    <3> SUFFICES ASSUME NEW n \in DOMAIN Sent, NEW i \in DOMAIN buffer',
                        Sent[n].kind = "message", buffer'[i].kind = "message"
                 PROVE  Before(Sent[n], buffer'[i])
      BY Zenon, <2>1 DEF Precede
    <3>1. PICK j \in DOMAIN buffer : buffer'[i] = buffer[j]
      BY Zenon
    <3> QED BY Zenon, <2>2, <3>1 DEF Precede
  <2> QED BY Zenon, <2>3, <2>4, <2>5, <2>6 DEF Ordered
<1>4. Pages'
  <2>1. Apart(Sent, Sent)' /\ Apart(Sent, deliverer)'
    BY Zenon DEF ChannelInv, Pages, Apart, IsPage
  <2> QED BY Zenon, <2>1 DEF Pages, IsPage
<1>5. NoGap'
  <2> SUFFICES ASSUME subscribed, NEW p \in DOMAIN Sent, Sent[p].kind = "page", Sent[p].under = subscriptions
               PROVE  /\ seen' \subseteq Sent[p].of
                      /\ \A i \in DOMAIN arrived : arrived[i].kind = "message" /\ arrived[i].of \in Stored =>
                           arrived[i].of \in Sent[p].of \/ Held([arrived[i] EXCEPT !.under = subscriptions])'
    BY Zenon DEF NoGap
  <2>1. /\ seen \subseteq Sent[p].of
        /\ \A i \in DOMAIN arrived : arrived[i].kind = "message" /\ arrived[i].of \in Stored =>
             arrived[i].of \in Sent[p].of \/ Held([arrived[i] EXCEPT !.under = subscriptions])
    BY Zenon DEF ChannelInv, NoGap
  <2>2. seen' \subseteq Sent[p].of /\ \A g \in Live : Held(g) => g.of \in Sent[p].of \/ Held(g)'
    BY Zenon, <2>1
  <2>3. ASSUME NEW i \in DOMAIN arrived
        PROVE  /\ [arrived[i] EXCEPT !.under = subscriptions] \in Live
               /\ [arrived[i] EXCEPT !.under = subscriptions].of = arrived[i].of
    BY Zenon, ArrivedAnew
  <2> QED BY Zenon, <2>1, <2>2, <2>3
<1> QED BY Zenon, <1>1, <1>2, <1>3, <1>4, <1>5 DEF ChannelInv, ChannelTyped

(* What the page and the rewind say of the frames that wait. *)
LEMMA Rewinding ==
  ASSUME ChannelInv, open, reader.pc \in {"finish", "flush"}
  PROVE  /\ rewinding /\ \A i \in DOMAIN Sent : IsPage(Sent[i]) /\ Sent[i].under = subscriptions => Sent[i].of = reader.page
         /\ InOrder(reader.batch) /\ InOrder(buffer) /\ Precede(reader.batch, buffer) /\ FromHub(reader.batch)
         /\ Precede(Sent, reader.batch) /\ (deliverer # <<>> => reader.batch = <<>> /\ buffer = <<>>)
         /\ \A i \in DOMAIN reader.batch : reader.batch[i].under = subscriptions
<1>1. rewinding
  BY Zenon DEF ChannelInv, RewindsInTurn
<1> QED BY Zenon, <1>1 DEF ChannelInv, Pages, Ordered, Numbered

LEMMA FinishStep ==
  ASSUME ChannelSensible, ChannelInv, FinishRewindV2
  PROVE  ChannelInv'
<1>1. /\ reader.pc = "finish" /\ reader.batch = <<>> /\ Sent' = Sent
      /\ UNCHANGED <<publisher, stream, trimmed, wire, deliverer, outbound, received, arrived, subscriptions, open, subscribed>>
  BY Zenon DEF FinishRewindV2, Reader, publishing, histories, hub, Sent, ChannelInv, RewindsInTurn
<1>2. ChannelTyped /\ SessionTyped /\ reader \in Readers /\ buffer \in Seq(Live) /\ seen \subseteq Messages /\ RewindsInTurn
  BY Zenon DEF ChannelInv, ChannelTyped, SessionTyped
<1>3. CASE ~open
  <2>1. reader' = Idle /\ UNCHANGED <<rewinding, buffer, seen>> /\ subscribed = FALSE /\ open = FALSE
    BY Zenon, <1>2, <1>3 DEF FinishRewindV2, hub, RewindsInTurn, SessionTyped
  <2>2. reader' \in Readers /\ reader'.pc = "idle" /\ reader'.page = {} /\ reader'.batch = <<>>
    BY <2>1 DEF Readers, Idle
  <2>3. SessionTyped'
    BY Zenon, <1>1, <1>2, <2>1, <2>2 DEF SessionTyped
  <2>4. PublishTyped' /\ RoutedOnce'
    BY Zenon, <1>1, NotPublishing
  <2>5. AppendedFirst'
    BY Zenon, <1>1, <2>1, <2>2, HistoryUnmoved
  <2> QED BY Zenon, <1>1, <2>1, <2>2, <2>3, <2>4, <2>5, Closes DEF ChannelTyped
<1>4. CASE open /\ buffer = <<>>
  <2>1. /\ seen' = seen \cup reader.page /\ rewinding' = FALSE /\ reader' = Idle /\ UNCHANGED buffer
    BY Zenon, <1>4 DEF FinishRewindV2
  <2>2. reader' \in Readers /\ reader'.pc = "idle" /\ reader'.page = {} /\ reader'.batch = <<>> /\ reader.page \subseteq Messages
    BY <1>2, <2>1 DEF Readers, Idle
  <2>3. SessionTyped'
    BY Zenon, <1>1, <1>2, <2>1, <2>2 DEF SessionTyped
  <2>4. AppendedFirst'
    BY Zenon, <1>1, <2>1, <2>2, HistoryUnmoved
  <2>5. RewindsInTurn'
    BY Zenon, <1>1, <1>2, <1>4, <2>1, <2>2 DEF RewindsInTurn
  <2>6. DOMAIN buffer' = {} /\ DOMAIN reader'.batch = {} /\ buffer' = <<>>
    BY <1>4, <2>1, <2>2
  <2>7. InOrder(reader.batch)' /\ InOrder(buffer)' /\ Precede(reader.batch, buffer)'
    BY Zenon, <2>6 DEF InOrder, Precede
  <2>8. \A g : Held(g) => Held(g)'
    BY Zenon, <1>1, <2>1, <2>2 DEF Held
  <2>9. \A i \in DOMAIN Sent : IsPage(Sent[i]) /\ Sent[i].under = subscriptions => Sent[i].of = reader.page
    BY Zenon, <1>1, <1>4, Rewinding
  <2>10. \A i \in DOMAIN Sent : Sent[i].kind = "page" /\ Sent[i].under = subscriptions => Sent[i].of = reader.page
    BY Zenon, <2>9 DEF IsPage
  <2> QED BY Zenon, <1>1, <1>4, <2>1, <2>2, <2>3, <2>4, <2>5, <2>6, <2>7, <2>8, <2>9, <2>10, RewindMoves
<1>5. CASE open /\ buffer # <<>>
  <2>1. /\ reader' = [reader EXCEPT !.pc = "flush", !.batch = buffer] /\ buffer' = <<>>
        /\ UNCHANGED <<rewinding, seen>>
    BY Zenon, <1>5 DEF FinishRewindV2
  <2>2. reader' \in Readers /\ reader'.pc = "flush" /\ reader'.page = reader.page /\ reader'.batch = buffer
    BY Zenon, <1>2, <2>1 DEF Readers
  <2>3. SessionTyped'
    <3>1. buffer' \in Seq(Live) /\ Len(buffer') <= QueueSize
      BY <2>1 DEF ChannelSensible
    <3> QED BY Zenon, <1>1, <1>2, <2>1, <2>2, <3>1 DEF SessionTyped
  <2>4. AppendedFirst'
    BY Zenon, <1>1, <2>1, <2>2, HistoryUnmoved
  <2>5. /\ rewinding /\ \A i \in DOMAIN Sent : IsPage(Sent[i]) /\ Sent[i].under = subscriptions => Sent[i].of = reader.page
        /\ InOrder(buffer) /\ deliverer = <<>>
    BY Zenon, <1>1, <1>5, Rewinding
  <2>6. RewindsInTurn'
    BY Zenon, <1>1, <1>2, <1>5, <2>1, <2>2, <2>5 DEF RewindsInTurn
  <2>7. InOrder(reader.batch)' /\ InOrder(buffer)' /\ Precede(reader.batch, buffer)'
    BY <1>1, <2>1, <2>2, <2>5 DEF InOrder, Precede, Before
  <2>8. \A g : Held(g) => Held(g)'
    BY Zenon, <1>1, <2>1, <2>2 DEF Held
  <2> QED BY <1>1, <1>5, <2>1, <2>2, <2>3, <2>4, <2>5, <2>6, <2>7, <2>8, RewindMoves
<1> QED BY Zenon, <1>3, <1>4, <1>5

LEMMA FlushStep ==
  ASSUME ChannelSensible, ChannelInv, FlushBuffer
  PROVE  ChannelInv'
<1>1. /\ reader.pc = "flush"
      /\ UNCHANGED <<publisher, stream, trimmed, wire, deliverer, received, arrived, subscriptions>>
  BY Zenon DEF FlushBuffer, Reader, publishing, histories
<1>2. ChannelTyped /\ SessionTyped /\ reader \in Readers /\ reader.batch \in Seq(Live) /\ RewindsInTurn
      /\ reader.page \subseteq Messages
  BY Zenon DEF ChannelInv, ChannelTyped, SessionTyped, Readers
<1>3. PublishTyped' /\ RoutedOnce'
  BY Zenon, <1>1, NotPublishing
<1> DEFINE f == Head(reader.batch)  b == Tail(reader.batch)
<1>4. CASE reader.batch = <<>> \/ InPage(f)
  <2>1. UNCHANGED <<open, subscribed, rewinding, buffer, seen, outbound>> /\ Sent' = Sent
    BY Zenon, <1>1, <1>4 DEF hub, Sent, FlushBuffer
  <2>2. /\ reader' \in Readers /\ reader'.pc \in {"finish", "flush"} /\ reader'.page = reader.page
        /\ reader'.pc # "flush" => reader'.batch = <<>>
        /\ \/ reader'.batch = reader.batch
           \/ reader.batch # <<>> /\ reader'.batch = Tail(reader.batch) /\ f.of \in reader.page
    <3>1. CASE reader.batch = <<>>
      <4>1. reader' = [reader EXCEPT !.pc = "finish"]
        BY Zenon, <3>1 DEF FlushBuffer
      <4> QED BY Zenon, <1>2, <3>1, <4>1 DEF Readers
    <3>2. CASE reader.batch # <<>> /\ InPage(f)
      <4>1. reader' = [reader EXCEPT !.batch = Tail(@)]
        BY Zenon, <3>2 DEF FlushBuffer
      <4>2. Tail(reader.batch) \in Seq(Live)
        BY <1>2, <3>2
      <4> QED BY Zenon, <1>1, <1>2, <3>2, <4>1, <4>2 DEF Readers, InPage
    <3> QED BY Zenon, <1>4, <3>1, <3>2
  <2>3. SessionTyped'
    BY Zenon, <1>1, <1>2, <2>1, <2>2 DEF SessionTyped
  <2>4. AppendedFirst'
    BY Zenon, <1>1, <2>1, <2>2, HistoryUnmoved
  <2>5. CASE ~open
    <3>1. open' = FALSE /\ subscribed' = FALSE
      BY Zenon, <1>2, <2>1, <2>5 DEF RewindsInTurn, SessionTyped
    <3>2. ~rewinding' => reader'.page = {} /\ reader'.pc # "read"
      BY Zenon, <1>2, <2>1, <2>2 DEF RewindsInTurn
    <3> QED BY Zenon, <1>1, <1>3, <2>1, <2>2, <2>3, <2>4, <3>1, <3>2, Closes DEF ChannelTyped
  <2>6. CASE open
    <3>1. /\ rewinding /\ \A i \in DOMAIN Sent : IsPage(Sent[i]) /\ Sent[i].under = subscriptions => Sent[i].of = reader.page
          /\ InOrder(reader.batch) /\ InOrder(buffer) /\ Precede(reader.batch, buffer)
          /\ deliverer # <<>> => reader.batch = <<>> /\ buffer = <<>>
      BY Zenon, <1>1, <2>6, Rewinding
    <3>2. \/ reader'.batch = reader.batch
          \/ /\ reader.batch # <<>> /\ f = reader.batch[1] /\ f.of \in reader.page
             /\ \A i \in DOMAIN reader'.batch : i + 1 \in DOMAIN reader.batch /\ reader'.batch[i] = reader.batch[i + 1]
             /\ \A i, j \in DOMAIN reader'.batch : i < j => i + 1 < j + 1
             /\ \A i \in DOMAIN reader.batch : i = 1 \/ \E j \in DOMAIN reader'.batch : reader'.batch[j] = reader.batch[i]
      <4>1. CASE reader.batch # <<>> /\ reader'.batch = b /\ f.of \in reader.page
        <5>1. /\ f = reader.batch[1]
              /\ \A i \in DOMAIN b : i + 1 \in DOMAIN reader.batch /\ b[i] = reader.batch[i + 1]
              /\ \A i, j \in DOMAIN b : i < j => i + 1 < j + 1
              /\ \A i \in DOMAIN reader.batch : i = 1 \/ \E j \in DOMAIN b : b[j] = reader.batch[i]
          BY Zenon, <1>2, <4>1, ShiftedFrames
        <5> HIDE DEF f, b
        <5> QED BY Zenon, <4>1, <5>1
      <4> QED BY Zenon, <2>2, <4>1
    <3> HIDE DEF f
    <3>3. \A i \in DOMAIN reader'.batch : \E j \in DOMAIN reader.batch : reader'.batch[i] = reader.batch[j]
      BY Zenon, <3>2
    <3>4. \A g : Held(g) => Held(g)' \/ (g = f /\ f.of \in reader.page)
      <4>1. \A i \in DOMAIN reader.batch : \/ reader.batch[i] = f /\ f.of \in reader.page
                                           \/ \E j \in DOMAIN reader'.batch : reader'.batch[j] = reader.batch[i]
        <5>1. CASE reader'.batch = reader.batch
          BY Zenon, <5>1
        <5>2. CASE ~(reader'.batch = reader.batch)
          BY Zenon, <3>2, <5>2
        <5> QED BY Zenon, <5>1, <5>2
      <4> QED BY Zenon, <1>1, <2>1, <4>1 DEF Held
    <3>5. InOrder(reader.batch)'
      <4>1. \A i, j \in DOMAIN reader'.batch : i < j =>
              \E k, l \in DOMAIN reader.batch : k < l /\ reader'.batch[i] = reader.batch[k] /\ reader'.batch[j] = reader.batch[l]
        BY Zenon, <3>2
      <4> QED BY <1>1, <3>1, <4>1 DEF InOrder, Before
    <3>6. InOrder(buffer)' /\ Precede(reader.batch, buffer)'
      BY <1>1, <2>1, <3>1, <3>3 DEF InOrder, Precede, Before
    <3>7. deliverer # <<>> => reader'.batch = <<>> /\ buffer' = <<>>
      BY Zenon, <2>1, <3>1, <3>2
    <3>8. RewindsInTurn'
      BY Zenon, <1>2, <2>1, <2>2, <2>6, <3>1 DEF RewindsInTurn
    <3>9. \A p \in DOMAIN Sent : Sent[p].kind = "page" /\ Sent[p].under = subscriptions => Sent[p].of = reader.page
      BY Zenon, <3>1 DEF IsPage
    <3> QED BY <1>1, <2>1, <2>2, <2>3, <2>4, <2>6, <3>1, <3>3, <3>4, <3>5, <3>6, <3>7, <3>8, <3>9, RewindMoves
  <2> QED BY Zenon, <2>5, <2>6
<1>5. CASE reader.batch # <<>> /\ ~InPage(f)
  <2>1. Send(f) /\ reader' = (IF open' THEN [reader EXCEPT !.batch = Tail(@)] ELSE Idle)
    BY Zenon, <1>5 DEF FlushBuffer
  <2>2. /\ f = reader.batch[1] /\ f \in Live /\ f \in Shown /\ f.of \notin reader.page
        /\ 1 \in DOMAIN reader.batch /\ b \in Seq(Live)
        /\ \A i \in DOMAIN b : i + 1 \in DOMAIN reader.batch /\ b[i] = reader.batch[i + 1] /\ 1 < i + 1
        /\ \A i, j \in DOMAIN b : i < j => i + 1 < j + 1
        /\ \A i \in DOMAIN reader.batch : i = 1 \/ \E j \in DOMAIN b : b[j] = reader.batch[i]
    <3>1. f \in Live => f \in Shown
      BY Zenon DEF Shown
    <3> QED BY Zenon, <1>2, <1>5, <3>1, ShiftedFrames DEF InPage
  <2>0. reader' = (IF open' THEN [reader EXCEPT !.batch = b] ELSE Idle)
    BY Zenon, <2>1
  <2> HIDE DEF f, b
  <2>3. /\ outbound' \in Seq(Shown) /\ Len(outbound') <= QueueSize /\ UNCHANGED <<rewinding, buffer, seen>>
        /\ \/ open /\ UNCHANGED <<open, subscribed>> /\ Sent' = Append(Sent, f)
           \/ open' = FALSE /\ subscribed' = FALSE /\ Sent' = Sent
    BY Zenon, <1>1, <1>2, <2>1, <2>2, SendEffect
  <2>4. /\ reader' \in Readers
        /\ open' => reader'.pc = "flush" /\ reader'.page = reader.page /\ reader'.batch = b
        /\ ~open' => reader'.pc = "idle" /\ reader'.page = {} /\ reader'.batch = <<>>
    <3>1. CASE open'
      <4>1. reader' = [reader EXCEPT !.batch = b]
        BY Zenon, <2>0, <3>1
      <4> QED BY Zenon, <1>1, <1>2, <2>2, <3>1, <4>1 DEF Readers
    <3>2. CASE ~open'
      <4>1. reader' = Idle
        BY Zenon, <2>0, <3>2
      <4> QED BY Zenon, <3>2, <4>1, IdleIs
    <3> QED BY Zenon, <3>1, <3>2
  <2>5. SessionTyped'
    <3>1. open' \in BOOLEAN /\ subscribed' \in BOOLEAN
      BY Zenon, <1>2, <2>3 DEF SessionTyped
    <3> QED BY Zenon, <1>1, <1>2, <2>3, <2>4, <3>1 DEF SessionTyped
  <2>6. AppendedFirst'
    BY Zenon, <1>1, <2>3, <2>4, HistoryUnmoved
  <2>7. CASE open' = FALSE /\ subscribed' = FALSE /\ Sent' = Sent
    BY Zenon, <1>1, <1>3, <2>4, <2>5, <2>6, <2>7, Closes DEF ChannelTyped
  <2>8. CASE open /\ UNCHANGED <<open, subscribed>> /\ Sent' = Append(Sent, f)
    <3>1. /\ rewinding /\ \A i \in DOMAIN Sent : IsPage(Sent[i]) /\ Sent[i].under = subscriptions => Sent[i].of = reader.page
          /\ InOrder(reader.batch) /\ InOrder(buffer) /\ Precede(reader.batch, buffer) /\ FromHub(reader.batch)
          /\ Precede(Sent, reader.batch) /\ (deliverer # <<>> => reader.batch = <<>> /\ buffer = <<>>)
          /\ \A i \in DOMAIN reader.batch : reader.batch[i].under = subscriptions
      BY Zenon, <1>1, <2>8, Rewinding
    <3>2. f.under = subscriptions /\ deliverer = <<>> /\ deliverer' = <<>> /\ DOMAIN deliverer' = {} /\ subscriptions \in Nat
      <4>1. f.under = subscriptions /\ deliverer = <<>> /\ deliverer' = <<>>
        BY Zenon, <1>1, <1>5, <2>2, <3>1
      <4>2. DOMAIN deliverer' = {}
        BY <4>1
      <4>3. subscriptions \in Nat
        BY Zenon, <1>2 DEF SessionTyped
      <4> QED BY Zenon, <4>1, <4>2, <4>3
    <3>3. \A i \in DOMAIN reader'.batch : i + 1 \in DOMAIN reader.batch /\ reader'.batch[i] = reader.batch[i + 1] /\ 1 < i + 1
      BY Zenon, <2>2, <2>4, <2>8
    <3>4. RewindsInTurn'
      BY Zenon, <1>2, <2>3, <2>4, <2>8, <3>1 DEF RewindsInTurn
    <3>5. InOrder(reader.batch)'
      <4>1. \A i, j \in DOMAIN reader'.batch : i < j => i + 1 < j + 1
        BY Zenon, <2>2, <2>4, <2>8
      <4> QED BY <1>1, <3>1, <3>3, <4>1 DEF InOrder, Before
    <3>6. f.kind = "message" =>
            /\ \E k \in DOMAIN arrived : arrived[k] = f
            /\ \A i \in DOMAIN Sent : Sent[i].kind = "message" => Before(Sent[i], f)
            /\ \A i \in DOMAIN reader'.batch : reader'.batch[i].kind = "message" => Before(f, reader'.batch[i])
            /\ \A i \in DOMAIN buffer : buffer[i].kind = "message" => Before(f, buffer[i])
      <4>1. \A i \in DOMAIN Sent : f.kind = "message" /\ Sent[i].kind = "message" => Before(Sent[i], f)
        BY Zenon, <2>2, <3>1 DEF Precede
      <4>2. \A i \in DOMAIN buffer : f.kind = "message" /\ buffer[i].kind = "message" => Before(f, buffer[i])
        BY Zenon, <2>2, <3>1 DEF Precede
      <4>3. \A i \in DOMAIN reader'.batch : f.kind = "message" /\ reader'.batch[i].kind = "message" =>
              Before(f, reader'.batch[i])
        <5> SUFFICES ASSUME NEW i \in DOMAIN reader'.batch, f.kind = "message", reader'.batch[i].kind = "message"
                     PROVE  Before(f, reader'.batch[i])
          BY Zenon
        <5>1. i + 1 \in DOMAIN reader.batch /\ reader'.batch[i] = reader.batch[i + 1] /\ 1 < i + 1
          BY Zenon, <3>3
        <5>2. reader.batch[1].kind = "message" /\ reader.batch[i + 1].kind = "message" =>
                Before(reader.batch[1], reader.batch[i + 1])
          BY Zenon, <2>2, <3>1, <5>1 DEF InOrder
        <5> QED BY Zenon, <2>2, <5>1, <5>2
      <4>4. f.kind = "message" => \E k \in DOMAIN arrived : arrived[k] = f
        BY Zenon, <2>2, <3>1 DEF FromHub
      <4> QED BY Zenon, <4>1, <4>2, <4>3, <4>4
    <3>7. \A i \in DOMAIN Sent : IsPage(Sent[i]) /\ Sent[i].under = f.under => f.of \notin Sent[i].of
      BY Zenon, <2>2, <3>1, <3>2
    <3>8. \A g : Held(g) => Held(g)'
      <4>1. (\E i \in DOMAIN Sent' : Sent'[i] = f) /\ \A i \in DOMAIN Sent : i \in DOMAIN Sent' /\ Sent'[i] = Sent[i]
        BY Zenon, <1>2, <2>2, <2>8, SentGrows
      <4>2. \A i \in DOMAIN reader.batch : \/ reader.batch[i] = f
                                           \/ \E j \in DOMAIN reader'.batch : reader'.batch[j] = reader.batch[i]
        BY Zenon, <2>2, <2>4, <2>8
      <4> QED BY <1>1, <2>3, <4>1, <4>2 DEF Held
    <3>9. UNCHANGED hub
      BY Zenon, <2>3, <2>8 DEF hub
    <3>10. \A i \in DOMAIN reader'.batch : \E j \in DOMAIN reader.batch : reader'.batch[i] = reader.batch[j]
      BY Zenon, <3>3
    <3>11. reader'.pc # "read" /\ reader'.page = reader.page /\ f.under <= subscriptions
      BY <2>4, <2>8, <3>2
    <3> QED BY Zenon, <1>1, <2>2, <2>5, <2>8, <3>2, <3>4, <3>5, <3>6, <3>7, <3>8, <3>9, <3>10, <3>11, SendsLive
  <2> QED BY Zenon, <2>3, <2>7, <2>8
<1> QED BY Zenon, <1>4, <1>5

LEMMA SubscribeStep ==
  ASSUME ChannelSensible, ChannelInv, NEW rewind \in BOOLEAN, Subscribe(rewind)
  PROVE  ChannelInv'
<1>1. /\ reader.pc = "idle" /\ open /\ subscribed' = TRUE /\ rewinding' = rewind /\ subscriptions' = subscriptions + 1
      /\ reader' = [reader EXCEPT !.pc = IF rewind THEN "read" ELSE "confirm"]
      /\ UNCHANGED <<publisher, stream, trimmed, wire, deliverer, open, buffer, seen, outbound, received, arrived>>
      /\ Sent' = Sent
  BY Zenon DEF Subscribe, Rewinds, Reader, publishing, Sent
<1>2. ChannelTyped /\ SessionTyped /\ reader \in Readers /\ subscriptions \in Nat /\ RewindsInTurn
  BY Zenon DEF ChannelInv, ChannelTyped, SessionTyped
<1>3. reader' \in Readers /\ reader'.pc = (IF rewind THEN "read" ELSE "confirm") /\ reader'.page = {} /\ reader'.batch = <<>>
      /\ reader.batch = <<>> /\ reader.page = {}
  BY Zenon, <1>1, <1>2 DEF Readers, RewindsInTurn
<1>4. ~rewinding /\ buffer = <<>>
  BY Zenon, <1>1, <1>2 DEF RewindsInTurn
<1>5. PublishTyped' /\ RoutedOnce'
  BY Zenon, <1>1, NotPublishing
<1>6. SessionTyped'
  BY <1>1, <1>2, <1>3 DEF SessionTyped
<1>7. AppendedFirst'
  BY Zenon, <1>1, <1>3, HistoryUnmoved
<1>8. RewindsInTurn'
  BY <1>1, <1>3, <1>4 DEF RewindsInTurn
<1>9. \A i \in DOMAIN Sent : Sent[i].under <= subscriptions /\ Sent[i].under \in Nat
  <2>1. \A i \in DOMAIN Sent : Sent[i] \in Shown
    BY <1>2, SentIs
  <2> QED BY Zenon, <2>1 DEF ChannelInv, Numbered, Shown, Live, Told
<1>10. \A i \in DOMAIN deliverer : deliverer[i].under <= subscriptions /\ deliverer[i].under \in Nat
  <2>1. \A i \in DOMAIN deliverer : deliverer[i] \in Live
    BY <1>2 DEF SessionTyped
  <2> QED BY Zenon, <1>1, <2>1 DEF ChannelInv, Numbered, Live
<1>11. \A n \in Nat : n <= subscriptions => n <= subscriptions + 1 /\ n # subscriptions + 1
  BY <1>2
<1>12. DOMAIN buffer = {} /\ DOMAIN reader'.batch = {}
  BY <1>3, <1>4
<1>13. Numbered'
  BY Zenon, <1>1, <1>9, <1>10, <1>11, <1>12 DEF Numbered
<1>14. Ordered'
  BY <1>1, <1>3 DEF ChannelInv, Ordered, FromHub, InOrder, Precede, Before
<1>15. Pages'
  <2>1. Apart(Sent, Sent)' /\ Apart(Sent, deliverer)'
    BY Zenon, <1>1 DEF ChannelInv, Pages, Apart, IsPage
  <2>2. \A i \in DOMAIN Sent' : Sent'[i].under # subscriptions'
    BY Zenon, <1>1, <1>9, <1>11
  <2> QED BY Zenon, <2>1, <2>2 DEF Pages
<1>16. NoGap'
  BY <1>1, <1>9, <1>11 DEF NoGap
<1> QED BY Zenon, <1>5, <1>6, <1>7, <1>8, <1>13, <1>14, <1>15, <1>16 DEF ChannelInv, ChannelTyped

LEMMA UnsubscribeStep ==
  ASSUME ChannelInv, Unsubscribe
  PROVE  ChannelInv'
<1>1. /\ open /\ subscribed' = FALSE /\ Sent' = Sent
      /\ UNCHANGED <<publisher, stream, trimmed, wire, deliverer, open, rewinding, buffer, seen, outbound, reader,
                     received, arrived, subscriptions>>
  BY Zenon DEF Unsubscribe, publishing, histories, Sent
<1>2. PublishTyped' /\ RoutedOnce' /\ \A m : Gone(m)' <=> Gone(m)
  BY Zenon, <1>1, NotPublishing
<1>3. SessionTyped' /\ RewindsInTurn' /\ NoGap'
  BY Zenon, <1>1 DEF ChannelInv, ChannelTyped, SessionTyped, RewindsInTurn, NoGap
<1>4. AppendedFirst'
  BY Zenon, <1>1, HistoryUnmoved
<1>5. Numbered'
  BY Zenon, <1>1 DEF ChannelInv, Numbered
<1>6. Ordered'
  BY <1>1, OrderStands DEF ChannelInv
<1>7. Pages'
  BY Zenon, <1>1, <1>2 DEF ChannelInv, Pages, Apart, IsPage
<1> QED BY Zenon, <1>2, <1>3, <1>4, <1>5, <1>6, <1>7 DEF ChannelInv, ChannelTyped

LEMMA ExpireStep ==
  ASSUME ChannelInv, NEW m \in Messages, ExpireSeen(m)
  PROVE  ChannelInv'
<1>1. /\ seen' = seen \ {m} /\ Sent' = Sent
      /\ UNCHANGED <<publisher, stream, trimmed, wire, deliverer, open, subscribed, rewinding, buffer, outbound, reader,
                     received, arrived, subscriptions>>
  BY Zenon DEF ExpireSeen, publishing, histories, Sent
<1>2. PublishTyped' /\ RoutedOnce' /\ \A n : Gone(n)' <=> Gone(n)
  BY Zenon, <1>1, NotPublishing
<1>3. Gone(m)
  <2>1. \A i \in DOMAIN wire : wire[i] \in Routed
    BY DEF ChannelInv, ChannelTyped, PublishTyped
  <2>2. \A i \in DOMAIN wire : wire[i].kind = "message" => wire[i].of # m
    BY Zenon, <2>1 DEF ExpireSeen, MessageFrame, Routed
  <2> QED BY Zenon, <2>2 DEF ExpireSeen, Gone
<1>4. SessionTyped' /\ RewindsInTurn'
  BY Zenon, <1>1 DEF ChannelInv, ChannelTyped, SessionTyped, RewindsInTurn
<1>5. AppendedFirst'
  BY Zenon, <1>1, HistoryUnmoved
<1>6. Numbered'
  BY Zenon, <1>1 DEF ChannelInv, Numbered
<1>7. Ordered'
  BY <1>1, OrderStands DEF ChannelInv
<1>8. Pages'
  <2>1. Apart(Sent, Sent)' /\ (open' => Apart(Sent, deliverer)')
    BY Zenon, <1>1 DEF ChannelInv, Pages, Apart, IsPage
  <2>2. ASSUME open, NEW i \in DOMAIN Sent, IsPage(Sent[i]), Sent[i].under = subscriptions
        PROVE  IF rewinding THEN Sent[i].of = reader.page ELSE \A n \in Sent[i].of : n \in seen' \/ Gone(n)
    BY Zenon, <1>1, <1>3, <2>2 DEF ChannelInv, Pages
  <2> QED BY Zenon, <1>1, <1>2, <2>1, <2>2 DEF Pages, IsPage
<1>9. NoGap'
  BY <1>1 DEF ChannelInv, NoGap, Held
<1> QED BY Zenon, <1>2, <1>4, <1>5, <1>6, <1>7, <1>8, <1>9 DEF ChannelInv, ChannelTyped

(* The hub is handed the first frame of the wire. *)
LEMMA Arrives ==
  ASSUME ChannelInv, wire # <<>>, wire' = Tail(wire), arrived' = Append(arrived, Chosen(Head(wire))),
         UNCHANGED <<publisher, stream, trimmed>>
  PROVE  /\ Chosen(Head(wire)) \in Live /\ PublishTyped' /\ RoutedOnce' /\ arrived' \in Seq(Live)
         /\ Chosen(Head(wire)).under = (IF subscribed THEN subscriptions ELSE 0)
         /\ Chosen(Head(wire)).kind = "message" => ~Gone(Chosen(Head(wire)).of)
         /\ \A m : Gone(m) => Gone(m)'
         /\ \A i \in DOMAIN arrived : i \in DOMAIN arrived' /\ arrived'[i] = arrived[i]
         /\ \A i \in DOMAIN arrived' : i \in DOMAIN arrived \/ arrived'[i] = Chosen(Head(wire))
         /\ \E l \in DOMAIN arrived' : arrived'[l] = Chosen(Head(wire)) /\ \A k \in DOMAIN arrived : k < l
<1> DEFINE c == Chosen(Head(wire))
<1>1. wire \in Seq(Routed) /\ arrived \in Seq(Live) /\ subscriptions \in Nat /\ PublishTyped /\ RoutedOnce
  BY Zenon DEF ChannelInv, ChannelTyped, PublishTyped, SessionTyped
<1>2. /\ wire' \in Seq(Routed) /\ Head(wire) = wire[1] /\ wire[1] \in Routed /\ 1 \in DOMAIN wire
      /\ \A i \in DOMAIN wire' : i + 1 \in DOMAIN wire /\ wire'[i] = wire[i + 1] /\ 1 < i + 1
  BY Zenon, <1>1, ShiftedFrames
<1>3. /\ c \in Live /\ c.kind = wire[1].kind /\ c.of = wire[1].of
      /\ c.under = (IF subscribed THEN subscriptions ELSE 0)
  BY Zenon, <1>1, <1>2 DEF Chosen, Live, Routed
<1>4. arrived' = Append(arrived, c)
  BY Zenon
<1> HIDE DEF c
<1>5. /\ arrived' \in Seq(Live) /\ \A i \in DOMAIN arrived : i \in DOMAIN arrived' /\ arrived'[i] = arrived[i]
      /\ \A i \in DOMAIN arrived' : (i \in DOMAIN arrived /\ arrived'[i] = arrived[i]) \/ (arrived'[i] = c /\ i = Len(arrived) + 1)
      /\ Len(arrived) + 1 \in DOMAIN arrived' /\ arrived'[Len(arrived) + 1] = c /\ \A k \in DOMAIN arrived : k < Len(arrived) + 1
  BY <1>1, <1>3, <1>4
<1>6. PublishTyped'
  BY Zenon, <1>1, <1>2 DEF PublishTyped
<1>7. RoutedOnce'
  <2>1. \A i \in DOMAIN wire' : wire'[i].kind = "message" => publisher'[wire'[i].of] = "done"
    BY <1>1, <1>2 DEF RoutedOnce
  <2>2. \A i \in DOMAIN arrived' : arrived'[i].kind = "message" => publisher'[arrived'[i].of] = "done"
    BY <1>1, <1>2, <1>3, <1>5 DEF RoutedOnce
  <2>3. ASSUME NEW i \in DOMAIN wire', NEW j \in DOMAIN wire',
               wire'[i].kind = "message", wire'[j].kind = "message", wire'[i].of = wire'[j].of
        PROVE  i = j
    <3>1. i + 1 = j + 1
      BY <1>1, <1>2, <2>3 DEF RoutedOnce
    <3>2. i \in Nat /\ j \in Nat
      BY <1>2
    <3> QED BY <3>1, <3>2
  <2>4. \A i, j \in DOMAIN arrived' :
          arrived'[i].kind = "message" /\ arrived'[j].kind = "message" /\ arrived'[i].of = arrived'[j].of => i = j
    BY <1>1, <1>2, <1>3, <1>5 DEF RoutedOnce
  <2>5. ASSUME NEW i \in DOMAIN wire', NEW j \in DOMAIN arrived', wire'[i].kind = "message", arrived'[j].kind = "message"
        PROVE  wire'[i].of # arrived'[j].of
    <3>1. CASE j \in DOMAIN arrived /\ arrived'[j] = arrived[j]
      BY <1>1, <1>2, <2>5, <3>1 DEF RoutedOnce
    <3>2. CASE arrived'[j] = c
      <4>1. i + 1 # 1
        BY <1>2
      <4> QED BY <1>1, <1>2, <1>3, <2>5, <3>2, <4>1 DEF RoutedOnce
    <3> QED BY Zenon, <1>5, <3>1, <3>2
  <2> QED BY <2>1, <2>2, <2>3, <2>4, <2>5 DEF RoutedOnce
<1>8. c.kind = "message" => ~Gone(c.of)
  BY Zenon, <1>2, <1>3 DEF Gone
<1>9. \A m : Gone(m) => Gone(m)'
  BY Zenon, <1>2 DEF Gone
<1> QED BY Zenon, <1>3, <1>5, <1>6, <1>7, <1>8, <1>9 DEF c

LEMMA DeliverStep ==
  ASSUME ChannelSensible, ChannelInv, DeliverV2
  PROVE  ChannelInv'
<1>0. PICK c : c = Chosen(Head(wire))
  BY Zenon
<1>1. /\ wire # <<>> /\ deliverer = <<>> /\ wire' = Tail(wire) /\ arrived' = Append(arrived, c)
      /\ UNCHANGED <<publisher, stream, trimmed, outbound, reader, received, subscriptions>> /\ Sent' = Sent
  BY Zenon, <1>0 DEF DeliverV2, publishing, Sent
<1>2. /\ c \in Live /\ PublishTyped' /\ RoutedOnce' /\ arrived' \in Seq(Live)
      /\ c.under = (IF subscribed THEN subscriptions ELSE 0)
      /\ c.kind = "message" => ~Gone(c.of)
      /\ \A m : Gone(m) => Gone(m)'
      /\ \A i \in DOMAIN arrived : i \in DOMAIN arrived' /\ arrived'[i] = arrived[i]
      /\ \A i \in DOMAIN arrived' : i \in DOMAIN arrived \/ arrived'[i] = c
      /\ \E l \in DOMAIN arrived' : arrived'[l] = c /\ \A k \in DOMAIN arrived : k < l
  BY Zenon, <1>0, <1>1, Arrives
<1>3. \/ (~subscribed \/ c.of \in seen) /\ UNCHANGED <<open, subscribed, rewinding, buffer, seen, deliverer>>
      \/ /\ subscribed /\ rewinding /\ UNCHANGED <<deliverer, rewinding, seen, buffer>> /\ open' = FALSE /\ subscribed' = FALSE
      \/ /\ subscribed /\ rewinding /\ Len(buffer) # QueueSize /\ buffer' = Append(buffer, c)
         /\ UNCHANGED <<deliverer, rewinding, seen, open, subscribed>>
      \/ /\ subscribed /\ ~rewinding /\ c.of \notin seen /\ deliverer' = <<c>>
         /\ UNCHANGED <<open, subscribed, rewinding, buffer, seen>>
  <2>1. Duplicate(Head(wire)) <=> c.of \in seen
    BY Zenon, <1>0 DEF Duplicate, Chosen
  <2>2. /\ wire # <<>>
        /\ IF ~subscribed \/ Duplicate(Head(wire)) THEN UNCHANGED <<hub, deliverer>>
           ELSE IF rewinding
           THEN /\ UNCHANGED <<deliverer, rewinding, seen>>
                /\ IF Len(buffer) = QueueSize
                   THEN open' = FALSE /\ subscribed' = FALSE /\ UNCHANGED buffer
                   ELSE buffer' = Append(buffer, c) /\ UNCHANGED <<open, subscribed>>
           ELSE deliverer' = <<c>> /\ UNCHANGED hub
    BY Zenon, <1>0 DEF DeliverV2
  <2> QED BY Zenon, <2>1, <2>2 DEF hub
<1>4. ChannelTyped /\ SessionTyped /\ RewindsInTurn /\ subscriptions \in Nat /\ buffer \in Seq(Live) /\ Len(buffer) <= QueueSize
      /\ reader.page \subseteq Messages
  BY Zenon DEF ChannelInv, ChannelTyped, SessionTyped, Readers
<1>5. AppendedFirst'
  <2>1. seen' = seen /\ reader' = reader
    BY Zenon, <1>1, <1>3
  <2> QED BY Zenon, <1>1, <2>1, HistoryUnmoved
<1>6. SessionTyped'
  <2>1. buffer' \in Seq(Live) /\ Len(buffer') <= QueueSize
    <3>1. CASE Len(buffer) # QueueSize /\ buffer' = Append(buffer, c)
      <4>1. buffer' \in Seq(Live) /\ Len(buffer') = Len(buffer) + 1 /\ Len(buffer) \in Nat
        BY <1>2, <1>4, <3>1
      <4> QED BY <1>4, <3>1, <4>1 DEF ChannelSensible
    <3> QED BY Zenon, <1>3, <1>4, <3>1
  <2>2. deliverer' \in Seq(Live) /\ Len(deliverer') <= 1
    <3>1. CASE deliverer' = <<c>>
      BY <1>2, <3>1
    <3>2. CASE UNCHANGED deliverer
      BY Zenon, <1>4, <3>2 DEF SessionTyped
    <3> QED BY Zenon, <1>3, <3>1, <3>2
  <2>3. open' \in BOOLEAN /\ subscribed' \in BOOLEAN
    BY Zenon, <1>3, <1>4 DEF SessionTyped
  <2> QED BY Zenon, <1>1, <1>2, <1>3, <1>4, <2>1, <2>2, <2>3 DEF SessionTyped
<1>7. CASE open' = FALSE /\ subscribed' = FALSE /\ UNCHANGED rewinding
  BY Zenon, <1>1, <1>2, <1>4, <1>5, <1>6, <1>7, Closes DEF ChannelTyped, RewindsInTurn
<1>8. CASE UNCHANGED <<open, subscribed, rewinding, seen>>
  <2>1. RewindsInTurn'
    BY Zenon, <1>1, <1>3, <1>4, <1>8 DEF RewindsInTurn
  <2>2. DOMAIN deliverer = {} /\ (open' => FromHub(buffer) /\ FromHub(reader.batch) /\ InOrder(buffer) /\ InOrder(reader.batch)
           /\ Precede(Sent, reader.batch) /\ Precede(Sent, buffer) /\ Precede(reader.batch, buffer))
        /\ FromHub(Sent) /\ InOrder(Sent)
    BY <1>1, <1>8 DEF ChannelInv, Ordered
  <2>3. \A g, h : Before(g, h) => Before(g, h)'
    BY Zenon, <1>2 DEF Before
  <2>4. \A g : (\E k \in DOMAIN arrived : arrived[k] = g) => Before(g, c)'
    BY Zenon, <1>2 DEF Before
  <2>5. /\ \A i \in DOMAIN buffer' : (i \in DOMAIN buffer /\ buffer'[i] = buffer[i]) \/ (subscribed /\ rewinding /\ i \notin DOMAIN buffer /\ buffer'[i] = c)
        /\ \A i, j \in DOMAIN buffer' : i < j => i \in DOMAIN buffer /\ buffer'[i] = buffer[i]
        /\ \A i \in DOMAIN buffer : i \in DOMAIN buffer' /\ buffer'[i] = buffer[i]
    <3>1. CASE UNCHANGED buffer
      <4>1. \A i, j \in DOMAIN buffer' : i < j => i \in DOMAIN buffer /\ buffer'[i] = buffer[i]
        BY Zenon, <3>1
      <4> QED BY Zenon, <3>1, <4>1
    <3>2. CASE buffer' = Append(buffer, c) /\ subscribed /\ rewinding
      BY <1>2, <1>4, <3>2
    <3> QED BY Zenon, <1>3, <1>8, <3>1, <3>2
  <2>6. \A i \in DOMAIN deliverer' : deliverer'[i] = c /\ subscribed /\ ~rewinding /\ c.of \notin seen
    <3>1. CASE deliverer' = <<c>> /\ subscribed /\ ~rewinding /\ c.of \notin seen
      BY <3>1
    <3>2. CASE UNCHANGED deliverer
      BY Zenon, <2>2, <3>2
    <3> QED BY Zenon, <1>3, <3>1, <3>2
  <2>7. subscribed => open /\ c.under = subscriptions
    BY Zenon, <1>2, <1>4 DEF RewindsInTurn
  <2>8. Numbered'
    <3>1. subscribed /\ ~rewinding => reader.pc # "read"
      BY Zenon, <1>4 DEF RewindsInTurn
    <3>2. /\ \A i \in DOMAIN Sent : Sent[i].under <= subscriptions
          /\ open => /\ \A i \in DOMAIN reader.batch : reader.batch[i].under = subscriptions
                     /\ \A i \in DOMAIN buffer : buffer[i].under = subscriptions
                     /\ reader.pc = "read" => \A i \in DOMAIN Sent : Sent[i].under # subscriptions
      BY Zenon DEF ChannelInv, Numbered
    <3>3. c.under = subscriptions => c.under <= subscriptions
      BY <1>4
    <3> QED BY Zenon, <1>1, <1>8, <2>5, <2>6, <2>7, <3>1, <3>2, <3>3 DEF Numbered
  <2>9. Ordered'
    <3>1. FromHub(Sent)' /\ InOrder(Sent)'
      BY <1>1, <1>2, <2>2, <2>3 DEF FromHub, InOrder
    <3> SUFFICES ASSUME open
                 PROVE  /\ FromHub(deliverer)' /\ FromHub(reader.batch)' /\ FromHub(buffer)'
                        /\ (deliverer # <<>> => reader.batch = <<>> /\ buffer = <<>>)'
                        /\ Precede(Sent, deliverer)' /\ Precede(Sent, reader.batch)' /\ Precede(Sent, buffer)'
                        /\ InOrder(reader.batch)' /\ InOrder(buffer)' /\ Precede(reader.batch, buffer)'
      BY Zenon, <1>8, <3>1 DEF Ordered
    <3>2. \E l \in DOMAIN arrived' : arrived'[l] = c
      BY Zenon, <1>2
    <3>3. FromHub(deliverer)' /\ FromHub(reader.batch)' /\ FromHub(buffer)'
      BY <1>1, <1>2, <1>8, <2>2, <2>5, <2>6, <3>2 DEF FromHub
    <3>4. (deliverer # <<>> => reader.batch = <<>> /\ buffer = <<>>)'
      <4>1. ~rewinding => buffer = <<>> /\ reader.batch = <<>>
        BY Zenon, <1>4 DEF RewindsInTurn
      <4>2. deliverer' # <<>> => ~rewinding /\ UNCHANGED buffer
        BY Zenon, <1>1, <1>3
      <4> QED BY Zenon, <1>1, <4>1, <4>2
    <3>5. \A i \in DOMAIN Sent : Sent[i].kind = "message" => Before(Sent[i], c)'
      BY Zenon, <1>1, <2>2, <2>4 DEF FromHub
    <3>6. Precede(Sent, deliverer)'
      BY Zenon, <1>1, <2>6, <3>5 DEF Precede
    <3>7. Precede(Sent, reader.batch)' /\ InOrder(reader.batch)'
      BY Zenon, <1>1, <1>8, <2>2, <2>3 DEF Precede, InOrder
    <3>8. Precede(Sent, buffer)'
      BY Zenon, <1>1, <1>8, <2>2, <2>3, <2>5, <3>5 DEF Precede
    <3>9. InOrder(buffer)'
      <4> SUFFICES ASSUME NEW i \in DOMAIN buffer', NEW j \in DOMAIN buffer', i < j,
                          buffer'[i].kind = "message", buffer'[j].kind = "message"
                   PROVE  Before(buffer[i], buffer[j])'
        BY Zenon DEF InOrder
      <4>1. i \in DOMAIN buffer /\ buffer'[i] = buffer[i] /\ FromHub(buffer) /\ InOrder(buffer)
        BY Zenon, <1>8, <2>2, <2>5
      <4>2. CASE j \in DOMAIN buffer /\ buffer'[j] = buffer[j]
        BY Zenon, <2>3, <4>1, <4>2 DEF InOrder
      <4>3. CASE buffer'[j] = c
        <5>1. \E k \in DOMAIN arrived : arrived[k] = buffer'[i]
          BY Zenon, <4>1 DEF FromHub
        <5> QED BY Zenon, <2>4, <4>3, <5>1
      <4> QED BY Zenon, <2>5, <4>2, <4>3
    <3>10. Precede(reader.batch, buffer)'
      <4> SUFFICES ASSUME NEW i \in DOMAIN reader.batch, NEW j \in DOMAIN buffer',
                          reader.batch[i].kind = "message", buffer'[j].kind = "message"
                   PROVE  Before(reader.batch[i], buffer[j])'
        BY Zenon, <1>1 DEF Precede
      <4>1. FromHub(reader.batch) /\ Precede(reader.batch, buffer)
        BY Zenon, <1>8, <2>2
      <4>2. CASE j \in DOMAIN buffer /\ buffer'[j] = buffer[j]
        BY Zenon, <1>1, <2>3, <4>1, <4>2 DEF Precede
      <4>3. CASE buffer'[j] = c
        <5>1. \E k \in DOMAIN arrived : arrived[k] = reader'.batch[i]
          BY Zenon, <1>1, <4>1 DEF FromHub
        <5> QED BY Zenon, <2>4, <4>3, <5>1
      <4> QED BY Zenon, <2>5, <4>2, <4>3
    <3> QED BY Zenon, <3>3, <3>4, <3>6, <3>7, <3>8, <3>9, <3>10
  <2>10. Pages'
    <3>1. Apart(Sent, Sent)'
      BY Zenon, <1>1 DEF ChannelInv, Pages, Apart, IsPage
    <3>2. \A i \in DOMAIN Sent : open /\ IsPage(Sent[i]) /\ Sent[i].under = subscriptions =>
            IF rewinding THEN Sent[i].of = reader.page ELSE \A m \in Sent[i].of : m \in seen \/ Gone(m)
      BY Zenon DEF ChannelInv, Pages
    <3>3. Apart(Sent, deliverer)'
      <4> SUFFICES ASSUME NEW i \in DOMAIN Sent, NEW j \in DOMAIN deliverer', IsPage(Sent[i]),
                          deliverer'[j].kind = "message", Sent[i].under = deliverer'[j].under
                   PROVE  deliverer'[j].of \notin Sent[i].of
        BY Zenon, <1>1 DEF Apart, IsPage
      <4>1. deliverer'[j] = c /\ subscribed /\ ~rewinding /\ c.of \notin seen
        BY Zenon, <2>6
      <4>2. open /\ Sent[i].under = subscriptions /\ ~Gone(c.of)
        BY Zenon, <1>2, <2>7, <4>1
      <4> QED BY Zenon, <3>2, <4>1, <4>2
    <3> QED BY Zenon, <1>1, <1>2, <1>8, <3>1, <3>2, <3>3 DEF Pages, IsPage
  <2>11. NoGap'
    <3> SUFFICES ASSUME open, subscribed, NEW p \in DOMAIN Sent, Sent[p].kind = "page", Sent[p].under = subscriptions
                 PROVE  /\ seen \subseteq Sent[p].of
                        /\ \A i \in DOMAIN arrived' : arrived'[i].kind = "message" /\ arrived'[i].of \in Stored =>
                             arrived'[i].of \in Sent[p].of \/ Held([arrived[i] EXCEPT !.under = subscriptions])'
      BY Zenon, <1>1, <1>8 DEF NoGap
    <3>1. /\ seen \subseteq Sent[p].of
          /\ \A i \in DOMAIN arrived : arrived[i].kind = "message" /\ arrived[i].of \in Stored =>
               arrived[i].of \in Sent[p].of \/ Held([arrived[i] EXCEPT !.under = subscriptions])
      BY Zenon DEF ChannelInv, NoGap
    <3>2. ASSUME NEW g, Held(g)
          PROVE  Held(g)'
      BY Zenon, <1>1, <2>2, <2>5, <3>2 DEF Held
    <3>3. c.of \in seen \/ Held(c)'
      <4>1. CASE buffer' = Append(buffer, c)
        <5>1. \E i \in DOMAIN buffer' : buffer'[i] = c
          BY <1>2, <1>4, <4>1
        <5> QED BY Zenon, <5>1 DEF Held
      <4>2. CASE deliverer' = <<c>>
        <5>1. \E i \in DOMAIN deliverer' : deliverer'[i] = c
          BY <4>2
        <5> QED BY Zenon, <5>1 DEF Held
      <4> QED BY Zenon, <1>3, <1>8, <4>1, <4>2
    <3>4. [c EXCEPT !.under = subscriptions] = c
      BY Zenon, <1>2 DEF Live
    <3>5. ASSUME NEW i \in DOMAIN arrived', arrived'[i].kind = "message", arrived'[i].of \in Stored
          PROVE  arrived'[i].of \in Sent[p].of \/ Held([arrived[i] EXCEPT !.under = subscriptions])'
      <4>1. CASE i \in DOMAIN arrived
        <5>1. arrived'[i] = arrived[i] /\ subscriptions' = subscriptions
          BY Zenon, <1>1, <1>2, <4>1
        <5> QED BY Zenon, <3>1, <3>2, <3>5, <4>1, <5>1
      <4>2. CASE arrived'[i] = c
        <5>1. [arrived'[i] EXCEPT !.under = subscriptions'] = c
          BY Zenon, <1>1, <3>4, <4>2
        <5> QED BY Zenon, <3>1, <3>3, <4>2, <5>1
      <4> QED BY Zenon, <1>2, <4>1, <4>2
    <3> QED BY Zenon, <3>1, <3>5
  <2> QED BY Zenon, <1>2, <1>5, <1>6, <2>1, <2>8, <2>9, <2>10, <2>11 DEF ChannelInv, ChannelTyped
<1> QED BY Zenon, <1>3, <1>7, <1>8

-----------------------------------------------------------------------------
LEMMA ChannelInit ==
  ASSUME ChannelSensible, Init
  PROVE  ChannelInv
<1>1. /\ publisher = [m \in Messages |-> "start"] /\ stream = <<>> /\ trimmed = 0 /\ wire = <<>> /\ deliverer = <<>>
      /\ open = TRUE /\ subscribed = FALSE /\ rewinding = FALSE /\ buffer = <<>> /\ seen = {} /\ outbound = <<>>
      /\ reader = Idle /\ received = <<>> /\ arrived = <<>> /\ subscriptions = 0
  BY Zenon DEF Init
<1>2. reader \in Readers /\ reader.pc = "idle" /\ reader.page = {} /\ reader.batch = <<>>
  BY <1>1 DEF Idle, Readers
<1>3. Sent = <<>>
  BY <1>1 DEF Sent
<1>4. PublishTyped
  <2>1. publisher \in [Messages -> {"start", "append", "route", "done", "failed"}]
    BY Zenon, <1>1
  <2>2. stream \in Seq(Messages) /\ Len(stream) <= HistoryMax /\ wire \in Seq(Routed) /\ trimmed \in Nat
    BY <1>1 DEF ChannelSensible
  <2> QED BY Zenon, <2>1, <2>2 DEF PublishTyped
<1>5. SessionTyped
  <2>1. deliverer \in Seq(Live) /\ Len(deliverer) <= 1 /\ buffer \in Seq(Live) /\ Len(buffer) <= QueueSize
    BY <1>1 DEF ChannelSensible
  <2>2. outbound \in Seq(Shown) /\ Len(outbound) <= QueueSize /\ received \in Seq(Shown) /\ arrived \in Seq(Live)
    BY <1>1 DEF ChannelSensible
  <2>3. open \in BOOLEAN /\ subscribed \in BOOLEAN /\ rewinding \in BOOLEAN /\ seen \in SUBSET Messages /\ subscriptions \in Nat
    BY Zenon, <1>1
  <2> QED BY Zenon, <1>2, <2>1, <2>2, <2>3 DEF SessionTyped
<1>6. RoutedOnce
  BY <1>1 DEF RoutedOnce
<1>7. Kept = {} /\ \A m \in Stored : publisher[m] = "start"
  BY <1>1 DEF Kept, ChannelSensible
<1>8. AppendedFirst
  BY Zenon, <1>1, <1>2, <1>7 DEF AppendedFirst
<1>9. RewindsInTurn
  BY Zenon, <1>1, <1>2 DEF RewindsInTurn
<1>10. Numbered /\ Pages /\ NoGap
  BY <1>1, <1>2, <1>3 DEF Numbered, Pages, Apart, NoGap
<1>11. Ordered
  BY <1>1, <1>2, <1>3 DEF Ordered, FromHub, InOrder, Precede
<1> QED BY Zenon, <1>4, <1>5, <1>6, <1>8, <1>9, <1>10, <1>11 DEF ChannelInv, ChannelTyped

LEMMA ChannelStutters ==
  ASSUME ChannelInv, UNCHANGED vars
  PROVE  ChannelInv'
<1>1. UNCHANGED <<publisher, stream, trimmed, wire, deliverer, hub, outbound, reader, histories>>
  BY Zenon DEF vars, hub, histories
<1>2. SessionTyped' /\ Sent' = Sent
  BY Zenon, <1>1, SessionUnmoved
<1>3. UNCHANGED arrived /\ UNCHANGED seen /\ UNCHANGED subscriptions
  BY Zenon DEF vars
<1>4. PublishTyped' /\ RoutedOnce' /\ \A m : Gone(m)' <=> Gone(m)
  BY Zenon, <1>1, <1>3, NotPublishing
<1>5. AppendedFirst'
  BY Zenon, <1>1, <1>3, HistoryUnmoved
<1> QED BY Zenon, <1>1, <1>2, <1>3, <1>4, <1>5, StandsStill

LEMMA ChannelStep ==
  ASSUME ChannelSensible, ChannelInv, [Next]_vars
  PROVE  ChannelInv'
<1>1. ASSUME NEW m \in Messages, RecordMessage(m) \/ PublishFails(m) PROVE ChannelInv'
  BY Zenon, <1>1, PublishStep
<1>2. ASSUME NEW m \in Messages, AppendHistory(m) PROVE ChannelInv'
  BY Zenon, <1>2, AppendStep
<1>3. ASSUME NEW m \in Messages, PublishRealtimeV2(m) PROVE ChannelInv'
  BY Zenon, <1>3, RouteStep
<1>4. ASSUME NEW m \in Messages, ExpireSeen(m) PROVE ChannelInv'
  BY Zenon, <1>4, ExpireStep
<1>5. ASSUME NEW a \in Actions, PutAction(a) \/ RemoveAction(a) \/ DispatchAction(a) PROVE ChannelInv'
  BY Zenon, <1>5, ActionStep
<1>6. CASE DeliverV2 \/ SendChosen \/ WriteLoop \/ Close
  BY Zenon, <1>6, DeliverStep, SendStep, WriteStep, CloseStep
<1>7. ASSUME NEW rewind \in BOOLEAN, Subscribe(rewind) PROVE ChannelInv'
  BY Zenon, <1>7, SubscribeStep
<1>8. ASSUME NEW cursor \in {0} \cup (trimmed + 1)..(trimmed + Len(stream)), HistoryV2(cursor) PROVE ChannelInv'
  BY Zenon, <1>8, HistoryStep
<1>9. CASE HistoryFails \/ Unsubscribe \/ Confirm \/ FinishRewindV2 \/ FlushBuffer
  BY Zenon, <1>9, TellStep, UnsubscribeStep, FinishStep, FlushStep
<1>10. CASE UNCHANGED vars
  BY Zenon, <1>10, ChannelStutters
<1> QED BY Zenon, <1>1, <1>2, <1>3, <1>4, <1>5, <1>6, <1>7, <1>8, <1>9, <1>10 DEF Next

(* In one subscription every message is shown once, by the page or live,   *)
(* and live messages are shown in the order the hub was handed them.       *)
THEOREM SubscribersSeeEachMessageOnce ==
  ASSUME ChannelSensible
  PROVE  Spec => []ShownOnceInOrder
<1>1. Init => ChannelInv
  BY Zenon, ChannelInit
<1>2. ChannelInv /\ [Next]_vars => ChannelInv'
  BY Zenon, ChannelStep
<1>3. ChannelInv => ShownOnceInOrder
  <2> SUFFICES ASSUME ChannelInv PROVE ShownOnceInOrder
    BY Zenon
  <2>1. TypeOK
    BY Zenon DEF ChannelInv, ChannelTyped, PublishTyped, SessionTyped, Readers, TypeOK
  <2>2. LiveInOrder
    BY Zenon DEF ChannelInv, Ordered, InOrder, Before, LiveInOrder
  <2>3. DOMAIN Sent \subseteq Int /\ DOMAIN arrived \subseteq Int
    BY SentIs DEF ChannelInv, ChannelTyped, SessionTyped
  <2>4. ASSUME NEW i \in DOMAIN Sent, NEW j \in DOMAIN Sent, i < j, Sent[i].kind = "message", Sent[j].kind = "message"
        PROVE  Sent[i].of # Sent[j].of
    <3>1. PICK k \in DOMAIN arrived, l \in DOMAIN arrived : k < l /\ arrived[k] = Sent[i] /\ arrived[l] = Sent[j]
      BY Zenon, <2>2, <2>4 DEF LiveInOrder
    <3>2. k # l
      BY <2>3, <3>1
    <3> QED BY Zenon, <2>4, <3>1, <3>2 DEF ChannelInv, RoutedOnce
  <2>5. \A i, j \in DOMAIN Sent : i # j => i < j \/ j < i
    BY <2>3
  <2>6. \A i, j \in DOMAIN Sent :
          IsPage(Sent[i]) /\ Sent[j].kind = "message" /\ Sent[i].under = Sent[j].under => Sent[j].of \notin Sent[i].of
    BY Zenon DEF ChannelInv, Pages, Apart
  <2>7. ShownOnce
    BY Zenon, <2>4, <2>5, <2>6 DEF ShownOnce, IsPage
  <2> QED BY Zenon, <2>1, <2>2, <2>7 DEF ShownOnceInOrder
<1> QED BY <1>1, <1>2, <1>3, PTL DEF Spec

(* A subscriber that was shown the whole history has, or is about to get,  *)
(* every message of the history that the hub was ever handed.              *)
THEOREM HistoryJoinsLive ==
  ASSUME ChannelSensible
  PROVE  Spec => []JoinsWithoutGap
<1>1. Init => ChannelInv
  BY Zenon, ChannelInit
<1>2. ChannelInv /\ [Next]_vars => ChannelInv'
  BY Zenon, ChannelStep
<1>3. ChannelInv => JoinsWithoutGap
  <2> SUFFICES ASSUME ChannelInv, open, subscribed, NEW p \in Range(Sent), p.kind = "page", p.under = subscriptions,
                      NEW i \in DOMAIN arrived, arrived[i].kind = "message", arrived[i].of \in Stored
               PROVE  arrived[i].of \in p.of \/ [arrived[i] EXCEPT !.under = subscriptions] \in Range(Pending)
    BY Zenon DEF JoinsWithoutGap
  <2>1. PICK n \in DOMAIN Sent : Sent[n] = p
    BY Zenon DEF Range
  <2>2. arrived[i].of \in p.of \/ Held([arrived[i] EXCEPT !.under = subscriptions])
    BY Zenon, <2>1 DEF ChannelInv, NoGap
  <2>3. ASSUME NEW g, Held(g)
        PROVE  g \in Range(Pending)
    <3>1. Sent \in Seq(Shown) /\ deliverer \in Seq(Shown) /\ reader.batch \in Seq(Shown) /\ buffer \in Seq(Shown)
      <4>1. \A s \in Seq(Live) : s \in Seq(Shown)
        BY DEF Shown
      <4> QED BY Zenon, <4>1, SentIs DEF ChannelInv, ChannelTyped, SessionTyped, Readers
    <3>2. \A s, t \in Seq(Shown) : s \o t \in Seq(Shown) /\ Range(s) \subseteq Range(s \o t) /\ Range(t) \subseteq Range(s \o t)
      <4> SUFFICES ASSUME NEW s \in Seq(Shown), NEW t \in Seq(Shown)
                   PROVE  s \o t \in Seq(Shown) /\ Range(s) \subseteq Range(s \o t) /\ Range(t) \subseteq Range(s \o t)
        BY Zenon
      <4> DEFINE u == s \o t
      <4>1. /\ u \in Seq(Shown) /\ Len(u) = Len(s) + Len(t) /\ Len(s) \in Nat /\ Len(t) \in Nat
            /\ DOMAIN u = 1..Len(u) /\ DOMAIN s = 1..Len(s) /\ DOMAIN t = 1..Len(t)
            /\ \A k \in 1..Len(s) : u[k] = s[k]
            /\ \A k \in 1..Len(t) : u[Len(s) + k] = t[k]
        BY JoinedFrames
      <4> HIDE DEF u
      <4>2. \A k \in DOMAIN s : k \in DOMAIN u /\ u[k] = s[k]
        BY <4>1
      <4>3. \A k \in DOMAIN t : Len(s) + k \in DOMAIN u /\ u[Len(s) + k] = t[k]
        BY <4>1
      <4>4. Range(s) \subseteq Range(u) /\ Range(t) \subseteq Range(u)
        BY <4>2, <4>3 DEF Range
      <4> QED BY Zenon, <4>1, <4>4 DEF u
    <3>3. g \in Range(Sent) \/ g \in Range(deliverer) \/ g \in Range(reader.batch) \/ g \in Range(buffer)
      BY Zenon, <2>3 DEF Held, Range
    <3> DEFINE a == Sent \o deliverer  b == a \o reader.batch
    <3>4. a \in Seq(Shown) /\ Range(Sent) \subseteq Range(a) /\ Range(deliverer) \subseteq Range(a)
      BY Zenon, <3>1, <3>2
    <3> HIDE DEF a
    <3>5. b \in Seq(Shown) /\ Range(a) \subseteq Range(b) /\ Range(reader.batch) \subseteq Range(b)
      BY Zenon, <3>1, <3>2, <3>4
    <3> HIDE DEF b
    <3>6. Range(b) \subseteq Range(b \o buffer) /\ Range(buffer) \subseteq Range(b \o buffer)
      BY Zenon, <3>1, <3>2, <3>5
    <3>7. Pending = b \o buffer
      BY Zenon DEF Pending, a, b
    <3> QED BY Zenon, <3>3, <3>4, <3>5, <3>6, <3>7
  <2> QED BY Zenon, <2>2, <2>3
<1> QED BY <1>1, <1>2, <1>3, PTL DEF Spec

-----------------------------------------------------------------------------
(* RealtimePresence *)

CONSTANTS Connections, None, TTL, MaxLosses
VARIABLES
  session, subscriber, joined, record, entry, opener, persister, refresher, closer, due, told, losses

P == INSTANCE RealtimePresence
       WITH subscribed <- subscriber, reader <- persister, faults <- losses, MaxFaults <- MaxLosses

(* What the proofs assume of the constants: a record lasts longer than a   *)
(* refresh period (75 seconds against 25).                                 *)
OutlivesPeriod == TTL \in Nat /\ TTL >= 2 /\ None \notin Nat

PresenceTyped ==
  /\ P!TypeOK
  /\ opener \in [Connections -> {"idle", "put", "serving", "failed"}]
  /\ persister \in [Connections -> {"idle", "persist", "upsert", "dispatch"}]
  /\ refresher \in [Connections -> {"idle", "stopped", "refresh", "refresh both", "presence"}]
  /\ closer \in [Connections -> {"idle", "remove", "leave", "dispatch", "unregister", "done"}]
  /\ told \in [Connections -> {"nothing", "present", "left", "timeout"}]

Active(c) == session[c] = "open" /\ closer[c] = "idle" /\ opener[c] = "serving"

(* The goroutines of a connection start one after the other. *)
Begins(c) ==
  /\ session[c] = "new" => opener[c] = "idle"
  /\ opener[c] \in {"idle", "put"} =>
       refresher[c] = "idle" /\ c \notin due /\ persister[c] = "idle" /\ told[c] # "present"
  /\ c \in due => refresher[c] = "idle"
  /\ persister[c] \in {"upsert", "dispatch"} \/ told[c] = "present" => c \in joined

(* While the refresher owes a refresh a record is one period old, else it  *)
(* is new.  What the presence entry is owed waits for the record's refresh.*)
KeptAlive(c) ==
  Active(c) =>
    /\ refresher[c] # "stopped"
    /\ record[c] \in {TTL - 1, TTL}
    /\ record[c] = TTL \/ c \in due \/ refresher[c] \in {"refresh", "refresh both"}
    /\ persister[c] = "dispatch" => entry[c] = TTL
    /\ told[c] = "present" =>
         /\ entry[c] \in {TTL - 1, TTL}
         /\ entry[c] = TTL \/ c \in due \/ refresher[c] \in {"refresh both", "presence"}

PresenceInv == PresenceTyped /\ \A c \in Connections : Begins(c) /\ KeptAlive(c)

-----------------------------------------------------------------------------
LEMMA Periods ==
  ASSUME OutlivesPeriod
  PROVE  /\ TTL # 0 /\ TTL - 1 # 0 /\ TTL > 0 /\ TTL - 1 > 0 /\ TTL # None /\ TTL - 1 # None
         /\ TTL \in {None} \cup 0..TTL /\ TTL - 1 \in {None} \cup 0..TTL /\ 0 # None
BY DEF OutlivesPeriod

(* A step of one connection changes at most expired entries of another. *)
LEMMA Elsewhere ==
  ASSUME OutlivesPeriod, NEW c \in Connections, Begins(c), KeptAlive(c),
         session'[c] = session[c], opener'[c] = opener[c], persister'[c] = persister[c],
         refresher'[c] = refresher[c], closer'[c] = closer[c], told'[c] \in {told[c], "timeout"},
         c \in joined' <=> c \in joined, c \in due' <=> c \in due,
         record'[c] = record[c] \/ record[c] = 0,
         entry'[c] = entry[c] \/ entry[c] = 0
  PROVE  Begins(c)' /\ KeptAlive(c)'
<1>1. TTL # 0 /\ TTL - 1 # 0
  BY Zenon, Periods
<1>2. Begins(c)'
  BY Zenon DEF Begins
<1> DEFINE m == TTL - 1
<1> HIDE DEF m
<1>3. KeptAlive(c)'
  BY Zenon, <1>1 DEF KeptAlive, Active, m
<1> QED BY Zenon, <1>2, <1>3

LEMMA TrimmedEntries ==
  ASSUME OutlivesPeriod, NEW s \in [Connections -> {None} \cup 0..TTL]
  PROVE  /\ P!Trimmed(s) \in [Connections -> {None} \cup 0..TTL]
         /\ \A c \in Connections : P!Trimmed(s)[c] = s[c] \/ s[c] = 0
BY Zenon DEF P!Trimmed, OutlivesPeriod

LEMMA UpsertedEntries ==
  ASSUME OutlivesPeriod, PresenceInv, NEW c \in Connections
  PROVE  /\ P!Upserted(c) \in [Connections -> {None} \cup 0..TTL] /\ P!Upserted(c)[c] = TTL
         /\ \A d \in Connections \ {c} : P!Upserted(c)[d] = entry[d] \/ entry[d] = 0
         /\ P!Deleted(c) \in [Connections -> {None} \cup 0..TTL]
         /\ \A d \in Connections \ {c} : P!Deleted(c)[d] = entry[d] \/ entry[d] = 0
<1>1. entry \in [Connections -> {None} \cup 0..TTL]
  BY Zenon DEF PresenceInv, PresenceTyped, P!TypeOK
<1>2. /\ P!Trimmed(entry) \in [Connections -> {None} \cup 0..TTL]
      /\ \A d \in Connections : P!Trimmed(entry)[d] = entry[d] \/ entry[d] = 0
  BY Zenon, <1>1, TrimmedEntries
<1> QED BY <1>2 DEF P!Upserted, P!Deleted, OutlivesPeriod

LEMMA CloseStarts ==
  ASSUME PresenceInv, NEW c \in Connections, P!StartClose(c)
  PROVE  /\ closer' \in [Connections -> {"idle", "remove", "leave", "dispatch", "unregister", "done"}]
         /\ closer'[c] # "idle" /\ \A d \in Connections \ {c} : closer'[d] = closer[d]
BY Zenon DEF P!StartClose, PresenceInv, PresenceTyped

LEMMA OpenerSteps ==
  ASSUME OutlivesPeriod, PresenceInv, NEW c \in Connections, P!Register(c) \/ P!Put(c) \/ P!PutFails(c)
  PROVE  PresenceInv'
<1>1. PresenceTyped'
  <2>1. CASE P!Register(c)
    BY Zenon, <2>1 DEF PresenceInv, PresenceTyped, P!TypeOK, P!Register
  <2>2. CASE P!Put(c)
    BY Zenon, <2>2, Periods DEF PresenceInv, PresenceTyped, P!TypeOK, P!Put
  <2>3. CASE P!PutFails(c)
    <3>1. closer' \in [Connections -> {"idle", "remove", "leave", "dispatch", "unregister", "done"}]
      BY Zenon, <2>3, CloseStarts DEF P!PutFails
    <3> QED BY <2>3, <3>1, Periods DEF PresenceInv, PresenceTyped, P!TypeOK, P!PutFails
  <2> QED BY Zenon, <2>1, <2>2, <2>3
<1>2. ASSUME NEW d \in Connections, d # c
      PROVE  Begins(d)' /\ KeptAlive(d)'
  <2>1. closer'[d] = closer[d]
    BY Zenon, <1>2, CloseStarts DEF P!Register, P!Put, P!PutFails
  <2>2. /\ session'[d] = session[d] /\ opener'[d] = opener[d] /\ persister' = persister /\ refresher' = refresher
        /\ told' = told /\ joined' = joined /\ due' = due /\ record'[d] = record[d] /\ entry' = entry
    BY <1>2 DEF P!Register, P!Put, P!PutFails, PresenceInv, PresenceTyped, P!TypeOK
  <2> QED BY Zenon, <2>1, <2>2, Elsewhere DEF PresenceInv
<1>3. Begins(c)' /\ KeptAlive(c)'
  <2>1. Begins(c) /\ KeptAlive(c)
    BY Zenon DEF PresenceInv
  <2>2. CASE P!Register(c)
    BY <2>1, <2>2 DEF PresenceInv, PresenceTyped, P!TypeOK, P!Register, Begins, KeptAlive, Active
  <2>3. CASE P!Put(c)
    BY Zenon, <2>1, <2>3 DEF PresenceInv, PresenceTyped, P!TypeOK, P!Put, Begins, KeptAlive, Active
  <2>4. CASE P!PutFails(c)
    BY <2>1, <2>4 DEF PresenceInv, PresenceTyped, P!TypeOK, P!PutFails, Begins, KeptAlive, Active
  <2> QED BY Zenon, <2>2, <2>3, <2>4
<1> QED BY Zenon, <1>1, <1>2, <1>3 DEF PresenceInv

(* Who is kept alive is found alive. *)
LEMMA FoundAlive ==
  ASSUME OutlivesPeriod, PresenceInv, NEW c \in Connections, Active(c)
  PROVE  P!Live(record, c)
<1>1. record[c] = TTL - 1 \/ record[c] = TTL
  BY Zenon DEF PresenceInv, KeptAlive
<1> QED BY Zenon, <1>1, Periods DEF P!Live

LEMMA UpdateTypes ==
  ASSUME OutlivesPeriod, PresenceInv, NEW c \in Connections, P!Update(c)
  PROVE  /\ record' \in [Connections -> {None} \cup 0..TTL]
         /\ closer' \in [Connections -> {"idle", "remove", "leave", "dispatch", "unregister", "done"}]
         /\ \A d \in Connections \ {c} : record'[d] = record[d] /\ closer'[d] = closer[d]
         /\ Active(c) => record'[c] = TTL /\ closer' = closer
         /\ closer'[c] = "idle" => closer[c] = "idle"
<1>1. CASE P!Live(record, c)
  BY <1>1, Periods DEF P!Update, PresenceInv, PresenceTyped, P!TypeOK
<1>2. CASE ~P!Live(record, c)
  BY <1>2, FoundAlive, CloseStarts DEF P!Update, PresenceInv, PresenceTyped, P!TypeOK
<1> QED BY Zenon, <1>1, <1>2

LEMMA ReaderSteps ==
  ASSUME OutlivesPeriod, PresenceInv, NEW c \in Connections,
         \/ P!Subscribe(c) \/ P!PersistChannels(c) \/ P!PersistFails(c) \/ P!UpdatePresence(c)
         \/ P!UpsertPresence(c) \/ P!UpsertFails(c) \/ P!DispatchPresence(c)
  PROVE  PresenceInv'
<1> DEFINE Closers == [Connections -> {"idle", "remove", "leave", "dispatch", "unregister", "done"}]
           Lasting == [Connections -> {None} \cup 0..TTL]
<1>1. /\ record' \in Lasting /\ closer' \in Closers
      /\ \A d \in Connections \ {c} : record'[d] = record[d] /\ closer'[d] = closer[d]
      /\ Active(c)' => Active(c) /\ (record'[c] = record[c] \/ record'[c] = TTL)
  <2>1. CASE P!PersistChannels(c)
    <3>1. CASE session[c] = "open"
      BY Zenon, <2>1, <3>1, UpdateTypes DEF P!PersistChannels, Active
    <3>2. CASE session[c] # "open"
      BY <2>1, <3>2 DEF P!PersistChannels, PresenceInv, PresenceTyped, P!TypeOK, Active
    <3> QED BY Zenon, <3>1, <3>2
  <2>2. CASE P!PersistFails(c) \/ P!UpsertFails(c)
    BY <2>2, CloseStarts DEF P!PersistFails, P!UpsertFails, PresenceInv, PresenceTyped, P!TypeOK, Active
  <2>3. CASE P!Subscribe(c) \/ P!UpdatePresence(c) \/ P!UpsertPresence(c) \/ P!DispatchPresence(c)
    BY <2>3 DEF P!Subscribe, P!UpdatePresence, P!UpsertPresence, P!DispatchPresence, PresenceInv, PresenceTyped,
       P!TypeOK, Active
  <2> QED BY Zenon, <2>1, <2>2, <2>3
<1>2. /\ entry' \in Lasting
      /\ \A d \in Connections \ {c} : entry'[d] = entry[d] \/ entry[d] = 0
      /\ entry'[c] = entry[c] \/ entry'[c] = TTL
      /\ P!UpsertPresence(c) => entry'[c] = TTL
      /\ entry' # entry => persister[c] = "upsert"
  <2>1. entry \in Lasting
    BY Zenon DEF PresenceInv, PresenceTyped, P!TypeOK
  <2>2. CASE entry' = P!Upserted(c) /\ persister[c] = "upsert"
    BY Zenon, <2>2, UpsertedEntries
  <2>3. CASE entry' = entry /\ ~P!UpsertPresence(c)
    BY Zenon, <2>1, <2>3
  <2> QED BY Zenon, <2>2, <2>3 DEF P!Subscribe, P!PersistChannels, P!PersistFails, P!UpdatePresence, P!UpsertPresence,
             P!UpsertFails, P!DispatchPresence
<1>3. /\ UNCHANGED <<session, opener, refresher, due>> /\ joined \subseteq joined'
      /\ joined' \subseteq joined \cup {c}
      /\ persister' \in [Connections -> {"idle", "persist", "upsert", "dispatch"}]
      /\ told' \in [Connections -> {"nothing", "present", "left", "timeout"}]
      /\ \A d \in Connections \ {c} : persister'[d] = persister[d] /\ told'[d] = told[d]
      /\ persister'[c] = "dispatch" => P!UpsertPresence(c)
      /\ persister'[c] = "upsert" => c \in joined'
      /\ told'[c] = told[c] \/ persister[c] = "dispatch"
      /\ persister[c] # "idle" \/ opener[c] = "serving"
  BY DEF P!Subscribe, P!PersistChannels, P!PersistFails, P!UpdatePresence, P!UpsertPresence,
             P!UpsertFails, P!DispatchPresence, PresenceInv, PresenceTyped
<1>4. PresenceTyped'
  BY Zenon, <1>1, <1>2, <1>3 DEF PresenceInv, PresenceTyped, P!TypeOK
<1>5. ASSUME NEW d \in Connections, d # c
      PROVE  Begins(d)' /\ KeptAlive(d)'
  BY Zenon, <1>1, <1>2, <1>3, <1>5, Elsewhere DEF PresenceInv
<1>6. persister[c] = "upsert" => P!UpsertPresence(c) \/ P!UpsertFails(c)
  BY Zenon DEF P!Subscribe, P!PersistChannels, P!PersistFails, P!UpdatePresence, P!DispatchPresence
<1>7. Begins(c)'
  <2>1. Begins(c)
    BY Zenon DEF PresenceInv
  <2>2. opener[c] \notin {"idle", "put"}
    BY Zenon, <1>3, <2>1 DEF Begins
  <2>3. P!UpsertPresence(c) => persister[c] = "upsert"
    BY Zenon DEF P!UpsertPresence
  <2> QED BY Zenon, <1>3, <2>1, <2>2, <2>3 DEF Begins
<1>8. KeptAlive(c)'
  <2>1. KeptAlive(c)
    BY Zenon DEF PresenceInv
  <2> QED BY Zenon, <1>1, <1>2, <1>3, <2>1 DEF KeptAlive
<1> QED BY Zenon, <1>4, <1>5, <1>7, <1>8 DEF PresenceInv

LEMMA SnapshotStep ==
  ASSUME OutlivesPeriod, PresenceInv, NEW c \in Connections, P!Snapshot(c)
  PROVE  PresenceInv'
<1>1. PresenceTyped'
  BY Zenon DEF PresenceInv, PresenceTyped, P!TypeOK, P!Snapshot
<1>2. ASSUME NEW d \in Connections, d # c
      PROVE  Begins(d)' /\ KeptAlive(d)'
  BY Zenon, <1>2, Elsewhere DEF PresenceInv, PresenceTyped, P!Snapshot
<1>3. Begins(c)' /\ KeptAlive(c)'
  BY Zenon DEF PresenceInv, PresenceTyped, P!Snapshot, P!StillActive, Begins, KeptAlive, Active
<1> QED BY Zenon, <1>1, <1>2, <1>3 DEF PresenceInv

LEMMA RefreshStep ==
  ASSUME OutlivesPeriod, PresenceInv, NEW c \in Connections, P!Refresh(c)
  PROVE  PresenceInv'
<1>1. /\ record' \in [Connections -> {None} \cup 0..TTL]
      /\ closer' \in [Connections -> {"idle", "remove", "leave", "dispatch", "unregister", "done"}]
      /\ \A d \in Connections \ {c} : record'[d] = record[d] /\ closer'[d] = closer[d]
      /\ Active(c) => record'[c] = TTL /\ closer' = closer
      /\ closer'[c] = "idle" => closer[c] = "idle"
  BY Zenon, UpdateTypes DEF P!Refresh
<1>2. PresenceTyped'
  BY Zenon, <1>1 DEF PresenceInv, PresenceTyped, P!TypeOK, P!Refresh
<1>3. ASSUME NEW d \in Connections, d # c
      PROVE  Begins(d)' /\ KeptAlive(d)'
  BY Zenon, <1>1, <1>3, Elsewhere DEF PresenceInv, PresenceTyped, P!Refresh
<1>4. Begins(c)'
  BY Zenon DEF PresenceInv, PresenceTyped, P!Refresh, Begins
<1>5. KeptAlive(c)'
  BY <1>1, FoundAlive DEF PresenceInv, PresenceTyped, P!Refresh, Begins, KeptAlive, Active
<1> QED BY Zenon, <1>2, <1>3, <1>4, <1>5 DEF PresenceInv

LEMMA RefreshPresenceStep ==
  ASSUME OutlivesPeriod, PresenceInv, NEW c \in Connections, P!RefreshPresence(c) \/ P!RefreshFails(c)
  PROVE  PresenceInv'
<1> DEFINE Lasting == [Connections -> {None} \cup 0..TTL]
<1>1. /\ entry' \in Lasting
      /\ \A d \in Connections \ {c} : entry'[d] = entry[d] \/ entry[d] = 0
      /\ P!RefreshPresence(c) => entry'[c] = TTL
  <2>1. entry \in Lasting
    BY Zenon DEF PresenceInv, PresenceTyped, P!TypeOK
  <2>2. CASE entry' = P!Upserted(c)
    BY Zenon, <2>2, UpsertedEntries
  <2>3. CASE entry' = entry /\ ~P!RefreshPresence(c)
    BY Zenon, <2>1, <2>3
  <2> QED BY Zenon, <2>2, <2>3 DEF P!RefreshPresence, P!RefreshFails
<1>2. /\ closer' \in [Connections -> {"idle", "remove", "leave", "dispatch", "unregister", "done"}]
      /\ \A d \in Connections \ {c} : closer'[d] = closer[d]
      /\ closer'[c] = "idle" => P!RefreshPresence(c) /\ closer[c] = "idle"
  BY Zenon, CloseStarts DEF P!RefreshPresence, P!RefreshFails, PresenceInv, PresenceTyped
<1>3. /\ UNCHANGED <<session, joined, record, opener, persister, due, told>>
      /\ refresher' \in [Connections -> {"idle", "stopped", "refresh", "refresh both", "presence"}]
      /\ \A d \in Connections \ {c} : refresher'[d] = refresher[d]
      /\ refresher[c] # "idle" /\ (P!RefreshPresence(c) => refresher'[c] = "idle" /\ refresher[c] = "presence")
  BY DEF P!RefreshPresence, P!RefreshFails, PresenceInv, PresenceTyped
<1>4. PresenceTyped'
  BY Zenon, <1>1, <1>2, <1>3 DEF PresenceInv, PresenceTyped, P!TypeOK
<1>5. ASSUME NEW d \in Connections, d # c
      PROVE  Begins(d)' /\ KeptAlive(d)'
  BY Zenon, <1>1, <1>2, <1>3, <1>5, Elsewhere DEF PresenceInv
<1>6. Begins(c)' /\ KeptAlive(c)'
  BY Zenon, <1>1, <1>2, <1>3 DEF PresenceInv, Begins, KeptAlive, Active
<1> QED BY Zenon, <1>4, <1>5, <1>6 DEF PresenceInv

LEMMA CloserSteps ==
  ASSUME OutlivesPeriod, PresenceInv, NEW c \in Connections,
         P!Close(c) \/ P!Remove(c) \/ P!DeletePresence(c) \/ P!DispatchLeave(c) \/ P!DeleteRecord(c) \/ P!Crash(c)
  PROVE  PresenceInv'
<1> DEFINE Lasting == [Connections -> {None} \cup 0..TTL]
<1>1. /\ entry' \in Lasting /\ record' \in Lasting
      /\ \A d \in Connections \ {c} : (entry'[d] = entry[d] \/ entry[d] = 0) /\ record'[d] = record[d]
  <2>1. entry \in Lasting /\ record \in Lasting
    BY Zenon DEF PresenceInv, PresenceTyped, P!TypeOK
  <2>2. CASE P!DeletePresence(c)
    <3>1. UNCHANGED record /\ (entry' = P!Deleted(c) \/ entry' = entry)
      BY Zenon, <2>2 DEF P!DeletePresence
    <3> QED BY Zenon, <2>1, <3>1, UpsertedEntries
  <2>3. CASE P!DeleteRecord(c)
    <3>1. UNCHANGED entry /\ (record' = [record EXCEPT ![c] = None] \/ record' = record)
      BY Zenon, <2>3 DEF P!DeleteRecord, P!Unregistered
    <3> QED BY Zenon, <2>1, <3>1
  <2>4. CASE P!Close(c) \/ P!Remove(c) \/ P!DispatchLeave(c) \/ P!Crash(c)
    <3>1. UNCHANGED <<record, entry>>
      BY Zenon, <2>4 DEF P!Close, P!Remove, P!DispatchLeave, P!Crash
    <3> QED BY Zenon, <2>1, <3>1
  <2> QED BY Zenon, <2>2, <2>3, <2>4
<1>2. /\ closer' \in [Connections -> {"idle", "remove", "leave", "dispatch", "unregister", "done"}]
      /\ closer'[c] # "idle" /\ \A d \in Connections \ {c} : closer'[d] = closer[d]
  <2>1. CASE P!Close(c)
    BY Zenon, <2>1, CloseStarts DEF P!Close
  <2>2. CASE P!Remove(c) \/ P!DeletePresence(c) \/ P!DispatchLeave(c) \/ P!DeleteRecord(c) \/ P!Crash(c)
    <3>1. \E pc \in {"leave", "dispatch", "unregister", "done"} : closer' = [closer EXCEPT ![c] = pc]
      BY Zenon, <2>2 DEF P!Remove, P!DeletePresence, P!DispatchLeave, P!DeleteRecord, P!Crash
    <3>2. PICK pc \in {"leave", "dispatch", "unregister", "done"} : closer' = [closer EXCEPT ![c] = pc]
      BY Zenon, <3>1
    <3>3. pc # "idle" /\ pc \in {"idle", "remove", "leave", "dispatch", "unregister", "done"}
      BY Zenon, <3>2
    <3>4. closer \in [Connections -> {"idle", "remove", "leave", "dispatch", "unregister", "done"}]
      BY Zenon DEF PresenceInv, PresenceTyped
    <3> QED BY Zenon, <3>2, <3>3, <3>4
  <2> QED BY Zenon, <2>1, <2>2
<1>3. /\ session' \in [Connections -> {"new", "open", "closed", "gone"}]
      /\ opener' \in [Connections -> {"idle", "put", "serving", "failed"}]
      /\ persister' \in [Connections -> {"idle", "persist", "upsert", "dispatch"}]
      /\ refresher' \in [Connections -> {"idle", "stopped", "refresh", "refresh both", "presence"}]
      /\ told' \in [Connections -> {"nothing", "present", "left", "timeout"}]
      /\ due' \in {due, due \ {c}} /\ UNCHANGED joined
      /\ \A d \in Connections \ {c} :
           /\ session'[d] = session[d] /\ opener'[d] = opener[d] /\ persister'[d] = persister[d]
           /\ refresher'[d] = refresher[d] /\ told'[d] = told[d]
  <2>1. CASE P!Crash(c)
    BY <2>1 DEF P!Crash, PresenceInv, PresenceTyped, P!TypeOK
  <2>2. CASE P!Remove(c)
    BY <2>2 DEF P!Remove, PresenceInv, PresenceTyped, P!TypeOK
  <2>3. CASE P!DispatchLeave(c)
    BY <2>3 DEF P!DispatchLeave, PresenceInv, PresenceTyped, P!TypeOK
  <2>4. CASE P!Close(c) \/ P!DeletePresence(c) \/ P!DeleteRecord(c)
    BY <2>4 DEF P!Close, P!DeletePresence, P!DeleteRecord, PresenceInv, PresenceTyped, P!TypeOK
  <2> QED BY Zenon, <2>1, <2>2, <2>3, <2>4
<1>4. PresenceTyped'
  BY Zenon, <1>1, <1>2, <1>3 DEF PresenceTyped, P!TypeOK
<1>5. ASSUME NEW d \in Connections, d # c
      PROVE  Begins(d)' /\ KeptAlive(d)'
  BY <1>1, <1>2, <1>3, <1>5, Elsewhere DEF PresenceInv
<1>6. KeptAlive(c)'
  BY Zenon, <1>2 DEF KeptAlive, Active
<1>7. Begins(c)'
  <2>0. Begins(c)
    BY Zenon DEF PresenceInv
  <2>1. CASE P!Crash(c)
    BY <2>0, <2>1 DEF P!Crash, PresenceInv, PresenceTyped, P!TypeOK, Begins
  <2>2. CASE P!Remove(c)
    BY <2>0, <2>2 DEF P!Remove, PresenceInv, PresenceTyped, P!TypeOK, Begins
  <2>3. CASE P!DispatchLeave(c)
    BY Zenon, <2>0, <2>3 DEF P!DispatchLeave, PresenceInv, PresenceTyped, P!TypeOK, Begins
  <2>4. CASE P!Close(c) \/ P!DeletePresence(c) \/ P!DeleteRecord(c)
    BY Zenon, <2>0, <2>4 DEF P!Close, P!DeletePresence, P!DeleteRecord, Begins
  <2> QED BY Zenon, <2>1, <2>2, <2>3, <2>4
<1> QED BY Zenon, <1>4, <1>5, <1>6, <1>7 DEF PresenceInv

LEMMA SharedSteps ==
  ASSUME OutlivesPeriod, PresenceInv, P!Reconcile \/ P!List
  PROVE  PresenceInv'
<1>1. /\ record \in [Connections -> {None} \cup 0..TTL] /\ entry \in [Connections -> {None} \cup 0..TTL]
  BY Zenon DEF PresenceInv, PresenceTyped, P!TypeOK
<1>2. /\ record' \in [Connections -> {None} \cup 0..TTL] /\ entry' \in [Connections -> {None} \cup 0..TTL]
      /\ \A c \in Connections : /\ record'[c] = record[c] \/ record[c] = 0
                                /\ entry'[c] = entry[c] \/ entry[c] = 0
  BY Zenon, <1>1, TrimmedEntries DEF P!Reconcile, P!List
<1>3. /\ UNCHANGED <<session, joined, opener, persister, refresher, closer, due>>
      /\ told' \in [Connections -> {"nothing", "present", "left", "timeout"}]
      /\ \A c \in Connections : told'[c] \in {told[c], "timeout"}
  <2>1. told \in [Connections -> {"nothing", "present", "left", "timeout"}]
    BY Zenon DEF PresenceInv, PresenceTyped
  <2>2. CASE P!List
    BY Zenon, <2>1, <2>2 DEF P!List
  <2>3. CASE P!Reconcile
    <3>1. told' = [c \in Connections |-> IF c \in P!Expired(entry) THEN "timeout" ELSE told[c]]
      BY Zenon, <2>3 DEF P!Reconcile
    <3> QED BY Zenon, <2>1, <2>3, <3>1 DEF P!Reconcile
  <2> QED BY Zenon, <2>2, <2>3
<1>4. PresenceTyped'
  BY Zenon, <1>2, <1>3 DEF PresenceInv, PresenceTyped, P!TypeOK
<1>5. ASSUME NEW c \in Connections
      PROVE  Begins(c)' /\ KeptAlive(c)'
  BY Zenon, <1>2, <1>3, <1>5, Elsewhere DEF PresenceInv
<1> QED BY Zenon, <1>4, <1>5 DEF PresenceInv

LEMMA OlderLasting ==
  ASSUME OutlivesPeriod, NEW s \in [Connections -> {None} \cup 0..TTL]
  PROVE  /\ P!Older(s) \in [Connections -> {None} \cup 0..TTL]
         /\ \A c \in Connections : s[c] = TTL => P!Older(s)[c] = TTL - 1
BY DEF P!Older, P!Live, OutlivesPeriod

LEMMA PeriodStep ==
  ASSUME OutlivesPeriod, PresenceInv, P!Tick
  PROVE  PresenceInv'
<1>1. /\ record \in [Connections -> {None} \cup 0..TTL] /\ entry \in [Connections -> {None} \cup 0..TTL]
  BY Zenon DEF PresenceInv, PresenceTyped, P!TypeOK
<1>2. /\ record' \in [Connections -> {None} \cup 0..TTL] /\ entry' \in [Connections -> {None} \cup 0..TTL]
      /\ \A c \in Connections : (record[c] = TTL => record'[c] = TTL - 1) /\ (entry[c] = TTL => entry'[c] = TTL - 1)
  BY Zenon, <1>1, OlderLasting DEF P!Tick
<1>3. UNCHANGED <<session, joined, opener, persister, refresher, closer, told>>
  BY Zenon DEF P!Tick
<1>4. PresenceTyped'
  BY Zenon, <1>2, <1>3 DEF PresenceInv, PresenceTyped, P!TypeOK
<1>5. ASSUME NEW c \in Connections
      PROVE  Begins(c)' /\ KeptAlive(c)'
  <2>1. persister[c] = "idle" /\ refresher[c] \in {"idle", "stopped"} /\ c \notin due
    BY Zenon DEF P!Tick, P!Resting
  <2>2. c \in due' <=> opener[c] = "serving" /\ refresher[c] = "idle"
    BY Zenon DEF P!Tick
  <2>3. Begins(c) /\ KeptAlive(c)
    BY Zenon DEF PresenceInv
  <2>4. Begins(c)'
    BY Zenon, <1>3, <2>1, <2>2, <2>3 DEF Begins
  <2>5. KeptAlive(c)'
    BY Zenon, <1>2, <1>3, <2>1, <2>2, <2>3 DEF KeptAlive, Active
  <2> QED BY Zenon, <2>4, <2>5
<1> QED BY Zenon, <1>4, <1>5 DEF PresenceInv

(* The records of a connection that is open, and its presence once it was  *)
(* announced, never expire, whatever its goroutines, other connections and *)
(* failures do.                                                            *)
THEOREM OpenConnectionsStayPresent ==
  ASSUME OutlivesPeriod
  PROVE  P!Spec => [](P!TypeOK /\ P!PresentWhileJoined)
<1>1. P!Init => PresenceInv
  BY DEF P!Init, PresenceInv, PresenceTyped, P!TypeOK, Begins, KeptAlive, Active, P!Idle
<1>2. PresenceInv /\ [P!Next]_P!vars => PresenceInv'
  <2> SUFFICES ASSUME PresenceInv, [P!Next]_P!vars
               PROVE  PresenceInv'
    BY Zenon
  <2>1. ASSUME NEW c \in Connections,
               P!Register(c) \/ P!Subscribe(c) \/ P!UpdatePresence(c) \/ P!Close(c) \/ P!Crash(c) \/ P!SessionStep(c)
        PROVE  PresenceInv'
    BY Zenon, <2>1, OpenerSteps, ReaderSteps, SnapshotStep, RefreshStep, RefreshPresenceStep, CloserSteps
       DEF P!SessionStep
  <2>2. CASE UNCHANGED P!vars
    BY <2>2 DEF P!vars, PresenceInv, PresenceTyped, P!TypeOK, Begins, KeptAlive, Active
  <2> QED BY Zenon, <2>1, <2>2, SharedSteps, PeriodStep DEF P!Next
<1>3. PresenceInv => P!TypeOK /\ P!PresentWhileJoined
  <2> SUFFICES ASSUME PresenceInv, NEW c \in Connections, Active(c)
               PROVE  P!Live(record, c) /\ (told[c] = "present" => P!Live(entry, c))
    BY Zenon DEF PresenceInv, PresenceTyped, Active, P!PresentWhileJoined
  <2>1. told[c] = "present" => entry[c] = TTL - 1 \/ entry[c] = TTL
    BY Zenon DEF PresenceInv, KeptAlive
  <2> QED BY Zenon, <2>1, FoundAlive, Periods DEF P!Live
<1> QED BY <1>1, <1>2, <1>3, PTL DEF P!Spec

-----------------------------------------------------------------------------
(* PublishRate *)

CONSTANTS Sessions, Channels, RateLimit, Window, MaxItems, MaxBatches
VARIABLES bucket, granted, sender, sent

G == INSTANCE PublishRate WITH Limit <- RateLimit, session <- sender

(* What the proofs assume of the constants. *)
RateSensible == Window \in Nat \ {0} /\ RateLimit \in [{"app", "connection", "channel"} -> Nat]

BucketsHold ==
  /\ bucket \in [G!Buckets -> [tokens : Nat, age : Nat]]
  /\ \A b \in G!Buckets : bucket[b].tokens <= G!Full(b) /\ bucket[b].age <= G!Expired

(* What a bucket has granted in the last ticks and what it could grant now *)
(* do not exceed what it may grant.                                        *)
GrantsHold ==
  /\ granted \in [G!Buckets -> [0..Window -> Nat]]
  /\ \A b \in G!Buckets, k \in 0..Window :
       Window * granted[b][k] + G!Refilled(b) <= G!Full(b) + k * RateLimit[b[1]]

BatchFields == {"pc", "items", "item", "dimension", "refused", "batches"}

(* What is sent was not refused. *)
BatchesHold ==
  /\ DOMAIN sender = Sessions
  /\ \A s \in Sessions :
       /\ DOMAIN sender[s] = BatchFields
       /\ sender[s].pc \in {"idle", "rate", "send"}
       /\ sender[s].pc = "send" => sender[s].refused = {}

RateInv == BucketsHold /\ GrantsHold /\ BatchesHold /\ DOMAIN sent = Sessions

-----------------------------------------------------------------------------
LEMMA Product ==
  ASSUME NEW m \in Nat, NEW n \in Nat
  PROVE  m * n \in Nat /\ (m + 1) * n = m * n + n /\ m * (n + 1) = m * n + m /\ 0 * n = 0
OBVIOUS

LEMMA ProductGrows ==
  ASSUME NEW m \in Nat, NEW n \in Nat, NEW p \in Nat, m <= p
  PROVE  m * n <= p * n
OBVIOUS

LEMMA LimitOf ==
  ASSUME RateSensible, NEW b \in G!Buckets
  PROVE  RateLimit[b[1]] \in Nat /\ G!Full(b) \in Nat /\ G!Full(b) = Window * RateLimit[b[1]]
<1>1. b[1] \in {"app", "connection", "channel"}
  BY DEF G!Buckets
<1>2. RateLimit[b[1]] \in Nat
  BY Zenon, <1>1 DEF RateSensible
<1> QED BY Zenon, <1>2, Product DEF G!Full, RateSensible

LEMMA RefilledBounds ==
  ASSUME RateSensible, BucketsHold, NEW b \in G!Buckets
  PROVE  G!Refilled(b) \in Nat /\ G!Refilled(b) <= G!Full(b)
<1>1. G!Full(b) \in Nat /\ RateLimit[b[1]] \in Nat /\ bucket[b].tokens \in Nat /\ bucket[b].age \in Nat
  BY Zenon, LimitOf DEF BucketsHold
<1>2. bucket[b].age * RateLimit[b[1]] \in Nat
  BY Zenon, <1>1, Product
<1> QED BY <1>1, <1>2 DEF G!Refilled, G!Least

(* A call takes what it is granted. *)
LEMMA UsedStep ==
  ASSUME RateSensible, BucketsHold, GrantsHold, NEW d, G!Used(d)
  PROVE  BucketsHold' /\ GrantsHold'
<1> DEFINE r(b) == G!Refilled(b)
<1>1. ASSUME NEW b \in G!Buckets
      PROVE  /\ G!Full(b) \in Nat /\ G!Refilled(b) \in Nat /\ G!Refilled(b) <= G!Full(b)
             /\ RateLimit[b[1]] \in Nat /\ G!Full(b)' = G!Full(b) /\ Window \in Nat /\ G!Expired \in Nat
  BY LimitOf, RefilledBounds DEF G!Full, RateSensible, G!Expired
<1>2. CASE d \notin G!Buckets
  <2>1. bucket' = bucket /\ granted' = granted
    BY Zenon, <1>2 DEF G!Used, BucketsHold, GrantsHold
  <2> QED BY Zenon, <2>1 DEF BucketsHold, GrantsHold, G!Refilled, G!Full
<1>3. CASE d \in G!Buckets
  <2> DEFINE t == IF G!Allowed(d) THEN G!Refilled(d) - Window ELSE G!Refilled(d)
  <2>1. t \in Nat /\ t <= G!Full(d)
    BY <1>1, <1>3 DEF G!Allowed
  <2>2. /\ bucket'[d] = [tokens |-> t, age |-> 0] /\ bucket' \in [G!Buckets -> [tokens : Nat, age : Nat]]
        /\ \A b \in G!Buckets \ {d} : bucket'[b] = bucket[b]
    BY Zenon, <1>3, <2>1 DEF G!Used, BucketsHold
  <2>3. BucketsHold'
    <3>1. ASSUME NEW b \in G!Buckets
          PROVE  bucket'[b].tokens <= G!Full(b) /\ bucket'[b].age <= G!Expired /\ G!Full(b)' = G!Full(b)
      <4>1. CASE b = d
        BY <1>1, <2>1, <2>2, <4>1
      <4>2. CASE b # d
        BY Zenon, <1>1, <2>2, <4>2 DEF BucketsHold
      <4> QED BY Zenon, <4>1, <4>2
    <3> QED BY Zenon, <2>2, <3>1 DEF BucketsHold, G!Expired, G!Full
  <2>4. /\ granted' \in [G!Buckets -> [0..Window -> Nat]]
        /\ \A b \in G!Buckets \ {d} : granted'[b] = granted[b]
        /\ \A k \in 0..Window : granted'[d][k] = IF G!Allowed(d) THEN granted[d][k] + 1 ELSE granted[d][k]
    <3> DEFINE h == granted[d]
               g == [k \in 0..Window |-> h[k] + 1]
    <3>1. granted \in [G!Buckets -> [0..Window -> Nat]] /\ granted[d] \in [0..Window -> Nat]
      BY Zenon, <1>3 DEF GrantsHold
    <3>2. g \in [0..Window -> Nat] /\ \A k \in 0..Window : g[k] = h[k] + 1
      <4> HIDE DEF h
      <4>1. h \in [0..Window -> Nat]
        BY Zenon, <3>1 DEF h
      <4> QED BY <4>1
    <3>3. granted' = IF G!Allowed(d) THEN [granted EXCEPT ![d] = g] ELSE granted
      BY Zenon DEF G!Used
    <3> HIDE DEF g
    <3> QED BY Zenon, <1>3, <3>1, <3>2, <3>3
  <2> HIDE DEF t
  <2>5. G!Refilled(d)' = t
    <3>1. bucket'[d].age = 0 /\ bucket'[d].tokens = t /\ G!Expired # 0
      BY <2>2 DEF RateSensible, G!Expired
    <3>2. 0 * RateLimit[d[1]] = 0
      BY <1>1, <1>3
    <3>3. G!Refilled(d)' = G!Least(G!Full(d), t + 0 * RateLimit[d[1]])
      BY Zenon, <1>1, <1>3, <3>1 DEF G!Refilled, G!Expired, G!Full
    <3> QED BY <1>1, <1>3, <2>1, <3>2, <3>3 DEF G!Least
  <2>6. ASSUME NEW b \in G!Buckets, b # d
        PROVE  G!Refilled(b)' = G!Refilled(b)
    BY Zenon, <2>2, <2>6 DEF G!Refilled, G!Full, G!Expired
  <2>7. ASSUME NEW b \in G!Buckets, NEW k \in 0..Window
        PROVE  Window * granted'[b][k] + G!Refilled(b)' <= G!Full(b) + k * RateLimit[b[1]]
    <3>1. Window * granted[b][k] + G!Refilled(b) <= G!Full(b) + k * RateLimit[b[1]]
      BY Zenon DEF GrantsHold
    <3>2. granted[b][k] \in Nat /\ k \in Nat
      BY <1>1 DEF GrantsHold
    <3>3. Window * granted[b][k] \in Nat /\ Window * (granted[b][k] + 1) = Window * granted[b][k] + Window
          /\ k * RateLimit[b[1]] \in Nat
      BY Zenon, <1>1, <3>2, Product
    <3>4. CASE b # d
      BY Zenon, <2>4, <2>6, <3>1, <3>4
    <3>5. CASE b = d /\ G!Allowed(d)
      <4>1. granted'[b][k] = granted[b][k] + 1 /\ G!Refilled(b)' = G!Refilled(b) - Window
        BY Zenon, <2>4, <2>5, <3>5 DEF t
      <4> QED BY <1>1, <3>1, <3>3, <4>1
    <3>6. CASE b = d /\ ~G!Allowed(d)
      BY Zenon, <2>4, <2>5, <3>1, <3>6 DEF t
    <3> QED BY Zenon, <3>4, <3>5, <3>6
  <2> QED BY Zenon, <1>1, <2>3, <2>4, <2>7 DEF GrantsHold
<1> QED BY Zenon, <1>2, <1>3

(* In a tick a bucket gains at most its share; when it expires it was full.*)
LEMMA TickRefills ==
  ASSUME RateSensible, BucketsHold, G!Tick, NEW b \in G!Buckets
  PROVE  G!Refilled(b)' \in Nat /\ G!Refilled(b)' <= G!Full(b) /\ G!Refilled(b)' <= G!Refilled(b) + RateLimit[b[1]]
<1> DEFINE L == RateLimit[b[1]]
           a == bucket[b].age
           n == bucket[b].tokens
<1>1. /\ L \in Nat /\ G!Full(b) \in Nat /\ G!Full(b) = Window * L /\ a \in Nat /\ n \in Nat /\ a <= G!Expired
      /\ n <= G!Full(b) /\ Window \in Nat \ {0} /\ G!Expired = 2 * Window
  BY Zenon, LimitOf DEF BucketsHold, RateSensible, G!Expired
<1>2. bucket'[b].tokens = n /\ bucket'[b].age = G!Least(a + 1, G!Expired)
  BY Zenon DEF G!Tick, BucketsHold
<1>3. G!Refilled(b) = IF a = G!Expired THEN G!Full(b) ELSE G!Least(G!Full(b), n + a * L)
  BY Zenon DEF G!Refilled
<1>4. G!Refilled(b)' = IF bucket'[b].age = G!Expired THEN G!Full(b) ELSE G!Least(G!Full(b), n + bucket'[b].age * L)
  BY Zenon, <1>2 DEF G!Refilled, G!Full, G!Expired
<1>5. a * L \in Nat /\ (a + 1) * L = a * L + L
  BY Zenon, <1>1, Product
<1> HIDE DEF L, a, n
<1>6. CASE a = G!Expired
  <2>1. bucket'[b].age = G!Expired
    BY <1>1, <1>2, <1>6 DEF G!Least
  <2> QED BY <1>1, <1>3, <1>4, <1>6, <2>1 DEF L
<1>7. CASE a # G!Expired /\ a + 1 = G!Expired
  <2>1. bucket'[b].age = G!Expired /\ Window <= a
    BY <1>1, <1>2, <1>7 DEF G!Least
  <2>2. Window * L <= a * L
    BY Zenon, <1>1, <2>1, ProductGrows
  <2>3. G!Refilled(b) = G!Full(b)
    BY <1>1, <1>3, <1>5, <1>7, <2>2 DEF G!Least
  <2> QED BY <1>1, <1>4, <2>1, <2>3 DEF L
<1>8. CASE a # G!Expired /\ a + 1 # G!Expired
  <2>1. bucket'[b].age = a + 1
    BY <1>1, <1>2, <1>8 DEF G!Least
  <2>2. G!Refilled(b)' = G!Least(G!Full(b), n + (a * L + L))
    BY Zenon, <1>4, <1>5, <1>8, <2>1
  <2>3. G!Refilled(b) = G!Least(G!Full(b), n + a * L)
    BY Zenon, <1>3, <1>8
  <2> QED BY <1>1, <1>5, <2>2, <2>3 DEF G!Least, L
<1> QED BY Zenon, <1>6, <1>7, <1>8

LEMMA TickGrants ==
  ASSUME RateSensible, RateInv, G!Tick
  PROVE  RateInv'
<1>1. BatchesHold'
  BY Zenon DEF RateInv, BatchesHold, G!Tick
<1>2. BucketsHold'
  <2>1. ASSUME NEW b \in G!Buckets
        PROVE  /\ bucket'[b] \in [tokens : Nat, age : Nat] /\ bucket'[b].tokens = bucket[b].tokens
               /\ bucket'[b].age <= G!Expired /\ G!Full(b)' = G!Full(b) /\ G!Expired' = G!Expired
    BY DEF G!Tick, RateInv, BucketsHold, G!Least, G!Expired, RateSensible, G!Full
  <2>2. bucket' = [b \in G!Buckets |-> bucket'[b]]
    BY Zenon DEF G!Tick
  <2> QED BY Zenon, <2>1, <2>2 DEF RateInv, BucketsHold
<1>3. granted' = [b \in G!Buckets |-> [k \in 0..Window |-> IF k = 0 THEN 0 ELSE granted[b][k - 1]]]
  BY Zenon DEF G!Tick
<1>4. granted \in [G!Buckets -> [0..Window -> Nat]] /\ Window \in Nat
  BY Zenon DEF RateInv, GrantsHold, RateSensible
<1>5. ASSUME NEW b \in G!Buckets, NEW k \in 0..Window
      PROVE  /\ granted'[b][k] = (IF k = 0 THEN 0 ELSE granted[b][k - 1]) /\ granted'[b][k] \in Nat
             /\ k # 0 => k - 1 \in 0..Window /\ granted[b][k - 1] \in Nat
  BY <1>3, <1>4
<1>6. granted' \in [G!Buckets -> [0..Window -> Nat]]
  BY Zenon, <1>3, <1>5
<1>7. ASSUME NEW b \in G!Buckets, NEW k \in 0..Window
      PROVE  Window * granted'[b][k] + G!Refilled(b)' <= G!Full(b) + k * RateLimit[b[1]]
  <2> DEFINE L == RateLimit[b[1]]
  <2>1. /\ G!Refilled(b)' \in Nat /\ G!Refilled(b)' <= G!Full(b) /\ G!Refilled(b)' <= G!Refilled(b) + L
        /\ L \in Nat /\ G!Full(b) \in Nat /\ G!Refilled(b) \in Nat /\ k \in Nat
    BY <1>4, TickRefills, LimitOf, RefilledBounds DEF RateInv
  <2> HIDE DEF L
  <2>2. CASE k = 0
    <3>1. granted'[b][k] = 0 /\ Window * 0 = 0 /\ k * L = 0
      BY <1>4, <1>5, <2>1, <2>2
    <3> QED BY <2>1, <3>1 DEF L
  <2>3. CASE k # 0
    <3> DEFINE j == k - 1
    <3>1. j \in 0..Window /\ j \in Nat /\ k = j + 1 /\ granted'[b][k] = granted[b][j] /\ granted[b][j] \in Nat
      BY <1>5, <2>1, <2>3
    <3>2. Window * granted[b][j] + G!Refilled(b) <= G!Full(b) + j * L
      BY Zenon, <3>1 DEF RateInv, GrantsHold, L
    <3> HIDE DEF j
    <3>3. k * L = j * L + L /\ j * L \in Nat /\ Window * granted[b][j] \in Nat
      BY Zenon, <1>4, <2>1, <3>1, Product
    <3>4. Window * granted[b][j] + G!Refilled(b)' <= G!Full(b) + k * L
      BY <2>1, <3>2, <3>3
    <3> QED BY Zenon, <3>1, <3>4 DEF L
  <2> QED BY Zenon, <2>2, <2>3
<1>8. GrantsHold'
  BY Zenon, <1>6, <1>7 DEF GrantsHold, G!Full
<1> QED BY Zenon, <1>1, <1>2, <1>8 DEF RateInv, G!Tick

-----------------------------------------------------------------------------
LEMMA RestingBatch ==
  ASSUME NEW n
  PROVE  DOMAIN G!Resting(n) = BatchFields /\ G!Resting(n).pc = "idle" /\ G!Resting(n).refused = {}
BY Zenon DEF G!Resting, BatchFields

(* A batch goes out when nothing of it was refused. *)
LEMMA RatedBatch ==
  ASSUME NEW r, DOMAIN r = BatchFields, r.pc = "rate"
  PROVE  /\ DOMAIN G!Rated(r) = BatchFields /\ G!Rated(r).pc \in {"idle", "rate", "send"}
         /\ G!Rated(r).pc = "send" => G!Rated(r).refused = {}
<1>1. CASE r.item < Len(r.items)
  BY Zenon, <1>1 DEF G!Rated, BatchFields
<1>2. CASE ~(r.item < Len(r.items)) /\ r.refused # {}
  BY Zenon, <1>2, RestingBatch DEF G!Rated
<1>3. CASE ~(r.item < Len(r.items)) /\ r.refused = {}
  BY Zenon, <1>3 DEF G!Rated, BatchFields
<1> QED BY Zenon, <1>1, <1>2, <1>3

LEMMA BatchBecomes ==
  ASSUME BatchesHold, NEW s \in Sessions, NEW r, G!Become(s, r), DOMAIN r = BatchFields,
         r.pc \in {"idle", "rate", "send"}, r.pc = "send" => r.refused = {}
  PROVE  BatchesHold'
<1>1. sender'[s] = r /\ DOMAIN sender' = Sessions /\ \A t \in Sessions \ {s} : sender'[t] = sender[t]
  BY Zenon DEF G!Become, BatchesHold
<1> QED BY Zenon, <1>1 DEF BatchesHold

(* The rest of the sessions send nothing. *)
LEMMA OthersSendNothing ==
  ASSUME DOMAIN sent = Sessions, NEW s \in Sessions, G!SessionStep(s)
  PROVE  DOMAIN sent' = Sessions /\ \A t \in Sessions \ {s} : sent'[t] \ sent[t] = {}
BY Zenon DEF G!SessionStep, G!Publish, G!Rate, G!RateFails, G!Dispatch

LEMMA SessionRateStep ==
  ASSUME RateSensible, RateInv, NEW s \in Sessions, G!SessionStep(s)
  PROVE  RateInv' /\ (sent'[s] \ sent[s] # {} => sender[s].pc = "send")
<1>0. DOMAIN sent' = Sessions
  BY Zenon, OthersSendNothing DEF RateInv
<1> DEFINE r == sender[s]
           b == G!Dimensions(s, r.items[r.item])[r.dimension]
           q == [r EXCEPT !.refused = @ \cup {r.item}]
<1>1. DOMAIN r = BatchFields
  BY Zenon DEF RateInv, BatchesHold
<1>2. r.pc = "rate" => DOMAIN q = BatchFields /\ q.pc = "rate"
  BY Zenon, <1>1 DEF BatchFields
<1>3. CASE G!Publish(s)
  <2>1. PICK items : G!Become(s, [G!Resting(r.batches + 1) EXCEPT !.pc = "rate", !.items = items])
    BY Zenon, <1>3 DEF G!Publish
  <2> DEFINE x == [G!Resting(r.batches + 1) EXCEPT !.pc = "rate", !.items = items]
  <2>2. DOMAIN x = BatchFields /\ x.pc = "rate"
    BY Zenon, RestingBatch DEF BatchFields
  <2>3. BatchesHold'
    <3> HIDE DEF x
    <3> QED BY Zenon, <2>1, <2>2, BatchBecomes DEF RateInv, x
  <2>4. UNCHANGED <<bucket, granted>> /\ sent' = [sent EXCEPT ![s] = {}]
    BY Zenon, <1>3 DEF G!Publish
  <2>5. sent'[s] \ sent[s] = {}
    BY <2>4
  <2> QED BY Zenon, <1>0, <2>3, <2>4, <2>5 DEF RateInv, BucketsHold, GrantsHold, G!Refilled, G!Full
<1>4. CASE G!Rate(s)
  <2>1. r.pc = "rate" /\ G!Used(b) /\ UNCHANGED sent
    BY Zenon, <1>4 DEF G!Rate
  <2>2. BucketsHold' /\ GrantsHold'
    BY Zenon, <2>1, UsedStep DEF RateInv
  <2> DEFINE x == IF ~G!Allowed(b) THEN G!Rated(q)
                  ELSE IF r.dimension < 3 THEN [r EXCEPT !.dimension = @ + 1] ELSE G!Rated(r)
  <2>3. G!Become(s, x)
    BY Zenon, <1>4 DEF G!Rate
  <2>4. DOMAIN x = BatchFields /\ x.pc \in {"idle", "rate", "send"} /\ (x.pc = "send" => x.refused = {})
    <3>1. r.pc = "rate" => LET y == [r EXCEPT !.dimension = @ + 1] IN DOMAIN y = BatchFields /\ y.pc = "rate"
      BY Zenon, <1>1 DEF BatchFields
    <3> HIDE DEF q, r, b
    <3> QED BY Zenon, <1>1, <1>2, <2>1, <3>1, RatedBatch
  <2>5. BatchesHold'
    <3> HIDE DEF x
    <3> QED BY Zenon, <2>3, <2>4, BatchBecomes DEF RateInv
  <2> QED BY Zenon, <1>0, <2>1, <2>2, <2>5 DEF RateInv
<1>5. CASE G!RateFails(s)
  <2>1. r.pc = "rate" /\ (G!Used(b) \/ UNCHANGED <<bucket, granted>>) /\ UNCHANGED sent /\ G!Become(s, G!Rated(q))
    BY Zenon, <1>5 DEF G!RateFails
  <2>2. BucketsHold' /\ GrantsHold'
    <3>1. CASE UNCHANGED <<bucket, granted>>
      BY Zenon, <3>1 DEF RateInv, BucketsHold, GrantsHold, G!Refilled, G!Full
    <3> QED BY Zenon, <2>1, <3>1, UsedStep DEF RateInv
  <2>3. BatchesHold'
    <3> HIDE DEF q, r
    <3> QED BY Zenon, <1>1, <1>2, <2>1, RatedBatch, BatchBecomes DEF RateInv
  <2> QED BY Zenon, <1>0, <2>1, <2>2, <2>3 DEF RateInv
<1>6. CASE G!Dispatch(s)
  <2> DEFINE x == IF r.item < Len(r.items) THEN [r EXCEPT !.item = @ + 1] ELSE G!Resting(r.batches)
  <2>1. r.pc = "send" /\ G!Become(s, x) /\ UNCHANGED <<bucket, granted>>
    BY Zenon, <1>6 DEF G!Dispatch
  <2>2. r.refused = {}
    BY Zenon, <2>1 DEF RateInv, BatchesHold
  <2>3. DOMAIN x = BatchFields /\ x.pc \in {"idle", "rate", "send"} /\ (x.pc = "send" => x.refused = {})
    <3>1. LET y == [r EXCEPT !.item = @ + 1] IN DOMAIN y = BatchFields /\ y.pc = "send" /\ y.refused = {}
      BY Zenon, <1>1, <2>1, <2>2 DEF BatchFields
    <3> HIDE DEF r
    <3> QED BY Zenon, <3>1, RestingBatch
  <2>4. BatchesHold'
    <3> HIDE DEF x
    <3> QED BY Zenon, <2>1, <2>3, BatchBecomes DEF RateInv
  <2> QED BY Zenon, <1>0, <2>1, <2>4 DEF RateInv, BucketsHold, GrantsHold, G!Refilled, G!Full
<1> QED BY Zenon, <1>3, <1>4, <1>5, <1>6 DEF G!SessionStep

(* However sessions share the buckets: no bucket grants more than it held  *)
(* and gained, and no message of a batch goes out unless all have passed.  *)
THEOREM LimitsHold ==
  ASSUME RateSensible
  PROVE  G!Spec => [](G!TypeOK /\ G!RateHolds) /\ G!BatchPassesWhole
<1>1. G!Init => RateInv
  <2> SUFFICES ASSUME G!Init PROVE RateInv
    BY Zenon
  <2>1. \A b \in G!Buckets : G!Full(b) \in Nat /\ RateLimit[b[1]] \in Nat
    BY Zenon, LimitOf
  <2>2. BucketsHold
    BY <2>1 DEF G!Init, BucketsHold, G!Expired, RateSensible
  <2>3. GrantsHold
    <3>1. ASSUME NEW b \in G!Buckets, NEW k \in 0..Window
          PROVE  Window * granted[b][k] + G!Refilled(b) <= G!Full(b) + k * RateLimit[b[1]]
      <4>1. granted[b][k] = 0 /\ G!Refilled(b) = G!Full(b) /\ Window * 0 = 0 /\ k \in Nat
        BY <2>1 DEF G!Init, G!Refilled, RateSensible
      <4>2. k * RateLimit[b[1]] \in Nat
        BY Zenon, <2>1, <4>1, Product
      <4> QED BY <2>1, <4>1, <4>2
    <3>2. granted \in [G!Buckets -> [0..Window -> Nat]]
      BY Zenon DEF G!Init
    <3> QED BY Zenon, <3>1, <3>2 DEF GrantsHold
  <2>4. BatchesHold
    <3>1. DOMAIN sender = Sessions /\ \A s \in Sessions : sender[s] = G!Resting(0)
      BY Zenon DEF G!Init
    <3> QED BY Zenon, <3>1, RestingBatch DEF BatchesHold
  <2> QED BY Zenon, <2>2, <2>3, <2>4 DEF RateInv, G!Init
<1>2. RateInv /\ [G!Next]_G!vars =>
        RateInv' /\ \A s \in Sessions : sent'[s] \ sent[s] # {} => sender[s].refused = {}
  <2> SUFFICES ASSUME RateInv, [G!Next]_G!vars
               PROVE  RateInv' /\ \A s \in Sessions : sent'[s] \ sent[s] # {} => sender[s].refused = {}
    BY Zenon
  <2>1. CASE G!Tick
    <3>1. RateInv' /\ UNCHANGED sent
      BY Zenon, <2>1, TickGrants DEF G!Tick
    <3> QED BY Zenon, <3>1
  <2>2. ASSUME NEW s \in Sessions, G!SessionStep(s)
        PROVE  RateInv' /\ \A t \in Sessions : sent'[t] \ sent[t] # {} => sender[t].refused = {}
    <3>1. RateInv' /\ (sent'[s] \ sent[s] # {} => sender[s].pc = "send")
      BY Zenon, <2>2, SessionRateStep
    <3>2. \A t \in Sessions \ {s} : sent'[t] \ sent[t] = {}
      BY Zenon, <2>2, OthersSendNothing DEF RateInv
    <3> QED BY Zenon, <3>1, <3>2 DEF RateInv, BatchesHold
  <2>3. CASE UNCHANGED G!vars
    BY Zenon, <2>3 DEF G!vars, RateInv, BucketsHold, GrantsHold, BatchesHold, G!Refilled, G!Full
  <2> QED BY Zenon, <2>1, <2>2, <2>3 DEF G!Next
<1>3. RateInv => G!TypeOK /\ G!RateHolds
  <2> SUFFICES ASSUME RateInv PROVE G!TypeOK /\ G!RateHolds
    BY Zenon
  <2>1. G!TypeOK
    BY LimitOf DEF RateInv, BucketsHold, BatchesHold, G!TypeOK, G!Expired, RateSensible
  <2>2. ASSUME NEW b \in G!Buckets, NEW k \in 0..Window
        PROVE  Window * granted[b][k] <= G!Full(b) + k * RateLimit[b[1]]
    <3>1. Window * granted[b][k] + G!Refilled(b) <= G!Full(b) + k * RateLimit[b[1]]
      BY Zenon DEF RateInv, GrantsHold
    <3>2. /\ granted[b][k] \in Nat /\ Window \in Nat /\ k \in Nat /\ G!Refilled(b) \in Nat
          /\ G!Full(b) \in Nat /\ RateLimit[b[1]] \in Nat
      BY LimitOf, RefilledBounds DEF RateInv, GrantsHold, RateSensible
    <3>3. Window * granted[b][k] \in Nat /\ k * RateLimit[b[1]] \in Nat
      BY Zenon, <3>2, Product
    <3> QED BY <3>1, <3>2, <3>3
  <2> QED BY Zenon, <2>1, <2>2 DEF G!RateHolds
<1>4. RateInv /\ [G!Next]_G!vars => [\A s \in Sessions : sent'[s] \ sent[s] # {} => sender[s].refused = {}]_G!vars
  BY Zenon, <1>2
<1> QED BY <1>1, <1>2, <1>3, <1>4, PTL DEF G!Spec, G!BatchPassesWhole
=============================================================================
