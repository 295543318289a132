------------------------------ MODULE Dashboard ------------------------------
(***************************************************************************)
(* The metrics of the dashboard (redisstate/dashboard.go).  Any goroutine  *)
(* puts an observation into a bounded queue; one recorder takes it out and *)
(* adds it to the counter of the current minute in Redis.  A script        *)
(* refuses a minute that is not the server's, and the recorder tries once  *)
(* more with the one it was told.  An observation that cannot be counted   *)
(* is reported as a failure.                                               *)
(***************************************************************************)
EXTENDS Naturals, Sequences, FiniteSets, Functions

CONSTANTS
  Observations, None,
  Capacity,     \* of the queue
  Attempts,     \* calls of the script for an observation: 2
  Skew,         \* minutes by which the clock of the process may be off
  Horizon       \* bound: the last minute

VARIABLES
  now,         \* minute of Redis
  made,        \* observations made
  queue,
  recorder,    \* [pc: "idle", "script" or "stopped", holds, minute, attempt]
  counted,     \* [minute -> observations in its counters]
  reported,    \* observations reported as failed
  closing      \* the context was cancelled

vars == <<now, made, queue, recorder, counted, reported, closing>>

Minutes == 1..Horizon

Idle == [pc |-> "idle", holds |-> None, minute |-> 0, attempt |-> 0]

Init ==
  /\ now = 1 /\ made = {} /\ queue = <<>> /\ recorder = Idle
  /\ counted = [m \in Minutes |-> {}] /\ reported = {} /\ closing = FALSE

-----------------------------------------------------------------------------
(* Record of the recorder: never waits. *)
\* mutant of Overflows: an observation that does not fit is forgotten
OverflowsQuietly(o) == Len(queue) = Capacity /\ UNCHANGED <<queue, reported>>

Overflows(o) == Len(queue) = Capacity /\ reported' = reported \cup {o} /\ UNCHANGED queue

Record(o) ==
  /\ o \notin made /\ made' = made \cup {o}
  /\ \/ Len(queue) < Capacity /\ queue' = Append(queue, o) /\ UNCHANGED reported
     \/ Overflows(o)
  /\ UNCHANGED <<now, recorder, counted, closing>>

(* run: the minute comes from the clock of the process. *)
Take ==
  /\ recorder.pc = "idle" /\ queue # <<>> /\ queue' = Tail(queue)
  /\ \E m \in Minutes :
       /\ m <= now + Skew /\ now <= m + Skew
       /\ recorder' = [pc |-> "script", holds |-> Head(queue), minute |-> m, attempt |-> 1]
  /\ UNCHANGED <<now, made, counted, reported, closing>>

(* recordMetricScript *)
Counts == recorder.minute = now

Counted == counted' = [counted EXCEPT ![recorder.minute] = @ \cup {recorder.holds}]

Script ==
  /\ recorder.pc = "script"
  /\ \/ Counts /\ Counted /\ recorder' = Idle /\ UNCHANGED reported
     \/ /\ ~Counts /\ recorder.attempt < Attempts
        /\ recorder' = [recorder EXCEPT !.minute = now, !.attempt = @ + 1]
        /\ UNCHANGED <<counted, reported>>
     \/ /\ ~Counts /\ recorder.attempt = Attempts
        /\ reported' = reported \cup {recorder.holds} /\ recorder' = Idle /\ UNCHANGED counted
  /\ UNCHANGED <<now, made, queue, closing>>

(* No answer in time; the script may have run. *)
ScriptFails ==
  /\ recorder.pc = "script" /\ recorder' = Idle
  /\ (Counts /\ Counted) \/ UNCHANGED counted
  /\ reported' = reported \cup {recorder.holds}
  /\ UNCHANGED <<now, made, queue, closing>>

(* Close cancels; what is still in the queue is given up. *)
Close == ~closing /\ closing' = TRUE /\ UNCHANGED <<now, made, queue, recorder, counted, reported>>

Stop ==
  /\ closing /\ recorder.pc = "idle" /\ recorder' = [Idle EXCEPT !.pc = "stopped"]
  /\ UNCHANGED <<now, made, queue, counted, reported, closing>>

Tick ==
  /\ now < Horizon /\ now' = now + 1
  /\ UNCHANGED <<made, queue, recorder, counted, reported, closing>>

Next ==
  \/ \E o \in Observations : Record(o)
  \/ Take \/ Script \/ ScriptFails \/ Close \/ Stop \/ Tick

Spec == Init /\ [][Next]_vars

-----------------------------------------------------------------------------
(* Read: the counters of a window that ends at `end' (in seconds), as the  *)
(* minutes each bucket sums up.                                            *)
EndMinute(end) == end \div 60

StartMinute(end, window) == (end - 60 * window) \div 60 + 1

Target(index, window, step) ==
  LET buckets == window \div step
  IN IF index \div step >= buckets THEN buckets - 1 ELSE index \div step

BucketAt(end, window, step, i) == EndMinute(end) - window + 1 + i * step

ValidWindow(window, step) ==
  <<window, step>> \in {<<5, 1>>, <<15, 1>>, <<60, 1>>, <<60, 5>>, <<360, 5>>, <<360, 15>>,
                        <<1440, 15>>, <<1440, 60>>}

-----------------------------------------------------------------------------
TypeOK ==
  /\ now \in Minutes /\ made \subseteq Observations /\ reported \subseteq made
  /\ queue \in Seq(Observations) /\ Len(queue) <= Capacity
  /\ recorder.pc \in {"idle", "script", "stopped"} /\ recorder.attempt \in 0..Attempts

Held == IF recorder.holds = None THEN {} ELSE {recorder.holds}

(* Every observation that was made is in the queue, in the recorder's      *)
(* hands, counted or reported: only the end of the process loses one in    *)
(* silence, the ones it leaves in the queue.  None is counted twice, and   *)
(* one that is in both hands of the code was not answered for.             *)
NothingLostInSilence ==
  /\ made = Range(queue) \cup Held \cup reported \cup UNION {counted[m] : m \in Minutes}
  /\ \A m, n \in Minutes : m # n => counted[m] \cap counted[n] = {}
  /\ \A m \in Minutes : (Range(queue) \cup Held) \cap counted[m] = {}

(* A counter is never written after its minute has passed or before it has *)
(* come, however wrong the clock of the process is.                        *)
PastIsFixed == [][\A m \in Minutes : counted'[m] # counted[m] => m = now]_vars

(* Every bucket of a chart shows exactly the minutes from its label to the *)
(* next one's.                                                             *)
BucketsCover(ends, windows) ==
  \A end \in ends, w \in windows :
    ValidWindow(w[1], w[2]) =>
      \A m \in StartMinute(end, w[1])..EndMinute(end) :
        LET i == Target(m - StartMinute(end, w[1]), w[1], w[2])
        IN BucketAt(end, w[1], w[2], i) <= m /\ m < BucketAt(end, w[1], w[2], i + 1)
=============================================================================
