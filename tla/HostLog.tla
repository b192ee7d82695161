------------------------------- MODULE HostLog -------------------------------
(***************************************************************************)
(* The log of a host (HostLogWebSocket, handler/host_log.py): first the    *)
(* rows of the host page by page, then the rows that have been updated     *)
(* since the last such answer.  The database stamps a row with the second  *)
(* of its update; the feed remembers the time of its answer by its own     *)
(* finer clock, which it reads after the query.                            *)
(***************************************************************************)
EXTENDS Integers, FiniteSets

CONSTANTS
  Limit,      \* rows of a page
  MaxRows,    \* bound on the rows
  MaxTime,    \* bound on the clock
  Second,     \* ticks of the clock in a second
  Apart       \* rows change in seconds that begin after the last answer

ASSUME NumbersAssumption ==
  /\ Limit \in Nat \ {0} /\ MaxRows \in Nat
  /\ MaxTime \in Nat /\ Second \in Nat \ {0}
ASSUME ApartAssumption == Apart \in BOOLEAN

Row == 1..MaxRows
Time == 0..MaxTime

VARIABLES
  now,        \* the clock
  count,      \* rows of the host
  finished,   \* the rows whose task has ended
  stamp,      \* publish_task.update_time, by row
  offset,     \* self.offset
  lastTime,   \* self.last_time
  answer,     \* the answer the open callback is about to send
  shown       \* the rows the client has been sent, as it was sent them

vars == <<now, count, finished, stamp, offset, lastTime, answer, shown>>

Versions == {"unknown", "started", "ended"}
Content == [Row -> Versions]
NoAnswer == [kind |-> "none", rows |-> {}, content |-> [i \in Row |-> "unknown"]]

TypeOK ==
  /\ now \in Time
  /\ count \in 0..MaxRows
  /\ finished \subseteq 1..count
  /\ stamp \in [Row -> Time]
  /\ offset \in 0..count
  /\ lastTime \in Time
  /\ answer \in [kind : {"none", "page", "updates"}, rows : SUBSET Row, content : Content]
  /\ shown \in Content

Init ==
  /\ now \in 0..(Second - 1)
  /\ count = 0
  /\ finished = {}
  /\ stamp = [i \in Row |-> 0]
  /\ offset = 0
  /\ lastTime = now
  /\ answer = NoAnswer
  /\ shown = [i \in Row |-> "unknown"]

ThisSecond == now - (now % Second)

Tick ==
  /\ now < MaxTime
  /\ now' = now + 1
  /\ UNCHANGED <<count, finished, stamp, offset, lastTime, answer, shown>>

(* A task is sent to the host: add_publish_task. *)
Begin ==
  /\ count < MaxRows
  /\ count' = count + 1
  /\ stamp' = [stamp EXCEPT ![count'] = ThisSecond]
  /\ UNCHANGED <<now, finished, offset, lastTime, answer, shown>>

(* Its callback records the result. *)
Finish(i) ==
  /\ i \in 1..count /\ i \notin finished
  /\ Apart => ThisSecond > lastTime /\ answer = NoAnswer
  /\ finished' = finished \cup {i}
  /\ stamp' = [stamp EXCEPT ![i] = ThisSecond]
  /\ UNCHANGED <<now, count, offset, lastTime, answer, shown>>

Page == {i \in 1..count : offset < i /\ i <= offset + Limit}
Updated == {i \in 1..count : stamp[i] > lastTime}
Read == [i \in Row |-> IF i \in finished THEN "ended" ELSE "started"]

(* Slip: rows that are not before the last answer count as updated. *)
LookAgain ==
  /\ answer = NoAnswer
  /\ \/ Page # {} /\ answer' = [kind |-> "page", rows |-> Page, content |-> Read]
     \/ /\ Page = {}
        /\ answer' = [kind |-> "updates", rows |-> 1..count, content |-> Read]
  /\ UNCHANGED <<now, count, finished, stamp, offset, lastTime, shown>>

(* The callback reads the next page or, when there is none, the updates. *)
Look ==
  /\ answer = NoAnswer
  /\ \/ Page # {} /\ answer' = [kind |-> "page", rows |-> Page, content |-> Read]
     \/ /\ Page = {} /\ Updated # {}
        /\ answer' = [kind |-> "updates", rows |-> Updated, content |-> Read]
  /\ UNCHANGED <<now, count, finished, stamp, offset, lastTime, shown>>

Show == shown' = [i \in Row |-> IF i \in answer.rows THEN answer.content[i] ELSE shown[i]]

(* Slip: every answer counts as one with updates. *)
SendStampsAlways ==
  /\ answer # NoAnswer
  /\ Show
  /\ offset' = IF answer.kind = "page" THEN offset + Cardinality(answer.rows) ELSE offset
  /\ lastTime' = now
  /\ answer' = NoAnswer
  /\ UNCHANGED <<now, count, finished, stamp>>

(* It sends them; only an answer with updates moves the last time. *)
Send ==
  /\ answer # NoAnswer
  /\ Show
  /\ offset' = IF answer.kind = "page" THEN offset + Cardinality(answer.rows) ELSE offset
  /\ lastTime' = IF answer.kind = "updates" THEN now ELSE lastTime
  /\ answer' = NoAnswer
  /\ UNCHANGED <<now, count, finished, stamp>>

Next == Tick \/ Begin \/ (\E i \in Row : Finish(i)) \/ Look \/ Send

Spec == Init /\ [][Next]_vars

(* The callback is called every half second, and ends. *)
FairSpec == Spec /\ WF_vars(Look) /\ WF_vars(Send)

-----------------------------------------------------------------------------
(* Properties *)

(* The client is shown every row in its last state, whether it ended before
   its page was read, between the pages or after them. *)
LogIsComplete ==
  \A i \in Row :
    /\ i <= count ~> shown[i] # "unknown"
    /\ i \in finished ~> shown[i] = "ended"

(* The updates come to an end: a row is not sent again and again. *)
FallsSilent == (now = MaxTime) ~> [](answer = NoAnswer)

=============================================================================
