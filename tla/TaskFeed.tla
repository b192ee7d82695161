------------------------------ MODULE TaskFeed ------------------------------
(***************************************************************************)
(* The feed of a pattern host (PatternHostTaskWebSocket, handler/          *)
(* pattern_host.py).  The workers add a publish_task row for every run of  *)
(* a task and finish it later; every half second the server looks at the   *)
(* next rows of the host the client follows, sends those that have         *)
(* finished, and remembers how many it has sent.  With them, or when the   *)
(* statuses of the host's tasks have changed, it sends the statuses.       *)
(***************************************************************************)
EXTENDS Status, FiniteSets

CONSTANTS
  Host,      \* pattern hosts
  None,      \* no host
  NTasks,    \* tasks of a host
  Limit,     \* rows looked at at a time
  MaxRows,   \* bound on the rows of a host
  OneHost,   \* a connection follows one host
  InOrder    \* a host's row is added when the rows before it have finished

Task == 1..NTasks

ASSUME NoneAssumption == None \notin Host
ASSUME NumbersAssumption == NTasks \in Nat \ {0} /\ Limit \in Nat \ {0} /\ MaxRows \in Nat
ASSUME FlagsAssumption == OneHost \in BOOLEAN /\ InOrder \in BOOLEAN

Row == 1..MaxRows

VARIABLES
  count,      \* rows of each host
  row,        \* each row's task and status
  task,       \* the statuses of each host's tasks
  following,  \* self.message: the host asked for, or None
  offset,     \* self.offset
  known,      \* self.pattern_task_status, or None
  sent,       \* how often each row has been sent
  view        \* the statuses the client has last been sent for each host

vars == <<count, row, task, following, offset, known, sent, view>>

Rows(h) == 1..count[h]
Finished(h, i) == row[h][i].status \in {Done, Failed}

TypeOK ==
  /\ count \in [Host -> 0..MaxRows]
  /\ row \in [Host -> [Row -> [task : Nat, status : Statuses]]]
  /\ task \in [Host -> [Task -> Statuses]]
  /\ following \in Host \cup {None}
  /\ offset \in 0..MaxRows
  /\ known \in [Task -> Statuses] \cup {None}
  /\ sent \in [Host -> [Row -> Nat]]
  /\ view \in [Host -> [Task -> Statuses] \cup {None}]

NoRow == [task |-> 0, status |-> Pending]

Init ==
  /\ count = [h \in Host |-> 0]
  /\ row = [h \in Host |-> [i \in Row |-> NoRow]]
  /\ task = [h \in Host |-> [t \in Task |-> Pending]]
  /\ following = None
  /\ offset = 0
  /\ known = None
  /\ sent = [h \in Host |-> [i \in Row |-> 0]]
  /\ view = [h \in Host |-> None]

-----------------------------------------------------------------------------
(* Workers *)

(* A task is run, for the first time or again. *)
Begin(h, t) ==
  /\ count[h] < MaxRows
  /\ task[h][t] # Running
  /\ InOrder => \A i \in Rows(h) : Finished(h, i)
  /\ count' = [count EXCEPT ![h] = @ + 1]
  /\ row' = [row EXCEPT ![h][count[h] + 1] = [task |-> t, status |-> Running]]
  /\ task' = [task EXCEPT ![h][t] = Running]
  /\ UNCHANGED <<following, offset, known, sent, view>>

Finish(h, i, status) ==
  /\ i \in Rows(h)
  /\ row[h][i].status = Running
  /\ row' = [row EXCEPT ![h][i].status = status]
  /\ task' = [task EXCEPT ![h] = [u \in Task |-> IF u = row[h][i].task THEN status ELSE @[u]]]
  /\ UNCHANGED <<count, following, offset, known, sent, view>>

(* BaseTask.on_failure, called by on_success when the next task cannot be
   sent: the committed success is rewritten.  That task has no row yet. *)
Withdraw(h, i) ==
  /\ i \in Rows(h)
  /\ InOrder => i = count[h]
  /\ row[h][i].status = Done
  /\ row' = [row EXCEPT ![h][i].status = Failed]
  /\ task' = [task EXCEPT ![h] = [u \in Task |-> IF u = row[h][i].task THEN Failed ELSE @[u]]]
  /\ UNCHANGED <<count, following, offset, known, sent, view>>

-----------------------------------------------------------------------------
(* The connection *)

(* One look: the rows of the page that have finished, and the statuses.  The
   query names no order; here it answers in that of the primary key. *)
Page(h) == {i \in Rows(h) : offset < i /\ i <= offset + Limit}
Ready(h) == {i \in Page(h) : Finished(h, i)}

Answer(h) ==
  /\ sent' = [sent EXCEPT ![h] =
       [i \in Row |-> IF i \in Ready(h) THEN @[i] + 1 ELSE @[i]]]
  /\ IF Ready(h) # {} \/ task[h] # known
     THEN known' = task[h] /\ view' = [view EXCEPT ![h] = task[h]]
     ELSE UNCHANGED <<known, view>>

(* Slips: the offset moves on by the whole page, or not. *)
LookCountsPage(h) == offset' = offset + Cardinality(Page(h)) /\ Answer(h)
LookForgets(h) == offset' = offset /\ Answer(h)

Look(h) == offset' = offset + Cardinality(Ready(h)) /\ Answer(h)

(* A message names the host to follow, and is answered with a look at once. *)
Follow(h) ==
  /\ OneHost => following = None
  /\ following # h
  /\ following' = h
  /\ Look(h)
  /\ UNCHANGED <<count, row, task>>

Callback ==
  /\ following # None
  /\ Look(following)
  /\ UNCHANGED <<count, row, task, following>>

Next ==
  \/ \E h \in Host, t \in Task : Begin(h, t)
  \/ \E h \in Host, i \in Row, s \in {Done, Failed} : Finish(h, i, s)
  \/ \E h \in Host, i \in Row : Withdraw(h, i)
  \/ \E h \in Host : Follow(h)
  \/ Callback

Spec == Init /\ [][Next]_vars

(* The callback is called periodically. *)
FairSpec == Spec /\ WF_vars(Callback)

-----------------------------------------------------------------------------
(* Properties *)

(* No result is shown twice, however the looks fall between the workers'
   commits: the offset counts exactly the rows sent. *)
SentOnce == \A h \in Host, i \in Row : sent[h][i] <= 1

(* What lies before the offset has been sent: no result is passed over. *)
NothingSkipped ==
  following # None =>
    \A i \in Rows(following) : i <= offset => sent[following][i] > 0

(* When a client stays with a host and the workers are done, it has every
   result of that host and the statuses of its tasks. *)
FeedIsComplete ==
  \A h \in Host :
    <>[](following = h) =>
      /\ \A i \in Row : <>[](i \in Rows(h) /\ Finished(h, i)) => <>(sent[h][i] > 0)
      /\ []<>(view[h] = task[h])

-----------------------------------------------------------------------------
(* What the code does not do: TLC refutes it. *)

(* A result that has been sent stands: no success is withdrawn after it. *)
SentIsFinal ==
  [][\A h \in Host, i \in Row : sent[h][i] > 0 => row'[h][i] = row[h][i]]_vars

=============================================================================
