--------------------------- MODULE PatternRunInv ----------------------------
(***************************************************************************)
(* The inductive invariant behind DoneIsDone, BusyShowsRunning and         *)
(* TasksInOrder, for a pattern whose upgrade_plan_finish never raises      *)
(* (Budget["finish"] = 0).  Its idea: an execution with a committed        *)
(* publish_task row owns its host.  Nobody else writes that host, so what  *)
(* its open transaction saw of its own tasks is still true, and what it    *)
(* saw of the other hosts is out of date in one direction only: a host it  *)
(* saw done is still done, and a host that is still running it saw running.*)
(***************************************************************************)
EXTENDS PatternRun

(* The phases an execution can be in before its first callback commits. *)
Early == {"queued", "returned", "inSuccess", "failed", "inFailure"}

(* The tasks of a host up to t are done and those after t untouched. *)
Frontier(s, t) ==
  \A u \in Task : (u < t => s[u] = Done) /\ (u > t => s[u] = Pending)

Later(t) == {u \in Task : u > t}

(* The database: hosts advance in order, each host's status is exactly the
   one its tasks imply, a done pattern has only done hosts and a running host
   shows in the pattern. *)
Shaped == \A h \in Host : \E t \in Task : Frontier(taskStatus[h], t)
Derived == \A h \in Host : hostStatus[h] = CheckStatus(Values(taskStatus[h]))
PatternDone ==
  patternStatus = Done => \A h \in Host : hostStatus[h] = Done
PatternRunning ==
  \A h \in Host : hostStatus[h] = Running => patternStatus = Running

(* An execution with a row stands at the frontier of its host; before its
   result is committed its task is running, and the rest of its chain is
   exactly what the host still has to do. *)
AtFrontier(e) ==
  LET j == job[e]
  IN /\ Frontier(taskStatus[j.host], j.task)
     /\ j.rest = Later(j.task)
     /\ \/ taskStatus[j.host][j.task] = Running /\ phase[e] \in Early
        \/ /\ taskStatus[j.host][j.task] = Done
           /\ j.rest # {}
           /\ phase[e] \in {"toDispatch", "inDispatch", "sent", "failed", "inFailure"}

Owners ==
  /\ \A e \in Exec : Busy(e) => AtFrontier(e)
  /\ \A e, f \in Exec : Busy(e) /\ Busy(f) /\ job[e].host = job[f].host => e = f

(* Executions without a row have only just begun, and see no row. *)
Rows ==
  /\ \A e \in recorded : phase[e] # "idle"
  /\ \A e \in Exec \ recorded : phase[e] \in Early \cup {"idle"} /\ ~snap[e].row
  /\ \A e \in recorded : phase[e] \in {"inDispatch", "sent"} => snap[e].row

(* What a transaction that has seen its row knows. *)
Seen(e) ==
  LET h == job[e].host
  IN /\ Busy(e)
     /\ phase[e] \in {"inSuccess", "inDispatch", "sent", "inFailure"}
     /\ snap[e].task[h] = taskStatus[h]
     /\ \A g \in Host \ {h} :
          /\ snap[e].host[g] = Done => hostStatus[g] = Done
          /\ hostStatus[g] = Running => snap[e].host[g] = Running
Snapshots == \A e \in Exec : snap[e].row => Seen(e)

(* A message sent by a transaction that has not committed. *)
Sent(n, h, t) ==
  /\ n \notin recorded
  /\ phase[n] # "idle" =>
       job[n].host = h /\ job[n].task = t /\ job[n].rest = Later(t)

Dispatching ==
  \A e \in Exec :
    /\ phase[e] = "sent" <=> lock = e
    /\ phase[e] = "sent" => child[e] # e /\ child[e] \in Exec
    /\ phase[e] = "sent" => Sent(child[e], job[e].host, job[e].task + 1)
    /\ phase[e] # "sent" => child[e] = None

(* The open HTTP request: nothing is running, and it holds the lock. *)
Starting ==
  /\ lock # Web => action = NoAction
  /\ lock = Web =>
       /\ \A h \in Host : hostStatus[h] # Running
       /\ \A e \in Exec : ~Busy(e)
       /\ \A h \in action.todo \cup action.started : Ready(taskStatus[h]) # {}
       /\ action.todo \cap action.started = {}
       /\ \A n \in action.children :
            \E h \in action.started : Sent(n, h, First(Ready(taskStatus[h])))
       /\ \A m, n \in action.children :
            /\ phase[m] # "idle" /\ phase[n] # "idle"
            /\ job[m].host = job[n].host
            => m = n

NoWithdrawal == budget["finish"] = 0

IInv ==
  /\ TypeOK /\ NoWithdrawal
  /\ Shaped /\ Derived /\ PatternDone /\ PatternRunning
  /\ Owners /\ Rows /\ Snapshots /\ Dispatching /\ Starting

(* An execution that has not begun and that no open transaction has sent: the
   worker died that would have committed its row. *)
InFlight(n) ==
  \/ lock = Web /\ n \in action.children
  \/ \E e \in Exec : phase[e] = "sent" /\ child[e] = n
Stray(n) == phase[n] = "queued" /\ n \notin recorded /\ ~InFlight(n)

(* Behind OneScriptPerHost: such an execution has its host to itself.  The
   host still shows as running, so that nobody will start it again. *)
StraysAlone ==
  budget["abort"] = Budget["abort"] =>
    /\ \A n \in Exec : Stray(n) =>
         /\ hostStatus[job[n].host] = Running
         /\ \A e \in Exec : Busy(e) => job[e].host # job[n].host
    /\ \A m, n \in Exec :
         Stray(m) /\ Stray(n) /\ job[m].host = job[n].host => m = n

(* Behind PublishedIsBegun: an execution that is about to finish the plan has
   done its host, and so has the one that finished it; and the first start
   begins all hosts at once, so that a done host has only begun ones beside. *)
FinishedHosts ==
  /\ \A e \in Exec : phase[e] = "toFinish" => hostStatus[job[e].host] = Done
  /\ planStatus = 4 => \E h \in Host : hostStatus[h] = Done
Begun == \A h \in Host : taskStatus[h][1] # Pending
Untouched == \A h \in Host, t \in Task : taskStatus[h][t] = Pending
BegunTogether ==
  \/ Begun
  \/ Untouched /\ (lock = Web => action.todo \cup action.started = Host)

ScriptInv == IInv /\ budget["abort"] <= Budget["abort"] /\ StraysAlone

=============================================================================
