----------------------------- MODULE PatternRun -----------------------------
(***************************************************************************)
(* One publish pattern: the hosts it covers, the ordered tasks of each     *)
(* host, the HTTP request that starts it (handler/publish_pattern.py), the *)
(* celery executions that carry it out (worker/run_task.py) and the        *)
(* callbacks that record their results and start the next task             *)
(* (tasks/base.py).                                                        *)
(*                                                                         *)
(* Every callback is a database transaction.  The engine is InnoDB at its  *)
(* default isolation level, so a plain SELECT reads the snapshot taken by  *)
(* the transaction's first SELECT, overlaid with the transaction's own     *)
(* writes, while SELECT ... FOR UPDATE waits for the row's lock and keeps  *)
(* it until the commit.  A transaction is therefore modelled by the step   *)
(* that takes its snapshot and the step that commits what it computed.     *)
(* Every transaction that writes a task also locks the pattern's row last  *)
(* (or, in the HTTP request, first), so one lock stands for the row locks. *)
(***************************************************************************)
EXTENDS Status, FiniteSets

CONSTANTS
  NHosts,      \* hosts of the pattern, in the order the query returns them
  NTasks,      \* tasks of each host, in the order of worker/pattern_task.py
  Exec,        \* celery executions that can exist at one time
  None,        \* no execution
  Web,         \* the web server, as a holder of the pattern's row lock
  LastStep,    \* the pattern has the plan's highest step
  PlanAtStart, \* the plan statuses under which a pattern may be started
  Budget       \* how many faults of each kind a behaviour may contain

Host == 1..NHosts
Task == 1..NTasks
FaultKind == {"crash", "abort", "finish"}

ASSUME HostsAssumption == NHosts \in Nat \ {0}
ASSUME TasksAssumption == NTasks \in Nat \ {0}
ASSUME NamesAssumption == None \notin Exec /\ Web \notin Exec /\ None # Web
ASSUME LastStepAssumption == LastStep \in BOOLEAN
ASSUME PlanAssumption == PlanAtStart \subseteq Nat
ASSUME BudgetAssumption == Budget \in [FaultKind -> Nat]

VARIABLES
  taskStatus,     \* publish_pattern_task.status, committed
  hostStatus,     \* publish_pattern_host.status, committed
  patternStatus,  \* publish_pattern.status, committed
  planStatus,     \* publish_plan.status, committed
  recorded,       \* executions whose publish_task row is committed
  phase,          \* where each execution is
  job,            \* what each execution runs, and what its chain runs next
  verdict,        \* whether its script ended with return code 0
  snap,           \* what the open transaction of an execution sees
  child,          \* the execution an uncommitted transaction has sent
  lock,           \* the holder of the pattern's row lock, or None
  action,         \* the HTTP request that is starting the pattern
  budget          \* faults that may still happen

db     == <<taskStatus, hostStatus, patternStatus, planStatus, recorded>>
worker == <<phase, job, verdict, snap, child>>
vars   == <<db, worker, lock, action, budget>>

Phases == {"idle", "queued", "returned", "inSuccess", "toDispatch",
           "inDispatch", "sent", "toFinish", "failed", "inFailure"}

Jobs == [host : Host, task : Task, rest : SUBSET Task, finish : BOOLEAN]
NoJob == [host |-> 1, task |-> 1, rest |-> {}, finish |-> FALSE]

Snaps == [row : BOOLEAN, task : [Host -> [Task -> Statuses]],
          host : [Host -> Statuses]]
NoSnap == [row |-> FALSE, task |-> [h \in Host |-> [t \in Task |-> Pending]],
           host |-> [h \in Host |-> Pending]]

Actions == [todo : SUBSET Host, started : SUBSET Host,
            children : SUBSET Exec]
NoAction == [todo |-> {}, started |-> {}, children |-> {}]

TypeOK ==
  /\ taskStatus \in [Host -> [Task -> Statuses]]
  /\ hostStatus \in [Host -> Statuses]
  /\ patternStatus \in Statuses
  /\ planStatus \in Nat
  /\ recorded \subseteq Exec
  /\ phase \in [Exec -> Phases]
  /\ job \in [Exec -> Jobs]
  /\ verdict \in [Exec -> BOOLEAN]
  /\ snap \in [Exec -> Snaps]
  /\ child \in [Exec -> Exec \cup {None}]
  /\ lock \in Exec \cup {None, Web}
  /\ action \in Actions
  /\ budget \in [FaultKind -> Nat]

Init ==
  /\ taskStatus = [h \in Host |-> [t \in Task |-> Pending]]
  /\ hostStatus = [h \in Host |-> Pending]
  /\ patternStatus = Pending
  /\ planStatus \in PlanAtStart
  /\ recorded = {}
  /\ phase = [e \in Exec |-> "idle"]
  /\ job = [e \in Exec |-> NoJob]
  /\ verdict = [e \in Exec |-> FALSE]
  /\ snap = [e \in Exec |-> NoSnap]
  /\ child = [e \in Exec |-> None]
  /\ lock = None
  /\ action = NoAction
  /\ budget = Budget

-----------------------------------------------------------------------------
(* Helpers *)

(* Slip: the chain built from its wrong end. *)
FirstIsLast(T) == CHOOSE t \in T : \A u \in T : u <= t

First(T) == CHOOSE t \in T : \A u \in T : t <= u

(* The tasks a request runs on a host: those pending or failed, up to the
   first one that is already running. *)
Ready(tasks) ==
  {t \in Task : /\ tasks[t] \in {Pending, Failed}
               /\ \A u \in 1..t : tasks[u] # Running}

(* A new execution takes an id that no open transaction refers to. *)
Fresh(n) ==
  /\ phase[n] = "idle"
  /\ n \notin action.children
  /\ \A e \in Exec : child[e] # n

Spend(kind) ==
  /\ budget[kind] > 0
  /\ budget' = [budget EXCEPT ![kind] = @ - 1]

Snapshot(e) == [row |-> e \in recorded, task |-> taskStatus, host |-> hostStatus]

(* Slip: the pattern takes the status of the host just written. *)
WriteOwnHostOnly(h, t, s, seen) ==
  LET host == CheckStatus(Values([seen.task[h] EXCEPT ![t] = s]))
  IN /\ taskStatus' = [taskStatus EXCEPT ![h] = [@ EXCEPT ![t] = s]]
     /\ hostStatus' = [hostStatus EXCEPT ![h] = host]
     /\ patternStatus' = host

(* Write status s to task t of host h, then recompute the host from its tasks
   and the pattern from its hosts, as the transaction sees them. *)
Write(h, t, s, seen) ==
  LET tasks == [seen.task[h] EXCEPT ![t] = s]
      host  == CheckStatus(Values(tasks))
  IN /\ taskStatus' = [taskStatus EXCEPT ![h] = [@ EXCEPT ![t] = s]]
     /\ hostStatus' = [hostStatus EXCEPT ![h] = host]
     /\ patternStatus' =
          CheckStatus(Values([seen.host EXCEPT ![h] = host]))

(* The transaction of e ends: its snapshot is dropped, and it is in phase p. *)
Leave(e, p) ==
  /\ phase' = [phase EXCEPT ![e] = p]
  /\ snap' = [snap EXCEPT ![e] = NoSnap]
  /\ child' = [child EXCEPT ![e] = None]

(* Execution e is over: its id may be given to a later one. *)
Retire(e) ==
  /\ Leave(e, "idle")
  /\ job' = [job EXCEPT ![e] = NoJob]
  /\ verdict' = [verdict EXCEPT ![e] = FALSE]

-----------------------------------------------------------------------------
(* The HTTP request: one transaction that locks the pattern, sends the first
   task of every host's chain to the broker, and then commits. *)

(* Slip: the request does not refuse a pattern that is running. *)
ActionBeginUnguarded ==
  LET todo == {h \in Host : Ready(taskStatus[h]) # {}}
  IN /\ lock = None
     /\ todo # {}
     /\ lock' = Web
     /\ action' = [NoAction EXCEPT !.todo = todo]
     /\ UNCHANGED <<db, worker, budget>>

ActionBegin ==
  LET todo == {h \in Host : Ready(taskStatus[h]) # {}}
  IN /\ lock = None
     /\ patternStatus # Running
     /\ todo # {}
     /\ lock' = Web
     /\ action' = [NoAction EXCEPT !.todo = todo]
     /\ UNCHANGED <<db, worker, budget>>

ActionDispatch(n) ==
  LET h == First(action.todo)
      tasks == Ready(taskStatus[h])
      t == First(tasks)
  IN /\ lock = Web
     /\ action.todo # {}
     /\ Fresh(n)
     /\ phase' = [phase EXCEPT ![n] = "queued"]
     /\ job' = [job EXCEPT ![n] =
          [host |-> h, task |-> t, rest |-> tasks \ {t},
           finish |-> LastStep /\ action.todo = {h}]]
     /\ action' = [todo |-> action.todo \ {h},
                   started |-> action.started \cup {h},
                   children |-> action.children \cup {n}]
     /\ UNCHANGED <<db, verdict, snap, child, lock, budget>>

ActionCommit ==
  LET tasks == [h \in Host |->
        IF h \in action.started
        THEN [taskStatus[h] EXCEPT ![First(Ready(taskStatus[h]))] = Running]
        ELSE taskStatus[h]]
      hosts == [h \in Host |->
        IF h \in action.started THEN CheckStatus(Values(tasks[h]))
        ELSE hostStatus[h]]
  IN /\ lock = Web
     /\ action.todo = {}
     /\ taskStatus' = tasks
     /\ hostStatus' = hosts
     /\ patternStatus' = CheckStatus(Values(hosts))
     /\ recorded' = recorded \cup {n \in action.children : phase[n] # "idle"}
     /\ lock' = None
     /\ action' = NoAction
     /\ UNCHANGED <<planStatus, worker, budget>>

(* An exception while the request prepares a host rolls everything back;
   the messages already sent stay in the broker. *)
ActionAbort ==
  /\ lock = Web
  /\ IF action.children = {} THEN UNCHANGED budget ELSE Spend("abort")
  /\ lock' = None
  /\ action' = NoAction
  /\ UNCHANGED <<db, worker>>

-----------------------------------------------------------------------------
(* A celery execution. *)

(* The worker runs the script and the result reaches on_success; ok says
   whether the return code is 0. *)
Execute(e, ok) ==
  /\ phase[e] = "queued"
  /\ phase' = [phase EXCEPT ![e] = "returned"]
  /\ verdict' = [verdict EXCEPT ![e] = ok]
  /\ UNCHANGED <<db, job, snap, child, lock, action, budget>>

(* The task itself raises (time limit, dubbo-admin error): on_failure. *)
ExecuteRaises(e) ==
  /\ phase[e] = "queued"
  /\ phase' = [phase EXCEPT ![e] = "failed"]
  /\ UNCHANGED <<db, job, verdict, snap, child, lock, action, budget>>

(* do_success reads the publish_task row: the transaction's snapshot. *)
SuccessBegin(e) ==
  /\ phase[e] = "returned"
  /\ phase' = [phase EXCEPT ![e] = "inSuccess"]
  /\ snap' = [snap EXCEPT ![e] = Snapshot(e)]
  /\ UNCHANGED <<db, job, verdict, child, lock, action, budget>>

(* Slip: the plan is finished by the first task that succeeds. *)
SuccessCommitFinishesFirst(e) ==
  /\ phase[e] = "inSuccess"
  /\ snap[e].row
  /\ lock = None
  /\ Write(job[e].host, job[e].task, IF verdict[e] THEN Done ELSE Failed, snap[e])
  /\ \/ /\ verdict[e] /\ job[e].finish
        /\ Leave(e, "toFinish")
        /\ UNCHANGED <<job, verdict, recorded>>
     \/ /\ verdict[e] => ~job[e].finish
        /\ Retire(e)
        /\ recorded' = recorded \ {e}
  /\ UNCHANGED <<planStatus, lock, action, budget>>

SuccessCommit(e) ==
  /\ phase[e] = "inSuccess"
  /\ snap[e].row
  /\ lock = None
  /\ Write(job[e].host, job[e].task, IF verdict[e] THEN Done ELSE Failed, snap[e])
  /\ \/ /\ verdict[e] /\ job[e].rest # {}
        /\ Leave(e, "toDispatch")
        /\ UNCHANGED <<job, verdict, recorded>>
     \/ /\ verdict[e] /\ job[e].rest = {} /\ job[e].finish
        /\ Leave(e, "toFinish")
        /\ UNCHANGED <<job, verdict, recorded>>
     \/ /\ verdict[e] => job[e].rest = {} /\ ~job[e].finish
        /\ Retire(e)
        /\ recorded' = recorded \ {e}
  /\ UNCHANGED <<planStatus, lock, action, budget>>

(* do_success finds no publish_task row and raises TaskError: on_success calls
   on_failure. *)
SuccessMissing(e) ==
  /\ phase[e] = "inSuccess"
  /\ ~snap[e].row
  /\ Leave(e, "failed")
  /\ UNCHANGED <<db, job, verdict, lock, action, budget>>

(* do_success raises for another reason: the ansible result is empty or names
   several hosts, the database fails. *)
SuccessRaises(e) ==
  /\ phase[e] = "inSuccess"
  /\ snap[e].row
  /\ Leave(e, "failed")
  /\ UNCHANGED <<db, job, verdict, lock, action, budget>>

(* The transaction that starts the next task of the chain. *)
DispatchBegin(e) ==
  /\ phase[e] = "toDispatch"
  /\ phase' = [phase EXCEPT ![e] = "inDispatch"]
  /\ snap' = [snap EXCEPT ![e] = Snapshot(e)]
  /\ UNCHANGED <<db, job, verdict, child, lock, action, budget>>

(* It takes the row locks and sends the message, not yet committed. *)
DispatchSend(e, n) ==
  LET t == First(job[e].rest)
  IN /\ phase[e] = "inDispatch"
     /\ lock = None
     /\ Fresh(n)
     /\ lock' = e
     /\ phase' = [phase EXCEPT ![e] = "sent", ![n] = "queued"]
     /\ job' = [job EXCEPT ![n] =
          [job[e] EXCEPT !.task = t, !.rest = job[e].rest \ {t}]]
     /\ child' = [child EXCEPT ![e] = n]
     /\ UNCHANGED <<db, verdict, snap, action, budget>>

(* Slip: the transaction is left open. *)
DispatchCommitKeepsLock(e) ==
  /\ phase[e] = "sent"
  /\ Write(job[e].host, First(job[e].rest), Running, snap[e])
  /\ recorded' = (recorded \ {e}) \cup {n \in {child[e]} : phase[n] # "idle"}
  /\ Retire(e)
  /\ UNCHANGED <<planStatus, lock, action, budget>>

DispatchCommit(e) ==
  /\ phase[e] = "sent"
  /\ Write(job[e].host, First(job[e].rest), Running, snap[e])
  /\ recorded' = (recorded \ {e}) \cup {n \in {child[e]} : phase[n] # "idle"}
  /\ Retire(e)
  /\ lock' = None
  /\ UNCHANGED <<planStatus, action, budget>>

(* The dispatch raises, before or after the message is sent: on_success calls
   on_failure for the task that had succeeded. *)
DispatchRaises(e) ==
  /\ phase[e] \in {"inDispatch", "sent"}
  /\ IF phase[e] = "sent"
     THEN lock' = None /\ Spend("abort")
     ELSE UNCHANGED <<lock, budget>>
  /\ Leave(e, "failed")
  /\ UNCHANGED <<db, job, verdict, action>>

(* upgrade_plan_finish, in the transaction after the last task. *)
FinishPlan(e) ==
  /\ phase[e] = "toFinish"
  /\ planStatus' = IF planStatus < 10 THEN 4
                   ELSE IF planStatus > 20 /\ planStatus < 30 THEN 22
                   ELSE planStatus
  /\ Retire(e)
  /\ recorded' = recorded \ {e}
  /\ UNCHANGED <<taskStatus, hostStatus, patternStatus, lock, action, budget>>

FinishRaises(e) ==
  /\ phase[e] = "toFinish"
  /\ Spend("finish")
  /\ Leave(e, "failed")
  /\ UNCHANGED <<db, job, verdict, lock, action>>

FailureBegin(e) ==
  /\ phase[e] = "failed"
  /\ phase' = [phase EXCEPT ![e] = "inFailure"]
  /\ snap' = [snap EXCEPT ![e] = Snapshot(e)]
  /\ UNCHANGED <<db, job, verdict, child, lock, action, budget>>

(* on_failure: without a publish_task row it only logs. *)
FailureCommit(e) ==
  /\ phase[e] = "inFailure"
  /\ IF snap[e].row
     THEN lock = None /\ Write(job[e].host, job[e].task, Failed, snap[e])
     ELSE UNCHANGED <<taskStatus, hostStatus, patternStatus>>
  /\ recorded' = recorded \ {e}
  /\ Retire(e)
  /\ UNCHANGED <<planStatus, lock, action, budget>>

(* The worker dies, or on_failure itself raises: celery acknowledges early, so
   the execution is gone; an open transaction is rolled back. *)
Crash(e) ==
  /\ phase[e] # "idle"
  /\ Spend("crash")
  /\ recorded' = recorded \ {e}
  /\ Retire(e)
  /\ lock' = IF lock = e THEN None ELSE lock
  /\ UNCHANGED <<taskStatus, hostStatus, patternStatus, planStatus, action>>

-----------------------------------------------------------------------------
Web_Step ==
  \/ \E n \in Exec : ActionDispatch(n)
  \/ ActionCommit

Worker_Step(e) ==
  \/ \E ok \in BOOLEAN : Execute(e, ok)
  \/ SuccessBegin(e) \/ SuccessCommit(e) \/ SuccessMissing(e)
  \/ DispatchBegin(e) \/ (\E n \in Exec : DispatchSend(e, n))
  \/ DispatchCommit(e)
  \/ FinishPlan(e)
  \/ FailureBegin(e) \/ FailureCommit(e)

Fault_Step(e) ==
  \/ ExecuteRaises(e) \/ SuccessRaises(e) \/ DispatchRaises(e)
  \/ FinishRaises(e) \/ Crash(e)

Next ==
  \/ ActionBegin \/ Web_Step \/ ActionAbort
  \/ \E e \in Exec : Worker_Step(e) \/ Fault_Step(e)

Spec == Init /\ [][Next]_vars

(* The workers and the open request keep going; nobody has to press the
   button that starts the pattern, and no fault has to happen. *)
Fairness ==
  /\ WF_vars(Web_Step)
  /\ \A e \in Exec : WF_vars(Worker_Step(e))

FairSpec == Spec /\ Fairness

-----------------------------------------------------------------------------
(* Properties *)

Busy(e) == e \in recorded /\ phase[e] \notin {"idle", "toFinish"}

(* A pattern is shown as done only when every host is done and every task of
   every host has really succeeded, although upgrade_pattern_status derives
   the status from hosts it read before taking the lock. *)
DoneIsDone ==
  patternStatus = Done =>
    \A h \in Host : /\ hostStatus[h] = Done
                    /\ \A t \in Task : taskStatus[h][t] = Done

(* The refusal "the step is being executed" (status 1) is a sufficient guard:
   while an execution the database knows of is under way, the committed status
   of its host and of the pattern is running, whatever order the hosts'
   callbacks commit in. *)
BusyShowsRunning ==
  \A e \in Exec : Busy(e) => /\ patternStatus = Running
                             /\ hostStatus[job[e].host] = Running

(* A host never has two scripts sent to it at once: a repeated request skips
   hosts that are still executing.  A request that is rolled back after it has
   sent messages (budget "abort") leaves executions behind that nobody knows
   of, so the promise is for behaviours without one. *)
OneScriptPerHost ==
  budget["abort"] = Budget["abort"] => \A e, f \in Exec :
    /\ phase[e] = "queued" /\ phase[f] = "queued"
    /\ job[e].host = job[f].host
    => e = f

(* Each host works through its tasks in order (HostChain). *)
Chain == INSTANCE HostChain
TasksInOrder == Chain!Spec

(* A chain that was stopped short is never hidden by the others: as long as a
   host stands between two tasks or on one that is shown as running, whether
   an execution is left to go on with it or its result was thrown away, its
   message lost or its worker killed, the pattern shows as running too, which
   is what tells the operator to look and refuses a second start. *)
StoppedIsShown ==
  \A h \in Host :
    \/ \E t \in Task : taskStatus[h][t] = Running
    \/ \E t, u \in Task : taskStatus[h][t] = Done /\ taskStatus[h][u] = Pending
                          /\ \A v \in Task : taskStatus[h][v] # Failed
    => patternStatus = Running

(* The chain of the last host publishes the plan without waiting for the
   others, yet never before every host of the pattern has been begun, and
   never without having done its own. *)
PublishedIsBegun ==
  planStatus = 4 => /\ \A h \in Host : taskStatus[h][1] # Pending
                    /\ \E h \in Host : hostStatus[h] = Done

(* Whatever was started comes to rest, and the pattern's row is unlocked. *)
ComesToRest == []<>(lock = None /\ \A e \in Exec : phase[e] = "idle")

-----------------------------------------------------------------------------
(* What the repository's comments say of the code and the code does not do:
   TLC refutes each of these. *)

(* "Done: all of them 2": when nothing is under way and every host is done,
   the pattern is done. *)
AllDoneIsDone ==
  /\ lock = None
  /\ \A e \in Exec : phase[e] = "idle"
  /\ \A h \in Host : hostStatus[h] = Done
  => patternStatus = Done

(* "1: executing": a task shown as running has an execution. *)
RunningIsExecuting ==
  \A h \in Host, t \in Task :
    taskStatus[h][t] = Running =>
      \E e \in Exec : phase[e] # "idle" /\ job[e].host = h /\ job[e].task = t

(* "4: published successfully": the plan is published only when every host of
   its last pattern is done.  The chain of the last host publishes alone. *)
PublishedIsDone ==
  LastStep /\ planStatus = 4 => \A h \in Host : hostStatus[h] = Done

=============================================================================
