------------------------ MODULE PatternEdits_proofs -------------------------
(***************************************************************************)
(* Proof that a pattern shown as done is done, also when an operator edits  *)
(* the pattern and runs tasks by hand, provided that he waits until        *)
(* nothing of the pattern is under way (Alone), that nobody sets the       *)
(* pattern itself to done, and that upgrade_plan_finish never raises.      *)
(*                                                                         *)
(* An edit leaves a host with its tasks in any order, so nothing is left   *)
(* of the frontier of PatternRunInv.  What stays: an execution with a row  *)
(* has its host to itself, and that host is not done as long as it is at   *)
(* work; a request finds no row and no open transaction.                   *)
(***************************************************************************)
EXTENDS PatternEdits, PatternRun_proofs

USE DEF Host, Task, Statuses, Pending, Running, Done, Failed

-----------------------------------------------------------------------------
(* The inductive invariant. *)

(* The tasks an execution has still to start are not done, and its own is
   running until its result is committed. *)
AtWork(e) ==
  LET j == job[e]
  IN /\ j.task \notin j.rest
     /\ \A u \in j.rest : taskStatus[j.host][u] # Done
     /\ \/ taskStatus[j.host][j.task] = Running /\ phase[e] \in Early
        \/ /\ j.rest # {}
           /\ phase[e] \in {"toDispatch", "inDispatch", "sent", "failed", "inFailure"}

Working ==
  /\ \A e \in Exec : Busy(e) => AtWork(e)
  /\ \A e, f \in Exec : Busy(e) /\ Busy(f) /\ job[e].host = job[f].host => e = f

(* A transaction that has seen its row knows its own host, and which of the
   others were done: they still are. *)
Saw(h, seen) ==
  /\ seen.task[h] = taskStatus[h]
  /\ \A g \in Host \ {h} : seen.host[g] = Done => hostStatus[g] = Done
Knows(e) ==
  /\ Busy(e) /\ Saw(job[e].host, snap[e])
  /\ phase[e] \in {"inSuccess", "inDispatch", "sent", "inFailure"}
Known == \A e \in Exec : snap[e].row => Knows(e)

(* A message sent by a transaction that has not committed. *)
Carries(n, h, t, rest) ==
  /\ n \notin recorded
  /\ phase[n] # "idle" => job[n].host = h /\ job[n].task = t /\ job[n].rest = rest

Passing ==
  \A e \in Exec :
    /\ phase[e] = "sent" <=> lock = e
    /\ phase[e] = "sent" =>
         LET t == First(job[e].rest)
         IN /\ child[e] \in Exec /\ child[e] # e
            /\ Carries(child[e], job[e].host, t, job[e].rest \ {t})
    /\ phase[e] # "sent" => child[e] = None

Executing ==
  /\ TypeOK /\ NoWithdrawal
  /\ Derived /\ PatternDone
  /\ Working /\ Rows /\ Known /\ Passing

(* An open request: nothing else has a row, and it knows what it has sent. *)
Opening ==
  /\ lock # Web => action = NoAction
  /\ lock = Web => recorded = {}
  /\ \A h \in action.todo \cup action.started : Ready(taskStatus[h]) # {}
  /\ action.todo \cap action.started = {}
  /\ \A n \in action.children : \E h \in action.started :
       LET t == First(Ready(taskStatus[h]))
       IN Carries(n, h, t, Ready(taskStatus[h]) \ {t})
  /\ \A m, n \in action.children :
       /\ phase[m] # "idle" /\ phase[n] # "idle"
       /\ job[m].host = job[n].host
       => m = n

(* The operator's request has begun with nothing under way, and at most its
   own message has been taken up since. *)
HandAlone ==
  hand # NoHand =>
    /\ hand.at # "idle" /\ action = NoAction /\ recorded = {}
    /\ hand.snap.task = taskStatus /\ hand.snap.host = hostStatus
    /\ hand.at \in {"running", "editing"} =>
         lock = None /\ \A e \in Exec : phase[e] = "idle"
    /\ hand.at = "sent" =>
         /\ lock = Web /\ hand.child \in Exec
         /\ \A e \in Exec \ {hand.child} : phase[e] = "idle"
         /\ Carries(hand.child, hand.host, hand.task, {})

EditsInv == Executing /\ Opening /\ hand \in Hands /\ HandAlone

-----------------------------------------------------------------------------
(* Facts about the invariant. *)

(* The tasks still to be started include the next one. *)
LEMMA FirstOfRest ==
  ASSUME NEW T \in SUBSET Task, T # {}
  PROVE  First(T) \in T
<1>1. T \subseteq Nat
  BY TasksAssumption
<1> QED
  BY <1>1, FirstIsLeast

(* Only the holder of the lock is about to commit a message it has sent. *)
LEMMA Holder ==
  ASSUME Executing, NEW e \in Exec
  PROVE  /\ phase[e] = "sent" <=> lock = e
         /\ phase[e] # "sent" => child[e] = None
         /\ phase[e] = "sent" => child[e] \in Exec /\ child[e] # e
  BY DEF Executing, Passing

(* A host on which an execution is at work is not done. *)
LEMMA BusyNotDone ==
  ASSUME Executing, NEW e \in Exec, Busy(e)
  PROVE  job[e].host \in Host /\ hostStatus[job[e].host] # Done
<1> DEFINE h == job[e].host
<1>1. /\ h \in Host /\ job[e].task \in Task /\ job[e].rest \subseteq Task
      /\ taskStatus[h] \in [Task -> Statuses]
  BY DEF Executing, TypeOK, Jobs
<1>2. AtWork(e)
  BY DEF Executing, Working
<1>3. \E t \in Task : taskStatus[h][t] # Done
  <2>1. CASE taskStatus[h][job[e].task] = Running
    BY <1>1, <2>1
  <2>2. CASE job[e].rest # {}
    <3>1. PICK u \in job[e].rest : TRUE
      BY <2>2
    <3> QED
      BY <1>1, <1>2, <3>1 DEF AtWork
  <2> QED
    BY <1>2, <2>1, <2>2 DEF AtWork
<1>4. PICK s \in [Task -> Statuses] : s = taskStatus[h]
  BY <1>1
<1>5. CheckStatus(Values(s)) # Done
  <2> SUFFICES ASSUME CheckStatus(Values(s)) = Done
               PROVE  FALSE
    OBVIOUS
  <2>1. \A t \in Task : s[t] = Done
    BY CheckDone, Zenon
  <2> QED
    BY <1>3, <1>4, <2>1
<1> QED
  BY <1>1, <1>4, <1>5 DEF Executing, Derived

(* An open request is left alone by a step that, while it is open, writes no
   task and gives no new execution to one that had ended. *)
LEMMA OpeningKept ==
  ASSUME TypeOK, Opening, UNCHANGED action, lock' = Web <=> lock = Web,
         lock = Web =>
           /\ UNCHANGED taskStatus /\ recorded' \subseteq recorded
           /\ \A n \in Exec :
                phase'[n] # "idle" => phase[n] # "idle" /\ job'[n] = job[n]
  PROVE  Opening'
<1>1. CASE lock # Web
  <2>1. action' = NoAction /\ lock' # Web
    BY <1>1 DEF Opening
  <2>2. NoAction.todo = {} /\ NoAction.started = {} /\ NoAction.children = {}
    BY DEF NoAction
  <2> QED
    BY <2>1, <2>2 DEF Opening
<1>2. CASE lock = Web
  <2>1. lock' = Web /\ recorded = {} /\ recorded' = {} /\ taskStatus' = taskStatus
    BY <1>2 DEF Opening
  <2>2. action.children \subseteq Exec
    BY DEF TypeOK, Actions
  <2>3. ASSUME NEW n \in action.children
        PROVE  \E h \in action.started :
                 (LET t == First(Ready(taskStatus[h]))
                  IN Carries(n, h, t, Ready(taskStatus[h]) \ {t}))'
    <3>1. PICK h \in action.started :
            Carries(n, h, First(Ready(taskStatus[h])),
                    Ready(taskStatus[h]) \ {First(Ready(taskStatus[h]))})
      BY DEF Opening
    <3>2. /\ n \notin recorded'
          /\ phase'[n] # "idle" => phase[n] # "idle" /\ job'[n] = job[n]
      BY <1>2, <2>1, <2>2
    <3> QED
      BY <2>1, <3>1, <3>2 DEF Carries, Ready
  <2>4. \A h \in action.todo \cup action.started : Ready(taskStatus[h])' # {}
    BY <2>1 DEF Opening, Ready
  <2>5. \A m, n \in action.children :
          /\ phase'[m] # "idle" /\ phase'[n] # "idle"
          /\ job'[m].host = job'[n].host
          => m = n
    BY <1>2, <2>2 DEF Opening
  <2>6. action.todo \cap action.started = {}
    BY DEF Opening
  <2> QED
    BY <2>1, <2>3, <2>4, <2>5, <2>6 DEF Opening
<1> QED
  BY <1>1, <1>2

-----------------------------------------------------------------------------
(* Steps that move one execution inside a callback and leave the database and
   the lock alone. *)

LEMMA EditLocal ==
  ASSUME Executing, NEW e \in Exec, NEW p, NEW z, LocalMove(e, p, z),
         phase' = [phase EXCEPT ![e] = p],
         snap' = [snap EXCEPT ![e] = z],
         verdict' \in [Exec -> BOOLEAN],
         UNCHANGED <<db, job, child, lock, action, budget>>
  PROVE  Executing'
<1> USE DEF db, LocalMove
<1>1. TypeOK' /\ NoWithdrawal'
  BY DEF Executing, TypeOK, NoWithdrawal
<1>2. Derived' /\ PatternDone'
  BY DEF Executing, Derived, PatternDone
<1>3. /\ phase'[e] = p /\ snap'[e] = z
      /\ \A f \in Exec : f # e => phase'[f] = phase[f] /\ snap'[f] = snap[f]
  BY DEF Executing, TypeOK
<1>4. \A f \in Exec : Busy(f)' <=> Busy(f)
  BY <1>3 DEF Busy
<1>5. Working'
  <2>1. ASSUME NEW f \in Exec, Busy(f)'
        PROVE  AtWork(f)'
    <3>1. AtWork(f)
      BY <1>4, <2>1 DEF Executing, Working
    <3>2. CASE f = e
      BY <1>3, <3>1, <3>2 DEF AtWork, Early
    <3>3. CASE f # e
      BY <1>3, <3>1, <3>3 DEF AtWork
    <3> QED
      BY <3>2, <3>3
  <2>2. ASSUME NEW f \in Exec, NEW g \in Exec, Busy(f)', Busy(g)',
               job'[f].host = job'[g].host
        PROVE  f = g
    BY <1>4, <2>2 DEF Executing, Working
  <2> QED
    BY <2>1, <2>2 DEF Working
<1>6. Rows'
  <2>1. recorded' = recorded /\ recorded \subseteq Exec
    BY DEF Executing, TypeOK
  <2>2. ASSUME z.row
        PROVE  e \in recorded
    BY <2>2, SnapshotRow
  <2>3. p # "idle" /\ p # "sent" /\ (e \notin recorded => p \in Early)
    BY DEF Executing, Rows
  <2> QED
    BY <1>3, <2>1, <2>2, <2>3 DEF Executing, Rows
<1>7. Known'
  <2> SUFFICES ASSUME NEW f \in Exec, snap'[f].row
               PROVE  Knows(f)'
    BY DEF Known
  <2>1. CASE f = e
    <3>1. z = Snapshot(e) /\ z.row
      BY <1>3, <2>1
    <3>2. e \in recorded /\ Busy(e)'
      BY <1>3, <3>1, SnapshotRow DEF Busy
    <3> QED
      BY <1>3, <2>1, <3>1, <3>2 DEF Knows, Saw, Snapshot
  <2>2. CASE f # e
    <3>1. Knows(f) /\ snap'[f] = snap[f] /\ phase'[f] = phase[f]
      BY <1>3, <2>2 DEF Executing, Known
    <3> QED
      BY <1>4, <3>1 DEF Knows, Saw
  <2> QED
    BY <2>1, <2>2
<1>8. Passing'
  <2> SUFFICES ASSUME NEW f \in Exec
               PROVE  /\ phase'[f] = "sent" <=> lock' = f
                      /\ phase'[f] = "sent" =>
                           /\ child'[f] \in Exec /\ child'[f] # f
                           /\ Carries(child[f], job[f].host, First(job[f].rest),
                                      job[f].rest \ {First(job[f].rest)})'
                      /\ phase'[f] # "sent" => child'[f] = None
    BY DEF Passing
  <2>1. phase'[f] = "sent" <=> phase[f] = "sent"
    BY <1>3
  <2>2. \A n \in Exec : phase'[n] # "idle" <=> phase[n] # "idle"
    BY <1>3
  <2> QED
    BY <2>1, <2>2 DEF Executing, Passing, Carries
<1> QED
  BY <1>1, <1>2, <1>5, <1>6, <1>7, <1>8 DEF Executing

(* Only a transaction that has begun has a snapshot with the row in it. *)
LEMMA NoRowYet ==
  ASSUME Executing, NEW e \in Exec,
         phase[e] \in {"queued", "returned", "toDispatch", "failed"}
  PROVE  ~snap[e].row
  BY DEF Executing, Known, Knows

LEMMA ExecuteEdits ==
  ASSUME Executing, NEW e \in Exec, (\E ok \in BOOLEAN : Execute(e, ok)) \/ ExecuteRaises(e)
  PROVE  Executing'
<1>1. PICK p \in {"returned", "failed"} : phase' = [phase EXCEPT ![e] = p]
  BY DEF Execute, ExecuteRaises
<1>2. /\ phase[e] = "queued" /\ snap' = snap
      /\ UNCHANGED <<db, job, child, lock, action, budget>>
  BY DEF Execute, ExecuteRaises
<1>3. LocalMove(e, p, snap[e])
  BY <1>2, NoRowYet, KeepSnap DEF Executing, LocalMove, Phases, Early
<1>4. verdict' \in [Exec -> BOOLEAN]
  BY DEF Executing, TypeOK, Execute, ExecuteRaises
<1>5. snap' = [snap EXCEPT ![e] = snap[e]]
  BY <1>2, KeepSnap DEF Executing
<1> QED
  BY <1>1, <1>2, <1>3, <1>4, <1>5, EditLocal

LEMMA BeginEdits ==
  ASSUME Executing, NEW e \in Exec,
         SuccessBegin(e) \/ DispatchBegin(e) \/ FailureBegin(e)
  PROVE  Executing'
<1>1. Snapshot(e) \in Snaps /\ verdict' \in [Exec -> BOOLEAN]
  BY SnapshotType DEF Executing, TypeOK, SuccessBegin, DispatchBegin, FailureBegin
<1>2. CASE SuccessBegin(e)
  <2>1. LocalMove(e, "inSuccess", Snapshot(e))
    BY <1>1, <1>2 DEF SuccessBegin, LocalMove, Phases, Early
  <2> QED
    BY <1>1, <1>2, <2>1, EditLocal DEF SuccessBegin
<1>3. CASE DispatchBegin(e)
  <2>1. LocalMove(e, "inDispatch", Snapshot(e))
    BY <1>1, <1>3, SnapshotRow DEF DispatchBegin, LocalMove, Phases, Early
  <2> QED
    BY <1>1, <1>3, <2>1, EditLocal DEF DispatchBegin
<1>4. CASE FailureBegin(e)
  <2>1. LocalMove(e, "inFailure", Snapshot(e))
    BY <1>1, <1>4 DEF FailureBegin, LocalMove, Phases, Early
  <2> QED
    BY <1>1, <1>4, <2>1, EditLocal DEF FailureBegin
<1> QED
  BY <1>2, <1>3, <1>4

LEMMA RaisesEdits ==
  ASSUME Executing, NEW e \in Exec,
         \/ SuccessMissing(e) \/ SuccessRaises(e)
         \/ DispatchRaises(e) /\ phase[e] # "sent"
  PROVE  Executing'
<1>1. phase[e] \in {"inSuccess", "inDispatch"}
  BY DEF SuccessMissing, SuccessRaises, DispatchRaises
<1>2. Leave(e, "failed") /\ UNCHANGED <<db, job, verdict, lock, action, budget>>
  BY DEF SuccessMissing, SuccessRaises, DispatchRaises
<1>3. child[e] = None
  BY <1>1 DEF Executing, Passing
<1>4. UNCHANGED child /\ verdict' \in [Exec -> BOOLEAN]
  BY <1>2, <1>3 DEF Executing, TypeOK, Leave
<1>5. LocalMove(e, "failed", NoSnap)
  BY <1>1, NoSnapType DEF LocalMove, Phases, Early
<1> QED
  BY <1>2, <1>4, <1>5, EditLocal DEF Leave

-----------------------------------------------------------------------------
(* Steps that end an execution without writing a status. *)

LEMMA EditRetire ==
  ASSUME Executing, NEW e \in Exec, phase[e] # "idle", Retire(e),
         recorded' = recorded \ {e},
         lock' = IF lock = e THEN None ELSE lock,
         planStatus' \in Nat,
         budget' \in [FaultKind -> Nat], budget'["finish"] = 0,
         UNCHANGED <<taskStatus, hostStatus, patternStatus, action>>
  PROVE  Executing'
<1> USE NamesAssumption DEF Retire, Leave
<1>1. TypeOK' /\ NoWithdrawal'
  <2>1. NoJob \in Jobs
    BY HostsAssumption, TasksAssumption DEF NoJob, Jobs
  <2> QED
    BY <2>1, NoSnapType DEF Executing, TypeOK, NoWithdrawal, Phases
<1>2. Derived' /\ PatternDone'
  BY DEF Executing, Derived, PatternDone
<1>3. /\ phase'[e] = "idle" /\ ~snap'[e].row /\ child'[e] = None
      /\ \A f \in Exec \ {e} : /\ phase'[f] = phase[f] /\ snap'[f] = snap[f]
                              /\ job'[f] = job[f] /\ child'[f] = child[f]
                              /\ f \in recorded' <=> f \in recorded
  BY NoSnapType DEF Executing, TypeOK
<1>4. ~Busy(e)' /\ \A f \in Exec \ {e} : Busy(f)' <=> Busy(f)
  BY <1>3 DEF Busy
<1>5. Working'
  BY <1>3, <1>4 DEF Executing, Working, AtWork
<1>6. Rows'
  BY <1>3 DEF Executing, Rows
<1>7. Known'
  BY <1>3, <1>4 DEF Executing, Known, Knows, Saw
<1>8. Passing'
  BY <1>3 DEF Executing, Passing, Carries
<1> QED
  BY <1>1, <1>2, <1>5, <1>6, <1>7, <1>8 DEF Executing

LEMMA EndsEdits ==
  ASSUME Executing, NEW e \in Exec,
         \/ Crash(e) \/ FinishPlan(e)
         \/ FailureCommit(e) /\ ~snap[e].row
  PROVE  Executing'
<1>1. /\ phase[e] # "idle" /\ Retire(e) /\ recorded' = recorded \ {e}
      /\ UNCHANGED <<taskStatus, hostStatus, patternStatus, action>>
  BY DEF Crash, FinishPlan, FailureCommit
<1>2. lock' = IF lock = e THEN None ELSE lock
  BY DEF Executing, Passing, Crash, FinishPlan, FailureCommit
<1>3. planStatus' \in Nat
  BY DEF Executing, TypeOK, Crash, FinishPlan, FailureCommit
<1>4. budget' \in [FaultKind -> Nat] /\ budget'["finish"] = 0
  BY DEF Executing, TypeOK, NoWithdrawal, Crash, FinishPlan, FailureCommit, Spend,
     FaultKind
<1> QED
  BY <1>1, <1>2, <1>3, <1>4, EditRetire

-----------------------------------------------------------------------------
(* Steps that commit a status computed from a snapshot. *)

(* Who knows a host and which of the others were done writes one task of it:
   the statuses it commits are right for the database of the moment. *)
Wrote(h, t, s) ==
  /\ taskStatus' \in [Host -> [Task -> Statuses]]
  /\ hostStatus' \in [Host -> Statuses]
  /\ patternStatus' \in Statuses
  /\ taskStatus'[h] = [taskStatus[h] EXCEPT ![t] = s]
  /\ \A g \in Host \ {h} : /\ taskStatus'[g] = taskStatus[g]
                          /\ hostStatus'[g] = hostStatus[g]
  /\ Derived' /\ PatternDone'

LEMMA KnownWrite ==
  ASSUME TypeOK, Derived, NEW h \in Host, NEW t \in Task, NEW s \in Statuses,
         NEW seen \in Snaps, Saw(h, seen), Write(h, t, s, seen)
  PROVE  Wrote(h, t, s)
<1>1. PICK new \in [Task -> Statuses] : new = [taskStatus[h] EXCEPT ![t] = s]
  BY DEF TypeOK
<1>2. PICK own \in Statuses : own = CheckStatus(Values(new))
  BY CheckStatusType
<1>3. PICK hosts \in [Host -> Statuses] : hosts = [seen.host EXCEPT ![h] = own]
  BY DEF Snaps
<1>4. /\ taskStatus' = [taskStatus EXCEPT ![h] = new]
      /\ hostStatus' = [hostStatus EXCEPT ![h] = own]
      /\ patternStatus' = CheckStatus(Values(hosts))
  BY <1>1, <1>2, <1>3 DEF Write, Saw
<1>5. /\ taskStatus' \in [Host -> [Task -> Statuses]]
      /\ hostStatus' \in [Host -> Statuses]
      /\ patternStatus' \in Statuses
  BY <1>4, CheckStatusType DEF TypeOK
<1>6. /\ taskStatus'[h] = new /\ hostStatus'[h] = own
      /\ \A g \in Host \ {h} : /\ taskStatus'[g] = taskStatus[g]
                              /\ hostStatus'[g] = hostStatus[g]
  BY <1>4 DEF TypeOK
<1>7. Derived'
  BY <1>2, <1>6 DEF Derived
<1>8. PatternDone'
  <2> SUFFICES ASSUME patternStatus' = Done, NEW g \in Host
               PROVE  hostStatus'[g] = Done
    BY DEF PatternDone
  <2>1. CheckStatus(Values(hosts)) = Done
    BY <1>4
  <2>2. \A x \in Host : hosts[x] = Done
    BY <2>1, CheckDone, Zenon
  <2>3. hosts \in [Host -> Statuses] /\ seen.host \in [Host -> Statuses]
    BY DEF Snaps
  <2>4. hosts[h] = own /\ \A x \in Host \ {h} : hosts[x] = seen.host[x]
    BY <1>3, <2>3
  <2> QED
    BY <1>6, <2>2, <2>4 DEF Saw
<1> QED
  BY <1>1, <1>5, <1>6, <1>7, <1>8 DEF Wrote

LEMMA KnowsWrite ==
  ASSUME Executing, NEW e \in Exec, Knows(e), NEW t \in Task, NEW s \in Statuses,
         NEW h \in Host, h = job[e].host, Write(h, t, s, snap[e])
  PROVE  Wrote(h, t, s)
<1>1. PICK seen \in Snaps : seen = snap[e]
  BY DEF Executing, TypeOK
<1>2. TypeOK /\ Derived /\ Saw(h, seen) /\ Write(h, t, s, seen)
  BY <1>1 DEF Executing, Knows
<1> QED
  BY <1>2, KnownWrite

(* Execution e commits a status of its host, moving to phase p and possibly
   handing the host over to the execution n it had sent. *)
LEMMA EditsCommit ==
  ASSUME Executing, NEW e \in Exec, Knows(e), NEW t \in Task, NEW s \in Statuses,
         NEW h, h = job[e].host, Write(h, t, s, snap[e]),
         NEW p \in {"idle", "toDispatch", "toFinish"}, Leave(e, p),
         lock \in {None, e}, lock' = None,
         UNCHANGED <<planStatus, action, budget>>,
         verdict' \in [Exec -> BOOLEAN], job' \in [Exec -> Jobs],
         \A f \in Exec \ {e} : job'[f] = job[f],
         recorded' \subseteq Exec, e \in recorded' <=> p # "idle",
         NEW n, n # e,
         \A f \in Exec \ {e} : f \in recorded' <=> f \in recorded \/ f = n,
         n \in Exec => /\ n \notin recorded /\ phase[n] \in Early
                       /\ job[n].host = h /\ AtWork(n)',
         p = "toDispatch" => n \notin Exec /\ job'[e] = job[e] /\ AtWork(e)'
  PROVE  Executing'
<1> USE NamesAssumption
<1>1. h \in Host /\ Busy(e) /\ hostStatus[h] # Done
  BY BusyNotDone DEF Knows
<1>2. /\ taskStatus' \in [Host -> [Task -> Statuses]]
      /\ hostStatus' \in [Host -> Statuses]
      /\ patternStatus' \in Statuses
      /\ \A g \in Host \ {h} : /\ taskStatus'[g] = taskStatus[g]
                              /\ hostStatus'[g] = hostStatus[g]
      /\ Derived' /\ PatternDone'
  <2>1. Wrote(h, t, s)
    BY <1>1, KnowsWrite
  <2> QED
    BY <2>1 DEF Wrote
<1>3. TypeOK' /\ NoWithdrawal'
  BY <1>2, NoSnapType DEF Executing, TypeOK, NoWithdrawal, Leave, Phases
<1>4. /\ phase'[e] = p /\ ~snap'[e].row /\ child'[e] = None
      /\ \A f \in Exec \ {e} : /\ phase'[f] = phase[f] /\ snap'[f] = snap[f]
                              /\ child'[f] = child[f]
  BY NoSnapType DEF Executing, TypeOK, Leave
<1>5. \A f \in Exec \ {e} : Busy(f)' => Busy(f) \/ f = n
  BY <1>4 DEF Busy
<1>6. \A f \in Exec \ {e} : Busy(f) => Busy(f)' /\ job[f].host \in Host \ {h}
  <2>1. \A f \in Exec \ {e} : Busy(f) => Busy(f)'
    BY <1>4 DEF Busy
  <2>2. \A f \in Exec \ {e} : Busy(f) => job[f].host # h
    BY <1>1 DEF Executing, Working
  <2> QED
    BY <2>1, <2>2 DEF Executing, TypeOK, Jobs
<1>7. Busy(e)' => p = "toDispatch"
  BY <1>4 DEF Busy
<1>8. Working'
  <2>1. ASSUME NEW f \in Exec, Busy(f)'
        PROVE  AtWork(f)'
    <3>1. CASE f = e
      BY <1>7, <2>1, <3>1
    <3>2. CASE f = n
      BY <3>2
    <3>3. CASE f # e /\ f # n
      <4>1. AtWork(f) /\ job[f].host \in Host \ {h}
        BY <1>5, <1>6, <2>1, <3>3 DEF Executing, Working
      <4> QED
        BY <1>2, <1>4, <3>3, <4>1 DEF AtWork
    <3> QED
      BY <3>1, <3>2, <3>3
  <2>2. ASSUME NEW f \in Exec, NEW g \in Exec, Busy(f)', Busy(g)',
               job'[f].host = job'[g].host
        PROVE  f = g
    BY <1>5, <1>6, <1>7, <2>2 DEF Executing, Working
  <2> QED
    BY <2>1, <2>2 DEF Working
<1>9. Rows'
  <2>1. recorded \subseteq Exec
    BY DEF Executing, TypeOK
  <2> QED
    BY <1>4, <2>1 DEF Executing, Rows, Early
<1>10. Known'
  <2> SUFFICES ASSUME NEW f \in Exec, snap'[f].row
               PROVE  Knows(f)'
    BY DEF Known
  <2>1. f # e /\ Knows(f) /\ Busy(f)
    BY <1>4 DEF Executing, Known, Knows
  <2>2. Busy(f)' /\ job'[f] = job[f] /\ job[f].host \in Host \ {h}
    BY <1>6, <2>1
  <2>3. \A g \in Host \ {job[f].host} : snap[f].host[g] = Done => hostStatus'[g] = Done
    BY <1>1, <1>2, <2>1 DEF Knows, Saw
  <2>4. /\ phase'[f] = phase[f] /\ snap'[f] = snap[f]
        /\ taskStatus'[job[f].host] = taskStatus[job[f].host]
    BY <1>2, <1>4, <2>1, <2>2
  <2> QED
    BY <2>1, <2>2, <2>3, <2>4 DEF Knows, Saw
<1>11. Passing'
  <2>1. \A f \in Exec \ {e} : phase[f] # "sent" /\ child[f] = None
    BY Holder
  <2> QED
    BY <1>4, <2>1 DEF Passing
<1> QED
  BY <1>2, <1>3, <1>8, <1>9, <1>10, <1>11 DEF Executing

(* What execution e has to do in the next state. *)
LEMMA AtWorkNext ==
  ASSUME NEW e, NEW h, NEW t, NEW rest,
         job'[e].host = h, job'[e].task = t, job'[e].rest = rest,
         t \notin rest, \A u \in rest : taskStatus'[h][u] # Done,
         \/ taskStatus'[h][t] = Running /\ phase'[e] \in Early
         \/ rest # {} /\ phase'[e] \in {"toDispatch", "inDispatch", "sent", "failed", "inFailure"}
  PROVE  AtWork(e)'
  BY DEF AtWork

LEMMA SuccessCommitEdits ==
  ASSUME Executing, NEW e \in Exec, SuccessCommit(e)
  PROVE  Executing'
<1> USE NamesAssumption
<1> DEFINE h == job[e].host
           t == job[e].task
           s == IF verdict[e] THEN Done ELSE Failed
<1>1. Knows(e) /\ Busy(e) /\ AtWork(e)
  BY DEF Executing, Known, Knows, Working, SuccessCommit
<1>2. /\ t \in Task /\ s \in Statuses /\ h \in Host /\ job[e].rest \subseteq Task
      /\ taskStatus[h] \in [Task -> Statuses]
  BY DEF Executing, TypeOK, Jobs
<1>3. Write(h, t, s, snap[e]) /\ lock = None /\ lock' = None
  BY DEF SuccessCommit
<1>4. UNCHANGED <<planStatus, action, budget>> /\ recorded \subseteq Exec /\ e \in recorded
  BY <1>1 DEF SuccessCommit, Busy, Executing, TypeOK
<1>5. taskStatus'[h] = [taskStatus[h] EXCEPT ![t] = s]
  BY <1>1, <1>2, <1>3, KnowsWrite DEF Wrote
<1> HIDE DEF s
<1>6. None # e /\ None \notin Exec /\ \A f \in Exec \ {e} : f # None
  OBVIOUS
<1>7. CASE /\ verdict[e] /\ job[e].rest # {} /\ Leave(e, "toDispatch")
           /\ UNCHANGED <<job, verdict, recorded>>
  <2>1. phase'[e] = "toDispatch"
    BY <1>7 DEF Executing, TypeOK, Leave
  <2>2. t \notin job[e].rest /\ \A u \in job[e].rest : taskStatus[h][u] # Done
    BY <1>1 DEF AtWork
  <2>3. \A u \in job[e].rest : taskStatus'[h][u] # Done
    BY <1>2, <1>5, <2>2
  <2>4. AtWork(e)'
    BY <1>7, <2>1, <2>2, <2>3, AtWorkNext
  <2>5. verdict' \in [Exec -> BOOLEAN] /\ job' \in [Exec -> Jobs]
    BY <1>7 DEF Executing, TypeOK
  <2> QED
    BY <1>1, <1>2, <1>3, <1>4, <1>6, <1>7, <2>4, <2>5, EditsCommit
<1>8. CASE Leave(e, "toFinish") /\ UNCHANGED <<job, verdict, recorded>>
  <2>1. verdict' \in [Exec -> BOOLEAN] /\ job' \in [Exec -> Jobs]
    BY <1>8 DEF Executing, TypeOK
  <2> QED
    BY <1>1, <1>2, <1>3, <1>4, <1>6, <1>8, <2>1, EditsCommit
<1>9. CASE Retire(e) /\ recorded' = recorded \ {e}
  <2>1. Leave(e, "idle") /\ verdict' \in [Exec -> BOOLEAN] /\ job' \in [Exec -> Jobs]
        /\ \A f \in Exec \ {e} : job'[f] = job[f]
    BY <1>9, RetireJobs DEF Executing, Retire
  <2> QED
    BY <1>1, <1>2, <1>3, <1>4, <1>6, <1>9, <2>1, EditsCommit
<1> QED
  BY <1>7, <1>8, <1>9 DEF SuccessCommit

LEMMA FailureCommitEdits ==
  ASSUME Executing, NEW e \in Exec, FailureCommit(e), snap[e].row
  PROVE  Executing'
<1> USE NamesAssumption
<1> DEFINE h == job[e].host
           t == job[e].task
<1>1. Knows(e) /\ Busy(e)
  BY DEF Executing, Known, Knows
<1>2. t \in Task /\ Failed \in Statuses /\ recorded \subseteq Exec
  BY DEF Executing, TypeOK, Jobs
<1>3. Write(h, t, Failed, snap[e]) /\ lock = None /\ lock' = None
  BY DEF FailureCommit
<1>4. UNCHANGED <<planStatus, action, budget>> /\ recorded' = recorded \ {e}
  BY DEF FailureCommit
<1>5. Leave(e, "idle") /\ verdict' \in [Exec -> BOOLEAN] /\ job' \in [Exec -> Jobs]
      /\ \A f \in Exec \ {e} : job'[f] = job[f]
  BY RetireJobs DEF Executing, FailureCommit, Retire
<1>6. None # e /\ None \notin Exec /\ \A f \in Exec \ {e} : f # None
  OBVIOUS
<1> QED
  BY <1>1, <1>2, <1>3, <1>4, <1>5, <1>6, EditsCommit

LEMMA DispatchCommitEdits ==
  ASSUME Executing, NEW e \in Exec, DispatchCommit(e)
  PROVE  Executing'
<1> USE NamesAssumption
<1> DEFINE h == job[e].host
<1>1. phase[e] = "sent" /\ e \in recorded /\ snap[e].row
  BY DEF Executing, Rows, Early, DispatchCommit
<1>2. Knows(e) /\ Busy(e) /\ AtWork(e)
  BY <1>1 DEF Executing, Known, Knows, Working
<1>3. /\ h \in Host /\ taskStatus[h] \in [Task -> Statuses]
      /\ job[e].rest \subseteq Task /\ recorded \subseteq Exec
  BY DEF Executing, TypeOK, Jobs
<1>4. job[e].rest # {} /\ \A u \in job[e].rest : taskStatus[h][u] # Done
  BY <1>1, <1>2 DEF AtWork, Early
<1>5. PICK t \in job[e].rest : t = First(job[e].rest)
  BY <1>3, <1>4, FirstOfRest
<1>6. PICK rest : rest = job[e].rest \ {t}
  OBVIOUS
<1>7. Write(h, t, Running, snap[e]) /\ lock = e /\ lock' = None
  BY <1>1, <1>5 DEF Executing, Passing, DispatchCommit
<1>8. UNCHANGED <<planStatus, action, budget>> /\ t \in Task
  BY <1>3 DEF DispatchCommit
<1>9. taskStatus'[h] = [taskStatus[h] EXCEPT ![t] = Running]
  BY <1>2, <1>3, <1>7, <1>8, KnowsWrite DEF Wrote
<1>10. Leave(e, "idle") /\ verdict' \in [Exec -> BOOLEAN] /\ job' \in [Exec -> Jobs]
       /\ \A f \in Exec \ {e} : job'[f] = job[f]
  BY RetireJobs DEF Executing, DispatchCommit, Retire
<1>11. PICK c \in Exec : /\ c = child[e] /\ c # e /\ c \notin recorded
                         /\ phase[c] # "idle" => /\ job[c].host = h /\ job[c].task = t
                                                 /\ job[c].rest = rest
  BY <1>1, <1>5, <1>6 DEF Executing, Passing, Carries
<1>12. CASE phase[c] = "idle"
  <2>1. recorded' = recorded \ {e}
    BY <1>11, <1>12 DEF DispatchCommit
  <2>2. None # e /\ None \notin Exec /\ \A f \in Exec \ {e} : f # None
    OBVIOUS
  <2> QED
    BY <1>2, <1>3, <1>7, <1>8, <1>10, <2>1, <2>2, EditsCommit
<1>13. CASE phase[c] # "idle"
  <2>1. recorded' = (recorded \ {e}) \cup {c}
    BY <1>11, <1>13 DEF DispatchCommit
  <2>2. phase[c] \in Early /\ phase'[c] = phase[c] /\ job'[c] = job[c]
    BY <1>10, <1>11, <1>13 DEF Executing, Rows, TypeOK, Leave
  <2>3. t \notin rest /\ \A u \in rest : taskStatus'[h][u] # Done
    BY <1>3, <1>4, <1>6, <1>9
  <2>4. taskStatus'[h][t] = Running
    BY <1>3, <1>9, <1>8
  <2>5. AtWork(c)'
    BY <1>11, <1>13, <2>2, <2>3, <2>4, AtWorkNext
  <2>6. /\ recorded' \subseteq Exec /\ e \notin recorded'
        /\ \A f \in Exec \ {e} : f \in recorded' <=> f \in recorded \/ f = c
    BY <1>3, <1>11, <2>1
  <2> QED
    BY <1>2, <1>3, <1>7, <1>8, <1>10, <1>11, <1>13, <2>2, <2>5, <2>6, EditsCommit
<1> QED
  BY <1>12, <1>13

-----------------------------------------------------------------------------
(* Steps that send a message before their transaction commits, and the abort
   of such a transaction. *)

LEMMA DispatchSendEdits ==
  ASSUME Executing, NEW e \in Exec, NEW n \in Exec, DispatchSend(e, n)
  PROVE  Executing'
<1> USE NamesAssumption
<1>1. /\ phase[e] = "inDispatch" /\ phase[n] = "idle" /\ n # e /\ n \notin recorded
      /\ lock = None /\ lock' = e
  BY DEF DispatchSend, Fresh, Executing, Rows
<1>2. e \in recorded /\ snap[e].row /\ Busy(e) /\ AtWork(e) /\ recorded \subseteq Exec
  BY <1>1 DEF Executing, Rows, Early, Busy, Working, TypeOK
<1>3. job[e] \in Jobs /\ job[e].rest \in SUBSET Task /\ job[e].rest # {}
  BY <1>1, <1>2 DEF Executing, TypeOK, Jobs, AtWork, Early
<1>4. PICK t \in Task : t = First(job[e].rest)
  BY <1>3, FirstOfRest
<1>5. PICK rest \in SUBSET Task : rest = job[e].rest \ {t}
  BY <1>3
<1>6. PICK j \in Jobs : /\ j = [job[e] EXCEPT !.task = t, !.rest = rest]
                        /\ j.host = job[e].host /\ j.task = t /\ j.rest = rest
  <2>1. [job[e] EXCEPT !.task = t, !.rest = rest] \in Jobs
    BY <1>3 DEF Jobs
  <2> QED
    BY <1>3, <2>1 DEF Jobs
<1>7. /\ job' = [job EXCEPT ![n] = j]
      /\ phase' = [phase EXCEPT ![e] = "sent", ![n] = "queued"]
      /\ child' = [child EXCEPT ![e] = n]
      /\ UNCHANGED <<db, verdict, snap, action, budget>>
  BY <1>4, <1>5, <1>6 DEF DispatchSend
<1>8. /\ phase'[e] = "sent" /\ phase'[n] = "queued"
      /\ child'[e] = n /\ job'[e] = job[e] /\ job'[n] = j
      /\ \A f \in Exec \ {e, n} : phase'[f] = phase[f] /\ job'[f] = job[f]
      /\ \A f \in Exec \ {e} : child'[f] = child[f]
  BY <1>1, <1>7 DEF Executing, TypeOK
<1>9. TypeOK' /\ NoWithdrawal'
  <2>1. phase' \in [Exec -> Phases] /\ child' \in [Exec -> Exec \cup {None}]
    BY <1>7 DEF Executing, TypeOK, Phases
  <2>2. job' \in [Exec -> Jobs]
    BY <1>7 DEF Executing, TypeOK
  <2> QED
    BY <1>1, <1>7, <2>1, <2>2 DEF Executing, TypeOK, NoWithdrawal, db
<1>10. Derived' /\ PatternDone'
  BY <1>7 DEF Executing, Derived, PatternDone, db
<1>11. \A f \in Exec : (Busy(f)' <=> Busy(f)) /\ (Busy(f) => f # n)
  BY <1>1, <1>7, <1>8 DEF Busy, db
<1>12. Working'
  <2>1. ASSUME NEW f \in Exec, Busy(f)'
        PROVE  AtWork(f)'
    <3>1. AtWork(f) /\ f # n
      BY <1>11, <2>1 DEF Executing, Working
    <3>2. CASE f = e
      BY <1>1, <1>7, <1>8, <3>1, <3>2 DEF AtWork, Early, db
    <3>3. CASE f # e
      BY <1>7, <1>8, <3>1, <3>3 DEF AtWork, db
    <3> QED
      BY <3>2, <3>3
  <2>2. ASSUME NEW f \in Exec, NEW g \in Exec, Busy(f)', Busy(g)',
               job'[f].host = job'[g].host
        PROVE  f = g
    BY <1>8, <1>11, <2>2 DEF Executing, Working
  <2> QED
    BY <2>1, <2>2 DEF Working
<1>13. Rows'
  <2>1. recorded' = recorded /\ snap' = snap
    BY <1>7 DEF db
  <2>2. Rows
    BY DEF Executing
  <2>3. \A f \in recorded : phase'[f] # "idle"
    BY <1>1, <1>2, <1>8, <2>2 DEF Rows
  <2>4. \A f \in Exec \ recorded : phase'[f] \in Early \cup {"idle"} /\ ~snap[f].row
    BY <1>1, <1>2, <1>8, <2>2 DEF Rows, Early
  <2>5. \A f \in recorded : phase'[f] \in {"inDispatch", "sent"} => snap[f].row
    BY <1>1, <1>2, <1>8, <2>2 DEF Rows
  <2> QED
    BY <2>1, <2>3, <2>4, <2>5 DEF Rows
<1>14. Known'
  <2> SUFFICES ASSUME NEW f \in Exec, snap'[f].row
               PROVE  Knows(f)'
    BY DEF Known
  <2>1. Knows(f) /\ f # n /\ Busy(f)'
    BY <1>7, <1>11 DEF Executing, Known, Knows
  <2>2. /\ job'[f] = job[f] /\ snap' = snap
        /\ phase'[f] = phase[f] \/ phase'[f] = "sent"
        /\ taskStatus' = taskStatus /\ hostStatus' = hostStatus
    BY <1>7, <1>8, <2>1 DEF db
  <2> QED
    BY <2>1, <2>2 DEF Knows, Saw
<1>15. Passing'
  <2>1. \A f \in Exec : phase[f] # "sent" /\ child[f] = None
    BY <1>1, Holder
  <2>2. /\ n \notin recorded' /\ job'[n].host = job'[e].host
        /\ job'[n].task = First(job'[e].rest)
        /\ job'[n].rest = job'[e].rest \ {First(job'[e].rest)}
    BY <1>1, <1>4, <1>5, <1>6, <1>7, <1>8 DEF db
  <2> QED
    BY <1>1, <1>8, <2>1, <2>2 DEF Passing, Carries
<1> QED
  BY <1>9, <1>10, <1>12, <1>13, <1>14, <1>15 DEF Executing

LEMMA DispatchLostEdits ==
  ASSUME Executing, NEW e \in Exec, DispatchRaises(e), phase[e] = "sent"
  PROVE  Executing'
<1> USE NamesAssumption
<1>1. /\ lock = e /\ lock' = None /\ Leave(e, "failed")
      /\ UNCHANGED <<db, job, verdict, action>>
  BY Holder DEF DispatchRaises
<1>2. /\ phase'[e] = "failed" /\ ~snap'[e].row /\ child'[e] = None
      /\ \A f \in Exec \ {e} : /\ phase'[f] = phase[f] /\ snap'[f] = snap[f]
                              /\ child'[f] = child[f]
  BY <1>1, NoSnapType DEF Executing, TypeOK, Leave
<1>3. TypeOK' /\ NoWithdrawal'
  <2>1. budget' \in [FaultKind -> Nat] /\ budget'["finish"] = 0
    BY DEF Executing, TypeOK, NoWithdrawal, DispatchRaises, Spend, FaultKind
  <2> QED
    BY <1>1, <2>1, NoSnapType DEF Executing, TypeOK, NoWithdrawal, Leave, Phases, db
<1>4. Derived' /\ PatternDone'
  BY <1>1 DEF Executing, Derived, PatternDone, db
<1>5. \A f \in Exec : Busy(f)' <=> Busy(f)
  BY <1>1, <1>2 DEF Busy, db
<1>6. Working'
  <2>1. ASSUME NEW f \in Exec, Busy(f)'
        PROVE  AtWork(f)'
    <3>1. AtWork(f)
      BY <1>5, <2>1 DEF Executing, Working
    <3> QED
      BY <1>1, <1>2, <3>1 DEF AtWork, Early, db
  <2> QED
    BY <1>1, <1>5, <2>1 DEF Executing, Working
<1>7. Rows'
  <2>1. recorded \subseteq Exec
    BY DEF Executing, TypeOK
  <2> QED
    BY <1>1, <1>2, <2>1 DEF Executing, Rows, Early, db
<1>8. Known'
  BY <1>1, <1>2, <1>5 DEF Executing, Known, Knows, Saw, db
<1>9. Passing'
  <2>1. \A f \in Exec \ {e} : phase[f] # "sent" /\ child[f] = None
    BY <1>1, Holder
  <2> QED
    BY <1>1, <1>2, <2>1 DEF Passing
<1> QED
  BY <1>3, <1>4, <1>6, <1>7, <1>8, <1>9 DEF Executing

-----------------------------------------------------------------------------
(* The steps of the executions. *)

LEMMA WorkerEdits ==
  ASSUME Executing, NEW e \in Exec, Worker_Step(e) \/ Fault_Step(e)
  PROVE  Executing'
<1>1. CASE (\E ok \in BOOLEAN : Execute(e, ok)) \/ ExecuteRaises(e)
  BY <1>1, ExecuteEdits
<1>2. CASE SuccessBegin(e) \/ DispatchBegin(e) \/ FailureBegin(e)
  BY <1>2, BeginEdits
<1>3. CASE SuccessCommit(e) \/ DispatchCommit(e)
  BY <1>3, SuccessCommitEdits, DispatchCommitEdits
<1>4. CASE FailureCommit(e)
  BY <1>4, FailureCommitEdits, EndsEdits
<1>5. CASE SuccessMissing(e) \/ SuccessRaises(e)
  BY <1>5, RaisesEdits
<1>6. CASE DispatchRaises(e)
  BY <1>6, RaisesEdits, DispatchLostEdits
<1>7. CASE \E n \in Exec : DispatchSend(e, n)
  BY <1>7, DispatchSendEdits
<1>8. CASE FinishPlan(e) \/ Crash(e)
  BY <1>8, EndsEdits
<1>9. CASE FinishRaises(e)
  BY <1>9 DEF Executing, NoWithdrawal, FinishRaises, Spend
<1> QED
  BY <1>1, <1>2, <1>3, <1>4, <1>5, <1>6, <1>7, <1>8, <1>9 DEF Worker_Step, Fault_Step

(* An execution without a row only goes on or ends: it writes nothing, takes
   no lock and sends nothing. *)
LEMMA Rowless ==
  ASSUME Executing, NEW e \in Exec, e \notin recorded, Worker_Step(e) \/ Fault_Step(e)
  PROVE  /\ UNCHANGED <<taskStatus, hostStatus, recorded, lock>>
         /\ phase[e] # "idle" /\ (phase'[e] # "idle" => job'[e] = job[e])
         /\ \A f \in Exec \ {e} : phase'[f] = phase[f] /\ job'[f] = job[f]
<1>1. phase[e] \in Early \cup {"idle"} /\ ~snap[e].row /\ phase \in [Exec -> Phases]
      /\ job \in [Exec -> Jobs] /\ lock # e
  BY Holder DEF Executing, Rows, TypeOK, Early
<1>2. recorded \ {e} = recorded
  OBVIOUS
<1>3. CASE (\E ok \in BOOLEAN : Execute(e, ok)) \/ ExecuteRaises(e)
  BY <1>1, <1>3 DEF Execute, ExecuteRaises, db
<1>4. CASE SuccessBegin(e) \/ FailureBegin(e)
  BY <1>1, <1>4 DEF SuccessBegin, FailureBegin, db
<1>5. CASE SuccessMissing(e)
  BY <1>1, <1>5 DEF SuccessMissing, Leave, db
<1>6. CASE FailureCommit(e) \/ Crash(e)
  <2>1. /\ phase[e] # "idle" /\ Retire(e) /\ recorded' = recorded \ {e}
        /\ lock' = lock /\ UNCHANGED <<taskStatus, hostStatus>>
    BY <1>1, <1>6 DEF FailureCommit, Crash
  <2> QED
    BY <1>1, <1>2, <2>1 DEF Retire, Leave
<1>7. ~(SuccessCommit(e) \/ SuccessRaises(e) \/ DispatchBegin(e) \/ DispatchCommit(e)
        \/ FinishPlan(e) \/ DispatchRaises(e) \/ FinishRaises(e)
        \/ \E n \in Exec : DispatchSend(e, n))
  BY <1>1 DEF SuccessCommit, SuccessRaises, DispatchBegin, DispatchCommit, FinishPlan,
     DispatchRaises, FinishRaises, DispatchSend, Early
<1> QED
  BY <1>3, <1>4, <1>5, <1>6, <1>7 DEF Worker_Step, Fault_Step

(* The request is left alone, and only an execution takes or gives up a lock. *)
LEMMA WorkerLock ==
  ASSUME Executing, NEW e \in Exec, Worker_Step(e) \/ Fault_Step(e)
  PROVE  UNCHANGED action /\ (lock # Web => lock' # Web)
<1> USE NamesAssumption
<1>1. UNCHANGED action
  BY DEF Worker_Step, Fault_Step, Execute, ExecuteRaises, SuccessBegin, SuccessCommit,
     SuccessMissing, SuccessRaises, DispatchBegin, DispatchSend, DispatchCommit,
     DispatchRaises, FinishPlan, FinishRaises, FailureBegin, FailureCommit, Crash
<1>2. lock' \in {lock, None, e}
  BY DEF Worker_Step, Fault_Step, Execute, ExecuteRaises, SuccessBegin, SuccessCommit,
     SuccessMissing, SuccessRaises, DispatchBegin, DispatchSend, DispatchCommit,
     DispatchRaises, FinishPlan, FinishRaises, FailureBegin, FailureCommit, Crash
<1> QED
  BY <1>1, <1>2

LEMMA WorkerOpening ==
  ASSUME Executing, Opening, NEW e \in Exec, Worker_Step(e) \/ Fault_Step(e)
  PROVE  Opening'
<1>1. lock = Web => e \notin recorded
  BY DEF Opening
<1>2. ASSUME lock = Web
      PROVE  /\ UNCHANGED <<taskStatus, recorded, lock>>
             /\ \A n \in Exec :
                  phase'[n] # "idle" => phase[n] # "idle" /\ job'[n] = job[n]
  <2>1. e \notin recorded
    BY <1>1, <1>2
  <2>2. /\ UNCHANGED <<taskStatus, hostStatus, recorded, lock>>
        /\ phase[e] # "idle" /\ (phase'[e] # "idle" => job'[e] = job[e])
        /\ \A f \in Exec \ {e} : phase'[f] = phase[f] /\ job'[f] = job[f]
    BY <2>1, Rowless
  <2> QED
    BY <2>2
<1>3. TypeOK /\ UNCHANGED action /\ (lock' = Web <=> lock = Web)
  BY <1>2, WorkerLock DEF Executing
<1> QED
  BY <1>2, <1>3, OpeningKept

-----------------------------------------------------------------------------
(* What the requests have in common. *)

(* With no execution under way nothing has a row, and nobody holds the lock
   but a request. *)
LEMMA AllIdle ==
  ASSUME Executing, \A e \in Exec : phase[e] = "idle"
  PROVE  recorded = {} /\ lock \in {None, Web}
<1>1. recorded = {}
  BY DEF Executing, Rows, TypeOK
<1>2. \A e \in Exec : lock # e
  BY Holder
<1> QED
  BY <1>1, <1>2 DEF Executing, TypeOK

(* Without a row no transaction sees one or is about to commit a message. *)
LEMMA NoRows ==
  ASSUME Executing, recorded = {}, NEW e \in Exec
  PROVE  /\ phase[e] \in Early \cup {"idle"} /\ ~snap[e].row
         /\ phase[e] # "sent" /\ child[e] = None /\ lock # e
  BY Holder DEF Executing, Rows, Early

LEMMA NothingOpen ==
  ASSUME action' = NoAction, lock' = Web => recorded' = {}
  PROVE  Opening'
<1>1. NoAction.todo = {} /\ NoAction.started = {} /\ NoAction.children = {}
  BY DEF NoAction
<1> QED
  BY <1>1 DEF Opening

(* A request takes or gives up the lock, or sets the pattern. *)
LEMMA RequestSteps ==
  ASSUME Executing, lock \in {None, Web}, lock' \in {None, Web},
         UNCHANGED <<taskStatus, hostStatus, planStatus, recorded, worker>>,
         patternStatus' \in Statuses, PatternDone',
         action' \in Actions, budget' \in [FaultKind -> Nat], budget'["finish"] = 0
  PROVE  Executing'
<1> USE NamesAssumption DEF worker
<1>1. TypeOK' /\ NoWithdrawal'
  BY DEF Executing, TypeOK, NoWithdrawal
<1>2. Derived'
  BY DEF Executing, Derived
<1>3. \A f \in Exec : (Busy(f)' <=> Busy(f)) /\ (AtWork(f)' <=> AtWork(f))
  BY DEF Busy, AtWork
<1>4. Working' /\ Rows'
  BY <1>3 DEF Executing, Working, Rows
<1>5. Known'
  BY <1>3 DEF Executing, Known, Knows, Saw
<1>6. Passing'
  <2>1. \A f \in Exec : phase[f] # "sent" /\ child[f] = None
    BY Holder
  <2> QED
    BY <2>1 DEF Passing
<1> QED
  BY <1>1, <1>2, <1>4, <1>5, <1>6 DEF Executing

(* A request sends a message. *)
LEMMA RequestSends ==
  ASSUME Executing, recorded = {}, lock' = Web,
         NEW n \in Exec, phase[n] = "idle", NEW j \in Jobs,
         phase' = [phase EXCEPT ![n] = "queued"], job' = [job EXCEPT ![n] = j],
         UNCHANGED <<db, verdict, snap, child, budget>>, action' \in Actions
  PROVE  Executing'
<1> USE NamesAssumption DEF db
<1>1. TypeOK' /\ NoWithdrawal'
  <2>1. phase' \in [Exec -> Phases] /\ job' \in [Exec -> Jobs]
    BY DEF Executing, TypeOK, Phases
  <2> QED
    BY <2>1 DEF Executing, TypeOK, NoWithdrawal
<1>2. Derived' /\ PatternDone'
  BY DEF Executing, Derived, PatternDone
<1>3. phase'[n] = "queued" /\ \A f \in Exec \ {n} : phase'[f] = phase[f]
  BY DEF Executing, TypeOK
<1>4. Working'
  BY DEF Working, Busy
<1>5. Rows'
  BY <1>3, NoRows DEF Rows, Early
<1>6. Known'
  BY NoRows DEF Known
<1>7. Passing'
  <2>1. \A f \in Exec : phase'[f] # "sent" /\ child'[f] = None /\ lock' # f
    BY <1>3, NoRows
  <2> QED
    BY <2>1 DEF Passing
<1> QED
  BY <1>1, <1>2, <1>4, <1>5, <1>6, <1>7 DEF Executing

(* A request commits: it writes tasks, and the messages that it sent become
   executions the database knows of. *)
LEMMA RequestCommits ==
  ASSUME Executing, recorded = {}, lock' = None,
         UNCHANGED <<planStatus, worker, budget>>, action' \in Actions,
         taskStatus' \in [Host -> [Task -> Statuses]],
         hostStatus' \in [Host -> Statuses], patternStatus' \in Statuses,
         Derived', PatternDone', recorded' \subseteq Exec,
         \A n \in recorded' : phase[n] # "idle" /\ AtWork(n)',
         \A m, n \in recorded' : job[m].host = job[n].host => m = n
  PROVE  Executing'
<1> USE NamesAssumption DEF worker
<1>1. TypeOK' /\ NoWithdrawal'
  BY DEF Executing, TypeOK, NoWithdrawal
<1>2. \A f \in Exec : /\ phase[f] \in Early \cup {"idle"} /\ ~snap[f].row
                      /\ phase[f] # "sent" /\ child[f] = None
  BY NoRows
<1>3. Working'
  BY DEF Working, Busy
<1>4. Rows'
  BY <1>2 DEF Rows, Early
<1>5. Known'
  BY <1>2 DEF Known
<1>6. Passing'
  BY <1>2 DEF Passing
<1> QED
  BY <1>1, <1>3, <1>4, <1>5, <1>6 DEF Executing

-----------------------------------------------------------------------------
(* The request that starts the pattern. *)

(* It begins with nothing under way. *)
LEMMA StartEdits ==
  ASSUME Executing, Opening, ActionBegin, \A e \in Exec : phase[e] = "idle"
  PROVE  Executing' /\ Opening'
<1> DEFINE ready == {h \in Host : Ready(taskStatus[h]) # {}}
<1>1. /\ lock = None /\ lock' = Web /\ UNCHANGED <<db, worker, budget>>
      /\ action' = [todo |-> ready, started |-> {}, children |-> {}]
  BY DEF ActionBegin, NoAction
<1>2. action' \in Actions /\ budget' \in [FaultKind -> Nat] /\ budget'["finish"] = 0
  BY <1>1 DEF Actions, Executing, TypeOK, NoWithdrawal
<1>3. patternStatus' \in Statuses /\ PatternDone'
  BY <1>1 DEF Executing, TypeOK, PatternDone, db
<1>4. Executing'
  BY <1>1, <1>2, <1>3, RequestSteps DEF db
<1>5. recorded' = {}
  BY <1>1, AllIdle DEF db
<1>6. Opening'
  BY <1>1, <1>5 DEF Opening, db
<1> QED
  BY <1>4, <1>6

LEMMA ActionAbortEdits ==
  ASSUME Executing, Opening, ActionAbort
  PROVE  Executing' /\ Opening'
<1>1. /\ lock = Web /\ lock' = None /\ UNCHANGED <<db, worker>> /\ action' = NoAction
      /\ NoAction \in Actions
  BY DEF ActionAbort, NoAction, Actions
<1>2. budget' \in [FaultKind -> Nat] /\ budget'["finish"] = 0
  BY DEF Executing, TypeOK, NoWithdrawal, ActionAbort, Spend, FaultKind
<1>3. patternStatus' \in Statuses /\ PatternDone'
  BY <1>1 DEF Executing, TypeOK, PatternDone, db
<1>4. Executing'
  BY <1>1, <1>2, <1>3, RequestSteps DEF db
<1>5. Opening'
  BY <1>1, NamesAssumption, NothingOpen
<1> QED
  BY <1>4, <1>5

(* The request sends the first task of one host's chain. *)
LEMMA ActionDispatchEdits ==
  ASSUME Executing, Opening, NEW n \in Exec, ActionDispatch(n)
  PROVE  Executing' /\ Opening'
<1> USE NamesAssumption
<1>1. /\ lock = Web /\ lock' = Web /\ phase[n] = "idle" /\ recorded = {}
      /\ n \notin action.children
      /\ action.todo \subseteq Host /\ action.started \subseteq Host
      /\ action.children \subseteq Exec
      /\ UNCHANGED <<db, verdict, snap, child, budget>>
      /\ phase' = [phase EXCEPT ![n] = "queued"]
  BY DEF ActionDispatch, Fresh, Opening, Executing, TypeOK, Actions
<1>2. PICK h \in Host : h = First(action.todo) /\ h \in action.todo
  <2>1. action.todo \subseteq Nat /\ action.todo # {}
    BY <1>1, HostsAssumption DEF ActionDispatch
  <2> QED
    BY <1>1, <2>1, FirstIsLeast
<1>3. PICK tasks \in SUBSET Task : tasks = Ready(taskStatus[h])
  BY DEF Ready
<1>4. tasks # {} /\ h \notin action.started
  BY <1>1, <1>2, <1>3 DEF Opening
<1>5. PICK t \in Task : t = First(tasks)
  BY <1>4, FirstOfRest
<1>6. PICK j \in Jobs : /\ j = [host |-> h, task |-> t, rest |-> tasks \ {t},
                               finish |-> LastStep /\ action.todo = {h}]
                        /\ job' = [job EXCEPT ![n] = j]
  <2>1. [host |-> h, task |-> t, rest |-> tasks \ {t},
         finish |-> LastStep /\ action.todo = {h}] \in Jobs
    BY LastStepAssumption DEF Jobs
  <2> QED
    BY <1>2, <1>3, <1>5, <2>1 DEF ActionDispatch
<1>7. action' = [todo |-> action.todo \ {h}, started |-> action.started \cup {h},
                 children |-> action.children \cup {n}]
  BY <1>2 DEF ActionDispatch
<1>8. Executing'
  <2>1. action' \in Actions
    BY <1>1, <1>7 DEF Actions
  <2> QED
    BY <1>1, <1>6, <2>1, RequestSends
<1>9. /\ phase'[n] = "queued" /\ job'[n] = j
      /\ \A f \in Exec \ {n} : phase'[f] = phase[f] /\ job'[f] = job[f]
      /\ taskStatus' = taskStatus /\ recorded' = {}
  BY <1>1, <1>6 DEF Executing, TypeOK, db
<1>10. ASSUME NEW m \in action'.children
       PROVE  \E g \in action'.started :
                (LET u == First(Ready(taskStatus[g]))
                 IN Carries(m, g, u, Ready(taskStatus[g]) \ {u}))'
  <2>1. CASE m = n
    <3>1. /\ n \notin recorded' /\ job'[n].host = h
          /\ job'[n].task = First(Ready(taskStatus[h]))
          /\ job'[n].rest = Ready(taskStatus[h]) \ {First(Ready(taskStatus[h]))}
          /\ h \in action'.started
      BY <1>3, <1>5, <1>6, <1>7, <1>9
    <3>2. Carries(m, h, First(Ready(taskStatus[h])),
                  Ready(taskStatus[h]) \ {First(Ready(taskStatus[h]))})'
      BY <1>9, <2>1, <3>1, SMTT(30) DEF Carries, Ready
    <3> QED
      BY <3>1, <3>2
  <2>2. CASE m # n
    <3>1. m \in action.children /\ m \in Exec
      BY <1>1, <1>7, <2>2
    <3>2. PICK g \in action.started :
            Carries(m, g, First(Ready(taskStatus[g])),
                    Ready(taskStatus[g]) \ {First(Ready(taskStatus[g]))})
      BY <3>1 DEF Opening
    <3>3. /\ phase'[m] = phase[m] /\ job'[m] = job[m] /\ m \notin recorded'
          /\ g \in action'.started
      BY <1>7, <1>9, <2>2, <3>1, <3>2
    <3>4. Carries(m, g, First(Ready(taskStatus[g])),
                  Ready(taskStatus[g]) \ {First(Ready(taskStatus[g]))})'
      BY <1>9, <3>2, <3>3 DEF Carries, Ready
    <3> QED
      BY <3>3, <3>4
  <2> QED
    BY <2>1, <2>2
<1>11. ASSUME NEW l \in action'.children, NEW m \in action'.children,
              phase'[l] # "idle", phase'[m] # "idle", job'[l].host = job'[m].host
       PROVE  l = m
  <2>1. \A x \in action.children :
          /\ x \in Exec \ {n} /\ phase'[x] = phase[x] /\ job'[x] = job[x]
          /\ phase[x] # "idle" => job[x].host # h
    <3> SUFFICES ASSUME NEW x \in action.children
                 PROVE  /\ x \in Exec \ {n}
                        /\ phase[x] # "idle" => job[x].host # h
      BY <1>9
    <3>1. PICK g \in action.started :
            Carries(x, g, First(Ready(taskStatus[g])),
                    Ready(taskStatus[g]) \ {First(Ready(taskStatus[g]))})
      BY DEF Opening
    <3> QED
      BY <1>1, <1>4, <3>1 DEF Carries
  <2>2. job'[n].host = h
    BY <1>6, <1>9
  <2>3. \A x, y \in action.children :
          phase[x] # "idle" /\ phase[y] # "idle" /\ job[x].host = job[y].host => x = y
    BY DEF Opening
  <2> QED
    BY <1>7, <1>11, <2>1, <2>2, <2>3
<1>12. Opening'
  <2>1. \A g \in action.todo \cup action.started : Ready(taskStatus[g]) # {}
    BY DEF Opening
  <2>2. action.todo \cap action.started = {}
    BY DEF Opening
  <2>3. /\ action'.todo \cap action'.started = {}
        /\ action'.todo \cup action'.started \subseteq action.todo \cup action.started
    BY <1>2, <1>7, <2>2
  <2>4. \A g \in action'.todo \cup action'.started : Ready(taskStatus[g])' # {}
    BY <1>9, <2>1, <2>3 DEF Ready
  <2> QED
    BY <1>1, <1>9, <1>10, <1>11, <2>3, <2>4 DEF Opening
<1> QED
  BY <1>8, <1>12

(* It commits: the first task of every started host is running, and the
   messages sent for them are now executions the database knows of. *)
LEMMA ActionCommitEdits ==
  ASSUME Executing, Opening, ActionCommit
  PROVE  Executing' /\ Opening'
<1> USE NamesAssumption
<1>1. /\ lock = Web /\ lock' = None /\ action' = NoAction /\ recorded = {}
      /\ UNCHANGED <<planStatus, worker, budget>> /\ action.children \subseteq Exec
      /\ recorded' = {n \in action.children : phase[n] # "idle"}
  BY DEF ActionCommit, Opening, Executing, TypeOK, Actions
<1>2. PICK S \in SUBSET Host : S = action.started
  BY DEF Executing, TypeOK, Actions
<1>3. PICK first : first = [h \in Host |-> First(Ready(taskStatus[h]))]
  OBVIOUS
<1>4. PICK tasks : /\ tasks = [h \in Host |->
                         IF h \in S THEN [taskStatus[h] EXCEPT ![first[h]] = Running]
                         ELSE taskStatus[h]]
                   /\ taskStatus' = tasks
  BY <1>2, <1>3 DEF ActionCommit
<1>5. PICK hosts : /\ hosts = [h \in Host |->
                         IF h \in S THEN CheckStatus(Values(tasks[h]))
                         ELSE hostStatus[h]]
                   /\ hostStatus' = hosts
                   /\ patternStatus' = CheckStatus(Values(hosts))
  <2>1. tasks = [h \in Host |->
          IF h \in action.started
          THEN [taskStatus[h] EXCEPT ![First(Ready(taskStatus[h]))] = Running]
          ELSE taskStatus[h]]
    BY <1>2, <1>3, <1>4
  <2> QED
    BY <1>2, <2>1 DEF ActionCommit
<1>6. \A h \in S : /\ first[h] \in Ready(taskStatus[h]) /\ first[h] \in Task
                   /\ \A u \in Ready(taskStatus[h]) : taskStatus[h][u] # Done
                   /\ taskStatus[h] \in [Task -> Statuses]
  <2> SUFFICES ASSUME NEW h \in S
               PROVE  /\ first[h] \in Ready(taskStatus[h]) /\ first[h] \in Task
                      /\ \A u \in Ready(taskStatus[h]) : taskStatus[h][u] # Done
                      /\ taskStatus[h] \in [Task -> Statuses]
    OBVIOUS
  <2>1. h \in Host /\ taskStatus[h] \in [Task -> Statuses]
    BY DEF Executing, TypeOK
  <2>2. PICK T \in SUBSET Task : T = Ready(taskStatus[h])
    BY DEF Ready
  <2>3. T # {} /\ \A u \in T : taskStatus[h][u] # Done
    BY <1>2, <2>2 DEF Opening, Ready
  <2>4. First(T) \in T
    BY <2>3, FirstOfRest
  <2> QED
    BY <1>3, <2>1, <2>2, <2>3, <2>4
<1>7. \A h \in S : /\ tasks[h] \in [Task -> Statuses]
                   /\ tasks[h][first[h]] = Running
                   /\ \A u \in Ready(taskStatus[h]) : tasks[h][u] # Done
  <2> SUFFICES ASSUME NEW h \in S
               PROVE  /\ tasks[h] \in [Task -> Statuses]
                      /\ tasks[h][first[h]] = Running
                      /\ \A u \in Ready(taskStatus[h]) : tasks[h][u] # Done
    OBVIOUS
  <2>1. PICK t \in Task : t = first[h] /\ taskStatus[h] \in [Task -> Statuses]
    BY <1>6
  <2>2. tasks[h] = [taskStatus[h] EXCEPT ![t] = Running]
    BY <1>4, <2>1
  <2>3. Ready(taskStatus[h]) \subseteq Task
    BY DEF Ready
  <2>4. tasks[h] \in [Task -> Statuses] /\ tasks[h][t] = Running
    BY <2>1, <2>2
  <2>5. ASSUME NEW u \in Ready(taskStatus[h])
        PROVE  tasks[h][u] # Done
    <3>1. taskStatus[h][u] # Done /\ u \in Task
      BY <1>6, <2>3
    <3> QED
      BY <2>1, <2>2, <3>1
  <2> QED
    BY <2>1, <2>4, <2>5
<1>8. \A h \in Host \ S : tasks[h] = taskStatus[h] /\ hosts[h] = hostStatus[h]
  BY <1>4, <1>5
<1>9. \A h \in S : hosts[h] = CheckStatus(Values(tasks[h]))
  BY <1>5
<1>10. tasks \in [Host -> [Task -> Statuses]]
  <2>1. \A h \in Host : tasks[h] \in [Task -> Statuses]
    BY <1>7, <1>8 DEF Executing, TypeOK
  <2> QED
    BY <1>4, <2>1
<1>11. hosts \in [Host -> Statuses]
  <2>1. \A h \in Host : hosts[h] \in Statuses
    BY <1>8, <1>9, CheckStatusType DEF Executing, TypeOK
  <2> QED
    BY <1>5, <2>1
<1>12. Derived'
  <2>1. ASSUME NEW h \in Host
        PROVE  hosts[h] = CheckStatus(Values(tasks[h]))
    BY <1>8, <1>9 DEF Executing, Derived
  <2> QED
    BY <1>4, <1>5, <2>1 DEF Derived
<1>13. PatternDone'
  <2>1. ASSUME CheckStatus(Values(hosts)) = Done
        PROVE  \A h \in Host : hosts[h] = Done
    BY <1>11, <2>1, CheckDone, ZenonT(30)
  <2> QED
    BY <1>5, <2>1 DEF PatternDone
<1>14. ASSUME NEW n \in recorded'
       PROVE  phase[n] # "idle" /\ AtWork(n)'
  <2>1. n \in action.children /\ n \in Exec /\ phase[n] # "idle"
    BY <1>1
  <2>2. PICK h \in S :
          Carries(n, h, First(Ready(taskStatus[h])),
                  Ready(taskStatus[h]) \ {First(Ready(taskStatus[h]))})
    BY <1>2, <2>1 DEF Opening
  <2>3. PICK t \in Task : t = first[h] /\ t = First(Ready(taskStatus[h]))
    BY <1>3, <1>6
  <2>4. PICK rest : rest = Ready(taskStatus[h]) \ {t}
    OBVIOUS
  <2>5. job'[n] = job[n] /\ job[n].host = h /\ job[n].task = t /\ job[n].rest = rest
    BY <1>1, <2>1, <2>2, <2>3, <2>4 DEF Carries, worker
  <2>6. phase'[n] \in Early
    BY <1>1, <2>1, NoRows DEF worker
  <2>7. t \notin rest /\ taskStatus'[h][t] = Running
        /\ \A u \in rest : taskStatus'[h][u] # Done
    BY <1>4, <1>7, <2>3, <2>4
  <2> QED
    BY <2>1, <2>5, <2>6, <2>7, AtWorkNext
<1>15. \A m, n \in recorded' : job[m].host = job[n].host => m = n
  BY <1>1 DEF Opening
<1>16. /\ action' \in Actions /\ patternStatus' \in Statuses /\ recorded' \subseteq Exec
       /\ taskStatus' \in [Host -> [Task -> Statuses]] /\ hostStatus' \in [Host -> Statuses]
  BY <1>1, <1>4, <1>5, <1>10, <1>11, CheckStatusType DEF NoAction, Actions
<1>17. Executing'
  BY <1>1, <1>12, <1>13, <1>14, <1>15, <1>16, RequestCommits
<1>18. Opening'
  BY <1>1, NothingOpen
<1> QED
  BY <1>17, <1>18

-----------------------------------------------------------------------------
(* The operator's requests. *)

(* While his request is open the executions move on only its own message. *)
LEMMA WorkerAlone ==
  ASSUME Executing, hand \in Hands, HandAlone, UNCHANGED hand,
         NEW e \in Exec, Worker_Step(e) \/ Fault_Step(e)
  PROVE  HandAlone'
<1> SUFFICES ASSUME hand # NoHand
             PROVE  HandAlone'
  BY DEF HandAlone
<1>1. /\ hand.at # "idle" /\ action = NoAction /\ recorded = {}
      /\ hand.snap.task = taskStatus /\ hand.snap.host = hostStatus
      /\ hand.at \in {"running", "editing"} =>
           lock = None /\ \A f \in Exec : phase[f] = "idle"
      /\ hand.at = "sent" =>
           /\ lock = Web /\ hand.child \in Exec
           /\ \A f \in Exec \ {hand.child} : phase[f] = "idle"
           /\ Carries(hand.child, hand.host, hand.task, {})
  BY DEF HandAlone
<1>2. e \notin recorded
  BY <1>1
<1>3. /\ UNCHANGED <<taskStatus, hostStatus, recorded, lock>>
      /\ phase[e] # "idle" /\ (phase'[e] # "idle" => job'[e] = job[e])
      /\ \A f \in Exec \ {e} : phase'[f] = phase[f] /\ job'[f] = job[f]
  BY <1>2, Rowless
<1>4. UNCHANGED action
  BY WorkerLock
<1>5. hand.at = "sent"
  BY <1>1, <1>3 DEF Hands
<1>6. e = hand.child
  BY <1>1, <1>3, <1>5
<1>7. Carries(hand.child, hand.host, hand.task, {})'
  BY <1>1, <1>3, <1>5, <1>6 DEF Carries
<1> QED
  BY <1>1, <1>3, <1>4, <1>5, <1>6, <1>7 DEF HandAlone

(* A step that changes nothing of the pattern. *)
LEMMA StillPattern ==
  ASSUME Executing, Opening, UNCHANGED vars
  PROVE  Executing' /\ Opening'
<1> USE DEF vars, db, worker
<1>1. TypeOK' /\ NoWithdrawal' /\ Derived' /\ PatternDone' /\ Rows'
  BY DEF Executing, TypeOK, NoWithdrawal, Derived, PatternDone, Rows
<1>2. Working'
  BY DEF Executing, Working, Busy, AtWork
<1>3. Known'
  BY DEF Executing, Known, Knows, Saw, Busy
<1>4. Passing'
  BY DEF Executing, Passing, Carries
<1>5. Opening'
  BY OpeningKept DEF Executing
<1> QED
  BY <1>1, <1>2, <1>3, <1>4, <1>5 DEF Executing

(* A request is taken up when nothing is under way. *)
LEMMA AcceptEdits ==
  ASSUME EditsInv, Alone, NEW h \in Host, NEW request \in Hands, Accept(h, request),
         request.at \in {"running", "editing"}
  PROVE  EditsInv'
<1>1. hand = NoHand /\ lock # Web /\ UNCHANGED vars /\ \A e \in Exec : phase[e] = "idle"
  BY DEF Accept, Waits
<1>2. PICK z \in Snaps : /\ z = [row |-> TRUE, task |-> taskStatus, host |-> hostStatus]
                         /\ z.task = taskStatus /\ z.host = hostStatus
  <2>1. /\ taskStatus \in [Host -> [Task -> Statuses]]
        /\ hostStatus \in [Host -> Statuses]
    BY DEF EditsInv, Executing, TypeOK
  <2>2. [row |-> TRUE, task |-> taskStatus, host |-> hostStatus] \in Snaps
    BY <2>1 DEF Snaps
  <2> QED
    BY <2>2
<1>3. hand' = [request EXCEPT !.host = h, !.snap = z]
  BY <1>2 DEF Accept
<1>4. /\ hand' \in Hands /\ hand'.at = request.at
      /\ hand'.snap.task = taskStatus /\ hand'.snap.host = hostStatus
  BY <1>2, <1>3 DEF Hands
<1>5. action = NoAction /\ recorded = {} /\ lock = None
  BY <1>1, AllIdle DEF EditsInv, Opening
<1>6. HandAlone'
  BY <1>1, <1>4, <1>5 DEF HandAlone, vars, db, worker
<1>7. Executing' /\ Opening'
  BY <1>1, StillPattern DEF EditsInv
<1> QED
  BY <1>4, <1>6, <1>7 DEF EditsInv

LEMMA NoHandType == NoHand \in Hands
<1>1. 1 \in Host /\ 1 \in Task
  BY HostsAssumption, TasksAssumption
<1> QED
  BY <1>1, NoSnapType DEF NoHand, Hands

(* It ends, or it is rolled back. *)
LEMMA HandEnds ==
  ASSUME hand' = NoHand, Executing', Opening'
  PROVE  EditsInv'
BY NoHandType DEF EditsInv, HandAlone

(* What an open request of the operator has found: the state of the moment,
   and nobody else's request. *)
LEMMA HandFound ==
  ASSUME EditsInv, hand.at # "idle"
  PROVE  /\ action = NoAction /\ NoAction \in Actions /\ recorded = {}
         /\ hand.host \in Host /\ hand.task \in Task /\ hand.snap \in Snaps
         /\ hand.snap.task = taskStatus /\ hand.snap.host = hostStatus
<1>1. hand # NoHand
  BY DEF NoHand
<1> QED
  BY <1>1 DEF EditsInv, HandAlone, Hands, NoAction, Actions

LEMMA HandSendEdits ==
  ASSUME EditsInv, NEW n \in Exec, HandSend(n)
  PROVE  EditsInv'
<1> USE NamesAssumption
<1>1. /\ hand.at = "running" /\ lock' = Web /\ phase[n] = "idle"
      /\ phase' = [phase EXCEPT ![n] = "queued"]
      /\ hand' = [hand EXCEPT !.at = "sent", !.child = n]
      /\ UNCHANGED <<db, verdict, snap, child, action, budget>>
  BY DEF HandSend, Fresh
<1>2. /\ action = NoAction /\ NoAction \in Actions /\ recorded = {}
      /\ hand.host \in Host /\ hand.task \in Task
      /\ hand.snap.task = taskStatus /\ hand.snap.host = hostStatus
      /\ \A e \in Exec : phase[e] = "idle"
  <2>1. hand # NoHand
    BY <1>1 DEF NoHand
  <2> QED
    BY <1>1, <2>1, HandFound DEF EditsInv, HandAlone
<1>3. PICK j \in Jobs : /\ j = [host |-> hand.host, task |-> hand.task,
                               rest |-> {}, finish |-> FALSE]
                        /\ job' = [job EXCEPT ![n] = j]
  <2>1. [host |-> hand.host, task |-> hand.task, rest |-> {}, finish |-> FALSE] \in Jobs
    BY <1>2 DEF Jobs
  <2> QED
    BY <2>1 DEF HandSend
<1>4. Executing'
  BY <1>1, <1>2, <1>3, RequestSends DEF EditsInv
<1>5. Opening'
  BY <1>1, <1>2, NothingOpen DEF db
<1>6. /\ hand' \in Hands /\ hand'.at = "sent" /\ hand'.child = n
      /\ hand'.host = hand.host /\ hand'.task = hand.task /\ hand'.snap = hand.snap
  BY <1>1 DEF EditsInv, Hands
<1>7. /\ job'[n] = j /\ \A e \in Exec \ {n} : phase'[e] = "idle"
      /\ recorded' = {} /\ taskStatus' = taskStatus /\ hostStatus' = hostStatus
  BY <1>1, <1>2, <1>3 DEF EditsInv, Executing, TypeOK, db
<1>8. Carries(n, hand.host, hand.task, {})'
  BY <1>3, <1>6, <1>7 DEF Carries
<1>9. HandAlone'
  BY <1>1, <1>2, <1>6, <1>7, <1>8 DEF HandAlone
<1> QED
  BY <1>4, <1>5, <1>6, <1>9 DEF EditsInv

LEMMA HandCommitEdits ==
  ASSUME EditsInv, HandCommit
  PROVE  EditsInv'
<1> USE NamesAssumption
<1>1. /\ hand.at = "sent" /\ lock' = None /\ hand' = NoHand
      /\ UNCHANGED <<planStatus, worker, action, budget>>
      /\ recorded' = recorded \cup {n \in {hand.child} : phase[n] # "idle"}
  BY DEF HandCommit
<1>2. PICK h \in Host, t \in Task, seen \in Snaps, c \in Exec :
        h = hand.host /\ t = hand.task /\ seen = hand.snap /\ c = hand.child
  <2>1. hand # NoHand
    BY <1>1 DEF NoHand
  <2> QED
    BY <1>1, <2>1, HandFound DEF EditsInv, HandAlone
<1>3. /\ action = NoAction /\ NoAction \in Actions /\ recorded = {}
      /\ seen.task = taskStatus /\ seen.host = hostStatus
      /\ phase[c] # "idle" => job[c].host = h /\ job[c].task = t /\ job[c].rest = {}
  <2>1. hand # NoHand
    BY <1>1 DEF NoHand
  <2>2. Carries(c, h, t, {})
    BY <1>1, <1>2, <2>1 DEF EditsInv, HandAlone
  <2> QED
    BY <1>1, <1>2, <2>2, HandFound DEF Carries
<1>4. Saw(h, seen) /\ Write(h, t, Running, seen)
  BY <1>2, <1>3 DEF Saw, HandCommit
<1>5. Wrote(h, t, Running)
  BY <1>4, KnownWrite DEF EditsInv, Executing
<1>6. /\ taskStatus' \in [Host -> [Task -> Statuses]]
      /\ hostStatus' \in [Host -> Statuses] /\ patternStatus' \in Statuses
      /\ taskStatus'[h][t] = Running /\ Derived' /\ PatternDone'
  <2>1. /\ taskStatus'[h] = [taskStatus[h] EXCEPT ![t] = Running]
        /\ taskStatus[h] \in [Task -> Statuses]
    BY <1>5 DEF Wrote, EditsInv, Executing, TypeOK
  <2> QED
    BY <1>5, <2>1 DEF Wrote
<1>7. ASSUME NEW n \in recorded'
      PROVE  n = c /\ phase[n] # "idle" /\ AtWork(n)'
  <2>1. n = c /\ phase[n] # "idle"
    BY <1>1, <1>2, <1>3
  <2>2. PICK rest : rest = {}
    OBVIOUS
  <2>3. /\ job'[c].host = h /\ job'[c].task = t /\ job'[c].rest = rest
        /\ t \notin rest /\ \A u \in rest : taskStatus'[h][u] # Done
    BY <1>1, <1>3, <2>1, <2>2 DEF worker
  <2>4. phase'[c] \in Early
    BY <1>1, <1>3, <2>1, NoRows DEF worker, EditsInv
  <2>5. AtWork(c)'
    BY <1>6, <2>3, <2>4, AtWorkNext
  <2> QED
    BY <2>1, <2>5
<1>8. recorded' \subseteq Exec /\ action' \in Actions /\ action' = NoAction
  BY <1>1, <1>3, <1>7
<1>9. Executing'
  BY <1>1, <1>3, <1>6, <1>7, <1>8, RequestCommits DEF EditsInv
<1>10. Opening'
  BY <1>1, <1>8, NothingOpen
<1> QED
  BY <1>1, <1>9, <1>10, HandEnds

(* A host set to a status has tasks of that status only. *)
LEMMA AllAlike ==
  ASSUME NEW v \in Statuses, NEW s, s = [t \in Task |-> v]
  PROVE  CheckStatus(Values(s)) = v
<1>1. 1 \in Task
  BY TasksAssumption
<1>2. \A w : w \in Values(s) <=> w = v
  BY <1>1 DEF Values
<1>3. /\ (Running \in Values(s) <=> v = Running) /\ (Failed \in Values(s) <=> v = Failed)
      /\ (Pending \in Values(s) <=> v = Pending) /\ (Done \in Values(s) <=> v = Done)
  BY <1>2
<1> QED
  BY <1>3 DEF CheckStatus

LEMMA EditCommitEdits ==
  ASSUME EditsInv, EditCommit
  PROVE  EditsInv'
<1> USE NamesAssumption
<1>1. /\ hand.at = "editing" /\ lock = None /\ hand' = NoHand
      /\ UNCHANGED <<planStatus, recorded, worker, lock, action, budget>>
  BY DEF EditCommit
<1>2. /\ action = NoAction /\ NoAction \in Actions /\ recorded = {}
      /\ hand.host \in Host /\ hand.snap.task = taskStatus
      /\ hand.snap.host = hostStatus
  BY <1>1, HandFound
<1>3. PICK h \in Host : h = hand.host
  BY <1>2
<1>14. PICK v \in Statuses : v = hand.status
  BY DEF EditsInv, Hands
<1>4. PICK alike : alike = [t \in Task |-> v]
  OBVIOUS
<1>5. /\ taskStatus \in [Host -> [Task -> Statuses]] /\ hostStatus \in [Host -> Statuses]
      /\ taskStatus[h] \in [Task -> Statuses]
  BY DEF EditsInv, Executing, TypeOK
<1>6. taskStatus' = [taskStatus EXCEPT ![h] = alike]
  <2>1. taskStatus' = [taskStatus EXCEPT ![h] =
          [t \in Task |-> IF taskStatus[h][t] = v THEN @[t] ELSE v]]
    BY <1>2, <1>3, <1>14 DEF EditCommit
  <2>2. [t \in Task |-> IF taskStatus[h][t] = v THEN taskStatus[h][t] ELSE v]
          = alike
    BY <1>4
  <2> QED
    BY <1>5, <2>1, <2>2
<1>7. PICK hosts \in [Host -> Statuses] :
        /\ hosts = [hostStatus EXCEPT ![h] = v]
        /\ hostStatus' = hosts /\ patternStatus' = CheckStatus(Values(hosts))
  BY <1>2, <1>3, <1>5, <1>14 DEF EditCommit, SetsHost
<1>8. taskStatus' \in [Host -> [Task -> Statuses]] /\ patternStatus' \in Statuses
  BY <1>4, <1>5, <1>6, <1>7, CheckStatusType
<1>9. Derived'
  <2>1. CheckStatus(Values(alike)) = v
    BY <1>4, AllAlike
  <2>2. /\ taskStatus'[h] = alike /\ hosts[h] = v
        /\ \A g \in Host \ {h} : taskStatus'[g] = taskStatus[g] /\ hosts[g] = hostStatus[g]
    BY <1>5, <1>6, <1>7
  <2>3. \A g \in Host : hostStatus[g] = CheckStatus(Values(taskStatus[g]))
    BY DEF EditsInv, Executing, Derived
  <2>4. ASSUME NEW g \in Host
        PROVE  hostStatus'[g] = CheckStatus(Values(taskStatus'[g]))
    BY <1>7, <2>1, <2>2, <2>3
  <2> QED
    BY <2>4 DEF Derived
<1>10. PatternDone'
  <2>1. hosts[h] = v
    BY <1>5, <1>7
  <2>2. CheckStatus(Values(hosts)) = Done => \A g \in Host : hosts[g] = Done
    BY CheckDone, Zenon
  <2> QED
    BY <1>7, <2>1, <2>2 DEF PatternDone
<1>11. recorded' = {} /\ lock' = None /\ action' = NoAction
  BY <1>1, <1>2
<1>12. Executing'
  BY <1>1, <1>2, <1>7, <1>8, <1>9, <1>10, <1>11, RequestCommits DEF EditsInv
<1>13. Opening'
  BY <1>11, NothingOpen
<1> QED
  BY <1>1, <1>12, <1>13, HandEnds

LEMMA HandAbortEdits ==
  ASSUME EditsInv, HandAbort
  PROVE  EditsInv'
BY StillPattern, HandEnds DEF HandAbort, EditsInv

(* The pattern is not set to done. *)
LEMMA EditPatternEdits ==
  ASSUME EditsInv, Done \notin PatternSet, NEW s \in PatternSet, EditPattern(s)
  PROVE  EditsInv'
<1>1. /\ lock = None /\ lock' = None /\ hand' = NoHand
      /\ UNCHANGED <<taskStatus, hostStatus, planStatus, recorded, worker, action, budget>>
      /\ patternStatus' = s /\ s \in Statuses /\ s # Done
  BY StatusSetsAssumption DEF EditPattern
<1>2. PatternDone'
  BY <1>1 DEF PatternDone
<1>3. action' \in Actions /\ budget' \in [FaultKind -> Nat] /\ budget'["finish"] = 0
  BY <1>1 DEF EditsInv, Executing, TypeOK, NoWithdrawal
<1>4. Executing'
  BY <1>1, <1>2, <1>3, RequestSteps DEF EditsInv
<1>5. Opening'
  BY <1>1, NamesAssumption, OpeningKept DEF EditsInv, Executing
<1> QED
  BY <1>1, <1>4, <1>5, HandEnds

-----------------------------------------------------------------------------
(* The initial state, and every step. *)

LEMMA EditsInitInv ==
  ASSUME EditsInit, Budget["finish"] = 0
  PROVE  EditsInv
<1>1. IInv
  BY InitInv DEF EditsInit
<1>2. \A e \in Exec : phase[e] = "idle" /\ ~snap[e].row /\ child[e] = None /\ ~Busy(e)
  BY DEF EditsInit, Init, NoSnap, Busy
<1>3. lock = None /\ action = NoAction /\ NoAction.todo = {} /\ NoAction.started = {}
      /\ NoAction.children = {}
  BY DEF EditsInit, Init, NoAction
<1>4. Working /\ Known
  BY <1>2 DEF Working, Known
<1>5. Passing
  BY <1>2, <1>3, NamesAssumption DEF Passing
<1>6. Executing
  BY <1>1, <1>4, <1>5 DEF IInv, Executing
<1>7. Opening
  BY <1>3, NamesAssumption DEF Opening
<1> QED
  BY <1>6, <1>7, NoHandType DEF EditsInit, EditsInv, HandAlone

LEMMA OperatorEdits ==
  ASSUME EditsInv, Alone, Done \notin PatternSet, Operator
  PROVE  EditsInv'
<1>1. CASE \E h \in Host, t \in HandTasks : HandBegin(h, t)
  <2>1. PICK h \in Host, t \in Task : HandBegin(h, t)
    BY <1>1, HandTasksAssumption
  <2>2. PICK request \in Hands :
          request = [NoHand EXCEPT !.at = "running", !.task = t]
    BY NoHandType DEF NoHand, Hands
  <2>3. Accept(h, request) /\ request.at = "running"
    BY <2>1, <2>2 DEF HandBegin, NoHand
  <2> QED
    BY <2>3, AcceptEdits
<1>2. CASE \E h \in EditHosts, s \in HostSet : EditBegin(h, s)
  <2>1. PICK h \in Host, s \in Statuses, locked \in BOOLEAN :
          Accept(h, [NoHand EXCEPT !.at = "editing", !.status = s, !.locked = locked])
    BY <1>2, EditHostsAssumption, StatusSetsAssumption DEF EditBegin
  <2>2. PICK request \in Hands :
          request = [NoHand EXCEPT !.at = "editing", !.status = s, !.locked = locked]
    BY NoHandType DEF NoHand, Hands
  <2>3. Accept(h, request) /\ request.at = "editing"
    BY <2>1, <2>2 DEF NoHand
  <2> QED
    BY <2>3, AcceptEdits
<1>3. CASE \E n \in Exec : HandSend(n)
  BY <1>3, HandSendEdits
<1>4. CASE HandCommit
  BY <1>4, HandCommitEdits
<1>5. CASE EditCommit
  BY <1>5, EditCommitEdits
<1>6. CASE HandAbort
  BY <1>6, HandAbortEdits
<1>7. CASE \E s \in PatternSet : EditPattern(s)
  BY <1>7, EditPatternEdits
<1> QED
  BY <1>1, <1>2, <1>3, <1>4, <1>5, <1>6, <1>7 DEF Operator

LEMMA EditsNextInv ==
  ASSUME EditsInv, Alone, Done \notin PatternSet, [EditsNext]_editVars
  PROVE  EditsInv'
<1>1. ASSUME Executing', Opening', hand = NoHand, UNCHANGED hand
      PROVE  EditsInv'
  BY <1>1, HandEnds
<1>2. CASE Start
  BY <1>1, <1>2, StartEdits DEF Start, EditsInv
<1>3. CASE Server
  <2>1. Executing' /\ Opening'
    BY <1>3, ActionDispatchEdits, ActionCommitEdits, ActionAbortEdits
    DEF Server, Web_Step, EditsInv
  <2> QED
    BY <1>1, <1>3, <2>1 DEF Server
<1>4. CASE Operator
  BY <1>4, OperatorEdits
<1>5. ASSUME NEW e \in Exec, Workers(e)
      PROVE  EditsInv'
  <2>1. Executing' /\ Opening'
    BY <1>5, WorkerEdits, WorkerOpening DEF Workers, EditsInv
  <2>2. HandAlone' /\ UNCHANGED hand
    BY <1>5, WorkerAlone DEF Workers, EditsInv
  <2> QED
    BY <2>1, <2>2 DEF EditsInv
<1>6. CASE UNCHANGED editVars
  <2>1. Executing' /\ Opening' /\ hand' = hand
    BY <1>6, StillPattern DEF editVars, EditsInv
  <2>2. HandAlone'
    BY <1>6 DEF editVars, vars, db, worker, EditsInv, HandAlone, Carries
  <2> QED
    BY <2>1, <2>2 DEF EditsInv
<1> QED
  BY <1>2, <1>3, <1>4, <1>5, <1>6 DEF EditsNext

-----------------------------------------------------------------------------
(* The theorems.  They assume the care the operator takes: Alone, and that he
   does not set the pattern itself to done. *)

THEOREM EditsInvariance ==
  ASSUME Alone, Done \notin PatternSet, Budget["finish"] = 0
  PROVE  EditsSpec => []EditsInv
<1>1. EditsInit => EditsInv
  BY EditsInitInv
<1>2. EditsInv /\ [EditsNext]_editVars => EditsInv'
  BY EditsNextInv
<1> QED
  BY <1>1, <1>2, PTL DEF EditsSpec

(* The types hold with an operator at work, his open request's included. *)
THEOREM EditsTypeCorrect ==
  ASSUME Alone, Done \notin PatternSet, Budget["finish"] = 0
  PROVE  EditsSpec => []EditsTypeOK
<1>1. EditsInv => EditsTypeOK
  BY DEF EditsInv, Executing, EditsTypeOK
<1> QED
  BY <1>1, EditsInvariance, PTL

(* A host is done only when every task of it is. *)
LEMMA TasksDone ==
  \A f \in [Task -> Statuses] :
    CheckStatus(Values(f)) = Done => \A t \in Task : f[t] = Done
<1> SUFFICES ASSUME NEW f \in [Task -> Statuses], CheckStatus(Values(f)) = Done
             PROVE  \A t \in Task : f[t] = Done
  OBVIOUS
<1> QED
  BY CheckDone, Zenon

(* A pattern shown as done is done on every host, to the last task, also when
   hosts are set to another status and tasks run by hand in the meantime. *)
THEOREM EditedDoneIsDone ==
  ASSUME Alone, Done \notin PatternSet, Budget["finish"] = 0
  PROVE  EditsSpec => []DoneIsDone
<1>1. EditsInv => DoneIsDone
  <2> SUFFICES ASSUME EditsInv, patternStatus = Done, NEW h \in Host
               PROVE  /\ hostStatus[h] = Done
                      /\ \A t \in Task : taskStatus[h][t] = Done
    BY DEF DoneIsDone
  <2>1. hostStatus[h] = Done
    BY DEF EditsInv, Executing, PatternDone
  <2>2. PICK f \in [Task -> Statuses] : f = taskStatus[h]
    BY DEF EditsInv, Executing, TypeOK
  <2>3. CheckStatus(Values(f)) = Done
    BY <2>1, <2>2 DEF EditsInv, Executing, Derived
  <2>4. \A t \in Task : f[t] = Done
    BY <2>3, TasksDone
  <2> QED
    BY <2>1, <2>2, <2>4
<1> QED
  BY <1>1, EditsInvariance, PTL

=============================================================================
