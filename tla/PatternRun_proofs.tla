------------------------- MODULE PatternRun_proofs --------------------------
(***************************************************************************)
(* Proofs about PatternRun, for any number of hosts, tasks and executions. *)
(***************************************************************************)
EXTENDS PatternRunInv, WellFoundedInduction, TLAPS

USE DEF Host, Task, Statuses, Pending, Running, Done, Failed

-----------------------------------------------------------------------------
(* Lemmas about the operators the model is built from. *)

(* First picks the least element of any non-empty set of naturals. *)
LEMMA FirstIsLeast ==
  ASSUME NEW T, T \subseteq Nat, T # {}
  PROVE  First(T) \in T /\ \A u \in T : First(T) <= u
<1>1. PICK t \in T : \A u \in T : <<u, t>> \notin OpToRel(<, Nat)
  BY NatLessThanWellFounded, WFMin
<1>2. ASSUME NEW u \in T, u < t
      PROVE  FALSE
  <2>1. <<u, t>> \in Nat \X Nat /\ <<u, t>>[1] < <<u, t>>[2]
    BY <1>2
  <2>2. <<u, t>> \in OpToRel(<, Nat)
    BY <2>1 DEF OpToRel
  <2>3. QED
    BY <1>1, <2>2
<1>3. \A u \in T : t <= u
  BY <1>2
<1>4. QED
  BY <1>3 DEF First

(* check_status returns one of the four status codes. *)
LEMMA CheckStatusType == \A S : CheckStatus(S) \in Statuses
  BY DEF CheckStatus

(* One running child makes the parent running. *)
LEMMA CheckRunning ==
  ASSUME NEW D, NEW f \in [D -> Statuses], NEW x \in D, f[x] = Running
  PROVE  CheckStatus(Values(f)) = Running
<1>1. Running \in Values(f)
  BY DEF Values
<1>2. QED
  BY <1>1 DEF CheckStatus

(* A parent is done only when every child is done. *)
LEMMA CheckDone ==
  ASSUME NEW D, NEW f \in [D -> Statuses], CheckStatus(Values(f)) = Done
  PROVE  \A x \in D : f[x] = Done
<1> SUFFICES ASSUME NEW x \in D, f[x] # Done
             PROVE  FALSE
  OBVIOUS
<1>1. f[x] \in Values(f)
  BY DEF Values
<1>2. QED
  BY <1>1 DEF CheckStatus

(* At the frontier of its host, an unfinished chain shows as running: either
   the frontier task runs, or it is done and a later one is pending. *)
LEMMA FrontierRunning ==
  ASSUME NEW s \in [Task -> Statuses], NEW t \in Task, Frontier(s, t),
         s[t] = Running \/ (s[t] = Done /\ Later(t) # {})
  PROVE  CheckStatus(Values(s)) = Running
<1>1. CASE s[t] = Running
  BY <1>1, CheckRunning
<1>2. CASE s[t] = Done /\ Later(t) # {}
  <2>1. PICK u \in Task : u > t
    BY <1>2 DEF Later
  <2>2. s[u] = Pending
    BY <2>1 DEF Frontier
  <2>3. Pending \in Values(s) /\ Done \in Values(s)
    BY <1>2, <2>2 DEF Values
  <2>4. Running \notin Values(s) /\ Failed \notin Values(s)
    BY <1>2, TasksAssumption DEF Values, Frontier
  <2>5. QED
    BY <2>3, <2>4 DEF CheckStatus
<1>3. QED
  BY <1>1, <1>2

(* A host with something to do stands at a frontier whose task is pending or
   failed; what it has to do is that task, the first, and all later ones. *)
LEMMA ReadyFrontier ==
  ASSUME NEW s \in [Task -> Statuses], NEW k \in Task, Frontier(s, k),
         Ready(s) # {}
  PROVE  LET t == First(Ready(s))
         IN /\ t \in Task
            /\ Frontier(s, t)
            /\ s[t] \in {Pending, Failed}
            /\ Ready(s) \ {t} = Later(t)
<1> USE TasksAssumption
<1> DEFINE t == First(Ready(s))
<1>1. Ready(s) \subseteq Task /\ Ready(s) \subseteq Nat
  BY DEF Ready
<1>2. t \in Ready(s) /\ \A u \in Ready(s) : t <= u
  BY <1>1, FirstIsLeast
<1>3. t \in Task /\ s[t] \in {Pending, Failed} /\ \A u \in 1..t : s[u] # Running
  BY <1>2 DEF Ready
<1> HIDE DEF t
<1>4. Frontier(s, t)
  <2>1. CASE t = k
    BY <2>1
  <2>2. CASE t < k
    BY <1>3, <2>2 DEF Frontier
  <2>3. CASE t > k
    <3>1. s[k] \notin {Pending, Failed}
      <4> SUFFICES ASSUME s[k] \in {Pending, Failed}
                   PROVE  k \in Ready(s)
        BY <1>2, <1>3, <2>3
      <4> QED
        BY <1>3, <2>3 DEF Ready
    <3>2. s[k] = Done
      BY <1>3, <2>3, <3>1
    <3>3. t = k + 1
      <4> SUFFICES ASSUME t > k + 1
                   PROVE  FALSE
        BY <1>3, <2>3
      <4>1. k + 1 \in Task /\ s[k + 1] = Pending
        BY <1>3 DEF Frontier
      <4>2. k + 1 \in Ready(s)
        BY <1>3, <4>1 DEF Ready
      <4> QED
        BY <1>2, <1>3, <4>2
    <3> QED
      BY <3>2, <3>3 DEF Frontier
  <2> QED
    BY <1>3, <2>1, <2>2, <2>3
<1>5. Ready(s) \ {t} = Later(t)
  <2>1. ASSUME NEW u \in Ready(s), u # t
        PROVE  u \in Later(t)
    BY <1>2, <1>3, <2>1 DEF Ready, Later
  <2>2. ASSUME NEW u \in Later(t)
        PROVE  u \in Ready(s) /\ u # t
    BY <1>3, <1>4, <2>2 DEF Ready, Later, Frontier
  <2> QED
    BY <2>1, <2>2
<1> QED
  BY <1>3, <1>4, <1>5 DEF t

-----------------------------------------------------------------------------
(* The initial state. *)

LEMMA InitInv ==
  ASSUME Init, Budget["finish"] = 0
  PROVE  IInv
<1> USE HostsAssumption, TasksAssumption, PlanAssumption, BudgetAssumption,
        NamesAssumption
<1>1. TypeOK
  BY DEF Init, TypeOK, Phases, Jobs, NoJob, Snaps, NoSnap, Actions, NoAction
<1>2. NoWithdrawal /\ PatternDone
  BY DEF Init, NoWithdrawal, PatternDone
<1>3. Shaped
  <2>1. 1 \in Task
    OBVIOUS
  <2>2. ASSUME NEW h \in Host
        PROVE  Frontier(taskStatus[h], 1)
    BY DEF Init, Frontier
  <2> QED
    BY <2>1, <2>2 DEF Shaped
<1>4. Derived /\ PatternRunning
  <2>1. ASSUME NEW h \in Host
        PROVE  Values(taskStatus[h]) = {Pending}
    <3>1. taskStatus[h] = [t \in Task |-> Pending] /\ 1 \in Task
      BY DEF Init
    <3> QED
      BY <3>1 DEF Values
  <2>2. CheckStatus({Pending}) = Pending
    BY DEF CheckStatus
  <2> QED
    BY <2>1, <2>2 DEF Init, Derived, PatternRunning
<1>5. \A e \in Exec : ~Busy(e)
  BY DEF Init, Busy
<1>6. Owners /\ Rows /\ Snapshots
  BY <1>5 DEF Init, Owners, Rows, Snapshots, NoSnap
<1>7. Dispatching /\ Starting
  BY DEF Init, Dispatching, Starting
<1> QED
  BY <1>1, <1>2, <1>3, <1>4, <1>6, <1>7 DEF IInv

-----------------------------------------------------------------------------
(* Steps that move one execution inside a callback and leave the database and
   the lock alone. *)

LocalMove(e, p, z) ==
  /\ phase[e] \in Phases \ {"idle", "sent", "toFinish"}
  /\ p \in Phases \ {"idle", "sent", "toFinish"}
  /\ phase[e] \in Early => p \in Early
  /\ phase[e] \in {"toDispatch", "inDispatch", "failed", "inFailure"} =>
       p \in {"inDispatch", "failed", "inFailure"}
  /\ z \in Snaps
  /\ z.row => /\ z = Snapshot(e)
              /\ p \in {"inSuccess", "inDispatch", "inFailure"}
  /\ p = "inDispatch" /\ e \in recorded => z.row

(* A snapshot shows the execution's row exactly when the row is committed. *)
LEMMA SnapshotRow == \A e : Snapshot(e).row <=> e \in recorded
  BY DEF Snapshot

LEMMA LocalStep ==
  ASSUME IInv, NEW e \in Exec, NEW p, NEW z, LocalMove(e, p, z),
         phase' = [phase EXCEPT ![e] = p],
         snap' = [snap EXCEPT ![e] = z],
         verdict' \in [Exec -> BOOLEAN],
         UNCHANGED <<db, job, child, lock, action, budget>>
  PROVE  IInv'
<1> USE DEF IInv, db, LocalMove
<1>1. TypeOK' /\ NoWithdrawal'
  BY DEF TypeOK, NoWithdrawal
<1>2. Shaped' /\ Derived' /\ PatternDone' /\ PatternRunning'
  BY DEF Shaped, Derived, PatternDone, PatternRunning
<1>3. \A f \in Exec : Busy(f)' <=> Busy(f)
  BY DEF TypeOK, Busy
<1>4. Owners'
  <2>1. ASSUME NEW f \in Exec, Busy(f)'
        PROVE  AtFrontier(f)'
    <3>1. Busy(f) /\ AtFrontier(f)
      BY <1>3, <2>1 DEF Owners
    <3>2. CASE f = e
      BY <3>1, <3>2 DEF AtFrontier, TypeOK, Early, Frontier
    <3>3. CASE f # e
      BY <3>1, <3>3 DEF AtFrontier, TypeOK, Frontier
    <3> QED
      BY <3>2, <3>3
  <2>2. ASSUME NEW f \in Exec, NEW g \in Exec, Busy(f)', Busy(g)',
               job'[f].host = job'[g].host
        PROVE  f = g
    BY <1>3, <2>2 DEF Owners
  <2> QED
    BY <2>1, <2>2 DEF Owners
<1>5. Rows'
  <2>1. recorded' = recorded /\ recorded \subseteq Exec
    BY DEF TypeOK
  <2>2. \A f \in Exec : f # e => phase'[f] = phase[f] /\ snap'[f] = snap[f]
    BY DEF TypeOK
  <2>3. phase'[e] = p /\ snap'[e] = z
    BY DEF TypeOK
  <2>4. ASSUME z.row
        PROVE  e \in recorded
    BY <2>4, SnapshotRow
  <2>5. p # "idle" /\ p # "sent" /\ (e \notin recorded => p \in Early)
    BY DEF Rows
  <2> QED
    BY <2>1, <2>2, <2>3, <2>4, <2>5 DEF Rows
<1>6. Snapshots'
  <2> SUFFICES ASSUME NEW f \in Exec, snap'[f].row
               PROVE  Seen(f)'
    BY DEF Snapshots
  <2>1. CASE f = e
    <3>1. z = Snapshot(e) /\ z.row /\ snap'[e] = z /\ phase'[e] = p
      BY <2>1 DEF TypeOK
    <3>2. e \in recorded /\ Busy(e)'
      BY <3>1, <1>3, SnapshotRow DEF Busy
    <3> QED
      BY <2>1, <3>1, <3>2 DEF Seen, Snapshot
  <2>2. CASE f # e
    <3>1. Seen(f) /\ snap'[f] = snap[f] /\ phase'[f] = phase[f]
      BY <2>2 DEF Snapshots, TypeOK
    <3> QED
      BY <3>1, <1>3 DEF Seen
  <2> QED
    BY <2>1, <2>2
<1>7. \A n \in Exec : \A h, t : Sent(n, h, t)' <=> Sent(n, h, t)
  BY DEF Sent, TypeOK
<1>8. Dispatching'
  BY <1>7 DEF Dispatching, TypeOK
<1>9. Starting'
  <2>1. action.children \subseteq Exec
    BY DEF TypeOK, Actions
  <2>2. \A n \in Exec : phase'[n] # "idle" <=> phase[n] # "idle"
    BY DEF TypeOK
  <2>3. \A h \in Host : Ready(taskStatus[h])' = Ready(taskStatus[h])
    BY DEF Ready
  <2>4. CASE lock # Web
    BY <2>4 DEF Starting
  <2>5. CASE lock = Web
    <3>1. /\ \A h \in Host : hostStatus[h] # Running
          /\ \A f \in Exec : ~Busy(f)
          /\ \A h \in action.todo \cup action.started : Ready(taskStatus[h]) # {}
          /\ action.todo \cap action.started = {}
      BY <2>5 DEF Starting
    <3>2. /\ \A h \in Host : hostStatus'[h] # Running
          /\ \A f \in Exec : ~Busy(f)'
          /\ \A h \in action'.todo \cup action'.started : Ready(taskStatus[h])' # {}
          /\ action'.todo \cap action'.started = {}
      BY <1>3, <2>3, <3>1 DEF Ready
    <3>3. \A n \in action'.children :
            \E h \in action'.started : Sent(n, h, First(Ready(taskStatus[h])))'
      <4> SUFFICES ASSUME NEW n \in action.children
                   PROVE  \E h \in action.started : Sent(n, h, First(Ready(taskStatus[h])))'
        OBVIOUS
      <4>1. PICK h \in action.started : Sent(n, h, First(Ready(taskStatus[h])))
        BY <2>5 DEF Starting
      <4>2. Sent(n, h, First(Ready(taskStatus[h])))'
        BY <2>1, <2>2, <4>1 DEF Sent, Ready
      <4> QED
        BY <4>2
    <3>4. \A m, n \in action'.children :
            /\ phase'[m] # "idle" /\ phase'[n] # "idle"
            /\ job'[m].host = job'[n].host
            => m = n
      BY <2>1, <2>2, <2>5 DEF Starting
    <3> QED
      BY <2>5, <3>2, <3>3, <3>4 DEF Starting
  <2> QED
    BY <2>4, <2>5
<1> QED
  BY <1>1, <1>2, <1>4, <1>5, <1>6, <1>8, <1>9

(* Only a transaction that has begun has a snapshot with the row in it. *)
LEMMA NoRowBefore ==
  ASSUME IInv, NEW e \in Exec, phase[e] \in {"queued", "returned", "toDispatch", "failed"}
  PROVE  ~snap[e].row
  BY DEF IInv, Snapshots, Seen

LEMMA SnapshotType ==
  ASSUME TypeOK, NEW e
  PROVE  Snapshot(e) \in Snaps
  BY DEF TypeOK, Snapshot, Snaps

LEMMA NoSnapType == NoSnap \in Snaps /\ ~NoSnap.row
  BY DEF NoSnap, Snaps

LEMMA KeepSnap ==
  ASSUME TypeOK, NEW e \in Exec
  PROVE  snap[e] \in Snaps /\ snap = [snap EXCEPT ![e] = snap[e]]
  BY DEF TypeOK

LEMMA ExecuteInv ==
  ASSUME IInv, NEW e \in Exec, NEW ok \in BOOLEAN, Execute(e, ok)
  PROVE  IInv'
<1>1. LocalMove(e, "returned", snap[e])
  BY NoRowBefore, KeepSnap DEF IInv, Execute, LocalMove, Phases, Early
<1>2. verdict' \in [Exec -> BOOLEAN]
  BY DEF IInv, TypeOK, Execute
<1>3. snap' = [snap EXCEPT ![e] = snap[e]]
  BY KeepSnap DEF IInv, Execute
<1> QED
  BY <1>1, <1>2, <1>3, LocalStep DEF Execute

LEMMA ExecuteRaisesInv ==
  ASSUME IInv, NEW e \in Exec, ExecuteRaises(e)
  PROVE  IInv'
<1>1. LocalMove(e, "failed", snap[e])
  BY NoRowBefore, KeepSnap DEF IInv, ExecuteRaises, LocalMove, Phases, Early
<1>2. verdict' \in [Exec -> BOOLEAN]
  BY DEF IInv, TypeOK, ExecuteRaises
<1>3. snap' = [snap EXCEPT ![e] = snap[e]]
  BY KeepSnap DEF IInv, ExecuteRaises
<1> QED
  BY <1>1, <1>2, <1>3, LocalStep DEF ExecuteRaises

LEMMA BeginInv ==
  ASSUME IInv, NEW e \in Exec,
         SuccessBegin(e) \/ DispatchBegin(e) \/ FailureBegin(e)
  PROVE  IInv'
<1>1. Snapshot(e) \in Snaps /\ verdict' \in [Exec -> BOOLEAN]
  BY SnapshotType DEF IInv, TypeOK, SuccessBegin, DispatchBegin, FailureBegin
<1>2. CASE SuccessBegin(e)
  <2>1. LocalMove(e, "inSuccess", Snapshot(e))
    BY <1>1, <1>2 DEF SuccessBegin, LocalMove, Phases, Early
  <2> QED
    BY <1>1, <1>2, <2>1, LocalStep DEF SuccessBegin
<1>3. CASE DispatchBegin(e)
  <2>1. LocalMove(e, "inDispatch", Snapshot(e))
    BY <1>1, <1>3, SnapshotRow DEF DispatchBegin, LocalMove, Phases, Early
  <2> QED
    BY <1>1, <1>3, <2>1, LocalStep DEF DispatchBegin
<1>4. CASE FailureBegin(e)
  <2>1. LocalMove(e, "inFailure", Snapshot(e))
    BY <1>1, <1>4 DEF FailureBegin, LocalMove, Phases, Early
  <2> QED
    BY <1>1, <1>4, <2>1, LocalStep DEF FailureBegin
<1> QED
  BY <1>2, <1>3, <1>4

LEMMA RaisesInv ==
  ASSUME IInv, NEW e \in Exec,
         \/ SuccessMissing(e) \/ SuccessRaises(e)
         \/ DispatchRaises(e) /\ phase[e] # "sent"
  PROVE  IInv'
<1>1. phase[e] \in {"inSuccess", "inDispatch"}
  BY DEF SuccessMissing, SuccessRaises, DispatchRaises
<1>2. Leave(e, "failed") /\ UNCHANGED <<db, job, verdict, lock, action, budget>>
  BY DEF SuccessMissing, SuccessRaises, DispatchRaises
<1>3. child[e] = None
  BY <1>1 DEF IInv, Dispatching
<1>4. UNCHANGED child /\ verdict' \in [Exec -> BOOLEAN]
  BY <1>2, <1>3 DEF IInv, TypeOK, Leave
<1>5. LocalMove(e, "failed", NoSnap)
  BY <1>1, NoSnapType DEF LocalMove, Phases, Early
<1> QED
  BY <1>2, <1>4, <1>5, LocalStep DEF Leave

-----------------------------------------------------------------------------
(* Steps that end an execution without writing a status. *)

LEMMA RetireStep ==
  ASSUME IInv, NEW e \in Exec, phase[e] # "idle", Retire(e),
         recorded' = recorded \ {e},
         lock' = IF lock = e THEN None ELSE lock,
         planStatus' \in Nat,
         budget' \in [FaultKind -> Nat], budget'["finish"] = 0,
         UNCHANGED <<taskStatus, hostStatus, patternStatus, action>>
  PROVE  IInv'
<1> USE NamesAssumption DEF IInv, Retire, Leave
<1>1. TypeOK' /\ NoWithdrawal'
  <2>1. NoJob \in Jobs
    BY HostsAssumption, TasksAssumption DEF NoJob, Jobs
  <2> QED
    BY <2>1, NoSnapType DEF TypeOK, NoWithdrawal, Phases
<1>2. Shaped' /\ Derived' /\ PatternDone' /\ PatternRunning'
  BY DEF Shaped, Derived, PatternDone, PatternRunning
<1>3. /\ phase'[e] = "idle" /\ ~snap'[e].row /\ child'[e] = None
      /\ \A f \in Exec \ {e} : /\ phase'[f] = phase[f] /\ snap'[f] = snap[f]
                              /\ job'[f] = job[f] /\ child'[f] = child[f]
                              /\ f \in recorded' <=> f \in recorded
  BY NoSnapType DEF TypeOK
<1>4. ~Busy(e)' /\ \A f \in Exec \ {e} : Busy(f)' <=> Busy(f)
  BY <1>3 DEF Busy
<1>5. Owners'
  BY <1>3, <1>4 DEF Owners, AtFrontier, Frontier
<1>6. Rows'
  BY <1>3 DEF Rows
<1>7. Snapshots'
  BY <1>3, <1>4 DEF Snapshots, Seen
<1>8. \A n \in Exec : \A h, t : Sent(n, h, t) => Sent(n, h, t)'
  BY <1>3 DEF Sent
<1>9. Dispatching'
  BY <1>3, <1>8 DEF Dispatching
<1>10. Starting'
  <2>1. action.children \subseteq Exec
    BY DEF TypeOK, Actions
  <2>2. \A n \in Exec : phase'[n] # "idle" => phase[n] # "idle" /\ job'[n] = job[n]
    BY <1>3
  <2>3. lock' = Web <=> lock = Web
    OBVIOUS
  <2>4. CASE lock # Web
    BY <2>3, <2>4 DEF Starting
  <2>5. CASE lock = Web
    <3>1. \A n \in action.children :
            \E h \in action.started : Sent(n, h, First(Ready(taskStatus[h])))'
      BY <1>3, <2>1, <2>5 DEF Starting, Sent
    <3>2. /\ \A h \in Host : hostStatus'[h] # Running
          /\ \A f \in Exec : ~Busy(f)'
          /\ \A h \in action.todo \cup action.started : Ready(taskStatus'[h]) # {}
          /\ action.todo \cap action.started = {}
      BY <1>4, <2>5 DEF Starting
    <3>3. \A m, n \in action.children :
            /\ phase'[m] # "idle" /\ phase'[n] # "idle"
            /\ job'[m].host = job'[n].host
            => m = n
      BY <2>1, <2>2, <2>5 DEF Starting
    <3> QED
      BY <2>3, <2>5, <3>1, <3>2, <3>3 DEF Starting
  <2> QED
    BY <2>4, <2>5
<1> QED
  BY <1>1, <1>2, <1>5, <1>6, <1>7, <1>9, <1>10

LEMMA CrashInv ==
  ASSUME IInv, NEW e \in Exec, Crash(e)
  PROVE  IInv'
<1>1. budget' \in [FaultKind -> Nat] /\ budget'["finish"] = 0
  BY DEF IInv, TypeOK, NoWithdrawal, Crash, Spend, FaultKind
<1>2. planStatus' \in Nat
  BY DEF IInv, TypeOK, Crash
<1> QED
  BY <1>1, <1>2, RetireStep DEF Crash

LEMMA FinishPlanInv ==
  ASSUME IInv, NEW e \in Exec, FinishPlan(e)
  PROVE  IInv'
<1>1. planStatus' \in Nat /\ budget' \in [FaultKind -> Nat] /\ budget'["finish"] = 0
  BY DEF IInv, TypeOK, NoWithdrawal, FinishPlan
<1>2. lock' = IF lock = e THEN None ELSE lock
  BY DEF IInv, Dispatching, FinishPlan
<1> QED
  BY <1>1, <1>2, RetireStep DEF FinishPlan

-----------------------------------------------------------------------------
(* Steps that commit a status computed from a snapshot. *)

(* An unfinished execution that the database knows of shows in its host. *)
LEMMA BusyRunning ==
  ASSUME IInv, NEW e \in Exec, Busy(e)
  PROVE  hostStatus[job[e].host] = Running
<1> DEFINE h == job[e].host
<1>1. h \in Host /\ job[e].task \in Task /\ taskStatus[h] \in [Task -> Statuses]
  BY DEF IInv, TypeOK, Jobs
<1>2. AtFrontier(e)
  BY DEF IInv, Owners
<1>3. CheckStatus(Values(taskStatus[h])) = Running
  BY <1>1, <1>2, FrontierRunning DEF AtFrontier
<1> QED
  BY <1>1, <1>3 DEF IInv, Derived

(* The owner of a host writes one task: the derived statuses it commits, though
   computed from its snapshot, are right for the database of the moment. *)
LEMMA OwnerWrite ==
  ASSUME IInv, NEW e \in Exec, Seen(e), NEW t \in Task, NEW s \in Statuses,
         NEW h, h = job[e].host,
         \E k \in Task : Frontier([taskStatus[h] EXCEPT ![t] = s], k),
         Write(h, t, s, snap[e])
  PROVE  /\ taskStatus' \in [Host -> [Task -> Statuses]]
         /\ hostStatus' \in [Host -> Statuses]
         /\ patternStatus' \in Statuses
         /\ taskStatus'[h] = [taskStatus[h] EXCEPT ![t] = s]
         /\ \A g \in Host \ {h} : /\ taskStatus'[g] = taskStatus[g]
                                 /\ hostStatus'[g] = hostStatus[g]
         /\ Shaped' /\ Derived' /\ PatternDone' /\ PatternRunning'
<1> DEFINE new == [taskStatus[h] EXCEPT ![t] = s]
           own == CheckStatus(Values(new))
           seen == [snap[e].host EXCEPT ![h] = own]
<1>1. h \in Host /\ taskStatus[h] \in [Task -> Statuses] /\ new \in [Task -> Statuses]
  BY DEF IInv, TypeOK, Jobs
<1>2. own \in Statuses
  BY CheckStatusType
<1>3. snap[e].task[h] = taskStatus[h] /\ snap[e].host \in [Host -> Statuses]
  BY DEF IInv, TypeOK, Seen, Snaps
<1>4. /\ taskStatus' = [taskStatus EXCEPT ![h] = new]
      /\ hostStatus' = [hostStatus EXCEPT ![h] = own]
      /\ patternStatus' = CheckStatus(Values(seen))
  BY <1>3 DEF Write
<1>5. /\ seen \in [Host -> Statuses] /\ seen[h] = own
      /\ \A g \in Host \ {h} : seen[g] = snap[e].host[g]
  BY <1>1, <1>2, <1>3
<1> HIDE DEF own, new, seen
<1>6. /\ taskStatus' \in [Host -> [Task -> Statuses]]
      /\ hostStatus' \in [Host -> Statuses]
      /\ patternStatus' \in Statuses
  BY <1>1, <1>2, <1>4, CheckStatusType DEF IInv, TypeOK
<1>7. /\ taskStatus'[h] = new /\ hostStatus'[h] = own
      /\ \A g \in Host \ {h} : /\ taskStatus'[g] = taskStatus[g]
                              /\ hostStatus'[g] = hostStatus[g]
  BY <1>1, <1>4 DEF IInv, TypeOK
<1>8. Shaped'
  <2>1. \E k \in Task : Frontier(new, k)
    BY DEF new
  <2> QED
    BY <1>7, <2>1 DEF IInv, Shaped
<1>9. Derived'
  BY <1>7 DEF IInv, Derived, own
<1>10. PatternDone'
  <2> SUFFICES ASSUME patternStatus' = Done, NEW g \in Host
               PROVE  hostStatus'[g] = Done
    BY DEF PatternDone
  <2>1. seen[g] = Done
    <3>1. PICK f \in [Host -> Statuses] : f = seen
      BY <1>5
    <3>2. CheckStatus(Values(f)) = Done
      BY <1>4, <3>1
    <3>3. \A x \in Host : f[x] = Done
      BY <3>2, CheckDone, Zenon
    <3> QED
      BY <3>1, <3>3
  <2>2. CASE g = h
    BY <1>5, <1>7, <2>1, <2>2
  <2>3. CASE g # h
    BY <1>1, <1>5, <1>7, <2>1, <2>3 DEF Seen
  <2> QED
    BY <2>2, <2>3
<1>11. PatternRunning'
  <2> SUFFICES ASSUME NEW g \in Host, hostStatus'[g] = Running
               PROVE  patternStatus' = Running
    BY DEF PatternRunning
  <2>1. seen[g] = Running
    BY <1>1, <1>5, <1>7 DEF Seen
  <2> QED
    BY <1>4, <1>5, <2>1, CheckRunning
<1> QED
  BY <1>6, <1>7, <1>8, <1>9, <1>10, <1>11 DEF new

(* The owner e of a host commits, moving to phase p and possibly handing the
   host over to the execution n it had sent. *)
LEMMA CommitStep ==
  ASSUME IInv, NEW e \in Exec, Seen(e), NEW t \in Task, NEW s \in Statuses,
         NEW h, h = job[e].host,
         \E k \in Task : Frontier([taskStatus[h] EXCEPT ![t] = s], k),
         Write(h, t, s, snap[e]),
         NEW p \in {"idle", "toDispatch", "toFinish"}, Leave(e, p),
         lock \in {None, e}, lock' = None,
         UNCHANGED <<planStatus, action, budget>>,
         verdict' \in [Exec -> BOOLEAN], job' \in [Exec -> Jobs],
         \A f \in Exec \ {e} : job'[f] = job[f],
         recorded' \subseteq Exec, e \in recorded' <=> p # "idle",
         NEW n, n # e,
         \A f \in Exec \ {e} : f \in recorded' <=> f \in recorded \/ f = n,
         n \in Exec => /\ n \notin recorded /\ phase[n] \in Early
                       /\ job[n].host = h /\ AtFrontier(n)',
         p = "toDispatch" => n \notin Exec /\ job'[e] = job[e] /\ AtFrontier(e)'
  PROVE  IInv'
<1> USE NamesAssumption
<1>1. /\ taskStatus' \in [Host -> [Task -> Statuses]]
      /\ hostStatus' \in [Host -> Statuses]
      /\ patternStatus' \in Statuses
      /\ \A g \in Host \ {h} : /\ taskStatus'[g] = taskStatus[g]
                              /\ hostStatus'[g] = hostStatus[g]
      /\ Shaped' /\ Derived' /\ PatternDone' /\ PatternRunning'
  BY OwnerWrite
<1>2. TypeOK' /\ NoWithdrawal'
  BY <1>1, NoSnapType DEF IInv, TypeOK, NoWithdrawal, Leave, Phases
<1>3. /\ phase'[e] = p /\ ~snap'[e].row /\ child'[e] = None
      /\ \A f \in Exec \ {e} : /\ phase'[f] = phase[f] /\ snap'[f] = snap[f]
                              /\ child'[f] = child[f]
  BY NoSnapType DEF IInv, TypeOK, Leave
<1>4. Busy(e) /\ hostStatus[h] = Running /\ h \in Host
  BY BusyRunning DEF Seen, IInv, TypeOK, Jobs
<1>5. \A f \in Exec \ {e} : Busy(f)' => Busy(f) \/ f = n
  BY <1>3 DEF Busy
<1>6. \A f \in Exec \ {e} : Busy(f) => Busy(f)' /\ job[f].host \in Host \ {h}
  <2>1. \A f \in Exec \ {e} : Busy(f) => Busy(f)'
    BY <1>3 DEF Busy
  <2>2. \A f \in Exec \ {e} : Busy(f) => job[f].host # h
    BY <1>4 DEF IInv, Owners
  <2> QED
    BY <2>1, <2>2 DEF IInv, TypeOK, Jobs
<1>7. Busy(e)' => p = "toDispatch"
  BY <1>3 DEF Busy
<1>8. Owners'
  <2>1. ASSUME NEW f \in Exec, Busy(f)'
        PROVE  AtFrontier(f)'
    <3>1. CASE f = e
      BY <1>7, <2>1, <3>1
    <3>2. CASE f = n
      BY <3>2
    <3>3. CASE f # e /\ f # n
      <4>1. Busy(f) /\ AtFrontier(f) /\ job[f].host \in Host \ {h}
        BY <1>5, <1>6, <2>1, <3>3 DEF IInv, Owners
      <4>2. /\ job'[f] = job[f] /\ phase'[f] = phase[f]
            /\ taskStatus'[job[f].host] = taskStatus[job[f].host]
        BY <1>1, <1>3, <3>3, <4>1
      <4> QED
        BY <4>1, <4>2, ZenonT(60) DEF AtFrontier, Frontier
    <3> QED
      BY <3>1, <3>2, <3>3
  <2>2. ASSUME NEW f \in Exec, NEW g \in Exec, Busy(f)', Busy(g)',
               job'[f].host = job'[g].host
        PROVE  f = g
    BY <1>5, <1>6, <1>7, <2>2 DEF IInv, Owners
  <2> QED
    BY <2>1, <2>2 DEF Owners
<1>9. Rows'
  <2>1. recorded \subseteq Exec
    BY DEF IInv, TypeOK
  <2> QED
    BY <1>3, <2>1 DEF IInv, Rows, Early
<1>10. Snapshots'
  <2> SUFFICES ASSUME NEW f \in Exec, snap'[f].row
               PROVE  Seen(f)'
    BY DEF Snapshots
  <2>1. f # e /\ Seen(f) /\ Busy(f)
    BY <1>3 DEF IInv, Snapshots, Seen
  <2>2. Busy(f)' /\ job'[f] = job[f] /\ job[f].host \in Host \ {h}
    BY <1>6, <2>1
  <2>3. \A g \in Host \ {job[f].host} :
          /\ snap[f].host[g] = Done => hostStatus'[g] = Done
          /\ hostStatus'[g] = Running => snap[f].host[g] = Running
    BY <1>1, <1>4, <2>1, <2>2 DEF Seen
  <2> QED
    BY <1>1, <1>3, <2>1, <2>2, <2>3 DEF Seen
<1>11. Dispatching'
  <2>1. \A f \in Exec \ {e} : phase[f] # "sent" /\ child[f] = None
    BY DEF IInv, Dispatching
  <2> QED
    BY <1>3, <2>1 DEF Dispatching
<1>12. Starting'
  <2>1. lock # Web /\ lock' # Web /\ action' = action
    OBVIOUS
  <2> QED
    BY <2>1 DEF IInv, Starting
<1> QED
  BY <1>1, <1>2, <1>8, <1>9, <1>10, <1>11, <1>12 DEF IInv

(* After a task the chain continues with the very next one. *)
LEMMA FirstLater ==
  ASSUME NEW t \in Task, Later(t) # {}
  PROVE  /\ t + 1 \in Task /\ First(Later(t)) = t + 1
         /\ Later(t) \ {t + 1} = Later(t + 1)
<1> USE TasksAssumption
<1>1. Later(t) \subseteq Nat /\ t + 1 \in Task /\ t + 1 \in Later(t)
  BY DEF Later
<1>2. First(Later(t)) \in Later(t) /\ \A u \in Later(t) : First(Later(t)) <= u
  BY <1>1, FirstIsLeast
<1>3. First(Later(t)) = t + 1
  <2> DEFINE x == First(Later(t))
  <2>1. x \in Later(t) /\ x <= t + 1
    BY <1>1, <1>2
  <2> HIDE DEF x
  <2>2. x = t + 1
    BY <2>1 DEF Later
  <2> QED
    BY <2>2 DEF x
<1>4. Later(t) \ {t + 1} = Later(t + 1)
  BY <1>1 DEF Later
<1> QED
  BY <1>1, <1>3, <1>4

LEMMA RetireJobs ==
  ASSUME TypeOK, NEW e \in Exec, Retire(e)
  PROVE  /\ job' \in [Exec -> Jobs] /\ verdict' \in [Exec -> BOOLEAN]
         /\ \A f \in Exec \ {e} : job'[f] = job[f]
<1>1. NoJob \in Jobs
  BY HostsAssumption, TasksAssumption DEF NoJob, Jobs
<1> QED
  BY <1>1 DEF TypeOK, Retire

(* The frontier of execution e in the next state. *)
LEMMA AtFrontierNext ==
  ASSUME NEW e, NEW h, NEW t,
         job'[e].host = h, job'[e].task = t, job'[e].rest = Later(t),
         Frontier(taskStatus'[h], t),
         \/ taskStatus'[h][t] = Running /\ phase'[e] \in Early
         \/ /\ taskStatus'[h][t] = Done /\ job'[e].rest # {}
            /\ phase'[e] \in {"toDispatch", "inDispatch", "sent", "failed", "inFailure"}
  PROVE  AtFrontier(e)'
  BY DEF AtFrontier

LEMMA SuccessCommitInv ==
  ASSUME IInv, NEW e \in Exec, SuccessCommit(e)
  PROVE  IInv'
<1> USE NamesAssumption
<1> DEFINE h == job[e].host
           t == job[e].task
           s == IF verdict[e] THEN Done ELSE Failed
<1>1. Seen(e) /\ Busy(e) /\ AtFrontier(e)
  BY DEF IInv, Snapshots, Seen, Owners, SuccessCommit
<1>2. /\ t \in Task /\ s \in Statuses /\ h \in Host
      /\ taskStatus[h] \in [Task -> Statuses]
  BY DEF IInv, TypeOK, Jobs
<1>3. Frontier([taskStatus[h] EXCEPT ![t] = s], t)
  BY <1>1, <1>2 DEF AtFrontier, Frontier
<1>4. Write(h, t, s, snap[e]) /\ lock = None /\ lock' = None
  BY DEF SuccessCommit
<1>5. UNCHANGED <<planStatus, action, budget>> /\ recorded \subseteq Exec /\ e \in recorded
  BY <1>1 DEF SuccessCommit, Busy, IInv, TypeOK
<1>6. taskStatus'[h] = [taskStatus[h] EXCEPT ![t] = s]
  BY <1>1, <1>2, <1>3, <1>4, OwnerWrite
<1> HIDE DEF s
<1>7. CASE /\ verdict[e] /\ job[e].rest # {} /\ Leave(e, "toDispatch")
           /\ UNCHANGED <<job, verdict, recorded>>
  <2>1. phase'[e] = "toDispatch" /\ s = Done
    BY <1>7 DEF IInv, TypeOK, Leave, s
  <2>2. AtFrontier(e)'
    <3>1. Frontier(taskStatus'[h], t) /\ taskStatus'[h][t] = Done
      BY <1>2, <1>3, <1>6, <2>1
    <3>2. job'[e].host = h /\ job'[e].task = t /\ job'[e].rest = Later(t) /\ job'[e].rest # {}
      BY <1>1, <1>7 DEF AtFrontier
    <3> QED
      BY <2>1, <3>1, <3>2, AtFrontierNext
  <2>3. verdict' \in [Exec -> BOOLEAN] /\ job' \in [Exec -> Jobs]
    BY <1>7 DEF IInv, TypeOK
  <2>4. None # e /\ None \notin Exec /\ \A f \in Exec \ {e} : f # None
    OBVIOUS
  <2> QED
    BY <1>1, <1>2, <1>3, <1>4, <1>5, <1>7, <2>2, <2>3, <2>4, CommitStep
<1>8. CASE Leave(e, "toFinish") /\ UNCHANGED <<job, verdict, recorded>>
  <2>1. verdict' \in [Exec -> BOOLEAN] /\ job' \in [Exec -> Jobs]
    BY <1>8 DEF IInv, TypeOK
  <2>2. None # e /\ None \notin Exec /\ \A f \in Exec \ {e} : f # None
    OBVIOUS
  <2> QED
    BY <1>1, <1>2, <1>3, <1>4, <1>5, <1>8, <2>1, <2>2, CommitStep
<1>9. CASE Retire(e) /\ recorded' = recorded \ {e}
  <2>1. Leave(e, "idle") /\ verdict' \in [Exec -> BOOLEAN] /\ job' \in [Exec -> Jobs]
        /\ \A f \in Exec \ {e} : job'[f] = job[f]
    BY <1>9, RetireJobs DEF IInv, Retire
  <2>2. None # e /\ None \notin Exec /\ \A f \in Exec \ {e} : f # None
    OBVIOUS
  <2> QED
    BY <1>1, <1>2, <1>3, <1>4, <1>5, <1>9, <2>1, <2>2, CommitStep
<1> QED
  BY <1>7, <1>8, <1>9 DEF SuccessCommit

LEMMA FailureCommitInv ==
  ASSUME IInv, NEW e \in Exec, FailureCommit(e)
  PROVE  IInv'
<1> USE NamesAssumption
<1> DEFINE h == job[e].host
           t == job[e].task
<1>1. CASE ~snap[e].row
  <2>1. lock # e
    BY DEF IInv, Dispatching, FailureCommit
  <2>2. planStatus' \in Nat /\ budget' \in [FaultKind -> Nat] /\ budget'["finish"] = 0
    BY DEF IInv, TypeOK, NoWithdrawal, FailureCommit
  <2> QED
    BY <1>1, <2>1, <2>2, RetireStep DEF FailureCommit
<1>2. CASE snap[e].row
  <2>1. Seen(e) /\ Busy(e) /\ AtFrontier(e)
    BY <1>2 DEF IInv, Snapshots, Seen, Owners
  <2>2. t \in Task /\ Failed \in Statuses /\ taskStatus[h] \in [Task -> Statuses]
    BY DEF IInv, TypeOK, Jobs
  <2>3. Frontier([taskStatus[h] EXCEPT ![t] = Failed], t)
    BY <2>1, <2>2 DEF AtFrontier, Frontier
  <2>4. Write(h, t, Failed, snap[e]) /\ lock = None /\ lock' = None
    BY <1>2 DEF FailureCommit
  <2>5. UNCHANGED <<planStatus, action, budget>> /\ recorded' = recorded \ {e}
    BY DEF FailureCommit
  <2>6. Leave(e, "idle") /\ verdict' \in [Exec -> BOOLEAN] /\ job' \in [Exec -> Jobs]
        /\ \A f \in Exec \ {e} : job'[f] = job[f]
    BY RetireJobs DEF IInv, FailureCommit, Retire
  <2>7. None # e /\ None \notin Exec /\ \A f \in Exec \ {e} : f # None
    OBVIOUS
  <2>8. recorded \subseteq Exec
    BY DEF IInv, TypeOK
  <2> QED
    BY <2>1, <2>2, <2>3, <2>4, <2>5, <2>6, <2>7, <2>8, CommitStep
<1> QED
  BY <1>1, <1>2

LEMMA DispatchCommitInv ==
  ASSUME IInv, NEW e \in Exec, DispatchCommit(e)
  PROVE  IInv'
<1> USE NamesAssumption
<1> DEFINE h == job[e].host
           t == job[e].task + 1
<1>1. phase[e] = "sent" /\ e \in recorded /\ snap[e].row
  BY DEF IInv, Rows, Early, DispatchCommit
<1>2. Seen(e) /\ Busy(e) /\ AtFrontier(e)
  BY <1>1 DEF IInv, Snapshots, Seen, Owners
<1>3. /\ job[e].task \in Task /\ h \in Host /\ taskStatus[h] \in [Task -> Statuses]
      /\ recorded \subseteq Exec
  BY DEF IInv, TypeOK, Jobs
<1>4. /\ taskStatus[h][job[e].task] = Done /\ job[e].rest = Later(job[e].task)
      /\ job[e].rest # {}
  BY <1>1, <1>2 DEF AtFrontier, Early
<1>5. t \in Task /\ First(job[e].rest) = t
  BY <1>3, <1>4, FirstLater
<1>6. Frontier([taskStatus[h] EXCEPT ![t] = Running], t)
  BY <1>2, <1>3, <1>4, <1>5 DEF AtFrontier, Frontier
<1>7. Write(h, t, Running, snap[e]) /\ lock = e /\ lock' = None
  BY <1>1, <1>5 DEF IInv, Dispatching, DispatchCommit
<1>8. taskStatus'[h] = [taskStatus[h] EXCEPT ![t] = Running]
  BY <1>2, <1>3, <1>5, <1>6, <1>7, OwnerWrite
<1>9. UNCHANGED <<planStatus, action, budget>>
  BY DEF DispatchCommit
<1>10. Leave(e, "idle") /\ verdict' \in [Exec -> BOOLEAN] /\ job' \in [Exec -> Jobs]
       /\ \A f \in Exec \ {e} : job'[f] = job[f]
  BY RetireJobs DEF IInv, DispatchCommit, Retire
<1>11. PICK c \in Exec : /\ c = child[e] /\ c # e /\ c \notin recorded
                         /\ Sent(c, h, t)
  BY <1>1 DEF IInv, Dispatching, Sent
<1>12. CASE phase[c] = "idle"
  <2>1. recorded' = recorded \ {e}
    BY <1>11, <1>12 DEF DispatchCommit
  <2>2. None # e /\ None \notin Exec /\ \A f \in Exec \ {e} : f # None
    OBVIOUS
  <2> QED
    BY <1>2, <1>3, <1>5, <1>6, <1>7, <1>9, <1>10, <2>1, <2>2, CommitStep, SMTT(30)
<1>13. CASE phase[c] # "idle"
  <2>1. recorded' = (recorded \ {e}) \cup {c}
    BY <1>11, <1>13 DEF DispatchCommit
  <2>2. phase[c] \in Early /\ phase'[c] = phase[c] /\ job'[c] = job[c]
    BY <1>10, <1>11, <1>13 DEF IInv, Rows, TypeOK, Leave
  <2>3. job[c].host = h /\ job[c].task = t /\ job[c].rest = Later(t)
    BY <1>11, <1>13 DEF Sent
  <2>4. AtFrontier(c)'
    <3>1. Frontier(taskStatus'[h], t) /\ taskStatus'[h][t] = Running
      BY <1>3, <1>5, <1>6, <1>8
    <3>2. job'[c].host = h /\ job'[c].task = t /\ job'[c].rest = Later(t)
      BY <2>2, <2>3
    <3> QED
      BY <2>2, <3>1, <3>2, AtFrontierNext
  <2>5. /\ recorded' \subseteq Exec /\ e \notin recorded'
        /\ \A f \in Exec \ {e} : f \in recorded' <=> f \in recorded \/ f = c
    BY <1>3, <1>11, <2>1
  <2> QED
    BY <1>2, <1>3, <1>5, <1>6, <1>7, <1>9, <1>10, <1>11, <2>2, <2>3, <2>4, <2>5,
       CommitStep, SMTT(30)
<1> QED
  BY <1>12, <1>13

-----------------------------------------------------------------------------
(* Steps that send a message before their transaction commits, and the abort
   of such a transaction. *)

LEMMA DispatchSendInv ==
  ASSUME IInv, NEW e \in Exec, NEW n \in Exec, DispatchSend(e, n)
  PROVE  IInv'
<1> USE NamesAssumption
<1> DEFINE t == job[e].task + 1
<1>1. /\ phase[e] = "inDispatch" /\ phase[n] = "idle" /\ n # e /\ n \notin recorded
      /\ lock = None /\ lock' = e /\ \A f \in Exec : child[f] # n
  BY DEF DispatchSend, Fresh, IInv, Rows
<1>2. e \in recorded /\ snap[e].row /\ Busy(e) /\ AtFrontier(e) /\ recorded \subseteq Exec
  BY <1>1 DEF IInv, Rows, Early, Busy, Owners, TypeOK
<1>3. job[e].task \in Task /\ job[e].rest # {} /\ job[e].rest = Later(job[e].task)
  BY <1>1, <1>2 DEF IInv, TypeOK, Jobs, AtFrontier, Early
<1>4. t \in Task /\ First(job[e].rest) = t /\ job[e].rest \ {t} = Later(t)
  BY <1>3, FirstLater
<1>5. /\ phase'[e] = "sent" /\ phase'[n] = "queued"
      /\ child'[e] = n /\ job'[e] = job[e]
      /\ job'[n] = [job[e] EXCEPT !.task = t, !.rest = Later(t)]
      /\ \A f \in Exec \ {e, n} : phase'[f] = phase[f] /\ job'[f] = job[f]
      /\ \A f \in Exec \ {e} : child'[f] = child[f]
      /\ UNCHANGED <<db, verdict, snap, action, budget>>
  BY <1>1, <1>4 DEF IInv, TypeOK, DispatchSend
<1>6. job[e] \in Jobs /\ job'[n] \in Jobs
  <2>1. job[e] \in Jobs
    BY DEF IInv, TypeOK
  <2>2. Later(t) \subseteq Task
    BY DEF Later
  <2> HIDE DEF t
  <2>3. [job[e] EXCEPT !.task = t, !.rest = Later(t)] \in Jobs
    BY <1>4, <2>1, <2>2 DEF Jobs
  <2> QED
    BY <1>5, <2>1, <2>3
<1>7. job'[n].host = job[e].host /\ job'[n].task = t /\ job'[n].rest = Later(t)
  BY <1>4, <1>5, <1>6 DEF Jobs
<1>8. TypeOK' /\ NoWithdrawal'
  <2>1. phase' \in [Exec -> Phases] /\ child' \in [Exec -> Exec \cup {None}]
    BY <1>1 DEF IInv, TypeOK, DispatchSend, Phases
  <2>2. job' \in [Exec -> Jobs]
    BY <1>6 DEF IInv, TypeOK, DispatchSend
  <2> QED
    BY <1>1, <1>5, <2>1, <2>2 DEF IInv, TypeOK, NoWithdrawal, db
<1>9. Shaped' /\ Derived' /\ PatternDone' /\ PatternRunning'
  BY <1>5 DEF IInv, Shaped, Derived, PatternDone, PatternRunning, db
<1>10. \A f \in Exec : Busy(f)' <=> Busy(f)
  BY <1>1, <1>5 DEF Busy, db
<1>11. \A f \in Exec : Busy(f) => f # n
  BY <1>1 DEF Busy
<1>12. Owners'
  <2>1. ASSUME NEW f \in Exec, Busy(f)'
        PROVE  AtFrontier(f)'
    <3>1. AtFrontier(f) /\ f # n
      BY <1>10, <1>11, <2>1 DEF IInv, Owners
    <3> QED
      BY <1>1, <1>5, <3>1 DEF AtFrontier, Early, Frontier, db
  <2>2. ASSUME NEW f \in Exec, NEW g \in Exec, Busy(f)', Busy(g)',
               job'[f].host = job'[g].host
        PROVE  f = g
    BY <1>5, <1>10, <1>11, <2>2 DEF IInv, Owners
  <2> QED
    BY <2>1, <2>2 DEF Owners
<1>13. Rows'
  BY <1>1, <1>2, <1>5 DEF IInv, Rows, Early, db
<1>14. Snapshots'
  <2> SUFFICES ASSUME NEW f \in Exec, snap'[f].row
               PROVE  Seen(f)'
    BY DEF Snapshots
  <2>1. Seen(f) /\ f # n
    BY <1>5, <1>11 DEF IInv, Snapshots, Seen
  <2> QED
    BY <1>5, <1>10, <2>1 DEF Seen, db
<1>15. Dispatching'
  <2>1. \A f \in Exec : phase[f] # "sent" /\ child[f] = None
    BY <1>1 DEF IInv, Dispatching
  <2>2. Sent(n, job[e].host, t)'
    BY <1>1, <1>5, <1>7 DEF Sent, db
  <2> QED
    BY <1>1, <1>5, <2>1, <2>2 DEF Dispatching
<1>16. Starting'
  <2>1. lock # Web /\ lock' # Web /\ action' = action
    BY <1>1, <1>5
  <2> QED
    BY <2>1 DEF IInv, Starting
<1> QED
  BY <1>8, <1>9, <1>12, <1>13, <1>14, <1>15, <1>16 DEF IInv

LEMMA DispatchLostInv ==
  ASSUME IInv, NEW e \in Exec, DispatchRaises(e), phase[e] = "sent"
  PROVE  IInv'
<1> USE NamesAssumption
<1>1. /\ lock = e /\ lock' = None /\ Leave(e, "failed")
      /\ UNCHANGED <<db, job, verdict, action>>
  BY DEF DispatchRaises, IInv, Dispatching
<1>2. /\ phase'[e] = "failed" /\ ~snap'[e].row /\ child'[e] = None
      /\ \A f \in Exec \ {e} : /\ phase'[f] = phase[f] /\ snap'[f] = snap[f]
                              /\ child'[f] = child[f]
  BY <1>1, NoSnapType DEF IInv, TypeOK, Leave
<1>3. TypeOK' /\ NoWithdrawal'
  <2>1. budget' \in [FaultKind -> Nat] /\ budget'["finish"] = 0
    BY DEF IInv, TypeOK, NoWithdrawal, DispatchRaises, Spend, FaultKind
  <2> QED
    BY <1>1, <2>1, NoSnapType DEF IInv, TypeOK, NoWithdrawal, Leave, Phases, db
<1>4. Shaped' /\ Derived' /\ PatternDone' /\ PatternRunning'
  BY <1>1 DEF IInv, Shaped, Derived, PatternDone, PatternRunning, db
<1>5. \A f \in Exec : Busy(f)' <=> Busy(f)
  BY <1>1, <1>2 DEF Busy, db
<1>6. Owners'
  <2>1. ASSUME NEW f \in Exec, Busy(f)'
        PROVE  AtFrontier(f)'
    <3>1. AtFrontier(f)
      BY <1>5, <2>1 DEF IInv, Owners
    <3> QED
      BY <1>1, <1>2, <3>1 DEF AtFrontier, Early, Frontier, db
  <2> QED
    BY <1>1, <1>5, <2>1 DEF IInv, Owners
<1>7. Rows'
  <2>1. recorded \subseteq Exec
    BY DEF IInv, TypeOK
  <2> QED
    BY <1>1, <1>2, <2>1 DEF IInv, Rows, Early, db
<1>8. Snapshots'
  BY <1>1, <1>2, <1>5 DEF IInv, Snapshots, Seen, db
<1>9. Dispatching'
  <2>1. \A f \in Exec \ {e} : phase[f] # "sent" /\ child[f] = None
    BY <1>1 DEF IInv, Dispatching
  <2> QED
    BY <1>1, <1>2, <2>1 DEF Dispatching
<1>10. Starting'
  <2>1. lock # Web /\ lock' # Web /\ action' = action
    BY <1>1
  <2> QED
    BY <2>1 DEF IInv, Starting
<1> QED
  BY <1>3, <1>4, <1>6, <1>7, <1>8, <1>9, <1>10 DEF IInv

-----------------------------------------------------------------------------
(* The HTTP request. *)

(* Steps of the request that leave the database and the executions alone. *)
LEMMA ActionLocal ==
  ASSUME IInv, lock \in {None, Web}, lock' \in {None, Web},
         UNCHANGED <<db, worker>>,
         action' \in Actions, budget' \in [FaultKind -> Nat], budget'["finish"] = 0,
         Starting'
  PROVE  IInv'
<1> USE NamesAssumption DEF db, worker
<1>1. TypeOK' /\ NoWithdrawal'
  BY DEF IInv, TypeOK, NoWithdrawal
<1>2. Shaped' /\ Derived' /\ PatternDone' /\ PatternRunning'
  BY DEF IInv, Shaped, Derived, PatternDone, PatternRunning
<1>3. \A f \in Exec : (Busy(f)' <=> Busy(f)) /\ (AtFrontier(f)' <=> AtFrontier(f))
  BY DEF Busy, AtFrontier, Frontier
<1>4. Owners' /\ Rows'
  BY <1>3 DEF IInv, Owners, Rows
<1>5. Snapshots'
  BY <1>3 DEF IInv, Snapshots, Seen
<1>6. Dispatching'
  BY DEF IInv, Dispatching, Sent
<1> QED
  BY <1>1, <1>2, <1>4, <1>5, <1>6 DEF IInv

LEMMA ActionBeginInv ==
  ASSUME IInv, ActionBegin
  PROVE  IInv'
<1> DEFINE ready == {h \in Host : Ready(taskStatus[h]) # {}}
<1>1. /\ lock = None /\ lock' = Web /\ UNCHANGED <<db, worker, budget>>
      /\ action' = [todo |-> ready, started |-> {}, children |-> {}]
      /\ patternStatus # Running
  BY DEF ActionBegin, NoAction
<1>2. \A h \in Host : hostStatus[h] # Running
  BY <1>1 DEF IInv, PatternRunning
<1>3. \A e \in Exec : ~Busy(e)
  BY <1>2, BusyRunning DEF IInv, TypeOK, Jobs
<1>4. \A e \in Exec : ~Busy(e)'
  BY <1>1, <1>3 DEF Busy, db, worker
<1>5. Starting'
  BY <1>1, <1>2, <1>4 DEF Starting, db
<1>6. action' \in Actions /\ budget' \in [FaultKind -> Nat] /\ budget'["finish"] = 0
  BY <1>1 DEF Actions, IInv, TypeOK, NoWithdrawal
<1> QED
  BY <1>1, <1>5, <1>6, ActionLocal

LEMMA ActionAbortInv ==
  ASSUME IInv, ActionAbort
  PROVE  IInv'
<1>1. budget' \in [FaultKind -> Nat] /\ budget'["finish"] = 0
  BY DEF IInv, TypeOK, NoWithdrawal, ActionAbort, Spend, FaultKind
<1>2. Starting'
  BY NamesAssumption DEF ActionAbort, Starting
<1>3. action' \in Actions
  BY DEF ActionAbort, NoAction, Actions
<1> QED
  BY <1>1, <1>2, <1>3, ActionLocal DEF ActionAbort

(* The request sends the first task of one host's chain. *)
LEMMA ActionDispatchInv ==
  ASSUME IInv, NEW n \in Exec, ActionDispatch(n)
  PROVE  IInv'
<1> USE NamesAssumption
<1>1. /\ lock = Web /\ lock' = Web /\ phase[n] = "idle" /\ n \notin recorded
      /\ n \notin action.children /\ \A f \in Exec : child[f] # n
      /\ action.todo \subseteq Host /\ action.started \subseteq Host
      /\ action.children \subseteq Exec
  BY DEF ActionDispatch, Fresh, IInv, Rows, TypeOK, Actions
<1>2. PICK h \in Host : h = First(action.todo) /\ h \in action.todo
  <2>1. action.todo \subseteq Nat /\ action.todo # {}
    BY <1>1, HostsAssumption DEF ActionDispatch
  <2> QED
    BY <1>1, <2>1, FirstIsLeast
<1>3. /\ Ready(taskStatus[h]) # {} /\ h \notin action.started
      /\ \A f \in Exec : ~Busy(f)
  BY <1>1, <1>2 DEF IInv, Starting
<1>4. PICK k \in Task : Frontier(taskStatus[h], k)
  BY DEF IInv, Shaped
<1>5. PICK t \in Task : /\ t = First(Ready(taskStatus[h]))
                        /\ Ready(taskStatus[h]) \ {t} = Later(t)
  BY <1>3, <1>4, ReadyFrontier DEF IInv, TypeOK
<1>6. PICK j \in Jobs : /\ j = [host |-> h, task |-> t, rest |-> Later(t),
                               finish |-> LastStep /\ action.todo = {h}]
                        /\ job' = [job EXCEPT ![n] = j]
  <2>1. Later(t) \subseteq Task
    BY DEF Later
  <2>2. [host |-> h, task |-> t, rest |-> Later(t),
         finish |-> LastStep /\ action.todo = {h}] \in Jobs
    BY <2>1, LastStepAssumption DEF Jobs
  <2> QED
    BY <1>2, <1>5, <2>2 DEF ActionDispatch
<1>7. /\ phase'[n] = "queued" /\ job'[n] = j
      /\ \A f \in Exec \ {n} : phase'[f] = phase[f] /\ job'[f] = job[f]
      /\ UNCHANGED <<db, verdict, snap, child, lock, budget>>
  BY <1>6 DEF IInv, TypeOK, ActionDispatch
<1>8. action' = [todo |-> action.todo \ {h}, started |-> action.started \cup {h},
                 children |-> action.children \cup {n}]
  BY <1>2 DEF ActionDispatch
<1>9. TypeOK' /\ NoWithdrawal'
  <2>1. phase' \in [Exec -> Phases]
    BY DEF IInv, TypeOK, ActionDispatch, Phases
  <2>2. job' \in [Exec -> Jobs]
    BY <1>6 DEF IInv, TypeOK
  <2>3. action' \in Actions
    BY <1>1, <1>8 DEF Actions
  <2> QED
    BY <1>7, <2>1, <2>2, <2>3 DEF IInv, TypeOK, NoWithdrawal, db
<1>10. Shaped' /\ Derived' /\ PatternDone' /\ PatternRunning'
  BY <1>7 DEF IInv, Shaped, Derived, PatternDone, PatternRunning, db
<1>11. \A f \in Exec : ~Busy(f)'
  BY <1>1, <1>3, <1>7 DEF Busy, db
<1>12. Owners'
  BY <1>11 DEF Owners
<1>13. Rows'
  <2>1. recorded \subseteq Exec
    BY DEF IInv, TypeOK
  <2> QED
    BY <1>1, <1>7, <2>1 DEF IInv, Rows, Early, db
<1>14. Snapshots'
  BY <1>3, <1>7 DEF IInv, Snapshots, Seen, db
<1>15. Dispatching'
  <2>1. \A f \in Exec : phase[f] # "sent" /\ child[f] = None
    BY <1>1 DEF IInv, Dispatching
  <2> QED
    BY <1>1, <1>7, <2>1 DEF Dispatching
<1>16. \A m \in action'.children :
         \E g \in action'.started : Sent(m, g, First(Ready(taskStatus[g])))'
  <2> SUFFICES ASSUME NEW m \in action'.children
               PROVE  \E g \in action'.started :
                        Sent(m, g, First(Ready(taskStatus[g])))'
    OBVIOUS
  <2>1. CASE m = n
    <3>1. Sent(n, h, t)'
      BY <1>1, <1>6, <1>7 DEF Sent, db
    <3>2. taskStatus' = taskStatus /\ h \in action'.started
      BY <1>7, <1>8 DEF db
    <3> QED
      BY <1>5, <2>1, <3>1, <3>2 DEF Ready
  <2>2. CASE m # n
    <3>1. m \in action.children /\ m \in Exec
      BY <1>1, <1>8, <2>2
    <3>2. PICK g \in action.started : Sent(m, g, First(Ready(taskStatus[g])))
      BY <1>1, <3>1 DEF IInv, Starting
    <3>3. Sent(m, g, First(Ready(taskStatus[g])))' /\ g \in action'.started
      BY <1>7, <1>8, <2>2, <3>1, <3>2 DEF Sent, db, Ready
    <3> QED
      BY <3>3
  <2> QED
    BY <2>1, <2>2
<1>17. ASSUME NEW l \in action'.children, NEW m \in action'.children,
              phase'[l] # "idle", phase'[m] # "idle", job'[l].host = job'[m].host
       PROVE  l = m
  <2>1. \A x \in action.children :
          /\ x \in Exec \ {n} /\ phase'[x] = phase[x] /\ job'[x] = job[x]
          /\ phase[x] # "idle" => job[x].host # h
    <3> SUFFICES ASSUME NEW x \in action.children
                 PROVE  /\ x \in Exec \ {n}
                        /\ phase[x] # "idle" => job[x].host # h
      BY <1>7
    <3>1. PICK g \in action.started : Sent(x, g, First(Ready(taskStatus[g])))
      BY <1>1 DEF IInv, Starting
    <3> QED
      BY <1>1, <1>3, <3>1 DEF Sent
  <2>2. job'[n].host = h
    BY <1>6, <1>7
  <2>3. \A x, y \in action.children :
          phase[x] # "idle" /\ phase[y] # "idle" /\ job[x].host = job[y].host => x = y
    BY <1>1 DEF IInv, Starting
  <2> QED
    BY <1>8, <1>17, <2>1, <2>2, <2>3
<1>18. Starting'
  <2>1. \A g \in Host : hostStatus[g] # Running
    BY <1>1 DEF IInv, Starting
  <2>2. \A g \in action.todo \cup action.started : Ready(taskStatus[g]) # {}
    BY <1>1 DEF IInv, Starting
  <2>3. action.todo \cap action.started = {}
    BY <1>1 DEF IInv, Starting
  <2>4. /\ action'.todo \cap action'.started = {}
        /\ action'.todo \cup action'.started \subseteq action.todo \cup action.started
    BY <1>2, <1>8, <2>3
  <2>5. \A g \in action'.todo \cup action'.started : Ready(taskStatus[g])' # {}
    BY <1>7, <2>2, <2>4 DEF Ready, db
  <2>6. \A g \in Host : hostStatus'[g] # Running
    BY <1>7, <2>1 DEF db
  <2> QED
    BY <1>1, <1>11, <1>16, <1>17, <2>4, <2>5, <2>6 DEF Starting
<1> QED
  BY <1>9, <1>10, <1>12, <1>13, <1>14, <1>15, <1>18 DEF IInv

(* The request commits: every started host's first task is running, and the
   messages sent for them are now executions the database knows of. *)
LEMMA ActionCommitInv ==
  ASSUME IInv, ActionCommit
  PROVE  IInv'
<1> USE NamesAssumption
<1>1. /\ lock = Web /\ lock' = None /\ action' = NoAction
      /\ UNCHANGED <<planStatus, worker, budget>>
      /\ recorded \subseteq Exec /\ action.children \subseteq Exec
      /\ recorded' = recorded \cup {n \in action.children : phase[n] # "idle"}
  BY DEF ActionCommit, IInv, TypeOK, Actions
<1>2. PICK S \in SUBSET Host : S = action.started
  BY DEF IInv, TypeOK, Actions
<1>3. PICK first : first = [h \in Host |-> First(Ready(taskStatus[h]))]
  OBVIOUS
<1>4. PICK tasks : /\ tasks = [h \in Host |->
                         IF h \in S THEN [taskStatus[h] EXCEPT ![first[h]] = Running]
                         ELSE taskStatus[h]]
                   /\ taskStatus' = tasks
  BY <1>2, <1>3 DEF ActionCommit
<1>5. PICK hosts : /\ hosts = [h \in Host |->
                         IF h \in S THEN CheckStatus(Values(tasks[h]))
                         ELSE hostStatus[h]]
                   /\ hostStatus' = hosts
                   /\ patternStatus' = CheckStatus(Values(hosts))
  <2>1. tasks = [h \in Host |->
          IF h \in action.started
          THEN [taskStatus[h] EXCEPT ![First(Ready(taskStatus[h]))] = Running]
          ELSE taskStatus[h]]
    BY <1>2, <1>3, <1>4
  <2> QED
    BY <1>2, <2>1 DEF ActionCommit
<1>6. /\ \A h \in Host : hostStatus[h] # Running
      /\ \A h \in S : Ready(taskStatus[h]) # {}
      /\ \A f \in Exec : ~Busy(f)
  BY <1>1, <1>2 DEF IInv, Starting
<1>7. \A h \in S : /\ first[h] \in Task
                   /\ Frontier(taskStatus[h], first[h])
                   /\ taskStatus[h] \in [Task -> Statuses]
  <2> SUFFICES ASSUME NEW h \in S
               PROVE  /\ first[h] \in Task
                      /\ Frontier(taskStatus[h], first[h])
                      /\ taskStatus[h] \in [Task -> Statuses]
    OBVIOUS
  <2>1. h \in Host /\ taskStatus[h] \in [Task -> Statuses]
    BY DEF IInv, TypeOK
  <2>2. PICK k \in Task : Frontier(taskStatus[h], k)
    BY <2>1 DEF IInv, Shaped
  <2> QED
    BY <1>3, <1>6, <2>1, <2>2, ReadyFrontier
<1>8. \A h \in S : /\ tasks[h] \in [Task -> Statuses]
                   /\ tasks[h][first[h]] = Running
                   /\ Frontier(tasks[h], first[h])
  <2> SUFFICES ASSUME NEW h \in S
               PROVE  /\ tasks[h] \in [Task -> Statuses]
                      /\ tasks[h][first[h]] = Running
                      /\ Frontier(tasks[h], first[h])
    OBVIOUS
  <2>1. PICK t \in Task : /\ t = first[h] /\ Frontier(taskStatus[h], t)
                          /\ taskStatus[h] \in [Task -> Statuses]
    BY <1>7
  <2>2. tasks[h] = [taskStatus[h] EXCEPT ![t] = Running]
    BY <1>4, <2>1
  <2>3. tasks[h] \in [Task -> Statuses] /\ tasks[h][t] = Running
    BY <2>1, <2>2
  <2>4. Frontier(tasks[h], t)
    BY <2>1, <2>2 DEF Frontier
  <2> QED
    BY <2>1, <2>3, <2>4
<1>9. \A h \in Host \ S : tasks[h] = taskStatus[h] /\ hosts[h] = hostStatus[h]
  BY <1>4, <1>5
<1>10. \A h \in S : hosts[h] = Running /\ hosts[h] = CheckStatus(Values(tasks[h]))
  BY <1>5, <1>7, <1>8, CheckRunning
<1>11. tasks \in [Host -> [Task -> Statuses]]
  <2>1. \A h \in Host : tasks[h] \in [Task -> Statuses]
    BY <1>8, <1>9 DEF IInv, TypeOK
  <2> QED
    BY <1>4, <2>1
<1>12. hosts \in [Host -> Statuses]
  <2>1. \A h \in Host : hosts[h] \in Statuses
    BY <1>9, <1>10 DEF IInv, TypeOK
  <2> QED
    BY <1>5, <2>1
<1>13. TypeOK' /\ NoWithdrawal'
  <2>1. action' \in Actions
    BY <1>1 DEF NoAction, Actions
  <2>2. patternStatus' \in Statuses
    BY <1>5, CheckStatusType
  <2> QED
    BY <1>1, <1>4, <1>5, <1>11, <1>12, <2>1, <2>2
    DEF IInv, TypeOK, NoWithdrawal, worker
<1>14. Shaped'
  <2>1. ASSUME NEW h \in Host
        PROVE  \E k \in Task : Frontier(tasks[h], k)
    BY <1>7, <1>8, <1>9 DEF IInv, Shaped
  <2> QED
    BY <1>4, <2>1 DEF Shaped
<1>15. Derived'
  <2>1. ASSUME NEW h \in Host
        PROVE  hosts[h] = CheckStatus(Values(tasks[h]))
    BY <1>9, <1>10 DEF IInv, Derived
  <2> QED
    BY <1>4, <1>5, <2>1 DEF Derived
<1>16. PatternDone'
  <2>1. ASSUME CheckStatus(Values(hosts)) = Done
        PROVE  \A h \in Host : hosts[h] = Done
    BY <1>12, <2>1, CheckDone, ZenonT(30)
  <2> QED
    BY <1>5, <2>1 DEF PatternDone
<1>17. PatternRunning'
  BY <1>5, <1>12, CheckRunning DEF PatternRunning
<1>18. ASSUME NEW f \in Exec, Busy(f)'
       PROVE  f \in action.children /\ phase[f] # "idle" /\ f \notin recorded
  BY <1>1, <1>6, <1>18 DEF Busy, worker
<1>19. ASSUME NEW f \in action.children, phase[f] # "idle"
       PROVE  \E h \in S : /\ f \notin recorded /\ job[f].host = h
                           /\ job[f].task = first[h] /\ job[f].rest = Later(first[h])
  <2>1. PICK h \in S : Sent(f, h, First(Ready(taskStatus[h])))
    BY <1>1, <1>2 DEF IInv, Starting
  <2>2. first[h] = First(Ready(taskStatus[h]))
    BY <1>3
  <2> QED
    BY <1>19, <2>1, <2>2 DEF Sent
<1>20. Owners'
  <2>1. ASSUME NEW f \in Exec, Busy(f)'
        PROVE  AtFrontier(f)'
    <3>1. f \in action.children /\ phase[f] # "idle" /\ f \notin recorded
      BY <1>18, <2>1
    <3>2. PICK h \in S : /\ job[f].host = h /\ job[f].task = first[h]
                         /\ job[f].rest = Later(first[h])
      BY <1>19, <3>1
    <3>3. phase'[f] \in Early /\ job'[f] = job[f]
      BY <1>1, <3>1 DEF IInv, Rows, worker
    <3>4. Frontier(taskStatus'[h], first[h]) /\ taskStatus'[h][first[h]] = Running
      BY <1>4, <1>8
    <3> QED
      BY <3>2, <3>3, <3>4, AtFrontierNext
  <2>2. ASSUME NEW f \in Exec, NEW g \in Exec, Busy(f)', Busy(g)',
               job'[f].host = job'[g].host
        PROVE  f = g
    <3>1. /\ f \in action.children /\ phase[f] # "idle"
          /\ g \in action.children /\ phase[g] # "idle"
          /\ job[f].host = job[g].host
      BY <1>1, <1>18, <2>2 DEF worker
    <3> QED
      BY <1>1, <3>1 DEF IInv, Starting
  <2> QED
    BY <2>1, <2>2 DEF Owners
<1>21. Rows'
  <2>1. \A f \in action.children :
          phase[f] # "idle" => f \notin recorded /\ phase[f] \in Early
    BY <1>1, <1>19 DEF IInv, Rows
  <2> QED
    BY <1>1, <2>1 DEF IInv, Rows, worker, Early
<1>22. Snapshots'
  BY <1>1, <1>6 DEF IInv, Snapshots, Seen, worker
<1>23. Dispatching'
  <2>1. \A f \in Exec : phase[f] # "sent" /\ child[f] = None
    BY <1>1 DEF IInv, Dispatching
  <2> QED
    BY <1>1, <2>1 DEF Dispatching, worker
<1>24. Starting'
  BY <1>1 DEF Starting
<1> QED
  BY <1>13, <1>14, <1>15, <1>16, <1>17, <1>20, <1>21, <1>22, <1>23, <1>24 DEF IInv

-----------------------------------------------------------------------------
(* Every step preserves the invariant. *)

LEMMA NextInv ==
  ASSUME IInv, [Next]_vars
  PROVE  IInv'
<1>1. CASE ActionBegin \/ ActionAbort
  BY <1>1, ActionBeginInv, ActionAbortInv
<1>2. CASE Web_Step
  BY <1>2, ActionDispatchInv, ActionCommitInv DEF Web_Step
<1>3. ASSUME NEW e \in Exec, Worker_Step(e)
      PROVE  IInv'
  <2>1. CASE \E ok \in BOOLEAN : Execute(e, ok)
    BY <2>1, ExecuteInv
  <2>2. CASE SuccessBegin(e) \/ DispatchBegin(e) \/ FailureBegin(e)
    BY <2>2, BeginInv
  <2>3. CASE SuccessCommit(e) \/ DispatchCommit(e) \/ FailureCommit(e)
    BY <2>3, SuccessCommitInv, DispatchCommitInv, FailureCommitInv
  <2>4. CASE SuccessMissing(e)
    BY <2>4, RaisesInv
  <2>5. CASE \E n \in Exec : DispatchSend(e, n)
    BY <2>5, DispatchSendInv
  <2>6. CASE FinishPlan(e)
    BY <2>6, FinishPlanInv
  <2> QED
    BY <1>3, <2>1, <2>2, <2>3, <2>4, <2>5, <2>6 DEF Worker_Step
<1>4. ASSUME NEW e \in Exec, Fault_Step(e)
      PROVE  IInv'
  <2>1. CASE ExecuteRaises(e)
    BY <2>1, ExecuteRaisesInv
  <2>2. CASE SuccessRaises(e) \/ (DispatchRaises(e) /\ phase[e] = "inDispatch")
    BY <2>2, RaisesInv
  <2>3. CASE DispatchRaises(e) /\ phase[e] = "sent"
    BY <2>3, DispatchLostInv
  <2>4. CASE FinishRaises(e)
    BY <2>4 DEF IInv, NoWithdrawal, FinishRaises, Spend
  <2>5. CASE Crash(e)
    BY <2>5, CrashInv
  <2> QED
    BY <1>4, <2>1, <2>2, <2>3, <2>4, <2>5 DEF Fault_Step, DispatchRaises
<1>5. CASE UNCHANGED vars
  <2> USE <1>5 DEF vars, db, worker
  <2>1. TypeOK' /\ NoWithdrawal'
    BY DEF IInv, TypeOK, NoWithdrawal
  <2>2. Shaped' /\ Derived' /\ PatternDone' /\ PatternRunning'
    BY DEF IInv, Shaped, Derived, PatternDone, PatternRunning
  <2>3. Owners' /\ Rows'
    BY DEF IInv, Owners, Rows, Busy, AtFrontier, Frontier
  <2>4. Snapshots'
    BY DEF IInv, Snapshots, Seen, Busy
  <2>5. Dispatching' /\ Starting'
    BY SMTT(30) DEF IInv, Dispatching, Starting, Sent, Busy, Ready
  <2> QED
    BY <2>1, <2>2, <2>3, <2>4, <2>5 DEF IInv
<1> QED
  BY <1>1, <1>2, <1>3, <1>4, <1>5 DEF Next

-----------------------------------------------------------------------------
(* The theorems.  They assume that upgrade_plan_finish never raises. *)

(* The types and the inductive invariant hold in every reachable state. *)
THEOREM Invariance ==
  ASSUME Budget["finish"] = 0
  PROVE  Spec => []IInv
<1>1. Init => IInv
  BY InitInv
<1>2. IInv /\ [Next]_vars => IInv'
  BY NextInv
<1> QED
  BY <1>1, <1>2, PTL DEF Spec

THEOREM TypeCorrect ==
  ASSUME Budget["finish"] = 0
  PROVE  Spec => []TypeOK
<1>1. IInv => TypeOK
  BY DEF IInv
<1> QED
  BY <1>1, Invariance, PTL

(* A pattern shown as done is done on every host, to the last task. *)
THEOREM DoneIsReallyDone ==
  ASSUME Budget["finish"] = 0
  PROVE  Spec => []DoneIsDone
<1>1. IInv => DoneIsDone
  <2> SUFFICES ASSUME IInv, patternStatus = Done, NEW h \in Host
               PROVE  /\ hostStatus[h] = Done
                      /\ \A t \in Task : taskStatus[h][t] = Done
    BY DEF DoneIsDone
  <2>1. hostStatus[h] = Done
    BY DEF IInv, PatternDone
  <2>2. PICK f \in [Task -> Statuses] : f = taskStatus[h]
    BY DEF IInv, TypeOK
  <2>3. CheckStatus(Values(f)) = Done
    BY <2>1, <2>2 DEF IInv, Derived
  <2>4. \A t \in Task : f[t] = Done
    BY <2>3, CheckDone, ZenonT(30)
  <2> QED
    BY <2>1, <2>2, <2>4
<1> QED
  BY <1>1, Invariance, PTL

(* While an execution the database knows of is under way, its host and the
   pattern are shown as running, so a second request is refused. *)
THEOREM BusyIsShown ==
  ASSUME Budget["finish"] = 0
  PROVE  Spec => []BusyShowsRunning
<1>1. IInv => BusyShowsRunning
  BY BusyRunning DEF IInv, TypeOK, Jobs, PatternRunning, BusyShowsRunning
<1> QED
  BY <1>1, Invariance, PTL

(* A host that shows a task as running, or stands between a done task and an
   untouched one, shows in the pattern, whether anybody goes on with it or not. *)
THEOREM StoppedIsSeen ==
  ASSUME Budget["finish"] = 0
  PROVE  Spec => []StoppedIsShown
<1>1. IInv => StoppedIsShown
  <2> SUFFICES ASSUME IInv, NEW h \in Host,
                      \/ \E t \in Task : taskStatus[h][t] = Running
                      \/ \E t, u \in Task :
                            /\ taskStatus[h][t] = Done /\ taskStatus[h][u] = Pending
                            /\ \A v \in Task : taskStatus[h][v] # Failed
               PROVE  patternStatus = Running
    BY Zenon DEF StoppedIsShown
  <2>1. PICK s \in [Task -> Statuses] : s = taskStatus[h]
    BY DEF IInv, TypeOK
  <2>2. CheckStatus(Values(s)) = Running
    <3>1. CASE \E t \in Task : s[t] = Running
      <4>1. PICK t \in Task : s[t] = Running
        BY <3>1
      <4>2. Running \in Values(s)
        BY <4>1 DEF Values
      <4> QED
        BY <4>2 DEF CheckStatus
    <3>2. CASE \E t, u \in Task : s[t] = Done /\ s[u] = Pending /\ \A v \in Task : s[v] # Failed
      <4>1. Done \in Values(s) /\ Pending \in Values(s) /\ Failed \notin Values(s)
        BY <3>2 DEF Values
      <4> QED
        BY <4>1 DEF CheckStatus
    <3> QED
      BY <2>1, <3>1, <3>2
  <2>3. hostStatus[h] = Running
    BY <2>1, <2>2 DEF IInv, Derived
  <2> QED
    BY <2>3 DEF IInv, PatternRunning
<1> QED
  BY <1>1, Invariance, PTL

-----------------------------------------------------------------------------
(* PatternRun implements HostChain. *)

(* Setting the task at the frontier of a host is one of HostChain's moves. *)
LEMMA FrontierMoves ==
  ASSUME NEW s \in [Task -> Statuses], NEW t \in Task, Frontier(s, t),
         NEW v, <<s[t], v>> \in Chain!Moves
  PROVE  Chain!HostMoves(s, [s EXCEPT ![t] = v])
<1>1. /\ \A u \in Task : u < t => s[u] = Done
      /\ \A u \in Task : u > t => s[u] = Pending
      /\ \A u \in Task : u # t => [s EXCEPT ![t] = v][u] = s[u]
      /\ [s EXCEPT ![t] = v][t] = v
  BY DEF Frontier
<1> QED
  BY <1>1 DEF Chain!HostMoves, Chain!Task, Chain!Done, Chain!Pending

(* The owner of a host moves it and no other. *)
LEMMA WriteMoves ==
  ASSUME IInv, NEW h \in Host, NEW t \in Task, Frontier(taskStatus[h], t),
         NEW s, NEW seen, Write(h, t, s, seen),
         <<taskStatus[h][t], s>> \in Chain!Moves
  PROVE  \A g \in Host : \/ taskStatus'[g] = taskStatus[g]
                          \/ Chain!HostMoves(taskStatus[g], taskStatus'[g])
<1>1. taskStatus[h] \in [Task -> Statuses]
  BY DEF IInv, TypeOK
<1>2. PICK new : new = [taskStatus[h] EXCEPT ![t] = s]
  OBVIOUS
<1>3. Chain!HostMoves(taskStatus[h], new)
  BY <1>1, <1>2, FrontierMoves
<1>4. taskStatus'[h] = new /\ \A g \in Host \ {h} : taskStatus'[g] = taskStatus[g]
  BY <1>2 DEF Write, IInv, TypeOK
<1> QED
  BY <1>3, <1>4

(* What the callbacks and the request write is always a move. *)
LEMMA CommitMoves ==
  ASSUME IInv, NEW e \in Exec,
         SuccessCommit(e) \/ FailureCommit(e) \/ DispatchCommit(e)
  PROVE  \A g \in Host : \/ taskStatus'[g] = taskStatus[g]
                          \/ Chain!HostMoves(taskStatus[g], taskStatus'[g])
<1> USE DEF Chain!Moves, Chain!Pending, Chain!Running, Chain!Done, Chain!Failed
<1>1. CASE FailureCommit(e) /\ ~snap[e].row
  BY <1>1 DEF FailureCommit
<1>2. CASE ~(FailureCommit(e) /\ ~snap[e].row)
  <2>1. PICK h \in Host, t \in Task : h = job[e].host /\ t = job[e].task
    BY DEF IInv, TypeOK, Jobs
  <2>2. snap[e].row
    BY <1>2 DEF SuccessCommit, FailureCommit, DispatchCommit, IInv, Rows, Early
  <2>3. Frontier(taskStatus[h], t) /\ AtFrontier(e) /\ taskStatus[h] \in [Task -> Statuses]
    BY <2>1, <2>2 DEF IInv, TypeOK, Snapshots, Seen, Owners, AtFrontier
  <2>4. CASE SuccessCommit(e)
    <3>1. taskStatus[h][t] = Running
      BY <2>1, <2>3, <2>4 DEF AtFrontier, SuccessCommit
    <3>2. PICK s \in {Done, Failed} : Write(h, t, s, snap[e])
      BY <2>1, <2>4 DEF SuccessCommit
    <3> QED
      BY <2>3, <3>1, <3>2, WriteMoves
  <2>5. CASE FailureCommit(e)
    <3>1. taskStatus[h][t] \in {Running, Done}
      BY <2>1, <2>3 DEF AtFrontier
    <3>2. Write(h, t, Failed, snap[e])
      BY <2>1, <2>2, <2>5 DEF FailureCommit
    <3> QED
      BY <2>3, <3>1, <3>2, WriteMoves
  <2>6. CASE DispatchCommit(e)
    <3>1. taskStatus[h][t] = Done /\ job[e].rest = Later(t) /\ Later(t) # {}
      BY <2>1, <2>3, <2>6 DEF AtFrontier, DispatchCommit, Early
    <3>2. PICK u \in Task : u = t + 1 /\ u = First(job[e].rest)
      BY <3>1, FirstLater
    <3>3. Frontier(taskStatus[h], u) /\ taskStatus[h][u] = Pending
      BY <2>3, <3>1, <3>2, TasksAssumption DEF Frontier
    <3>4. Write(h, u, Running, snap[e])
      BY <2>1, <2>6, <3>2 DEF DispatchCommit
    <3> QED
      BY <3>3, <3>4, WriteMoves
  <2> QED
    BY <2>4, <2>5, <2>6
<1> QED
  BY <1>1, <1>2

LEMMA RequestMoves ==
  ASSUME IInv, ActionCommit
  PROVE  \A g \in Host : \/ taskStatus'[g] = taskStatus[g]
                          \/ Chain!HostMoves(taskStatus[g], taskStatus'[g])
<1> SUFFICES ASSUME NEW g \in Host, taskStatus'[g] # taskStatus[g]
             PROVE  Chain!HostMoves(taskStatus[g], taskStatus'[g])
  OBVIOUS
<1>1. /\ Ready(taskStatus[g]) # {}
      /\ taskStatus'[g] = [taskStatus[g] EXCEPT ![First(Ready(taskStatus[g]))] = Running]
  BY DEF ActionCommit, IInv, Starting
<1>2. PICK s \in [Task -> Statuses] : s = taskStatus[g]
  BY DEF IInv, TypeOK
<1>3. PICK k \in Task : Frontier(s, k)
  BY <1>2 DEF IInv, Shaped
<1>4. PICK t \in Task : /\ t = First(Ready(s)) /\ Frontier(s, t)
                        /\ s[t] \in {Pending, Failed}
  BY <1>1, <1>2, <1>3, ReadyFrontier
<1>5. <<s[t], Running>> \in Chain!Moves
  BY <1>4 DEF Chain!Moves, Chain!Pending, Chain!Running, Chain!Done, Chain!Failed
<1> QED
  BY <1>1, <1>2, <1>4, <1>5, FrontierMoves

(* Every other step leaves the tasks alone. *)
LEMMA OtherSteps ==
  ASSUME [Next]_vars
  PROVE  \/ UNCHANGED taskStatus
         \/ ActionCommit
         \/ \E e \in Exec : SuccessCommit(e) \/ FailureCommit(e) \/ DispatchCommit(e)
<1> USE DEF db
<1>1. CASE ActionBegin \/ ActionAbort
  BY <1>1 DEF ActionBegin, ActionAbort
<1>2. CASE Web_Step
  BY <1>2 DEF Web_Step, ActionDispatch
<1>3. ASSUME NEW e \in Exec, Worker_Step(e)
      PROVE  UNCHANGED taskStatus \/ SuccessCommit(e) \/ FailureCommit(e) \/ DispatchCommit(e)
  BY <1>3 DEF Worker_Step, Execute, SuccessBegin, SuccessMissing, DispatchBegin,
              DispatchSend, FinishPlan, FailureBegin
<1>4. ASSUME NEW e \in Exec, Fault_Step(e)
      PROVE  UNCHANGED taskStatus
  BY <1>4 DEF Fault_Step, ExecuteRaises, SuccessRaises, DispatchRaises, FinishRaises, Crash
<1>5. CASE UNCHANGED vars
  BY <1>5 DEF vars
<1> QED
  BY <1>1, <1>2, <1>3, <1>4, <1>5 DEF Next

(* Each host's tasks are carried out strictly in order (HostChain). *)
THEOREM ChainsInOrder ==
  ASSUME Budget["finish"] = 0
  PROVE  Spec => TasksInOrder
<1>1. Init => Chain!Init
  BY DEF Init, Chain!Init, Chain!Host, Chain!Task, Chain!Pending
<1>2. IInv /\ IInv' /\ [Next]_vars => [Chain!Next]_taskStatus
  <2> SUFFICES ASSUME IInv, IInv', [Next]_vars
               PROVE  UNCHANGED taskStatus \/ Chain!Next
    OBVIOUS
  <2>1. taskStatus' \in [Host -> [Task -> Statuses]]
    BY DEF IInv, TypeOK
  <2>2. \/ UNCHANGED taskStatus
        \/ \A g \in Host : \/ taskStatus'[g] = taskStatus[g]
                             \/ Chain!HostMoves(taskStatus[g], taskStatus'[g])
    BY OtherSteps, RequestMoves, CommitMoves
  <2> QED
    BY <2>1, <2>2 DEF Chain!Next, Chain!Host, Chain!Task, Chain!Statuses,
       Chain!Pending, Chain!Running, Chain!Done, Chain!Failed
<1> QED
  BY <1>1, <1>2, Invariance, PTL DEF Spec, TasksInOrder, Chain!Spec

-----------------------------------------------------------------------------
(* One script per host: what becomes of the executions nobody knows of. *)

(* A callback writes the host it owns and no other. *)
LEMMA OwnerOnly ==
  ASSUME IInv, NEW e \in Exec,
         SuccessCommit(e) \/ FailureCommit(e) \/ DispatchCommit(e),
         NEW h \in Host, hostStatus'[h] # hostStatus[h]
  PROVE  Busy(e) /\ job[e].host = h
<1>1. snap[e].row
  BY DEF SuccessCommit, FailureCommit, DispatchCommit, IInv, Rows, Early
<1>2. Busy(e)
  BY <1>1 DEF IInv, Snapshots, Seen
<1>3. \A t, s : Write(job[e].host, t, s, snap[e]) => job[e].host = h
  BY DEF Write, IInv, TypeOK
<1> QED
  BY <1>1, <1>2, <1>3 DEF SuccessCommit, FailureCommit, DispatchCommit

LEMMA Writers ==
  ASSUME [Next]_vars
  PROVE  \/ UNCHANGED hostStatus
         \/ ActionCommit
         \/ \E e \in Exec : SuccessCommit(e) \/ FailureCommit(e) \/ DispatchCommit(e)
<1> USE DEF db
<1>1. CASE ActionBegin \/ ActionAbort
  BY <1>1 DEF ActionBegin, ActionAbort
<1>2. CASE Web_Step
  BY <1>2 DEF Web_Step, ActionDispatch
<1>3. ASSUME NEW e \in Exec, Worker_Step(e)
      PROVE  UNCHANGED hostStatus \/ SuccessCommit(e) \/ FailureCommit(e) \/ DispatchCommit(e)
  BY <1>3 DEF Worker_Step, Execute, SuccessBegin, SuccessMissing, DispatchBegin,
              DispatchSend, FinishPlan, FailureBegin
<1>4. ASSUME NEW e \in Exec, Fault_Step(e)
      PROVE  UNCHANGED hostStatus
  BY <1>4 DEF Fault_Step, ExecuteRaises, SuccessRaises, DispatchRaises, FinishRaises, Crash
<1>5. CASE UNCHANGED vars
  BY <1>5 DEF vars
<1> QED
  BY <1>1, <1>2, <1>3, <1>4, <1>5 DEF Next

(* A host that shows as running and is nobody's goes on showing it. *)
LEMMA StrandedStays ==
  ASSUME IInv, [Next]_vars, NEW h \in Host, hostStatus[h] = Running,
         \A e \in Exec : Busy(e) => job[e].host # h
  PROVE  hostStatus'[h] = Running
<1>1. CASE ActionCommit
  BY <1>1 DEF ActionCommit, IInv, Starting
<1>2. CASE \E e \in Exec : SuccessCommit(e) \/ FailureCommit(e) \/ DispatchCommit(e)
  BY <1>2, OwnerOnly
<1> QED
  BY <1>1, <1>2, Writers

(* A step that sends nothing and loses nothing it has sent, and after which
   work is under way only where work was under way before. *)
LEMMA NoNewStray ==
  ASSUME IInv, [Next]_vars, StraysAlone,
         budget'["abort"] = budget["abort"],
         \A n \in Exec : Stray(n)' => Stray(n) /\ job'[n] = job[n],
         \A f \in Exec : Busy(f)' =>
           \E e \in Exec : Busy(e) /\ job[e].host = job'[f].host
  PROVE  StraysAlone'
<1> SUFFICES ASSUME budget["abort"] = Budget["abort"]
             PROVE  /\ \A n \in Exec : Stray(n)' =>
                         /\ hostStatus'[job'[n].host] = Running
                         /\ \A e \in Exec : Busy(e)' => job'[e].host # job'[n].host
                    /\ \A m, n \in Exec :
                         Stray(m)' /\ Stray(n)' /\ job'[m].host = job'[n].host => m = n
  BY DEF StraysAlone
<1>1. ASSUME NEW n \in Exec, Stray(n)'
      PROVE  /\ hostStatus'[job'[n].host] = Running
             /\ \A e \in Exec : Busy(e)' => job'[e].host # job'[n].host
  <2>1. Stray(n) /\ job'[n] = job[n] /\ job[n].host \in Host
    BY <1>1 DEF IInv, TypeOK, Jobs
  <2>2. /\ hostStatus[job[n].host] = Running
        /\ \A e \in Exec : Busy(e) => job[e].host # job[n].host
    BY <2>1 DEF StraysAlone
  <2>3. hostStatus'[job[n].host] = Running
    BY <2>1, <2>2, StrandedStays
  <2> QED
    BY <2>1, <2>2, <2>3
<1>2. \A m, n \in Exec :
        Stray(m)' /\ Stray(n)' /\ job'[m].host = job'[n].host => m = n
  BY DEF StraysAlone
<1> QED
  BY <1>1, <1>2

(* Steps of one execution that neither send a message nor record one. *)
LEMMA QuietStep ==
  ASSUME IInv, [Next]_vars, StraysAlone, NEW e \in Exec, phase[e] # "sent",
         budget'["abort"] = budget["abort"],
         lock' = Web <=> lock = Web, UNCHANGED action, recorded' \subseteq recorded,
         \A f \in Exec \ {e} : /\ phase'[f] = phase[f] /\ job'[f] = job[f]
                               /\ child'[f] = child[f]
                               /\ f \in recorded => f \in recorded',
         phase'[e] \notin {"queued", "sent"},
         Busy(e)' => Busy(e) /\ job'[e] = job[e]
  PROVE  StraysAlone'
<1>1. \A n \in Exec : Stray(n)' => n # e
  BY DEF Stray
<1>2. \A n \in Exec : InFlight(n) => InFlight(n)'
  BY DEF InFlight
<1>3. \A n \in Exec : Stray(n)' => Stray(n) /\ job'[n] = job[n]
  BY <1>1, <1>2 DEF Stray
<1>4. \A f \in Exec : Busy(f)' => Busy(f) /\ job'[f] = job[f]
  BY DEF Busy
<1> QED
  BY <1>3, <1>4, NoNewStray

(* The budget of aborts never grows; whoever spends it makes the promise void. *)
LEMMA AbortSpent ==
  ASSUME IInv, NEW kind \in FaultKind, Spend(kind)
  PROVE  /\ budget'["abort"] <= budget["abort"]
         /\ kind = "abort" => budget'["abort"] < budget["abort"]
         /\ kind # "abort" => budget'["abort"] = budget["abort"]
<1>1. budget \in [FaultKind -> Nat] /\ "abort" \in FaultKind
  BY DEF IInv, TypeOK, FaultKind
<1>2. budget[kind] \in Nat /\ budget[kind] > 0 /\ budget["abort"] \in Nat
  BY <1>1 DEF Spend
<1>3. /\ kind = "abort" => budget'["abort"] = budget["abort"] - 1
      /\ kind # "abort" => budget'["abort"] = budget["abort"]
  BY <1>1 DEF Spend
<1> QED
  BY <1>2, <1>3

LEMMA CallbackStrays ==
  ASSUME IInv, [Next]_vars, StraysAlone, NEW e \in Exec, phase[e] # "sent",
         \/ \E ok \in BOOLEAN : Execute(e, ok)
         \/ SuccessBegin(e) \/ SuccessCommit(e) \/ SuccessMissing(e)
         \/ DispatchBegin(e) \/ FinishPlan(e) \/ FailureBegin(e) \/ FailureCommit(e)
         \/ ExecuteRaises(e) \/ SuccessRaises(e) \/ DispatchRaises(e) \/ Crash(e)
  PROVE  StraysAlone'
<1>1. phase[e] # "idle"
  BY DEF Execute, SuccessBegin, SuccessCommit, SuccessMissing, DispatchBegin,
     FinishPlan, FailureBegin, FailureCommit, ExecuteRaises, SuccessRaises,
     DispatchRaises, Crash
<1>2. budget'["abort"] = budget["abort"]
  <2>1. CASE Crash(e)
    BY <2>1, AbortSpent DEF Crash, FaultKind
  <2>2. CASE ~Crash(e)
    BY <2>2 DEF Execute, SuccessBegin, SuccessCommit, SuccessMissing, DispatchBegin,
       FinishPlan, FailureBegin, FailureCommit, ExecuteRaises, SuccessRaises,
       DispatchRaises
  <2> QED
    BY <2>1, <2>2
<1>3. lock' = lock \/ (Crash(e) /\ lock = e /\ lock' = None)
  BY DEF Execute, SuccessBegin, SuccessCommit, SuccessMissing, DispatchBegin,
     FinishPlan, FailureBegin, FailureCommit, ExecuteRaises, SuccessRaises,
     DispatchRaises, Crash
<1>4. lock' = Web <=> lock = Web
  BY <1>3, NamesAssumption
<1>5. UNCHANGED action
  BY DEF Execute, SuccessBegin, SuccessCommit, SuccessMissing, DispatchBegin,
     FinishPlan, FailureBegin, FailureCommit, ExecuteRaises, SuccessRaises,
     DispatchRaises, Crash
<1>6. recorded' \subseteq recorded /\ \A f \in Exec \ {e} : f \in recorded => f \in recorded'
  BY DEF db, Execute, SuccessBegin, SuccessCommit, SuccessMissing, DispatchBegin,
     FinishPlan, FailureBegin, FailureCommit, ExecuteRaises, SuccessRaises,
     DispatchRaises, Crash
<1>7. \A f \in Exec \ {e} : phase'[f] = phase[f] /\ job'[f] = job[f] /\ child'[f] = child[f]
  BY DEF IInv, TypeOK, Leave, Retire, Execute, SuccessBegin, SuccessCommit,
     SuccessMissing, DispatchBegin, FinishPlan, FailureBegin, FailureCommit,
     ExecuteRaises, SuccessRaises, DispatchRaises, Crash
<1>8. phase'[e] \notin {"queued", "sent"}
  BY DEF IInv, TypeOK, Leave, Retire, Execute, SuccessBegin, SuccessCommit,
     SuccessMissing, DispatchBegin, FinishPlan, FailureBegin, FailureCommit,
     ExecuteRaises, SuccessRaises, DispatchRaises, Crash
<1>9. Busy(e)' => Busy(e) /\ job'[e] = job[e]
  <2> SUFFICES ASSUME Busy(e)'
               PROVE  phase[e] # "toFinish" /\ job'[e] = job[e]
    BY <1>1, <1>6 DEF Busy
  <2>1. phase'[e] \notin {"idle", "toFinish"}
    BY DEF Busy
  <2> QED
    BY <2>1 DEF IInv, TypeOK, Leave, Retire, Execute, SuccessBegin, SuccessCommit,
       SuccessMissing, DispatchBegin, FinishPlan, FailureBegin, FailureCommit,
       ExecuteRaises, SuccessRaises, DispatchRaises, Crash
<1> QED
  BY <1>2, <1>4, <1>5, <1>6, <1>7, <1>8, <1>9, QuietStep

(* The request opens, sends a message, or is rolled back with none sent. *)
LEMMA RequestStrays ==
  ASSUME IInv, [Next]_vars, StraysAlone,
         \/ ActionBegin
         \/ \E n \in Exec : ActionDispatch(n)
         \/ ActionAbort /\ action.children = {}
  PROVE  StraysAlone'
<1>1. budget' = budget /\ recorded' = recorded /\ child' = child
  BY DEF ActionBegin, ActionDispatch, ActionAbort, db, worker
<1>2. CASE ActionBegin \/ (ActionAbort /\ action.children = {})
  <2>1. phase' = phase /\ job' = job
    BY <1>2 DEF ActionBegin, ActionAbort, worker
  <2>2. \A n \in Exec : InFlight(n) => InFlight(n)'
    <3>1. lock = Web => action.children = {}
      BY <1>2, NamesAssumption DEF ActionBegin
    <3> QED
      BY <1>1, <2>1, <3>1 DEF InFlight
  <2>3. \A n \in Exec : Stray(n)' => Stray(n) /\ job'[n] = job[n]
    BY <1>1, <2>1, <2>2 DEF Stray
  <2>4. \A f \in Exec : Busy(f)' => Busy(f) /\ job'[f] = job[f]
    BY <1>1, <2>1 DEF Busy
  <2> QED
    BY <1>1, <2>3, <2>4, NoNewStray
<1>3. ASSUME NEW n \in Exec, ActionDispatch(n)
      PROVE  StraysAlone'
  <2>1. /\ phase[n] = "idle" /\ lock = Web /\ lock' = Web
        /\ action'.children = action.children \cup {n}
        /\ \A f \in Exec \ {n} : phase'[f] = phase[f] /\ job'[f] = job[f]
    BY <1>3 DEF ActionDispatch, Fresh, IInv, TypeOK
  <2>2. n \notin recorded
    BY <2>1 DEF IInv, Rows
  <2>3. InFlight(n)' /\ phase'[n] = "queued"
    BY <1>3, <2>1 DEF InFlight, ActionDispatch, IInv, TypeOK
  <2>4. \A m \in Exec : InFlight(m) => InFlight(m)'
    BY <1>1, <2>1 DEF InFlight
  <2>5. \A m \in Exec : Stray(m)' => Stray(m) /\ job'[m] = job[m]
    BY <1>1, <2>1, <2>3, <2>4 DEF Stray
  <2>6. \A f \in Exec : Busy(f)' => Busy(f) /\ job'[f] = job[f]
    BY <1>1, <2>1, <2>2 DEF Busy
  <2> QED
    BY <1>1, <2>5, <2>6, NoNewStray
<1> QED
  BY <1>2, <1>3

(* When the request commits no host was running, so nobody was stray; and
   every message it sent gets its row. *)
LEMMA ActionCommitStrays ==
  ASSUME IInv, [Next]_vars, StraysAlone, ActionCommit
  PROVE  StraysAlone'
<1>1. /\ lock = Web /\ lock' = None /\ phase' = phase /\ job' = job
      /\ child' = child /\ budget' = budget
      /\ recorded' = recorded \cup {n \in action.children : phase[n] # "idle"}
  BY DEF ActionCommit, worker
<1>2. \A h \in Host : hostStatus[h] # Running
  BY <1>1 DEF IInv, Starting
<1>3. \A n \in Exec : job[n].host \in Host
  BY DEF IInv, TypeOK, Jobs
<1>4. budget["abort"] = Budget["abort"] => \A n \in Exec : ~Stray(n)
  BY <1>2, <1>3 DEF StraysAlone
<1>5. \A n \in Exec : Stray(n)' => Stray(n)
  BY <1>1 DEF Stray, InFlight
<1> QED
  BY <1>1, <1>4, <1>5 DEF StraysAlone

(* An execution sends its next task. *)
LEMMA DispatchSendStrays ==
  ASSUME IInv, [Next]_vars, StraysAlone, NEW e \in Exec, NEW n \in Exec,
         DispatchSend(e, n)
  PROVE  StraysAlone'
<1>1. /\ phase[n] = "idle" /\ phase[e] = "inDispatch" /\ n # e
      /\ recorded' = recorded /\ budget' = budget /\ action' = action
      /\ lock = None /\ lock' = e
  BY DEF DispatchSend, Fresh, db
<1>2. /\ phase'[n] = "queued" /\ phase'[e] = "sent" /\ child'[e] = n
      /\ job'[e] = job[e]
      /\ \A f \in Exec \ {n, e} :
           phase'[f] = phase[f] /\ job'[f] = job[f] /\ child'[f] = child[f]
  BY <1>1 DEF DispatchSend, IInv, TypeOK
<1>3. n \notin recorded
  BY <1>1 DEF IInv, Rows
<1>4. InFlight(n)'
  BY <1>2 DEF InFlight
<1>5. \A m \in Exec : ~InFlight(m)
  BY <1>1, NamesAssumption DEF InFlight, IInv, Dispatching
<1>6. \A m \in Exec : Stray(m)' => Stray(m) /\ job'[m] = job[m]
  BY <1>1, <1>2, <1>4, <1>5 DEF Stray
<1>7. \A f \in Exec : Busy(f)' => Busy(f) /\ job'[f] = job[f]
  BY <1>1, <1>2, <1>3 DEF Busy
<1> QED
  BY <1>1, <1>6, <1>7, NoNewStray

(* The next task is recorded, and its host was the sender's. *)
LEMMA DispatchCommitStrays ==
  ASSUME IInv, [Next]_vars, StraysAlone, NEW e \in Exec, DispatchCommit(e)
  PROVE  StraysAlone'
<1>1. /\ phase[e] = "sent" /\ lock = e /\ lock' = None /\ budget' = budget
      /\ action' = action
      /\ recorded' = (recorded \ {e}) \cup {n \in {child[e]} : phase[n] # "idle"}
  BY DEF DispatchCommit, IInv, Dispatching
<1>2. /\ phase'[e] = "idle"
      /\ \A f \in Exec \ {e} :
           phase'[f] = phase[f] /\ job'[f] = job[f] /\ child'[f] = child[f]
  BY DEF DispatchCommit, Retire, Leave, IInv, TypeOK
<1>3. /\ child[e] \in Exec /\ child[e] # e
      /\ Sent(child[e], job[e].host, job[e].task + 1)
      /\ \A f \in Exec \ {e} : phase[f] # "sent"
  BY <1>1 DEF IInv, Dispatching
<1>4. Busy(e)
  BY <1>1 DEF IInv, Rows, Busy, Early
<1>5. \A m \in Exec : InFlight(m) => m = child[e]
  BY <1>1, <1>3, NamesAssumption DEF InFlight
<1>6. \A m \in Exec : Stray(m)' => Stray(m) /\ job'[m] = job[m]
  BY <1>1, <1>2, <1>3, <1>5 DEF Stray
<1>7. ASSUME NEW f \in Exec, Busy(f)'
      PROVE  \E g \in Exec : Busy(g) /\ job[g].host = job'[f].host
  <2>1. f # e
    BY <1>2, <1>7 DEF Busy
  <2>2. CASE f = child[e]
    BY <1>2, <1>3, <1>4, <1>7, <2>1, <2>2 DEF Busy, Sent
  <2>3. CASE f # child[e]
    BY <1>1, <1>2, <1>7, <2>1, <2>3 DEF Busy
  <2> QED
    BY <2>2, <2>3
<1> QED
  BY <1>1, <1>6, <1>7, NoNewStray

(* The sender dies before it commits: the message it has sent is the only
   execution of the sender's host, which still shows as running. *)
LEMMA CrashStrays ==
  ASSUME IInv, [Next]_vars, StraysAlone, NEW e \in Exec, Crash(e), phase[e] = "sent"
  PROVE  StraysAlone'
<1>1. /\ lock = e /\ recorded' = recorded \ {e} /\ action' = action
      /\ hostStatus' = hostStatus /\ budget'["abort"] = budget["abort"]
  BY AbortSpent DEF Crash, IInv, Dispatching, FaultKind
<1>2. /\ phase'[e] = "idle"
      /\ \A f \in Exec \ {e} :
           phase'[f] = phase[f] /\ job'[f] = job[f] /\ child'[f] = child[f]
  BY DEF Crash, Retire, Leave, IInv, TypeOK
<1>3. /\ child[e] \in Exec /\ child[e] # e
      /\ Sent(child[e], job[e].host, job[e].task + 1)
      /\ \A f \in Exec \ {e} : phase[f] # "sent"
  BY DEF IInv, Dispatching
<1>4. Busy(e) /\ hostStatus[job[e].host] = Running
  BY BusyRunning DEF IInv, Rows, Busy, Early
<1>5. \A f \in Exec : Busy(f) /\ job[f].host = job[e].host => f = e
  BY <1>4 DEF IInv, Owners
<1>6. \A m \in Exec : InFlight(m) => m = child[e]
  BY <1>1, <1>3, NamesAssumption DEF InFlight
<1>7. \A m \in Exec : Stray(m)' => /\ job'[m] = job[m]
                                   /\ \/ Stray(m) /\ m # child[e]
                                      \/ m = child[e] /\ job[m].host = job[e].host
  <2> SUFFICES ASSUME NEW m \in Exec, Stray(m)'
               PROVE  /\ job'[m] = job[m]
                      /\ \/ Stray(m) /\ m # child[e]
                         \/ m = child[e] /\ job[m].host = job[e].host
    OBVIOUS
  <2>1. m # e /\ phase[m] = "queued" /\ job'[m] = job[m] /\ m \notin recorded
    BY <1>1, <1>2 DEF Stray
  <2>2. CASE m = child[e]
    BY <1>3, <2>1, <2>2 DEF Sent
  <2>3. CASE m # child[e]
    BY <1>6, <2>1, <2>3 DEF Stray
  <2> QED
    BY <2>1, <2>2, <2>3
<1>8. \A f \in Exec : Busy(f)' => f # e /\ Busy(f) /\ job'[f] = job[f]
  BY <1>1, <1>2 DEF Busy
<1> SUFFICES ASSUME budget["abort"] = Budget["abort"]
             PROVE  /\ \A n \in Exec : Stray(n)' =>
                         /\ hostStatus'[job'[n].host] = Running
                         /\ \A f \in Exec : Busy(f)' => job'[f].host # job'[n].host
                    /\ \A m, n \in Exec :
                         Stray(m)' /\ Stray(n)' /\ job'[m].host = job'[n].host => m = n
  BY <1>1 DEF StraysAlone
<1>9. \A n \in Exec : Stray(n) => /\ hostStatus[job[n].host] = Running
                                  /\ \A f \in Exec : Busy(f) => job[f].host # job[n].host
  BY DEF StraysAlone
<1>10. \A m, n \in Exec : Stray(m) /\ Stray(n) /\ job[m].host = job[n].host => m = n
  BY DEF StraysAlone
<1>11. ASSUME NEW n \in Exec, Stray(n)'
       PROVE  /\ hostStatus'[job'[n].host] = Running
              /\ \A f \in Exec : Busy(f)' => job'[f].host # job'[n].host
  BY <1>1, <1>4, <1>5, <1>7, <1>8, <1>9, <1>11
<1>12. ASSUME NEW m \in Exec, NEW n \in Exec, Stray(m)', Stray(n)',
              job'[m].host = job'[n].host
       PROVE  m = n
  BY <1>4, <1>7, <1>9, <1>10, <1>12
<1> QED
  BY <1>11, <1>12

(* A transaction that fails after it has sent a message spends an abort. *)
LEMMA AbortStrays ==
  ASSUME IInv, budget["abort"] <= Budget["abort"], Spend("abort")
  PROVE  StraysAlone'
<1>1. budget'["abort"] < budget["abort"]
  BY AbortSpent DEF FaultKind
<1>2. budget["abort"] \in Nat /\ budget'["abort"] \in Int /\ Budget["abort"] \in Nat
  BY BudgetAssumption DEF IInv, TypeOK, FaultKind, Spend
<1> QED
  BY <1>1, <1>2 DEF StraysAlone

LEMMA StraysInv ==
  ASSUME ScriptInv, [Next]_vars
  PROVE  ScriptInv'
<1> USE DEF ScriptInv
<1>1. IInv'
  BY NextInv
<1>2. budget'["abort"] <= Budget["abort"]
  <2>1. UNCHANGED budget \/ \E kind \in FaultKind : Spend(kind)
    <3>1. CASE ActionBegin \/ ActionAbort \/ Web_Step
      BY <3>1 DEF ActionBegin, ActionAbort, Web_Step, ActionDispatch, ActionCommit,
         FaultKind
    <3>2. ASSUME NEW e \in Exec, Worker_Step(e)
          PROVE  UNCHANGED budget
      BY <3>2 DEF Worker_Step, Execute, SuccessBegin, SuccessCommit, SuccessMissing,
         DispatchBegin, DispatchSend, DispatchCommit, FinishPlan, FailureBegin,
         FailureCommit
    <3>3. ASSUME NEW e \in Exec, Fault_Step(e)
          PROVE  UNCHANGED budget \/ \E kind \in FaultKind : Spend(kind)
      BY <3>3 DEF Fault_Step, ExecuteRaises, SuccessRaises, DispatchRaises,
         FinishRaises, Crash, FaultKind
    <3> QED
      BY <3>1, <3>2, <3>3 DEF Next, vars
  <2>2. budget["abort"] \in Nat /\ budget'["abort"] \in Nat /\ Budget["abort"] \in Nat
    BY <1>1, BudgetAssumption DEF IInv, TypeOK, FaultKind
  <2>3. budget'["abort"] <= budget["abort"]
    BY <2>1, <2>2, AbortSpent
  <2> QED
    BY <2>2, <2>3
<1>3. StraysAlone'
  <2>1. CASE ActionBegin \/ ActionAbort \/ \E n \in Exec : ActionDispatch(n)
    BY <2>1, RequestStrays, AbortStrays DEF ActionAbort
  <2>2. CASE ActionCommit
    BY <2>2, ActionCommitStrays
  <2>3. ASSUME NEW e \in Exec, Worker_Step(e)
        PROVE  StraysAlone'
    <3>1. CASE \E n \in Exec : DispatchSend(e, n)
      BY <3>1, DispatchSendStrays
    <3>2. CASE DispatchCommit(e)
      BY <3>2, DispatchCommitStrays
    <3>3. CASE \/ \E ok \in BOOLEAN : Execute(e, ok)
               \/ SuccessBegin(e) \/ SuccessCommit(e) \/ SuccessMissing(e)
               \/ DispatchBegin(e) \/ FinishPlan(e)
               \/ FailureBegin(e) \/ FailureCommit(e)
      <4>1. phase[e] # "sent"
        BY <3>3 DEF Execute, SuccessBegin, SuccessCommit, SuccessMissing,
           DispatchBegin, FinishPlan, FailureBegin, FailureCommit
      <4> QED
        BY <3>3, <4>1, CallbackStrays
    <3> QED
      BY <2>3, <3>1, <3>2, <3>3 DEF Worker_Step
  <2>4. ASSUME NEW e \in Exec, Fault_Step(e)
        PROVE  StraysAlone'
    <3>1. CASE phase[e] = "sent" /\ Crash(e)
      BY <3>1, CrashStrays
    <3>2. CASE phase[e] = "sent" /\ DispatchRaises(e)
      BY <3>2, AbortStrays DEF DispatchRaises
    <3>3. CASE FinishRaises(e)
      BY <3>3 DEF IInv, NoWithdrawal, FinishRaises, Spend
    <3>4. CASE phase[e] # "sent" /\ ~FinishRaises(e)
      BY <2>4, <3>4, CallbackStrays DEF Fault_Step
    <3> QED
      BY <2>4, <3>1, <3>2, <3>3, <3>4 DEF Fault_Step, ExecuteRaises, SuccessRaises
  <2>5. CASE UNCHANGED vars
    <3>1. \A n \in Exec : Stray(n)' <=> Stray(n)
      BY <2>5 DEF vars, db, worker, Stray, InFlight
    <3>2. \A f \in Exec : Busy(f)' <=> Busy(f)
      BY <2>5 DEF vars, db, worker, Busy
    <3> QED
      BY <2>5, <3>1, <3>2 DEF vars, db, worker, StraysAlone
  <2> QED
    BY <2>1, <2>2, <2>3, <2>4, <2>5 DEF Next, Web_Step
<1> QED
  BY <1>1, <1>2, <1>3

(* While no request or dispatch has failed after it had sent a message, a host
   never has two scripts sent to it at once. *)
THEOREM OneScriptAtATime ==
  ASSUME Budget["finish"] = 0
  PROVE  Spec => []OneScriptPerHost
<1>1. Init => ScriptInv
  <2> SUFFICES ASSUME Init
               PROVE  ScriptInv
    OBVIOUS
  <2>1. IInv
    BY InitInv
  <2>2. budget["abort"] <= Budget["abort"]
    BY BudgetAssumption DEF Init, FaultKind
  <2>3. StraysAlone
    BY DEF Init, StraysAlone, Stray
  <2> QED
    BY <2>1, <2>2, <2>3 DEF ScriptInv
<1>2. ScriptInv /\ [Next]_vars => ScriptInv'
  BY StraysInv
<1>3. ScriptInv => OneScriptPerHost
  <2> SUFFICES ASSUME ScriptInv, budget["abort"] = Budget["abort"],
                      NEW e \in Exec, NEW f \in Exec,
                      phase[e] = "queued", phase[f] = "queued",
                      job[e].host = job[f].host
               PROVE  e = f
    BY DEF OneScriptPerHost
  <2> USE DEF ScriptInv
  <2> DEFINE Flying(n) == \E g \in Exec : /\ phase[g] = "sent" /\ child[g] = n
                                          /\ lock = g /\ Busy(g)
                                          /\ job[g].host = job[n].host
             Requested(n) == lock = Web /\ n \in action.children
  <2>1. \A n \in {e, f} : Busy(n) \/ Stray(n) \/ Flying(n) \/ Requested(n)
    <3>1. \A g \in Exec : phase[g] = "sent" =>
            lock = g /\ Busy(g) /\ Sent(child[g], job[g].host, job[g].task + 1)
      BY DEF IInv, Dispatching, Rows, Early, Busy
    <3> QED
      BY <3>1 DEF Busy, Stray, InFlight, Sent
  <2>2. \A n \in {e, f} : Flying(n) \/ Requested(n) => ~Busy(n) /\ ~Stray(n)
    BY DEF IInv, Starting, Dispatching, Sent, Busy, Stray, InFlight
  <2>3. CASE Requested(e) \/ Requested(f)
    <3>1. /\ \A h \in Host : hostStatus[h] # Running
          /\ \A n \in Exec : ~Busy(n)
          /\ \A m, n \in action.children :
               /\ phase[m] # "idle" /\ phase[n] # "idle"
               /\ job[m].host = job[n].host
               => m = n
      BY <2>3 DEF IInv, Starting
    <3>2. \A n \in Exec : ~Stray(n)
      BY <3>1 DEF StraysAlone, IInv, TypeOK, Jobs
    <3>3. Requested(e) /\ Requested(f)
      BY <2>1, <3>1, <3>2
    <3> QED
      BY <3>1, <3>3
  <2>4. CASE Flying(e) \/ Flying(f)
    <3>1. ASSUME NEW m \in {e, f}, NEW n \in {e, f}, Flying(m)
          PROVE  m = n
      <4>1. PICK g \in Exec : /\ phase[g] = "sent" /\ child[g] = m /\ lock = g
                              /\ Busy(g) /\ job[g].host = job[m].host
        BY <3>1
      <4>2. job[n].host = job[g].host
        BY <4>1
      <4>3. ~Stray(n)
        BY <4>1, <4>2 DEF StraysAlone
      <4>4. ~Busy(n)
        BY <4>1, <4>2 DEF IInv, Owners
      <4>5. ~Requested(n)
        BY <4>1, NamesAssumption
      <4>6. Flying(n)
        BY <2>1, <4>3, <4>4, <4>5
      <4> QED
        BY <4>1, <4>6
    <3> QED
      BY <2>4, <3>1
  <2>5. CASE (Busy(e) \/ Stray(e)) /\ (Busy(f) \/ Stray(f))
    BY <2>5 DEF IInv, Owners, StraysAlone
  <2> QED
    BY <2>1, <2>3, <2>4, <2>5
<1> QED
  BY <1>1, <1>2, <1>3, PTL DEF Spec

-----------------------------------------------------------------------------
(* Publishing the plan. *)

(* The tasks of a done host are done. *)
LEMMA DoneHost ==
  ASSUME IInv, NEW h \in Host, hostStatus[h] = Done
  PROVE  \A t \in Task : taskStatus[h][t] = Done
<1>1. PICK s \in [Task -> Statuses] : s = taskStatus[h]
  BY DEF IInv, TypeOK
<1>2. CheckStatus(Values(s)) = Done
  BY <1>1 DEF IInv, Derived
<1>3. \A t \in Task : s[t] = Done
  BY <1>2, CheckDone, Zenon
<1> QED
  BY <1>1, <1>3

(* A host that is done stays done: its tasks are all done, so that no request
   starts one, and no execution owns it. *)
LEMMA DoneStays ==
  ASSUME IInv, [Next]_vars, NEW h \in Host, hostStatus[h] = Done
  PROVE  hostStatus'[h] = Done
<1>1. CASE ActionCommit
  <2>4. Ready(taskStatus[h]) = {}
    BY DoneHost DEF Ready
  <2>5. h \notin action.started
    BY <1>1, <2>4 DEF ActionCommit, IInv, Starting
  <2> QED
    BY <1>1, <2>5 DEF ActionCommit
<1>2. CASE \E e \in Exec : SuccessCommit(e) \/ FailureCommit(e) \/ DispatchCommit(e)
  BY <1>2, OwnerOnly, BusyRunning
<1> QED
  BY <1>1, <1>2, Writers

(* The last task of a chain has succeeded: its host is done. *)
LEMMA ChainEndsDone ==
  ASSUME IInv, NEW e \in Exec, SuccessCommit(e), verdict[e], job[e].rest = {}
  PROVE  hostStatus'[job[e].host] = Done
<1> DEFINE h == job[e].host
           t == job[e].task
<1>1. Seen(e) /\ AtFrontier(e)
  BY DEF SuccessCommit, IInv, Snapshots, Seen, Owners
<1>2. /\ h \in Host /\ t \in Task /\ taskStatus[h] \in [Task -> Statuses]
      /\ snap[e].task[h] = taskStatus[h]
  BY <1>1 DEF IInv, TypeOK, Jobs, Seen
<1>3. PICK s : s = [taskStatus[h] EXCEPT ![t] = Done]
  OBVIOUS
<1>4. hostStatus'[h] = CheckStatus(Values(s))
  BY <1>2, <1>3 DEF SuccessCommit, Write, IInv, TypeOK
<1>5. \A u \in Task : s[u] = Done
  <2>1. \A u \in Task : ~(u > t)
    BY <1>1 DEF AtFrontier, Later
  <2>2. \A u \in Task : u < t => taskStatus[h][u] = Done
    BY <1>1 DEF AtFrontier, Frontier
  <2> QED
    BY <1>2, <1>3, <2>1, <2>2, TasksAssumption
<1>6. Values(s) = {Done}
  <2>1. DOMAIN s = Task /\ 1 \in Task
    BY <1>2, <1>3, TasksAssumption
  <2> QED
    BY <1>5, <2>1 DEF Values
<1>7. CheckStatus({Done}) = Done
  BY DEF CheckStatus
<1> QED
  BY <1>4, <1>6, <1>7

(* Who comes to finish the plan, and who has finished it. *)
LEMMA Finishers ==
  ASSUME IInv, [Next]_vars
  PROVE  /\ \A e \in Exec : phase'[e] = "toFinish" =>
              \/ phase[e] = "toFinish" /\ job'[e] = job[e]
              \/ SuccessCommit(e) /\ verdict[e] /\ job[e].rest = {} /\ job'[e] = job[e]
         /\ planStatus' = 4 =>
              \/ planStatus = 4
              \/ \E e \in Exec : phase[e] = "toFinish"
<1> USE DEF db, worker
<1>1. CASE ActionBegin \/ ActionAbort \/ ActionCommit \/ UNCHANGED vars
  BY <1>1 DEF ActionBegin, ActionAbort, ActionCommit, vars
<1>2. ASSUME NEW n \in Exec, ActionDispatch(n)
      PROVE  /\ \A e \in Exec : phase'[e] = "toFinish" =>
                  phase[e] = "toFinish" /\ job'[e] = job[e]
             /\ planStatus' = planStatus
  BY <1>2 DEF ActionDispatch, IInv, TypeOK
<1>3. ASSUME NEW f \in Exec, NEW n \in Exec, DispatchSend(f, n)
      PROVE  /\ \A e \in Exec : phase'[e] = "toFinish" =>
                  phase[e] = "toFinish" /\ job'[e] = job[e]
             /\ planStatus' = planStatus
  <2>1. phase[n] = "idle" /\ phase[f] = "inDispatch" /\ planStatus' = planStatus
    BY <1>3 DEF DispatchSend, Fresh
  <2>2. phase'[n] # "toFinish" /\ phase'[f] # "toFinish"
    BY <1>3, <2>1 DEF DispatchSend, IInv, TypeOK
  <2>3. \A e \in Exec \ {n, f} : phase'[e] = phase[e] /\ job'[e] = job[e]
    BY <1>3, <2>1 DEF DispatchSend, IInv, TypeOK
  <2> QED
    BY <2>1, <2>2, <2>3
<1>4. ASSUME NEW f \in Exec, SuccessCommit(f)
      PROVE  /\ \A e \in Exec : phase'[e] = "toFinish" =>
                  \/ phase[e] = "toFinish" /\ job'[e] = job[e]
                  \/ SuccessCommit(e) /\ verdict[e] /\ job[e].rest = {} /\ job'[e] = job[e]
             /\ planStatus' = planStatus
  BY <1>4 DEF SuccessCommit, Leave, Retire, IInv, TypeOK
<1>5. ASSUME NEW f \in Exec, FinishPlan(f)
      PROVE  /\ \A e \in Exec : phase'[e] = "toFinish" =>
                  phase[e] = "toFinish" /\ job'[e] = job[e]
             /\ phase[f] = "toFinish"
  BY <1>5 DEF FinishPlan, Leave, Retire, IInv, TypeOK
<1>6. ASSUME NEW f \in Exec,
             \/ \E ok \in BOOLEAN : Execute(f, ok)
             \/ SuccessBegin(f) \/ SuccessMissing(f) \/ DispatchBegin(f)
             \/ DispatchCommit(f) \/ FailureBegin(f) \/ FailureCommit(f)
             \/ Fault_Step(f)
      PROVE  /\ \A e \in Exec : phase'[e] = "toFinish" =>
                  phase[e] = "toFinish" /\ job'[e] = job[e]
             /\ planStatus' = planStatus
  <2>1. /\ phase'[f] # "toFinish"
        /\ \A e \in Exec \ {f} : phase'[e] = phase[e] /\ job'[e] = job[e]
    BY <1>6 DEF Execute, SuccessBegin, SuccessMissing, DispatchBegin, DispatchCommit,
       FailureBegin, FailureCommit, Fault_Step, ExecuteRaises, SuccessRaises,
       DispatchRaises, FinishRaises, Crash, Leave, Retire, IInv, TypeOK
  <2>2. planStatus' = planStatus
    BY <1>6 DEF Execute, SuccessBegin, SuccessMissing, DispatchBegin, DispatchCommit,
       FailureBegin, FailureCommit, Fault_Step, ExecuteRaises, SuccessRaises,
       DispatchRaises, FinishRaises, Crash
  <2> QED
    BY <2>1, <2>2
<1> QED
  BY <1>1, <1>2, <1>3, <1>4, <1>5, <1>6 DEF Next, Web_Step, Worker_Step

(* What a host goes through, it never goes back to the beginning. *)
LEMMA MovesBegin ==
  ASSUME NEW old \in [Task -> Statuses], NEW new \in [Task -> Statuses],
         Chain!HostMoves(old, new), old[1] # Pending
  PROVE  new[1] # Pending
<1>1. PICK t \in Task : /\ \A u \in Task : u # t => new[u] = old[u]
                        /\ <<old[t], new[t]>> \in Chain!Moves
  BY DEF Chain!HostMoves, Chain!Task
<1>2. new[t] # Pending
  BY <1>1 DEF Chain!Moves, Chain!Pending, Chain!Running, Chain!Done, Chain!Failed
<1> QED
  BY <1>1, <1>2, TasksAssumption

(* In a pattern nobody has started, every task of every host is ready. *)
LEMMA UntouchedReady ==
  ASSUME IInv, Untouched, NEW h \in Host
  PROVE  Ready(taskStatus[h]) = Task /\ 1 \in Task /\ First(Ready(taskStatus[h])) = 1
<1>1. 1 \in Task /\ Ready(taskStatus[h]) = Task
  BY TasksAssumption DEF Untouched, Ready
<1>2. First(Task) \in Task /\ First(Task) <= 1
  <2>1. Task \subseteq Nat
    BY TasksAssumption
  <2> HIDE DEF Task
  <2>2. First(Task) \in Task /\ \A u \in Task : First(Task) <= u
    BY <1>1, <2>1, FirstIsLeast
  <2> QED
    BY <1>1, <2>2
<1>3. First(Task) = 1
  BY <1>2, TasksAssumption
<1> QED
  BY <1>1, <1>3

(* The first start begins every host of the pattern, and no other step begins
   some and leaves others. *)
LEMMA BegunTogetherInv ==
  ASSUME IInv, IInv', BegunTogether, [Next]_vars
  PROVE  BegunTogether'
<1> USE DEF db, worker
<1>1. taskStatus' \in [Host -> [Task -> Statuses]] /\ taskStatus \in [Host -> [Task -> Statuses]]
  BY DEF IInv, TypeOK
<1>2. CASE Begun
  <2>1. \A g \in Host : \/ taskStatus'[g] = taskStatus[g]
                         \/ Chain!HostMoves(taskStatus[g], taskStatus'[g])
    BY OtherSteps, RequestMoves, CommitMoves
  <2> QED
    BY <1>1, <1>2, <2>1, MovesBegin DEF Begun, BegunTogether
<1>3. CASE Untouched /\ (lock = Web => action.todo \cup action.started = Host)
  <2>1. CASE ActionBegin
    <3>1. action'.todo = Host /\ action'.started = {} /\ taskStatus' = taskStatus
      <4>1. \A h \in Host : Ready(taskStatus[h]) # {}
        BY <1>3, UntouchedReady
      <4> QED
        BY <2>1, <4>1 DEF ActionBegin, NoAction
    <3> QED
      BY <1>3, <3>1 DEF BegunTogether, Untouched
  <2>2. ASSUME NEW n \in Exec, ActionDispatch(n)
        PROVE  BegunTogether'
    <3>1. action.todo \subseteq Nat /\ action.todo # {}
      BY <2>2, HostsAssumption DEF ActionDispatch, IInv, TypeOK, Actions
    <3>2. First(action.todo) \in action.todo
      BY <3>1, FirstIsLeast
    <3>3. /\ action'.todo \cup action'.started = action.todo \cup action.started
          /\ taskStatus' = taskStatus /\ lock' = lock
      BY <2>2, <3>2 DEF ActionDispatch
    <3> QED
      BY <1>3, <3>3 DEF BegunTogether, Untouched
  <2>3. CASE ActionCommit
    <3>1. action.started = Host
      BY <1>3, <2>3 DEF ActionCommit
    <3>2. ASSUME NEW h \in Host
          PROVE  taskStatus'[h][1] = Running
      <4>1. taskStatus'[h] = [taskStatus[h] EXCEPT ![First(Ready(taskStatus[h]))] = Running]
        BY <2>3, <3>1 DEF ActionCommit
      <4> QED
        BY <1>1, <1>3, <4>1, UntouchedReady
    <3> QED
      BY <3>2 DEF BegunTogether, Begun
  <2>4. CASE \E e \in Exec : SuccessCommit(e) \/ FailureCommit(e) \/ DispatchCommit(e)
    <3>1. PICK e \in Exec : SuccessCommit(e) \/ FailureCommit(e) \/ DispatchCommit(e)
      BY <2>4
    <3>2. CASE snap[e].row
      <4>1. AtFrontier(e) /\ job[e].host \in Host /\ job[e].task \in Task
        BY <3>2 DEF IInv, Snapshots, Seen, Owners, TypeOK, Jobs
      <4>2. taskStatus[job[e].host][job[e].task] # Pending
        BY <4>1 DEF AtFrontier
      <4> QED
        BY <1>3, <4>1, <4>2 DEF Untouched
    <3>3. CASE ~snap[e].row
      <4>1. FailureCommit(e) /\ phase[e] = "inFailure"
        BY <3>1, <3>3 DEF SuccessCommit, FailureCommit, DispatchCommit, IInv, Rows, Early
      <4>2. UNCHANGED <<taskStatus, lock, action>>
        BY <3>3, <4>1 DEF FailureCommit
      <4> QED
        BY <1>3, <4>2 DEF BegunTogether, Untouched
    <3> QED
      BY <3>2, <3>3
  <2>5. CASE ActionAbort
    BY <1>3, <2>5, NamesAssumption DEF ActionAbort, BegunTogether, Untouched
  <2>6. ASSUME NEW e \in Exec,
               \/ \E ok \in BOOLEAN : Execute(e, ok)
               \/ SuccessBegin(e) \/ SuccessMissing(e) \/ DispatchBegin(e)
               \/ (\E n \in Exec : DispatchSend(e, n))
               \/ FinishPlan(e) \/ FailureBegin(e) \/ Fault_Step(e)
        PROVE  BegunTogether'
    <3>1. UNCHANGED <<taskStatus, action>> /\ (lock' = Web => lock = Web)
      BY <2>6, NamesAssumption DEF Execute, SuccessBegin, SuccessMissing, DispatchBegin,
         DispatchSend, FinishPlan, FailureBegin, Fault_Step, ExecuteRaises,
         SuccessRaises, DispatchRaises, FinishRaises, Crash
    <3> QED
      BY <1>3, <3>1 DEF BegunTogether, Untouched
  <2>7. CASE UNCHANGED vars
    BY <1>3, <2>7 DEF vars, BegunTogether, Untouched
  <2> QED
    BY <2>1, <2>2, <2>3, <2>4, <2>5, <2>6, <2>7 DEF Next, Web_Step, Worker_Step
<1> QED
  BY <1>2, <1>3 DEF BegunTogether

(* Whatever the number of hosts, the plan is published only when every host
   of the pattern has been begun and one of them is done, whatever crashes or
   is sent in vain.  A plan published already cannot be started, so it does
   not begin as one. *)
THEOREM PublishedHostsAreBegun ==
  ASSUME Budget["finish"] = 0, 4 \notin PlanAtStart
  PROVE  Spec => []PublishedIsBegun
<1> DEFINE Inv == IInv /\ FinishedHosts /\ BegunTogether
<1>1. Init => Inv
  BY InitInv, NamesAssumption DEF Init, FinishedHosts, BegunTogether, Untouched
<1>2. Inv /\ [Next]_vars => Inv'
  <2> SUFFICES ASSUME Inv, [Next]_vars
               PROVE  FinishedHosts' /\ BegunTogether'
    BY NextInv
  <2>1. \A e \in Exec : job[e].host \in Host
    BY DEF IInv, TypeOK, Jobs
  <2>2. ASSUME NEW e \in Exec, phase'[e] = "toFinish"
        PROVE  hostStatus'[job'[e].host] = Done
    BY <2>1, <2>2, Finishers, DoneStays, ChainEndsDone DEF FinishedHosts
  <2>3. ASSUME planStatus' = 4
        PROVE  \E h \in Host : hostStatus'[h] = Done
    BY <2>1, <2>3, Finishers, DoneStays DEF FinishedHosts
  <2>4. BegunTogether'
    BY NextInv, BegunTogetherInv
  <2> QED
    BY <2>2, <2>3, <2>4 DEF FinishedHosts
<1>3. Inv => PublishedIsBegun
  <2> SUFFICES ASSUME Inv, planStatus = 4
               PROVE  Begun /\ \E h \in Host : hostStatus[h] = Done
    BY DEF PublishedIsBegun, Begun
  <2>1. PICK h \in Host : hostStatus[h] = Done
    BY DEF FinishedHosts
  <2>2. ASSUME Untouched
        PROVE  FALSE
    BY <2>1, <2>2, DoneHost, TasksAssumption DEF Untouched
  <2> QED
    BY <2>1, <2>2 DEF BegunTogether
<1> QED
  BY <1>1, <1>2, <1>3, PTL DEF Spec

=============================================================================
