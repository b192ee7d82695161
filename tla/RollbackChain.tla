--------------------------- MODULE RollbackChain ----------------------------
(***************************************************************************)
(* How the steps of a rollback follow one another (worker/rollback.py,     *)
(* handler/rollback.py, tasks/check_pattern_status.py).  The request       *)
(* starts the hosts of the first step and nests the later steps in the     *)
(* last task of that step's first host: when this host is done, a check    *)
(* execution polls the step until all its hosts are done and then starts   *)
(* the next one.  At a pause the chain ends, and an operator's request has *)
(* to take it up again.                                                    *)
(*                                                                         *)
(* The tasks of one host within one step are one script here: PatternRun   *)
(* has them one by one.  A host's completion is a transaction with a       *)
(* snapshot, as it is there.                                               *)
(***************************************************************************)
EXTENDS Status, ActionTasks, FiniteSets

CONSTANTS
  Host,         \* the hosts that are rolled back
  Plan,         \* the steps generated for them (RollbackPlan)
  Exec,         \* celery executions that can exist at one time
  Patient,      \* an operator acts only when nothing is under way
  MaxFailures   \* how many scripts fail in a behaviour

(* A step that is neither a pause nor the notice at the end has hosts. *)
ASSUME PlanAssumption ==
  /\ Plan \in Seq([action : {RollbackStop, Pause, Rollback, RestoreFlow, RollbackNotice},
                   hosts : SUBSET Host])
  /\ Len(Plan) > 0
  /\ \A i \in DOMAIN Plan :
       Plan[i].hosts = {} <=> Plan[i].action \in {Pause, RollbackNotice}
ASSUME HostAssumption == IsFiniteSet(Host) /\ Host # {}
ASSUME PatientAssumption == Patient \in BOOLEAN
ASSUME MaxFailuresAssumption == MaxFailures \in Nat

VARIABLES
  host,         \* publish_pattern_host.status, by step and host
  pattern,      \* publish_pattern.status, by step
  started,      \* the plan's status is 21
  exec,         \* the celery executions
  seen,         \* the host statuses an open completion has read
  listed,       \* the steps a retry request has read and not yet run
  failures      \* scripts that may still fail

vars == <<host, pattern, started, exec, seen, listed, failures>>

StepNo == DOMAIN Plan
HostsOf(i) == Plan[i].hosts
Pauses == {i \in StepNo : Plan[i].action = Pause}
Working == {i \in StepNo : HostsOf(i) # {}}

(* What a chain still has to start: the hosts of each step that follows. *)
Rests == [StepNo -> SUBSET Host]
NoRest == [i \in StepNo |-> {}]

Phases == {"idle", "script", "succeeding", "failing", "check", "starting"}

Execution == [phase : Phases, step : StepNo, host : Host,
              rest : Rests, todo : SUBSET Host]

Idle == [phase |-> "idle", step |-> 1, host |-> CHOOSE h \in Host : TRUE,
         rest |-> NoRest, todo |-> {}]

TypeOK ==
  /\ host \in [StepNo -> [Host -> Statuses]]
  /\ pattern \in [StepNo -> Statuses]
  /\ started \in BOOLEAN
  /\ exec \in [Exec -> Execution]
  /\ seen \in [Exec -> [Host -> Statuses]]
  /\ listed \subseteq StepNo
  /\ failures \in 0..MaxFailures

Init ==
  /\ host = [i \in StepNo |-> [h \in Host |-> Pending]]
  /\ pattern = [i \in StepNo |-> Pending]
  /\ started = FALSE
  /\ exec = [e \in Exec |-> Idle]
  /\ seen = [e \in Exec |-> [h \in Host |-> Pending]]
  /\ listed = {}
  /\ failures = MaxFailures

-----------------------------------------------------------------------------
(* Operators *)

Active == {e \in Exec : exec[e].phase # "idle"}
Quiet == Active = {} /\ listed = {}

(* handle_pattern_ready_host_task *)
ReadyHosts(i) == {h \in HostsOf(i) : host[i][h] \in {Pending, Failed}}

(* link_pattern_tasks: the steps of the list that have hosts to run. *)
Link(ids) == [i \in StepNo |-> IF i \in ids THEN ReadyHosts(i) ELSE {}]

Steps(link) == {i \in StepNo : link[i] # {}}
FirstStep(link) == CHOOSE i \in Steps(link) : \A j \in Steps(link) : i <= j
Later(link) == [link EXCEPT ![FirstStep(link)] = {}]

First(hosts) == CHOOSE h \in hosts : TRUE

(* Slip: every host of a step carries the steps that follow. *)
JobAllCarry(link, h) ==
  [phase |-> "script", step |-> FirstStep(link), host |-> h,
   rest |-> Later(link), todo |-> {}]

(* Of a step's hosts only the first one carries the steps that follow. *)
Job(link, h) ==
  [phase |-> "script", step |-> FirstStep(link), host |-> h,
   rest |-> IF h = First(link[FirstStep(link)]) THEN Later(link) ELSE NoRest,
   todo |-> {}]

(* run_rollback_pattern: start the hosts of the first step of the list that
   has any; the hosts take distinct new executions. *)
Run(ids) ==
  LET link == Link(ids)
      i == FirstStep(link)
  IN IF link = NoRest THEN UNCHANGED <<host, pattern, exec>>
     ELSE \E id \in [link[i] -> Exec \ Active] :
       /\ \A g, h \in link[i] : g # h => id[g] # id[h]
       /\ exec' = [e \in Exec |->
                     IF \E h \in link[i] : id[h] = e
                     THEN Job(link, CHOOSE h \in link[i] : id[h] = e)
                     ELSE exec[e]]
       /\ host' = [host EXCEPT ![i] =
                     [h \in Host |-> IF h \in link[i] THEN Running ELSE @[h]]]
       /\ pattern' = [pattern EXCEPT ![i] = Running]

(* get_retry_rollback_pattern_ids: the unfinished steps in order, up to the
   first pause that is not at their head; the slip forgets the failed ones. *)
Unfinished == {i \in StepNo : pattern[i] # Done /\ Plan[i].action # RollbackNotice}
RetryListPending == {i \in StepNo : pattern[i] = Pending /\ Plan[i].action # RollbackNotice}

RetryList ==
  {i \in Unfinished :
     ~\E p \in Pauses \cap Unfinished :
        p <= i /\ \E j \in Unfinished : j < p}
Refused == \E i \in RetryList : pattern[i] = Running

-----------------------------------------------------------------------------
(* Requests *)

(* RollbackOperationHandler: the steps before the first pause are run. *)
RollbackOperation ==
  /\ ~started
  /\ started' = TRUE
  /\ Run({i \in StepNo : /\ Plan[i].action # RollbackNotice
                         /\ \A p \in Pauses : i < p})
  /\ UNCHANGED <<seen, listed, failures>>

(* RollbackRetryHandler reads the list in one transaction ... *)
RetryRead ==
  /\ started
  /\ Patient => Quiet
  /\ ~Refused
  /\ listed = {}
  /\ listed' = RetryList
  /\ UNCHANGED <<host, pattern, started, exec, seen, failures>>

(* ... and runs it in another, with the steps' rows locked, unless one of
   them is running by now. *)
RetryRun ==
  /\ listed # {}
  /\ listed' = {}
  /\ IF \E i \in listed : pattern[i] = Running
     THEN UNCHANGED <<host, pattern, exec>>
     ELSE Run(listed)
  /\ UNCHANGED <<started, seen, failures>>

-----------------------------------------------------------------------------
(* Workers *)

(* A host's script ends; the callback's transaction reads the hosts. *)
ScriptEnds(e) ==
  /\ exec[e].phase = "script"
  /\ \/ /\ exec' = [exec EXCEPT ![e].phase = "succeeding"]
        /\ UNCHANGED failures
     \/ /\ failures > 0
        /\ failures' = failures - 1
        /\ exec' = [exec EXCEPT ![e].phase = "failing"]
  /\ seen' = [seen EXCEPT ![e] = host[exec[e].step]]
  /\ UNCHANGED <<host, pattern, started, listed>>

(* Slip: a failure is recorded for the host and not for the step. *)
RecordHostOnly(e) ==
  LET i == exec[e].step
      h == exec[e].host
      s == IF exec[e].phase = "succeeding" THEN Done ELSE Failed
  IN /\ exec[e].phase \in {"succeeding", "failing"}
     /\ host' = [host EXCEPT ![i][h] = s]
     /\ pattern' = [pattern EXCEPT ![i] = IF s = Done THEN Done ELSE @]
     /\ exec' = [exec EXCEPT ![e] =
                   IF s = Done /\ exec[e].rest # NoRest
                   THEN [exec[e] EXCEPT !.phase = "check"] ELSE Idle]
     /\ UNCHANGED <<started, seen, listed, failures>>

(* It commits the host's status and the step's, and sends the check if the
   script succeeded and steps follow. *)
Record(e) ==
  LET i == exec[e].step
      h == exec[e].host
      s == IF exec[e].phase = "succeeding" THEN Done ELSE Failed
      now == [seen[e] EXCEPT ![h] = s]
  IN /\ exec[e].phase \in {"succeeding", "failing"}
     /\ host' = [host EXCEPT ![i][h] = s]
     /\ pattern' = [pattern EXCEPT ![i] = CheckStatus({now[g] : g \in HostsOf(i)})]
     /\ exec' = [exec EXCEPT ![e] =
                   IF s = Done /\ exec[e].rest # NoRest
                   THEN [exec[e] EXCEPT !.phase = "check"] ELSE Idle]
     /\ UNCHANGED <<started, seen, listed, failures>>

(* Slip: the check goes by its own host instead of the step. *)
PollOwnHost(e) ==
  /\ exec[e].phase = "check"
  /\ host[exec[e].step][exec[e].host] = Done
  /\ exec' = [exec EXCEPT ![e].phase = "starting",
                          ![e].todo = exec[e].rest[FirstStep(exec[e].rest)]]
  /\ UNCHANGED <<host, pattern, started, seen, listed, failures>>

(* check_pattern_status: the step is done. *)
Poll(e) ==
  /\ exec[e].phase = "check"
  /\ pattern[exec[e].step] = Done
  /\ exec' = [exec EXCEPT ![e].phase = "starting",
                          ![e].todo = exec[e].rest[FirstStep(exec[e].rest)]]
  /\ UNCHANGED <<host, pattern, started, seen, listed, failures>>

(* The step has failed, or the check's time is up: the chain ends. *)
GiveUp(e) ==
  /\ exec[e].phase = "check"
  /\ pattern[exec[e].step] # Done
  /\ exec' = [exec EXCEPT ![e] = Idle]
  /\ UNCHANGED <<host, pattern, started, seen, listed, failures>>

(* on_success of the check: each host of the next step has a transaction of
   its own, and is started without a look at its status. *)
StartNext(e, n, h) ==
  LET link == exec[e].rest
      i == FirstStep(link)
  IN /\ exec[e].phase = "starting"
     /\ h \in exec[e].todo
     /\ n \notin Active
     /\ host' = [host EXCEPT ![i][h] = Running]
     /\ pattern' = [pattern EXCEPT ![i] = Running]
     /\ exec' = [exec EXCEPT ![n] = Job(link, h),
                             ![e] = IF exec[e].todo = {h} THEN Idle
                                    ELSE [exec[e] EXCEPT !.todo = exec[e].todo \ {h}]]
     /\ UNCHANGED <<started, seen, listed, failures>>

Worker(e) ==
  \/ ScriptEnds(e) \/ Record(e) \/ Poll(e) \/ GiveUp(e)
  \/ \E n \in Exec, h \in Host : StartNext(e, n, h)

Next ==
  \/ RollbackOperation \/ RetryRead \/ RetryRun
  \/ \E e \in Exec : Worker(e)

Spec == Init /\ [][Next]_vars

-----------------------------------------------------------------------------
(* Properties *)

(* The rollback keeps its promise (RollbackOrder): neither the nested chain nor
   a repeated request overtakes a step, only a request passes a pause, and
   what is done stays done. *)
Order == INSTANCE RollbackOrder WITH
  Step <- StepNo,
  Hosts <- [i \in StepNo |-> HostsOf(i)],
  status <- host,
  resting <- Active = {}
KeepsOrder == Order!Spec

(* "A host that has a task running is skipped": no host ever has two scripts
   of the rollback under way. *)
OneScriptPerHost ==
  \A e, f \in Active :
    /\ exec[e].phase = "script" /\ exec[f].phase = "script"
    /\ exec[e].host = exec[f].host
    => e = f

UnfinishedWork == {i \in Working : pattern[i] # Done /\ Plan[i].action # RollbackNotice}

(* When nothing is under way and a step is not finished, a repeated request is
   not refused as if something were running, unless a step of several hosts
   was left at 1 by callbacks that overlapped. *)
RetryIsTaken ==
  started /\ Quiet /\ UnfinishedWork # {} /\ Refused
    => \E i \in Working : pattern[i] = Running /\ Cardinality(HostsOf(i)) > 1

(* "Get the ids of the unfinished rollback steps": a repeated request that is
   not refused begins with the first unfinished step that has hosts to run. *)
RetryFindsUnfinished ==
  started /\ Quiet /\ ~Refused /\ UnfinishedWork # {}
    => LET i == CHOOSE j \in UnfinishedWork : \A k \in UnfinishedWork : j <= k
       IN i \in RetryList /\ ReadyHosts(i) # {}

=============================================================================
