--------------------------- MODULE PlanLifecycle ----------------------------
(***************************************************************************)
(* The status of a plan, and who writes it: the downloads (tasks/          *)
(* publish_plan.py), the last step of the plan (worker/publish_plan.py),   *)
(* the rollback requests (handler/rollback.py) and the client, which sets  *)
(* it with a PUT (handler/publish_plan.py).  The steps of the plan are its *)
(* rows of publish_pattern; a rollback adds rows of its own behind them.   *)
(* A step is one piece of work here, on one host or several, and so it can *)
(* end in all the ways PatternRun finds, which has the hosts and tasks;    *)
(* RollbackChain has the way from one step of a rollback to the next,      *)
(* PlanCreation the downloads.                                             *)
(***************************************************************************)
EXTENDS Status, ActionTasks, Integers, Sequences

CONSTANTS
  PublishSteps,   \* the actions of the plan's own steps
  RollbackSteps,  \* the actions of the steps a rollback adds
  MaxRollbacks,   \* bound on the rollbacks that are generated
  MaxDownloads,   \* downloads that can be under way at one time
  EditSet,        \* the statuses the client writes
  Patient,        \* the client asks for a rollback, and repeats it, when nothing
                  \* is under way, and for a second one after the first
  Orderly         \* the client takes the steps in order, at their time

ASSUME StepsAssumption ==
  /\ PublishSteps \in Seq({Publish, StopFlow}) /\ PublishSteps # <<>>
  /\ RollbackSteps \in Seq({RollbackStop, Pause, Rollback, RestoreFlow, RollbackNotice})
  /\ RollbackSteps # <<>>
ASSUME BoundsAssumption == MaxRollbacks \in Nat /\ MaxDownloads \in Nat \ {0}
ASSUME ClientAssumption == Patient \in BOOLEAN /\ Orderly \in BOOLEAN

(* The values of publish_plan.status. *)
Creating == 1
Created == 2
CreationFailed == 3
Published == 4
PublishFailed == 5
Publishing == 8
RollingBack == 21
RolledBack == 22
PlanStatuses == {Creating, Created, CreationFailed, Published, PublishFailed,
                 Publishing, RollingBack, RolledBack}

InCreation == {Creating, Created, CreationFailed}
InUse == {Published, RollingBack, RolledBack}

ASSUME EditSetAssumption == EditSet \subseteq PlanStatuses

VARIABLES
  plan,       \* publish_plan.status
  downloads,  \* downloads under way
  late,       \* one of them was begun outside a failed creation at rest
  rows,       \* the plan's steps are the rows 1..rows
  pattern,    \* publish_pattern.status, by row
  working,    \* the rows whose hosts carry out what a start of them has sent
  finish,     \* the rows whose last host's chain is still to finish the plan
  roll,       \* the rows of the rollback's chain, the least one running or done
  request,    \* how far an open rollback request has come
  deleted     \* publish_plan.is_delete

vars == <<plan, downloads, late, rows, pattern, working, finish, roll, request, deleted>>

Own == Len(PublishSteps)
Row == 1..(Own + MaxRollbacks * Len(RollbackSteps))
ActionOf(i) ==
  IF i <= Own THEN PublishSteps[i]
  ELSE RollbackSteps[1 + ((i - Own - 1) % Len(RollbackSteps))]

(* A rollback adds its rows as a whole, and the last of them has no hosts. *)
Ends == {Own + k * Len(RollbackSteps) : k \in 0..MaxRollbacks}
ASSUME NoticeAssumption == \A e \in Ends : e # Own => ActionOf(e) = RollbackNotice

(* The rows that have hosts, and so something to do. *)
OwnRows == 1..Own
RollbackRows == {i \in (Own + 1)..rows : ActionOf(i) \in WithTasks}
Works(i) == ActionOf(i) \in WithTasks

TypeOK ==
  /\ plan \in PlanStatuses
  /\ downloads \in 0..MaxDownloads
  /\ late \in BOOLEAN
  /\ rows \in Ends
  /\ pattern \in [Row -> Statuses]
  /\ working \subseteq Row /\ finish \subseteq Row
  /\ roll \subseteq RollbackRows
  /\ request \in {"idle", "generated", "marked"}
  /\ deleted \in BOOLEAN

(* PublishPlanHandler.post: the plan, its steps and its first download. *)
Init ==
  /\ plan = Creating
  /\ downloads = 1
  /\ late = FALSE
  /\ rows = Own
  /\ pattern = [i \in Row |-> Pending]
  /\ working = {} /\ finish = {}
  /\ roll = {}
  /\ request = "idle"
  /\ deleted = FALSE

-----------------------------------------------------------------------------
(* Downloads *)

Quiet == downloads = 0 /\ roll = {} /\ working = {} /\ finish = {}

DownloadEnds(ok) ==
  /\ downloads > 0
  /\ downloads' = downloads - 1
  /\ plan' = IF ok THEN Created ELSE CreationFailed
  /\ late' = (late /\ downloads > 1)
  /\ UNCHANGED <<rows, pattern, working, finish, roll, request, deleted>>

Download(outside) ==
  /\ request = "idle"
  /\ downloads < MaxDownloads
  /\ downloads' = downloads + 1
  /\ plan' = Creating
  /\ late' = (late \/ outside)
  /\ UNCHANGED <<rows, pattern, working, finish, roll, request, deleted>>

(* Slip: a creation is repeated whatever the plan's status. *)
RetryPostAnyStatus == Download(~Quiet)

(* PlanRetryHandler.post repeats a failed creation, whatever is under way ... *)
RetryPost == plan = CreationFailed /\ Download(~Quiet)

(* ... and put changes addresses, whatever the plan's status. *)
RetryPut == Download(plan # CreationFailed \/ ~Quiet)

-----------------------------------------------------------------------------
(* Steps *)

Before(i) == {j \in Row : j < i /\ (j <= Own <=> i <= Own) /\ Works(j)}

(* The client's discipline in starting row i. *)
InTurn(i) ==
  Orderly => /\ plan = IF i <= Own THEN Publishing ELSE RollingBack
             /\ \A j \in Before(i) : pattern[j] = Done
             /\ i > Own => roll = {}

Startable(i) ==
  /\ request = "idle" /\ i <= rows /\ InTurn(i)
  /\ Works(i)
  /\ pattern[i] \in {Pending, Failed}

(* Slip: every step finishes the plan. *)
StartEveryFinishes(i) ==
  /\ Startable(i)
  /\ pattern' = [pattern EXCEPT ![i] = Running]
  /\ working' = working \cup {i}
  /\ finish' = finish \cup {i}
  /\ UNCHANGED <<plan, downloads, late, rows, roll, request, deleted>>

(* PatternAction: the step with the highest number finishes the plan. *)
Start(i) ==
  /\ Startable(i)
  /\ pattern' = [pattern EXCEPT ![i] = Running]
  /\ working' = working \cup {i}
  /\ finish' = finish \cup {j \in {i} : j = rows}
  /\ UNCHANGED <<plan, downloads, late, rows, roll, request, deleted>>

(* A step ends done or failed; when the last callbacks of two hosts overlap
   they leave it at 1 (AllDoneIsDone of PatternRun).  With a host that has
   failed, the chain of the last one may have failed or not. *)
Outcomes == {Done, Failed, Running}
StepEnds(i, s) ==
  /\ i \in working
  /\ working' = working \ {i}
  /\ pattern' = [pattern EXCEPT ![i] = s]
  /\ finish' \in {finish, IF s = Done THEN finish ELSE finish \ {i}}
  /\ UNCHANGED <<plan, downloads, late, rows, roll, request, deleted>>

(* upgrade_plan_finish, in a transaction of its own after the last task of the
   last host, which waits for no other host. *)
FinishPlan(i) ==
  /\ i \in finish
  /\ finish' = finish \ {i}
  /\ plan' = IF plan < 10 THEN Published
             ELSE IF plan > 20 /\ plan < 30 THEN RolledBack
             ELSE plan
  /\ UNCHANGED <<downloads, late, rows, pattern, working, roll, request, deleted>>

-----------------------------------------------------------------------------
(* Rollback *)

(* The rows of a chain are carried out in their order. *)
First(S) == CHOOSE i \in S : \A j \in S : i <= j
Rest(S) == S \ {First(S)}

(* run_rollback_pattern: the rows of the list that have something to do. *)
Run(ids) ==
  LET todo == {i \in ids : Works(i) /\ pattern[i] \in {Pending, Failed}}
  IN IF todo = {} THEN UNCHANGED <<pattern, roll>>
     ELSE /\ roll' = todo
          /\ pattern' = [pattern EXCEPT ![First(todo)] = Running]

(* RollbackOperationHandler: its steps are generated and committed, ... *)
Generate ==
  /\ request = "idle"
  /\ Patient => Quiet /\ \A i \in RollbackRows : pattern[i] = Done
  /\ rows + Len(RollbackSteps) \in Ends
  /\ plan \in {Published, PublishFailed, Publishing}
  /\ \E i \in OwnRows : pattern[i] \in {Done, Failed}
  /\ rows' = rows + Len(RollbackSteps)
  /\ request' = "generated"
  /\ UNCHANGED <<plan, downloads, late, pattern, working, finish, roll, deleted>>

(* ... then the plan is marked, ... *)
Mark ==
  /\ request = "generated"
  /\ plan' = RollingBack
  /\ request' = "marked"
  /\ UNCHANGED <<downloads, late, rows, pattern, working, finish, roll, deleted>>

(* ... then the new steps before the first pause are run. *)
New == {i \in Row : i <= rows /\ i > rows - Len(RollbackSteps)}

(* Slip: all the new steps are run. *)
RunNewPastPause ==
  /\ request = "marked"
  /\ Run(New)
  /\ request' = "idle"
  /\ UNCHANGED <<plan, downloads, late, rows, working, finish, deleted>>

RunNew ==
  /\ request = "marked"
  /\ Run({i \in New : \A p \in New : ActionOf(p) = Pause => i < p})
  /\ request' = "idle"
  /\ UNCHANGED <<plan, downloads, late, rows, working, finish, deleted>>

(* The request fails before the plan is marked, and the new steps stay; or in
   its last transaction. *)
RunRaises ==
  /\ request # "idle"
  /\ request' = "idle"
  /\ UNCHANGED <<plan, downloads, late, rows, pattern, working, finish, roll, deleted>>

(* RollbackRetryHandler: the unfinished steps up to a pause that is not the
   first of them. *)
Unfinished ==
  {i \in Row : i > Own /\ i <= rows /\ ActionOf(i) # RollbackNotice /\ pattern[i] # Done}
RetryList ==
  {i \in Unfinished :
     ~\E p \in Unfinished : /\ ActionOf(p) = Pause /\ p <= i
                            /\ \E j \in Unfinished : j < p}

(* Slip: the steps that have failed are not repeated. *)
RetryForgetsFailed ==
  /\ request = "idle"
  /\ Patient => Quiet
  /\ plan = RollingBack
  /\ \A i \in RetryList : pattern[i] # Running
  /\ Run({i \in RetryList : pattern[i] = Pending})
  /\ UNCHANGED <<plan, downloads, late, rows, working, finish, request, deleted>>

Retry ==
  /\ request = "idle"
  /\ Patient => Quiet
  /\ plan = RollingBack
  /\ \A i \in RetryList : pattern[i] # Running
  /\ Run(RetryList)
  /\ UNCHANGED <<plan, downloads, late, rows, working, finish, request, deleted>>

(* The running step of the rollback's chain ends.  A failure ends the chain,
   and so does a step that is left at 1: the check waits for it in vain. *)
RollEnds(s) ==
  /\ roll # {} /\ pattern[First(roll)] = Running
  /\ pattern' = [pattern EXCEPT ![First(roll)] = s]
  /\ roll' = IF s = Done /\ Rest(roll) # {} THEN roll ELSE {}
  /\ UNCHANGED <<plan, downloads, late, rows, working, finish, request, deleted>>

(* The check finds the step done and starts the next one, ... *)
RollNext ==
  /\ roll # {} /\ pattern[First(roll)] = Done
  /\ Rest(roll) # {}
  /\ roll' = Rest(roll)
  /\ pattern' = [pattern EXCEPT ![First(Rest(roll))] = Running]
  /\ UNCHANGED <<plan, downloads, late, rows, working, finish, request, deleted>>

(* ... or its time is up. *)
RollGivesUp ==
  /\ roll # {} /\ pattern[First(roll)] = Done
  /\ roll' = {}
  /\ UNCHANGED <<plan, downloads, late, rows, pattern, working, finish, request, deleted>>

-----------------------------------------------------------------------------
(* PublishPlanHandler.put: the client writes the status.  An orderly client
   announces the publishing of a created plan, reports a failed step, takes
   the plan up again, and reports the end of a rollback. *)
AtItsTime(s) ==
  \/ s = Publishing /\ plan \in {Created, PublishFailed}
  \/ /\ s = PublishFailed /\ plan \in {Publishing, Published}
     /\ \E i \in OwnRows : pattern[i] = Failed
  \/ /\ s = RolledBack /\ plan = RollingBack /\ RollbackRows # {}
     /\ \A i \in RollbackRows : pattern[i] = Done

EditPlan(s) ==
  /\ request = "idle"
  /\ Orderly => AtItsTime(s)
  /\ plan' = s
  /\ UNCHANGED <<downloads, late, rows, pattern, working, finish, roll, request, deleted>>

(* PublishPlanHandler.delete sets the mark and looks at nothing. *)
Delete ==
  /\ request = "idle"
  /\ deleted' = TRUE
  /\ UNCHANGED <<plan, downloads, late, rows, pattern, working, finish, roll, request>>

(* PublishPlanHandler.get lists the plans that have not the status 7. *)
Listed == plan # 7

Next ==
  \/ \E ok \in BOOLEAN : DownloadEnds(ok)
  \/ RetryPost \/ RetryPut
  \/ \E i \in Row : Start(i)
  \/ \E i \in Row, s \in Outcomes : StepEnds(i, s)
  \/ \E i \in Row : FinishPlan(i)
  \/ Generate \/ Mark \/ RunNew \/ RunRaises \/ Retry
  \/ \E s \in Outcomes : RollEnds(s)
  \/ RollNext \/ RollGivesUp
  \/ \E s \in EditSet : EditPlan(s)
  \/ Delete

Spec == Init /\ [][Next]_vars

(* The chains and an open request go on; the client repeats a rollback that
   is not finished. *)
Continues == \E i \in RollbackRows : pattern[i] # Done
Fairness ==
  /\ WF_vars(Mark \/ RunNew)
  /\ WF_vars(RollNext \/ \E s \in Outcomes : RollEnds(s))
  /\ WF_vars(\E i \in Row, s \in Outcomes : StepEnds(i, s))
  /\ WF_vars(\E i \in Row : FinishPlan(i))
  /\ WF_vars(\E ok \in BOOLEAN : DownloadEnds(ok))
  /\ SF_vars(Continues /\ Retry)

FairSpec == Spec /\ Fairness

-----------------------------------------------------------------------------
(* Properties *)

(* A published plan has carried out all its steps but the last, and that one
   has begun: upgrade_plan_finish is given to the start of the highest step
   only.  It comes with the last host of that step and waits for no other, so
   that the step itself may run on, fail, or be left at 1. *)
PublishedIsComplete ==
  plan = Published => /\ \A i \in 1..(Own - 1) : pattern[i] = Done
                      /\ pattern[Own] # Pending

(* A plan that has been published, or whose rollback has begun, is shown as
   being created again only by a change of its addresses in that state, or
   by a download begun with one, or beside running steps after one: no other
   callback of a download is left by then. *)
StatusForward ==
  [][(plan \in InUse /\ plan' \in InCreation) => (late \/ late')]_plan

(* The steps of a rollback come in their order and stop at its pauses
   (RollbackOrder), whether the chain, a retry or a start of its own begins
   them; a step is as one host here. *)
AddedRow == {i \in Row : i > Own}
Order == INSTANCE RollbackOrder WITH
  Host <- {"step"},
  Step <- AddedRow,
  Hosts <- [i \in AddedRow |-> IF Works(i) THEN {"step"} ELSE {}],
  Pauses <- {i \in AddedRow : ActionOf(i) = Pause},
  status <- [i \in AddedRow |-> [h \in {"step"} |-> pattern[i]]],
  resting <- roll = {} /\ \A i \in AddedRow : pattern[i] # Running
KeepsOrder == Order!Spec

(* A rollback that has been marked is carried to its end by repeated
   requests, across its pauses and failures, unless steps go on failing, one
   is left at 1, where no request takes it up, or addresses are changed, which
   takes the plan out of its rollback. *)
StepFails == RollEnds(Failed) \/ \E i \in Row : StepEnds(i, Failed)
Left(i) ==
  pattern[i] = Running /\ i \notin working /\ ~(roll # {} /\ i = First(roll))
RollbackCompletes ==
  \/ []<><<StepFails>>_vars
  \/ <>(late \/ \E i \in RollbackRows : Left(i))
  \/ (plan = RollingBack) ~> (RollbackRows # {} /\ \A i \in RollbackRows : pattern[i] = Done)

-----------------------------------------------------------------------------
(* What the repository says of the code and the code does not do: TLC refutes
   it. *)

(* "22: rolled back": a plan shown as rolled back has carried its rollback
   out.  The same function writes 4 and 22 and decides by the status it
   finds. *)
RolledBackIsComplete ==
  plan = RolledBack => /\ RollbackRows # {}
                       /\ \A i \in RollbackRows : pattern[i] = Done

(* When a rollback has been carried out, the plan is shown as rolled back. *)
CarriedOutIsRolledBack ==
  /\ RollbackRows # {} /\ \A i \in RollbackRows : pattern[i] = Done
  /\ Quiet /\ request = "idle"
  => plan = RolledBack

(* "7: deleted", and the list is without it: a deleted plan is not listed. *)
DeletedIsNotListed == deleted => ~Listed

=============================================================================
