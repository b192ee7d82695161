---------------------------- MODULE RollbackPlan ----------------------------
(***************************************************************************)
(* The steps a rollback is made of (worker/rollback.py): which hosts are   *)
(* given their traffic back, cut off, or rolled back, in which order, and  *)
(* where the rollback pauses for an operator's confirmation.               *)
(***************************************************************************)
EXTENDS ActionTasks, FiniteSets

CONSTANTS
  Host,     \* the host applications of the plan's finished patterns
  App,      \* the applications they belong to
  TypeOf    \* the type of each application

ASSUME HostAssumption == IsFiniteSet(Host)
ASSUME TypesAssumption == TypeOf \in [App -> ApplicationTypes]

Master == 1
Slave == 2
Gray == 3
Flags == {Master, Slave, Gray}

(* What the CMDB says of a host: that it runs the version to roll back to,
   another one, or nothing. *)
Versions == {"old", "new", "unknown"}

Infos == [app : App, flag : Flags, version : Versions]
Steps == [action : {RollbackStop, Pause, Rollback, RestoreFlow, RollbackNotice},
          hosts : SUBSET Host]

Step(action, hosts) == <<[action |-> action, hosts |-> hosts]>>
StepIf(action, hosts) == IF hosts = {} THEN <<>> ELSE Step(action, hosts)

(* divide_host_by_version: a host the CMDB does not know counts as new. *)
OldHosts(i) == {h \in Host : i[h].version = "old"}
NewHosts(i) == Host \ OldHosts(i)

Of(i, a) == {h \in Host : i[h].app = a}
Apps(i) == {i[h].app : h \in Host}

(* check_rollback_status: gray hosts are counted apart. *)
OldNum(i, a) == Cardinality({h \in Of(i, a) : i[h].flag # Gray /\ i[h].version = "old"})
NewNum(i, a) == Cardinality({h \in Of(i, a) : i[h].flag # Gray /\ i[h].version # "old"})
GrayNum(i, a) == Cardinality({h \in Of(i, a) : i[h].flag = Gray})
LessThanHalf(i, a) == OldNum(i, a) < NewNum(i, a)
Full(i, a) == ~LessThanHalf(i, a) /\ GrayNum(i, a) + OldNum(i, a) = Cardinality(Of(i, a))
Half(i, a) == ~LessThanHalf(i, a) /\ ~Full(i, a)

(* It looks the CMDB's answer up by key: a host it does not know raises. *)
CmdbKnows(i) == \A h \in Host : i[h].flag # Gray => i[h].version # "unknown"

(* stop_new_version_host_flow *)
StopNew(i) ==
  IF (\E a \in Apps(i) : LessThanHalf(i, a)) \/ (\A a \in Apps(i) : ~Half(i, a))
  THEN <<>>
  ELSE Step(RollbackStop, {h \in NewHosts(i) : Half(i, i[h].app)})
       \o Step(Pause, {})

(* Slips: the slaves are rolled back with the gray hosts left out; the hosts
   already rolled back get no traffic; the last group is not taken off before
   the pause. *)
GenerateNoGray(i) ==
  LET New == NewHosts(i)
      With(flag) == {h \in New : i[h].flag = flag}
      Rest == With(Slave)
  IN StepIf(RestoreFlow, OldHosts(i))
     \o StepIf(Rollback, With(Master))
     \o (IF With(Master) # {} /\ Rest # {} THEN Step(RollbackStop, Rest) \o Step(Pause, {})
         ELSE <<>>)
     \o StepIf(Rollback, Rest)
     \o Step(RollbackNotice, {})

GenerateNoRestore(i) ==
  LET New == NewHosts(i)
      Rest == {h \in New : i[h].flag # Master}
  IN StepIf(RollbackStop, New \ Rest)
     \o StepIf(Rollback, New \ Rest)
     \o (IF New \ Rest # {} /\ Rest # {} THEN Step(RollbackStop, Rest) \o Step(Pause, {})
         ELSE <<>>)
     \o StepIf(Rollback, Rest)
     \o Step(RollbackNotice, {})

GenerateNoStop(i) ==
  LET New == NewHosts(i)
      Rest == {h \in New : i[h].flag # Master}
  IN StepIf(RestoreFlow, OldHosts(i))
     \o StepIf(Rollback, New \ Rest)
     \o (IF New \ Rest # {} /\ Rest # {} THEN Step(Pause, {}) ELSE <<>>)
     \o StepIf(Rollback, Rest)
     \o Step(RollbackNotice, {})

(* generate_rollback_steps; the step numbers follow the order. *)
Generate(i) ==
  LET Old == OldHosts(i)
      New == NewHosts(i)
      WebMasters == {h \in New : TypeOf[i[h].app] = Web /\ i[h].flag = Master}
      ModMasters == {h \in New : TypeOf[i[h].app] = Mod /\ i[h].flag = Master}
      Rest == {h \in New : i[h].flag \in {Slave, Gray}}
  IN StepIf(RestoreFlow, Old)
     \o (IF Old # {} /\ New # {} THEN StopNew(i) ELSE <<>>)
     \o StepIf(Rollback, WebMasters)
     \o StepIf(Rollback, ModMasters)
     \o (IF WebMasters \cup ModMasters # {} /\ Rest # {}
         THEN Step(RollbackStop, Rest) \o Step(Pause, {})
         ELSE <<>>)
     \o StepIf(Rollback, Rest)
     \o Step(RollbackNotice, {})

=============================================================================
