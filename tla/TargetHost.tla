----------------------------- MODULE TargetHost -----------------------------
(***************************************************************************)
(* A target machine with one application, as the tasks of an action change *)
(* it: the version directories (sh/get_package.sh), the link to one of     *)
(* them (sh/change_link.sh), the process (sh/application.sh), the traffic  *)
(* switches (sh/nginx.sh, tasks/dubbo.py) and the version the CMDB agent   *)
(* has reported.  A task that fails stops its chain; a repeated request    *)
(* takes the chain up with the task that failed, so a task is carried out  *)
(* once or more, each time in the state the attempts before it have left.  *)
(***************************************************************************)
EXTENDS ActionTasks, SequencesExt

CONSTANTS
  None,
  DubboIsPrompt,    \* a switch dubbo-admin has accepted is made before the last
                    \* look at it, and nothing else happens on the host before
  Patient,          \* a failed task is repeated when no script is at work
  PackageIsSound,   \* a download that is begun leaves a complete package
  EarlyRestore      \* a host on which a publication has failed before the CMDB
                    \* was told of it is given its traffic back

ASSUME NoneAssumption == None \notin {"rollback", "target"} /\ None \notin BOOLEAN /\ None \notin Nat
ASSUME FlagsAssumption == {DubboIsPrompt, Patient, PackageIsSound, EarlyRestore} \subseteq BOOLEAN

Looks == 3
Versions == {"rollback", "target"}

VARIABLES
  app,      \* the application's type, and whether special_mod_name lists it
  dir,      \* the directory of each version
  link,     \* the version the link names, or None
  running,  \* the version the process was started from, or None
  cmdb,     \* the version the CMDB has been told of, or None
  flow,     \* the switches that let traffic in
  last,     \* the last action begun, or None
  todo,     \* its tasks that have not succeeded, in order
  failed,   \* the last attempt failed
  late,     \* tasks whose time is up and whose scripts are at work
  wish,     \* the dubbo switch dubbo-admin has accepted and not made, or None
  looks,    \* the looks a dubbo task has left, or 0
  missed    \* the dubbo task that succeeded last found no matching application

machine == <<dir, link, running, cmdb, flow>>
chain == <<app, last, todo, failed>>
dubbo == <<wish, looks, missed>>
vars == <<machine, chain, late, dubbo>>

Mine == Switches(app.type, app.special)

TypeOK ==
  /\ app \in [type : ApplicationTypes, special : BOOLEAN]
  /\ dir \in [Versions -> {"absent", "broken", "complete"}]
  /\ link \in Versions \cup {None} /\ running \in Versions \cup {None}
  /\ cmdb \in Versions \cup {None}
  /\ flow \subseteq ToSet(Mine)
  /\ last = None => todo = <<>>
  /\ last # None => IsSuffix(todo, Tasks(last, app.type, app.special))
  /\ failed \in BOOLEAN
  /\ late \subseteq ToSet(IF last = None THEN <<>> ELSE Tasks(last, app.type, app.special))
  /\ wish \in BOOLEAN \cup {None}
  /\ looks \in 0 .. Looks
  /\ missed \in BOOLEAN

(* The application serves the version to roll back to. *)
Init ==
  /\ app \in [type : ApplicationTypes, special : BOOLEAN]
  /\ dir = [v \in Versions |-> IF v = "rollback" THEN "complete" ELSE "absent"]
  /\ link = "rollback" /\ running = "rollback" /\ cmdb = "rollback"
  /\ flow = ToSet(Mine)
  /\ last = None
  /\ todo = <<>>
  /\ failed = FALSE
  /\ late = {}
  /\ wish = None /\ looks = 0 /\ missed = FALSE

-----------------------------------------------------------------------------
(* Actions begin *)

Begin(action) ==
  /\ last' = action
  /\ todo' = Tasks(action, app.type, app.special)
  /\ failed' = FALSE
  /\ UNCHANGED <<app, machine, late, dubbo>>

(* An attempt may begin; after a failure it is the operator who repeats the
   request. *)
Attempt ==
  /\ looks = 0
  /\ DubboIsPrompt => wish = None
  /\ Patient => late = {}

(* A plan stops the traffic of a host, publishes on it, or does the one and
   then, in a later step, the other. *)
BeginStopFlow == last = None /\ Attempt /\ Begin(StopFlow)
BeginPublish ==
  /\ last = None \/ (last = StopFlow /\ todo = <<>>)
  /\ Attempt
  /\ Begin(Publish)

(* The rollback covers the hosts of the patterns that are done or have failed,
   and goes by the version in the CMDB. *)
MayRollBack ==
  /\ Attempt
  /\ last \in {Publish, StopFlow}
  /\ todo = <<>> \/ failed

BeginRestoreFlow ==
  /\ MayRollBack /\ cmdb = "rollback"
  /\ EarlyRestore \/ last = StopFlow
  /\ Begin(RestoreFlow)
BeginRollbackStop == MayRollBack /\ cmdb # "rollback" /\ Begin(RollbackStop)

BeginRollback ==
  /\ \/ MayRollBack /\ cmdb # "rollback"
     \/ last = RollbackStop /\ todo = <<>> /\ Attempt
  /\ Begin(Rollback)

-----------------------------------------------------------------------------
(* Tasks *)

Current(verb) == todo # <<>> /\ todo[1].do = verb /\ Attempt
What == todo[1].what

Succeeds == todo' = Tail(todo) /\ failed' = FALSE /\ UNCHANGED <<app, last>>
Fails == failed' = TRUE /\ UNCHANGED <<app, last, todo>>

(* What a script does to the machine when it comes to its end. *)

(* Slip: a version directory that exists is refused. *)
DownloadedOnce ==
  /\ dir["target"] = "absent"
  /\ dir' = [dir EXCEPT !["target"] = "complete"]
  /\ UNCHANGED <<link, running, cmdb, flow>>

(* A version directory that exists is taken as it is. *)
Downloaded ==
  /\ dir' = IF dir["target"] = "absent" THEN [dir EXCEPT !["target"] = "complete"] ELSE dir
  /\ UNCHANGED <<link, running, cmdb, flow>>

Stopped == running' = None /\ UNCHANGED <<dir, link, cmdb, flow>>

(* A directory that is there is linked to, whatever it holds. *)
Linked(version) ==
  /\ dir[version] # "absent"
  /\ link' = version
  /\ UNCHANGED <<dir, running, cmdb, flow>>

(* A process that is running is left alone. *)
Started ==
  /\ running' = IF running = None THEN link ELSE running
  /\ UNCHANGED <<dir, link, cmdb, flow>>

(* The agent reports the version the link names. *)
Updated == cmdb' = link /\ UNCHANGED <<dir, link, running, flow>>

Switched(switch, on) ==
  /\ flow' = IF on THEN flow \cup {switch} ELSE flow \ {switch}
  /\ UNCHANGED <<dir, link, running, cmdb>>

(* Slip: a task whose time is up is taken for done. *)
ScriptTimeIsUpIsDone(effect, shows) ==
  /\ UNCHANGED dubbo
  /\ \/ effect /\ shows /\ Succeeds /\ UNCHANGED late
     \/ (effect \/ UNCHANGED machine) /\ Fails /\ UNCHANGED late
     \/ late' = late \cup {todo[1]} /\ Succeeds /\ UNCHANGED machine

(* A script succeeds, or fails with or without having had its effect, or its
   task's time is up and the script goes on. *)
Script(effect, shows) ==
  /\ UNCHANGED dubbo
  /\ \/ effect /\ shows /\ Succeeds /\ UNCHANGED late
     \/ (effect \/ UNCHANGED machine) /\ Fails /\ UNCHANGED late
     \/ late' = late \cup {todo[1]} /\ Fails /\ UNCHANGED machine

(* A directory a failed download has made stays. *)
DownloadBreaks ==
  /\ ~PackageIsSound /\ dir["target"] = "absent"
  /\ dir' = [dir EXCEPT !["target"] = "broken"]
  /\ Fails
  /\ UNCHANGED <<link, running, cmdb, flow, late, dubbo>>

Download == Current("download") /\ (Script(Downloaded, TRUE) \/ DownloadBreaks)
Backup == Current("backup") /\ Script(UNCHANGED machine, TRUE)
Stop == Current("stop") /\ Script(Stopped, TRUE)
Link == Current("link") /\ Script(Linked(What), TRUE)
(* The new process is looked at after a minute. *)
Start ==
  /\ Current("start")
  /\ Script(Started, running = None => dir[link] = "complete")
Update == Current("update") /\ Script(Updated, TRUE)

(* nginx is a process of the machine, started and stopped on it. *)
Nginx ==
  \E on \in BOOLEAN :
    /\ Current(IF on THEN "enable" ELSE "disable") /\ What = "nginx"
    /\ Script(Switched("nginx", on), TRUE)

(* A script that has outlived its task comes to its end, or is gone. *)
LateEnds ==
  \E t \in late :
    /\ late' = late \ {t}
    /\ \/ UNCHANGED machine
       \/ t.do = "download" /\ Downloaded
       \/ t.do = "stop" /\ Stopped
       \/ t.do = "link" /\ Linked(t.what)
       \/ t.do = "start" /\ Started
       \/ t.do = "update" /\ Updated
       \/ t.do \in {"enable", "disable"} /\ Switched(t.what, t.do = "enable")
    /\ UNCHANGED <<chain, dubbo>>

-----------------------------------------------------------------------------
(* The dubbo switch *)

Wanted == todo[1].do = "enable"

(* The request is accepted and the looks begin; or dubbo-admin finds no
   matching application, switches nothing, and the task succeeds; or the task
   fails, its request accepted or not. *)
DubboAccepts == wish' = Wanted /\ looks' = Looks /\ UNCHANGED <<chain, missed>>
DubboMisses == missed' = TRUE /\ Succeeds /\ UNCHANGED <<wish, looks>>
DubboAnswers ==
  /\ Current("enable") \/ Current("disable")
  /\ What = "dubbo"
  /\ \/ DubboAccepts
     \/ DubboMisses
     \/ wish' \in {wish, Wanted} /\ Fails /\ UNCHANGED <<looks, missed>>
  /\ UNCHANGED <<machine, late>>

(* Slip: one look, and whatever it shows will do. *)
LookOnce ==
  /\ looks > 0
  /\ looks' = 0 /\ missed' = FALSE
  /\ Succeeds
  /\ UNCHANGED <<machine, late, wish>>

(* A look that shows the state asked for ends the task.  One that shows the
   other, or an error of dubbo-admin's, counts, and the last one decides: an
   error fails the task, the wrong state does not. *)
Look ==
  /\ looks > 0
  /\ looks = 1 => (DubboIsPrompt => wish = None)
  /\ \/ ("dubbo" \in flow) = Wanted /\ looks' = 0 /\ missed' = FALSE /\ Succeeds
     \/ looks > 1 /\ looks' = looks - 1 /\ UNCHANGED <<chain, missed>>
     \/ looks = 1 /\ ("dubbo" \in flow) # Wanted /\ looks' = 0 /\ missed' = FALSE /\ Succeeds
     \/ looks = 1 /\ looks' = 0 /\ Fails /\ UNCHANGED missed
  /\ UNCHANGED <<machine, late, wish>>

(* An answer that is none of these, no answer or the time limit end the task. *)
LookFails ==
  /\ looks > 0
  /\ looks' = 0
  /\ Fails
  /\ UNCHANGED <<machine, late, wish, missed>>

DubboGrants ==
  /\ wish # None
  /\ Switched("dubbo", wish)
  /\ wish' = None
  /\ UNCHANGED <<chain, late, looks, missed>>

Next ==
  \/ BeginPublish \/ BeginStopFlow
  \/ BeginRestoreFlow \/ BeginRollbackStop \/ BeginRollback
  \/ Download \/ Backup \/ Stop \/ Link \/ Start \/ Update \/ Nginx \/ LateEnds
  \/ DubboAnswers \/ Look \/ LookFails \/ DubboGrants

Spec == Init /\ [][Next]_vars

(* The operator repeats the request as often as it takes, scripts end, wishes
   are granted, and a task that can succeed does not fail for ever. *)
Advances == todo' # todo /\ last' = last
FairSpec ==
  /\ Spec
  /\ WF_vars(LateEnds) /\ WF_vars(DubboGrants)
  /\ WF_vars(Look) /\ SF_vars(DubboAnswers /\ looks' = Looks)
  /\ SF_vars(Look /\ Advances)
  /\ SF_vars((Download \/ Backup \/ Stop \/ Link \/ Start \/ Update \/ Nginx) /\ Advances)

-----------------------------------------------------------------------------
(* Properties *)

Ended(action) == last = action /\ todo = <<>>

(* The switch that the chain has gone past without its being made: a dubbo
   task succeeds when dubbo-admin finds no matching application. *)
Missed == IF missed THEN {"dubbo"} ELSE {}

(* However often tasks fail and are repeated, traffic that a switch could keep
   off reaches the machine only while a process runs, and one that runs the
   version the link names. *)
NoTrafficToNothing == flow \subseteq Missed \/ (running # None /\ running = link)

(* An action that has ended has done what it is for: a published host runs the
   new version, the CMDB knows it and traffic is let in; a host rolled back
   runs the old one; and one whose traffic was stopped has none.  Only the
   dubbo switch may be as it was, where dubbo-admin found no matching
   application when the last of the chain's dubbo tasks was carried out. *)
EndsAsAsked ==
  /\ Ended(Publish) => running = "target" /\ cmdb = "target"
  /\ Ended(Rollback) => running = "rollback" /\ cmdb = "rollback"
  /\ Ended(RestoreFlow) => running = "rollback"
  /\ Ended(Publish) \/ Ended(Rollback) \/ Ended(RestoreFlow) => ToSet(Mine) \ Missed \subseteq flow
  /\ Ended(StopFlow) \/ Ended(RollbackStop) => flow \subseteq Missed

(* Nothing an attempt leaves behind makes a repeated task fail for ever: an
   action that is begun comes to its end. *)
ActionEnds == last # None ~> todo = <<>>

-----------------------------------------------------------------------------
(* What the repository says of the code and the code does not do when the flag
   named is turned over: TLC refutes it. *)

(* "Let traffic to the service of the old version": a host that a rollback has
   given its traffic back runs the old version (EarlyRestore). *)
OldVersionServes == Ended(RestoreFlow) => running = "rollback"

(* "Take off the traffic of the service of the new version": when the action
   has ended, its request accepted, there is none (DubboIsPrompt). *)
TrafficIsCut == (Ended(StopFlow) \/ Ended(RollbackStop)) /\ ~missed => flow = {}

(* "Download the package to the target server": once the task has succeeded
   the package is there and unpacked (PackageIsSound). *)
PackageIsThere ==
  last = Publish /\ (todo # <<>> => todo[1].do # "download") => dir["target"] = "complete"

=============================================================================
