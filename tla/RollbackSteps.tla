--------------------------- MODULE RollbackSteps ----------------------------
(***************************************************************************)
(* What carrying the steps of a rollback out does to the traffic of the    *)
(* machines: which hosts a step takes off, which version each runs, which  *)
(* of them serve when the rollback pauses half way.                        *)
(***************************************************************************)
EXTENDS RollbackPlan

VARIABLES
  info,     \* the application, flag and CMDB version of each host
  steps,    \* the steps that were generated, in order
  at,       \* how many of them have been carried out
  off,      \* hosts the step under way has taken off and not yet put back
  serving,  \* hosts that take traffic
  back,     \* hosts that run the version to roll back to
  before    \* history: hosts that took traffic when the rollback was asked for

vars == <<info, steps, at, off, serving, back, before>>

TypeOK ==
  /\ info \in [Host -> Infos]
  /\ steps \in Seq(Steps)
  /\ at \in 0..Len(steps)
  /\ off \subseteq Host /\ serving \subseteq Host /\ back \subseteq Host
  /\ before \subseteq Host

-----------------------------------------------------------------------------
(* The request generates the steps; then they are carried out in order. *)

(* Any host may take traffic or not: the hosts are those of the plan's done
   and failed patterns, and a chain that has failed leaves its host cut off, or
   stopped, in either version. *)
Init ==
  /\ info \in [Host -> Infos]
  /\ steps = <<>>
  /\ at = 0
  /\ off = {}
  /\ serving \in SUBSET Host
  /\ back = OldHosts(info)
  /\ before = serving

RollbackOperation ==
  /\ steps = <<>>
  /\ OldHosts(info) # {} /\ NewHosts(info) # {} => CmdbKnows(info)
  /\ steps' = Generate(info)
  /\ UNCHANGED <<info, at, off, serving, back, before>>

Current == steps[at + 1]

(* A step that changes its hosts' version takes each of them off first; the
   hosts run side by side, so all of them may be off together. *)
TakeOff ==
  /\ at < Len(steps) /\ off = {}
  /\ Current.action = Rollback
  /\ off' = Current.hosts
  /\ serving' = serving \ Current.hosts
  /\ UNCHANGED <<info, steps, at, back, before>>

(* Each host comes back by itself when its chain has ended. *)
ComeBack(h) ==
  /\ h \in off
  /\ off' = off \ {h}
  /\ serving' = serving \cup {h}
  /\ back' = back \cup {h}
  /\ at' = IF off = {h} THEN at + 1 ELSE at
  /\ UNCHANGED <<info, steps, before>>

SwitchFlow ==
  /\ at < Len(steps)
  /\ Current.action \in {RollbackStop, RestoreFlow}
  /\ serving' = IF Current.action = RestoreFlow
                THEN serving \cup Current.hosts ELSE serving \ Current.hosts
  /\ at' = at + 1
  /\ UNCHANGED <<info, steps, off, back, before>>

(* The operator confirms the pause, or that the test has passed. *)
Confirm ==
  /\ at < Len(steps)
  /\ Current.action \in {Pause, RollbackNotice}
  /\ at' = at + 1
  /\ UNCHANGED <<info, steps, off, serving, back, before>>

Next ==
  \/ RollbackOperation \/ TakeOff \/ SwitchFlow \/ Confirm
  \/ \E h \in Host : ComeBack(h)

Spec == Init /\ [][Next]_vars

-----------------------------------------------------------------------------
(* Properties *)

Paused == at < Len(steps) /\ Current.action = Pause

Covered(a) ==
  \/ at > 0 /\ \E h \in Of(info, a) : info[h].version = "old"
  \/ /\ \E h \in Of(info, a) : info[h].flag = Master
     /\ \E h \in Of(info, a) \cap before : info[h].flag # Master

(* An application never goes dark: from the first step on if one of its hosts
   has been rolled back already, and at any time if it has a master and
   another host that took traffic when the rollback was asked for.  One whose
   masters alone took traffic is dark while they are rolled back. *)
NeverDark ==
  \A a \in Apps(info) : Covered(a) => \E h \in Of(info, a) : h \in serving

Mixed(a, flags) ==
  \E g, h \in Of(info, a) \cap serving :
    g \in back /\ h \notin back /\ info[h].flag \in flags

(* At a pause the operator looks at one version only: within an application no
   master or slave that still runs the new version takes traffic beside a host
   that has been rolled back. *)
PauseIsClean == Paused => \A a \in Apps(info) : ~Mixed(a, {Master, Slave})

(* When the last step is confirmed every host runs the old version again and
   takes traffic. *)
EndsRolledBack ==
  steps # <<>> /\ at = Len(steps) => serving = Host /\ back = Host

-----------------------------------------------------------------------------
(* What the repository says of the code and the code does not do: TLC refutes
   it. *)

(* "When half is rolled back, the new version's traffic is cut off first": at
   the last pause no host of any kind serves the new version beside the old. *)
NewVersionIsCut ==
  Paused /\ (\A j \in (at + 2)..Len(steps) : steps[j].action # Pause)
    => \A a \in Apps(info) : ~Mixed(a, Flags)

(* "Rolled back half way, please confirm" (the title of the pause): at a pause
   every application has a host that has been rolled back. *)
PauseIsHalfWay ==
  Paused => \A a \in Apps(info) : \E h \in Of(info, a) : h \in back

=============================================================================
