------------------------------ MODULE PlanFeed ------------------------------
(***************************************************************************)
(* PlanLifecycle with a browser that watches plans (PublishPlanWebSocket,  *)
(* handler/publish_plan.py).  A message names the plans to watch; the      *)
(* periodic callback compares the list of their statuses with the list of  *)
(* the look before, and sends the plans when it is another list.  A second *)
(* plan, which does not change, stands for all the others.                 *)
(***************************************************************************)
EXTENDS PlanLifecycle, FiniteSets

CONSTANT OtherStatus   \* the status of the other plan

ASSUME OtherStatusAssumption == OtherStatus \in PlanStatuses

VARIABLES
  watched,   \* self.message: the plans asked for
  known,     \* self.current_status, in the order of the plans' ids
  view       \* the status the browser shows for each plan

feed == <<watched, known, view>>

Plans == 1..2    \* this plan and the other one

StatusOf(p) == IF p = 1 THEN plan ELSE OtherStatus

FeedTypeOK ==
  /\ TypeOK
  /\ watched \subseteq Plans
  /\ known \in Seq(PlanStatuses) /\ Len(known) <= Cardinality(Plans)
  /\ view \in [Plans -> PlanStatuses]

(* The page has been loaded with the plans as they are. *)
FeedInit ==
  /\ Init
  /\ watched = {}
  /\ known = <<>>
  /\ view = [p \in Plans |-> StatusOf(p)]

(* Slip: the list of the look before is kept. *)
WatchKeepsKnown(plans) ==
  /\ watched' = plans
  /\ UNCHANGED <<vars, known, view>>

(* on_message *)
Watch(plans) ==
  /\ watched' = plans
  /\ known' = <<>>
  /\ UNCHANGED <<vars, view>>

(* callback: lists of statuses are compared, without the plans' ids. *)
Ids(S) ==
  CHOOSE ids \in [1..Cardinality(S) -> S] : \A i, j \in DOMAIN ids : i < j => ids[i] < ids[j]
Now == [i \in DOMAIN Ids(watched) |-> StatusOf(Ids(watched)[i])]

Callback ==
  /\ watched # {}
  /\ known' = Now
  /\ view' = IF Now = known THEN view
             ELSE [p \in Plans |-> IF p \in watched THEN StatusOf(p) ELSE view[p]]
  /\ UNCHANGED <<vars, watched>>

FeedNext ==
  \/ Next /\ UNCHANGED feed
  \/ \E plans \in SUBSET Plans : Watch(plans)
  \/ Callback

FeedFairSpec ==
  FeedInit /\ [][FeedNext]_<<vars, feed>> /\ Fairness /\ WF_<<vars, feed>>(Callback)

-----------------------------------------------------------------------------
(* Properties *)

(* A plan the browser stays with is shown as it is, again and again, whatever
   was watched before or beside it. *)
PlanIsShown ==
  \A p \in Plans : <>[](p \in watched) => []<>(view[p] = StatusOf(p))

(* The safety of it: when the list is the one of the look before, each plan
   watched is shown as it is. *)
SameListIsRight ==
  watched # {} /\ Now = known => \A p \in watched : view[p] = StatusOf(p)

=============================================================================
