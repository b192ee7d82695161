---------------------------- MODULE PatternEdits ----------------------------
(***************************************************************************)
(* What an operator does to a pattern besides starting it (PatternRun):    *)
(* runs one of its tasks on one of its hosts by hand (the nginx, dubbo,    *)
(* service, package and deploy requests with a pattern_id), sets a host    *)
(* and all its tasks to another status, as to failed to have them run      *)
(* again (PatternHostHandler.put), or sets the status of the pattern       *)
(* (PublishPatternHandler.put).  The server answers one request at a time. *)
(***************************************************************************)
EXTENDS PatternRun

CONSTANTS
  HandTasks,    \* the tasks that are run by hand
  EditHosts,    \* the hosts that are set to another status
  HostSet,      \* ... and the statuses they are set to
  PatternSet,   \* the statuses the pattern itself is set to
  Patient,      \* the operator waits until nothing of the host is under way
  Alone         \* ... and nothing of the pattern, before starting it too

ASSUME HandTasksAssumption == HandTasks \subseteq Task
ASSUME EditHostsAssumption == EditHosts \subseteq Host
ASSUME StatusSetsAssumption == HostSet \subseteq Statuses /\ PatternSet \subseteq Statuses
ASSUME OperatorAssumption == Patient \in BOOLEAN /\ Alone \in BOOLEAN

VARIABLES
  hand          \* the operator's request that is open

editVars == <<vars, hand>>

NoHand == [at |-> "idle", host |-> 1, task |-> 1, status |-> Failed, locked |-> FALSE,
           snap |-> NoSnap, child |-> None]
Hands == [at : {"idle", "running", "sent", "editing"}, host : Host, task : Task,
          status : Statuses, locked : BOOLEAN, snap : Snaps, child : Exec \cup {None}]

EditsTypeOK == TypeOK /\ hand \in Hands

EditsInit == Init /\ hand = NoHand

-----------------------------------------------------------------------------
(* Requests of the operator *)

Waits(h) ==
  /\ Patient => \A e \in Exec : phase[e] = "idle" \/ job[e].host # h
  /\ Alone => \A e \in Exec : phase[e] = "idle"

(* The server takes a request up: its transaction's snapshot. *)
Accept(h, request) ==
  /\ hand = NoHand
  /\ lock # Web
  /\ Waits(h)
  /\ hand' = [request EXCEPT !.host = h,
                !.snap = [row |-> TRUE, task |-> taskStatus, host |-> hostStatus]]
  /\ UNCHANGED vars

(* Run task t of host h by hand. *)
HandBegin(h, t) == Accept(h, [NoHand EXCEPT !.at = "running", !.task = t])

HandSend(n) ==
  /\ hand.at = "running"
  /\ lock = None
  /\ Fresh(n)
  /\ lock' = Web
  /\ phase' = [phase EXCEPT ![n] = "queued"]
  /\ job' = [job EXCEPT ![n] =
       [host |-> hand.host, task |-> hand.task, rest |-> {}, finish |-> FALSE]]
  /\ hand' = [hand EXCEPT !.at = "sent", !.child = n]
  /\ UNCHANGED <<db, verdict, snap, child, action, budget>>

HandCommit ==
  /\ hand.at = "sent"
  /\ Write(hand.host, hand.task, Running, hand.snap)
  /\ recorded' = recorded \cup {n \in {hand.child} : phase[n] # "idle"}
  /\ lock' = None
  /\ hand' = NoHand
  /\ UNCHANGED <<planStatus, worker, action, budget>>

(* Set host h and its tasks to a status.  A request that names the host by its
   id locks its row first. *)
EditBegin(h, status) ==
  \E locked \in BOOLEAN :
    Accept(h, [NoHand EXCEPT !.at = "editing", !.status = status, !.locked = locked])

(* The host's row, and what upgrade_pattern_status makes of the hosts read. *)
SetsHost ==
  /\ hostStatus' = [hostStatus EXCEPT ![hand.host] = hand.status]
  /\ patternStatus' =
       CheckStatus(Values([hand.snap.host EXCEPT ![hand.host] = hand.status]))

(* Slips: the tasks keep their statuses; the pattern keeps its status. *)
EditCommitHostOnly ==
  /\ hand.at = "editing"
  /\ lock = None
  /\ SetsHost
  /\ hand' = NoHand
  /\ UNCHANGED <<taskStatus, planStatus, recorded, worker, lock, action, budget>>

EditCommitKeepsPattern ==
  /\ hand.at = "editing"
  /\ lock = None
  /\ taskStatus' = [taskStatus EXCEPT ![hand.host] = [t \in Task |-> hand.status]]
  /\ hostStatus' = [hostStatus EXCEPT ![hand.host] = hand.status]
  /\ hand' = NoHand
  /\ UNCHANGED <<patternStatus, planStatus, recorded, worker, lock, action, budget>>

(* The session writes the tasks it has read with another status. *)
EditCommit ==
  /\ hand.at = "editing"
  /\ lock = None
  /\ taskStatus' = [taskStatus EXCEPT ![hand.host] =
       [t \in Task |-> IF hand.snap.task[hand.host][t] = hand.status THEN @[t] ELSE hand.status]]
  /\ SetsHost
  /\ hand' = NoHand
  /\ UNCHANGED <<planStatus, recorded, worker, lock, action, budget>>

(* The request raises: a row it needs is held by a callback that waits for
   one it holds, and the database ends it. *)
HandAbort ==
  /\ hand.at \in {"running", "editing"}
  /\ hand' = NoHand
  /\ UNCHANGED vars

(* Set the status of the pattern: one UPDATE. *)
EditPattern(s) ==
  /\ hand = NoHand
  /\ lock = None
  /\ \A h \in Host : Waits(h)
  /\ patternStatus' = s
  /\ UNCHANGED <<taskStatus, hostStatus, planStatus, recorded, worker, lock,
                 action, budget, hand>>

-----------------------------------------------------------------------------
(* The row of the host an open edit has locked is not written by others. *)
RespectsLock ==
  hand.at = "editing" /\ hand.locked =>
    /\ taskStatus'[hand.host] = taskStatus[hand.host]
    /\ hostStatus'[hand.host] = hostStatus[hand.host]

Start ==
  /\ hand = NoHand
  /\ Alone => \A e \in Exec : phase[e] = "idle"
  /\ ActionBegin
  /\ UNCHANGED hand

Server ==
  /\ hand = NoHand
  /\ Web_Step \/ ActionAbort
  /\ UNCHANGED hand

Workers(e) ==
  /\ Worker_Step(e) \/ Fault_Step(e)
  /\ RespectsLock
  /\ UNCHANGED hand

Operator ==
  \/ \E h \in Host, t \in HandTasks : HandBegin(h, t)
  \/ \E n \in Exec : HandSend(n)
  \/ HandCommit
  \/ \E h \in EditHosts, s \in HostSet : EditBegin(h, s)
  \/ EditCommit
  \/ HandAbort
  \/ \E s \in PatternSet : EditPattern(s)

EditsNext == Start \/ Server \/ Operator \/ \E e \in Exec : Workers(e)

EditsSpec == EditsInit /\ [][EditsNext]_editVars

-----------------------------------------------------------------------------
(* Fairness and properties *)

(* An execution that does not end well, or a request of the operator. *)
Disturbs ==
  \/ EditCommit \/ HandCommit
  \/ \E e \in Exec : Execute(e, FALSE) \/ SuccessMissing(e) \/ Fault_Step(e)
  \/ ActionAbort \/ HandAbort
  \/ \E s \in PatternSet : EditPattern(s)

(* The operator means to see the pattern done: an unfinished pattern is
   started whenever it can be, and when it shows 1 with nothing under way an
   unfinished host is set to failed. *)
Stranded ==
  {h \in Host : \/ hostStatus[h] = Running
                \/ patternStatus = Running /\ hostStatus[h] # Done}
Rescue == \E h \in Stranded \cap EditHosts : EditBegin(h, Failed)

EditsFairness ==
  /\ WF_editVars(hand = NoHand /\ Web_Step /\ UNCHANGED hand)
  /\ \A e \in Exec :
       WF_editVars(Worker_Step(e) /\ RespectsLock /\ UNCHANGED hand)
  /\ WF_editVars(Start) /\ WF_editVars(Rescue)
  /\ WF_editVars(HandCommit \/ EditCommit \/ \E n \in Exec : HandSend(n))

FairEditsSpec == EditsSpec /\ EditsFairness

(* A crash leaves its host running for ever, and the request that starts the
   pattern refuses it.  Setting the host to failed is the way out: unless
   tasks go on failing or the operator goes on editing, the pattern is done in
   the end, with every task of every host. *)
IsRescued ==
  \/ []<><<Disturbs>>_editVars
  \/ <>[](\A h \in Host, t \in Task : taskStatus[h][t] = Done)

-----------------------------------------------------------------------------
(* What the repository says of the code and the code does not do: TLC refutes
   it. *)

(* "A host with a task under way is skipped, its tasks are not executed again":
   between two tasks of a host whose tasks have all been set to failed, the
   host and the pattern show 3; a start is accepted, and sends the task the
   chain is about to send (Alone FALSE). *)
NotExecutedAgain ==
  \A e, f \in Exec :
    /\ phase[e] = "queued" /\ phase[f] = "queued"
    /\ job[e].host = job[f].host /\ job[e].task = job[f].task
    => e = f

(* "The requested step is being executed": a pattern that cannot be started
   for this reason has an execution under way. *)
RefusedIsExecuting ==
  patternStatus = Running => \E e \in Exec : phase[e] # "idle"

=============================================================================
