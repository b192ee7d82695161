------------------------------- MODULE Feeds --------------------------------
(***************************************************************************)
(* The three feeds of a pattern that is being carried out: of a host's     *)
(* results (TaskFeed), of the pattern as a whole (PatternTaskWebSocket,    *)
(* handler/pattern_task.py), and of single tasks by their celery ids       *)
(* (TaskStatusWebSocket, handler/task_status.py).  Connections share       *)
(* nothing but the database and each only reads it, so a behaviour has one *)
(* of them.  A second pattern, which is over, stands for all the others a  *)
(* connection can be asked for.                                            *)
(***************************************************************************)
EXTENDS TaskFeed

CONSTANTS
  OtherTasks,   \* the statuses of the other pattern's tasks
  GoesBack      \* tasks of a pattern that is watched are run out of order, or
                \* a success of theirs is withdrawn

ASSUME GoesBackAssumption == GoesBack \in BOOLEAN
ASSUME OtherTasksAssumption == OtherTasks \in [Host -> [Task -> Statuses]]

Feed == {"host", "pattern", "task"}
Pattern == {"this", "other"}

ASSUME NothingAssumption == None \notin Pattern /\ None \notin [Host -> [Task -> Statuses]]

VARIABLES
  open,          \* the connection the browser has opened
  watching,      \* the pattern connection's self.message, or None
  knownStatus,   \* its self.patterns_status, by pattern
  knownTasks,    \* its self.tasks_status, by pattern, or None
  shown,         \* the statuses the browser was last sent for each pattern
  asked,         \* the task connection's self.taskids
  told           \* the rows it has sent

host == <<following, offset, known, sent, view>>
workers == <<count, row, task>>
pattern == <<watching, knownStatus, knownTasks, shown>>
tasks == <<asked, told>>
feeds == <<open, pattern, tasks>>

TasksOf(p) == IF p = "this" THEN task ELSE OtherTasks
StatusOf(p) ==
  CheckStatus({CheckStatus({TasksOf(p)[h][t] : t \in Task}) : h \in Host})

FeedsTypeOK ==
  /\ TypeOK
  /\ open \in Feed
  /\ watching \in Pattern \cup {None}
  /\ knownStatus \in [Pattern -> Statuses]
  /\ \A p \in Pattern : {knownTasks[p], shown[p]} \subseteq [Host -> [Task -> Statuses]] \cup {None}
  /\ asked \subseteq Host \X Row /\ told \subseteq Host \X Row

FeedsInit ==
  /\ Init
  /\ open \in Feed
  /\ watching = None
  /\ knownStatus = [p \in Pattern |-> Pending]
  /\ knownTasks = [p \in Pattern |-> None]
  /\ shown = [p \in Pattern |-> None]
  /\ asked = {}
  /\ told = {}

-----------------------------------------------------------------------------
(* The feed of a pattern *)

WatchPattern(p) ==
  /\ open = "pattern"
  /\ watching # p
  /\ watching' = p
  /\ UNCHANGED <<workers, host, open, knownStatus, knownTasks, shown, tasks>>

(* Slip: what was known of one pattern is taken to be known of the other. *)
PatternCallbackSharesKnown ==
  /\ watching # None
  /\ LET p == watching IN
       \/ /\ StatusOf(p) # knownStatus[p]
          /\ knownStatus' = [q \in Pattern |-> StatusOf(p)]
          /\ shown' = [shown EXCEPT ![p] = TasksOf(p)]
          /\ UNCHANGED knownTasks
       \/ /\ StatusOf(p) = knownStatus[p] /\ TasksOf(p) # knownTasks[p]
          /\ knownTasks' = [q \in Pattern |-> TasksOf(p)]
          /\ shown' = [shown EXCEPT ![p] = TasksOf(p)]
          /\ UNCHANGED knownStatus
  /\ UNCHANGED <<workers, host, open, watching, tasks>>

(* The status is compared first, and the tasks in a look that finds it as it
   was; either way the whole pattern is sent. *)
PatternCallback ==
  /\ watching # None
  /\ LET p == watching IN
       \/ /\ StatusOf(p) # knownStatus[p]
          /\ knownStatus' = [knownStatus EXCEPT ![p] = StatusOf(p)]
          /\ shown' = [shown EXCEPT ![p] = TasksOf(p)]
          /\ UNCHANGED knownTasks
       \/ /\ StatusOf(p) = knownStatus[p] /\ TasksOf(p) # knownTasks[p]
          /\ knownTasks' = [knownTasks EXCEPT ![p] = TasksOf(p)]
          /\ shown' = [shown EXCEPT ![p] = TasksOf(p)]
          /\ UNCHANGED knownStatus
  /\ UNCHANGED <<workers, host, open, watching, tasks>>

-----------------------------------------------------------------------------
(* The feed of tasks *)

(* A message is the id of an execution, known from the answer to the request
   that has sent it: its row may still have to be added. *)
Ask(h, i) ==
  /\ open = "task"
  /\ asked' = asked \cup {<<h, i>>}
  /\ UNCHANGED <<workers, host, open, pattern, told>>

Succeeded == {r \in asked : row[r[1]][r[2]].status = Done}

(* Slip: what has been looked for is not looked for again. *)
TaskCallbackForgets ==
  /\ asked # {}
  /\ told' = told \cup Succeeded
  /\ asked' = {}
  /\ UNCHANGED <<workers, host, open, pattern>>

(* What has succeeded is sent and forgotten, what has not is kept. *)
TaskCallback ==
  /\ asked # {}
  /\ told' = told \cup Succeeded
  /\ asked' = asked \ Succeeded
  /\ UNCHANGED <<workers, host, open, pattern>>

(* A chain begins a task that is not done when those before it are. *)
InTurn(h, t) ==
  /\ task[h][t] # Done
  /\ \A u \in Task : (u < t => task[h][u] = Done) /\ (u > t => task[h][u] = Pending)

FeedsNext ==
  \/ /\ \E h \in Host, t \in Task :
          Begin(h, t) /\ (open = "pattern" /\ ~GoesBack => InTurn(h, t))
     /\ UNCHANGED feeds
  \/ (\E h \in Host, i \in Row, s \in {Done, Failed} : Finish(h, i, s)) /\ UNCHANGED feeds
  \/ /\ \E h \in Host, i \in Row : Withdraw(h, i) /\ (open = "pattern" => GoesBack)
     /\ UNCHANGED feeds
  \/ open = "host" /\ (Callback \/ \E h \in Host : Follow(h)) /\ UNCHANGED feeds
  \/ (\E p \in Pattern : WatchPattern(p)) \/ PatternCallback
  \/ (\E h \in Host, i \in Row : Ask(h, i)) \/ TaskCallback

allVars == <<vars, feeds>>
FeedsSpec ==
  /\ FeedsInit /\ [][FeedsNext]_allVars
  /\ WF_allVars(Callback /\ UNCHANGED feeds)
  /\ WF_allVars(PatternCallback) /\ WF_allVars(TaskCallback)

-----------------------------------------------------------------------------
(* Properties *)

(* A pattern the browser stays with is shown with its tasks as they are, also
   when another one was watched in between and this one has gone on.  A look
   that finds another status sends the tasks and does not remember them, which
   does no harm to the tasks of one host that only go on.  With GoesBack, or with
   two hosts, TLC refutes it: the tasks are back at the remembered ones, under
   the same status, before the next look, and nothing more is sent. *)
PatternIsShown ==
  \A p \in Pattern : <>[](watching = p) => []<>(shown[p] = TasksOf(p))

(* The safety of it: a connection that has nothing to send, as it finds status
   and tasks as it knows them, has sent the tasks as they are. *)
SilenceIsRight ==
  \A p \in Pattern :
    StatusOf(p) = knownStatus[p] /\ TasksOf(p) = knownTasks[p] => shown[p] = TasksOf(p)

(* A task that was asked for is told of when it has succeeded for good,
   whether it was asked for before or after. *)
DoneIsTold ==
  \A h \in Host, i \in Row :
    <>(<<h, i>> \in asked) /\ <>[](row[h][i].status = Done) => <>(<<h, i>> \in told)

-----------------------------------------------------------------------------
(* What the code does not do: TLC refutes it. *)

(* A success that is told of is one that stands. *)
ToldHasSucceeded == \A r \in told : row[r[1]][r[2]].status = Done

(* A task that was asked for and is over is told of, failed or not. *)
EndedIsTold ==
  \A h \in Host, i \in Row :
    <>(<<h, i>> \in asked) /\ <>(i \in Rows(h) /\ Finished(h, i)) => <>(<<h, i>> \in told)

=============================================================================
