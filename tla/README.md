# Formal models of the publish server

TLA+ models of the server in `src/`, which publishes application packages to
groups of machines and rolls them back: a Tornado web server, a group of celery
workers, a MySQL database, and ansible, dubbo-admin and CMDB clients.  The
modules are translated from the Python and shell code; TLC checks small
instances of them and TLAPS proves every safety property the passing runs
check, and the refinements between the models, for every instance.

    tlc -workers 2 -config PatternRun_faults.cfg MCPatternRun.tla
    tlapm PatternRun_proofs.tla

`PROJECT.json` lists the parts of the system, the runs, the source lines behind
every definition, the hazards, and the theorems.

## 1. The system

### Components, their state and operations

| part | state | operations |
|---|---|---|
| Plan creation (`handler/publish_plan.py`, `tasks/publish_plan.py`) | `publish_plan.status`, addresses and target versions; the plan's directories `release/<plan>/{zip,archive}` and the version directories | create a plan, repeat the download, change addresses; the celery task that downloads, unpacks, places, indexes and records |
| Patterns (`handler/publish_pattern.py`, `worker/run_task.py`, `tasks/base.py`, `worker/pattern*.py`) | status of a pattern, its hosts and their tasks; `publish_task` rows; messages in the broker | start a pattern; `run`, `on_success`, `on_failure` of every task; dispatch of the next task; `upgrade_plan_finish` |
| Edits (`handler/pattern_host.py` PUT, `handler/publish_pattern.py` PUT, `handler/{nginx,dubbo,service,package,deploy}.py`) | the same rows | set a host and its tasks to a status, set a pattern's status, run one task of a host by hand |
| Rollback, planning (`worker/rollback.py` to line 374) | patterns of the plan, CMDB versions | divide the hosts by version, count how far each application is, generate the steps |
| Rollback, execution (`worker/rollback.py` from 377, `handler/rollback.py`, `tasks/check_pattern_status.py`) | steps and hosts, the nested chain of a celery message | start, repeat; the check that waits for a step and starts the next |
| Plan status (all of the above) | `publish_plan.status` | written by downloads, the last step, rollback requests and the client's PUT |
| Target machine (`sh/*.sh`, `tasks/dubbo.py`) | version directories, link, process, nginx and dubbo switches, CMDB version | the tasks of the actions, `worker/run_task.py:15-75` |
| Feeds (the WebSockets of `handler/{pattern_host,pattern_task,task_status,host_log,publish_plan}.py`) | offset, known statuses, ids asked for, last time of a connection | a callback per period, a message from the client |
| Users, departments, projects, tokens, audit log, address check, CMDB host list | rows of their own | not modelled, see section 8 |

The web process answers one HTTP request at a time; the workers run up to
twenty executions beside it.  They meet in the database and in the broker.  A
request that starts a pattern sends one chain per host; a chain is not a celery
chain but a message with the rest of the work in its arguments, and the
callback of each task sends the next.  A rollback nests the steps in the same
way, with a polling check between two steps.  Messages are acknowledged before
they are executed, so a killed worker loses its execution.  The feeds read the
rows the callbacks write, and push differences to the browser.

### What is hard

* A callback reads the hosts of its pattern from the snapshot of its
  transaction and locks the pattern's row only afterwards
  (`worker/pattern.py:34`).
* `apply_async` is called inside the transaction that writes the row the
  message refers to (`worker/run_task.py:274`): the message can overtake the
  commit or survive its rollback.
* Any step can be repeated by an operator: starts, downloads, rollbacks; the
  only guard is a status in the database.
* Tasks fail in the middle of a chain and leave a machine half changed; one
  whose time is up leaves its script at work
  (`conf/celery_config_example.py:6`), and the dubbo switch is made by another
  server some time after it was asked for.
* Directories and index files are named by the minute in which a plan was
  created (`handler/publish_plan.py:124`).
* `publish_plan.status` has four kinds of writers, and one function writes both
  "published" and "rolled back" by what it finds there.
* The feeds page through rows that change while they page.

## 2. Modules

In the order in which they were written, the most important behaviour first.

| module | what it is | extends |
|---|---|---|
| `Status` | the four statuses and `check_status` | |
| `PatternRun` | one pattern: request, chains, callbacks as interleaved transactions, faults | `Status` |
| `HostChain` | what a pattern promises for each host: tasks move one at a time, in order | `Status` |
| `PatternRunInv`, `PatternRun_proofs` | the inductive invariant, and the proofs | `PatternRun` |
| `ActionTasks` | the tasks of every action | |
| `RollbackPlan`, `RollbackSteps`, `RollbackSteps_proofs` | the steps a rollback is made of; carrying them out; the proofs | `ActionTasks`, `RollbackPlan` |
| `RollbackOrder` | what a rollback promises: steps in order, pauses passed by requests only | `Status` |
| `RollbackChain`, `RollbackChain_proofs` | the steps' chain, its checks, pauses and repeats; implements `RollbackOrder` | `Status`, `ActionTasks` |
| `PlanCreation`, `PlanCreation_proofs` | a plan's downloads, directories and statuses, and a plan of the same minute | |
| `TargetHost`, `TargetHost_proofs` | one machine under the tasks of `ActionTasks`, scripts that outlive them, and dubbo-admin | `ActionTasks` |
| `PatternEdits`, `PatternEdits_proofs` | `PatternRun` composed with an operator who edits it | `PatternRun` |
| `TaskFeed` | the feed of a pattern host | `Status` |
| `Feeds`, `Feeds_proofs` | that feed, the pattern's and the tasks', of the same rows; implements `TaskFeed` | `TaskFeed` |
| `HostLog` | the feed of a host's log | |
| `PlanLifecycle`, `PlanLifecycle_proofs` | the plan's status above downloads, steps and rollback; its rollback implements `RollbackOrder` too | `Status`, `ActionTasks` |
| `PlanFeed` | `PlanLifecycle` composed with a browser that watches plans | `PlanLifecycle` |

A `..._proofs` module extends the module it is about, and
`PlanLifecycle_proofs` extends `PlanFeed`, so that it covers both; the
invariant a proof needs is stated at its head (that of `PatternRun`, which a
run checks, in `PatternRunInv`). `MC<module>` gives a module's constants their
values. Definitions named as a *slip* in their comment are variants of the one
below them as a plausible mistake would leave it; nothing else uses them.
Putting one in place makes TLC find the property it is meant for violated,
which shows that the property depends on that line of the code.

### How state and actions correspond to the code

**PatternRun.** `taskStatus`, `hostStatus`, `patternStatus`, `planStatus` are
the committed columns, `recorded` the executions with a committed
`publish_task` row. A transaction is two steps: `...Begin` takes the snapshot
(`snap`), `...Commit` writes what the code computed from it, by `check_status`
over the snapshot overlaid with its own writes. `lock` is the lock on the
pattern's row (`with_for_update`). All transactions that write a task take it,
so it stands for the other row locks too. A request is `ActionBegin` (the look
at the status), `ActionDispatch` per host (rows written, message sent) and
`ActionCommit`; between them other transactions run and already sent executions
may start. `Execute` is `run`; `SuccessBegin`, `SuccessCommit`,
`SuccessMissing` are `do_success`; `DispatchBegin`, `DispatchSend`,
`DispatchCommit` the callback's second transaction that sends the next task;
`FinishPlan` `upgrade_plan_finish`; `FailureBegin`, `FailureCommit`
`on_failure`. A message is queued as soon as it is sent, so that it can
overtake the commit of its row. Faults have a budget per kind: `crash` (an
execution is gone), `abort` (a transaction is rolled back after its message was
sent), `finish` (`upgrade_plan_finish` raises). Scripts may fail, and may
raise, without a budget.

**PatternEdits** adds `hand`, the operator's open request, with the same
splitting into snapshot and commit; the server still takes one request at a
time. A host is set to any status of `HostSet` with all its tasks
(`EditCommit`), the pattern to one of `PatternSet`. `Patient` and `Alone` say
whether the operator waits until nothing of the host, or of the pattern, is
under way.

**RollbackPlan** computes from `info` (application, flag and CMDB version of
each host) what `generate_rollback_steps` does, clause by clause: `OldHosts`,
`NewHosts`, the counts behind `LessThanHalf`, `Half`, `Full`, `StopNew`, and
`Generate`.  **RollbackSteps** runs the steps: `TakeOff` and `ComeBack` for a
step that changes the version, `SwitchFlow` for one that only switches traffic,
`Confirm` for a pause.  Any host may be cut off when the rollback is asked for,
as hosts of failed patterns are; `before` remembers which were not.

**RollbackChain** takes a generated plan as a constant, of which it assumes
that only pauses and the notice have no hosts. An execution goes `script`,
`succeeding` or `failing` (its completion has read the hosts), `check`,
`starting`. Of a step's hosts only the first one carries the rest, a function
from the later steps to the hosts they will be run on (`Job`). `RetryRead` and
`RetryRun` are the two transactions of the repeated request.

**RollbackOrder** is what both models of a rollback are shown to implement.
Its state is the statuses of the hosts by step and whether anything is under
way (`resting`).  A `Request` may begin any step whose predecessors are done, a
`Continue` one that has no untouched pause before it.  `RollbackChain` maps
`resting` to "no execution is active"; `PlanLifecycle`, where a step is one
piece of work, maps each row to one host and `resting` to "neither the chain
nor a start of its own runs a row of the rollback".

**PlanCreation** keeps the directories as sets of packages, `placed` those this
plan has moved to their version's directory and `taken` those a plan of the
same minute has; `index` is the index file, which both write over. `PostCommit`
and `PostSend` are the two halves of the creation. A download is a process with
a phase per stage of `down_load_and_archive_package`; `Callback` is
`on_success`/`on_failure`. Packages come in kinds: good, missing, not a zip,
without readable information.

**TargetHost** has the version directories, the link, the process, the CMDB
version and the switches of one machine; each action begins with the tasks that
`ActionTasks` gives it, and a failed chain is taken up again with the task that
failed.  What a script does is one operator (`Downloaded`, `Stopped`, `Linked`,
...) used in three places: the script succeeds; it fails with its effect or
without; or its task's time is up, and the effect comes later or never
(`late`, `LateEnds`).  The dubbo switch is a conversation: `DubboAnswers` is
the request, which leaves a `wish` with dubbo-admin; or finds no matching
application, so that the task succeeds and nothing is switched (`DubboMisses`,
remembered in `missed`).  `Look` and `LookFails` are the
up to three looks (`_check_dubbo_status`), `DubboGrants` dubbo-admin making the
switch.  A publication is begun on a fresh host or after its traffic was
stopped.

**TaskFeed** and **HostLog** are one connection each beside the workers that
add and finish rows; `Withdraw` is `on_failure` called by `on_success`, which
rewrites a committed success. **Feeds** adds the two other connections that
read these rows, one of the three per behaviour (`open`), as they share
nothing: `watching`, `knownStatus` and `knownTasks` are what the pattern's
connection keeps, `asked` the ids the tasks' connection still looks for;
`GoesBack` says whether tasks of a pattern that is watched are run out of order
or withdrawn. **PlanFeed** puts the plans' connection beside `PlanLifecycle`:
`known` is `current_status`. A look of `TaskFeed` is one query; one of
`HostLog` is a query, a reading of the clock and an answer, with the database's
stamps rounded to seconds.

**PlanLifecycle** treats a step, a download and a chain as one piece of work
each.  A step has no hosts here, but ends in every way its hosts can leave it
(`Outcomes`): done, failed, or at 1 after an overlap of callbacks.  The finish
of the plan hangs on the last host's chain: a start of the highest step puts the
row in `finish`, and `FinishPlan` may come at any time after that, before the
step ends (`StepEnds`) or after it; only a step that has not ended done may lose
it.  The rollback request is split into its three transactions (`Generate`,
`Mark`, `RunNew`) and fails at any of them (`RunRaises`).  Between two steps of
a rollback the check may run (`RollNext`) or have given up (`RollGivesUp`).
`RetryPut` changes addresses in any state of the plan, as the code does; `late`
remembers that a download under way was begun so, or beside running steps.
`Orderly` is about the client alone: he starts a step when the ones before it
are done, and writes a status at its time.

## 3. Runs

| run | instance | what it shows |
|---|---|---|
| `PatternRun_faults` | 2 hosts x 2 tasks, 3 executions, one crash and one rollback after a send; 1.2 million states | a pattern at 2 is done to its last task (`DoneIsDone`); work under way shows as 1, so a repeat is refused (`BusyShowsRunning`); a host never has two scripts queued, unless a request was rolled back after sending (`OneScriptPerHost`); a chain that was stopped short shows in the pattern (`StoppedIsShown`); the last host publishes the plan when every host has begun (`PublishedIsBegun`); the pattern implements `HostChain` (`TasksInOrder`) |
| `PatternRun_skew` | 2 hosts x 1 task, no fault | counterexample to "all of them 2": see section 6 |
| `PatternRun_recovers` | 1 host x 2 tasks, 3 executions, one fault of every kind, fair; 70 thousand states | whatever is started comes to rest, with no lock held, faults and all (`ComesToRest`) |
| `PatternEdits_rescue` | 2 x 2, 3 executions, one crash, a task run by hand, hosts set to any status, the pattern set to 0, fair; 543 thousand states | with an operator who waits until nothing is under way `DoneIsDone` survives his edits, whatever order of tasks they leave; starting the pattern, and setting a stranded host to failed, brings every task of every host to its end (`IsRescued`) |
| `RollbackSteps_all` | every assignment of 4 hosts to 2 applications, 3 flags and 3 CMDB answers, any of them cut off at the start; 541 thousand states | an application with a host rolled back, or with a master and another host that took traffic, never goes dark (`NeverDark`); at a pause one version is in service among masters and slaves (`PauseIsClean`); at the end all hosts are rolled back and serve (`EndsRolledBack`) |
| `RollbackChain_order` | 4 steps with a pause, one on 2 hosts, 2 failures; 97 thousand states | the chain implements `RollbackOrder` (`KeepsOrder`): steps in order, pauses honoured, nothing done repeated; one script per host, a repeated request is taken and begins with the first unfinished step (`RetryIsTaken`, `RetryFindsUnfinished`) |
| `PlanCreation_faults` | 2 applications, 5 packages, 2 downloads, up to 3 of: each fault once, a change of addresses, two doings of a plan of the same minute; fair; 493 thousand states | downloads do not overlap (`OneDownload`); a created plan is complete however many downloads it took, and no other plan replaces its packages (`CreatedIsComplete`); a plan in creation has a download (`CreatingIsWorking`) and the creation ends (`CreationEnds`) - each under the condition its comment names |
| `TargetHost_sound` | both kinds of application, any failures, late scripts, late or missed dubbo switches and repeats, fair; 2 thousand states | no traffic to a machine that does not run the version linked (`NoTrafficToNothing`); an action that has ended did what it is for (`EndsAsAsked`); both but for a dubbo switch for which no application was found; nothing a failed attempt leaves behind stops its repeats for ever (`ActionEnds`) |
| `Feeds_one` | 1 host, 2 tasks, 4 rows, pages of 2, successes withdrawn, fair; 103 thousand states | every result is sent, once (`SentOnce`, `NothingSkipped`, `FeedIsComplete`); a watched pattern is shown as it is (`PatternIsShown`), and a look that finds nothing to send has sent it so (`SilenceIsRight`); a task asked for is told of when it succeeds for good (`DoneIsTold`) |
| `HostLog_apart` | 3 rows, pages of 2, 7 ticks of half a second, fair | every row is shown in its last state (`LogIsComplete`) and the feed falls silent (`FallsSilent`) |
| `PlanFeed_orderly` | 2 steps, a rollback of three with a pause, 2 downloads, two plans watched, fair; 132 thousand states | a published plan lacks at most its last step (`PublishedIsComplete`), only a change of addresses takes a plan in use back to creation (`StatusForward`), rollback steps implement `RollbackOrder` (`KeepsOrder`), repeats carry a rollback to its end (`RollbackCompletes`); the browser shows the plan as it is (`PlanIsShown`), also when a look finds the list of statuses it knows (`SameListIsRight`) |
| `PlanLifecycle_race` | 2 steps, a rollback asked for beside a running step | counterexample to "rolled back successfully": see section 6 |

The type invariants (`TypeOK`, `EditsTypeOK`, `FeedsTypeOK`, `FeedTypeOK`) and
`IInv` say what the variables hold and can be added to any run; the runs leave
them out.  Those of `PatternRun`, `PatternEdits`, `PlanCreation`,
`PlanLifecycle`, `RollbackSteps`, `RollbackChain` and `TargetHost` are proved
(section 5).

No run looks for deadlock: in every model the work may be finished and nobody
has to make another request.

### Bounds, and why they are enough

* *Executions* (`Exec`): ids are reused, so the bound is on executions at one
  time.  Two chains and one in transition fill 3; with 4 the fault-free
  pattern has the same states.  A send waits for a free id, which is the only
  effect of the bound.
* *Two hosts, two tasks* are the least with two overlapping callbacks, a first
  task and a next one.  The proofs remove this bound for everything but
  liveness.
* *`PatternEdits_rescue`* has two hosts and speaks of tasks: the overlap of
  section 6 may leave the pattern at 1 when every host is done, and nothing
  short of setting the pattern by hand changes that.
* *`PatternRun_recovers`* has one host: with two, an operator who repeats a
  failing request for ever takes the lock whenever a callback could have it,
  and weak fairness promises that callback nothing.
* *Budgets* of one: one fault of a kind meets every step, and two of different
  kinds meet in one behaviour.
* *Four hosts in RollbackSteps*: two applications with two hosts, or one with a
  master, a slave and a gray host on either side.  The proofs hold for any
  number of hosts, versions and applications.
* *Two failures in RollbackChain*: a failure before and behind the pause, or the
  same step twice.  The proofs hold for any steps, executions and failures.
* *Three events in PlanCreation*: any two faults and a change of addresses or a
  move of the rival's, or one fault with the rival's move and index.  The
  proofs hold for any number of each.
* *Three looks in TargetHost* are the code's.  Late scripts are a set: the same
  task may time out again and again.
* *One rollback in `PlanFeed_orderly`*, of a step before its pause and two
  behind it, one of which the chain starts.  A patient client asks for a second
  one when the first is carried out; the proofs hold for any number of
  rollbacks and any steps.
* *Two plans, two patterns in the feeds*: the one that lives and one that
  stands still; what a connection keeps of the one must not hide the other.
* *Four rows and pages of two in Feeds*: two full pages, and a task repeated.
* *`MaxTime` of HostLog* is three seconds and a half; a row needs one second to
  begin, one to end and the feed one to look.

## 4. Fairness

Weak fairness for the workers' steps and for the rest of a request the server
has begun, because celery's workers take what is queued and a process that runs
goes on, and for the periodic callback of a connection. None for starting
anything, for the clock of `HostLog`, for failures, crashes, time limits or
retries of an operator, with these exceptions:

* `IsRescued` and `RollbackCompletes` are about an operator who wants the end:
  fairness for starting a pattern and repeating a rollback (strong fairness for
  the latter, as the request is refused again and again while steps run), and
  for setting a stranded host to failed: one that shows 1, or one that is not
  done in a pattern that shows 1, with nothing under way.
  Both properties allow for tasks that go on failing.
* `CreationEnds` needs weak fairness for `PostSend`, the second half of the
  request.
* `ActionEnds` is about an operator who repeats a failed task as often as it
  takes: strong fairness for a task's success, which is enabled again and again
  as attempts fail, for a dubbo request that is accepted, and for a look that
  succeeds; weak fairness for scripts to end and for dubbo-admin to grant.
* `PlanIsShown`, `PatternIsShown` and `DoneIsTold` need the periodic callback
  only, and are about a browser that stays with what it watches.

`ComesToRest` is `[]<>`: at rest again and again, whatever is started.

## 5. Proofs

The `..._proofs` modules are checked by tlapm to the last leaf.  They hold for
every value of the constants under the assumptions named here, beside the
`ASSUME`s of the models: any number of hosts, tasks, executions, steps,
packages, faults, failures and repeats.

| module | assumed | theorems |
|---|---|---|
| `PatternRun_proofs` | `upgrade_plan_finish` does not raise | `TypeOK`, `DoneIsDone`, `BusyShowsRunning`, `OneScriptPerHost`, `StoppedIsShown`; implements `HostChain` |
| | also: the plan is not at 4 at the start | `PublishedIsBegun` |
| `PatternEdits_proofs` | the same; the operator waits for the whole pattern (`Alone`) and does not set it to 2 | `EditsTypeOK`, `DoneIsDone` |
| `PlanCreation_proofs` | `FilesApart`, for the last | `TypeOK`, `OneDownload`, `CreatingIsWorking`, `CreatedIsComplete` |
| `PlanLifecycle_proofs` | a client who takes the steps in order (`Orderly`) | `PublishedIsComplete`, `StatusForward` |
| | and is `Patient` | implements `RollbackOrder` |
| | any client | `SameListIsRight`; `PlanFeed` implements `PlanLifecycle` |
| `RollbackChain_proofs` | a patient operator (not for `TypeOK`) | `TypeOK`, `OneScriptPerHost`, `RetryIsTaken`, `RetryFindsUnfinished` (one pause at the most); implements `RollbackOrder` |
| `RollbackSteps_proofs` | | `NeverDark`, `PauseIsClean`, `EndsRolledBack`; `NewVersionIsCut` without gray hosts; what `RollbackChain` assumes of a plan |
| `TargetHost_proofs` | | `TypeOK` |
| | a patient operator, a prompt dubbo-admin, no early restore | `NoTrafficToNothing`, `EndsAsAsked` |
| `Feeds_proofs` | one host, rows end in order | `SentOnce`, `NothingSkipped`, of `TaskFeed` and beside the other feeds |
| | one host, its tasks in turn and not withdrawn | `SilenceIsRight` |
| | | `Feeds` implements `TaskFeed` |

Section 6 says what happens where an assumption fails.

**PatternRun.**  When `upgrade_plan_finish` raises, `on_failure` withdraws a
finished task from an old snapshot, hence the assumption `Budget["finish"] = 0`.
Crashes, rollbacks and failing scripts are unlimited.

The properties are not inductive: whether the pattern shown as done is done
depends on what an open transaction has seen.  `IInv` adds the reason the
unlocked read is harmless for `DoneIsDone`:

1. an execution with a committed row owns its host, and is at the host's
   frontier: tasks before it are done, those behind it untouched, and the rest
   of its chain is what remains (`Owners`, `AtFrontier`);
2. hence what its transaction saw of its own host is still true, and what it
   saw of the others is out of date in one direction only: a host it saw done
   is done, a host that is running it saw running (`Seen`);
3. hence a pattern written as done has only done hosts, and a running host shows
   in the pattern (`PatternDone`, `PatternRunning`);
4. an execution without a row, left behind by a rollback, sees no row and
   writes nothing (`Rows`);
5. the open request and the open dispatch know the message they have sent
   (`Starting`, `Dispatching`).

`Invariance` proves `IInv`, one lemma per action; `TypeCorrect`,
`DoneIsReallyDone` and `BusyIsShown` follow; `ChainsInOrder` is the refinement:
every step moves at most the frontier task of each host, as `HostChain` allows.

`OneScriptAtATime` needs to know of the executions without a row too.  A worker
that dies between sending and committing leaves such a stray behind; it has its
host to itself, and the host stays at 1 so that nobody starts it again
(`StraysAlone`).  `StoppedIsSeen` needs `IInv` only: a host between two tasks,
or at one that runs, has status 1, and that shows in the pattern.
`PublishedHostsAreBegun` adds that a chain about to finish the plan has done its
host, and that done hosts stay done (`FinishedHosts`); and that the first start
begins all hosts in one transaction, so that a host is done only when every
other one has begun (`BegunTogether`).

**PatternEdits.**  An edit leaves a host with its tasks in any order: a done
task may follow a failed one, so `IInv` does not hold here and the frontier is
no help.  `EditsInv` keeps what an edit does not disturb:

1. an execution with a row still has its host to itself, and some task it is
   still to do is not done, so that its host is not done either (`AtWork`,
   `Working`);
2. what its transaction saw of its own host is true, and a host it saw done is
   done (`Saw`, `Known`); the other direction, needed for `BusyShowsRunning`,
   is lost;
3. a request that starts the pattern finds no row, and until it commits nothing
   gets one (`Opening`): this is where `Alone` is used, in place of the guard on
   the pattern's status, which an edit can set;
4. while the operator's own request is open there is at most the message it has
   sent itself, so its snapshot is the database (`HandAlone`).

Without `Alone` the property is false, and setting the pattern to 2 makes it
false at once; section 6 has the first.

**PlanCreation.**  The invariant `Single` counts: a download under way, a
message to be sent and a plan shown as being created go together, and as long
as what `OneDownload` and `CreatingIsWorking` exclude has not happened there is
one of them.  `CreatedPlanIsComplete` follows that download through its
stages (`Stage`): what the plan wants is fetched or still to be fetched, then
unpacked or still a file, then placed or still in the list.  It needs that the
names of the packages' files tell the applications apart, an assumption which
came up in the proof and which the code does not make.

**PlanLifecycle.**  `PublishInv`, for a client who takes the steps in turn: what
is at work shows 1 (`OwnAtWork`), and only the highest own row may finish the
plan, when the others are done (`LastStep`).  `StatusGoesForward` adds
`CreationInv`: a download that is not late is the only one, in a plan being
created with nothing under way.  `RollInv` adds, for a client who asks for a
rollback with nothing under way and carries one out before he asks for the next,
that the rows of an open request are untouched and those before them done
(`Batches`), that a row begins when the rows before it are done (`InOrder`), and
that the rollback's chain is alone on its rows, between two pauses
(`RollAlone`).
In the refinement `RunNew`, a retry and the start of an added row are a
`Request`; `RollNext` is a `Continue`, the ends of steps are `End`,
`RollGivesUp` is `Rest`; what concerns the plan's own steps, and the rollback's
generation, stutters.

**RollbackChain.** `ChainInv` says that the statuses have a frontier (a host is
touched when all earlier steps are done), that all work is on one step, that a
running host has one execution, and that one execution carries the steps that
follow, whole, without a gap and without a pause (`Chained`, `OneCarrier`);
while it sends a step's first tasks those sent are its only company (`Starts`).
In the refinement a request that runs something is a `Request` for its first
step, `StartNext` a `Continue`, a recorded result an `End`, a check that gives
up with nothing else active a `Rest`. `RetryFindsUnfinished` holds with one
pause at the most; with two it is false.

**RollbackSteps.**  The steps are generated by counting.  The lemmas first lay
the generated sequence out part by part (restoring the traffic, the masters,
the cut before the pause, the pause, the remaining hosts, the notice) and turn
the comparisons of counts into statements about hosts; from this follows what
the theorems need of any plan (`Ordered`): traffic is restored first, every new
host is rolled back once, in an application without old hosts masters precede
the others, and before the pause every new master and slave has been rolled
back or cut off.  `StepsInv` then says of each host whether it takes traffic
and which version it has, by the steps that have begun.

Two more theorems tie this model to `RollbackChain`.  `PlansAreRunnable`: every
plan that is generated has hosts in each step but pauses and the notice, which
is what `RollbackChain` assumes of its constant `Plan`; the comparison of counts
behind a first pause always leaves something to cut off (`HalfWayHosts`).
`OnePauseUnlessHalf`: the second pause, with which `RetryFindsUnfinished` is
false, needs hosts of both versions, no application rolled back by less than
half, and one by half.

**TargetHost.** No constant makes the states of this model grow, and its run
visits them all for each application; the proof adds the reasons. Every action
has its tasks in one order of verbs (`Rank`), so the verb a chain has come to
(`Stage`) tells what has been done (`Replacing`): before the stop the machine
runs what is linked, from the last switch to the start nothing takes traffic,
behind the link it is linked to the version. What a failed attempt may have
done is what the task does, so that done twice it does nothing else. This needs
that nothing comes between: a script that has outlived its task is one of the
task that comes next (`Late`), and a wish with dubbo-admin is that of this task
or changes nothing any more (`Wishes`). The three assumptions are used there.
A dubbo switch that is missed (`missed`) is the one exception to all of it; the
other tasks go on as if it had been made.

**Feeds.** The connection of a host follows one (`OneHost`) whose rows finish
in order (`InOrder`). Then the finished rows of a page are an interval that
begins at the offset (`ReadyIsInterval`), so counting them and skipping by
position are the same; `NoResultTwice` and `NoResultSkipped` follow, and, as
the other two connections only read (`FeedsImplementTaskFeed`), hold beside
them.

The pattern's connection remembers the tasks only when it finds the status as it
knows it, so that what it remembers and what it has sent are two things.
`SilentFeedIsRight` orders them: in a pattern of one host whose chain does its
tasks in turn, the tasks remembered come before those sent, and those before
the tasks as they are (`InStep`); and tasks that are back at remembered ones
under the same status have been the same all the while (`SameStatusSameTasks`).

**PlanFeed.**  The list of statuses that a connection keeps is what the browser
shows of the plans watched, in the order of their ids (`ListIsView`), as a
message that changes the plans empties it.  Hence an equal list means equal
plans, though no id is compared.

**Only model-checked**: liveness, which is out of the prover's reach as is
`ENABLED`: `ComesToRest`, `IsRescued`, `CreationEnds`, `ActionEnds`,
`FallsSilent`, `RollbackCompletes`, and the feeds' `FeedIsComplete`,
`PatternIsShown`, `DoneIsTold`, `LogIsComplete`, `PlanIsShown`. `HostLog` has
no other property.

## 6. Where the code and its documentation part

Two disagreements are runs of their own:

* `PatternRun_skew`: two hosts whose last callbacks overlap each see the other
  one at 1 and both compute 1.  All hosts are at 2, nothing is under way, the
  pattern stays at 1, and a start is refused because it "is being executed".
* `PlanLifecycle_race`: a rollback is accepted while the last step is under
  way.  The step's chain ends, `upgrade_plan_finish` finds 21 and writes 22
  although nothing is rolled back; the rollback can then not be repeated.

Others came up while modelling.  The properties are in the modules; each can be
seen by checking the property in the run's configuration with the change named.

| property | in | configuration and change | what happens |
|---|---|---|---|
| `RunningIsExecuting` | `PatternRun` | `PatternRun_faults` | the message overtakes the commit of its row; the task stays at 1 |
| `PublishedIsDone` | `PatternRun` | `PatternRun_faults` | the finish of the plan hangs on the chain of the last host, which waits for no other: the plan is at 4, "published successfully", while another host of the last step is at work, and may fail |
| `DoneIsDone` | `PatternRun` | `PatternRun_faults`, `Budget <- OneFinish` | a failing `upgrade_plan_finish` withdraws a finished task |
| `DoneIsDone` | `PatternEdits` | `PatternEdits_rescue`, `Alone` `FALSE` | an edit and another host's callback overlap |
| `BusyShowsRunning`, `NotExecutedAgain` | `PatternEdits` | `PatternEdits_rescue`, one host, `Alone` `FALSE` | a host was set to failed with all its tasks while nothing was under way, and the pattern is started: between two tasks `check_status` finds 2 and 3 and gives 3, to the host and to the pattern; a second start is accepted, no task of the host is at 1, and the next task is sent twice, although "its tasks are not executed again" (`handler/publish_pattern.py:141`) |
| `RefusedIsExecuting` | `PatternEdits` | `PatternEdits_rescue` | done and pending tasks side by side read as running |
| `OneScriptPerHost`, `KeepsOrder` | `RollbackChain` | `RollbackChain_order`, `Patient` `FALSE`, five executions | a repeat between two steps starts the next step twice |
| `RetryFindsUnfinished` | `RollbackChain` | `RollbackChain_order`, `Plan <- TwoPauses` | after the second pause the list is the first pause alone |
| `NewVersionIsCut` | `RollbackSteps` | `RollbackSteps_all` | gray hosts count as rolled back and keep their traffic |
| `PauseIsHalfWay` | `RollbackSteps` | `RollbackSteps_all` | an application without a new master is cut off before it is rolled back |
| `GoodPackagesAreCreated` | `PlanCreation` | `PlanCreation_faults` | a repeated download finds a package in its place and fails |
| `RecordedIsCurrent` | `PlanCreation` | `PlanCreation_faults`, packages `a1, a2, b1` | the package of a former address is recorded |
| `CreatedIsComplete` | `PlanCreation` | `PlanCreation_faults`, `FileOf` giving `b1` the name of `a1` | the second download writes over the file of the first; the plan is created without one package |
| `CreatedIsDone` | `PlanCreation` | `PlanCreation_faults` | the first of two downloads marks the plan created |
| `IndexIsOwn` | `PlanCreation` | `PlanCreation_faults` | a plan of the same minute writes the index over |
| `PackageIsThere` | `TargetHost` | `TargetHost_sound`, `PackageIsSound` `FALSE` | the directory a failed download left passes for the package |
| `ActionEnds` | `TargetHost` | the same | a broken package is never replaced, and its start fails for ever |
| `NoTrafficToNothing` | `TargetHost` | `TargetHost_sound`, `Patient` `FALSE` | a script that outlived its task comes to its end beside or behind its repeat |
| `TrafficIsCut` | `TargetHost` | `TargetHost_sound`, `DubboIsPrompt` `FALSE` | the switch has not shown after three looks, and the task succeeds |
| `OldVersionServes` | `TargetHost` | `TargetHost_sound`, `EarlyRestore` `TRUE` | a publication failed before the CMDB update; the host counts as old, and is given its traffic back |
| `PatternIsShown`, `SilenceIsRight` | `Feeds` | `Feeds_one`, `GoesBack` `TRUE`; or two hosts | tasks sent with a new status are not remembered; when they come back to the remembered ones, by a task run by hand or a success withdrawn, nothing is sent |
| `EndedIsTold` | `Feeds` | `Feeds_one` | a task that has failed is looked for for ever and never told of |
| `SentIsFinal`, `ToldHasSucceeded` | `TaskFeed`, `Feeds` | `Feeds_one` | a success was sent, or told of, and is withdrawn afterwards; the row is not sent again |
| `FeedIsComplete` | `TaskFeed` | `Feeds_one`, `InOrder` `FALSE`; or `OneHost` `FALSE` and two hosts | the offset passes an unfinished row; or is kept for the next host |
| `LogIsComplete` | `HostLog` | `HostLog_apart`, `Apart` `FALSE` | an update in the second of an answer is never shown |
| `PublishedIsComplete` | `PlanLifecycle` | `PlanFeed_orderly`, `Orderly` `FALSE` | the last step is started first |
| `StatusForward` | `PlanLifecycle` | `PlanFeed_orderly`, `Orderly` `FALSE` | the client writes a status of a plan in use while its first download is under way, whose callback then writes 2 or 3 |
| `KeepsOrder`, `RollbackCompletes` | `PlanLifecycle` | `PlanFeed_orderly`, `MaxRollbacks` 2, `Generate` without its conjunct on `Patient` | a request that failed after adding its steps and before marking the plan is made again: the steps are there twice |
| `CarriedOutIsRolledBack` | `PlanLifecycle` | `PlanFeed_orderly` | no chain of a rollback ever writes 22 |
| `DeletedIsNotListed` | `PlanLifecycle` | `PlanFeed_orderly` | deleting sets a mark, the list leaves out the status 7, which nothing writes |

## 7. Abstractions

* A pattern's chains are one per pattern host; the code groups them by the
  host's name. A pattern with one name twice is not modelled.
* One lock stands for the row locks of a pattern. Lock waits that end in an
  error are the `abort` fault and `HandAbort`.
* The models assume InnoDB's default isolation, REPEATABLE READ: nothing in
  `orm/db.py` sets another.
* `RollbackChain` has one script per host and step, and merges the rows and the
  messages of a request into one step. The rows of pauses are set by hand
  outside it.
* `RollbackSteps` takes the hosts of a step off together: the worst case of the
  hosts' chains running side by side.
* `PlanCreation`: package information and package move together, and the two
  index files are written together. The rival's moves and its index come at any
  time; its own database rows are left out.
* `TargetHost`: the CMDB and nginx answer as they are. With `DubboIsPrompt` a
  wish is granted before the last look, and nothing else happens on the host
  before; it says nothing of applications that are not found, which any dubbo
  request may meet. An application that was missed keeps its traffic through
  the chain: that is left to the operator who knows it has no dubbo service.
* `TaskFeed`: the queries page with `LIMIT` and `OFFSET` and name no order
  (`handler/pattern_host.py:58-61`). The model answers in the order of the
  primary key, as InnoDB does when it reads the rows of one host through the
  index of the foreign key, whose entries end with that key; the code does not
  ensure it, and in another order a row could be sent twice or skipped.
* `HostLog` lets a row end once: a success that `on_failure` withdraws
  afterwards is not in it.
* The CMDB, asked twice by a rollback, answers the same twice.
* `PlanLifecycle`: the hosts of a step are not told apart, and what they may
  leave it at and when its last one finishes the plan are choices of the model;
  `PatternRun` has the hosts. What the client does when it is orderly
  (`InTurn`, `AtItsTime`) is not in the repository's code; tests and API
  documentation show that order.
* Waiting operators (`Patient`, `Alone`), feeds that follow one host and rows
  that end in order are assumptions of the passing runs, and section 6 says
  what happens without them.

## 8. What is not modelled

* The direct operations without a `pattern_id`, and the requests to the CMDB
  and zabbix agents: they touch no pattern.
* Users, departments, projects, tokens and LDAP, with the permission checks in
  front of every handler: single transactions on rows of their own, and no
  state that publishing reads.
* The audit log (an insert per request, read by nobody), the address check and
  the CMDB host list (pass-through requests without state).
* Listing, paging, conversion to dictionaries and the helpers of
  `common/util.py`.
* The older whole-application scripts (`sh/deploy.sh` and others), which no
  action uses, and the status and restart commands of the others.
* Start-up and supervision: what they fix (one server process, several workers,
  acknowledgement before execution, a soft time limit) is in the models.

## 9. Plan

Done: sections 2 to 5. Every invariant and action property that a passing run
checks, and both refinements of a rollback, are proved; liveness stays with
TLC. Worth stating and proving next: which guard in place of the status 1 would
keep a start out between two tasks of an edited host (`NotExecutedAgain`), and
a safety property of `HostLog`: a row whose stamp is before the connection's
has been shown in its last state.
