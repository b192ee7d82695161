---------------------------- MODULE PlanCreation ----------------------------
(***************************************************************************)
(* The creation of a publishing plan: the request that writes it, the two  *)
(* requests that repeat its download (handler/publish_plan.py) and the     *)
(* celery task that downloads the packages, unpacks them and records the   *)
(* versions it finds (tasks/publish_plan.py).  The directories it works in *)
(* belong to the plan and outlive the task: release/<plan>/zip is never    *)
(* emptied, release/<plan>/archive is, and a package moved to its version's*)
(* directory stays there.  That directory and the index are named by the   *)
(* minute the plan was created in: a plan of the same minute, the rival,   *)
(* works in them too.                                                      *)
(***************************************************************************)
EXTENDS Integers, FiniteSets, FiniteSetsExt

CONSTANTS
  App,        \* the plan's applications
  Package,    \* what an address can name
  AppOf, FileOf, VersionOf, KindOf,   \* of a package
  Download,   \* celery executions of the download
  None,
  Budget,     \* how many events of each kind a behaviour contains
  MaxEvents   \* and how many altogether

Kinds == {"good", "missing", "notzip", "badinfo"}
(* Faults, changes of the addresses, and what the rival does. *)
Events == {"broker", "time", "crash", "change", "rival"}

ASSUME PackagesAssumption ==
  /\ AppOf \in [Package -> App]
  /\ KindOf \in [Package -> Kinds]
  /\ None \notin Package
ASSUME BudgetAssumption == Budget \in [Events -> Nat] /\ MaxEvents \in Nat

VARIABLES
  status,    \* publish_plan.status; 0 before the plan exists
  url,       \* the package each application's address names
  toSend,    \* a plan has been committed and its download not yet sent
  zips,      \* packages in the plan's zip directory
  archive,   \* packages unpacked in its archive directory
  placed,    \* packages moved to the directory of their version
  taken,     \* packages the rival has moved to such directories
  index,     \* the version the index file has for each application
  target,    \* the version recorded for each application
  job,       \* the downloads
  budget     \* events that may still happen

rivals == <<taken, index>>
dirs == <<zips, archive, placed, rivals>>
vars == <<status, url, toSend, dirs, target, job, budget>>

Creating == 1
Created == 2
Failed == 3

Phases == {"idle", "fetch", "unpack", "place", "record", "succeeded", "failed"}

Jobs == [phase : Phases, fetch : SUBSET Package, files : SUBSET {FileOf[p] : p \in Package},
         infos : SUBSET Package, latest : [App -> Package \cup {None}],
         timedOut : BOOLEAN]

Nothing == [a \in App |-> None]
IdleJob == [phase |-> "idle", fetch |-> {}, files |-> {}, infos |-> {},
            latest |-> Nothing, timedOut |-> FALSE]

Urls == {u \in [App -> Package] : \A a \in App : AppOf[u[a]] = a}

TypeOK ==
  /\ status \in {0, Creating, Created, Failed}
  /\ url \in Urls
  /\ toSend \in BOOLEAN
  /\ zips \subseteq Package
  /\ \A p, q \in zips : FileOf[p] = FileOf[q] => p = q
  /\ archive \subseteq Package /\ placed \subseteq Package /\ taken \subseteq Package
  /\ {target, index} \subseteq [App -> {VersionOf[p] : p \in Package} \cup {None}]
  /\ job \in [Download -> Jobs]
  /\ budget \in [Events -> Nat]

Init ==
  /\ status = 0
  /\ url \in Urls
  /\ toSend = FALSE
  /\ zips = {} /\ archive = {} /\ placed = {} /\ taken = {}
  /\ target = Nothing /\ index = Nothing
  /\ job = [d \in Download |-> IdleJob]
  /\ budget = Budget

-----------------------------------------------------------------------------
(* Operators *)

Active == {d \in Download : job[d].phase # "idle"}

(* Another event may happen. *)
Spend(kind) ==
  /\ budget[kind] > 0
  /\ FoldSet(LAMBDA k, n : n + Budget[k] - budget[k], 0, Events) < MaxEvents
  /\ budget' = [budget EXCEPT ![kind] = @ - 1]

(* A message with the packages to fetch, for an execution with a new id. *)
Send(packages) ==
  /\ Active # Download
  /\ LET d == CHOOSE e \in Download : e \notin Active IN
       job' = [job EXCEPT ![d] = [IdleJob EXCEPT !.phase = "fetch", !.fetch = packages]]

(* The download has ended, and its callback comes next. *)
End(d, phase) == job' = [job EXCEPT ![d] = [IdleJob EXCEPT !.phase = phase]]

SamePlace(p, q) == AppOf[q] = AppOf[p] /\ VersionOf[q] = VersionOf[p]

(* Slip: the move replaces what is there. *)
MoveReplaces(p) == FALSE

(* Two packages of one version go to the same place, and the move of a file to
   a place that has one of its name raises. *)
Occupied(p) == \E q \in placed \cup taken : SamePlace(p, q)

(* What a list of packages, the later ones last, says of each application. *)
VersionsOf(latest) ==
  [a \in App |-> IF latest[a] = None THEN None ELSE VersionOf[latest[a]]]

-----------------------------------------------------------------------------
(* Requests *)

(* PublishPlanHandler.post writes the plan in a transaction of its own ... *)
PostCommit ==
  /\ status = 0
  /\ status' = Creating
  /\ toSend' = TRUE
  /\ UNCHANGED <<url, dirs, target, job, budget>>

(* ... and then sends the download; the broker may refuse it. *)
PostSend ==
  /\ toSend
  /\ toSend' = FALSE
  /\ \/ Send({url[a] : a \in App}) /\ UNCHANGED budget
     \/ Spend("broker") /\ UNCHANGED job
  /\ UNCHANGED <<status, url, dirs, target>>

(* Slip: the status is not looked at. *)
RetryPostAnyStatus ==
  /\ ~toSend
  /\ status # 0
  /\ status' = Creating
  /\ Send({url[a] : a \in App})
  /\ UNCHANGED <<url, toSend, dirs, target, budget>>

(* PlanRetryHandler.post: the plan's row is locked from the flush to the
   commit, and the download is sent in between. *)
RetryPost ==
  /\ ~toSend
  /\ status = Failed
  /\ status' = Creating
  /\ Send({url[a] : a \in App})
  /\ UNCHANGED <<url, toSend, dirs, target, budget>>

(* PlanRetryHandler.put: addresses for some applications, whatever the plan's
   status; only these applications are fetched. *)
RetryPut ==
  /\ ~toSend
  /\ Spend("change")
  /\ status # 0
  /\ status' = Creating
  /\ \E u \in Urls, listed \in SUBSET App :
       /\ listed # {}
       /\ \A a \in App : u[a] # url[a] => a \in listed
       /\ url' = u
       /\ Send({u[a] : a \in listed})
  /\ UNCHANGED <<toSend, dirs, target>>

-----------------------------------------------------------------------------
(* The download *)

(* One package after the other is saved under its file's name. *)
Fetch(d) ==
  /\ job[d].phase = "fetch"
  /\ \E p \in job[d].fetch :
       IF KindOf[p] = "missing"
       THEN End(d, "failed") /\ UNCHANGED zips
       ELSE /\ zips' = {q \in zips : FileOf[q] # FileOf[p]} \cup {p}
            /\ job' = [job EXCEPT ![d].fetch = @ \ {p}]
  /\ UNCHANGED <<status, url, toSend, archive, placed, rivals, target, budget>>

(* The archive directory is made anew and the zip directory listed. *)
Clear(d) ==
  /\ job[d].phase = "fetch" /\ job[d].fetch = {}
  /\ archive' = {}
  /\ job' = [job EXCEPT ![d].phase = "unpack",
                        ![d].files = {FileOf[p] : p \in zips}]
  /\ UNCHANGED <<status, url, toSend, zips, placed, rivals, target, budget>>

(* Every file of the zip directory is unpacked, old ones too. *)
Unpack(d) ==
  /\ job[d].phase = "unpack"
  /\ \E f \in job[d].files, p \in zips :
       /\ FileOf[p] = f
       /\ IF KindOf[p] = "notzip"
          THEN End(d, "failed") /\ UNCHANGED archive
          ELSE /\ archive' = archive \cup {p}
               /\ job' = [job EXCEPT ![d].files = @ \ {f}]
  /\ UNCHANGED <<status, url, toSend, zips, placed, rivals, target, budget>>

ListInfos(d) ==
  /\ job[d].phase = "unpack" /\ job[d].files = {}
  /\ job' = [job EXCEPT ![d].phase = "place", ![d].infos = archive]
  /\ UNCHANGED <<status, url, toSend, dirs, target, budget>>

(* Slip: a move to an occupied place is tried for ever. *)
PlaceTriesForEver(d) ==
  /\ job[d].phase = "place"
  /\ \E p \in job[d].infos :
       IF KindOf[p] = "badinfo" \/ p \notin archive
       THEN End(d, "failed") /\ UNCHANGED <<archive, placed>>
       ELSE /\ ~Occupied(p)
            /\ archive' = archive \ {p}
            /\ placed' = placed \cup {p}
            /\ job' = [job EXCEPT ![d] =
                         [job[d] EXCEPT !.infos = @ \ {p}, !.latest[AppOf[p]] = p]]
  /\ UNCHANGED <<status, url, toSend, zips, rivals, target, budget>>

(* In the directory's order, which is any, each package is moved to its place
   and remembered; of two of one application the later one is. *)
Place(d) ==
  /\ job[d].phase = "place"
  /\ \E p \in job[d].infos :
       IF KindOf[p] = "badinfo" \/ p \notin archive \/ Occupied(p)
       THEN End(d, "failed") /\ UNCHANGED <<archive, placed>>
       ELSE /\ archive' = archive \ {p}
            /\ placed' = placed \cup {p}
            /\ job' = [job EXCEPT ![d] =
                         [job[d] EXCEPT !.infos = @ \ {p}, !.latest[AppOf[p]] = p]]
  /\ UNCHANGED <<status, url, toSend, zips, rivals, target, budget>>

(* The index is written over. *)
WriteIndex(d) ==
  /\ job[d].phase = "place" /\ job[d].infos = {}
  /\ index' = VersionsOf(job[d].latest)
  /\ job' = [job EXCEPT ![d].phase = "record"]
  /\ UNCHANGED <<status, url, toSend, zips, archive, placed, taken, target, budget>>

(* The versions are recorded in one transaction. *)
Record(d) ==
  /\ job[d].phase = "record"
  /\ target' = [a \in App |-> IF job[d].latest[a] = None THEN target[a]
                              ELSE VersionsOf(job[d].latest)[a]]
  /\ End(d, "succeeded")
  /\ UNCHANGED <<status, url, toSend, dirs, budget>>

(* Slip: on_failure leaves the plan's status alone. *)
CallbackOfSuccess(d) ==
  /\ job[d].phase \in {"succeeded", "failed"}
  /\ status' = IF job[d].phase = "succeeded" THEN Created ELSE status
  /\ job' = [job EXCEPT ![d] = IdleJob]
  /\ UNCHANGED <<url, toSend, dirs, target, budget>>

(* CreatePlanTask.on_success, on_failure *)
Callback(d) ==
  /\ job[d].phase \in {"succeeded", "failed"}
  /\ status' = IF job[d].phase = "succeeded" THEN Created ELSE Failed
  /\ job' = [job EXCEPT ![d] = IdleJob]
  /\ UNCHANGED <<url, toSend, dirs, target, budget>>

(* The soft time limit ends the task with an exception. *)
TimeLimit(d) ==
  /\ job[d].phase \in {"fetch", "unpack", "place", "record"}
  /\ Spend("time")
  /\ job' = [job EXCEPT ![d] = [IdleJob EXCEPT !.phase = "failed", !.timedOut = TRUE]]
  /\ UNCHANGED <<status, url, toSend, dirs, target>>

(* The worker dies; the message has been acknowledged. *)
Crash(d) ==
  /\ d \in Active
  /\ Spend("crash")
  /\ job' = [job EXCEPT ![d] = IdleJob]
  /\ UNCHANGED <<status, url, toSend, dirs, target>>

(* The rival's download, of the same code, moves a package or writes the
   index.  A package moved over another would replace it. *)
RivalPlace(p) ==
  /\ Spend("rival")
  /\ KindOf[p] = "good" /\ ~Occupied(p)
  /\ taken' = taken \cup {p}
  /\ placed' = {q \in placed : ~SamePlace(p, q)}
  /\ UNCHANGED <<status, url, toSend, zips, archive, index, target, job>>

RivalIndex ==
  /\ Spend("rival")
  /\ \E latest \in [App -> taken \cup {None}] :
       /\ \A a \in App : latest[a] # None => AppOf[latest[a]] = a
       /\ \A p \in taken : latest[AppOf[p]] # None
       /\ index' = VersionsOf(latest)
  /\ UNCHANGED <<status, url, toSend, zips, archive, placed, taken, target, job>>

Work(d) ==
  \/ Fetch(d) \/ Clear(d) \/ Unpack(d) \/ ListInfos(d) \/ Place(d)
  \/ WriteIndex(d) \/ Record(d) \/ Callback(d)

Next ==
  \/ PostCommit \/ PostSend \/ RetryPost \/ RetryPut
  \/ \E d \in Download : Work(d) \/ TimeLimit(d) \/ Crash(d)
  \/ (\E p \in Package : RivalPlace(p)) \/ RivalIndex

Spec == Init /\ [][Next]_vars

(* Celery's workers take what is queued, and a started task goes on; the web
   process finishes the request it has begun. *)
FairSpec == Spec /\ WF_vars(PostSend) /\ \A d \in Download : WF_vars(Work(d))

-----------------------------------------------------------------------------
(* Properties *)

Spared(kinds) == \A k \in kinds : budget[k] = Budget[k]

(* Two downloads of a plan would work in the same directories: as long as the
   addresses are left alone, a repeated request never starts a second one
   beside the first. *)
OneDownload == Spared({"change"}) => \A d, e \in Active : d = e

(* A plan is shown as created only when every application's package is in the
   directory of its version, this version is the recorded one and the index has
   it, however many downloads it took, wherever the earlier ones were cut off
   and whatever a rival does, who can write the index only; as long as the
   addresses are left alone, for a change fetches some packages only. *)
CreatedIsComplete ==
  status = Created /\ Spared({"change"}) =>
    \A a \in App :
      /\ url[a] \in placed
      /\ target[a] = VersionOf[url[a]]
      /\ Spared({"rival"}) => index[a] = target[a]

(* "1: being created": while the plan says so, a download is under way or
   about to be sent, also when addresses are changed beside a download; unless
   a message was refused or a worker killed. *)
CreatingIsWorking ==
  status = Creating /\ Spared({"broker", "crash"}) => toSend \/ Active # {}

(* A creation that has begun ends, with one outcome or the other, unless a
   message is refused or a worker killed. *)
CreationEnds ==
  status = Creating ~> status \in {Created, Failed} \/ ~Spared({"broker", "crash"})

-----------------------------------------------------------------------------
(* What the repository's docstrings and comments say of the code and the code
   does not do: TLC refutes each of these. *)

(* "Change the address of an application's package": a version recorded in a
   created plan is the one the application's address names. *)
RecordedIsCurrent ==
  status = Created =>
    \A a \in App : target[a] # None => target[a] = VersionOf[url[a]]

(* "2: created": nothing is downloaded any more. *)
CreatedIsDone == status = Created => Active = {}

(* "From the info files, generate the index": the index of a created plan has
   the versions recorded for it. *)
IndexIsOwn ==
  status = Created /\ Spared({"change"}) => index = target

(* "When the creation has failed, repeat the download and the unpacking": a
   download whose addresses are all good and that has the time it needs does
   not fail. *)
GoodPackagesAreCreated ==
  \A d \in Download :
    job[d].phase = "failed" => job[d].timedOut \/ \E a \in App : KindOf[url[a]] # "good"

=============================================================================
