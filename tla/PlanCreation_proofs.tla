------------------------ MODULE PlanCreation_proofs -------------------------
(***************************************************************************)
(* Proofs about PlanCreation, for any applications, packages, downloads and *)
(* numbers of faults.                                                      *)
(***************************************************************************)
EXTENDS PlanCreation, TLAPS

-----------------------------------------------------------------------------
(* Lemmas about the operators the model is built from. *)

(* An event is paid for from the budget of its kind. *)
LEMMA Spending ==
  ASSUME TypeOK, NEW kind \in Events, Spend(kind)
  PROVE  /\ budget' \in [Events -> Nat]
         /\ budget'[kind] # budget[kind] /\ budget'[kind] < budget[kind]
         /\ \A k \in Events \ {kind} : budget'[k] = budget[k]
<1>1. budget \in [Events -> Nat] /\ budget[kind] > 0
  BY DEF Spend, TypeOK
<1>2. budget' = [budget EXCEPT ![kind] = @ - 1]
  BY DEF Spend
<1> QED
  BY <1>1, <1>2

(* A message finds an idle execution, and nothing else changes. *)
LEMMA Sending ==
  ASSUME TypeOK, NEW S \in SUBSET Package, Send(S)
  PROVE  \E d \in Download :
           /\ d \notin Active
           /\ job' = [job EXCEPT ![d] = [IdleJob EXCEPT !.phase = "fetch", !.fetch = S]]
           /\ job' \in [Download -> Jobs]
           /\ Active' = Active \cup {d}
<1> DEFINE d == CHOOSE e \in Download : e \notin Active
<1>1. \E e \in Download : e \notin Active
  BY DEF Send, Active
<1>2. d \in Download /\ d \notin Active
  BY <1>1
<1>3. job' = [job EXCEPT ![d] = [IdleJob EXCEPT !.phase = "fetch", !.fetch = S]]
  BY DEF Send
<1> HIDE DEF d
<1>4. [IdleJob EXCEPT !.phase = "fetch", !.fetch = S] \in Jobs
  BY DEF IdleJob, Jobs, Phases, Nothing
<1>5. job' \in [Download -> Jobs]
  BY <1>2, <1>3, <1>4 DEF TypeOK
<1>6. Active' = Active \cup {d}
  BY <1>2, <1>3 DEF TypeOK, Active, IdleJob
<1> QED
  BY <1>2, <1>3, <1>5, <1>6

(* An execution that moves on is still under way, and the others stay. *)
LEMMA Working ==
  ASSUME TypeOK, NEW d \in Download, NEW j \in Jobs,
         job' = [job EXCEPT ![d] = j]
  PROVE  /\ job' \in [Download -> Jobs]
         /\ job'[d] = j /\ \A e \in Download \ {d} : job'[e] = job[e]
         /\ j.phase # "idle" => Active' = Active \cup {d}
         /\ j.phase = "idle" => Active' = Active \ {d}
  BY DEF TypeOK, Active

(* The callback that comes next knows nothing of the download. *)
LEMMA EndJob ==
  ASSUME NEW p \in Phases, NEW b \in BOOLEAN
  PROVE  /\ [IdleJob EXCEPT !.phase = p] \in Jobs
         /\ [IdleJob EXCEPT !.phase = p, !.timedOut = b] \in Jobs
         /\ [IdleJob EXCEPT !.phase = p].phase = p
         /\ [IdleJob EXCEPT !.phase = p, !.timedOut = b].phase = p
  BY DEF IdleJob, Jobs, Nothing, Phases

LEMMA IdleJobType == IdleJob \in Jobs /\ IdleJob.phase = "idle"
  BY DEF IdleJob, Jobs, Nothing, Phases

LEMMA EndType ==
  ASSUME TypeOK, NEW d \in Download, NEW p \in Phases \ {"idle"}, End(d, p)
  PROVE  /\ job' \in [Download -> Jobs]
         /\ job'[d].phase = p /\ \A e \in Download \ {d} : job'[e] = job[e]
         /\ Active' = Active \cup {d}
<1>1. [IdleJob EXCEPT !.phase = p] \in Jobs /\ [IdleJob EXCEPT !.phase = p].phase = p
  BY EndJob
<1>2. job' = [job EXCEPT ![d] = [IdleJob EXCEPT !.phase = p]]
  BY DEF End
<1> QED
  BY <1>1, <1>2, Working

-----------------------------------------------------------------------------
(* Types *)

LEMMA InitType == Init => TypeOK
<1> SUFFICES ASSUME Init
             PROVE  TypeOK
  OBVIOUS
<1>1. IdleJob \in Jobs
  BY IdleJobType
<1> QED
  BY <1>1, BudgetAssumption DEF Init, TypeOK, Nothing

(* What the requests send are packages. *)
LEMMA UrlsType ==
  ASSUME NEW u \in Urls, NEW S \in SUBSET App
  PROVE  {u[a] : a \in S} \in SUBSET Package
  BY DEF Urls

LEMMA RequestType ==
  ASSUME TypeOK, PostCommit \/ PostSend \/ RetryPost \/ RetryPut
  PROVE  TypeOK'
<1> USE DEF TypeOK, dirs, rivals
<1>1. CASE PostCommit
  BY <1>1 DEF PostCommit
<1>2. CASE PostSend
  <2>1. job' \in [Download -> Jobs] /\ budget' \in [Events -> Nat]
    BY <1>2, Sending, Spending, UrlsType DEF PostSend, Events
  <2> QED
    BY <1>2, <2>1 DEF PostSend
<1>3. CASE RetryPost
  <2>1. job' \in [Download -> Jobs]
    BY <1>3, Sending, UrlsType DEF RetryPost
  <2> QED
    BY <1>3, <2>1 DEF RetryPost
<1>4. CASE RetryPut
  <2>1. PICK u \in Urls, S \in SUBSET App : url' = u /\ Send({u[a] : a \in S})
    BY <1>4 DEF RetryPut
  <2>2. job' \in [Download -> Jobs] /\ budget' \in [Events -> Nat]
    BY <1>4, <2>1, Sending, Spending, UrlsType DEF RetryPut, Events
  <2> QED
    BY <1>4, <2>1, <2>2 DEF RetryPut
<1> QED
  BY <1>1, <1>2, <1>3, <1>4

LEMMA WorkType ==
  ASSUME TypeOK, NEW d \in Download, Work(d)
  PROVE  TypeOK'
<1> USE DEF dirs, rivals
<1>1. job[d] \in Jobs
  BY DEF TypeOK
<1>2. CASE Fetch(d)
  <2>1. PICK p \in job[d].fetch :
          \/ End(d, "failed") /\ UNCHANGED zips
          \/ /\ zips' = {q \in zips : FileOf[q] # FileOf[p]} \cup {p}
             /\ job' = [job EXCEPT ![d].fetch = @ \ {p}]
    BY <1>2 DEF Fetch
  <2>2. p \in Package /\ [job[d] EXCEPT !.fetch = @ \ {p}] \in Jobs
    BY <1>1 DEF Jobs
  <2>3. job' \in [Download -> Jobs]
    BY <2>1, <2>2, EndType, Working DEF Phases
  <2>4. zips' \subseteq Package /\ \A p_1, q \in zips' : FileOf[p_1] = FileOf[q] => p_1 = q
    BY <2>1, <2>2 DEF TypeOK
  <2> QED
    BY <1>2, <2>3, <2>4 DEF TypeOK, Fetch
<1>3. CASE Clear(d)
  <2>1. job' = [job EXCEPT ![d] = [@ EXCEPT !.phase = "unpack",
                                           !.files = {FileOf[p] : p \in zips}]]
    BY <1>3 DEF Clear
  <2>2. {FileOf[p] : p \in zips} \subseteq {FileOf[p] : p \in Package}
    BY DEF TypeOK
  <2>3. [job[d] EXCEPT !.phase = "unpack", !.files = {FileOf[p] : p \in zips}] \in Jobs
    BY <1>1, <2>2 DEF Jobs, Phases
  <2>4. job' \in [Download -> Jobs]
    BY <2>1, <2>3, Working
  <2> QED
    BY <1>3, <2>4 DEF TypeOK, Clear
<1>4. CASE Unpack(d)
  <2>1. PICK f \in job[d].files, p \in zips :
          \/ End(d, "failed") /\ UNCHANGED archive
          \/ /\ archive' = archive \cup {p}
             /\ job' = [job EXCEPT ![d].files = @ \ {f}]
    BY <1>4 DEF Unpack
  <2>2. [job[d] EXCEPT !.files = @ \ {f}] \in Jobs
    BY <1>1 DEF Jobs
  <2>3. job' \in [Download -> Jobs]
    BY <2>1, <2>2, EndType, Working DEF Phases
  <2> QED
    BY <1>4, <2>1, <2>3 DEF TypeOK, Unpack
<1>5. CASE ListInfos(d)
  <2>1. [job[d] EXCEPT !.phase = "place", !.infos = archive] \in Jobs
    BY <1>1 DEF Jobs, Phases, TypeOK
  <2>2. job' = [job EXCEPT ![d] = [@ EXCEPT !.phase = "place", !.infos = archive]]
    BY <1>5 DEF ListInfos
  <2>3. job' \in [Download -> Jobs]
    BY <2>1, <2>2, Working
  <2> QED
    BY <1>5, <2>3 DEF TypeOK, ListInfos
<1>6. CASE Place(d)
  <2>1. PICK p \in job[d].infos :
          \/ End(d, "failed") /\ UNCHANGED <<archive, placed>>
          \/ /\ archive' = archive \ {p} /\ placed' = placed \cup {p}
             /\ job' = [job EXCEPT ![d] =
                          [job[d] EXCEPT !.infos = @ \ {p}, !.latest[AppOf[p]] = p]]
    BY <1>6 DEF Place
  <2>2. p \in Package
    BY <1>1 DEF Jobs
  <2>3. [job[d] EXCEPT !.infos = @ \ {p}, !.latest[AppOf[p]] = p] \in Jobs
    BY <1>1, <2>2, PackagesAssumption DEF Jobs
  <2>4. PICK j \in Jobs : j = [job[d] EXCEPT !.infos = @ \ {p}, !.latest[AppOf[p]] = p]
    BY <2>3
  <2>5. End(d, "failed") \/ job' = [job EXCEPT ![d] = j]
    BY <2>1, <2>4
  <2>6. job' \in [Download -> Jobs]
    BY <2>5, EndType, Working DEF Phases
  <2> QED
    BY <1>6, <2>1, <2>2, <2>6 DEF TypeOK, Place
<1>7. \A latest \in [App -> Package \cup {None}] :
        VersionsOf(latest) \in [App -> {VersionOf[p] : p \in Package} \cup {None}]
  BY DEF VersionsOf
<1>8. CASE WriteIndex(d)
  <2>1. [job[d] EXCEPT !.phase = "record"] \in Jobs
    BY <1>1 DEF Jobs, Phases
  <2>2. job' = [job EXCEPT ![d] = [@ EXCEPT !.phase = "record"]]
    BY <1>8 DEF WriteIndex
  <2>3. job' \in [Download -> Jobs]
    BY <2>1, <2>2, Working
  <2>4. index' \in [App -> {VersionOf[p] : p \in Package} \cup {None}]
    BY <1>1, <1>7, <1>8 DEF WriteIndex, Jobs
  <2> QED
    BY <1>8, <2>3, <2>4 DEF TypeOK, WriteIndex
<1>9. CASE Record(d)
  <2>1. job' \in [Download -> Jobs]
    BY <1>9, EndType DEF Record, Phases
  <2>2. target' \in [App -> {VersionOf[p] : p \in Package} \cup {None}]
    <3>1. VersionsOf(job[d].latest) \in [App -> {VersionOf[p] : p \in Package} \cup {None}]
      BY <1>1, <1>7 DEF Jobs
    <3> QED
      BY <1>9, <3>1 DEF TypeOK, Record
  <2> QED
    BY <1>9, <2>1, <2>2 DEF TypeOK, Record
<1>10. CASE Callback(d)
  BY <1>10, IdleJobType, Working DEF TypeOK, Callback
<1> QED
  BY <1>2, <1>3, <1>4, <1>5, <1>6, <1>8, <1>9, <1>10 DEF Work

LEMMA EventType ==
  ASSUME TypeOK,
         \/ \E d \in Download : TimeLimit(d) \/ Crash(d)
         \/ \E p \in Package : RivalPlace(p)
         \/ RivalIndex
  PROVE  TypeOK'
<1> USE DEF dirs, rivals
<1>1. budget' \in [Events -> Nat]
  BY Spending DEF TimeLimit, Crash, RivalPlace, RivalIndex, Events
<1>2. ASSUME NEW d \in Download, TimeLimit(d) \/ Crash(d)
      PROVE  TypeOK'
  <2>1. job' \in [Download -> Jobs]
    <3>1. CASE TimeLimit(d)
      <4>1. [IdleJob EXCEPT !.phase = "failed", !.timedOut = TRUE] \in Jobs
        BY EndJob DEF Phases
      <4> QED
        BY <3>1, <4>1, Working DEF TimeLimit
    <3>2. CASE Crash(d)
      BY <3>2, IdleJobType, Working DEF Crash
    <3> QED
      BY <1>2, <3>1, <3>2
  <2> QED
    BY <1>1, <1>2, <2>1 DEF TypeOK, TimeLimit, Crash
<1>3. ASSUME NEW p \in Package, RivalPlace(p)
      PROVE  TypeOK'
  BY <1>1, <1>3 DEF TypeOK, RivalPlace
<1>4. CASE RivalIndex
  <2>1. PICK latest \in [App -> taken \cup {None}] : index' = VersionsOf(latest)
    BY <1>4 DEF RivalIndex
  <2>2. index' \in [App -> {VersionOf[p] : p \in Package} \cup {None}]
    BY <2>1 DEF VersionsOf, TypeOK
  <2> QED
    BY <1>1, <1>4, <2>2 DEF TypeOK, RivalIndex
<1> QED
  BY <1>2, <1>3, <1>4

(* The variables hold what they are meant to in every reachable state; in
   particular the zip directory has one file of a name. *)
THEOREM TypeCorrect == Spec => []TypeOK
<1>1. TypeOK /\ [Next]_vars => TypeOK'
  <2>1. TypeOK /\ UNCHANGED vars => TypeOK'
    BY DEF vars, dirs, rivals, TypeOK
  <2> QED
    BY <2>1, RequestType, WorkType, EventType DEF Next
<1> QED
  BY <1>1, InitType, PTL DEF Spec

-----------------------------------------------------------------------------
(* One download at a time, and one while the plan is in creation. *)

(* Whatever was spared is spared until its event happens. *)
LEMMA SparedBefore ==
  ASSUME TypeOK, [Next]_vars, NEW k \in Events, budget'[k] = Budget[k],
         budget[k] <= Budget[k]
  PROVE  budget[k] = Budget[k]
<1>1. UNCHANGED budget \/ \E kind \in Events : Spend(kind)
  BY DEF Next, PostCommit, PostSend, RetryPost, RetryPut, Work, Fetch, Clear, Unpack,
     ListInfos, Place, WriteIndex, Record, Callback, TimeLimit, Crash, RivalPlace,
     RivalIndex, vars, Events
<1>2. budget'[k] <= budget[k]
  BY <1>1, Spending DEF TypeOK
<1>3. budget[k] \in Nat /\ Budget[k] \in Nat
  BY BudgetAssumption DEF TypeOK
<1> QED
  BY <1>2, <1>3

(* Downloads work, or come to their callback, and stay in their place; only
   a callback or a crash ends one. *)
LEMMA WorkKeeps ==
  ASSUME TypeOK, NEW d \in Download,
         \/ Fetch(d) \/ Clear(d) \/ Unpack(d) \/ ListInfos(d) \/ Place(d)
         \/ WriteIndex(d) \/ Record(d) \/ TimeLimit(d)
  PROVE  d \in Active /\ Active' = Active /\ UNCHANGED <<status, url, toSend>>
<1>1. d \in Active /\ UNCHANGED <<status, url, toSend>>
  BY DEF Fetch, Clear, Unpack, ListInfos, Place, WriteIndex, Record, TimeLimit, Active
<1>2. job[d] \in Jobs /\ job \in [Download -> Jobs]
  BY DEF TypeOK
<1>3. \A e \in Download \ {d} : job'[e] = job[e]
  BY <1>2 DEF Fetch, Clear, Unpack, ListInfos, Place, WriteIndex, Record, TimeLimit, End
<1>4. job'[d].phase # "idle"
  <2>1. CASE End(d, "failed") \/ End(d, "succeeded")
    BY <2>1, EndType DEF Phases
  <2>2. CASE ~End(d, "failed") /\ ~End(d, "succeeded")
    <3>1. CASE Fetch(d)
      <4>1. PICK p : job' = [job EXCEPT ![d].fetch = @ \ {p}]
        BY <2>2, <3>1 DEF Fetch
      <4> QED
        BY <1>2, <3>1, <4>1 DEF Fetch, Jobs
    <3>2. CASE Clear(d)
      BY <1>2, <3>2 DEF Clear, Jobs
    <3>3. CASE ListInfos(d) \/ WriteIndex(d)
      BY <1>2, <3>3 DEF ListInfos, WriteIndex, Jobs
    <3>4. CASE TimeLimit(d)
      BY <1>2, <3>4 DEF TimeLimit, IdleJob
    <3>5. CASE Unpack(d)
      BY <1>2, <2>2, <3>5 DEF Unpack, Jobs
    <3>6. CASE Place(d)
      BY <1>2, <2>2, <3>6, ZenonT(60) DEF Place, Jobs
    <3> QED
      BY <2>2, <3>1, <3>2, <3>3, <3>4, <3>5, <3>6 DEF Record
  <2> QED
    BY <2>1, <2>2
<1> QED
  BY <1>1, <1>3, <1>4 DEF Active

(* The inductive invariant behind OneDownload and CreatingIsWorking. *)
Single ==
  /\ \A k \in Events : budget[k] <= Budget[k]
  /\ CreatingIsWorking
  /\ Spared({"change"}) =>
       /\ OneDownload
       /\ Active # {} => status = Creating /\ ~toSend
       /\ toSend => status = Creating

SingleInv == TypeOK /\ Single

LEMMA SingleNext ==
  ASSUME SingleInv, [Next]_vars
  PROVE  SingleInv'
<1> USE DEF SingleInv
<1>1. TypeOK'
  <2>1. CASE UNCHANGED vars
    BY <2>1 DEF vars, dirs, rivals, TypeOK
  <2> QED
    BY <2>1, RequestType, WorkType, EventType DEF Next
<1>2. \A k \in Events : budget'[k] <= Budget[k]
  <2>1. UNCHANGED budget \/ \E kind \in Events : Spend(kind)
    BY DEF Next, PostCommit, PostSend, RetryPost, RetryPut, Work, Fetch, Clear, Unpack,
       ListInfos, Place, WriteIndex, Record, Callback, TimeLimit, Crash, RivalPlace,
       RivalIndex, vars, Events
  <2>2. \A k \in Events : budget[k] \in Nat /\ budget'[k] \in Nat /\ Budget[k] \in Nat
    BY <1>1, BudgetAssumption DEF TypeOK
  <2> QED
    BY <2>1, <2>2, Spending DEF Single
<1>3. \A k \in Events : budget'[k] = Budget[k] => budget[k] = Budget[k]
  BY SparedBefore DEF Single
<1>4. Spared({"change"})' => Spared({"change"})
  BY <1>3 DEF Spared, Events
<1>5. Spared({"broker", "crash"})' => Spared({"broker", "crash"})
  BY <1>3 DEF Spared, Events
<1> DEFINE One == /\ \A d, e \in Active : d = e
                  /\ Active # {} => status = Creating /\ ~toSend
                  /\ toSend => status = Creating
<1>6. Spared({"change"}) => One
  BY DEF Single, OneDownload
<1> SUFFICES CreatingIsWorking' /\ (Spared({"change"})' => One')
  BY <1>1, <1>2 DEF Single, OneDownload
<1> USE DEF Creating, Created, Failed
<1>7. CASE PostCommit
  <2>1. Active' = Active /\ toSend' /\ status' = Creating /\ status = 0
    BY <1>7 DEF PostCommit, Active
  <2> QED
    BY <1>4, <1>6, <2>1 DEF CreatingIsWorking
<1>8. CASE PostSend
  <2>1. toSend /\ ~toSend' /\ UNCHANGED status
    BY <1>8 DEF PostSend
  <2>2. CASE Send({url[a] : a \in App})
    <3>1. PICK d \in Download : Active' = Active \cup {d}
      BY <2>2, Sending, UrlsType DEF TypeOK
    <3> QED
      BY <1>4, <1>6, <2>1, <3>1 DEF CreatingIsWorking
  <2>3. CASE Spend("broker") /\ UNCHANGED job
    <3>1. ~Spared({"broker", "crash"})'
      BY <1>1, <1>3, <2>3, Spending DEF Spared, Events
    <3>2. Active' = Active
      BY <2>3 DEF Active
    <3> QED
      BY <1>4, <1>6, <2>1, <3>1, <3>2 DEF CreatingIsWorking
  <2> QED
    BY <1>8, <2>2, <2>3 DEF PostSend
<1>9. CASE RetryPost
  <2>1. ~toSend /\ ~toSend' /\ status = Failed /\ status' = Creating
    BY <1>9 DEF RetryPost
  <2>2. PICK d \in Download : Active' = Active \cup {d}
    BY <1>9, Sending, UrlsType DEF TypeOK, RetryPost
  <2> QED
    BY <1>4, <1>6, <2>1, <2>2 DEF CreatingIsWorking
<1>10. CASE RetryPut
  <2>1. ~Spared({"change"})'
    BY <1>1, <1>3, <1>10, Spending DEF RetryPut, Spared, Events
  <2>2. PICK d \in Download : Active' = Active \cup {d}
    <3>1. PICK u \in Urls, S \in SUBSET App : Send({u[a] : a \in S})
      BY <1>10 DEF RetryPut
    <3> QED
      BY <3>1, Sending, UrlsType
  <2> QED
    BY <2>1, <2>2 DEF CreatingIsWorking
<1>11. ASSUME NEW d \in Download, Work(d) \/ TimeLimit(d), ~Callback(d)
       PROVE  CreatingIsWorking' /\ (Spared({"change"})' => One')
  <2>1. Active' = Active /\ UNCHANGED <<status, toSend>>
    BY <1>11, WorkKeeps DEF Work
  <2> QED
    BY <1>4, <1>5, <1>6, <2>1 DEF Single, CreatingIsWorking
<1>12. ASSUME NEW d \in Download, Callback(d)
       PROVE  CreatingIsWorking' /\ (Spared({"change"})' => One')
  <2>1. status' # Creating /\ UNCHANGED toSend /\ d \in Active
    BY <1>12 DEF Callback, Active
  <2>2. Active' = Active \ {d}
    BY <1>12, IdleJobType, Working DEF Callback
  <2> QED
    BY <1>4, <1>6, <2>1, <2>2 DEF CreatingIsWorking
<1>13. ASSUME NEW d \in Download, Crash(d)
       PROVE  CreatingIsWorking' /\ (Spared({"change"})' => One')
  <2>1. ~Spared({"broker", "crash"})'
    BY <1>1, <1>3, <1>13, Spending DEF Crash, Spared, Events
  <2>2. Active' = Active \ {d} /\ UNCHANGED <<status, toSend>>
    BY <1>13, IdleJobType, Working DEF Crash
  <2> QED
    BY <1>4, <1>6, <2>1, <2>2 DEF CreatingIsWorking
<1>14. CASE (\E p \in Package : RivalPlace(p)) \/ RivalIndex \/ UNCHANGED vars
  <2>1. Active' = Active /\ UNCHANGED <<status, toSend>>
    BY <1>14 DEF RivalPlace, RivalIndex, vars, Active
  <2> QED
    BY <1>4, <1>5, <1>6, <2>1 DEF Single, CreatingIsWorking
<1> QED
  BY <1>7, <1>8, <1>9, <1>10, <1>11, <1>12, <1>13, <1>14 DEF Next

LEMMA SingleInit == Init => SingleInv
<1> SUFFICES ASSUME Init
             PROVE  SingleInv
  OBVIOUS
<1>1. Active = {}
  BY IdleJobType DEF Init, Active
<1>2. \A k \in Events : budget[k] <= Budget[k]
  BY BudgetAssumption DEF Init
<1> QED
  BY <1>1, <1>2, InitType DEF SingleInv, Single, Init, CreatingIsWorking, OneDownload,
     Creating

THEOREM SingleInvariance == Spec => []SingleInv
  BY SingleInit, SingleNext, PTL DEF Spec

(* Without a change of addresses no second download starts beside the first. *)
THEOREM OneDownloadAtATime == Spec => []OneDownload
<1>1. SingleInv => OneDownload
  BY DEF SingleInv, Single, OneDownload
<1> QED
  BY <1>1, SingleInvariance, PTL

(* A plan shown as being created has a download, unless a message was refused
   or a worker killed. *)
THEOREM CreatingHasDownload == Spec => []CreatingIsWorking
<1>1. SingleInv => CreatingIsWorking
  BY DEF SingleInv, Single
<1> QED
  BY <1>1, SingleInvariance, PTL

-----------------------------------------------------------------------------
(* A created plan is complete. *)

Wanted == {url[a] : a \in App}

Complete ==
  \A a \in App :
    /\ url[a] \in placed
    /\ target[a] = VersionOf[url[a]]
    /\ Spared({"rival"}) => index[a] = target[a]

(* How far a download has come: what is wanted is either done or still to do. *)
Stage(d) ==
  LET j == job[d]
  IN /\ j.phase = "fetch" => j.fetch \subseteq Wanted /\ Wanted \subseteq j.fetch \cup zips
     /\ j.phase = "unpack" =>
          /\ Wanted \subseteq zips /\ archive \subseteq Wanted
          /\ \A p \in Wanted : p \in archive \/ FileOf[p] \in j.files
     /\ j.phase = "place" =>
          /\ j.infos \subseteq Wanted
          /\ \A a \in App : \/ url[a] \in j.infos
                            \/ j.latest[a] = url[a] /\ url[a] \in placed
     /\ j.phase = "record" =>
          \A a \in App : /\ j.latest[a] = url[a] /\ url[a] \in placed
                         /\ Spared({"rival"}) => index[a] = VersionOf[url[a]]
     /\ j.phase = "succeeded" => Complete

Progress ==
  /\ zips \subseteq Wanted
  /\ \A d \in Download : Stage(d)
  /\ status = Created => Complete

CompleteInv == SingleInv /\ (Spared({"change"}) => Progress)

(* The names of the package files tell the applications apart.  Two addresses
   that end in the same name overwrite each other's file, and the plan is
   created without one of the packages. *)
FilesApart ==
  \A p, q \in Package : FileOf[p] = FileOf[q] => AppOf[p] = AppOf[q]

(* What is wanted: a package of each application, one only. *)
LEMMA WantedApart ==
  ASSUME TypeOK
  PROVE  /\ Wanted \subseteq Package
         /\ \A p \in Wanted : AppOf[p] \in App /\ url[AppOf[p]] = p
         /\ \A a \in App : url[a] \in Wanted /\ AppOf[url[a]] = a
<1>1. \A a \in App : url[a] \in Package /\ AppOf[url[a]] = a
  BY DEF TypeOK, Urls
<1> QED
  BY <1>1 DEF Wanted

(* A step of the only download. *)
LEMMA StageStep ==
  ASSUME CompleteInv, Progress, Spared({"change"}), NEW d \in Active,
         \A e \in Download \ {d} : job'[e] = job[e],
         zips' \subseteq Wanted', Stage(d)', status' = Created => Complete'
  PROVE  Progress'
<1>1. \A e \in Download \ {d} : job[e].phase = "idle"
  BY DEF CompleteInv, SingleInv, Single, OneDownload, Active
<1>2. \A e \in Download \ {d} : Stage(e)'
  BY <1>1 DEF Stage
<1> QED
  BY <1>2 DEF Progress

LEMMA FetchStage ==
  ASSUME CompleteInv, Progress, FilesApart, NEW d \in Download,
         Fetch(d) \/ Clear(d)
  PROVE  zips' \subseteq Wanted' /\ Stage(d)'
<1> USE DEF CompleteInv, SingleInv
<1>1. Wanted' = Wanted
  BY DEF Fetch, Clear, Wanted
<1>2. /\ job[d].fetch \subseteq Wanted /\ Wanted \subseteq job[d].fetch \cup zips
      /\ zips \subseteq Wanted /\ job[d] \in Jobs
  BY DEF Fetch, Clear, Progress, Stage, TypeOK
<1>3. CASE End(d, "failed") /\ UNCHANGED zips
  <2>1. job'[d].phase = "failed"
    BY <1>3, EndType DEF Phases
  <2> QED
    BY <1>1, <1>2, <1>3, <2>1 DEF Stage
<1>4. CASE Fetch(d) /\ ~(End(d, "failed") /\ UNCHANGED zips)
  <2>1. PICK p \in job[d].fetch :
          /\ zips' = {q \in zips : FileOf[q] # FileOf[p]} \cup {p}
          /\ job' = [job EXCEPT ![d].fetch = @ \ {p}]
    BY <1>4 DEF Fetch
  <2>2. job'[d].phase = "fetch" /\ job'[d].fetch = job[d].fetch \ {p}
    BY <1>2, <1>4, <2>1 DEF Fetch, TypeOK, Jobs
  <2>3. \A q \in Wanted : FileOf[q] = FileOf[p] => q = p
    BY <1>2, <2>1, WantedApart DEF FilesApart
  <2>4. zips' \subseteq Wanted /\ Wanted \subseteq (job[d].fetch \ {p}) \cup zips'
    BY <1>2, <2>1, <2>3
  <2> QED
    BY <1>1, <1>2, <2>2, <2>4 DEF Stage
<1>5. CASE Clear(d)
  <2>1. /\ job'[d].phase = "unpack" /\ job'[d].files = {FileOf[p] : p \in zips}
        /\ archive' = {} /\ zips' = zips
    BY <1>2, <1>5 DEF Clear, TypeOK, Jobs
  <2>2. Wanted \subseteq zips
    BY <1>2, <1>5 DEF Clear
  <2> QED
    BY <1>1, <1>2, <2>1, <2>2 DEF Stage
<1> QED
  BY <1>3, <1>4, <1>5

LEMMA UnpackStage ==
  ASSUME CompleteInv, Progress, NEW d \in Download,
         Unpack(d) \/ ListInfos(d)
  PROVE  zips' \subseteq Wanted' /\ Stage(d)'
<1> USE DEF CompleteInv, SingleInv
<1>1. Wanted' = Wanted /\ zips' = zips
  BY DEF Unpack, ListInfos, dirs, Wanted
<1>2. /\ Wanted \subseteq zips /\ archive \subseteq Wanted
      /\ \A p \in Wanted : p \in archive \/ FileOf[p] \in job[d].files
      /\ zips \subseteq Wanted /\ job[d] \in Jobs
  BY DEF Unpack, ListInfos, Progress, Stage, TypeOK
<1>3. CASE End(d, "failed")
  <2>1. job'[d].phase = "failed"
    BY <1>3, EndType DEF Phases
  <2> QED
    BY <1>1, <1>2, <1>3, <2>1 DEF Stage
<1>4. CASE Unpack(d) /\ ~End(d, "failed")
  <2>1. PICK f \in job[d].files, p \in zips :
          /\ FileOf[p] = f /\ archive' = archive \cup {p}
          /\ job' = [job EXCEPT ![d].files = @ \ {f}]
    BY <1>4 DEF Unpack
  <2>2. job'[d].phase = "unpack" /\ job'[d].files = job[d].files \ {f}
    BY <1>2, <1>4, <2>1 DEF Unpack, TypeOK, Jobs
  <2>3. \A q \in Wanted : FileOf[q] = f => q = p
    BY <1>2, <2>1 DEF TypeOK
  <2>4. /\ Wanted \subseteq zips' /\ archive' \subseteq Wanted
        /\ \A q \in Wanted : q \in archive' \/ FileOf[q] \in job'[d].files
    BY <1>1, <1>2, <2>1, <2>2, <2>3
  <2> QED
    BY <1>1, <1>2, <2>2, <2>4 DEF Stage
<1>5. CASE ListInfos(d)
  <2>1. job'[d].phase = "place" /\ job'[d].infos = archive
    BY <1>2, <1>5 DEF ListInfos, TypeOK, Jobs
  <2>2. archive = Wanted
    BY <1>2, <1>5 DEF ListInfos
  <2>3. url' = url /\ \A a \in App : url[a] \in archive
    BY <1>5, <2>2, WantedApart DEF ListInfos
  <2> QED
    BY <1>1, <1>2, <2>1, <2>2, <2>3 DEF Stage
<1> QED
  BY <1>3, <1>4, <1>5

LEMMA PlaceStage ==
  ASSUME CompleteInv, Progress, NEW d \in Download,
         Place(d) \/ WriteIndex(d) \/ Record(d)
  PROVE  zips' \subseteq Wanted' /\ Stage(d)'
<1> USE DEF CompleteInv, SingleInv
<1>1. /\ Wanted' = Wanted /\ zips' = zips /\ url' = url
      /\ Spared({"rival"})' <=> Spared({"rival"})
  BY ZenonT(60) DEF Place, WriteIndex, Record, dirs, Wanted, Spared
<1>2. zips \subseteq Wanted /\ job[d] \in Jobs /\ job \in [Download -> Jobs]
  BY DEF Progress, TypeOK
<1>3. CASE End(d, "failed")
  <2>1. job'[d].phase = "failed"
    BY <1>3, EndType DEF Phases
  <2> QED
    BY <1>1, <1>2, <1>3, <2>1 DEF Stage
<1>4. CASE Place(d) /\ ~End(d, "failed")
  <2>1. PICK p \in job[d].infos :
          /\ placed' = placed \cup {p}
          /\ job' = [job EXCEPT ![d] =
                       [job[d] EXCEPT !.infos = @ \ {p}, !.latest[AppOf[p]] = p]]
    BY <1>4 DEF Place
  <2>2. /\ job'[d].phase = "place" /\ job'[d].infos = job[d].infos \ {p}
        /\ job'[d].latest = [job[d].latest EXCEPT ![AppOf[p]] = p]
    BY <1>2, <1>4, <2>1 DEF Place, Jobs
  <2>3. /\ job[d].infos \subseteq Wanted
        /\ \A a \in App : \/ url[a] \in job[d].infos
                          \/ job[d].latest[a] = url[a] /\ url[a] \in placed
    BY <1>4 DEF Place, Progress, Stage
  <2>4. p \in Wanted /\ AppOf[p] \in App /\ url[AppOf[p]] = p
    BY <2>1, <2>3, WantedApart
  <2>5. \A a \in App : \/ url[a] \in job'[d].infos
                       \/ job'[d].latest[a] = url[a] /\ url[a] \in placed'
    <3> SUFFICES ASSUME NEW a \in App
                 PROVE  \/ url[a] \in job'[d].infos
                        \/ job'[d].latest[a] = url[a] /\ url[a] \in placed'
      OBVIOUS
    <3>1. DOMAIN job[d].latest = App
      BY <1>2 DEF Jobs
    <3>2. CASE a = AppOf[p]
      BY <2>1, <2>2, <2>4, <3>1, <3>2
    <3>3. CASE a # AppOf[p]
      <4>1. url[a] # p
        BY <3>3, WantedApart
      <4>2. job'[d].latest[a] = job[d].latest[a]
        BY <2>2, <3>1, <3>3
      <4> QED
        BY <2>1, <2>2, <2>3, <4>1, <4>2
    <3> QED
      BY <3>2, <3>3
  <2> QED
    BY <1>1, <1>2, <2>2, <2>3, <2>5 DEF Stage
<1>5. CASE WriteIndex(d)
  <2>1. /\ job'[d].phase = "record" /\ job'[d].latest = job[d].latest
        /\ placed' = placed /\ index' = VersionsOf(job[d].latest)
    BY <1>2, <1>5 DEF WriteIndex, Jobs
  <2>2. \A a \in App : job[d].latest[a] = url[a] /\ url[a] \in placed
    BY <1>5 DEF WriteIndex, Progress, Stage
  <2>3. \A a \in App : index'[a] = VersionOf[url[a]]
    <3>1. \A a \in App : url[a] # None
      BY PackagesAssumption, WantedApart
    <3> QED
      BY <2>1, <2>2, <3>1 DEF VersionsOf
  <2> QED
    BY <1>1, <1>2, <2>1, <2>2, <2>3 DEF Stage
<1>6. CASE Record(d)
  <2>1. \A a \in App : /\ job[d].latest[a] = url[a] /\ url[a] \in placed
                       /\ Spared({"rival"}) => index[a] = VersionOf[url[a]]
    BY <1>6 DEF Record, Progress, Stage
  <2>2. job'[d].phase = "succeeded" /\ placed' = placed /\ index' = index
    BY <1>6, EndType DEF Record, Phases, dirs, rivals
  <2>3. \A a \in App : target'[a] = VersionOf[url[a]]
    <3>1. \A a \in App : url[a] # None
      BY PackagesAssumption, WantedApart
    <3> QED
      BY <1>6, <2>1, <3>1 DEF Record, VersionsOf
  <2>4. Complete'
    BY <1>1, <2>1, <2>2, <2>3 DEF Complete
  <2> QED
    BY <1>1, <1>2, <2>2, <2>4 DEF Stage
<1> QED
  BY <1>3, <1>4, <1>5, <1>6

(* What a rival does: it cannot move a package over one that is there, and
   when it writes the index it is no longer spared. *)
LEMMA RivalStage ==
  ASSUME CompleteInv, Progress, (\E p \in Package : RivalPlace(p)) \/ RivalIndex
  PROVE  Progress'
<1>1. UNCHANGED <<status, url, zips, archive, target, job>>
  BY DEF RivalPlace, RivalIndex
<1>2. placed' = placed
  BY DEF RivalPlace, RivalIndex, Occupied
<1>3. ~Spared({"rival"})'
  <2>1. budget'["rival"] < budget["rival"]
    BY Spending DEF RivalPlace, RivalIndex, Events, CompleteInv, SingleInv
  <2>2. budget["rival"] <= Budget["rival"]
    BY DEF CompleteInv, SingleInv, Single, Events
  <2>3. budget["rival"] \in Nat /\ Budget["rival"] \in Nat /\ budget'["rival"] \in Nat
    BY Spending, BudgetAssumption
       DEF RivalPlace, RivalIndex, Events, CompleteInv, SingleInv, TypeOK
  <2> QED
    BY <2>1, <2>2, <2>3 DEF Spared
<1>4. Complete => Complete'
  BY <1>1, <1>2, <1>3 DEF Complete
<1>5. Wanted' = Wanted
  BY <1>1 DEF Wanted
<1>6. \A d \in Download : Stage(d)'
  BY <1>1, <1>2, <1>3, <1>4, <1>5 DEF Progress, Stage
<1> QED
  BY <1>1, <1>4, <1>5, <1>6 DEF Progress

LEMMA CompleteNext ==
  ASSUME FilesApart, CompleteInv, [Next]_vars
  PROVE  CompleteInv'
<1> USE DEF CompleteInv
<1>1. SingleInv'
  BY SingleNext
<1> SUFFICES ASSUME Spared({"change"})'
             PROVE  Progress'
  BY <1>1
<1>2. Spared({"change"})
  BY SparedBefore DEF Spared, Events, SingleInv, Single
<1>3. Progress
  BY <1>2
<1>4. ASSUME UNCHANGED <<zips, url, archive, placed, index, target, budget>>
      PROVE  /\ Wanted' = Wanted /\ (Complete' <=> Complete)
             /\ \A d \in Download : job'[d] = job[d] => (Stage(d)' <=> Stage(d))
  <2>1. Wanted' = Wanted /\ (Spared({"rival"})' <=> Spared({"rival"}))
    BY <1>4 DEF Wanted, Spared
  <2>2. Complete' <=> Complete
    BY <1>4, <2>1 DEF Complete
  <2> QED
    BY <1>4, <2>1, <2>2 DEF Stage
<1>5. CASE PostCommit \/ UNCHANGED vars
  <2>1. /\ UNCHANGED <<zips, url, archive, placed, index, target, budget, job>>
        /\ status' = Created => status = Created
    BY <1>5 DEF PostCommit, vars, dirs, rivals, Creating, Created
  <2> QED
    BY <1>3, <1>4, <2>1 DEF Progress
<1>6. CASE PostSend \/ RetryPost
  <2>1. /\ UNCHANGED <<zips, url, archive, placed, index, target>>
        /\ status' # Created
    BY <1>2, <1>6 DEF PostSend, RetryPost, dirs, rivals, Creating, Created, SingleInv, Single
  <2>2. Wanted' = Wanted /\ zips' \subseteq Wanted'
    BY <1>3, <2>1 DEF Wanted, Progress
  <2>3. ASSUME Send(Wanted)
        PROVE  Progress'
    <3>1. PICK d \in Download :
            /\ d \notin Active
            /\ job' = [job EXCEPT ![d] = [IdleJob EXCEPT !.phase = "fetch", !.fetch = Wanted]]
      BY <2>3, Sending, WantedApart DEF SingleInv
    <3>2. /\ job'[d].phase = "fetch" /\ job'[d].fetch = Wanted
          /\ \A e \in Download \ {d} : job'[e] = job[e]
      BY <3>1 DEF IdleJob, SingleInv, TypeOK
    <3>3. \A e \in Download \ {d} : job[e].phase = "idle"
      BY <1>2, <1>6, <2>1 DEF SingleInv, Single, PostSend, RetryPost, Active, Creating, Failed
    <3>4. \A e \in Download : Stage(e)'
      BY <2>2, <3>2, <3>3 DEF Stage
    <3> QED
      BY <2>1, <2>2, <3>4 DEF Progress
  <2>4. CASE RetryPost
    BY <2>3, <2>4 DEF RetryPost, Wanted
  <2>5. CASE PostSend /\ UNCHANGED job
    <3>1. Spared({"rival"})' <=> Spared({"rival"})
      <4>1. UNCHANGED budget \/ Spend("broker")
        BY <2>5 DEF PostSend
      <4>2. budget'["rival"] = budget["rival"]
        BY <4>1, Spending DEF Events, SingleInv
      <4> QED
        BY <4>2 DEF Spared
    <3>2. \A d \in Download : Stage(d)'
      BY <1>3, <2>1, <2>2, <2>5, <3>1 DEF Progress, Stage, Complete
    <3> QED
      BY <2>1, <2>2, <3>2 DEF Progress
  <2>6. CASE PostSend /\ Send(Wanted)
    BY <2>3, <2>6
  <2> QED
    BY <1>6, <2>4, <2>5, <2>6 DEF PostSend, Wanted
<1>7. CASE RetryPut
  <2>1. budget'["change"] < budget["change"] /\ budget["change"] <= Budget["change"]
    BY <1>7, Spending DEF RetryPut, Events, SingleInv, Single
  <2>2. budget["change"] \in Nat /\ Budget["change"] \in Nat /\ budget'["change"] \in Nat
    BY <1>1, BudgetAssumption DEF Events, SingleInv, TypeOK
  <2> QED
    BY <2>1, <2>2 DEF Spared
<1>8. ASSUME NEW d \in Download, Work(d), ~Callback(d)
      PROVE  Progress'
  <2>1. d \in Active /\ status' = status
    BY <1>8, WorkKeeps DEF Work, SingleInv
  <2>2. status # Created
    BY <1>2, <2>1 DEF SingleInv, Single, Creating, Created
  <2>3. \A e \in Download \ {d} : job'[e] = job[e]
    BY <1>8 DEF Work, Fetch, Clear, Unpack, ListInfos, Place, WriteIndex, Record, End,
       SingleInv, TypeOK
  <2>4. zips' \subseteq Wanted' /\ Stage(d)'
    BY <1>3, <1>8, FetchStage, UnpackStage, PlaceStage DEF Work
  <2> QED
    BY <1>2, <1>3, <2>1, <2>2, <2>3, <2>4, StageStep
<1>9. ASSUME NEW d \in Download, Callback(d) \/ TimeLimit(d) \/ Crash(d)
      PROVE  Progress'
  <2>1. UNCHANGED <<zips, url, archive, placed, index, target>> /\ d \in Active
    BY <1>9 DEF Callback, TimeLimit, Crash, dirs, rivals, Active
  <2>2. Wanted' = Wanted /\ zips' \subseteq Wanted'
    BY <1>3, <2>1 DEF Wanted, Progress
  <2>3. \A e \in Download \ {d} : job'[e] = job[e]
    BY <1>9 DEF Callback, TimeLimit, Crash, SingleInv, TypeOK
  <2>4. job'[d].phase \in {"idle", "failed"}
    <3>1. CASE Callback(d) \/ Crash(d)
      BY <3>1, IdleJobType, Working DEF Callback, Crash, SingleInv
    <3>2. CASE TimeLimit(d)
      BY <3>2, EndJob, Working DEF TimeLimit, SingleInv, Phases
    <3> QED
      BY <1>9, <3>1, <3>2
  <2>5. Stage(d)'
    BY <2>4 DEF Stage
  <2>6. status' = Created => Complete'
    <3> SUFFICES ASSUME status' = Created
                 PROVE  Complete'
      OBVIOUS
    <3>1. Callback(d) /\ job[d].phase = "succeeded"
      BY <1>2, <1>9, <2>1 DEF Callback, TimeLimit, Crash, SingleInv, Single, Creating,
         Created, Failed
    <3>2. Complete /\ UNCHANGED budget
      BY <1>3, <2>1, <3>1 DEF Progress, Stage, Callback, Active
    <3> QED
      BY <1>4, <2>1, <3>2
  <2> QED
    BY <1>2, <1>3, <2>1, <2>2, <2>3, <2>5, <2>6, StageStep
<1>10. CASE (\E p \in Package : RivalPlace(p)) \/ RivalIndex
  BY <1>3, <1>10, RivalStage
<1> QED
  BY <1>5, <1>6, <1>7, <1>8, <1>9, <1>10 DEF Next, Work

(* As long as the addresses are left alone, a plan shown as created has every
   application's package in the directory of its version and this version
   recorded, however many downloads it took, wherever they were cut off, and
   whatever a plan of the same minute does; as long as no such plan interferes,
   the index says the same. *)
THEOREM CreatedPlanIsComplete ==
  ASSUME FilesApart
  PROVE  Spec => []CreatedIsComplete
<1>1. Init => CompleteInv
  <2> SUFFICES ASSUME Init
               PROVE  Progress
    BY SingleInit DEF CompleteInv
  <2> QED
    BY DEF Init, Progress, Stage, IdleJob, Created
<1>2. CompleteInv /\ [Next]_vars => CompleteInv'
  BY CompleteNext
<1>3. CompleteInv => CreatedIsComplete
  BY DEF CompleteInv, Progress, Complete, CreatedIsComplete
<1> QED
  BY <1>1, <1>2, <1>3, PTL DEF Spec

=============================================================================
