------------------------ MODULE RollbackChain_proofs ------------------------
(***************************************************************************)
(* Proofs about RollbackChain, for any plan, any number of hosts and       *)
(* executions and any number of failures and repeated requests: the        *)
(* operator is patient.                                                    *)
(***************************************************************************)
EXTENDS RollbackChain, FiniteSetTheorems, WellFoundedInduction, TLAPS

-----------------------------------------------------------------------------
(* The inductive invariant. *)

AllPending(i) == \A h \in HostsOf(i) : host[i][h] = Pending
AllDone(i) == \A h \in HostsOf(i) : host[i][h] = Done

(* Before the rollback is asked for, nothing has begun. *)
Fresh ==
  ~started => Quiet /\ \A i \in StepNo : AllPending(i) /\ pattern[i] = Pending

(* What a repeated request has read is still so when it runs. *)
Asked == listed # {} => started /\ Active = {} /\ listed = RetryList

(* What a step's status says of its hosts. *)
Shown ==
  \A i \in StepNo :
    /\ pattern[i] = Done => AllDone(i)
    /\ pattern[i] = Pending => AllPending(i)
    /\ pattern[i] = Failed => \E h \in HostsOf(i) : host[i][h] = Failed
    /\ HostsOf(i) = {} => pattern[i] = Pending
    /\ \A h \in Host : HostsOf(i) = {h} => pattern[i] = host[i][h]

(* No host of a step is touched before all hosts of the earlier steps are
   done. *)
Frontier == \A i, j \in StepNo : i < j => AllDone(i) \/ AllPending(j)

(* An execution works on a host of its step, or has finished it and waits with
   the steps that follow; the results an open completion has read still hold. *)
AtWork(e) == exec[e].phase \in {"script", "succeeding", "failing"}

Placed(e) ==
  LET i == exec[e].step
      h == exec[e].host
  IN /\ h \in HostsOf(i)
     /\ host[i][h] = IF AtWork(e) THEN Running ELSE Done
     /\ AtWork(e) \/ exec[e].rest # NoRest
     /\ exec[e].phase \in {"succeeding", "failing"} =>
          \A g \in HostsOf(i) : seen[e][g] \in {Done, Failed} => host[i][g] = seen[e][g]

(* The steps it carries follow its own, whole, without a gap and without a
   pause. *)
Chained(e) ==
  LET i == exec[e].step
      rest == exec[e].rest
  IN \A k \in Steps(rest) :
       /\ i < k /\ rest[k] = HostsOf(k) /\ HostsOf(k) # {}
       /\ \A j \in StepNo : i < j /\ j < k => j \in Steps(rest) \/ HostsOf(j) = {}
       /\ \A p \in Pauses : ~(i < p /\ p < k)

(* Behind the step that it works on or starts, nothing is touched. *)
Front(e) == IF exec[e].phase = "starting" THEN FirstStep(exec[e].rest) ELSE exec[e].step
Ahead(e) == \A j \in StepNo : Front(e) < j => AllPending(j)

(* The one that starts a step has its own step done, and all others are on the
   step it starts; until it has started the first host of the step, no other
   one carries what follows. *)
Carries(e) == e \in Active /\ exec[e].phase # "starting" /\ exec[e].rest # NoRest

Starts(e) ==
  LET i == Front(e)
      hosts == exec[e].rest[i]
      Others == Active \ {e}
  IN /\ exec[e].todo # {} /\ exec[e].todo \subseteq hosts
     /\ \A h \in exec[e].todo : host[i][h] = Pending
     /\ AllDone(exec[e].step)
     /\ \A f \in Others : exec[f].phase # "starting" /\ exec[f].step = i
     /\ First(hosts) \in exec[e].todo => \A f \in Others : ~Carries(f)

Executions ==
  \A e \in Active :
    /\ Placed(e) /\ Chained(e) /\ Ahead(e)
    /\ exec[e].phase = "starting" => Starts(e)

(* One execution works on a running host, and one carries the later steps. *)
Attended ==
  \A i \in StepNo : \A h \in HostsOf(i) : host[i][h] = Running =>
    \E e \in Exec : AtWork(e) /\ exec[e].step = i /\ exec[e].host = h
OneWorker ==
  \A e, f \in Exec :
    AtWork(e) /\ AtWork(f) /\ exec[e].step = exec[f].step /\ exec[e].host = exec[f].host
    => e = f
OneCarrier == \A e, f \in Exec : Carries(e) /\ Carries(f) => e = f

ChainInv ==
  /\ TypeOK /\ Fresh /\ Asked /\ Shown /\ Frontier
  /\ Executions /\ Attended /\ OneWorker /\ OneCarrier

-----------------------------------------------------------------------------
(* Lemmas about the operators the model is built from. *)

LEMMA StatusFacts ==
  /\ Pending # Running /\ Pending # Done /\ Pending # Failed
  /\ Running # Done /\ Running # Failed /\ Done # Failed
  /\ \A s : s \in Statuses <=> s = Pending \/ s = Running \/ s = Done \/ s = Failed
BY DEF Pending, Running, Done, Failed, Statuses

(* The steps are numbered, pauses and the notice are those without hosts. *)
LEMMA PlanFacts ==
  /\ StepNo \subseteq Nat /\ 1 \in StepNo
  /\ Pauses \subseteq StepNo
  /\ \A i \in StepNo : HostsOf(i) \subseteq Host
  /\ \A i \in StepNo :
       HostsOf(i) = {} <=> i \in Pauses \/ Plan[i].action = RollbackNotice
  /\ \A i \in Pauses : Plan[i].action # RollbackNotice
<1>1. PICK S : /\ S = [action : {RollbackStop, Pause, Rollback, RestoreFlow, RollbackNotice},
                       hosts : SUBSET Host]
               /\ Plan \in Seq(S)
  BY PlanAssumption
<1>2. StepNo = 1..Len(Plan) /\ Len(Plan) \in Nat /\ \A i \in StepNo : Plan[i] \in S
  <2>1. Plan \in Seq(S)
    BY <1>1
  <2>2. StepNo = 1..Len(Plan) /\ Len(Plan) \in Nat
    BY <2>1 DEF StepNo
  <2> QED
    BY <2>1, <2>2
<1>3. StepNo \subseteq Nat /\ 1 \in StepNo
  BY <1>2, PlanAssumption
<1>4. \A i \in StepNo : HostsOf(i) \subseteq Host
  BY <1>1, <1>2 DEF HostsOf
<1>5. \A i \in StepNo : HostsOf(i) = {} <=> Plan[i].action \in {Pause, RollbackNotice}
  BY PlanAssumption DEF HostsOf, StepNo
<1>6. Pause # RollbackNotice
  BY DEF Pause, RollbackNotice
<1> QED
  BY <1>3, <1>4, <1>5, <1>6 DEF Pauses

(* FirstStep picks the least step of a chain, First a host of it. *)
LEMMA FirstStepIsLeast ==
  ASSUME NEW link \in Rests, link # NoRest
  PROVE  /\ FirstStep(link) \in Steps(link)
         /\ \A j \in Steps(link) : FirstStep(link) <= j
<1> DEFINE T == Steps(link)
<1>1. T \subseteq Nat
  BY PlanFacts DEF Steps
<1>2. T # {}
  BY DEF Steps, NoRest, Rests
<1>3. PICK t \in T : \A u \in T : <<u, t>> \notin OpToRel(<, Nat)
  BY <1>1, <1>2, NatLessThanWellFounded, WFMin
<1>4. ASSUME NEW u \in T, u < t
      PROVE  FALSE
  <2>1. <<u, t>> \in Nat \X Nat /\ <<u, t>>[1] < <<u, t>>[2]
    BY <1>1, <1>4
  <2>2. <<u, t>> \in OpToRel(<, Nat)
    BY <2>1 DEF OpToRel
  <2> QED
    BY <1>3, <2>2
<1>5. \A u \in T : t <= u
  BY <1>1, <1>4
<1> QED
  BY <1>5 DEF FirstStep

LEMMA FirstIsOne ==
  ASSUME NEW hosts, hosts # {}
  PROVE  First(hosts) \in hosts
BY DEF First

LEMMA RestFacts ==
  /\ NoRest \in Rests /\ Steps(NoRest) = {}
  /\ \A link \in Rests :
       /\ link = NoRest <=> Steps(link) = {}
       /\ Steps(link) \subseteq StepNo
       /\ \A k \in StepNo : link[k] \subseteq Host
       /\ \A k \in Steps(link) : link[k] # {}
BY DEF NoRest, Rests, Steps

(* The chain goes on with the steps that follow the first one. *)
LEMMA LaterFacts ==
  ASSUME NEW link \in Rests, link # NoRest
  PROVE  /\ Later(link) \in Rests
         /\ Steps(Later(link)) = Steps(link) \ {FirstStep(link)}
         /\ \A k \in Steps(Later(link)) : Later(link)[k] = link[k] /\ FirstStep(link) < k
<1>1. FirstStep(link) \in Steps(link) /\ \A j \in Steps(link) : FirstStep(link) <= j
  BY FirstStepIsLeast
<1>2. Later(link) \in Rests
  BY DEF Later, Rests
<1>3. Steps(Later(link)) = Steps(link) \ {FirstStep(link)}
  BY <1>1 DEF Later, Rests, Steps
<1>4. \A k \in Steps(Later(link)) : Later(link)[k] = link[k]
  BY <1>3 DEF Later, Rests, Steps
<1>5. \A k \in Steps(link) : k \in Nat
  BY PlanFacts DEF Steps
<1> QED
  BY <1>1, <1>2, <1>3, <1>4, <1>5

(* A request's chain is made of the listed steps that have hosts to run. *)
LEMMA LinkFacts ==
  ASSUME NEW ids, ids \subseteq StepNo
  PROVE  /\ Link(ids) \in Rests
         /\ Steps(Link(ids)) = {i \in ids : ReadyHosts(i) # {}}
         /\ \A i \in Steps(Link(ids)) : Link(ids)[i] = ReadyHosts(i)
<1>1. \A i \in StepNo : ReadyHosts(i) \subseteq Host
  BY PlanFacts DEF ReadyHosts
<1> QED
  BY <1>1 DEF Link, Rests, Steps

(* A worker's first script carries the later steps if its host is the first. *)
LEMMA JobFacts ==
  ASSUME NEW link \in Rests, link # NoRest, NEW h \in link[FirstStep(link)]
  PROVE  /\ Job(link, h) \in Execution
         /\ Job(link, h).phase = "script" /\ Job(link, h).host = h
         /\ Job(link, h).step = FirstStep(link)
         /\ Job(link, h).rest \in {NoRest, Later(link)}
         /\ Job(link, h).rest # NoRest => h = First(link[FirstStep(link)])
<1>1. FirstStep(link) \in StepNo
  BY FirstStepIsLeast DEF Steps
<1>2. h \in Host
  BY <1>1 DEF Rests
<1>3. Later(link) \in Rests /\ NoRest \in Rests
  BY LaterFacts, RestFacts
<1> QED
  BY <1>1, <1>2, <1>3 DEF Job, Phases, Execution

(* What a step becomes by the statuses its hosts were read with: h has just
   ended. *)
LEMMA CheckStatusFacts ==
  ASSUME NEW S, S \subseteq Statuses
  PROVE  /\ CheckStatus(S) \in Statuses
         /\ CheckStatus(S) = Done => S \subseteq {Done}
         /\ CheckStatus(S) = Failed => Failed \in S
         /\ CheckStatus(S) = Pending => S \subseteq {Pending}
         /\ \A s \in Statuses : S = {s} => CheckStatus(S) = s
<1>1. CASE Running \in S
  BY <1>1, StatusFacts DEF CheckStatus
<1>2. CASE Running \notin S /\ Failed \in S
  BY <1>2, StatusFacts DEF CheckStatus
<1>3. CASE Running \notin S /\ Failed \notin S
  BY <1>3, StatusFacts DEF CheckStatus
<1> QED
  BY <1>1, <1>2, <1>3

(* A request's chain, if it has any step, starts the hosts of its first one on
   new executions, one each. *)
Chosen(ids, link, i) ==
  /\ link = Link(ids) /\ link \in Rests /\ link # NoRest
  /\ i = FirstStep(link) /\ i \in ids
  /\ link[i] = ReadyHosts(i) /\ link[i] # {}
  /\ \A k \in ids : ReadyHosts(k) # {} => i <= k

Sent(link, i, S) ==
  /\ exec' \in [Exec -> Execution]
  /\ \A e \in Exec : exec'[e] = exec[e] \/
       (e \notin Active /\ \E h \in S : exec'[e] = Job(link, h))
  /\ \A h \in S : \E e \in Exec : exec'[e] = Job(link, h)
  /\ \A e, f \in Exec \ Active : \A h \in S :
       exec'[e] = Job(link, h) /\ exec'[f] = Job(link, h) => e = f
  /\ host' = [host EXCEPT ![i] = [h \in Host |-> IF h \in S THEN Running ELSE host[i][h]]]
  /\ pattern' = [pattern EXCEPT ![i] = Running]

LEMMA RunFacts ==
  ASSUME TypeOK, NEW ids, ids \subseteq StepNo, Run(ids)
  PROVE  \/ Link(ids) = NoRest /\ UNCHANGED <<host, pattern, exec>>
         \/ \E link \in Rests, i \in StepNo :
              Chosen(ids, link, i) /\ Sent(link, i, link[i])
<1> SUFFICES ASSUME Link(ids) # NoRest
             PROVE  \E link \in Rests, i \in StepNo :
                      Chosen(ids, link, i) /\ Sent(link, i, link[i])
  BY DEF Run
<1>1. PICK link, i : link = Link(ids) /\ i = FirstStep(link)
  OBVIOUS
<1>2. link \in Rests /\ link # NoRest /\ Steps(link) = {k \in ids : ReadyHosts(k) # {}}
      /\ \A k \in Steps(link) : link[k] = ReadyHosts(k)
  BY <1>1, LinkFacts
<1>3. i \in Steps(link) /\ \A k \in Steps(link) : i <= k
  BY <1>1, <1>2, FirstStepIsLeast
<1>4. PICK S : S = ReadyHosts(i)
  OBVIOUS
<1>5. i \in ids /\ i \in StepNo /\ S # {} /\ link[i] = S
  BY <1>2, <1>3, <1>4
<1>6. PICK id \in [S -> Exec \ Active] :
        /\ \A g, h \in S : g # h => id[g] # id[h]
        /\ exec' = [e \in Exec |->
                      IF \E h \in S : id[h] = e
                      THEN Job(link, CHOOSE h \in S : id[h] = e)
                      ELSE exec[e]]
        /\ host' = [host EXCEPT ![i] =
                      [h \in Host |-> IF h \in S THEN Running ELSE host[i][h]]]
        /\ pattern' = [pattern EXCEPT ![i] = Running]
  BY <1>1, <1>4, <1>5 DEF Run
<1>7. \A h \in S : Job(link, h) \in Execution /\ Job(link, h).phase = "script"
                   /\ Job(link, h).host = h
  BY <1>1, <1>2, <1>5, JobFacts
<1>8. ASSUME NEW e \in Exec
      PROVE  \/ (\A h \in S : id[h] # e) /\ exec'[e] = exec[e]
             \/ e \notin Active /\ \E h \in S : id[h] = e /\ exec'[e] = Job(link, h)
  <2>1. CASE \A h \in S : id[h] # e
    BY <1>6, <2>1
  <2>2. CASE \E h \in S : id[h] = e
    <3>1. PICK h \in S : id[h] = e
      BY <2>2
    <3>2. PICK g : g = CHOOSE x \in S : id[x] = e
      OBVIOUS
    <3>3. g \in S /\ id[g] = e
      BY <3>1, <3>2
    <3>4. exec'[e] = Job(link, g)
      BY <1>6, <2>2, <3>2
    <3> QED
      BY <1>6, <3>3, <3>4
  <2> QED
    BY <2>1, <2>2
<1>9. exec' \in [Exec -> Execution]
  <2>1. \A e \in Exec : exec[e] \in Execution
    BY DEF TypeOK
  <2>2. \A e \in Exec : exec'[e] \in Execution
    BY <1>7, <1>8, <2>1
  <2>3. exec' = [e \in Exec |-> exec'[e]]
    BY <1>6
  <2> QED
    BY <2>2, <2>3
<1>10. ASSUME NEW h \in S
       PROVE  \E e \in Exec : exec'[e] = Job(link, h)
  <2>1. id[h] \in Exec /\ \A g \in S : id[g] = id[h] => g = h
    BY <1>6
  <2>2. exec'[id[h]] = Job(link, h)
    BY <1>8, <2>1
  <2> QED
    BY <2>1, <2>2
<1>11. ASSUME NEW e \in Exec \ Active, NEW f \in Exec \ Active, NEW h \in S,
              exec'[e] = Job(link, h), exec'[f] = Job(link, h)
       PROVE  e = f
  <2>1. \A x \in Exec \ Active : exec'[x] = Job(link, h) => id[h] = x
    <3> SUFFICES ASSUME NEW x \in Exec \ Active, exec'[x] = Job(link, h)
                 PROVE  id[h] = x
      OBVIOUS
    <3>1. exec[x].phase = "idle" /\ exec'[x].phase = "script" /\ exec'[x].host = h
      BY <1>7 DEF Active
    <3> QED
      BY <1>7, <1>8, <3>1
  <2> QED
    BY <1>11, <2>1
<1>12. \A k \in ids : ReadyHosts(k) # {} => i <= k
  BY <1>2, <1>3
<1>13. \A e \in Exec : exec'[e] = exec[e] \/
          (e \notin Active /\ \E h \in S : exec'[e] = Job(link, h))
  BY <1>8
<1>14. Chosen(ids, link, i)
  BY <1>1, <1>2, <1>4, <1>5, <1>12 DEF Chosen
<1>15. Sent(link, i, S)
  BY <1>6, <1>9, <1>10, <1>11, <1>13, SMTT(30) DEF Sent
<1> QED
  BY <1>2, <1>5, <1>14, <1>15

-----------------------------------------------------------------------------
(* Type correctness, whoever is patient. *)

LEMMA IdleFacts == Idle \in Execution /\ Idle.phase = "idle"
<1>1. (CHOOSE h \in Host : TRUE) \in Host
  BY HostAssumption
<1> QED
  BY <1>1, PlanFacts, RestFacts DEF Idle, Execution, Phases

LEMMA TypeInit == Init => TypeOK
<1> SUFFICES ASSUME Init
             PROVE  TypeOK
  OBVIOUS
<1>1. Idle \in Execution
  BY IdleFacts
<1>2. exec \in [Exec -> Execution]
  BY <1>1 DEF Init
<1>3. [h \in Host |-> Pending] \in [Host -> Statuses] /\ Pending \in Statuses
  BY DEF Statuses
<1>4. host \in [StepNo -> [Host -> Statuses]] /\ seen \in [Exec -> [Host -> Statuses]]
      /\ pattern \in [StepNo -> Statuses]
  BY <1>3 DEF Init
<1>5. started \in BOOLEAN
  BY Zenon DEF Init
<1>6. listed \subseteq StepNo /\ failures \in 0..MaxFailures
  BY MaxFailuresAssumption DEF Init
<1> QED
  BY <1>2, <1>4, <1>5, <1>6 DEF TypeOK

LEMMA RunType ==
  ASSUME TypeOK, NEW ids, ids \subseteq StepNo, Run(ids)
  PROVE  /\ host' \in [StepNo -> [Host -> Statuses]]
         /\ pattern' \in [StepNo -> Statuses]
         /\ exec' \in [Exec -> Execution]
<1>1. CASE UNCHANGED <<host, pattern, exec>>
  BY <1>1 DEF TypeOK
<1>2. ASSUME NEW link \in Rests, NEW i \in StepNo, Sent(link, i, link[i])
      PROVE  /\ host' \in [StepNo -> [Host -> Statuses]]
             /\ pattern' \in [StepNo -> Statuses]
             /\ exec' \in [Exec -> Execution]
  <2>1. PICK row : row = [h \in Host |-> IF h \in link[i] THEN Running ELSE host[i][h]]
    OBVIOUS
  <2>2. row \in [Host -> Statuses] /\ Running \in Statuses
    BY <2>1, StatusFacts DEF TypeOK
  <2>3. host' = [host EXCEPT ![i] = row] /\ pattern' = [pattern EXCEPT ![i] = Running]
        /\ exec' \in [Exec -> Execution]
    BY <1>2, <2>1 DEF Sent
  <2> QED
    BY <2>2, <2>3 DEF TypeOK
<1> QED
  BY <1>1, <1>2, RunFacts

LEMMA RetryListType == RetryList \subseteq StepNo
BY DEF RetryList, Unfinished

(* An execution goes from one phase to another. *)
LEMMA PhaseFacts ==
  ASSUME NEW x \in Execution, NEW p \in Phases
  PROVE  /\ [x EXCEPT !.phase = p] \in Execution
         /\ [x EXCEPT !.phase = p].phase = p
         /\ [x EXCEPT !.phase = p].step = x.step /\ [x EXCEPT !.phase = p].host = x.host
         /\ [x EXCEPT !.phase = p].rest = x.rest /\ [x EXCEPT !.phase = p].todo = x.todo
BY DEF Execution

LEMMA TodoFacts ==
  ASSUME NEW x \in Execution, NEW S \in SUBSET Host
  PROVE  /\ [x EXCEPT !.todo = S] \in Execution
         /\ [x EXCEPT !.todo = S].todo = S
         /\ [x EXCEPT !.todo = S].step = x.step /\ [x EXCEPT !.todo = S].host = x.host
         /\ [x EXCEPT !.todo = S].rest = x.rest /\ [x EXCEPT !.todo = S].phase = x.phase
BY DEF Execution

(* What a completion commits. *)
Result(e) == IF exec[e].phase = "succeeding" THEN Done ELSE Failed
Read(e) == {IF g = exec[e].host THEN Result(e) ELSE seen[e][g] : g \in HostsOf(exec[e].step)}

LEMMA RecordFacts ==
  ASSUME TypeOK, NEW e \in Exec, Record(e)
  PROVE  /\ exec[e].phase \in {"succeeding", "failing"}
         /\ Read(e) \subseteq Statuses /\ Result(e) \in {Done, Failed}
         /\ host' = [host EXCEPT ![exec[e].step][exec[e].host] = Result(e)]
         /\ pattern' = [pattern EXCEPT ![exec[e].step] = CheckStatus(Read(e))]
         /\ \/ Result(e) = Done /\ exec[e].rest # NoRest
               /\ exec' = [exec EXCEPT ![e] = [exec[e] EXCEPT !.phase = "check"]]
            \/ Result(e) # Done /\ exec' = [exec EXCEPT ![e] = Idle]
            \/ exec[e].rest = NoRest /\ exec' = [exec EXCEPT ![e] = Idle]
         /\ UNCHANGED <<started, seen, listed, failures>>
<1>1. PICK i, h : i = exec[e].step /\ h = exec[e].host
  OBVIOUS
<1>2. i \in StepNo /\ h \in Host /\ HostsOf(i) \subseteq Host
  BY <1>1, PlanFacts DEF TypeOK, Execution
<1>3. PICK s : s = Result(e)
  OBVIOUS
<1>4. s \in {Done, Failed} /\ s \in Statuses
  BY <1>3, StatusFacts DEF Result
<1>5. PICK now : now = [seen[e] EXCEPT ![h] = s]
  OBVIOUS
<1>6. \A g \in HostsOf(i) : now[g] = IF g = h THEN s ELSE seen[e][g]
  BY <1>2, <1>5 DEF TypeOK
<1>7. {now[g] : g \in HostsOf(i)} = Read(e)
  BY <1>1, <1>3, <1>6 DEF Read
<1>8. Read(e) \subseteq Statuses
  BY <1>1, <1>2, <1>3, <1>4 DEF Read, TypeOK
<1>9. /\ exec[e].phase \in {"succeeding", "failing"}
      /\ host' = [host EXCEPT ![i][h] = s]
      /\ pattern' = [pattern EXCEPT ![i] = CheckStatus({now[g] : g \in HostsOf(i)})]
      /\ exec' = [exec EXCEPT ![e] = IF s = Done /\ exec[e].rest # NoRest
                                     THEN [exec[e] EXCEPT !.phase = "check"] ELSE Idle]
      /\ UNCHANGED <<started, seen, listed, failures>>
  BY <1>1, <1>3, <1>5 DEF Record, Result
<1> QED
  BY <1>1, <1>3, <1>4, <1>7, <1>8, <1>9

(* What a worker that starts the next step does: it sends one host's job, and is
   done when it has sent the last one. *)
Hand(e, h) ==
  IF exec[e].todo = {h} THEN Idle ELSE [exec[e] EXCEPT !.todo = exec[e].todo \ {h}]

LEMMA StartNextFacts ==
  ASSUME TypeOK, NEW e \in Exec, NEW n \in Exec, NEW h \in Host, StartNext(e, n, h)
  PROVE  /\ exec[e].phase = "starting" /\ h \in exec[e].todo
         /\ n # e /\ n \notin Active
         /\ exec' = [exec EXCEPT ![n] = Job(exec[e].rest, h), ![e] = Hand(e, h)]
         /\ host' = [host EXCEPT ![FirstStep(exec[e].rest)][h] = Running]
         /\ pattern' = [pattern EXCEPT ![FirstStep(exec[e].rest)] = Running]
         /\ UNCHANGED <<started, seen, listed, failures>>
BY DEF StartNext, Hand, Active

(* Type correctness needs that a chain has steps left when it starts one. *)
HasRest ==
  \A e \in Active :
    /\ exec[e].phase \in {"check", "starting"} => exec[e].rest # NoRest
    /\ exec[e].phase = "starting" => exec[e].todo \subseteq exec[e].rest[FirstStep(exec[e].rest)]

LEMMA RunHasRest ==
  ASSUME TypeOK, HasRest, NEW ids, ids \subseteq StepNo, Run(ids)
  PROVE  HasRest'
<1>1. CASE UNCHANGED <<host, pattern, exec>>
  BY <1>1 DEF HasRest, Active
<1>2. ASSUME NEW link \in Rests, NEW i \in StepNo,
             Chosen(ids, link, i), Sent(link, i, link[i])
      PROVE  HasRest'
  <2>1. \A e \in Exec : exec'[e] = exec[e] \/ exec'[e].phase = "script"
    BY <1>2, JobFacts DEF Sent, Chosen
  <2> QED
    BY <2>1 DEF HasRest, Active
<1> QED
  BY <1>1, <1>2, RunFacts

LEMMA TypeNext == TypeOK /\ HasRest /\ [Next]_vars => TypeOK' /\ HasRest'
<1> SUFFICES ASSUME TypeOK, HasRest, [Next]_vars
             PROVE  TypeOK' /\ HasRest'
  OBVIOUS
<1>1. CASE RollbackOperation
  <2>1. PICK ids : ids \subseteq StepNo /\ Run(ids)
    BY <1>1 DEF RollbackOperation
  <2>2. started' = TRUE /\ UNCHANGED <<seen, listed, failures>>
    BY <1>1 DEF RollbackOperation
  <2> QED
    BY <2>1, <2>2, RunType, RunHasRest DEF TypeOK
<1>2. CASE RetryRead
  BY <1>2, RetryListType DEF RetryRead, TypeOK, HasRest, Active
<1>3. CASE RetryRun
  <2>1. listed \subseteq StepNo /\ listed' = {} /\ UNCHANGED <<started, seen, failures>>
    BY <1>3 DEF RetryRun, TypeOK
  <2>2. CASE UNCHANGED <<host, pattern, exec>>
    BY <2>1, <2>2 DEF TypeOK, HasRest, Active
  <2>3. CASE Run(listed)
    BY <2>1, <2>3, RunType, RunHasRest DEF TypeOK
  <2> QED
    BY <1>3, <2>2, <2>3 DEF RetryRun
<1>4. ASSUME NEW e \in Exec, Worker(e)
      PROVE  TypeOK' /\ HasRest'
  <2>1. exec[e] \in Execution /\ exec[e].step \in StepNo /\ exec[e].host \in Host
        /\ exec[e].rest \in Rests
    BY DEF TypeOK, Execution
  <2>2. CASE ScriptEnds(e)
    <3>1. PICK s \in {"succeeding", "failing"} : exec' = [exec EXCEPT ![e].phase = s]
      BY <2>2 DEF ScriptEnds
    <3>2. s \in Phases
      BY <3>1 DEF Phases
    <3>3. PICK x : x = [exec[e] EXCEPT !.phase = s]
      OBVIOUS
    <3>4. x \in Execution /\ x.phase = s /\ exec' = [exec EXCEPT ![e] = x]
      BY <2>1, <3>1, <3>2, <3>3, PhaseFacts
    <3>5. exec' \in [Exec -> Execution]
      BY <3>4 DEF TypeOK
    <3>6. seen' \in [Exec -> [Host -> Statuses]]
      BY <2>1, <2>2 DEF ScriptEnds, TypeOK
    <3>7. failures' \in 0..MaxFailures
      BY <2>2, MaxFailuresAssumption DEF ScriptEnds, TypeOK
    <3>8. UNCHANGED <<host, pattern, started, listed>>
      BY <2>2 DEF ScriptEnds
    <3>9. TypeOK'
      BY <3>5, <3>6, <3>7, <3>8 DEF TypeOK
    <3>10. HasRest'
      BY <3>4 DEF HasRest, TypeOK, Active
    <3> QED
      BY <3>9, <3>10
  <2>3. CASE Record(e)
    <3>1. PICK x \in Execution :
             exec' = [exec EXCEPT ![e] = x] /\ (x.phase = "idle" \/ (x.phase = "check" /\ x.rest # NoRest))
      <4>1. PICK y : y = [exec[e] EXCEPT !.phase = "check"]
        OBVIOUS
      <4>2. "check" \in Phases
        BY DEF Phases
      <4>3. y \in Execution /\ y.phase = "check" /\ y.rest = exec[e].rest
        BY <2>1, <4>1, <4>2, PhaseFacts
      <4>4. \/ exec[e].rest # NoRest /\ exec' = [exec EXCEPT ![e] = y]
            \/ exec' = [exec EXCEPT ![e] = Idle]
        BY <2>3, <4>1, RecordFacts
      <4> QED
        BY <4>3, <4>4, IdleFacts
    <3>2. CheckStatus(Read(e)) \in Statuses /\ Result(e) \in Statuses
      BY <2>3, RecordFacts, CheckStatusFacts, StatusFacts
    <3>3. host' \in [StepNo -> [Host -> Statuses]] /\ pattern' \in [StepNo -> Statuses]
      <4>1. PICK s \in Statuses, c \in Statuses :
              /\ host' = [host EXCEPT ![exec[e].step][exec[e].host] = s]
              /\ pattern' = [pattern EXCEPT ![exec[e].step] = c]
        BY <2>3, <3>2, RecordFacts
      <4> QED
        BY <2>1, <4>1 DEF TypeOK
    <3>4. TypeOK'
      BY <2>3, <3>1, <3>3, RecordFacts DEF TypeOK
    <3>5. HasRest'
      BY <3>1 DEF HasRest, TypeOK, Active
    <3> QED
      BY <3>4, <3>5
  <2>4. CASE Poll(e)
    <3>1. exec[e].phase = "check" /\ exec[e].rest # NoRest /\ e \in Active
      BY <2>4 DEF Poll, HasRest, Active
    <3>2. PICK S \in SUBSET Host : S = exec[e].rest[FirstStep(exec[e].rest)]
      BY <2>1, <3>1, FirstStepIsLeast, RestFacts
    <3>3. exec' = [exec EXCEPT ![e].phase = "starting", ![e].todo = S]
      BY <2>4, <3>2 DEF Poll
    <3>4. PICK x : x = [[exec[e] EXCEPT !.phase = "starting"] EXCEPT !.todo = S]
      OBVIOUS
    <3>5. x \in Execution /\ x.phase = "starting" /\ x.rest = exec[e].rest /\ x.todo = S
      BY <2>1, <3>2, <3>4 DEF Execution, Phases
    <3>6. exec' = [exec EXCEPT ![e] = x]
      BY <2>1, <3>3, <3>4 DEF TypeOK
    <3>7. TypeOK'
      BY <2>4, <3>5, <3>6 DEF Poll, TypeOK
    <3>8. HasRest'
      BY <3>1, <3>2, <3>5, <3>6 DEF HasRest, TypeOK, Active
    <3> QED
      BY <3>7, <3>8
  <2>5. CASE GiveUp(e)
    <3>1. exec' \in [Exec -> Execution]
      BY <2>5, IdleFacts DEF GiveUp, TypeOK
    <3>2. TypeOK'
      BY <2>5, <3>1 DEF GiveUp, TypeOK
    <3>3. HasRest'
      BY <2>5, IdleFacts DEF GiveUp, HasRest, TypeOK, Active
    <3> QED
      BY <3>2, <3>3
  <2>6. ASSUME NEW n \in Exec, NEW h \in Host, StartNext(e, n, h)
        PROVE  TypeOK' /\ HasRest'
    <3>1. PICK link, i : link = exec[e].rest /\ i = FirstStep(link)
      OBVIOUS
    <3>2. link \in Rests /\ link # NoRest /\ h \in link[i] /\ e \in Active
      BY <2>1, <2>6, <3>1, StartNextFacts DEF HasRest, Active
    <3>3. i \in StepNo
      BY <3>1, <3>2, FirstStepIsLeast, RestFacts
    <3>4. Job(link, h) \in Execution /\ Job(link, h).phase = "script"
      BY <3>1, <3>2, JobFacts
    <3>5. PICK x : x = Hand(e, h)
      OBVIOUS
    <3>6. x \in Execution
      BY <2>1, <3>5, IdleFacts DEF Hand, Execution
    <3>7. x = Idle \/ (x.phase = exec[e].phase /\ x.rest = exec[e].rest /\ x.todo \subseteq exec[e].todo)
      BY <2>1, <3>5 DEF Hand, Execution
    <3>8. /\ exec' = [exec EXCEPT ![n] = Job(link, h), ![e] = x]
          /\ host' = [host EXCEPT ![i][h] = Running]
          /\ pattern' = [pattern EXCEPT ![i] = Running]
          /\ UNCHANGED <<started, seen, listed, failures>>
      <4>1. StartNext(e, n, h)
        BY <2>6
      <4> QED
        BY <3>1, <3>5, <4>1, StartNextFacts
    <3>9. exec' \in [Exec -> Execution]
      BY <3>4, <3>6, <3>8 DEF TypeOK
    <3>10. host' \in [StepNo -> [Host -> Statuses]] /\ pattern' \in [StepNo -> Statuses]
      BY <3>3, <3>8, StatusFacts DEF TypeOK
    <3>11. TypeOK'
      BY <3>8, <3>9, <3>10 DEF TypeOK
    <3>12. HasRest'
      BY <3>2, <3>4, <3>7, <3>8, IdleFacts DEF HasRest, TypeOK, Active
    <3> QED
      BY <3>11, <3>12
  <2> QED
    BY <1>4, <2>2, <2>3, <2>4, <2>5, <2>6 DEF Worker
<1>5. CASE UNCHANGED vars
  BY <1>5 DEF vars, TypeOK, HasRest, Active
<1> QED
  BY <1>1, <1>2, <1>3, <1>4, <1>5 DEF Next

(* Types are kept, by patient operators and by others. *)
THEOREM TypeCorrect == Spec => []TypeOK
<1>1. Init => TypeOK /\ HasRest
  <2>1. Init => HasRest
    BY IdleFacts DEF Init, HasRest, Active
  <2> QED
    BY <2>1, TypeInit
<1>2. TypeOK /\ HasRest /\ [Next]_vars => TypeOK' /\ HasRest'
  BY TypeNext
<1> QED
  BY <1>1, <1>2, PTL DEF Spec

-----------------------------------------------------------------------------
(* The invariant of a patient operator's rollback is inductive. *)

LEMMA ChainInit == Init => ChainInv
<1> SUFFICES ASSUME Init
             PROVE  ChainInv
  OBVIOUS
<1>1. TypeOK /\ started = FALSE /\ listed = {}
  BY TypeInit, Zenon DEF Init
<1>2. Active = {} /\ \A e \in Exec : exec[e].phase = "idle"
  BY IdleFacts DEF Init, Active
<1>3. \A i \in StepNo, h \in Host : host[i][h] = Pending /\ pattern[i] = Pending
  BY DEF Init
<1>4. \A i \in StepNo : AllPending(i)
  BY <1>3, PlanFacts DEF AllPending
<1>5. Fresh /\ Asked
  BY <1>1, <1>2, <1>3, <1>4, HostAssumption DEF Fresh, Asked, Quiet
<1>6. Shown
  BY <1>3, <1>4, PlanFacts, StatusFacts, HostAssumption DEF Shown
<1>7. Frontier
  BY <1>4 DEF Frontier
<1>8. Executions /\ OneWorker /\ OneCarrier
  BY <1>2 DEF Executions, OneWorker, OneCarrier, AtWork, Carries
<1>9. Attended
  BY <1>3, PlanFacts, StatusFacts DEF Attended
<1> QED
  BY <1>1, <1>5, <1>6, <1>7, <1>8, <1>9 DEF ChainInv

(* Where an execution stands. *)
LEMMA ActiveFacts ==
  ASSUME ChainInv, NEW e \in Active
  PROVE  /\ e \in Exec /\ exec[e] \in Execution
         /\ exec[e].step \in StepNo /\ exec[e].host \in Host /\ exec[e].rest \in Rests
         /\ exec[e].host \in HostsOf(exec[e].step)
         /\ host[exec[e].step][exec[e].host] = IF AtWork(e) THEN Running ELSE Done
         /\ AtWork(e) \/ exec[e].rest # NoRest
         /\ Placed(e) /\ Chained(e) /\ Ahead(e)
         /\ exec[e].phase = "starting" => Starts(e)
         /\ started /\ listed = {}
<1>1. e \in Exec /\ exec[e] \in Execution /\ Placed(e) /\ Chained(e) /\ Ahead(e)
      /\ (exec[e].phase = "starting" => Starts(e))
  BY DEF ChainInv, TypeOK, Active, Executions
<1>2. started /\ listed = {}
  BY DEF ChainInv, Fresh, Asked, Quiet
<1> QED
  BY <1>1, <1>2 DEF Placed, Execution

(* All executions that work on hosts are on the same step, and no two of them on
   the same host. *)
LEMMA SameStep ==
  ASSUME ChainInv, NEW e \in Exec, NEW f \in Exec, AtWork(e), AtWork(f)
  PROVE  /\ exec[e].step = exec[f].step
         /\ exec[e].host = exec[f].host => e = f
<1>1. e \in Active /\ f \in Active
  BY DEF Active, AtWork
<1>2. ASSUME NEW a \in Active, NEW b \in Active, AtWork(a), AtWork(b)
      PROVE  ~(exec[a].step < exec[b].step)
  <2>1. /\ exec[a].step \in StepNo /\ exec[b].step \in StepNo
        /\ exec[a].host \in HostsOf(exec[a].step) /\ exec[b].host \in HostsOf(exec[b].step)
        /\ host[exec[a].step][exec[a].host] = Running /\ host[exec[b].step][exec[b].host] = Running
    BY <1>2, ActiveFacts
  <2> QED
    BY <2>1, StatusFacts DEF ChainInv, Frontier, AllDone, AllPending
<1>3. exec[e].step \in Nat /\ exec[f].step \in Nat
  BY <1>1, ActiveFacts, PlanFacts
<1> QED
  BY <1>1, <1>2, <1>3 DEF ChainInv, OneWorker

LEMMA ScriptEndsKeeps ==
  ASSUME ChainInv, NEW e \in Exec, ScriptEnds(e), TypeOK'
  PROVE  ChainInv'
<1>1. e \in Active /\ AtWork(e)
  BY DEF ScriptEnds, Active, AtWork
<1>2. PICK s \in {"succeeding", "failing"} : exec' = [exec EXCEPT ![e].phase = s]
  BY DEF ScriptEnds
<1>3. /\ seen' = [seen EXCEPT ![e] = host[exec[e].step]]
      /\ UNCHANGED <<host, pattern, started, listed>>
  BY DEF ScriptEnds
<1>4. PICK x : x = [exec[e] EXCEPT !.phase = s]
  OBVIOUS
<1>5. /\ x.phase = s /\ x.step = exec[e].step /\ x.host = exec[e].host
      /\ x.rest = exec[e].rest /\ x.todo = exec[e].todo
      /\ exec' = [exec EXCEPT ![e] = x]
  <2>1. s \in Phases /\ exec[e] \in Execution
    BY <1>1, ActiveFacts DEF Phases
  <2> QED
    BY <1>2, <1>4, <2>1, PhaseFacts
<1>6. \A f \in Exec :
        /\ exec'[f].step = exec[f].step /\ exec'[f].host = exec[f].host
        /\ exec'[f].rest = exec[f].rest /\ exec'[f].todo = exec[f].todo
        /\ AtWork(f)' <=> AtWork(f)
        /\ exec'[f].phase = "starting" <=> exec[f].phase = "starting"
        /\ exec'[f].phase = "idle" <=> exec[f].phase = "idle"
  BY <1>1, <1>5 DEF ChainInv, TypeOK, AtWork
<1>7. Active' = Active
  BY <1>6 DEF Active
<1>8. Fresh' /\ Asked'
  BY <1>1, <1>3, <1>7, ActiveFacts DEF Fresh, Asked
<1>9. Shown' /\ Frontier'
  BY <1>3 DEF ChainInv, Shown, Frontier, AllDone, AllPending
<1>10. \A f \in Active : Placed(f)'
  <2> SUFFICES ASSUME NEW f \in Active
               PROVE  Placed(f)'
    OBVIOUS
  <2>1. Placed(f) /\ f \in Exec
    BY ActiveFacts
  <2>2. CASE f = e
    <3>1. exec[e].step \in StepNo
      BY <1>1, ActiveFacts
    <3>2. seen'[e] = host[exec[e].step]
      BY <1>3 DEF ChainInv, TypeOK
    <3> QED
      BY <1>1, <1>3, <1>6, <2>1, <2>2, <3>1, <3>2 DEF Placed
  <2>3. CASE f # e
    <3>1. seen'[f] = seen[f] /\ exec'[f] = exec[f]
      BY <1>3, <1>5, <2>1, <2>3 DEF ChainInv, TypeOK
    <3> QED
      BY <1>3, <1>6, <2>1, <3>1 DEF Placed
  <2> QED
    BY <2>2, <2>3
<1>11. \A f \in Active : Chained(f)' /\ Ahead(f)' /\ Front(f)' = Front(f)
  <2> SUFFICES ASSUME NEW f \in Active
               PROVE  Chained(f)' /\ Ahead(f)' /\ Front(f)' = Front(f)
    OBVIOUS
  <2>1. Chained(f) /\ Ahead(f) /\ f \in Exec
    BY ActiveFacts
  <2>2. Front(f)' = Front(f)
    BY <1>6, <2>1 DEF Front
  <2> QED
    BY <1>3, <1>6, <2>1, <2>2 DEF Chained, Ahead, AllPending
<1>12. \A f \in Exec : Carries(f)' <=> Carries(f)
  BY <1>6, <1>7 DEF Carries
<1>13. \A f \in Active : exec'[f].phase = "starting" => Starts(f)'
  <2> SUFFICES ASSUME NEW f \in Active, exec'[f].phase = "starting"
               PROVE  Starts(f)'
    OBVIOUS
  <2>1. Starts(f) /\ f \in Exec /\ Active \subseteq Exec
    BY <1>6, ActiveFacts DEF Active
  <2> QED
    BY <1>3, <1>6, <1>7, <1>11, <1>12, <2>1 DEF Starts, AllDone
<1>14. Executions'
  BY <1>7, <1>10, <1>11, <1>13 DEF Executions
<1>15. Attended' /\ OneWorker'
  BY <1>3, <1>6 DEF ChainInv, Attended, OneWorker
<1>16. OneCarrier'
  BY <1>12 DEF ChainInv, OneCarrier
<1> QED
  BY <1>8, <1>9, <1>14, <1>15, <1>16 DEF ChainInv

(* An execution that is not at work ends; the hosts stay as they are. *)
LEMMA LeaveKeeps ==
  ASSUME ChainInv, NEW e \in Active, exec' = [exec EXCEPT ![e] = Idle], ~AtWork(e),
         UNCHANGED <<host, pattern, started, seen, listed>>, TypeOK'
  PROVE  ChainInv'
<1>1. \A f \in Exec : IF f = e THEN exec'[f].phase = "idle" ELSE exec'[f] = exec[f]
  BY IdleFacts DEF ChainInv, TypeOK
<1>2. Active' = Active \ {e} /\ Active \subseteq Exec
  BY <1>1, ActiveFacts DEF Active
<1>3. \A f \in Exec : AtWork(f)' <=> AtWork(f)
  BY <1>1 DEF AtWork
<1>4. \A f \in Exec : Carries(f)' => Carries(f)
  BY <1>1, <1>2 DEF Carries
<1>5. Fresh' /\ Asked'
  BY ActiveFacts DEF Fresh, Asked
<1>6. Shown' /\ Frontier'
  BY DEF ChainInv, Shown, Frontier, AllDone, AllPending
<1>7. \A f \in Active' : /\ f \in Active /\ exec'[f] = exec[f]
                         /\ Placed(f)' /\ Chained(f)' /\ Ahead(f)' /\ Front(f)' = Front(f)
  <2> SUFFICES ASSUME NEW f \in Active'
               PROVE  /\ f \in Active /\ exec'[f] = exec[f]
                      /\ Placed(f)' /\ Chained(f)' /\ Ahead(f)' /\ Front(f)' = Front(f)
    OBVIOUS
  <2>1. f \in Active /\ exec'[f] = exec[f] /\ Placed(f) /\ Chained(f) /\ Ahead(f)
    BY <1>1, <1>2, ActiveFacts
  <2>2. Placed(f)'
    BY <1>2, <1>3, <2>1 DEF Placed
  <2>3. Chained(f)' /\ Front(f)' = Front(f)
    BY <2>1 DEF Chained, Front
  <2>4. Ahead(f)'
    BY <2>1, <2>3 DEF Ahead, AllPending
  <2> QED
    BY <2>1, <2>2, <2>3, <2>4
<1>8. \A f \in Active' : exec'[f].phase = "starting" => Starts(f)'
  <2> SUFFICES ASSUME NEW f \in Active', exec'[f].phase = "starting"
               PROVE  Starts(f)'
    OBVIOUS
  <2>1. Starts(f) /\ f \in Active /\ exec'[f] = exec[f]
    BY <1>7, ActiveFacts
  <2>2. \A g \in Active' \ {f} : g \in Active \ {f} /\ exec'[g] = exec[g]
    BY <1>7
  <2> QED
    BY <1>2, <1>4, <1>7, <2>1, <2>2 DEF Starts, AllDone
<1>9. Executions'
  BY <1>7, <1>8 DEF Executions
<1>10. Attended' /\ OneWorker'
  <2>1. \A f \in Exec : AtWork(f) => exec'[f] = exec[f]
    BY <1>1
  <2> QED
    BY <1>3, <2>1 DEF ChainInv, Attended, OneWorker
<1>11. OneCarrier'
  BY <1>4 DEF ChainInv, OneCarrier
<1> QED
  BY <1>5, <1>6, <1>9, <1>10, <1>11 DEF ChainInv

LEMMA GiveUpKeeps ==
  ASSUME ChainInv, NEW e \in Exec, GiveUp(e), TypeOK'
  PROVE  ChainInv'
BY LeaveKeeps DEF GiveUp, Active, AtWork

LEMMA RecordKeeps ==
  ASSUME ChainInv, NEW e \in Exec, Record(e), TypeOK'
  PROVE  ChainInv'
<1>1. TypeOK /\ e \in Active /\ AtWork(e) /\ exec[e].phase \in {"succeeding", "failing"}
  BY RecordFacts DEF ChainInv, Active, AtWork
<1>2. PICK i, h, s : i = exec[e].step /\ h = exec[e].host /\ s = Result(e)
  OBVIOUS
<1>3. /\ i \in StepNo /\ h \in Host /\ h \in HostsOf(i) /\ HostsOf(i) \subseteq Host
      /\ host[i][h] = Running /\ s \in {Done, Failed} /\ exec[e] \in Execution
  BY <1>1, <1>2, ActiveFacts, RecordFacts, PlanFacts
<1>4. PICK now : now = [g \in HostsOf(i) |-> IF g = h THEN s ELSE seen[e][g]]
  OBVIOUS
<1>5. PICK S, c : S = {now[g] : g \in HostsOf(i)} /\ c = CheckStatus(S)
  OBVIOUS
<1>6. S = Read(e) /\ S \subseteq Statuses
  <2>1. S = Read(e)
    BY <1>2, <1>4, <1>5 DEF Read
  <2> QED
    BY <1>1, <2>1, RecordFacts
<1>7. /\ host' = [host EXCEPT ![i][h] = s]
      /\ pattern' = [pattern EXCEPT ![i] = c]
      /\ UNCHANGED <<started, seen, listed, failures>>
  BY <1>1, <1>2, <1>5, <1>6, RecordFacts
<1>8. PICK x : /\ exec' = [exec EXCEPT ![e] = x]
               /\ (x.phase = "idle" \/ (x.phase = "check" /\ s = Done /\ x.rest # NoRest
                     /\ x.rest = exec[e].rest /\ x.step = i /\ x.host = h))
  <2>1. PICK y : y = [exec[e] EXCEPT !.phase = "check"]
    OBVIOUS
  <2>2. "check" \in Phases
    BY DEF Phases
  <2>3. y.phase = "check" /\ y.rest = exec[e].rest /\ y.step = i /\ y.host = h
    BY <1>2, <1>3, <2>1, <2>2, PhaseFacts
  <2>4. \/ s = Done /\ exec[e].rest # NoRest /\ exec' = [exec EXCEPT ![e] = y]
        \/ exec' = [exec EXCEPT ![e] = Idle]
    BY <1>1, <1>2, <2>1, RecordFacts
  <2> QED
    BY <2>3, <2>4, IdleFacts
<1>9. \A f \in Exec : exec'[f] = IF f = e THEN x ELSE exec[f]
  BY <1>8 DEF ChainInv, TypeOK
<1>10. /\ \A j \in StepNo, g \in Host : host'[j][g] = IF j = i /\ g = h THEN s ELSE host[j][g]
       /\ \A j \in StepNo : pattern'[j] = IF j = i THEN c ELSE pattern[j]
  BY <1>1, <1>3, <1>7 DEF TypeOK
<1>11. \A j \in StepNo :
        /\ \A g \in HostsOf(j) : host[j][g] \in {Done, Failed} => host'[j][g] = host[j][g]
        /\ AllDone(j) => AllDone(j)'
  <2>1. \A j \in StepNo : \A g \in HostsOf(j) :
          g \in Host /\ (host[j][g] \in {Done, Failed} => ~(j = i /\ g = h))
    BY <1>3, PlanFacts, StatusFacts
  <2>2. \A j \in StepNo : \A g \in HostsOf(j) :
          host[j][g] \in {Done, Failed} => host'[j][g] = host[j][g]
    BY <1>10, <2>1
  <2> QED
    BY <2>2 DEF AllDone
<1>12. /\ Active \subseteq Exec /\ Active' \subseteq Active
       /\ \A f \in Active : f # e => f \in Active'
       /\ e \in Active' => x.phase = "check"
  BY <1>1, <1>8, <1>9 DEF Active
<1>13. \A f \in Exec : AtWork(f)' <=> AtWork(f) /\ f # e
  BY <1>8, <1>9 DEF AtWork
<1>14. Fresh' /\ Asked'
  BY <1>1, <1>7, ActiveFacts DEF Fresh, Asked
<1>15. Shown'
  <2> SUFFICES ASSUME NEW j \in StepNo
               PROVE  /\ pattern'[j] = Done => AllDone(j)'
                      /\ pattern'[j] = Pending => AllPending(j)'
                      /\ pattern'[j] = Failed => \E g \in HostsOf(j) : host'[j][g] = Failed
                      /\ HostsOf(j) = {} => pattern'[j] = Pending
                      /\ \A g \in Host : HostsOf(j) = {g} => pattern'[j] = host'[j][g]
    BY DEF Shown
  <2>1. CASE j # i
    <3>1. pattern'[j] = pattern[j] /\ \A g \in HostsOf(j) : host'[j][g] = host[j][g]
      BY <1>10, <2>1, PlanFacts
    <3> QED
      BY <3>1 DEF ChainInv, Shown, AllDone, AllPending
  <2>2. CASE j = i
    <3>1. \A g \in HostsOf(i) : now[g] \in {Done, Failed} => host'[i][g] = now[g]
      <4> SUFFICES ASSUME NEW g \in HostsOf(i), now[g] \in {Done, Failed}
                   PROVE  host'[i][g] = now[g]
        OBVIOUS
      <4>1. Placed(e)
        BY <1>1, ActiveFacts
      <4> QED
        BY <1>1, <1>2, <1>3, <1>4, <1>10, <4>1 DEF Placed
    <3>2. \A g \in HostsOf(i) : now[g] \in S
      BY <1>5
    <3>3. /\ c = Done => S \subseteq {Done}
          /\ c = Failed => Failed \in S
          /\ c = Pending => S \subseteq {Pending}
          /\ \A r \in Statuses : S = {r} => c = r
      BY <1>5, <1>6, CheckStatusFacts
    <3>4. s \in S /\ s # Pending /\ now[h] = s
      BY <1>3, <1>4, <3>2, StatusFacts
    <3>5. c = Done => AllDone(i)'
      BY <3>1, <3>2, <3>3 DEF AllDone
    <3>6. c # Pending
      BY <3>3, <3>4
    <3>7. c = Failed => \E g \in HostsOf(i) : host'[i][g] = Failed
      BY <1>5, <3>1, <3>3
    <3>8. \A g \in Host : HostsOf(i) = {g} => c = host'[i][g]
      <4> SUFFICES ASSUME NEW g \in Host, HostsOf(i) = {g}
                   PROVE  c = host'[i][g]
        OBVIOUS
      <4>1. g = h
        BY <1>3
      <4>2. S = {s}
        BY <1>3, <1>4, <1>5, <4>1
      <4> QED
        BY <1>3, <1>10, <3>3, <4>1, <4>2, StatusFacts
    <3>9. pattern'[i] = c /\ HostsOf(i) # {}
      BY <1>3, <1>10
    <3> QED
      BY <2>2, <3>5, <3>6, <3>7, <3>8, <3>9
  <2> QED
    BY <2>1, <2>2
<1>16. Frontier'
  <2> SUFFICES ASSUME NEW j \in StepNo, NEW k \in StepNo, j < k
               PROVE  AllDone(j)' \/ AllPending(k)'
    BY DEF Frontier
  <2>1. AllDone(j) \/ AllPending(k)
    BY DEF ChainInv, Frontier
  <2>2. AllDone(j) => AllDone(j)'
    BY <1>3, <1>10, PlanFacts, StatusFacts DEF AllDone
  <2>3. AllPending(k) => AllPending(k)'
    BY <1>3, <1>10, PlanFacts, StatusFacts DEF AllPending
  <2> QED
    BY <2>1, <2>2, <2>3
<1>17. \A f \in Active' : /\ f \in Active /\ Front(f)' = Front(f)
                          /\ Placed(f)' /\ Chained(f)' /\ Ahead(f)'
  <2> SUFFICES ASSUME NEW f \in Active'
               PROVE  /\ f \in Active /\ Front(f)' = Front(f)
                      /\ Placed(f)' /\ Chained(f)' /\ Ahead(f)'
    OBVIOUS
  <2>1. /\ f \in Active /\ f \in Exec /\ Placed(f) /\ Chained(f) /\ Ahead(f)
        /\ exec[f].step \in StepNo /\ exec[f].host \in HostsOf(exec[f].step)
    BY <1>12, ActiveFacts
  <2>2. exec'[f].step = exec[f].step /\ exec'[f].host = exec[f].host /\ exec'[f].rest = exec[f].rest
        /\ (exec'[f].phase = "starting" <=> exec[f].phase = "starting")
    BY <1>1, <1>2, <1>8, <1>9, <1>12, <2>1
  <2>3. Front(f)' = Front(f) /\ Chained(f)'
    BY <2>1, <2>2 DEF Front, Chained
  <2>4. Ahead(f)'
    <3>1. \A j \in StepNo : AllPending(j) => AllPending(j)'
      BY <1>3, <1>10, PlanFacts, StatusFacts DEF AllPending
    <3> QED
      BY <2>1, <2>3, <3>1 DEF Ahead
  <2>5. Placed(f)'
    <3>1. CASE f = e
      BY <1>2, <1>3, <1>8, <1>9, <1>10, <1>12, <1>13, <2>1, <3>1 DEF Placed
    <3>2. CASE f # e
      <4>1. exec'[f] = exec[f] /\ seen'[f] = seen[f] /\ (AtWork(f)' <=> AtWork(f))
        BY <1>7, <1>9, <1>13, <2>1, <3>2
      <4>2. ~(exec[f].step = i /\ exec[f].host = h)
        BY <1>1, <1>2, <1>3, <2>1, <3>2, SameStep, StatusFacts DEF Placed
      <4>3. host'[exec[f].step][exec[f].host] = host[exec[f].step][exec[f].host]
        BY <1>10, <2>1, <4>2, PlanFacts
      <4>4. \A g \in HostsOf(exec[f].step) :
              host[exec[f].step][g] \in {Done, Failed} => host'[exec[f].step][g] = host[exec[f].step][g]
        BY <2>1, <1>11
      <4>5. \A g \in HostsOf(exec[f].step) :
              exec[f].phase \in {"succeeding", "failing"} /\ seen[f][g] \in {Done, Failed}
                => host'[exec[f].step][g] = seen[f][g]
        BY <2>1, <4>4 DEF Placed
      <4> QED
        BY <2>1, <4>1, <4>3, <4>5 DEF Placed
    <3> QED
      BY <3>1, <3>2
  <2> QED
    BY <2>1, <2>3, <2>4, <2>5
<1>18. \A f \in Exec : Carries(f)' => Carries(f)
  BY <1>1, <1>8, <1>9, <1>12 DEF Carries
<1>19. \A f \in Active' : exec'[f].phase = "starting" => Starts(f)'
  <2> SUFFICES ASSUME NEW f \in Active', exec'[f].phase = "starting"
               PROVE  Starts(f)'
    OBVIOUS
  <2>1. f # e /\ f \in Exec /\ exec'[f] = exec[f]
    BY <1>8, <1>9, <1>12
  <2>2. Starts(f) /\ f \in Active /\ exec[f].step \in StepNo /\ exec[f].rest \in Rests
        /\ Front(f)' = Front(f)
    BY <1>17, <2>1, ActiveFacts
  <2>3. \A g \in Active' \ {f} : /\ g \in Active \ {f} /\ exec'[g].step = exec[g].step
                                 /\ (exec'[g].phase = "starting" => exec[g].phase = "starting")
    BY <1>2, <1>8, <1>9, <1>12
  <2>4. AllDone(exec[f].step)'
    <3>1. AllDone(exec[f].step)
      BY <2>2 DEF Starts
    <3> QED
      BY <1>11, <2>1, <2>2, <3>1 DEF AllDone
  <2>5. Front(f) \in StepNo
    BY <1>17, <2>1, <2>2, <1>1, <1>2, <1>3, <2>3 DEF Starts
  <2>6. \A g \in exec[f].todo : host'[Front(f)][g] = Pending
    <3>1. exec[f].todo \subseteq Host /\ \A g \in exec[f].todo : host[Front(f)][g] = Pending
      BY <2>1, <2>2 DEF Starts, ChainInv, TypeOK, Execution
    <3> QED
      BY <1>3, <1>10, <2>5, <3>1, StatusFacts
  <2> QED
    BY <1>12, <1>18, <2>1, <2>2, <2>3, <2>4, <2>6 DEF Starts
<1>20. Executions'
  BY <1>17, <1>19 DEF Executions
<1>21. Attended'
  <2> SUFFICES ASSUME NEW j \in StepNo, NEW g \in HostsOf(j), host'[j][g] = Running
               PROVE  \E f \in Exec : AtWork(f)' /\ exec'[f].step = j /\ exec'[f].host = g
    BY DEF Attended
  <2>1. ~(j = i /\ g = h) /\ host[j][g] = Running
    BY <1>3, <1>10, PlanFacts, StatusFacts
  <2>2. PICK f \in Exec : AtWork(f) /\ exec[f].step = j /\ exec[f].host = g
    BY <2>1 DEF ChainInv, Attended
  <2> QED
    BY <1>2, <1>9, <1>13, <2>1, <2>2
<1>22. OneWorker'
  BY <1>9, <1>13 DEF ChainInv, OneWorker
<1>23. OneCarrier'
  BY <1>18 DEF ChainInv, OneCarrier
<1> QED
  BY <1>14, <1>15, <1>16, <1>20, <1>21, <1>22, <1>23 DEF ChainInv

(* The first step of the chain that an execution carries. *)
LEMMA ChainFacts ==
  ASSUME ChainInv, NEW e \in Active, exec[e].rest # NoRest
  PROVE  LET k == FirstStep(exec[e].rest)
         IN /\ k \in StepNo /\ exec[e].step < k
            /\ exec[e].rest[k] = HostsOf(k) /\ HostsOf(k) # {} /\ HostsOf(k) \subseteq Host
            /\ \A j \in StepNo : exec[e].step < j /\ j < k => HostsOf(j) = {}
            /\ \A p \in Pauses : ~(exec[e].step < p /\ p < k)
            /\ \A l \in Steps(exec[e].rest) : l = k \/ k < l
<1>1. PICK rest, k : rest = exec[e].rest /\ k = FirstStep(rest)
  OBVIOUS
<1>2. rest \in Rests /\ rest # NoRest /\ Chained(e)
  BY <1>1, ActiveFacts
<1>3. k \in Steps(rest) /\ (\A l \in Steps(rest) : k <= l) /\ Steps(rest) \subseteq StepNo
  BY <1>1, <1>2, FirstStepIsLeast, RestFacts
<1>4. StepNo \subseteq Nat /\ HostsOf(k) \subseteq Host
  BY <1>3, PlanFacts
<1>5. /\ exec[e].step < k /\ rest[k] = HostsOf(k) /\ HostsOf(k) # {}
      /\ \A j \in StepNo : exec[e].step < j /\ j < k => j \in Steps(rest) \/ HostsOf(j) = {}
      /\ \A p \in Pauses : ~(exec[e].step < p /\ p < k)
  BY <1>1, <1>2, <1>3 DEF Chained
<1>6. \A l \in Steps(rest) : l \in Nat /\ k \in Nat /\ k <= l
  BY <1>3, <1>4
<1>7. \A l \in Steps(rest) : l = k \/ k < l
  BY <1>6
<1>8. \A j \in StepNo : exec[e].step < j /\ j < k => HostsOf(j) = {}
  <2> SUFFICES ASSUME NEW j \in StepNo, exec[e].step < j, j < k
               PROVE  j \notin Steps(rest)
    BY <1>5
  <2> QED
    BY <1>6
<1> QED
  BY <1>1, <1>3, <1>4, <1>5, <1>7, <1>8

(* When a step is done, the one that waits for it is alone. *)
LEMMA WaitsAlone ==
  ASSUME ChainInv, NEW e \in Active, exec[e].phase = "check", pattern[exec[e].step] = Done
  PROVE  Active = {e} /\ AllDone(exec[e].step)
<1>1. PICK i : i = exec[e].step
  OBVIOUS
<1>2. i \in StepNo /\ i \in Nat /\ AllDone(i) /\ Ahead(e) /\ Front(e) = i /\ ~AtWork(e)
      /\ exec[e].host \in HostsOf(i) /\ e \in Exec /\ exec[e].rest # NoRest
  BY <1>1, ActiveFacts, PlanFacts DEF ChainInv, Shown, Front, AtWork
<1>3. ASSUME NEW f \in Active, f # e
      PROVE  FALSE
  <2>1. PICK j, g : j = exec[f].step /\ g = exec[f].host
    OBVIOUS
  <2>2. j \in StepNo /\ j \in Nat /\ g \in HostsOf(j) /\ f \in Exec
    BY <2>1, ActiveFacts, PlanFacts
  <2>3. CASE AtWork(f)
    <3>1. host[j][g] = Running
      BY <2>1, <2>3, ActiveFacts
    <3>2. ~AllDone(j) /\ ~AllPending(j)
      BY <2>2, <3>1, StatusFacts DEF AllDone, AllPending
    <3>3. j <= i
      BY <1>2, <2>2, <3>2 DEF Ahead
    <3>4. j # i
      BY <1>2, <3>2
    <3>5. AllPending(i)
      BY <1>2, <2>2, <3>2, <3>3, <3>4 DEF ChainInv, Frontier
    <3> QED
      BY <1>2, <3>5, StatusFacts DEF AllDone, AllPending
  <2>4. CASE exec[f].phase = "starting"
    <3>1. Starts(f) /\ exec[f].rest # NoRest
      BY <2>4, ActiveFacts DEF AtWork
    <3>2. Front(f) = i /\ Front(f) = FirstStep(exec[f].rest)
      BY <1>1, <1>3, <2>4, <3>1 DEF Starts, Front
    <3>3. exec[f].rest[i] = HostsOf(i)
      BY <3>1, <3>2, ChainFacts
    <3> QED
      BY <1>2, <3>1, <3>2, <3>3, StatusFacts DEF Starts, AllDone
  <2>5. CASE exec[f].phase = "check"
    <3>1. exec[f].rest # NoRest
      BY <2>5, ActiveFacts DEF AtWork
    <3> QED
      BY <1>2, <1>3, <2>2, <2>5, <3>1 DEF ChainInv, OneCarrier, Carries
  <2> QED
    BY <2>2, <2>3, <2>4, <2>5 DEF ChainInv, TypeOK, Execution, Phases, AtWork, Active
<1> QED
  BY <1>1, <1>2, <1>3

LEMMA PollKeeps ==
  ASSUME ChainInv, NEW e \in Exec, Poll(e), TypeOK'
  PROVE  ChainInv'
<1>1. /\ e \in Active /\ exec[e].phase = "check" /\ ~AtWork(e) /\ pattern[exec[e].step] = Done
      /\ exec[e] \in Execution /\ exec[e].rest \in Rests /\ exec[e].rest # NoRest
  BY ActiveFacts DEF Poll, Active, AtWork
<1>2. PICK i, rest, k : i = exec[e].step /\ rest = exec[e].rest /\ k = FirstStep(rest)
  OBVIOUS
<1>3. /\ i \in StepNo /\ k \in StepNo /\ i \in Nat /\ k \in Nat /\ i < k
      /\ rest[k] = HostsOf(k) /\ HostsOf(k) # {} /\ HostsOf(k) \subseteq Host
  BY <1>1, <1>2, ChainFacts, ActiveFacts, PlanFacts
<1>4. Active = {e} /\ AllDone(i)
  BY <1>1, <1>2, WaitsAlone
<1>5. PICK x : x = [[exec[e] EXCEPT !.phase = "starting"] EXCEPT !.todo = HostsOf(k)]
  OBVIOUS
<1>6. /\ x.phase = "starting" /\ x.todo = HostsOf(k)
      /\ x.step = i /\ x.host = exec[e].host /\ x.rest = rest
  BY <1>1, <1>2, <1>3, <1>5 DEF Execution
<1>7. exec' = [exec EXCEPT ![e] = x] /\ UNCHANGED <<host, pattern, started, seen, listed>>
  BY <1>1, <1>2, <1>3, <1>5 DEF Poll, ChainInv, TypeOK
<1>8. exec'[e] = x /\ \A f \in Exec : f # e => exec'[f] = exec[f] /\ exec[f].phase = "idle"
  BY <1>4, <1>7 DEF ChainInv, TypeOK, Active
<1>9. Active' = {e}
  BY <1>6, <1>8 DEF Active
<1>10. \A f \in Exec : ~AtWork(f) /\ ~AtWork(f)' /\ ~Carries(f)'
  BY <1>1, <1>6, <1>8 DEF AtWork, Carries, Active
<1>11. Fresh' /\ Asked'
  BY <1>1, <1>7, ActiveFacts DEF Fresh, Asked
<1>12. Shown' /\ Frontier'
  BY <1>7 DEF ChainInv, Shown, Frontier, AllDone, AllPending
<1>13. Front(e)' = k
  BY <1>2, <1>6, <1>8 DEF Front
<1>14. Placed(e)'
  <2>1. Placed(e)
    BY <1>1, ActiveFacts
  <2> QED
    BY <1>1, <1>2, <1>6, <1>7, <1>8, <1>10, <2>1 DEF Placed
<1>15. Chained(e)'
  <2>1. Chained(e)
    BY <1>1, ActiveFacts
  <2> QED
    BY <1>2, <1>6, <1>8, <2>1 DEF Chained
<1>16. Ahead(e)' /\ AllPending(k)
  <2>1. Ahead(e) /\ Front(e) = i
    BY <1>1, <1>2, ActiveFacts DEF Front
  <2>2. \A j \in StepNo : k < j => i < j
    BY <1>3, PlanFacts
  <2> QED
    BY <1>3, <1>7, <1>13, <2>1, <2>2 DEF Ahead, AllPending
<1>17. Starts(e)'
  BY <1>3, <1>4, <1>6, <1>7, <1>8, <1>9, <1>13, <1>16 DEF Starts, AllDone, AllPending
<1>18. Executions'
  BY <1>9, <1>14, <1>15, <1>16, <1>17 DEF Executions
<1>19. Attended' /\ OneWorker' /\ OneCarrier'
  BY <1>7, <1>10 DEF ChainInv, Attended, OneWorker, OneCarrier
<1> QED
  BY <1>11, <1>12, <1>18, <1>19 DEF ChainInv

(* Everything before the step that is started is done. *)
LEMMA BeforeStart ==
  ASSUME ChainInv, NEW e \in Active, exec[e].phase = "starting",
         NEW j \in StepNo, j < FirstStep(exec[e].rest)
  PROVE  AllDone(j)
<1>1. PICK i, k : i = exec[e].step /\ k = FirstStep(exec[e].rest)
  OBVIOUS
<1>2. /\ i \in StepNo /\ i \in Nat /\ j \in Nat /\ exec[e].rest # NoRest /\ AllDone(i)
      /\ exec[e].host \in HostsOf(i) /\ host[i][exec[e].host] = Done
  BY <1>1, ActiveFacts, PlanFacts DEF Starts, AtWork
<1>3. CASE j < i
  BY <1>2, <1>3, StatusFacts DEF ChainInv, Frontier, AllPending
<1>4. CASE j = i
  BY <1>2, <1>4
<1>5. CASE i < j
  BY <1>1, <1>2, <1>5, ChainFacts DEF AllDone
<1> QED
  BY <1>2, <1>3, <1>4, <1>5

LEMMA StartNextKeeps ==
  ASSUME ChainInv, NEW e \in Exec, NEW n \in Exec, NEW h \in Host, StartNext(e, n, h), TypeOK'
  PROVE  ChainInv'
<1>1. TypeOK /\ e \in Active /\ exec[e].phase = "starting" /\ h \in exec[e].todo
  BY StartNextFacts DEF ChainInv, Active
<1>2. PICK i, rest, k, S, x :
        i = exec[e].step /\ rest = exec[e].rest /\ k = FirstStep(rest) /\ S = HostsOf(k)
        /\ x = Hand(e, h)
  OBVIOUS
<1>3. /\ exec[e] \in Execution /\ rest \in Rests /\ rest # NoRest /\ Starts(e)
      /\ Placed(e) /\ Chained(e) /\ Ahead(e) /\ Front(e) = k /\ ~AtWork(e)
  BY <1>1, <1>2, ActiveFacts DEF AtWork, Front
<1>4. /\ i \in StepNo /\ k \in StepNo /\ i \in Nat /\ k \in Nat /\ i < k
      /\ rest[k] = S /\ S # {} /\ S \subseteq Host
      /\ \A l \in Steps(rest) : l = k \/ k < l
  BY <1>1, <1>2, <1>3, ActiveFacts, ChainFacts, PlanFacts, ZenonT(30)
<1>5. /\ exec[e].todo \subseteq S /\ h \in S /\ AllDone(i)
      /\ \A g \in exec[e].todo : host[k][g] = Pending
      /\ \A f \in Active \ {e} : exec[f].phase # "starting" /\ exec[f].step = k
      /\ First(S) \in exec[e].todo => \A f \in Active \ {e} : ~Carries(f)
  BY <1>1, <1>2, <1>3, <1>4 DEF Starts
<1>6. PICK job : job = Job(rest, h)
  OBVIOUS
<1>7. /\ job.phase = "script" /\ job.host = h /\ job.step = k
      /\ job.rest \in {NoRest, Later(rest)} /\ (job.rest # NoRest => h = First(S))
  BY <1>2, <1>3, <1>4, <1>5, <1>6, JobFacts
<1>8. /\ x = Idle /\ exec[e].todo = {h}
      \/ /\ x.phase = "starting" /\ x.todo = exec[e].todo \ {h} /\ x.todo # {}
         /\ x.step = i /\ x.host = exec[e].host /\ x.rest = rest
  <2>1. exec[e].todo \ {h} \in SUBSET Host
    BY <1>4, <1>5
  <2> QED
    BY <1>1, <1>2, <1>3, <2>1, TodoFacts DEF Hand
<1>9. /\ n # e /\ n \notin Active
      /\ exec' = [exec EXCEPT ![n] = job, ![e] = x]
      /\ host' = [host EXCEPT ![k][h] = Running]
      /\ pattern' = [pattern EXCEPT ![k] = Running]
      /\ UNCHANGED <<started, seen, listed, failures>>
  <2>1. StartNext(e, n, h)
    OBVIOUS
  <2> QED
    BY <1>1, <1>2, <1>6, <2>1, StartNextFacts
<1>10. \A f \in Exec : exec'[f] = IF f = n THEN job ELSE IF f = e THEN x ELSE exec[f]
  BY <1>1, <1>9 DEF TypeOK
<1>11. /\ \A j \in StepNo, g \in Host : host'[j][g] = IF j = k /\ g = h THEN Running ELSE host[j][g]
       /\ \A j \in StepNo : pattern'[j] = IF j = k THEN Running ELSE pattern[j]
  BY <1>1, <1>4, <1>9 DEF TypeOK
<1>12. /\ Active \subseteq Exec /\ n \in Active'
       /\ \A f \in Active' : f = n \/ f \in Active
       /\ \A f \in Active : f # e => f \in Active'
       /\ e \in Active' => x.phase = "starting" /\ x.todo # {}
  <2>1. n # e /\ n \notin Active
    BY <1>9
  <2>2. exec'[n] = job /\ exec'[e] = x /\ \A f \in Exec : f # n /\ f # e => exec'[f] = exec[f]
    BY <1>10, <2>1
  <2>3. x.phase = "idle" \/ (x.phase = "starting" /\ x.todo # {})
    BY <1>8, IdleFacts
  <2>4. n \in Active'
    BY <1>7, <2>2 DEF Active
  <2>5. \A f \in Active : f # e => f # n /\ f \in Active'
    BY <2>1, <2>2 DEF Active
  <2>6. \A f \in Active' : f = n \/ f \in Active
    BY <1>1, <2>2 DEF Active
  <2>7. e \in Active' => x.phase = "starting" /\ x.todo # {}
    BY <2>2, <2>3 DEF Active
  <2> QED
    BY <2>4, <2>5, <2>6, <2>7 DEF Active
<1>13. \A j \in StepNo : j # k =>
         /\ \A g \in HostsOf(j) : host'[j][g] = host[j][g]
         /\ AllDone(j) => AllDone(j)'
         /\ AllPending(j) => AllPending(j)'
  <2>1. \A j \in StepNo : j # k => \A g \in HostsOf(j) : host'[j][g] = host[j][g]
    BY <1>11, PlanFacts
  <2> QED
    BY <2>1 DEF AllDone, AllPending
<1>14. \A g \in S : host[k][g] # Pending => host'[k][g] = host[k][g]
  BY <1>1, <1>4, <1>5, <1>11
<1>15. ~AllDone(k) /\ host[k][h] = Pending /\ host'[k][h] = Running /\ pattern'[k] = Running
  BY <1>1, <1>2, <1>4, <1>5, <1>11, StatusFacts DEF AllDone
<1>16. Fresh' /\ Asked'
  BY <1>1, <1>9, ActiveFacts DEF Fresh, Asked
<1>17. Shown'
  <2> SUFFICES ASSUME NEW j \in StepNo
               PROVE  /\ pattern'[j] = Done => AllDone(j)'
                      /\ pattern'[j] = Pending => AllPending(j)'
                      /\ pattern'[j] = Failed => \E g \in HostsOf(j) : host'[j][g] = Failed
                      /\ HostsOf(j) = {} => pattern'[j] = Pending
                      /\ \A g \in Host : HostsOf(j) = {g} => pattern'[j] = host'[j][g]
    BY DEF Shown
  <2>1. CASE j # k
    <3>1. pattern'[j] = pattern[j] /\ \A g \in HostsOf(j) : host'[j][g] = host[j][g]
      BY <1>11, <1>13, <2>1
    <3> QED
      BY <3>1 DEF ChainInv, Shown, AllDone, AllPending
  <2>2. CASE j = k
    <3>1. \A g \in Host : HostsOf(k) = {g} => g = h
      BY <1>2, <1>5
    <3> QED
      BY <1>2, <1>4, <1>15, <2>2, <3>1, StatusFacts
  <2> QED
    BY <2>1, <2>2
<1>18. Frontier'
  <2> SUFFICES ASSUME NEW j \in StepNo, NEW l \in StepNo, j < l
               PROVE  AllDone(j)' \/ AllPending(l)'
    BY DEF Frontier
  <2>1. AllDone(j) \/ AllPending(l)
    BY DEF ChainInv, Frontier
  <2>2. CASE l = k
    <3>1. AllDone(j) /\ j # k
      BY <1>1, <1>2, <1>4, <2>2, BeforeStart
    <3> QED
      BY <1>13, <3>1
  <2>3. CASE l # k /\ j # k
    BY <1>13, <2>1, <2>3
  <2>4. CASE l # k /\ j = k
    BY <1>13, <1>15, <2>1, <2>4
  <2> QED
    BY <2>2, <2>3, <2>4
<1>19. \A f \in Active : f # e => f \in Exec /\ f # n /\ exec'[f] = exec[f]
  BY <1>9, <1>10, <1>12
<1>20. Placed(n)' /\ Chained(n)' /\ Front(n)' = k
  <2>1. exec'[n] = job
    BY <1>10
  <2>2. Placed(n)'
    BY <1>2, <1>5, <1>7, <1>15, <2>1 DEF Placed, AtWork
  <2>3. Front(n)' = k
    BY <1>7, <2>1 DEF Front
  <2>4. ASSUME NEW l \in Steps(job.rest)
        PROVE  /\ k < l /\ job.rest[l] = HostsOf(l) /\ HostsOf(l) # {}
               /\ \A j \in StepNo : k < j /\ j < l => j \in Steps(job.rest) \/ HostsOf(j) = {}
               /\ \A p \in Pauses : ~(k < p /\ p < l)
    <3>1. job.rest = Later(rest)
      BY <1>7, <2>4, RestFacts
    <3>2. /\ Steps(job.rest) = Steps(rest) \ {k} /\ job.rest[l] = rest[l] /\ k < l
          /\ l \in Steps(rest)
      BY <1>2, <1>3, <2>4, <3>1, LaterFacts
    <3>3. /\ rest[l] = HostsOf(l) /\ HostsOf(l) # {}
          /\ \A j \in StepNo : i < j /\ j < l => j \in Steps(rest) \/ HostsOf(j) = {}
          /\ \A p \in Pauses : ~(i < p /\ p < l)
      BY <1>2, <1>3, <3>2 DEF Chained
    <3>4. \A j \in StepNo : k < j => i < j /\ j # k
      BY <1>4, PlanFacts
    <3>5. \A p \in Pauses : p \in StepNo
      BY PlanFacts
    <3> QED
      BY <3>2, <3>3, <3>4, <3>5
  <2>5. Chained(n)'
    BY <1>7, <2>1, <2>4 DEF Chained
  <2> QED
    BY <2>2, <2>3, <2>5
<1>21. \A j \in StepNo : k < j => AllPending(j)'
  <2>1. \A j \in StepNo : k < j => j # k /\ AllPending(j)
    BY <1>3, <1>4 DEF Ahead
  <2> QED
    BY <1>13, <2>1
<1>22. e \in Active' => Placed(e)' /\ Chained(e)' /\ Front(e)' = k
  <2> SUFFICES ASSUME e \in Active'
               PROVE  Placed(e)' /\ Chained(e)' /\ Front(e)' = k
    OBVIOUS
  <2>1. /\ exec'[e] = x /\ x.phase = "starting" /\ x.step = i /\ x.host = exec[e].host
        /\ x.rest = rest
    BY <1>8, <1>9, <1>10, <1>12, IdleFacts
  <2>2. /\ exec[e].host \in HostsOf(i) /\ host'[i][exec[e].host] = Done
    BY <1>2, <1>3, <1>4, <1>13 DEF Placed
  <2>3. Placed(e)'
    BY <1>3, <2>1, <2>2 DEF Placed, AtWork
  <2>4. Chained(e)'
    BY <1>2, <1>3, <2>1 DEF Chained
  <2>5. Front(e)' = k
    BY <1>2, <2>1 DEF Front
  <2> QED
    BY <2>3, <2>4, <2>5
<1>23. \A f \in Active : f # e => Placed(f)' /\ Chained(f)' /\ Front(f)' = k
  <2> SUFFICES ASSUME NEW f \in Active, f # e
               PROVE  Placed(f)' /\ Chained(f)' /\ Front(f)' = k
    OBVIOUS
  <2>1. /\ exec'[f] = exec[f] /\ exec[f].step = k /\ exec[f].phase # "starting"
        /\ Placed(f) /\ Chained(f) /\ seen'[f] = seen[f]
    BY <1>5, <1>9, <1>19, ActiveFacts
  <2>2. Front(f)' = k
    BY <2>1 DEF Front
  <2>3. Placed(f)'
    BY <1>2, <1>14, <2>1, StatusFacts DEF Placed, AtWork
  <2>4. Chained(f)'
    BY <2>1 DEF Chained
  <2> QED
    BY <2>2, <2>3, <2>4
<1>24. \A f \in Active' : Placed(f)' /\ Chained(f)' /\ Ahead(f)'
  <2> SUFFICES ASSUME NEW f \in Active'
               PROVE  Placed(f)' /\ Chained(f)' /\ Ahead(f)'
    OBVIOUS
  <2>1. Placed(f)' /\ Chained(f)' /\ Front(f)' = k
    BY <1>12, <1>20, <1>22, <1>23
  <2> QED
    BY <1>21, <2>1 DEF Ahead
<1>25. \A f \in Exec : Carries(f)' => (f = n /\ h = First(S)) \/ (f # e /\ f # n /\ Carries(f))
  <2> SUFFICES ASSUME NEW f \in Exec, Carries(f)', f # n
               PROVE  f # e /\ Carries(f)
    BY <1>7, <1>10 DEF Carries
  <2>1. f \in Active' /\ f \in Active /\ f # e
    BY <1>10, <1>12 DEF Carries
  <2> QED
    BY <1>19, <2>1 DEF Carries
<1>26. \A f \in Active' : exec'[f].phase = "starting" => Starts(f)'
  <2> SUFFICES ASSUME NEW f \in Active', exec'[f].phase = "starting"
               PROVE  Starts(f)'
    OBVIOUS
  <2>1. f = e
    BY <1>5, <1>7, <1>10, <1>12, <1>19
  <2>2. /\ exec'[e] = x /\ x.todo = exec[e].todo \ {h} /\ x.todo # {} /\ x.step = i
        /\ x.rest = rest /\ Front(e)' = k
    BY <1>8, <1>9, <1>10, <1>12, <1>22, <2>1, IdleFacts
  <2>3. \A g \in x.todo : host'[k][g] = Pending
    BY <1>4, <1>5, <1>11, <2>2
  <2>4. \A g \in Active' \ {e} : exec'[g].phase # "starting" /\ exec'[g].step = k
    BY <1>5, <1>7, <1>10, <1>12, <1>19
  <2>5. First(S) \in x.todo => \A g \in Active' \ {e} : ~Carries(g)'
    <3> SUFFICES ASSUME First(S) \in x.todo, NEW g \in Active' \ {e}, Carries(g)'
                 PROVE  FALSE
      OBVIOUS
    <3>1. First(S) \in exec[e].todo /\ First(S) # h
      BY <2>2
    <3>2. g \in Active \ {e} /\ Carries(g)
      BY <1>12, <1>25, <3>1 DEF Active
    <3> QED
      BY <1>5, <3>1, <3>2
  <2>6. AllDone(exec[e].step)'
    <3>1. AllDone(i) /\ i # k
      BY <1>4, <1>5
    <3> QED
      BY <1>13, <1>4, <2>2, <3>1 DEF AllDone
  <2> QED
    BY <1>4, <1>5, <2>1, <2>2, <2>3, <2>4, <2>5, <2>6 DEF Starts
<1>27. Executions'
  BY <1>24, <1>26 DEF Executions
<1>28. \A f \in Exec : AtWork(f)' <=> f = n \/ AtWork(f)
  BY <1>3, <1>7, <1>8, <1>9, <1>10, IdleFacts DEF AtWork, Active
<1>29. \A f \in Exec : AtWork(f) => f # n /\ f # e /\ exec'[f] = exec[f]
  BY <1>3, <1>9, <1>10 DEF AtWork, Active
<1>30. Attended'
  <2> SUFFICES ASSUME NEW j \in StepNo, NEW g \in HostsOf(j), host'[j][g] = Running
               PROVE  \E f \in Exec : AtWork(f)' /\ exec'[f].step = j /\ exec'[f].host = g
    BY DEF Attended
  <2>1. CASE j = k /\ g = h
    BY <1>7, <1>10, <1>28, <2>1
  <2>2. CASE ~(j = k /\ g = h)
    <3>1. host[j][g] = Running
      BY <1>11, <2>2, PlanFacts
    <3>2. PICK f \in Exec : AtWork(f) /\ exec[f].step = j /\ exec[f].host = g
      BY <3>1 DEF ChainInv, Attended
    <3> QED
      BY <1>28, <1>29, <3>2
  <2> QED
    BY <2>1, <2>2
<1>31. OneWorker'
  <2>1. \A f \in Exec : AtWork(f) => ~(exec[f].step = k /\ exec[f].host = h)
    BY <1>15, ActiveFacts, StatusFacts DEF AtWork, Active
  <2>2. exec'[n].step = k /\ exec'[n].host = h
    BY <1>7, <1>10
  <2> QED
    BY <1>28, <1>29, <2>1, <2>2 DEF ChainInv, OneWorker
<1>32. OneCarrier'
  <2>1. h = First(S) => \A f \in Exec : f # e => ~Carries(f)
    BY <1>1, <1>5 DEF Carries
  <2> QED
    BY <1>25, <2>1 DEF ChainInv, OneCarrier
<1> QED
  BY <1>16, <1>17, <1>18, <1>27, <1>30, <1>31, <1>32 DEF ChainInv

(* A chain that can be run: what comes before its first step is done, nothing
   behind it is touched, and the steps that follow have no gap and no pause. *)
Suits(link, i) ==
  /\ \A j \in StepNo : j < i => AllDone(j)
  /\ \A j \in StepNo : i < j => AllPending(j)
  /\ \A l \in Steps(link) : l # i =>
       /\ link[l] = HostsOf(l)
       /\ \A j \in StepNo : i < j /\ j < l => j \in Steps(link) \/ HostsOf(j) = {}
       /\ \A p \in Pauses : ~(i < p /\ p < l)

LEMMA ReadyFacts ==
  ASSUME TypeOK, NEW i \in StepNo
  PROVE  /\ ReadyHosts(i) \subseteq HostsOf(i)
         /\ AllPending(i) => ReadyHosts(i) = HostsOf(i)
         /\ AllDone(i) => ReadyHosts(i) = {}
BY StatusFacts DEF ReadyHosts, AllPending, AllDone

LEMMA SentKeeps ==
  ASSUME ChainInv, Active = {}, NEW ids, ids \subseteq StepNo, NEW link \in Rests, NEW i \in StepNo,
         Chosen(ids, link, i), Suits(link, i), Sent(link, i, link[i]),
         started' = TRUE, listed' = {}, seen' = seen, TypeOK'
  PROVE  ChainInv'
<1>1. PICK S : S = link[i]
  OBVIOUS
<1>2. /\ TypeOK /\ link # NoRest /\ i = FirstStep(link)
      /\ S = ReadyHosts(i) /\ S # {} /\ S \subseteq HostsOf(i) /\ S \subseteq Host
      /\ HostsOf(i) \subseteq Host
      /\ \A l \in Steps(link) : l \in StepNo
  BY <1>1, ReadyFacts, PlanFacts, RestFacts DEF Chosen, ChainInv
<1>3. /\ host' = [host EXCEPT ![i] = [h \in Host |-> IF h \in S THEN Running ELSE host[i][h]]]
      /\ pattern' = [pattern EXCEPT ![i] = Running]
  BY <1>1 DEF Sent
<1>4. /\ \A j \in StepNo, g \in Host :
           host'[j][g] = IF j = i /\ g \in S THEN Running ELSE host[j][g]
      /\ \A j \in StepNo : pattern'[j] = IF j = i THEN Running ELSE pattern[j]
  BY <1>2, <1>3 DEF TypeOK
<1>5. \A j \in StepNo : j # i =>
        /\ \A g \in HostsOf(j) : host'[j][g] = host[j][g]
        /\ AllDone(j) => AllDone(j)'
        /\ AllPending(j) => AllPending(j)'
  <2>1. \A j \in StepNo : j # i => \A g \in HostsOf(j) : host'[j][g] = host[j][g]
    BY <1>4, PlanFacts
  <2> QED
    BY <2>1 DEF AllDone, AllPending
<1>6. \A e \in Exec : exec[e].phase = "idle"
  BY DEF Active
<1>7. \A e \in Active' : e \in Exec /\ \E h \in S : exec'[e] = Job(link, h)
  BY <1>1, <1>6 DEF Sent, Active
<1>8. \A h \in S :
        /\ Job(link, h).phase = "script" /\ Job(link, h).host = h /\ Job(link, h).step = i
        /\ Job(link, h).rest \in {NoRest, Later(link)}
        /\ Job(link, h).rest # NoRest => h = First(S)
  BY <1>1, <1>2, JobFacts
<1>9. ASSUME NEW e \in Active'
      PROVE  \E h \in S :
               /\ e \in Exec /\ exec'[e] = Job(link, h)
               /\ exec'[e].phase = "script" /\ exec'[e].host = h /\ exec'[e].step = i
               /\ exec'[e].rest \in {NoRest, Later(link)}
               /\ exec'[e].rest # NoRest => h = First(S)
  BY <1>7, <1>8
<1>10. \A e \in Active', f \in Active' : exec'[e].host = exec'[f].host => e = f
  <2> SUFFICES ASSUME NEW e \in Active', NEW f \in Active', exec'[e].host = exec'[f].host
               PROVE  e = f
    OBVIOUS
  <2>1. PICK h \in S : e \in Exec /\ f \in Exec /\ exec'[e] = Job(link, h) /\ exec'[f] = Job(link, h)
    BY <1>9
  <2> QED
    BY <1>1, <2>1 DEF Sent
<1>11. Fresh' /\ Asked'
  BY DEF Fresh, Asked
<1>12. Shown'
  <2> SUFFICES ASSUME NEW j \in StepNo
               PROVE  /\ pattern'[j] = Done => AllDone(j)'
                      /\ pattern'[j] = Pending => AllPending(j)'
                      /\ pattern'[j] = Failed => \E g \in HostsOf(j) : host'[j][g] = Failed
                      /\ HostsOf(j) = {} => pattern'[j] = Pending
                      /\ \A g \in Host : HostsOf(j) = {g} => pattern'[j] = host'[j][g]
    BY DEF Shown
  <2>1. CASE j # i
    <3>1. pattern'[j] = pattern[j] /\ \A g \in HostsOf(j) : host'[j][g] = host[j][g]
      BY <1>4, <1>5, <2>1
    <3> QED
      BY <3>1 DEF ChainInv, Shown, AllDone, AllPending
  <2>2. CASE j = i
    <3>1. \A g \in Host : HostsOf(i) = {g} => g \in S
      BY <1>2
    <3>2. \A g \in Host : HostsOf(i) = {g} => host'[i][g] = Running
      BY <1>4, <3>1
    <3> QED
      BY <1>2, <1>4, <2>2, <3>2, StatusFacts
  <2> QED
    BY <2>1, <2>2
<1>13. Frontier'
  <2> SUFFICES ASSUME NEW j \in StepNo, NEW l \in StepNo, j < l
               PROVE  AllDone(j)' \/ AllPending(l)'
    BY DEF Frontier
  <2>1. j \in Nat /\ l \in Nat
    BY PlanFacts
  <2>2. AllDone(j) \/ AllPending(l)
    BY DEF ChainInv, Frontier
  <2>3. CASE l = i
    BY <1>5, <2>1, <2>3 DEF Suits
  <2>4. CASE l # i /\ j # i
    BY <1>5, <2>2, <2>4
  <2>5. CASE l # i /\ j = i
    BY <1>5, <2>5 DEF Suits
  <2> QED
    BY <2>3, <2>4, <2>5
<1>14. \A j \in StepNo : i < j => AllPending(j)'
  <2>1. \A j \in StepNo : i < j => j # i /\ AllPending(j)
    BY PlanFacts DEF Suits
  <2> QED
    BY <1>5, <2>1
<1>15. \A e \in Active' : Placed(e)' /\ Chained(e)' /\ Ahead(e)' /\ exec'[e].phase # "starting"
  <2> SUFFICES ASSUME NEW e \in Active'
               PROVE  Placed(e)' /\ Chained(e)' /\ Ahead(e)' /\ exec'[e].phase # "starting"
    OBVIOUS
  <2>1. PICK h \in S :
          /\ exec'[e].phase = "script" /\ exec'[e].host = h /\ exec'[e].step = i
          /\ exec'[e].rest \in {NoRest, Later(link)}
    BY <1>9
  <2>2. Placed(e)'
    BY <1>2, <1>4, <2>1 DEF Placed, AtWork
  <2>3. ASSUME NEW l \in Steps(exec'[e].rest)
        PROVE  /\ i < l /\ exec'[e].rest[l] = HostsOf(l) /\ HostsOf(l) # {}
               /\ \A j \in StepNo : i < j /\ j < l => j \in Steps(exec'[e].rest) \/ HostsOf(j) = {}
               /\ \A p \in Pauses : ~(i < p /\ p < l)
    <3>1. exec'[e].rest = Later(link)
      BY <2>1, <2>3, RestFacts
    <3>2. /\ Steps(exec'[e].rest) = Steps(link) \ {i} /\ exec'[e].rest[l] = link[l] /\ i < l
          /\ l \in Steps(link)
      BY <1>2, <2>3, <3>1, LaterFacts
    <3>3. /\ link[l] = HostsOf(l) /\ link[l] # {}
          /\ \A j \in StepNo : i < j /\ j < l => j \in Steps(link) \/ HostsOf(j) = {}
          /\ \A p \in Pauses : ~(i < p /\ p < l)
      BY <2>3, <3>2, RestFacts DEF Suits
    <3>4. \A j \in StepNo : i < j => j # i
      BY PlanFacts
    <3> QED
      BY <3>2, <3>3, <3>4
  <2>4. Chained(e)'
    BY <2>1, <2>3 DEF Chained
  <2>5. Ahead(e)'
    BY <1>14, <2>1 DEF Ahead, Front
  <2> QED
    BY <2>1, <2>2, <2>4, <2>5
<1>16. Executions'
  BY <1>15 DEF Executions
<1>17. Attended'
  <2> SUFFICES ASSUME NEW j \in StepNo, NEW g \in HostsOf(j), host'[j][g] = Running
               PROVE  \E f \in Exec : AtWork(f)' /\ exec'[f].step = j /\ exec'[f].host = g
    BY DEF Attended
  <2>1. CASE j = i /\ g \in S
    <3>1. PICK f \in Exec : exec'[f] = Job(link, g)
      BY <1>1, <2>1 DEF Sent
    <3> QED
      BY <1>8, <2>1, <3>1 DEF AtWork
  <2>2. CASE ~(j = i /\ g \in S)
    <3>1. host[j][g] = Running
      BY <1>4, <2>2, PlanFacts
    <3>2. PICK f \in Exec : AtWork(f)
      BY <3>1 DEF ChainInv, Attended
    <3> QED
      BY <1>6, <3>2 DEF AtWork
  <2> QED
    BY <2>1, <2>2
<1>18. OneWorker'
  <2>1. \A f \in Exec : AtWork(f)' => f \in Active'
    BY DEF AtWork, Active
  <2> QED
    BY <1>10, <2>1 DEF OneWorker
<1>19. OneCarrier'
  <2>1. \A f \in Exec : Carries(f)' => f \in Active' /\ exec'[f].host = First(S)
    BY <1>9 DEF Carries
  <2> QED
    BY <1>10, <2>1 DEF OneCarrier
<1> QED
  BY <1>11, <1>12, <1>13, <1>16, <1>17, <1>18, <1>19 DEF ChainInv

(* A request that finds nothing to run. *)
LEMMA NothingKeeps ==
  ASSUME ChainInv, UNCHANGED <<host, pattern, exec, seen>>, TypeOK', Active = {},
         started' = TRUE, listed' = {}
  PROVE  ChainInv'
<1>1. Active' = {}
  BY DEF Active
<1>2. Fresh' /\ Asked'
  BY DEF Fresh, Asked
<1>3. Shown' /\ Frontier' /\ Attended' /\ OneWorker'
  BY DEF ChainInv, Shown, Frontier, AllDone, AllPending, Attended, OneWorker, AtWork
<1>4. Executions' /\ OneCarrier'
  BY <1>1 DEF Executions, OneCarrier, Carries
<1> QED
  BY <1>2, <1>3, <1>4 DEF ChainInv

(* When nothing is under way, no host runs: the hosts that are not ready are
   done. *)
LEMMA AtRest ==
  ASSUME ChainInv, Active = {}, NEW i \in StepNo
  PROVE  /\ \A h \in HostsOf(i) : host[i][h] # Running
         /\ ReadyHosts(i) = {} <=> AllDone(i)
<1>1. \A h \in HostsOf(i) : host[i][h] # Running
  BY DEF ChainInv, Attended, AtWork, Active
<1>2. \A h \in HostsOf(i) : host[i][h] \in Statuses
  BY PlanFacts DEF ChainInv, TypeOK
<1>3. \A h \in HostsOf(i) : host[i][h] \in {Pending, Failed} <=> host[i][h] # Done
  BY <1>1, <1>2, StatusFacts
<1> QED
  BY <1>1, <1>3 DEF ReadyHosts, AllDone

BeforePauses == {i \in StepNo : /\ Plan[i].action # RollbackNotice
                                /\ \A p \in Pauses : i < p}

LEMMA OperationSuits ==
  ASSUME ChainInv, ~started, NEW link, NEW i \in StepNo, Chosen(BeforePauses, link, i)
  PROVE  Suits(link, i)
<1>1. \A j \in StepNo : AllPending(j) /\ ReadyHosts(j) = HostsOf(j) /\ j \in Nat
  BY ReadyFacts, PlanFacts DEF ChainInv, Fresh
<1>2. /\ link = Link(BeforePauses) /\ i \in BeforePauses
      /\ \A k \in BeforePauses : HostsOf(k) # {} => i <= k
  BY <1>1 DEF Chosen, BeforePauses
<1>3. BeforePauses \subseteq StepNo
  BY DEF BeforePauses
<1>4. /\ Steps(link) = {k \in BeforePauses : HostsOf(k) # {}}
      /\ \A l \in Steps(link) : link[l] = HostsOf(l)
  BY <1>1, <1>2, <1>3, LinkFacts
<1>5. ASSUME NEW l \in BeforePauses, NEW j \in StepNo, j < l
      PROVE  j \in BeforePauses \/ HostsOf(j) = {}
  <2>1. \A p \in Pauses : j < p
    BY <1>1, <1>5, PlanFacts DEF BeforePauses
  <2> QED
    BY <2>1, PlanFacts DEF BeforePauses
<1>6. ASSUME NEW j \in StepNo, j < i
      PROVE  AllDone(j)
  <2>1. HostsOf(j) = {}
    BY <1>1, <1>2, <1>5, <1>6
  <2> QED
    BY <2>1 DEF AllDone
<1>7. ASSUME NEW l \in Steps(link)
      PROVE  /\ \A j \in StepNo : j < l => j \in Steps(link) \/ HostsOf(j) = {}
             /\ \A p \in Pauses : ~(p < l)
  <2>1. l \in BeforePauses
    BY <1>4, <1>7
  <2>2. \A p \in Pauses : l < p /\ l \in Nat /\ p \in Nat
    BY <1>1, <1>3, <2>1, PlanFacts DEF BeforePauses
  <2> QED
    BY <1>4, <1>5, <2>1, <2>2
<1> QED
  BY <1>1, <1>4, <1>6, <1>7 DEF Suits

LEMMA RetrySuits ==
  ASSUME ChainInv, Active = {}, NEW link, NEW i \in StepNo, Chosen(RetryList, link, i)
  PROVE  Suits(link, i)
<1>1. TypeOK /\ RetryList \subseteq StepNo /\ StepNo \subseteq Nat
  BY RetryListType, PlanFacts DEF ChainInv
<1>2. /\ link = Link(RetryList) /\ i \in RetryList /\ ReadyHosts(i) # {}
      /\ \A k \in RetryList : ReadyHosts(k) # {} => i <= k
  BY DEF Chosen
<1>3. /\ Steps(link) = {k \in RetryList : ReadyHosts(k) # {}}
      /\ \A l \in Steps(link) : link[l] = ReadyHosts(l)
  BY <1>1, <1>2, LinkFacts
<1>4. \A j \in StepNo : HostsOf(j) # {} /\ AllPending(j) => pattern[j] # Done
  BY StatusFacts DEF ChainInv, Shown, AllDone, AllPending
<1>5. \A p \in Pauses : p \in Unfinished
  BY PlanFacts, StatusFacts DEF ChainInv, Shown, Unfinished
<1>6. ASSUME NEW j \in StepNo, i < j
      PROVE  AllPending(j) /\ ReadyHosts(j) = HostsOf(j)
  <2>1. ~AllDone(i)
    BY <1>2, AtRest
  <2> QED
    BY <1>1, <1>6, <2>1, ReadyFacts DEF ChainInv, Frontier
<1>7. ASSUME NEW l \in RetryList, NEW j \in StepNo, j < l
      PROVE  j \in RetryList \/ HostsOf(j) = {} \/ pattern[j] = Done
  <2> SUFFICES ASSUME j \in Unfinished
               PROVE  j \in RetryList
    BY PlanFacts DEF Unfinished
  <2>1. ASSUME NEW p \in Pauses \cap Unfinished, p <= j, NEW u \in Unfinished, u < p
        PROVE  FALSE
    <3>1. p <= l
      BY <1>1, <1>7, <2>1, PlanFacts
    <3> QED
      BY <2>1, <3>1 DEF RetryList
  <2> QED
    BY <2>1 DEF RetryList
<1>8. ASSUME NEW j \in StepNo, j < i
      PROVE  AllDone(j)
  <2>1. CASE pattern[j] = Done
    BY <2>1 DEF ChainInv, Shown
  <2>2. CASE HostsOf(j) = {}
    BY <2>2 DEF AllDone
  <2>3. CASE j \in RetryList
    <3>1. ReadyHosts(j) = {}
      BY <1>1, <1>2, <1>8, <2>3
    <3> QED
      BY <3>1, AtRest
  <2> QED
    BY <1>2, <1>7, <1>8, <2>1, <2>2, <2>3
<1>9. ASSUME NEW l \in Steps(link), l # i
      PROVE  /\ link[l] = HostsOf(l)
             /\ \A j \in StepNo : i < j /\ j < l => j \in Steps(link) \/ HostsOf(j) = {}
             /\ \A p \in Pauses : ~(i < p /\ p < l)
  <2>1. l \in RetryList /\ ReadyHosts(l) # {} /\ l \in StepNo /\ l \in Nat /\ i \in Nat
    BY <1>1, <1>3, <1>9
  <2>2. i < l
    BY <1>2, <1>9, <2>1
  <2>3. link[l] = HostsOf(l)
    BY <1>3, <1>6, <1>9, <2>1, <2>2
  <2>4. ASSUME NEW j \in StepNo, i < j, j < l
        PROVE  j \in Steps(link) \/ HostsOf(j) = {}
    <3>1. AllPending(j) /\ ReadyHosts(j) = HostsOf(j)
      BY <1>6, <2>4
    <3> QED
      BY <1>3, <1>4, <1>7, <2>1, <2>4, <3>1
  <2>5. ASSUME NEW p \in Pauses, i < p, p < l
        PROVE  FALSE
    <3>1. i \in Unfinished /\ p \in Unfinished /\ p <= l
      BY <1>1, <1>2, <1>5, <2>1, <2>5, PlanFacts DEF RetryList
    <3> QED
      BY <2>1, <2>5, <3>1 DEF RetryList
  <2> QED
    BY <2>3, <2>4, <2>5
<1> QED
  BY <1>6, <1>8, <1>9 DEF Suits

LEMMA OperationKeeps ==
  ASSUME ChainInv, RollbackOperation, TypeOK'
  PROVE  ChainInv'
<1>1. /\ ~started /\ started' = TRUE /\ Run(BeforePauses) /\ UNCHANGED <<seen, listed, failures>>
      /\ BeforePauses \subseteq StepNo
  BY DEF RollbackOperation, BeforePauses
<1>2. TypeOK /\ Active = {} /\ listed = {}
  BY <1>1 DEF ChainInv, Fresh, Quiet
<1>3. CASE UNCHANGED <<host, pattern, exec>>
  BY <1>1, <1>2, <1>3, NothingKeeps
<1>4. ASSUME NEW link \in Rests, NEW i \in StepNo,
             Chosen(BeforePauses, link, i), Sent(link, i, link[i])
      PROVE  ChainInv'
  <2>1. Suits(link, i)
    BY <1>1, <1>4, OperationSuits
  <2> QED
    BY <1>1, <1>2, <1>4, <2>1, SentKeeps
<1> QED
  BY <1>1, <1>2, <1>3, <1>4, RunFacts

LEMMA RetryReadKeeps ==
  ASSUME Patient = TRUE, ChainInv, RetryRead, TypeOK'
  PROVE  ChainInv'
<1>1. /\ started /\ Active = {} /\ listed' = RetryList
      /\ UNCHANGED <<host, pattern, started, exec, seen, failures>>
  BY DEF RetryRead, Quiet
<1>2. Active' = {} /\ RetryList' = RetryList
  BY <1>1 DEF Active, RetryList, Unfinished
<1>3. Fresh' /\ Asked'
  BY <1>1, <1>2 DEF Fresh, Asked
<1>4. Shown' /\ Frontier' /\ Attended' /\ OneWorker'
  BY <1>1 DEF ChainInv, Shown, Frontier, AllDone, AllPending, Attended, OneWorker, AtWork
<1>5. Executions' /\ OneCarrier'
  BY <1>2 DEF Executions, OneCarrier, Carries
<1> QED
  BY <1>3, <1>4, <1>5 DEF ChainInv

LEMMA RetryRunKeeps ==
  ASSUME ChainInv, RetryRun, TypeOK'
  PROVE  ChainInv'
<1>1. /\ started /\ Active = {} /\ listed = RetryList /\ TypeOK /\ RetryList \subseteq StepNo
      /\ listed' = {} /\ UNCHANGED <<started, seen, failures>>
  BY RetryListType DEF RetryRun, ChainInv, Asked
<1>2. started' = TRUE
  <2>1. started \in BOOLEAN
    BY <1>1 DEF TypeOK
  <2>2. started = TRUE
    BY <1>1, <2>1, Zenon
  <2> QED
    BY <1>1, <2>2
<1>3. CASE UNCHANGED <<host, pattern, exec>>
  BY <1>1, <1>2, <1>3, NothingKeeps
<1>4. CASE Run(RetryList)
  <2>1. ASSUME NEW link \in Rests, NEW i \in StepNo,
               Chosen(RetryList, link, i), Sent(link, i, link[i])
        PROVE  ChainInv'
    <3>1. Suits(link, i)
      BY <1>1, <2>1, RetrySuits
    <3> QED
      BY <1>1, <1>2, <2>1, <3>1, SentKeeps
  <2> QED
    BY <1>1, <1>3, <1>4, <2>1, RunFacts
<1> QED
  BY <1>1, <1>3, <1>4 DEF RetryRun

LEMMA ChainHasRest == ChainInv => HasRest
<1> SUFFICES ASSUME ChainInv, NEW e \in Active
             PROVE  /\ exec[e].phase \in {"check", "starting"} => exec[e].rest # NoRest
                    /\ exec[e].phase = "starting" =>
                         exec[e].todo \subseteq exec[e].rest[FirstStep(exec[e].rest)]
  BY DEF HasRest
<1> QED
  BY ActiveFacts DEF AtWork, Starts, Front

LEMMA ChainNext == Patient = TRUE => (ChainInv /\ [Next]_vars => ChainInv')
<1> SUFFICES ASSUME Patient = TRUE, ChainInv, [Next]_vars
             PROVE  ChainInv'
  OBVIOUS
<1>1. TypeOK'
  BY TypeNext, ChainHasRest DEF ChainInv
<1>2. CASE RollbackOperation
  BY <1>1, <1>2, OperationKeeps
<1>3. CASE RetryRead
  BY <1>1, <1>3, RetryReadKeeps
<1>4. CASE RetryRun
  BY <1>1, <1>4, RetryRunKeeps
<1>5. ASSUME NEW e \in Exec, Worker(e)
      PROVE  ChainInv'
  <2>1. CASE ScriptEnds(e)
    BY <1>1, <2>1, ScriptEndsKeeps
  <2>2. CASE Record(e)
    BY <1>1, <2>2, RecordKeeps
  <2>3. CASE Poll(e)
    BY <1>1, <2>3, PollKeeps
  <2>4. CASE GiveUp(e)
    BY <1>1, <2>4, GiveUpKeeps
  <2>5. CASE \E n \in Exec, h \in Host : StartNext(e, n, h)
    <3>1. PICK n \in Exec, h \in Host : StartNext(e, n, h)
      BY <2>5
    <3> QED
      BY <1>1, <3>1, StartNextKeeps
  <2>6. \/ ScriptEnds(e) \/ Record(e) \/ Poll(e) \/ GiveUp(e)
        \/ \E n \in Exec, h \in Host : StartNext(e, n, h)
    BY <1>5 DEF Worker
  <2> QED
    BY <2>6, <2>1, <2>2, <2>3, <2>4, <2>5
<1>6. CASE UNCHANGED vars
  <2>1. UNCHANGED <<host, pattern, started, exec, seen, listed>>
    BY <1>6 DEF vars
  <2>2. Active' = Active /\ RetryList' = RetryList
    BY <2>1 DEF Active, RetryList, Unfinished
  <2>3. Fresh' /\ Asked'
    BY <2>1, <2>2 DEF ChainInv, Fresh, Quiet, AllPending, Asked
  <2>4. Shown' /\ Frontier'
    BY <2>1 DEF ChainInv, Shown, Frontier, AllDone, AllPending
  <2>5. Executions'
    BY <2>1, <2>2 DEF ChainInv, Executions, Placed, Chained, Ahead, Front, Starts, Carries,
       AllDone, AllPending, AtWork
  <2>6. Attended' /\ OneWorker' /\ OneCarrier'
    BY <2>1, <2>2 DEF ChainInv, Attended, OneWorker, OneCarrier, Carries, AtWork
  <2> QED
    BY <1>1, <2>3, <2>4, <2>5, <2>6 DEF ChainInv
<1> QED
  BY <1>2, <1>3, <1>4, <1>5, <1>6 DEF Next

(* The invariant of a patient operator's rollback. *)
THEOREM ChainInvariance == Patient = TRUE => (Spec => []ChainInv)
<1> SUFFICES ASSUME Patient = TRUE
             PROVE  Spec => []ChainInv
  OBVIOUS
<1>1. Init => ChainInv
  BY ChainInit
<1>2. ChainInv /\ [Next]_vars => ChainInv'
  BY ChainNext
<1> QED
  BY <1>1, <1>2, PTL DEF Spec

-----------------------------------------------------------------------------
(* What follows from the invariant. *)

(* "A host that has a task running is skipped": no host ever has two scripts of
   the rollback under way, however the chain and the requests interleave. *)
THEOREM OneScriptOnAHost == Patient = TRUE => (Spec => []OneScriptPerHost)
<1>1. ChainInv => OneScriptPerHost
  BY SameStep DEF OneScriptPerHost, AtWork, Active
<1> QED
  BY <1>1, ChainInvariance, PTL

(* A repeated request is refused, when nothing is under way, only because of a
   step of several hosts whose callbacks overlapped. *)
THEOREM RetryIsTakenAlways == Patient = TRUE => (Spec => []RetryIsTaken)
<1>1. ASSUME ChainInv, Quiet, Refused
      PROVE  \E i \in Working : pattern[i] = Running /\ Cardinality(HostsOf(i)) > 1
  <2>1. PICK i \in RetryList : pattern[i] = Running
    BY <1>1 DEF Refused
  <2>2. i \in StepNo /\ HostsOf(i) # {} /\ HostsOf(i) \subseteq Host
    BY <1>1, <2>1, RetryListType, PlanFacts, StatusFacts DEF ChainInv, Shown
  <2>3. IsFiniteSet(HostsOf(i))
    BY <2>2, HostAssumption, FS_Subset
  <2>4. Cardinality(HostsOf(i)) \in Nat /\ Cardinality(HostsOf(i)) # 0
    BY <2>2, <2>3, FS_CardinalityType, FS_EmptySet
  <2>5. ASSUME Cardinality(HostsOf(i)) = 1
        PROVE  FALSE
    <3>1. PICK h : HostsOf(i) = {h}
      BY <2>3, <2>5, FS_Singleton
    <3>2. h \in Host /\ h \in HostsOf(i)
      BY <2>2, <3>1
    <3>3. host[i][h] = Running
      BY <1>1, <2>1, <2>2, <3>1, <3>2 DEF ChainInv, Shown
    <3> QED
      BY <1>1, <2>2, <3>2, <3>3, AtRest DEF Quiet
  <2> QED
    BY <2>1, <2>2, <2>4, <2>5 DEF Working
<1>2. ChainInv => RetryIsTaken
  BY <1>1 DEF RetryIsTaken
<1> QED
  BY <1>2, ChainInvariance, PTL

(* With one pause at the most, a repeated request that is not refused begins
   with the first unfinished step that has hosts to run. *)
THEOREM RetryFindsWork ==
  ASSUME Patient = TRUE, \A p, q \in Pauses : p = q
  PROVE  Spec => []RetryFindsUnfinished
<1>1. ASSUME ChainInv, ~Refused, UnfinishedWork # {},
             NEW i, i = CHOOSE j \in UnfinishedWork : \A k \in UnfinishedWork : j <= k
      PROVE  i \in RetryList /\ ReadyHosts(i) # {}
  <2>1. UnfinishedWork \subseteq Unfinished /\ UnfinishedWork \subseteq StepNo
        /\ StepNo \subseteq Nat /\ TypeOK
    BY <1>1, PlanFacts DEF UnfinishedWork, Unfinished, Working, ChainInv
  <2>2. PICK t \in UnfinishedWork : \A u \in UnfinishedWork : <<u, t>> \notin OpToRel(<, Nat)
    BY <1>1, <2>1, NatLessThanWellFounded, WFMin
  <2>3. \A u \in UnfinishedWork : t <= u
    <3> SUFFICES ASSUME NEW u \in UnfinishedWork, u < t
                 PROVE  FALSE
      BY <2>1
    <3>1. <<u, t>> \in Nat \X Nat /\ <<u, t>>[1] < <<u, t>>[2]
      BY <2>1
    <3>2. <<u, t>> \in OpToRel(<, Nat)
      BY <3>1 DEF OpToRel
    <3> QED
      BY <2>2, <3>2
  <2>4. i \in UnfinishedWork /\ \A k \in UnfinishedWork : i <= k
    BY <1>1, <2>3
  <2>5. ASSUME NEW p \in Pauses, p <= i, NEW j \in Unfinished, j < p
        PROVE  FALSE
    <3>1. j \in StepNo /\ j \in Nat /\ p \in Nat /\ i \in Nat
      BY <2>1, <2>4, PlanFacts DEF Unfinished
    <3>2. j \notin Pauses
      BY <2>5, <3>1
    <3>3. j \in UnfinishedWork
      BY <3>1, <3>2, PlanFacts DEF Unfinished, UnfinishedWork, Working
    <3> QED
      BY <2>4, <2>5, <3>1, <3>3
  <2>6. i \in RetryList
    BY <2>1, <2>4, <2>5 DEF RetryList
  <2>7. pattern[i] # Running /\ pattern[i] # Done /\ i \in StepNo /\ HostsOf(i) # {}
    BY <1>1, <2>4, <2>6 DEF Refused, UnfinishedWork, Working
  <2>8. \/ AllPending(i)
        \/ \E h \in HostsOf(i) : host[i][h] = Failed
    BY <1>1, <2>1, <2>7, StatusFacts DEF ChainInv, Shown, TypeOK
  <2> QED
    BY <2>1, <2>6, <2>7, <2>8, ReadyFacts DEF ReadyHosts
<1>2. ChainInv => RetryFindsUnfinished
  BY <1>1 DEF RetryFindsUnfinished
<1> QED
  BY <1>2, ChainInvariance, PTL

-----------------------------------------------------------------------------
(* The rollback keeps the order RollbackOrder promises. *)

(* What the promise says in the words of the chain. *)
LEMMA OrderWords ==
  /\ \A i \in StepNo : /\ Order!Finished(i) <=> AllDone(i)
                       /\ Order!Untouched(i) <=> AllPending(i)
  /\ Order!Quiet <=> \A i \in StepNo : \A h \in HostsOf(i) : host[i][h] # Running
<1>1. \A i \in StepNo : [k \in StepNo |-> HostsOf(k)][i] = HostsOf(i)
  OBVIOUS
<1> QED
  BY <1>1 DEF Order!Finished, Order!Untouched, Order!Quiet, AllDone, AllPending,
     Order!Done, Order!Pending, Order!Running, Done, Pending, Running

(* Nothing that comes to rest leaves a host running. *)
LEMMA RestIsQuiet ==
  ASSUME ChainInv, Active = {}
  PROVE  Order!Quiet
<1>1. \A i \in StepNo : \A h \in HostsOf(i) : host[i][h] # Running
  BY AtRest
<1> QED
  BY <1>1, OrderWords

(* A step that starts no host and ends none is none of the promise's. *)
LEMMA OrderStutter ==
  ASSUME host' = host, (Active = {})' <=> Active = {}
  PROVE  UNCHANGED Order!vars
<1>1. (Active = {})' = (Active = {})
  OBVIOUS
<1> QED
  BY <1>1 DEF Order!vars

LEMMA OrderBegin ==
  ASSUME NEW i \in StepNo, NEW S \in SUBSET HostsOf(i), S # {},
         \A h \in S : host[i][h] \in {Pending, Failed},
         host' = [host EXCEPT ![i] = [h \in Host |-> IF h \in S THEN Running ELSE host[i][h]]],
         Active' # {}
  PROVE  Order!Begin(i)
<1>1. (Active = {})' = FALSE
  OBVIOUS
<1>2. S \in (SUBSET [k \in StepNo |-> HostsOf(k)][i]) \ {{}}
  OBVIOUS
<1>3. \A h \in S : host[i][h] \in {Order!Pending, Order!Failed}
  BY DEF Pending, Failed, Order!Pending, Order!Failed
<1>4. host' = [host EXCEPT ![i] =
                 [h \in Host |-> IF h \in S THEN Order!Running ELSE host[i][h]]]
  BY DEF Running, Order!Running
<1> QED
  BY <1>1, <1>2, <1>3, <1>4 DEF Order!Begin

(* A request begins the first step of its list. *)
LEMMA SentOrder ==
  ASSUME ChainInv, Active = {}, NEW ids, ids \subseteq StepNo, NEW link \in Rests, NEW i \in StepNo,
         Chosen(ids, link, i), Suits(link, i), Sent(link, i, link[i])
  PROVE  Order!Next
<1>1. PICK S : S = link[i]
  OBVIOUS
<1>2. /\ S = ReadyHosts(i) /\ S # {} /\ S \in SUBSET HostsOf(i)
      /\ link # NoRest /\ i = FirstStep(link)
  BY <1>1, ReadyFacts DEF Chosen, ChainInv
<1>3. \A h \in S : host[i][h] \in {Pending, Failed}
  BY <1>2 DEF ReadyHosts
<1>4. host' = [host EXCEPT ![i] = [h \in Host |-> IF h \in S THEN Running ELSE host[i][h]]]
  BY <1>1 DEF Sent
<1>5. Active' # {}
  <2>1. PICK h \in S : TRUE
    BY <1>2
  <2>2. PICK e \in Exec : exec'[e] = Job(link, h)
    BY <1>1, <2>1 DEF Sent
  <2>3. Job(link, h).phase = "script"
    BY <1>1, <1>2, JobFacts
  <2> QED
    BY <2>2, <2>3 DEF Active
<1>6. Order!Begin(i)
  BY <1>2, <1>3, <1>4, <1>5, OrderBegin
<1>7. Order!IsNext(i)
  BY OrderWords DEF Suits, Order!IsNext
<1>8. Order!Request(i)
  BY <1>6, <1>7 DEF Order!Request
<1> QED
  BY <1>8 DEF Order!Next

LEMMA OperationOrder ==
  ASSUME ChainInv, RollbackOperation
  PROVE  Order!Next \/ UNCHANGED Order!vars
<1>1. ~started /\ Run(BeforePauses) /\ BeforePauses \subseteq StepNo
  BY DEF RollbackOperation, BeforePauses
<1>2. TypeOK /\ Active = {}
  BY <1>1 DEF ChainInv, Fresh, Quiet
<1>3. CASE UNCHANGED <<host, pattern, exec>>
  <2>1. Active' = Active
    BY <1>3 DEF Active
  <2> QED
    BY <1>3, <2>1, OrderStutter
<1>4. ASSUME NEW link \in Rests, NEW i \in StepNo,
             Chosen(BeforePauses, link, i), Sent(link, i, link[i])
      PROVE  Order!Next
  <2>1. Suits(link, i)
    BY <1>1, <1>4, OperationSuits
  <2> QED
    BY <1>1, <1>2, <1>4, <2>1, SentOrder
<1> QED
  BY <1>1, <1>2, <1>3, <1>4, RunFacts

LEMMA RetryOrder ==
  ASSUME ChainInv, RetryRun
  PROVE  Order!Next \/ UNCHANGED Order!vars
<1>1. Active = {} /\ listed = RetryList /\ TypeOK /\ RetryList \subseteq StepNo
  BY RetryListType DEF RetryRun, ChainInv, Asked
<1>2. CASE UNCHANGED <<host, pattern, exec>>
  <2>1. Active' = Active
    BY <1>2 DEF Active
  <2> QED
    BY <1>2, <2>1, OrderStutter
<1>3. CASE Run(RetryList)
  <2>1. ASSUME NEW link \in Rests, NEW i \in StepNo,
               Chosen(RetryList, link, i), Sent(link, i, link[i])
        PROVE  Order!Next
    <3>1. Suits(link, i)
      BY <1>1, <2>1, RetrySuits
    <3> QED
      BY <1>1, <2>1, <3>1, SentOrder
  <2> QED
    BY <1>1, <1>2, <1>3, <2>1, RunFacts
<1> QED
  BY <1>1, <1>2, <1>3 DEF RetryRun

(* A completion ends its host; with the last one the work comes to rest. *)
LEMMA RecordOrder ==
  ASSUME ChainInv, NEW e \in Exec, Record(e), ChainInv'
  PROVE  Order!Next
<1>1. TypeOK /\ e \in Active /\ AtWork(e)
  BY RecordFacts DEF ChainInv, Active, AtWork
<1>2. PICK i, h, s : i = exec[e].step /\ h = exec[e].host /\ s = Result(e)
  OBVIOUS
<1>3. /\ i \in StepNo /\ h \in HostsOf(i) /\ host[i][h] = Running /\ s \in {Done, Failed}
      /\ host' = [host EXCEPT ![i][h] = s]
  BY <1>1, <1>2, ActiveFacts, RecordFacts
<1>4. Active' = {} => Order!Quiet'
  <2>1. Active' = {} => \A j \in StepNo : \A g \in HostsOf(j) : host'[j][g] # Running
    BY DEF ChainInv, Attended, AtWork, Active
  <2> QED
    BY <2>1 DEF Order!Quiet, Running, Order!Running
<1>5. (Active = {}) = FALSE
  BY <1>1
<1>6. (Active = {})' \in {Active = {}, Order!Quiet'}
  <2>1. CASE Active' = {}
    <3>1. Order!Quiet' /\ (Active = {})'
      BY <1>4, <2>1
    <3> QED
      BY <3>1, Zenon DEF Order!Quiet
  <2>2. CASE Active' # {}
    BY <1>5, <2>2
  <2> QED
    BY <2>1, <2>2
<1>7. Order!End(i, h)
  BY <1>3, <1>6 DEF Order!End, Order!Running, Running, Order!Done, Done, Order!Failed, Failed
<1>8. h \in [k \in StepNo |-> HostsOf(k)][i]
  BY <1>3
<1> QED
  BY <1>3, <1>7, <1>8 DEF Order!Next

(* A chain that ends at a step leaves the others to themselves, or rests. *)
LEMMA GiveUpOrder ==
  ASSUME ChainInv, NEW e \in Exec, GiveUp(e)
  PROVE  Order!Next \/ UNCHANGED Order!vars
<1>1. host' = host /\ exec' = [exec EXCEPT ![e] = Idle] /\ e \in Active /\ ~AtWork(e)
  BY DEF GiveUp, Active, AtWork
<1>2. CASE Active' # {}
  BY <1>1, <1>2, OrderStutter
<1>3. CASE Active' = {}
  <2>1. \A f \in Exec : ~AtWork(f)
    BY <1>1, <1>3 DEF Active, AtWork, ChainInv, TypeOK
  <2>2. \A i \in StepNo : \A h \in HostsOf(i) : host[i][h] # Running
    BY <2>1 DEF ChainInv, Attended
  <2>3. Order!Quiet
    BY <2>2, OrderWords
  <2>4. (Active = {})' = TRUE
    BY <1>3
  <2>5. Order!Rest
    BY <1>1, <2>3, <2>4 DEF Order!Rest
  <2> QED
    BY <2>5 DEF Order!Next
<1> QED
  BY <1>2, <1>3

(* The chain goes on to a host of the step that follows, over no pause. *)
LEMMA StartNextOrder ==
  ASSUME ChainInv, NEW e \in Exec, NEW n \in Exec, NEW h \in Host, StartNext(e, n, h)
  PROVE  Order!Next
<1>1. TypeOK /\ e \in Active /\ exec[e].phase = "starting" /\ h \in exec[e].todo
  BY StartNextFacts DEF ChainInv, Active
<1>2. PICK i, rest, k :
        i = exec[e].step /\ rest = exec[e].rest /\ k = FirstStep(rest)
  OBVIOUS
<1>3. /\ i \in StepNo /\ rest \in Rests /\ rest # NoRest /\ Starts(e) /\ Placed(e)
      /\ Front(e) = k /\ ~AtWork(e)
  BY <1>1, <1>2, ActiveFacts DEF AtWork, Front
<1>4. /\ k \in StepNo /\ i < k /\ rest[k] = HostsOf(k)
      /\ \A p \in Pauses : ~(i < p /\ p < k)
  BY <1>1, <1>2, <1>3, ChainFacts
<1>5. h \in HostsOf(k) /\ host[k][h] = Pending
  BY <1>1, <1>2, <1>3, <1>4 DEF Starts
<1>6. host' = [host EXCEPT ![k][h] = Running]
  BY <1>2, StartNextFacts, <1>1
<1>7. host' = [host EXCEPT ![k] = [g \in Host |-> IF g \in {h} THEN Running ELSE host[k][g]]]
  BY <1>1, <1>4, <1>6 DEF TypeOK
<1>8. Active' # {}
  <2>1. PICK job : job = Job(exec[e].rest, h) /\ job.phase = "script"
    <3>1. h \in rest[FirstStep(rest)]
      BY <1>2, <1>4, <1>5
    <3> QED
      BY <1>2, <1>3, <3>1, JobFacts
  <2>2. PICK x : exec' = [exec EXCEPT ![n] = job, ![e] = x] /\ n # e
    <3>1. PICK x : x = Hand(e, h)
      OBVIOUS
    <3>2. n # e /\ exec' = [exec EXCEPT ![n] = Job(exec[e].rest, h), ![e] = Hand(e, h)]
      BY DEF StartNext, Hand, Active
    <3>3. n # e /\ exec' = [exec EXCEPT ![n] = job, ![e] = x]
      BY <2>1, <3>1, <3>2
    <3> QED
      BY <3>3
  <2>3. exec'[n] = job
    BY <1>1, <2>2 DEF TypeOK
  <2> QED
    BY <2>1, <2>3 DEF Active
<1>9. Order!Begin(k)
  <2>1. {h} \in SUBSET HostsOf(k) /\ {h} # {} /\ \A g \in {h} : host[k][g] \in {Pending, Failed}
    BY <1>5
  <2> QED
    BY <1>4, <1>7, <1>8, <2>1, OrderBegin
<1>10. Order!IsNext(k)
  <2>1. \A j \in StepNo : j < k => AllDone(j)
    BY <1>1, <1>2, BeforeStart
  <2> QED
    BY <2>1, OrderWords DEF Order!IsNext
<1>11. Order!IsFree(k)
  <2> SUFFICES ASSUME NEW p \in Pauses, p < k
               PROVE  \E j \in StepNo : p < j /\ ~Order!Untouched(j)
    BY DEF Order!IsFree
  <2>1. exec[e].host \in HostsOf(i) /\ host[i][exec[e].host] = Done
    BY <1>2, <1>3 DEF Placed
  <2>2. p # i /\ p \in Nat /\ i \in Nat
    BY <1>3, <2>1, PlanFacts
  <2>3. p < i
    BY <1>4, <2>2
  <2>4. ~Order!Untouched(i)
    BY <1>3, <2>1, OrderWords, StatusFacts DEF AllPending
  <2> QED
    BY <1>3, <2>3, <2>4
<1>12. Order!Continue(k)
  <2>1. ~(Active = {})
    BY <1>1
  <2> QED
    BY <1>9, <1>10, <1>11, <2>1 DEF Order!Continue
<1> QED
  BY <1>4, <1>12 DEF Order!Next

(* Every step of the chain is a step of the promise or leaves it alone. *)
LEMMA OrderStep ==
  ASSUME ChainInv, [Next]_vars, ChainInv'
  PROVE  Order!Next \/ UNCHANGED Order!vars
<1>1. CASE RollbackOperation
  BY <1>1, OperationOrder
<1>2. CASE RetryRun
  BY <1>2, RetryOrder
<1>3. CASE UNCHANGED <<host, exec>>
  <2>1. Active' = Active
    BY <1>3 DEF Active
  <2> QED
    BY <1>3, <2>1, OrderStutter
<1>4. ASSUME NEW e \in Exec, Worker(e)
      PROVE  Order!Next \/ UNCHANGED Order!vars
  <2>1. CASE ScriptEnds(e) \/ Poll(e)
    <3>1. /\ host' = host /\ exec[e].phase # "idle"
          /\ \E p \in Phases \ {"idle"} : exec'[e].phase = p
      BY <2>1 DEF ScriptEnds, Poll, ChainInv, TypeOK, Execution, Phases
    <3>2. Active # {} /\ Active' # {}
      BY <3>1 DEF Active
    <3> QED
      BY <3>1, <3>2, OrderStutter
  <2>2. CASE Record(e)
    BY <2>2, RecordOrder
  <2>3. CASE GiveUp(e)
    BY <2>3, GiveUpOrder
  <2>4. CASE \E n \in Exec, h \in Host : StartNext(e, n, h)
    <3>1. PICK n \in Exec, h \in Host : StartNext(e, n, h)
      BY <2>4
    <3> QED
      BY <3>1, StartNextOrder
  <2>5. \/ ScriptEnds(e) \/ Record(e) \/ Poll(e) \/ GiveUp(e)
        \/ \E n \in Exec, h \in Host : StartNext(e, n, h)
    BY <1>4 DEF Worker
  <2> QED
    BY <2>1, <2>2, <2>3, <2>4, <2>5
<1>5. RetryRead \/ UNCHANGED vars => UNCHANGED <<host, exec>>
  BY DEF RetryRead, vars
<1> QED
  BY <1>1, <1>2, <1>3, <1>4, <1>5 DEF Next

LEMMA OrderInit == Init => Order!Init
<1> SUFFICES ASSUME Init
             PROVE  Order!Init
  OBVIOUS
<1>1. (Active = {}) = TRUE
  BY DEF Init, Active, Idle
<1>2. host = [i \in StepNo |-> [h \in Host |-> Order!Pending]]
  BY DEF Init, Pending, Order!Pending
<1> QED
  BY <1>1, <1>2 DEF Order!Init

(* The rollback keeps what RollbackOrder promises, however its chains and the
   operator's requests follow one another: a step begins when all earlier ones
   are done, a pause is passed by a request only, what is done stays done. *)
THEOREM ChainKeepsOrder == Patient = TRUE => (Spec => KeepsOrder)
<1> SUFFICES ASSUME Patient = TRUE
             PROVE  Spec => KeepsOrder
  OBVIOUS
<1>1. Spec => []ChainInv
  BY ChainInvariance
<1>2. ChainInv /\ ChainInv' /\ [Next]_vars => [Order!Next]_Order!vars
  BY OrderStep
<1> QED
  BY OrderInit, <1>1, <1>2, PTL DEF Spec, KeepsOrder, Order!Spec

=============================================================================
