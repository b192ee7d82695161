------------------------ MODULE PlanLifecycle_proofs ------------------------
(***************************************************************************)
(* Proofs about PlanLifecycle, for any steps of the plan and of its        *)
(* rollback, and any number of rollbacks, downloads and edits: the client  *)
(* is orderly and, for what is said of rollbacks, patient.                 *)
(* The last part is about the browser that PlanFeed puts beside the plan,  *)
(* for any client.                                                         *)
(***************************************************************************)
EXTENDS PlanFeed, FiniteSetTheorems, WellFoundedInduction, TLAPS

-----------------------------------------------------------------------------
(* The inductive invariants. *)

(* A download that is not late is the only one, and nothing else has begun
   beside it. *)
CreationInv ==
  downloads > 0 /\ ~late =>
    /\ downloads = 1 /\ plan = Creating
    /\ request = "idle" /\ working = {} /\ finish = {}

(* A request adds its rows behind the others. *)
Requests ==
  /\ rows >= Own
  /\ request # "idle" => rows >= Own + Len(RollbackSteps)

(* The plan's own rows that are at work show it. *)
OwnAtWork == \A i \in working : i \in OwnRows => pattern[i] = Running

(* Only the last of them finishes the plan, and it begins when the others are
   done. *)
Complete ==
  /\ \A i \in 1..(Own - 1) : pattern[i] = Done
  /\ pattern[Own] # Pending
LastStep == finish \subseteq {Own} /\ (finish # {} => Complete)

PublishInv == TypeOK /\ Requests /\ OwnAtWork /\ LastStep /\ PublishedIsComplete

(* What holds beside it of the rollbacks of a client who is patient as well.
   Rows behind the last one are untouched.  While a request is open its rows
   are, too, and those of the rollbacks before it are done. *)
Batches ==
  /\ \A i \in AddedRow : i > rows => pattern[i] = Pending
  /\ request # "idle" =>
       /\ roll = {}
       /\ \A i \in AddedRow : i > rows - Len(RollbackSteps) => pattern[i] = Pending
       /\ \A i \in AddedRow : i <= rows - Len(RollbackSteps) /\ Works(i) => pattern[i] = Done

(* A row begins when the rows before it are done.  It is at work only while it
   shows that; a row without hosts waits for ever. *)
InOrder ==
  \A i \in AddedRow :
    /\ i \in working => pattern[i] = Running
    /\ ~Works(i) => pattern[i] = Pending
    /\ pattern[i] = Running => \A j \in Before(i) : pattern[j] = Done

(* The rollback's chain is alone on the rows of rollbacks.  Its head runs or
   is done, the rows behind it wait; they lie between two pauses, and what is
   before them is done or in the chain. *)
RollAlone ==
  roll # {} =>
    /\ request = "idle" /\ working \cap AddedRow = {}
    /\ \/ pattern[First(roll)] = Running
       \/ pattern[First(roll)] = Done /\ Rest(roll) # {}
    /\ \A k \in roll : k # First(roll) => pattern[k] \in {Pending, Failed}
    /\ \A k \in roll : \A j \in Before(k) : j \in roll \/ pattern[j] = Done
    /\ \A k \in roll, p \in AddedRow :
         ActionOf(p) = Pause => ~(First(roll) < p /\ p < k)

PatientInv == Batches /\ InOrder /\ RollAlone
RollInv == PublishInv /\ PatientInv

-----------------------------------------------------------------------------
(* Lemmas about the operators the model is built from. *)

(* First picks the least row of a chain. *)
LEMMA FirstIsLeast ==
  ASSUME NEW T, T \subseteq Nat, T # {}
  PROVE  First(T) \in T /\ \A u \in T : First(T) <= u
<1>1. PICK t \in T : \A u \in T : <<u, t>> \notin OpToRel(<, Nat)
  BY NatLessThanWellFounded, WFMin
<1>2. ASSUME NEW u \in T, u < t
      PROVE  FALSE
  <2>1. <<u, t>> \in Nat \X Nat /\ <<u, t>>[1] < <<u, t>>[2]
    BY <1>2
  <2>2. <<u, t>> \in OpToRel(<, Nat)
    BY <2>1 DEF OpToRel
  <2> QED
    BY <1>1, <2>2
<1>3. \A u \in T : t <= u
  BY <1>2
<1> QED
  BY <1>3 DEF First

(* The plan's own steps come first and all have something to do. *)
LEMMA RowFacts ==
  /\ Own \in Nat \ {0} /\ Row \subseteq Nat \ {0}
  /\ OwnRows \subseteq Row /\ Own \in Row
  /\ \A i \in Row : i <= Own <=> i \in OwnRows
  /\ \A i \in Row, j \in Nat \ {0} : j <= i => j \in Row
  /\ \A i \in OwnRows : Works(i)
<1>1. Own \in Nat \ {0}
  BY StepsAssumption DEF Own
<1>2. MaxRollbacks * Len(RollbackSteps) \in Nat
  <2>1. Len(RollbackSteps) \in Nat /\ MaxRollbacks \in Nat
    BY StepsAssumption, BoundsAssumption
  <2> QED
    BY <2>1
<1>3. \A i \in OwnRows : Works(i)
  <2> SUFFICES ASSUME NEW i \in OwnRows
               PROVE  PublishSteps[i] \in WithTasks
    BY <1>1 DEF Works, ActionOf, OwnRows
  <2>1. PublishSteps[i] \in {Publish, StopFlow}
    BY StepsAssumption DEF OwnRows, Own
  <2> QED
    BY <2>1 DEF WithTasks
<1>4. PICK L \in Nat : L = MaxRollbacks * Len(RollbackSteps)
  BY <1>2
<1>5. Row = 1..(Own + L)
  BY <1>4 DEF Row
<1> HIDE DEF Own
<1> QED
  BY <1>1, <1>3, <1>5 DEF OwnRows

LEMMA BeforeFacts ==
  ASSUME NEW i \in Row
  PROVE  /\ Before(i) \subseteq Row
         /\ \A j \in Before(i) : j < i /\ Works(j)
         /\ i \in OwnRows => Before(i) = 1..(i - 1)
<1>1. Before(i) \subseteq Row /\ \A j \in Before(i) : j < i /\ Works(j)
  BY DEF Before
<1>2. ASSUME i \in OwnRows
      PROVE  Before(i) = 1..(i - 1)
  <2>1. i \in Nat /\ Own \in Nat /\ 1 <= i /\ i <= Own
    BY <1>2, RowFacts DEF OwnRows
  <2>2. \A j \in 1..(i - 1) : j \in OwnRows
    BY <2>1 DEF OwnRows
  <2>3. \A j \in 1..(i - 1) : j \in Before(i)
    BY <2>1, <2>2, RowFacts DEF Before
  <2>4. \A j \in Before(i) : j \in 1..(i - 1)
    BY <2>1, RowFacts DEF Before
  <2> QED
    BY <2>3, <2>4
<1> QED
  BY <1>1, <1>2

(* A rollback's rows end with one that has nothing to do. *)
LEMMA EndsFacts ==
  /\ Own \in Ends /\ Ends \subseteq Row
  /\ \A e \in Ends : e >= Own /\ (e # Own => ~Works(e))
<1> DEFINE L == Len(RollbackSteps)
<1>1. L \in Nat /\ MaxRollbacks \in Nat /\ Own \in Nat \ {0}
  BY StepsAssumption, BoundsAssumption, RowFacts
<1>2. \A k \in 0..MaxRollbacks : k * L \in Nat /\ k * L <= MaxRollbacks * L
  <2> HIDE DEF L
  <2> SUFFICES ASSUME NEW k \in 0..MaxRollbacks
               PROVE  k * L \in Nat /\ k * L <= MaxRollbacks * L
    OBVIOUS
  <2>1. PICK d \in Nat : d = MaxRollbacks - k
    BY <1>1
  <2>2. MaxRollbacks * L = k * L + d * L /\ k * L \in Nat /\ d * L \in Nat
    BY <1>1, <2>1
  <2> QED
    BY <2>2
<1>3. \A e \in Ends : e \in Row /\ e >= Own
  <2> SUFFICES ASSUME NEW k \in 0..MaxRollbacks
               PROVE  Own + k * L \in Row /\ Own + k * L >= Own
    BY DEF Ends
  <2>1. PICK n \in Nat, m \in Nat : n = k * L /\ m = MaxRollbacks * L /\ n <= m
    BY <1>1, <1>2
  <2>2. Row = 1..(Own + m)
    BY <2>1 DEF Row
  <2> HIDE DEF L
  <2> QED
    BY <1>1, <2>1, <2>2
<1>4. Own \in Ends
  <2> HIDE DEF L
  <2>1. Own = Own + 0 * L /\ 0 \in 0..MaxRollbacks
    BY <1>1
  <2> QED
    BY <2>1 DEF Ends, L
<1>5. ASSUME NEW e \in Ends, e # Own
      PROVE  ~Works(e)
  BY <1>5, NoticeAssumption DEF Works, WithTasks, RollbackNotice, Publish, StopFlow, Rollback,
    RestoreFlow, RollbackStop
<1> QED
  BY <1>3, <1>4, <1>5

(* What the numbers of the statuses are used for: they differ. *)
LEMMA StatusFacts ==
  /\ Statuses = {0, 1, 2, 3} /\ Pending = 0 /\ Running = 1 /\ Done = 2 /\ Failed = 3
  /\ Creating = 1 /\ Created = 2 /\ CreationFailed = 3
  /\ Published = 4 /\ PublishFailed = 5 /\ Publishing = 8
  /\ RollingBack = 21 /\ RolledBack = 22
  /\ PlanStatuses = {1, 2, 3, 4, 5, 8, 21, 22}
BY DEF Statuses, Pending, Running, Done, Failed, PlanStatuses, Creating, Created,
  CreationFailed, Published, PublishFailed, Publishing, RollingBack, RolledBack

LEMMA RollbackRowFacts ==
  ASSUME rows \in Row
  PROVE  RollbackRows = {i \in Row : i > Own /\ i <= rows /\ Works(i)}
<1>1. Own \in Nat /\ rows \in Nat /\ rows > 0
  BY RowFacts
<1>2. \A i \in (Own + 1)..rows : i \in Row /\ i > Own /\ i <= rows
  <2> TAKE i \in (Own + 1)..rows
  <2>1. i \in Nat \ {0} /\ i <= rows /\ i > Own
    BY <1>1
  <2> QED
    BY <2>1, RowFacts
<1>3. \A i \in Row : i > Own /\ i <= rows => i \in (Own + 1)..rows
  BY <1>1, RowFacts
<1> QED
  BY <1>2, <1>3 DEF RollbackRows, Works

LEMMA RollFacts ==
  ASSUME TypeOK
  PROVE  /\ roll \subseteq Row /\ roll \subseteq Nat /\ Own \in Nat /\ rows \in Nat
         /\ \A k \in roll : k > Own /\ k <= rows /\ Works(k) /\ ~(k <= Own)
         /\ roll # {} => First(roll) \in roll /\ \A k \in roll : First(roll) <= k
         /\ roll # {} => \A k \in Rest(roll) : k \in roll /\ First(roll) < k
         /\ Rest(roll) # {} =>
              /\ First(Rest(roll)) \in Rest(roll)
              /\ \A k \in Rest(roll) : First(Rest(roll)) <= k
<1>1. roll \subseteq RollbackRows /\ rows \in Row
  BY EndsFacts DEF TypeOK
<1>2. RollbackRows = {i \in Row : i > Own /\ i <= rows /\ Works(i)}
  BY <1>1, RollbackRowFacts
<1>3. roll \subseteq Row /\ Row \subseteq Nat /\ Own \in Nat /\ rows \in Nat
      /\ \A k \in roll : k > Own /\ k <= rows /\ Works(k)
  BY <1>1, <1>2, RowFacts
<1>4. roll # {} => First(roll) \in roll /\ \A k \in roll : First(roll) <= k
  BY <1>3, FirstIsLeast
<1>5. roll # {} => \A k \in Rest(roll) : k \in roll /\ First(roll) < k
  <2> SUFFICES ASSUME roll # {}, NEW k \in Rest(roll)
               PROVE  k \in roll /\ First(roll) < k
    OBVIOUS
  <2>1. k \in roll /\ k # First(roll)
    BY DEF Rest
  <2>2. First(roll) \in Nat /\ k \in Nat /\ First(roll) <= k
    BY <1>3, <1>4, <2>1
  <2> QED
    BY <2>1, <2>2
<1>6. Rest(roll) # {} =>
        /\ First(Rest(roll)) \in Rest(roll)
        /\ \A k \in Rest(roll) : First(Rest(roll)) <= k
  <2>1. Rest(roll) \subseteq Nat
    BY <1>3 DEF Rest
  <2> QED
    BY <2>1, FirstIsLeast
<1> QED
  BY <1>3, <1>4, <1>5, <1>6

(* Run makes a chain of the rows that wait or have failed, and starts the
   first of them. *)
LEMMA RunFacts ==
  ASSUME TypeOK, NEW ids, ids \subseteq RollbackRows \cup {i \in Row : ~Works(i)}, Run(ids)
  PROVE  /\ pattern' \in [Row -> Statuses]
         /\ roll' \subseteq RollbackRows
         /\ \/ pattern' = pattern /\ roll' = roll
               /\ \A i \in ids : Works(i) => pattern[i] \notin {Pending, Failed}
            \/ /\ roll' # {} /\ First(roll') \in roll'
               /\ \A k \in roll' : First(roll') <= k /\ pattern[k] \in {Pending, Failed}
               /\ roll' = {i \in ids : Works(i) /\ pattern[i] \in {Pending, Failed}}
               /\ pattern' = [pattern EXCEPT ![First(roll')] = Running]
<1> DEFINE todo == {i \in ids : Works(i) /\ pattern[i] \in {Pending, Failed}}
<1>1. todo \subseteq RollbackRows /\ RollbackRows \subseteq Row /\ Row \subseteq Nat
  BY RollbackRowFacts, EndsFacts, RowFacts DEF Works, TypeOK
<1>2. CASE todo = {}
  BY <1>2 DEF Run, TypeOK
<1>3. CASE todo # {}
  <2>1. First(todo) \in todo /\ \A u \in todo : First(todo) <= u
    BY <1>1, <1>3, FirstIsLeast
  <2>2. roll' = todo /\ pattern' = [pattern EXCEPT ![First(todo)] = Running]
    BY <1>3 DEF Run
  <2>3. pattern' \in [Row -> Statuses]
    BY <1>1, <2>1, <2>2, StatusFacts DEF TypeOK
  <2> HIDE DEF todo
  <2>4. \A k \in todo : pattern[k] \in {Pending, Failed}
    BY DEF todo
  <2>5. roll' = {i \in ids : Works(i) /\ pattern[i] \in {Pending, Failed}}
    BY <2>2 DEF todo
  <2> QED
    BY <1>1, <1>3, <2>1, <2>2, <2>3, <2>4, <2>5
<1> QED
  BY <1>2, <1>3

-----------------------------------------------------------------------------
(* The invariant of an orderly client's plan. *)

LEMMA PublishInit == Init => PublishInv
<1> SUFFICES ASSUME Init
             PROVE  PublishInv
  OBVIOUS
<1>1. pattern \in [Row -> Statuses] /\ downloads \in 0..MaxDownloads
  BY StatusFacts, BoundsAssumption DEF Init
<1>2. TypeOK
  BY <1>1, EndsFacts, StatusFacts DEF Init, TypeOK
<1> QED
  BY <1>2, RowFacts, StatusFacts
     DEF Init, PublishInv, Requests, OwnAtWork, LastStep, PublishedIsComplete

(* What a step has to leave alone: own rows that are done or at work stay so. *)
LEMMA CompleteStays ==
  ASSUME PublishInv, Complete,
         \A i \in OwnRows : \/ pattern'[i] = pattern[i]
                            \/ pattern[i] # Done /\ pattern'[i] # Pending
  PROVE  Complete'
<1>1. \A i \in 1..(Own - 1) : i \in OwnRows
  BY RowFacts DEF OwnRows
<1> QED
  BY <1>1, RowFacts DEF Complete, OwnRows

(* Downloads, requests, edits and deletions change no row. *)
LEMMA PlanWriteKeeps ==
  ASSUME Orderly, PublishInv,
         \/ (\E ok \in BOOLEAN : DownloadEnds(ok)) \/ RetryPost \/ RetryPut
         \/ Generate \/ Mark \/ RunRaises
         \/ (\E s \in EditSet : EditPlan(s)) \/ Delete
  PROVE  PublishInv'
<1> USE DEF PublishInv
<1>1. /\ UNCHANGED <<pattern, working, finish, roll>>
      /\ downloads' \in 0..MaxDownloads /\ plan' \in PlanStatuses
      /\ late' \in BOOLEAN /\ deleted' \in BOOLEAN
      /\ plan' = Published => plan = Published
      /\ request' \in {"idle", "generated", "marked"}
      /\ rows' \in Ends /\ rows <= rows'
      /\ request' # "idle" => request # "idle" \/ rows' = rows + Len(RollbackSteps)
  <2>1. rows \in Nat /\ Len(RollbackSteps) \in Nat
    BY EndsFacts, RowFacts, StepsAssumption DEF TypeOK
  <2>2. CASE \E ok \in BOOLEAN : DownloadEnds(ok)
    <3>1. PICK ok \in BOOLEAN : DownloadEnds(ok)
      BY <2>2
    <3>2. /\ downloads > 0 /\ downloads' = downloads - 1
          /\ plan' \in {Created, CreationFailed}
          /\ late' = (late /\ downloads > 1)
          /\ UNCHANGED <<rows, pattern, working, finish, roll, request, deleted>>
      BY <3>1 DEF DownloadEnds
    <3> QED
      BY <2>1, <3>2, StatusFacts, BoundsAssumption DEF TypeOK
  <2>7. CASE RetryPost \/ RetryPut
    <3>1. PICK outside \in BOOLEAN : Download(outside)
      BY <2>7 DEF RetryPost, RetryPut
    <3>2. /\ downloads < MaxDownloads /\ downloads' = downloads + 1
          /\ plan' = Creating /\ late' = (late \/ outside)
          /\ UNCHANGED <<rows, pattern, working, finish, roll, request, deleted>>
      BY <3>1 DEF Download
    <3> QED
      BY <2>1, <3>2, StatusFacts, BoundsAssumption DEF TypeOK
  <2>3. CASE Generate
    BY <2>1, <2>3 DEF Generate, TypeOK
  <2>4. CASE Mark \/ RunRaises
    BY <2>1, <2>4, StatusFacts DEF Mark, RunRaises, TypeOK
  <2>5. ASSUME NEW s \in EditSet, EditPlan(s)
        PROVE  /\ UNCHANGED <<downloads, late, rows, pattern, working, finish, roll, request, deleted>>
               /\ plan' \in {Publishing, PublishFailed, RolledBack}
    BY <2>5 DEF EditPlan, AtItsTime
  <2>6. CASE \E s \in EditSet : EditPlan(s)
    BY <2>1, <2>5, <2>6, StatusFacts DEF TypeOK
  <2>8. CASE Delete
    BY <2>1, <2>8 DEF Delete, TypeOK
  <2> QED
    BY <2>2, <2>3, <2>4, <2>6, <2>7, <2>8
<1>2. RollbackRows \subseteq RollbackRows'
  BY <1>1, EndsFacts, RowFacts DEF RollbackRows, TypeOK
<1>3. TypeOK'
  BY <1>1, <1>2 DEF TypeOK
<1>4. Requests'
  BY <1>1, EndsFacts, RowFacts, StepsAssumption DEF Requests, TypeOK
<1>5. OwnAtWork' /\ LastStep' /\ PublishedIsComplete'
  BY <1>1 DEF OwnAtWork, LastStep, PublishedIsComplete, Complete
<1> QED
  BY <1>3, <1>4, <1>5

LEMMA StartKeeps ==
  ASSUME Orderly, PublishInv, NEW i \in Row, Start(i)
  PROVE  PublishInv'
<1> USE DEF PublishInv
<1>1. /\ i <= rows /\ Works(i) /\ pattern[i] \in {Pending, Failed}
      /\ \A j \in Before(i) : pattern[j] = Done
      /\ pattern' = [pattern EXCEPT ![i] = Running]
      /\ working' = working \cup {i}
      /\ finish' = finish \cup {j \in {i} : j = rows}
      /\ UNCHANGED <<plan, downloads, late, rows, roll, request, deleted>>
  BY DEF Start, Startable, InTurn
<1>2. TypeOK'
  BY <1>1, StatusFacts DEF TypeOK, RollbackRows
<1>3. Requests' /\ OwnAtWork'
  BY <1>1, RowFacts DEF Requests, OwnAtWork, TypeOK
<1>4. \A k \in Row : pattern'[k] = IF k = i THEN Running ELSE pattern[k]
  BY <1>1 DEF TypeOK
<1>5. Complete => Complete'
  BY <1>1, <1>4, CompleteStays, RowFacts, StatusFacts
<1>6. ASSUME i = rows
      PROVE  i = Own /\ Complete'
  <2>1. i = Own
    BY <1>1, <1>6, EndsFacts DEF TypeOK
  <2>2. Before(i) = 1..(Own - 1) /\ Before(i) \subseteq Row
    BY <2>1, BeforeFacts, RowFacts DEF OwnRows
  <2>3. \A j \in 1..(Own - 1) : pattern[j] = Done /\ j \in Row
    BY <1>1, <2>2
  <2>4. Own \in Nat /\ \A j \in 1..(Own - 1) : j # i
    BY <2>1, RowFacts
  <2> QED
    BY <1>4, <2>1, <2>3, <2>4, StatusFacts DEF Complete
<1>7. LastStep'
  BY <1>1, <1>5, <1>6 DEF LastStep
<1>8. PublishedIsComplete'
  BY <1>1, <1>5 DEF PublishedIsComplete, Complete
<1> QED
  BY <1>2, <1>3, <1>7, <1>8

LEMMA StepEndsKeeps ==
  ASSUME PublishInv, NEW i \in Row, NEW s \in Outcomes, StepEnds(i, s)
  PROVE  PublishInv'
<1> USE DEF PublishInv
<1>1. /\ i \in working /\ working' = working \ {i}
      /\ pattern' = [pattern EXCEPT ![i] = s]
      /\ finish' \subseteq finish
      /\ UNCHANGED <<plan, downloads, late, rows, roll, request, deleted>>
  BY DEF StepEnds
<1>2. s \in {Done, Failed, Running} /\ s \in Statuses /\ s # Pending
  BY StatusFacts DEF Outcomes
<1>3. \A k \in Row : pattern'[k] = IF k = i THEN s ELSE pattern[k]
  BY <1>1 DEF TypeOK
<1>4. TypeOK'
  BY <1>1, <1>2 DEF TypeOK, RollbackRows
<1>5. Requests' /\ OwnAtWork'
  BY <1>1, <1>3, RowFacts DEF Requests, OwnAtWork, TypeOK
<1>6. Complete => Complete'
  <2>1. i \in OwnRows => pattern[i] # Done
    BY <1>1, StatusFacts DEF OwnAtWork
  <2> QED
    BY <1>2, <1>3, <2>1, CompleteStays, RowFacts
<1>7. LastStep' /\ PublishedIsComplete'
  BY <1>1, <1>6 DEF LastStep, PublishedIsComplete, Complete
<1> QED
  BY <1>4, <1>5, <1>7

LEMMA FinishKeeps ==
  ASSUME PublishInv, NEW i \in Row, FinishPlan(i)
  PROVE  PublishInv'
<1> USE DEF PublishInv
<1>1. /\ i \in finish /\ finish' = finish \ {i}
      /\ plan' \in {Published, RolledBack, plan}
      /\ UNCHANGED <<downloads, late, rows, pattern, working, roll, request, deleted>>
  BY DEF FinishPlan
<1>2. TypeOK'
  BY <1>1, StatusFacts DEF TypeOK, RollbackRows
<1>3. Complete /\ Complete'
  BY <1>1 DEF LastStep, Complete
<1> QED
  BY <1>1, <1>2, <1>3
     DEF Requests, OwnAtWork, LastStep, PublishedIsComplete, Complete

(* The rows that a request and a retry run are rows of rollbacks. *)
LEMMA RunRows ==
  ASSUME PublishInv, RunNew \/ Retry
  PROVE  \E ids \in SUBSET Row :
           /\ Run(ids)
           /\ \A i \in ids : i > Own /\ i <= rows
           /\ RunNew => ids = {i \in New : \A p \in New : ActionOf(p) = Pause => i < p}
           /\ Retry => ids = RetryList
<1>0. ~(RunNew /\ Retry)
  BY DEF RunNew, Retry
<1>1. CASE RunNew
  <2> DEFINE ids == {i \in New : \A p \in New : ActionOf(p) = Pause => i < p}
  <2>1. request = "marked" /\ Run(ids)
    BY <1>1 DEF RunNew
  <2>2. \A i \in New : i \in Row /\ i > Own /\ i <= rows
    <3>1. rows \in Nat /\ Own \in Nat /\ Len(RollbackSteps) \in Nat /\ Row \subseteq Nat
      BY RowFacts, EndsFacts, StepsAssumption DEF PublishInv, TypeOK
    <3>2. rows >= Own + Len(RollbackSteps)
      BY <2>1 DEF PublishInv, Requests
    <3> QED
      BY <3>1, <3>2 DEF New
  <2> QED
    BY <1>0, <1>1, <2>1, <2>2
<1>2. CASE Retry
  BY <1>0, <1>2 DEF Retry, RetryList, Unfinished
<1> QED
  BY <1>1, <1>2

(* What they change: the first of the rows that wait or have failed. *)
LEMMA RunRowsFacts ==
  ASSUME PublishInv, NEW ids \in SUBSET Row, Run(ids), \A i \in ids : i > Own /\ i <= rows
  PROVE  /\ pattern' \in [Row -> Statuses]
         /\ roll' \subseteq RollbackRows
         /\ \/ pattern' = pattern /\ roll' = roll
            \/ /\ roll' # {} /\ First(roll') \in roll'
               /\ \A k \in roll' : First(roll') <= k /\ pattern[k] \in {Pending, Failed}
               /\ roll' = {i \in ids : Works(i) /\ pattern[i] \in {Pending, Failed}}
               /\ pattern' = [pattern EXCEPT ![First(roll')] = Running]
<1>1. RollbackRows = {i \in Row : i > Own /\ i <= rows /\ Works(i)}
  BY RollbackRowFacts, EndsFacts DEF PublishInv, TypeOK
<1>2. ids \subseteq RollbackRows \cup {i \in Row : ~Works(i)}
  BY <1>1
<1> QED
  BY <1>2, RunFacts DEF PublishInv

LEMMA RollKeeps ==
  ASSUME PublishInv,
         RunNew \/ Retry \/ (\E s \in Outcomes : RollEnds(s)) \/ RollNext \/ RollGivesUp
  PROVE  PublishInv'
<1> USE DEF PublishInv
<1>1. /\ UNCHANGED <<plan, downloads, late, rows, working, finish, deleted>>
      /\ request' \in {request, "idle"}
  BY DEF RunNew, Retry, RollEnds, RollNext, RollGivesUp
<1>2. /\ pattern' \in [Row -> Statuses] /\ roll' \subseteq RollbackRows
      /\ \A k \in OwnRows : pattern'[k] = pattern[k]
  <2>1. /\ RollbackRows = {i \in Row : i > Own /\ i <= rows /\ Works(i)}
        /\ \A k \in OwnRows : k \in Row /\ ~(k > Own)
    BY RollbackRowFacts, EndsFacts, RowFacts DEF TypeOK, OwnRows
  <2>2. CASE RunNew \/ Retry
    <3>1. PICK ids \in SUBSET Row : Run(ids) /\ \A i \in ids : i > Own /\ i <= rows
      BY <2>2, RunRows
    <3>2. /\ pattern' \in [Row -> Statuses] /\ roll' \subseteq RollbackRows
          /\ \/ pattern' = pattern
             \/ /\ First(roll') \in roll'
                /\ pattern' = [pattern EXCEPT ![First(roll')] = Running]
      BY <3>1, RunRowsFacts
    <3> QED
      BY <2>1, <3>2 DEF TypeOK
  <2>3. roll # {} => /\ First(roll) \in roll /\ First(roll) \in RollbackRows
                     /\ \A k \in Rest(roll) : k \in roll /\ k \in RollbackRows
                     /\ Rest(roll) # {} => First(Rest(roll)) \in Rest(roll)
    BY RollFacts DEF TypeOK
  <2>4. ASSUME NEW s \in Outcomes, RollEnds(s)
        PROVE  /\ pattern' \in [Row -> Statuses] /\ roll' \subseteq RollbackRows
               /\ \A k \in OwnRows : pattern'[k] = pattern[k]
    <3>1. /\ roll # {} /\ pattern' = [pattern EXCEPT ![First(roll)] = s]
          /\ roll' \subseteq roll /\ s \in Statuses
      BY <2>4, StatusFacts DEF RollEnds, Outcomes
    <3> QED
      BY <2>1, <2>3, <3>1 DEF TypeOK
  <2>5. CASE RollNext
    <3>1. /\ roll # {} /\ pattern' = [pattern EXCEPT ![First(Rest(roll))] = Running]
          /\ roll' = Rest(roll)
      BY <2>5 DEF RollNext
    <3>2. roll' \subseteq roll /\ Rest(roll) # {}
      BY <2>3, <2>5, <3>1 DEF RollNext
    <3> QED
      BY <2>1, <2>3, <3>1, <3>2, StatusFacts DEF TypeOK
  <2>6. CASE RollGivesUp
    BY <2>6 DEF RollGivesUp, TypeOK
  <2> QED
    BY <2>2, <2>4, <2>5, <2>6
<1>3. TypeOK'
  BY <1>1, <1>2 DEF TypeOK, RollbackRows
<1>4. Requests' /\ OwnAtWork'
  BY <1>1, <1>2 DEF Requests, OwnAtWork
<1>5. Complete => Complete'
  BY <1>2, CompleteStays
<1>6. LastStep' /\ PublishedIsComplete'
  BY <1>1, <1>5 DEF LastStep, PublishedIsComplete, Complete
<1> QED
  BY <1>3, <1>4, <1>6

LEMMA PublishNext == Orderly /\ PublishInv /\ [Next]_vars => PublishInv'
<1> SUFFICES ASSUME Orderly, PublishInv, [Next]_vars
             PROVE  PublishInv'
  OBVIOUS
<1>1. CASE \/ (\E ok \in BOOLEAN : DownloadEnds(ok)) \/ RetryPost \/ RetryPut
           \/ Generate \/ Mark \/ RunRaises
           \/ (\E s \in EditSet : EditPlan(s)) \/ Delete
  BY <1>1, PlanWriteKeeps
<1>2. CASE \E i \in Row : Start(i)
  BY <1>2, StartKeeps
<1>3. CASE \E i \in Row, s \in Outcomes : StepEnds(i, s)
  BY <1>3, StepEndsKeeps
<1>4. CASE \E i \in Row : FinishPlan(i)
  BY <1>4, FinishKeeps
<1>5. CASE RunNew \/ Retry \/ (\E s \in Outcomes : RollEnds(s)) \/ RollNext \/ RollGivesUp
  BY <1>5, RollKeeps
<1>6. CASE UNCHANGED vars
  BY <1>6 DEF vars, PublishInv, TypeOK, Requests, OwnAtWork, LastStep, Complete,
    PublishedIsComplete, RollbackRows
<1> QED
  BY <1>1, <1>2, <1>3, <1>4, <1>5, <1>6 DEF Next

(* The invariant the published plan rests on: the finish of the plan is given
   to the start of its highest step only, and that comes in its turn. *)
THEOREM PlanInvariance == Orderly = TRUE => (Spec => []PublishInv)
<1> SUFFICES ASSUME Orderly = TRUE
             PROVE  Spec => []PublishInv
  OBVIOUS
<1>1. PublishInv /\ [Next]_vars => PublishInv'
  BY PublishNext
<1> QED
  BY <1>1, PublishInit, PTL DEF Spec

(* A published plan has carried out all its steps but the last, which has
   begun; the steps may have any number of hosts whose chains end in any
   order, since a step here ends in all the ways they leave it, and the finish
   waits for none of them. *)
THEOREM PublishedPlanIsComplete == Orderly = TRUE => (Spec => []PublishedIsComplete)
<1> SUFFICES ASSUME Orderly = TRUE
             PROVE  Spec => []PublishedIsComplete
  OBVIOUS
<1>1. PublishInv => PublishedIsComplete
  BY DEF PublishInv
<1> QED
  BY <1>1, PlanInvariance, PTL

LEMMA CreationInit == Init => CreationInv
BY StatusFacts DEF Init, CreationInv

(* Nothing of the publishing begins beside a first download: an orderly client
   starts rows and asks for rollbacks in other statuses. *)
LEMMA CreationNext ==
  ASSUME Orderly, PublishInv, CreationInv, [Next]_vars
  PROVE  CreationInv'
<1>0. downloads \in Nat /\ late \in BOOLEAN
  BY BoundsAssumption DEF PublishInv, TypeOK
<1>1. CASE \E ok \in BOOLEAN : DownloadEnds(ok)
  <2>1. PICK ok \in BOOLEAN : DownloadEnds(ok)
    BY <1>1
  <2>2. downloads > 0 /\ downloads' = downloads - 1 /\ late' = (late /\ downloads > 1)
    BY <2>1 DEF DownloadEnds
  <2>3. downloads' > 0 => late'
    BY <1>0, <2>2 DEF CreationInv
  <2> QED
    BY <2>3 DEF CreationInv
<1>2. CASE RetryPost \/ RetryPut
  <2>1. PICK outside \in BOOLEAN : Download(outside) /\ (~outside => Quiet /\ plan = CreationFailed)
    <3>1. CASE RetryPost
      BY <3>1 DEF RetryPost
    <3>2. CASE RetryPut
      BY <3>2 DEF RetryPut
    <3> QED
      BY <1>2, <3>1, <3>2
  <2>2. /\ downloads' = downloads + 1 /\ plan' = Creating /\ late' = (late \/ outside)
        /\ UNCHANGED <<working, finish, request>> /\ request = "idle"
    BY <2>1 DEF Download
  <2> QED
    BY <1>0, <2>1, <2>2 DEF Quiet, CreationInv
<1>3. CASE \E i \in Row : Start(i)
  <2>1. plan \in {Publishing, RollingBack} /\ UNCHANGED <<downloads, late>>
    BY <1>3 DEF Start, Startable, InTurn
  <2> QED
    BY <2>1, StatusFacts DEF CreationInv
<1>4. CASE \/ (\E i \in Row, s \in Outcomes : StepEnds(i, s))
           \/ (\E i \in Row : FinishPlan(i))
  <2>1. (working # {} \/ finish # {}) /\ UNCHANGED <<downloads, late>>
    BY <1>4 DEF StepEnds, FinishPlan
  <2> QED
    BY <2>1 DEF CreationInv
<1>5. CASE Generate \/ Mark \/ RunNew \/ RunRaises \/ Retry
  <2>1. /\ plan \in {Published, PublishFailed, Publishing, RollingBack} \/ request # "idle"
        /\ UNCHANGED <<downloads, late>>
    BY <1>5 DEF Generate, Mark, RunNew, RunRaises, Retry
  <2> QED
    BY <2>1, StatusFacts DEF CreationInv
<1>6. CASE (\E s \in Outcomes : RollEnds(s)) \/ RollNext \/ RollGivesUp \/ Delete
  <2>1. UNCHANGED <<plan, downloads, late, working, finish, request>>
    BY <1>6 DEF RollEnds, RollNext, RollGivesUp, Delete
  <2> QED
    BY <2>1 DEF CreationInv
<1>7. CASE \E s \in EditSet : EditPlan(s)
  <2>1. plan # Creating /\ UNCHANGED <<downloads, late>>
    BY <1>7, StatusFacts DEF EditPlan, AtItsTime
  <2> QED
    BY <2>1 DEF CreationInv
<1>8. CASE UNCHANGED vars
  BY <1>8 DEF vars, CreationInv
<1> QED
  BY <1>1, <1>2, <1>3, <1>4, <1>5, <1>6, <1>7, <1>8 DEF Next

(* A plan in use turns back to a plan in creation only with a change of its
   addresses, or a download left from one or begun beside running steps; the
   PUT that changes them has no guard, and none is assumed. *)
THEOREM StatusGoesForward == Orderly = TRUE => (Spec => StatusForward)
<1> SUFFICES ASSUME Orderly = TRUE
             PROVE  Spec => StatusForward
  OBVIOUS
<1>1. CreationInv /\ PublishInv /\ [Next]_vars => CreationInv'
  BY CreationNext
<1>2. CreationInv /\ PublishInv /\ [Next]_vars
      => [(plan \in InUse /\ plan' \in InCreation) => (late \/ late')]_plan
  <2> SUFFICES ASSUME CreationInv, PublishInv, [Next]_vars,
                      plan \in InUse, plan' \in InCreation, ~late
               PROVE  late'
    OBVIOUS
  <2>0. plan \in {4, 21, 22} /\ plan' \in {1, 2, 3}
    BY StatusFacts DEF InUse, InCreation
  <2>1. CASE \E ok \in BOOLEAN : DownloadEnds(ok)
    <3>1. downloads > 0
      BY <2>1 DEF DownloadEnds
    <3> QED
      BY <2>0, <3>1, StatusFacts DEF CreationInv
  <2>2. CASE RetryPost \/ RetryPut
    <3>1. plan # CreationFailed
      BY <2>0, StatusFacts
    <3>2. RetryPut
      BY <2>2, <3>1 DEF RetryPost
    <3> QED
      BY <3>1, <3>2 DEF RetryPut, Download
  <2>3. CASE \E i \in Row : FinishPlan(i)
    BY <2>0, <2>3, StatusFacts DEF FinishPlan
  <2>4. CASE Mark \/ \E s \in EditSet : EditPlan(s)
    BY <2>0, <2>4, StatusFacts DEF Mark, EditPlan, AtItsTime
  <2>5. CASE \/ (\E i \in Row : Start(i)) \/ (\E i \in Row, s \in Outcomes : StepEnds(i, s))
             \/ Generate \/ RunNew \/ RunRaises \/ Retry
             \/ (\E s \in Outcomes : RollEnds(s)) \/ RollNext \/ RollGivesUp \/ Delete
    <3>1. plan' = plan
      BY <2>5 DEF Start, StepEnds, Generate, RunNew, RunRaises, Retry, RollEnds, RollNext,
        RollGivesUp, Delete
    <3> QED
      BY <2>0, <3>1
  <2>6. CASE UNCHANGED vars
    BY <2>0, <2>6 DEF vars
  <2> QED
    BY <2>1, <2>2, <2>3, <2>4, <2>5, <2>6 DEF Next
<1> QED
  BY <1>1, <1>2, CreationInit, PlanInvariance, PTL DEF Spec, StatusForward

-----------------------------------------------------------------------------
(* The rollbacks of a patient client. *)

LEMMA AddedFacts ==
  /\ AddedRow \subseteq Row /\ AddedRow \subseteq Nat /\ Own \in Nat
  /\ \A i \in AddedRow : i > Own /\ i \notin OwnRows
  /\ \A i \in AddedRow : \A j \in Before(i) : j \in AddedRow /\ j < i /\ Works(j)
  /\ \A i \in AddedRow, j \in AddedRow : j < i /\ Works(j) => j \in Before(i)
<1>1. /\ AddedRow \subseteq Row /\ AddedRow \subseteq Nat /\ Own \in Nat
      /\ \A i \in AddedRow : i > Own /\ i \notin OwnRows
  <2>1. AddedRow \subseteq Row /\ \A i \in AddedRow : i > Own
    BY DEF AddedRow
  <2>2. \A i \in AddedRow : i \in Nat /\ ~(i <= Own)
    BY <2>1, RowFacts
  <2> QED
    BY <2>1, <2>2, RowFacts
<1> QED
  BY <1>1, RowFacts DEF Before, AddedRow

(* The number types a proof about rows needs. *)
LEMMA RowsFacts ==
  ASSUME PublishInv
  PROVE  /\ rows \in Nat /\ rows \in Row /\ Len(RollbackSteps) \in Nat \ {0}
         /\ RollbackRows = {i \in Row : i > Own /\ i <= rows /\ Works(i)}
<1>1. rows \in Row
  BY EndsFacts DEF PublishInv, TypeOK
<1>2. Len(RollbackSteps) \in Nat \ {0}
  BY StepsAssumption
<1> QED
  BY <1>1, <1>2, RowFacts, RollbackRowFacts

(* Two rows of rollbacks never run side by side. *)
LEMMA OneRuns ==
  ASSUME RollInv, NEW i \in AddedRow, NEW k \in AddedRow, i # k,
         pattern[i] = Running, pattern[k] = Running
  PROVE  FALSE
<1>1. Works(i) /\ Works(k)
  BY StatusFacts DEF RollInv, PatientInv, InOrder
<1>2. i < k \/ k < i
  BY AddedFacts
<1>3. i \in Before(k) \/ k \in Before(i)
  BY <1>1, <1>2, AddedFacts
<1> QED
  BY <1>3, StatusFacts DEF RollInv, PatientInv, InOrder

(* Beside the rollback's chain nothing runs. *)
LEMMA OnlyHeadRuns ==
  ASSUME RollInv, roll # {}, NEW k \in AddedRow, pattern[k] = Running
  PROVE  k = First(roll)
<1> USE DEF RollInv, PublishInv, PatientInv
<1> SUFFICES ASSUME k # First(roll)
             PROVE  FALSE
  OBVIOUS
<1>1. /\ First(roll) \in roll /\ roll \subseteq AddedRow
      /\ \A g \in roll : Works(g) /\ First(roll) <= g
  BY RollFacts DEF AddedRow
<1>2. Works(k) /\ \A j \in Before(k) : pattern[j] = Done
  BY StatusFacts DEF InOrder
<1>3. pattern[First(roll)] # Running
  BY <1>1, OneRuns
<1>4. PICK g \in Rest(roll) : TRUE
  BY <1>3 DEF RollAlone
<1>5. g \in roll /\ g \in AddedRow /\ pattern[g] \in {Pending, Failed} /\ Works(g)
  BY <1>1, <1>4 DEF RollAlone, Rest
<1>6. g # k /\ ~(g < k)
  BY <1>2, <1>5, AddedFacts, StatusFacts
<1>7. k \in Before(g)
  BY <1>2, <1>5, <1>6, AddedFacts
<1>8. k \in roll
  BY <1>5, <1>7, StatusFacts DEF RollAlone
<1> QED
  BY <1>8, StatusFacts DEF RollAlone

LEMMA PatientInit == Init => PatientInv
<1> SUFFICES ASSUME Init
             PROVE  PatientInv
  OBVIOUS
<1>1. \A i \in AddedRow : pattern[i] = Pending
  BY DEF Init, AddedRow
<1> QED
  BY <1>1, StatusFacts DEF Init, PatientInv, Batches, InOrder, RollAlone

(* What changes no row leaves the order alone; the chain may end. *)
LEMMA WritePatient ==
  ASSUME RollInv,
         \/ (\E ok \in BOOLEAN : DownloadEnds(ok)) \/ RetryPost \/ RetryPut
         \/ (\E i \in Row : FinishPlan(i)) \/ Mark \/ RunRaises
         \/ (\E s \in EditSet : EditPlan(s)) \/ Delete \/ RollGivesUp \/ UNCHANGED vars
  PROVE  PatientInv'
<1> USE DEF RollInv, PatientInv
<1>1. /\ UNCHANGED <<pattern, working, rows>>
      /\ roll' = roll \/ roll' = {}
      /\ request' # "idle" => request # "idle"
  BY DEF DownloadEnds, RetryPost, RetryPut, Download, FinishPlan, Mark, RunRaises, EditPlan,
    Delete, RollGivesUp, vars
<1>2. Batches' /\ InOrder'
  BY <1>1 DEF Batches, InOrder, AddedRow, Row, Own, Before, Works
<1>3. RollAlone'
  <2> SUFFICES ASSUME roll' # {}
               PROVE  RollAlone'
    BY DEF RollAlone
  <2>1. roll' = roll /\ request' = "idle"
    BY <1>1 DEF RollAlone
  <2> QED
    BY <1>1, <2>1 DEF RollAlone, AddedRow, Row, Own, Before, Works, First, Rest
<1> QED
  BY <1>2, <1>3

LEMMA GeneratePatient ==
  ASSUME Patient, RollInv, Generate
  PROVE  PatientInv'
<1> USE DEF RollInv, PatientInv
<1>1. /\ roll = {} /\ \A i \in RollbackRows : pattern[i] = Done
      /\ rows' = rows + Len(RollbackSteps)
      /\ UNCHANGED <<pattern, working, roll>>
  BY DEF Generate, Quiet
<1>2. InOrder' /\ RollAlone'
  BY <1>1 DEF InOrder, RollAlone, AddedRow, Row, Own, Before, Works
<1>3. Batches'
  <2>1. \A i \in AddedRow : i > rows => pattern[i] = Pending
    BY DEF Batches
  <2>2. \A i \in AddedRow : i <= rows /\ Works(i) => pattern[i] = Done
    BY <1>1, RowsFacts, AddedFacts
  <2>3. \A i \in AddedRow : i \in Nat
    BY AddedFacts
  <2>4. rows' - Len(RollbackSteps) = rows /\ \A i \in AddedRow : i > rows' => i > rows
    BY <1>1, <2>3, RowsFacts
  <2> QED
    BY <1>1, <2>1, <2>2, <2>4 DEF Batches, AddedRow, Row, Own, Works
<1> QED
  BY <1>2, <1>3

LEMMA StartPatient ==
  ASSUME Orderly, RollInv, NEW i \in Row, Start(i)
  PROVE  PatientInv'
<1> USE DEF RollInv, PublishInv, PatientInv
<1>1. /\ request = "idle" /\ i <= rows /\ Works(i) /\ pattern[i] \in {Pending, Failed}
      /\ \A j \in Before(i) : pattern[j] = Done
      /\ i > Own => roll = {}
      /\ pattern' = [pattern EXCEPT ![i] = Running]
      /\ working' = working \cup {i}
      /\ UNCHANGED <<rows, roll, request>>
  BY DEF Start, Startable, InTurn
<1>2. \A k \in Row : pattern'[k] = IF k = i THEN Running ELSE pattern[k]
  BY <1>1 DEF TypeOK
<1>3. Batches'
  <2>1. \A k \in AddedRow : k > rows => k # i
    BY <1>1, AddedFacts, RowsFacts
  <2> QED
    BY <1>1, <1>2, <2>1, AddedFacts DEF Batches, AddedRow, Row, Own, Works
<1>4. InOrder'
  <2> SUFFICES ASSUME NEW k \in AddedRow
               PROVE  /\ k \in working' => pattern'[k] = Running
                      /\ ~Works(k) => pattern'[k] = Pending
                      /\ pattern'[k] = Running => \A j \in Before(k) : pattern'[j] = Done
    BY DEF InOrder, AddedRow, Row, Own, Before, Works
  <2>1. k \in Row /\ \A j \in Before(k) : j \in Row /\ j < k /\ k \in Nat /\ j \in Nat
    BY AddedFacts
  <2>2. CASE k = i
    <3>1. \A j \in Before(k) : j # i
      BY <2>1, <2>2
    <3> QED
      BY <1>1, <1>2, <2>1, <2>2, <3>1
  <2>3. CASE k # i
    <3>1. pattern[k] = Running => i \notin Before(k)
      BY <1>1, StatusFacts DEF InOrder
    <3> QED
      BY <1>1, <1>2, <2>1, <2>3, <3>1 DEF InOrder
  <2> QED
    BY <2>2, <2>3
<1>5. RollAlone'
  <2> SUFFICES ASSUME roll # {}
               PROVE  RollAlone'
    BY <1>1 DEF RollAlone
  <2>1. i \notin AddedRow
    BY <1>1 DEF AddedRow
  <2>2. \A k \in AddedRow : pattern'[k] = pattern[k]
    BY <1>2, <2>1, AddedFacts
  <2>3. \A k \in roll : k \in AddedRow /\ \A j \in Before(k) : j \in AddedRow
    BY RollFacts, AddedFacts DEF AddedRow
  <2>4. First(roll) \in roll
    BY RollFacts
  <2>5. /\ request' = "idle" /\ roll' = roll /\ working' \cap AddedRow = {}
        /\ First(roll') = First(roll) /\ Rest(roll') = Rest(roll)
    BY <1>1, <2>1 DEF RollAlone
  <2> QED
    BY <2>2, <2>3, <2>4, <2>5 DEF RollAlone, AddedRow, Row, Own, Before, Works
<1> QED
  BY <1>3, <1>4, <1>5

(* The end of a step that shows it is at work, and of the chain's running row:
   later rows wait for it, so none of them runs. *)
LEMMA EndPatient ==
  ASSUME RollInv, NEW i \in Row, NEW s \in Outcomes,
         i \in AddedRow => pattern[i] = Running,
         i \in AddedRow => request' = "idle" /\ i <= rows,
         pattern' = [pattern EXCEPT ![i] = s],
         working' \subseteq working, i \notin working',
         UNCHANGED <<rows, request>>,
         request # "idle" => roll' = {}
  PROVE  Batches' /\ InOrder'
<1> USE DEF RollInv, PublishInv, PatientInv
<1>1. \A k \in Row : pattern'[k] = IF k = i THEN s ELSE pattern[k]
  BY DEF TypeOK
<1>2. Batches'
  <2>1. \A k \in AddedRow : k > rows => k # i
    BY AddedFacts, RowsFacts
  <2>2. request # "idle" => i \notin AddedRow
    OBVIOUS
  <2> QED
    BY <1>1, <2>1, <2>2, AddedFacts DEF Batches, AddedRow, Row, Own, Works
<1>3. InOrder'
  <2> SUFFICES ASSUME NEW k \in AddedRow
               PROVE  /\ k \in working' => pattern'[k] = Running
                      /\ ~Works(k) => pattern'[k] = Pending
                      /\ pattern'[k] = Running => \A j \in Before(k) : pattern'[j] = Done
    BY DEF InOrder, AddedRow, Row, Own, Before, Works
  <2>1. k \in Row /\ \A j \in Before(k) : j \in AddedRow /\ j \in Row /\ j < k
    BY AddedFacts
  <2>2. CASE k = i
    <3>1. \A j \in Before(k) : j # i
      BY <2>1, <2>2, AddedFacts
    <3>2. Works(i) /\ \A j \in Before(i) : pattern[j] = Done
      BY <2>2, StatusFacts DEF InOrder
    <3> QED
      BY <1>1, <2>1, <2>2, <3>1, <3>2
  <2>3. CASE k # i
    <3>1. pattern[k] = Running => i \notin Before(k)
      BY <2>1, StatusFacts DEF InOrder
    <3> QED
      BY <1>1, <2>1, <2>3, <3>1 DEF InOrder
  <2> QED
    BY <2>2, <2>3
<1> QED
  BY <1>2, <1>3

LEMMA StepEndsPatient ==
  ASSUME RollInv, NEW i \in Row, NEW s \in Outcomes, StepEnds(i, s)
  PROVE  PatientInv'
<1> USE DEF RollInv, PublishInv, PatientInv
<1>1. /\ i \in working /\ working' = working \ {i}
      /\ pattern' = [pattern EXCEPT ![i] = s]
      /\ UNCHANGED <<rows, roll, request>>
  BY DEF StepEnds
<1>2. ASSUME i \in AddedRow
      PROVE  pattern[i] = Running /\ roll = {} /\ request = "idle" /\ i <= rows
  <2>1. pattern[i] = Running /\ Works(i)
    BY <1>1, <1>2, StatusFacts DEF InOrder
  <2>2. roll = {}
    BY <1>1, <1>2 DEF RollAlone
  <2>3. i <= rows /\ request = "idle"
    <3>1. i \in Nat /\ rows \in Nat /\ Len(RollbackSteps) \in Nat
      BY <1>2, AddedFacts, RowsFacts
    <3>2. i <= rows
      BY <1>2, <2>1, <3>1, StatusFacts DEF Batches
    <3>3. i > rows - Len(RollbackSteps) \/ i <= rows - Len(RollbackSteps)
      BY <3>1
    <3> QED
      BY <1>2, <2>1, <3>2, <3>3, StatusFacts DEF Batches
  <2> QED
    BY <2>1, <2>2, <2>3
<1>3. Batches' /\ InOrder'
  <2>1. request # "idle" => roll' = {}
    BY <1>1 DEF Batches
  <2> QED
    BY <1>1, <1>2, <2>1, EndPatient
<1>4. RollAlone'
  <2> SUFFICES ASSUME roll # {}
               PROVE  RollAlone'
    BY <1>1 DEF RollAlone
  <2>2. \A k \in AddedRow : pattern'[k] = pattern[k]
    BY <1>1, <1>2, AddedFacts DEF TypeOK
  <2>3. \A k \in roll : k \in AddedRow /\ \A j \in Before(k) : j \in AddedRow
    BY RollFacts, AddedFacts DEF AddedRow
  <2>4. First(roll) \in roll
    BY RollFacts
  <2>5. /\ request' = "idle" /\ roll' = roll /\ working' \cap AddedRow = {}
        /\ First(roll') = First(roll) /\ Rest(roll') = Rest(roll)
    BY <1>1 DEF RollAlone
  <2> QED
    BY <2>2, <2>3, <2>4, <2>5 DEF RollAlone, AddedRow, Row, Own, Before, Works
<1> QED
  BY <1>3, <1>4

(* What the rows of a list are that a request or a retry runs: earlier rows of
   the rollback are done or in the list, no pause is among them, and when one
   of them is to run, none runs.  A row left at 1 that the list does not come
   to is one behind a second pause, and before it all is done. *)
LEMMA ListInOrder ==
  ASSUME Patient, RollInv, RunNew \/ Retry
  PROVE  /\ roll = {} /\ request' = "idle" /\ working \cap AddedRow = {}
         /\ \E ids \in SUBSET Row :
              /\ Run(ids)
              /\ \A i \in ids : i > Own /\ i <= rows
              /\ \A i \in ids : \A j \in Before(i) :
                   pattern[j] = Done \/ (j \in ids /\ pattern[j] \in {Pending, Failed})
              /\ \A i \in ids, k \in ids, p \in AddedRow :
                   ActionOf(p) = Pause => ~(i < p /\ p < k)
              /\ \A k \in ids : Works(k) /\ pattern[k] # Done
                   => \A i \in AddedRow : pattern[i] # Running
<1> USE DEF RollInv, PublishInv, PatientInv
<1>0. ~(RunNew /\ Retry) /\ (RunNew => request = "marked") /\ (Retry => Quiet)
      /\ request' = "idle"
  BY DEF RunNew, Retry
<1>1. PICK ids \in SUBSET Row :
        /\ Run(ids)
        /\ \A i \in ids : i > Own /\ i <= rows
        /\ RunNew => ids = {i \in New : \A p \in New : ActionOf(p) = Pause => i < p}
        /\ Retry => ids = RetryList
  BY RunRows
<1>2. Row \subseteq Nat /\ Own \in Nat /\ rows \in Nat /\ Len(RollbackSteps) \in Nat
  BY RowFacts, RowsFacts
<1>3. ids \subseteq AddedRow /\ \A k \in ids : k <= rows
  BY <1>1 DEF AddedRow
<1>4. RunNew => /\ \A i \in AddedRow : pattern[i] # Running
                /\ \A i \in New : pattern[i] = Pending
                /\ \A i \in AddedRow : Works(i) /\ pattern[i] # Done /\ i <= rows => i \in New
  <2> SUFFICES ASSUME RunNew
               PROVE  /\ \A i \in AddedRow : i \notin New => ~Works(i) \/ pattern[i] = Done \/ i > rows
                      /\ \A i \in AddedRow : i > rows - Len(RollbackSteps) => pattern[i] = Pending
                      /\ New \subseteq {i \in AddedRow : i > rows - Len(RollbackSteps)}
                      /\ \A i \in AddedRow : ~Works(i) => pattern[i] = Pending
    BY StatusFacts, AddedFacts, RowsFacts DEF New, Batches
  <2>1. \A i \in AddedRow : i > rows - Len(RollbackSteps) => pattern[i] = Pending
    BY <1>0 DEF Batches
  <2>2. \A i \in AddedRow : i <= rows - Len(RollbackSteps) /\ Works(i) => pattern[i] = Done
    BY <1>0 DEF Batches
  <2>3. rows - Len(RollbackSteps) >= Own
    BY <1>0, <1>2 DEF Requests
  <2>4. New \subseteq {i \in AddedRow : i > rows - Len(RollbackSteps)}
    <3> SUFFICES ASSUME NEW i \in New
                 PROVE  i \in AddedRow /\ i > rows - Len(RollbackSteps)
      OBVIOUS
    <3>1. i \in Row /\ i \in Nat /\ i > rows - Len(RollbackSteps)
      BY <1>2 DEF New
    <3>2. i > Own
      BY <1>2, <2>3, <3>1
    <3> QED
      BY <3>1, <3>2 DEF AddedRow
  <2>5. \A i \in AddedRow : i \notin New => i > rows \/ i <= rows - Len(RollbackSteps)
    BY <1>2, AddedFacts DEF New
  <2>6. \A i \in AddedRow : ~Works(i) => pattern[i] = Pending
    BY DEF InOrder
  <2> QED
    BY <2>1, <2>2, <2>4, <2>5, <2>6
<1>5. roll = {} /\ working \cap AddedRow = {}
  BY <1>0, <1>4 DEF Quiet, Batches, InOrder
<1>6. ASSUME NEW i \in ids, NEW j \in Before(i), pattern[j] # Done
      PROVE  j \in ids /\ pattern[j] \in {Pending, Failed}
  <2>1. j \in AddedRow /\ j < i /\ Works(j) /\ i \in AddedRow /\ j <= rows /\ i <= rows
    <3>1. i \in AddedRow /\ i <= rows
      BY <1>3
    <3>2. j \in AddedRow /\ j < i /\ Works(j)
      BY <1>6, <3>1, AddedFacts
    <3>3. i \in Nat /\ j \in Nat
      BY <3>1, <3>2, AddedFacts
    <3> QED
      BY <1>2, <3>1, <3>2, <3>3
  <2>2. CASE RunNew
    <3>1. j \in New /\ pattern[j] = Pending
      BY <1>4, <1>6, <2>1, <2>2
    <3>2. \A p \in New : ActionOf(p) = Pause => i < p
      BY <1>1, <2>2
    <3>3. \A p \in New : p \in Nat
      BY <1>2 DEF New
    <3>4. \A p \in New : ActionOf(p) = Pause => j < p
      BY <2>1, <3>2, <3>3, AddedFacts
    <3> QED
      BY <1>1, <2>2, <3>1, <3>4
  <2>3. CASE Retry
    <3>1. ids = RetryList /\ \A k \in RetryList : pattern[k] # Running
      BY <1>1, <2>3 DEF Retry
    <3>2. j \in Unfinished
      BY <1>6, <2>1, AddedFacts DEF Unfinished, Works, WithTasks, RollbackNotice, Publish, StopFlow,
         Rollback, RestoreFlow, RollbackStop
    <3>3. ~\E p \in Unfinished : /\ ActionOf(p) = Pause /\ p <= i
                                 /\ \E k \in Unfinished : k < p
      BY <3>1 DEF RetryList
    <3>4. \A p \in Unfinished : p <= j => p <= i
      BY <1>2, <2>1, AddedFacts DEF Unfinished
    <3>5. j \in RetryList
      BY <3>2, <3>3, <3>4 DEF RetryList
    <3> QED
      BY <1>6, <2>1, <3>1, <3>5, StatusFacts, AddedFacts DEF TypeOK
  <2> QED
    BY <2>2, <2>3
<1>7. ASSUME NEW i \in ids, NEW k \in ids, NEW p \in AddedRow,
             ActionOf(p) = Pause, i < p, p < k
      PROVE  FALSE
  <2>1. /\ p \in Row /\ p > Own /\ p <= rows /\ p \in Nat /\ k \in Nat /\ i \in Nat
        /\ i \in AddedRow /\ k \in AddedRow
    BY <1>2, <1>3, <1>7, AddedFacts
  <2>2. ~Works(p) /\ ActionOf(p) # RollbackNotice /\ pattern[p] # Done
    BY <1>7, StatusFacts DEF InOrder, Works, WithTasks, Pause, RollbackNotice, Publish, StopFlow,
       Rollback, RestoreFlow, RollbackStop
  <2>3. CASE RunNew
    <3>1. i \in New /\ \A q \in New : ActionOf(q) = Pause => k < q
      BY <1>1, <2>3
    <3>2. p \in New
      BY <1>2, <1>7, <2>1, <3>1 DEF New
    <3> QED
      BY <1>7, <2>1, <3>1, <3>2
  <2>4. CASE Retry
    <3>1. i \in RetryList /\ k \in RetryList
      BY <1>1, <2>4
    <3>2. p \in Unfinished /\ i \in Unfinished
      BY <2>1, <2>2, <3>1 DEF Unfinished, RetryList
    <3>3. p <= k
      BY <1>7, <2>1
    <3> QED
      BY <1>7, <3>1, <3>2, <3>3 DEF RetryList
  <2> QED
    BY <2>3, <2>4
<1>8. ASSUME NEW k \in ids, Works(k), pattern[k] # Done, NEW i \in AddedRow, pattern[i] = Running
      PROVE  FALSE
  <2>1. Retry
    BY <1>4, <1>8
  <2>2. ids = RetryList /\ \A u \in RetryList : pattern[u] # Running
    BY <1>1, <2>1 DEF Retry
  <2>3. Works(i) /\ i <= rows /\ \A j \in Before(i) : pattern[j] = Done
    BY <1>2, <1>8, AddedFacts, StatusFacts DEF InOrder, Batches
  <2>4. i \in Unfinished /\ i \notin RetryList
    BY <1>8, <2>2, <2>3, AddedFacts, StatusFacts
       DEF Unfinished, Works, WithTasks, RollbackNotice, Publish, StopFlow, Rollback, RestoreFlow,
       RollbackStop
  <2>5. PICK p \in Unfinished, j \in Unfinished : ActionOf(p) = Pause /\ p <= i /\ j < p
    BY <2>4 DEF RetryList
  <2>6. ~(p <= k)
    BY <2>2, <2>5 DEF RetryList
  <2>7. k < i
    BY <1>2, <1>3, <2>5, <2>6, AddedFacts DEF Unfinished
  <2>8. k \in Before(i)
    BY <1>3, <1>8, <2>7, AddedFacts
  <2> QED
    BY <1>8, <2>3, <2>8
<1>9. \A i \in ids : \A j \in Before(i) :
        pattern[j] = Done \/ (j \in ids /\ pattern[j] \in {Pending, Failed})
  BY <1>6
<1>10. \A i \in ids, k \in ids, p \in AddedRow : ActionOf(p) = Pause => ~(i < p /\ p < k)
  BY <1>7
<1>11. \A k \in ids : Works(k) /\ pattern[k] # Done => \A i \in AddedRow : pattern[i] # Running
  BY <1>8
<1> QED
  BY <1>0, <1>1, <1>5, <1>9, <1>10, <1>11

LEMMA RunPatient ==
  ASSUME Patient, RollInv, RunNew \/ Retry
  PROVE  PatientInv'
<1> USE DEF RollInv, PublishInv, PatientInv
<1>1. PICK ids \in SUBSET Row :
        /\ Run(ids)
        /\ \A i \in ids : i > Own /\ i <= rows
        /\ \A i \in ids : \A j \in Before(i) :
             pattern[j] = Done \/ (j \in ids /\ pattern[j] \in {Pending, Failed})
        /\ \A i \in ids, k \in ids, p \in AddedRow : ActionOf(p) = Pause => ~(i < p /\ p < k)
        /\ \A k \in ids : Works(k) /\ pattern[k] # Done
             => \A i \in AddedRow : pattern[i] # Running
  BY ListInOrder
<1>2. roll = {} /\ request' = "idle" /\ working \cap AddedRow = {}
  BY ListInOrder
<1>3. UNCHANGED <<rows, working>>
  BY DEF RunNew, Retry
<1>4. CASE pattern' = pattern /\ roll' = roll
  BY <1>2, <1>3, <1>4 DEF Batches, InOrder, RollAlone, AddedRow, Row, Own, Before, Works
<1>5. CASE ~(pattern' = pattern /\ roll' = roll)
  <2>1. PICK f \in ids :
          /\ f = First(roll') /\ f \in roll'
          /\ \A k \in roll' : f <= k /\ k \in ids /\ Works(k) /\ pattern[k] \in {Pending, Failed}
          /\ \A k \in ids : Works(k) /\ pattern[k] \in {Pending, Failed} => k \in roll'
          /\ pattern' = [pattern EXCEPT ![f] = Running]
    BY <1>1, <1>5, RunRowsFacts
  <2>2. /\ ids \subseteq AddedRow /\ f \in AddedRow /\ f <= rows
        /\ Works(f) /\ pattern[f] \in {Pending, Failed}
    BY <1>1, <2>1 DEF AddedRow
  <2>3. \A k \in Row : pattern'[k] = IF k = f THEN Running ELSE pattern[k]
    BY <2>1 DEF TypeOK
  <2>4. \A i \in AddedRow : pattern[i] # Running
    BY <1>1, <2>1, <2>2, StatusFacts
  <2>5. \A j \in Before(f) : pattern[j] = Done /\ j # f
    <3> SUFFICES ASSUME NEW j \in Before(f)
                 PROVE  pattern[j] = Done /\ j # f
      OBVIOUS
    <3>1. j \in AddedRow /\ j < f /\ Works(j) /\ j \in Nat /\ f \in Nat
      BY <2>2, AddedFacts
    <3>2. j \notin roll'
      BY <2>1, <3>1
    <3> QED
      BY <1>1, <2>1, <3>1, <3>2
  <2>6. Batches'
    <3>1. \A k \in AddedRow : k > rows => k # f
      BY <2>2, AddedFacts, RowsFacts
    <3> QED
      BY <1>2, <1>3, <2>3, <3>1, AddedFacts DEF Batches, AddedRow, Row, Own, Works
  <2>7. InOrder'
    <3> SUFFICES ASSUME NEW k \in AddedRow
                 PROVE  /\ k \in working' => pattern'[k] = Running
                        /\ ~Works(k) => pattern'[k] = Pending
                        /\ pattern'[k] = Running => \A j \in Before(k) : pattern'[j] = Done
      BY DEF InOrder, AddedRow, Row, Own, Before, Works
    <3>1. pattern'[k] = Running => k = f
      BY <2>3, <2>4, AddedFacts
    <3>2. ~Works(k) => pattern'[k] = Pending
      BY <2>2, <2>3, AddedFacts DEF InOrder
    <3>3. \A j \in Before(f) : pattern'[j] = Done
      BY <2>2, <2>3, <2>5, AddedFacts
    <3> QED
      BY <1>2, <1>3, <3>1, <3>2, <3>3
  <2>8. RollAlone'
    <3>1. pattern'[First(roll')] = Running /\ request' = "idle" /\ working' \cap AddedRow = {}
      BY <1>2, <1>3, <2>1, <2>2, <2>3, AddedFacts
    <3>2. \A k \in roll' : k # First(roll') => pattern'[k] \in {Pending, Failed}
      BY <2>1, <2>2, <2>3, AddedFacts
    <3>3. \A k \in roll' : \A j \in Before(k) : j \in roll' \/ pattern'[j] = Done
      <4> SUFFICES ASSUME NEW k \in roll', NEW j \in Before(k), pattern'[j] # Done
                   PROVE  j \in roll'
        OBVIOUS
      <4>1. k \in ids /\ k \in AddedRow /\ j \in AddedRow /\ Works(j) /\ j \in Row
        BY <2>1, <2>2, AddedFacts
      <4>2. CASE j = f
        BY <2>1, <4>2
      <4>3. CASE j # f
        <5>1. pattern[j] # Done
          BY <2>3, <4>1, <4>3
        <5> QED
          BY <1>1, <2>1, <4>1, <5>1
      <4> QED
        BY <4>2, <4>3
    <3>4. \A k \in roll', p \in AddedRow :
            ActionOf(p) = Pause => ~(First(roll') < p /\ p < k)
      BY <1>1, <2>1
    <3> QED
      BY <3>1, <3>2, <3>3, <3>4 DEF RollAlone, AddedRow, Row, Own, Before, Works
  <2> QED
    BY <2>6, <2>7, <2>8
<1> QED
  BY <1>4, <1>5

LEMMA RollPatient ==
  ASSUME RollInv, (\E s \in Outcomes : RollEnds(s)) \/ RollNext
  PROVE  PatientInv'
<1> USE DEF RollInv, PublishInv, PatientInv
<1>1. roll # {} /\ UNCHANGED <<rows, working, request>>
  BY DEF RollEnds, RollNext
<1>2. PICK f \in AddedRow : /\ f = First(roll) /\ f \in roll /\ f <= rows /\ Works(f)
                            /\ \A k \in roll : f <= k
  BY <1>1, RollFacts DEF AddedRow
<1>3. /\ \A k \in roll : k \in AddedRow /\ k <= rows /\ Works(k)
      /\ \A k \in roll : \A j \in Before(k) : j \in AddedRow /\ j < k
  BY RollFacts, AddedFacts DEF AddedRow
<1>4. request = "idle" /\ working \cap AddedRow = {}
  BY <1>1 DEF RollAlone
<1>5. ASSUME NEW s \in Outcomes, RollEnds(s)
      PROVE  PatientInv'
  <2>1. /\ pattern[f] = Running /\ pattern' = [pattern EXCEPT ![f] = s]
        /\ roll' = {} \/ (roll' = roll /\ s = Done /\ Rest(roll) # {})
    BY <1>2, <1>5 DEF RollEnds
  <2>2. Batches' /\ InOrder'
    <3>1. f \in Row /\ f \notin working'
      BY <1>1, <1>2, <1>4, AddedFacts
    <3> QED
      BY <1>1, <1>2, <1>4, <2>1, <3>1, EndPatient
  <2>3. RollAlone'
    <3> SUFFICES ASSUME roll' = roll, s = Done, Rest(roll) # {}
                 PROVE  RollAlone'
      BY <2>1 DEF RollAlone
    <3>1. \A k \in Row : pattern'[k] = IF k = f THEN Done ELSE pattern[k]
      BY <2>1 DEF TypeOK
    <3>2. First(roll') = f /\ Rest(roll') # {} /\ pattern'[f] = Done
      BY <1>2, <3>1, AddedFacts DEF Rest
    <3>3. \A k \in roll : k # f => pattern'[k] \in {Pending, Failed}
      BY <1>2, <1>3, <3>1, AddedFacts DEF RollAlone
    <3>4. \A k \in roll : \A j \in Before(k) : j \in roll \/ pattern'[j] = Done
      BY <1>2, <1>3, <3>1, AddedFacts DEF RollAlone
    <3>5. \A k \in roll, p \in AddedRow : ActionOf(p) = Pause => ~(f < p /\ p < k)
      BY <1>2 DEF RollAlone
    <3> QED
      BY <1>1, <1>4, <3>2, <3>3, <3>4, <3>5 DEF RollAlone, AddedRow, Row, Own, Before, Works
  <2> QED
    BY <2>2, <2>3
<1>6. ASSUME RollNext
      PROVE  PatientInv'
  <2>1. /\ pattern[f] = Done /\ roll' = Rest(roll) /\ Rest(roll) # {}
        /\ pattern' = [pattern EXCEPT ![First(Rest(roll))] = Running]
    BY <1>2, <1>6 DEF RollNext
  <2>2. PICK g \in AddedRow : /\ g = First(Rest(roll)) /\ g \in Rest(roll) /\ g \in roll
                              /\ f < g /\ g <= rows /\ Works(g) /\ g # f
                              /\ \A k \in Rest(roll) : g <= k
    BY <1>1, <1>2, <1>3, <2>1, RollFacts DEF Rest
  <2>3. pattern[g] \in {Pending, Failed}
    BY <1>2, <2>2 DEF RollAlone
  <2>4. \A k \in Row : pattern'[k] = IF k = g THEN Running ELSE pattern[k]
    BY <2>1, <2>2 DEF TypeOK
  <2>5. \A j \in Before(g) : pattern[j] = Done /\ j # g
    <3> SUFFICES ASSUME NEW j \in Before(g)
                 PROVE  pattern[j] = Done /\ j # g
      OBVIOUS
    <3>1. j \in AddedRow /\ j < g /\ j \in Nat /\ g \in Nat
      BY <2>2, AddedFacts
    <3>2. j \in roll => j = f
      BY <1>2, <2>2, <3>1 DEF Rest
    <3>3. j \in roll \/ pattern[j] = Done
      BY <1>1, <2>2 DEF RollAlone
    <3> QED
      BY <2>1, <3>1, <3>2, <3>3
  <2>6. Batches'
    <3>1. \A k \in AddedRow : k > rows => k # g
      BY <2>2, AddedFacts, RowsFacts
    <3> QED
      BY <1>1, <1>4, <2>4, <3>1, AddedFacts DEF Batches, AddedRow, Row, Own, Works
  <2>7. InOrder'
    <3> SUFFICES ASSUME NEW k \in AddedRow
                 PROVE  /\ k \in working' => pattern'[k] = Running
                        /\ ~Works(k) => pattern'[k] = Pending
                        /\ pattern'[k] = Running => \A j \in Before(k) : pattern'[j] = Done
      BY DEF InOrder, AddedRow, Row, Own, Before, Works
    <3>1. k \in Row /\ \A j \in Before(k) : j \in AddedRow /\ j \in Row
      BY AddedFacts
    <3>2. CASE k = g
      BY <1>1, <1>4, <2>2, <2>4, <2>5, <3>1, <3>2
    <3>3. CASE k # g
      <4>1. pattern[k] = Running => g \notin Before(k)
        BY <2>3, StatusFacts DEF InOrder
      <4> QED
        BY <1>1, <2>4, <3>1, <3>3, <4>1 DEF InOrder
    <3> QED
      BY <3>2, <3>3
  <2>8. RollAlone'
    <3>1. First(roll') = g /\ pattern'[g] = Running
      BY <2>1, <2>2, <2>4, AddedFacts
    <3>2. \A k \in roll' : k \in roll /\ k # f
      BY <1>2, <2>1 DEF Rest
    <3>3. \A k \in roll' : k # g => pattern'[k] \in {Pending, Failed}
      BY <1>2, <1>3, <2>4, <3>2, AddedFacts DEF RollAlone
    <3>4. \A k \in roll' : \A j \in Before(k) : j \in roll' \/ pattern'[j] = Done
      <4> SUFFICES ASSUME NEW k \in roll', NEW j \in Before(k), j \notin roll'
                   PROVE  pattern'[j] = Done
        OBVIOUS
      <4>1. j \in Row /\ j # g
        BY <1>3, <2>1, <2>2, <3>2, AddedFacts
      <4>2. j \in roll => j = f
        BY <1>2, <2>1 DEF Rest
      <4>3. pattern[j] = Done
        BY <1>1, <2>1, <3>2, <4>2 DEF RollAlone
      <4> QED
        BY <2>4, <4>1, <4>3
    <3>5. \A k \in roll', p \in AddedRow : ActionOf(p) = Pause => ~(g < p /\ p < k)
      <4> SUFFICES ASSUME NEW k \in roll', NEW p \in AddedRow, ActionOf(p) = Pause, g < p, p < k
                   PROVE  FALSE
        OBVIOUS
      <4>1. f < p
        BY <2>2, AddedFacts
      <4> QED
        BY <1>1, <1>2, <3>2, <4>1 DEF RollAlone
    <3> QED
      BY <1>1, <1>4, <3>1, <3>3, <3>4, <3>5 DEF RollAlone, AddedRow, Row, Own, Before, Works
  <2> QED
    BY <2>6, <2>7, <2>8
<1> QED
  BY <1>5, <1>6

LEMMA PatientNext == Orderly /\ Patient /\ RollInv /\ [Next]_vars => PatientInv'
<1> SUFFICES ASSUME Orderly, Patient, RollInv, [Next]_vars
             PROVE  PatientInv'
  OBVIOUS
<1>1. CASE \/ (\E ok \in BOOLEAN : DownloadEnds(ok)) \/ RetryPost \/ RetryPut
           \/ (\E i \in Row : FinishPlan(i)) \/ Mark \/ RunRaises
           \/ (\E s \in EditSet : EditPlan(s)) \/ Delete \/ RollGivesUp \/ UNCHANGED vars
  BY <1>1, WritePatient
<1>2. CASE Generate
  BY <1>2, GeneratePatient
<1>3. CASE \E i \in Row : Start(i)
  BY <1>3, StartPatient
<1>4. CASE \E i \in Row, s \in Outcomes : StepEnds(i, s)
  BY <1>4, StepEndsPatient
<1>5. CASE RunNew \/ Retry
  BY <1>5, RunPatient
<1>6. CASE (\E s \in Outcomes : RollEnds(s)) \/ RollNext
  BY <1>6, RollPatient
<1> QED
  BY <1>1, <1>2, <1>3, <1>4, <1>5, <1>6 DEF Next

(* The invariant the order of a rollback rests on: a row begins when the rows
   before it are done, and the rollback's chain is alone on its rows. *)
THEOREM RollInvariance == Orderly = TRUE /\ Patient = TRUE => (Spec => []RollInv)
<1> SUFFICES ASSUME Orderly = TRUE, Patient = TRUE
             PROVE  Spec => []RollInv
  OBVIOUS
<1>1. Init => RollInv
  BY PublishInit, PatientInit DEF RollInv
<1>2. RollInv /\ [Next]_vars => RollInv'
  BY PublishNext, PatientNext DEF RollInv
<1> QED
  BY <1>1, <1>2, PTL DEF Spec

-----------------------------------------------------------------------------
(* The rollback keeps the order RollbackOrder promises. *)

Resting == roll = {} /\ \A i \in AddedRow : pattern[i] # Running

(* What the promise says in the words of the plan's rows. *)
LEMMA OrderWords ==
  ASSUME NEW i \in AddedRow
  PROVE  /\ Order!Finished(i) <=> (Works(i) => pattern[i] = Done)
         /\ Order!Untouched(i) <=> (Works(i) => pattern[i] = Pending)
<1> DEFINE st == [k \in AddedRow |-> [h \in {"step"} |-> pattern[k]]]
           hosts == [k \in AddedRow |-> IF Works(k) THEN {"step"} ELSE {}]
<1>1. st[i] = [h \in {"step"} |-> pattern[i]]
  OBVIOUS
<1>2. st[i]["step"] = pattern[i]
  BY <1>1
<1>3. CASE Works(i)
  <2>1. hosts[i] = {"step"}
    BY <1>3
  <2>2. \A x : (\A h \in hosts[i] : st[i][h] = x) <=> pattern[i] = x
    BY <1>2, <2>1
  <2> QED
    BY <1>3, <2>2 DEF Order!Finished, Order!Untouched, Order!Done, Order!Pending, Done, Pending
<1>4. CASE ~Works(i)
  <2>1. hosts[i] = {}
    BY <1>4
  <2> QED
    BY <1>4, <2>1 DEF Order!Finished, Order!Untouched
<1> QED
  BY <1>3, <1>4

LEMMA OrderQuiet ==
  ASSUME \A i \in AddedRow : Works(i) => pattern[i] # Running
  PROVE  Order!Quiet
  BY DEF Order!Quiet, Running, Order!Running

(* A step that changes no row of the rollback and what rests is none of its. *)
LEMMA OrderStutter ==
  ASSUME \A i \in AddedRow : pattern'[i] = pattern[i], Resting' = Resting
  PROVE  UNCHANGED Order!vars
<1>1. [i \in AddedRow |-> [h \in {"step"} |-> pattern[i]]]'
        = [i \in AddedRow |-> [h \in {"step"} |-> pattern[i]]]
  BY DEF AddedRow, Row, Own
<1> QED
  BY <1>1 DEF Order!vars, Resting, AddedRow, Row, Own

LEMMA OrderBegin ==
  ASSUME NEW i \in AddedRow, Works(i), pattern[i] \in {Pending, Failed},
         \A k \in AddedRow : pattern'[k] = IF k = i THEN Running ELSE pattern[k],
         ~Resting'
  PROVE  Order!Begin(i)
<1> DEFINE some == {"step"}
           st == [k \in AddedRow |-> [h \in {"step"} |-> pattern[k]]]
<1>1. some \in (SUBSET [k \in AddedRow |-> IF Works(k) THEN {"step"} ELSE {}][i]) \ {{}}
  <2>1. [k \in AddedRow |-> IF Works(k) THEN {"step"} ELSE {}][i] = {"step"}
    OBVIOUS
  <2> QED
    BY <2>1
<1>2. st' = [k \in AddedRow |-> [h \in {"step"} |-> pattern'[k]]]
  BY DEF AddedRow, Row, Own
<1>3. st' = [st EXCEPT ![i] = [h \in {"step"} |-> IF h \in some THEN Running ELSE st[i][h]]]
  BY <1>2
<1>4. \A h \in some : st[i][h] \in {Pending, Failed}
  OBVIOUS
<1>5. (roll = {} /\ \A k \in AddedRow : pattern[k] # Running)' = FALSE
  BY DEF Resting
<1> QED
  BY <1>1, <1>3, <1>4, <1>5
     DEF Order!Begin, Pending, Failed, Running, Order!Pending, Order!Failed, Order!Running

LEMMA OrderEnd ==
  ASSUME NEW i \in AddedRow, Works(i), pattern[i] = Running,
         NEW s \in {Done, Failed},
         \A k \in AddedRow : pattern'[k] = IF k = i THEN s ELSE pattern[k],
         \/ Resting' /\ \A k \in AddedRow : pattern'[k] # Running
         \/ ~Resting' /\ ~Resting
  PROVE  \E h \in [k \in AddedRow |-> IF Works(k) THEN {"step"} ELSE {}][i] : Order!End(i, h)
<1> DEFINE st == [k \in AddedRow |-> [h \in {"step"} |-> pattern[k]]]
<1>1. st' = [k \in AddedRow |-> [h \in {"step"} |-> pattern'[k]]]
  BY DEF AddedRow, Row, Own
<1>2. st' = [st EXCEPT ![i]["step"] = s]
  BY <1>1
<1>3. st[i]["step"] = Running
  OBVIOUS
<1>4. (roll = {} /\ \A k \in AddedRow : pattern[k] # Running)'
        \in {roll = {} /\ \A k \in AddedRow : pattern[k] # Running, Order!Quiet'}
  <2>1. CASE Resting' /\ \A k \in AddedRow : pattern'[k] # Running
    <3>1. Order!Quiet'
      BY <1>1, <2>1 DEF Order!Quiet, Running, Order!Running
    <3> QED
      BY <2>1, <3>1 DEF Resting
  <2>2. CASE ~Resting' /\ ~Resting
    BY <2>2 DEF Resting
  <2> QED
    BY <2>1, <2>2
<1>5. Order!End(i, "step")
  BY <1>2, <1>3, <1>4
     DEF Order!End, Done, Failed, Running, Order!Done, Order!Failed, Order!Running
<1> QED
  BY <1>5

(* It is the row's turn when the rows before it that work are done. *)
LEMMA OrderNext ==
  ASSUME NEW i \in AddedRow, \A j \in Before(i) : pattern[j] = Done
  PROVE  Order!IsNext(i)
<1>1. ASSUME NEW j \in AddedRow, j < i, Works(j)
      PROVE  pattern[j] = Done
  <2>1. j \in Row /\ j > Own /\ i > Own /\ j \in Nat /\ i \in Nat /\ Own \in Nat
    BY RowFacts DEF AddedRow
  <2>2. j \in Before(i)
    BY <1>1, <2>1 DEF Before
  <2> QED
    BY <2>2
<1>2. \A j \in AddedRow : j < i => Order!Finished(j)
  BY <1>1, OrderWords
<1> QED
  BY <1>2 DEF Order!IsNext

LEMMA StartOrder ==
  ASSUME Orderly, RollInv, NEW i \in Row, Start(i)
  PROVE  Order!Next \/ UNCHANGED Order!vars
<1> USE DEF RollInv, PublishInv, PatientInv
<1>1. /\ Works(i) /\ pattern[i] \in {Pending, Failed}
      /\ \A j \in Before(i) : pattern[j] = Done
      /\ i > Own => roll = {}
      /\ pattern' = [pattern EXCEPT ![i] = Running]
      /\ roll' = roll
  BY DEF Start, Startable, InTurn
<1>2. \A k \in Row : pattern'[k] = IF k = i THEN Running ELSE pattern[k]
  BY <1>1 DEF TypeOK
<1>3. CASE i \in AddedRow
  <2>1. ASSUME NEW k \in AddedRow, pattern[k] = Running
        PROVE  FALSE
    <3>1. k # i /\ Works(k) /\ i \notin Before(k) /\ k \notin Before(i)
      BY <1>1, <2>1, StatusFacts DEF InOrder
    <3> QED
      BY <1>1, <1>3, <3>1, AddedFacts
  <2>2. Resting
    BY <1>1, <1>3, <2>1 DEF Resting, AddedRow
  <2>3. ~Resting'
    BY <1>2, <1>3 DEF Resting, AddedRow, Row, Own
  <2>4. \A k \in AddedRow : pattern'[k] = IF k = i THEN Running ELSE pattern[k]
    BY <1>2, AddedFacts
  <2>5. Order!Begin(i) /\ Order!IsNext(i)
    BY <1>1, <1>3, <2>3, <2>4, OrderBegin, OrderNext
  <2>6. Order!Request(i)
    BY <2>2, <2>5 DEF Order!Request, Resting
  <2> QED
    BY <1>3, <2>6 DEF Order!Next
<1>4. CASE i \notin AddedRow
  <2>1. \A k \in AddedRow : pattern'[k] = pattern[k]
    BY <1>2, <1>4, AddedFacts
  <2>2. Resting' = Resting
    BY <1>1, <2>1 DEF Resting, AddedRow, Row, Own
  <2> QED
    BY <2>1, <2>2, OrderStutter
<1> QED
  BY <1>3, <1>4

(* A row that is left at 1 keeps what the promise sees. *)
LEMMA StepEndsOrder ==
  ASSUME RollInv, NEW i \in Row, NEW s \in Outcomes, StepEnds(i, s)
  PROVE  Order!Next \/ UNCHANGED Order!vars
<1> USE DEF RollInv, PublishInv, PatientInv
<1>1. i \in working /\ pattern' = [pattern EXCEPT ![i] = s] /\ roll' = roll
  BY DEF StepEnds
<1>2. \A k \in Row : pattern'[k] = IF k = i THEN s ELSE pattern[k]
  BY <1>1 DEF TypeOK
<1>3. CASE i \in AddedRow /\ s # Running
  <2>1. roll = {} /\ Works(i) /\ pattern[i] = Running
    BY <1>1, <1>3, StatusFacts DEF RollAlone, InOrder
  <2>2. \A k \in AddedRow : k # i => pattern[k] # Running
    BY <1>3, <2>1, OneRuns
  <2>3. s \in {Done, Failed}
    BY <1>3 DEF Outcomes
  <2>4. \A k \in AddedRow : pattern'[k] = IF k = i THEN s ELSE pattern[k]
    BY <1>2, AddedFacts
  <2>5. \A k \in AddedRow : pattern'[k] # Running
    BY <1>3, <2>2, <2>4
  <2>6. Resting'
    BY <1>1, <2>1, <2>5 DEF Resting, AddedRow, Row, Own
  <2>7. \E h \in [k \in AddedRow |-> IF Works(k) THEN {"step"} ELSE {}][i] : Order!End(i, h)
    BY <1>3, <2>1, <2>3, <2>4, <2>5, <2>6, OrderEnd
  <2> QED
    BY <1>3, <2>7 DEF Order!Next
<1>4. CASE i \notin AddedRow \/ s = Running
  <2>1. \A k \in AddedRow : pattern'[k] = pattern[k]
    BY <1>1, <1>2, <1>4, AddedFacts DEF InOrder
  <2>2. Resting' = Resting
    BY <1>1, <2>1 DEF Resting, AddedRow, Row, Own
  <2> QED
    BY <2>1, <2>2, OrderStutter
<1> QED
  BY <1>3, <1>4

LEMMA RunOrder ==
  ASSUME Patient, RollInv, RunNew \/ Retry
  PROVE  Order!Next \/ UNCHANGED Order!vars
<1> USE DEF RollInv, PublishInv, PatientInv
<1>1. PICK ids \in SUBSET Row :
        /\ Run(ids)
        /\ \A i \in ids : i > Own /\ i <= rows
        /\ \A i \in ids : \A j \in Before(i) :
             pattern[j] = Done \/ (j \in ids /\ pattern[j] \in {Pending, Failed})
        /\ \A k \in ids : Works(k) /\ pattern[k] # Done
             => \A i \in AddedRow : pattern[i] # Running
  BY ListInOrder
<1>2. roll = {}
  BY ListInOrder
<1>3. CASE pattern' = pattern /\ roll' = roll
  <2>1. Resting' = Resting
    BY <1>3 DEF Resting, AddedRow, Row, Own
  <2> QED
    BY <1>3, <2>1, OrderStutter
<1>4. CASE ~(pattern' = pattern /\ roll' = roll)
  <2>1. PICK f \in ids :
          /\ roll' # {} /\ f \in roll' /\ \A k \in roll' : f <= k
          /\ \A k \in ids : Works(k) /\ pattern[k] \in {Pending, Failed} => k \in roll'
          /\ Works(f) /\ pattern[f] \in {Pending, Failed}
          /\ pattern' = [pattern EXCEPT ![f] = Running]
    BY <1>1, <1>4, RunRowsFacts
  <2>2. f \in AddedRow /\ f \in Row
    BY <1>1, <2>1 DEF AddedRow
  <2>3. \A j \in Before(f) : pattern[j] = Done
    <3> SUFFICES ASSUME NEW j \in Before(f)
                 PROVE  pattern[j] = Done
      OBVIOUS
    <3>1. j < f /\ Works(j) /\ f \in Nat /\ j \in Nat
      BY <2>2, AddedFacts
    <3>2. j \notin roll'
      BY <2>1, <3>1
    <3> QED
      BY <1>1, <2>1, <3>1, <3>2
  <2>4. Resting /\ ~Resting'
    <3>1. \A i \in AddedRow : pattern[i] # Running
      BY <1>1, <2>1, StatusFacts
    <3> QED
      BY <1>2, <2>1, <3>1 DEF Resting
  <2>5. \A k \in AddedRow : pattern'[k] = IF k = f THEN Running ELSE pattern[k]
    BY <2>1, AddedFacts DEF TypeOK
  <2>6. Order!Begin(f) /\ Order!IsNext(f)
    BY <2>1, <2>2, <2>3, <2>4, <2>5, OrderBegin, OrderNext
  <2>7. Order!Request(f)
    BY <2>4, <2>6 DEF Order!Request, Resting
  <2> QED
    BY <2>2, <2>7 DEF Order!Next
<1> QED
  BY <1>3, <1>4

LEMMA RollOrder ==
  ASSUME RollInv, (\E s \in Outcomes : RollEnds(s)) \/ RollNext \/ RollGivesUp
  PROVE  Order!Next \/ UNCHANGED Order!vars
<1> USE DEF RollInv, PublishInv, PatientInv
<1>1. roll # {} /\ ~Resting
  BY DEF RollEnds, RollNext, RollGivesUp, Resting
<1>2. PICK f \in AddedRow : /\ f = First(roll) /\ f \in roll /\ Works(f)
                            /\ \A k \in roll : f <= k
  BY <1>1, RollFacts DEF AddedRow
<1>3. \A i \in AddedRow : pattern[i] = Running => i = f
  BY <1>1, <1>2, OnlyHeadRuns
<1>5. ASSUME NEW s \in Outcomes, RollEnds(s)
      PROVE  Order!Next \/ UNCHANGED Order!vars
  <2>1. /\ pattern[f] = Running /\ pattern' = [pattern EXCEPT ![f] = s]
        /\ roll' = roll \/ roll' = {}
    BY <1>2, <1>5 DEF RollEnds
  <2>2. \A k \in AddedRow : pattern'[k] = IF k = f THEN s ELSE pattern[k]
    BY <1>2, <2>1, AddedFacts DEF TypeOK
  <2>3. CASE s = Running
    <3>1. \A k \in AddedRow : pattern'[k] = pattern[k]
      BY <2>1, <2>2, <2>3
    <3>2. ~Resting'
      BY <2>1, <3>1, <1>2 DEF Resting, AddedRow, Row, Own
    <3>3. Resting' = Resting
      BY <1>1, <3>2 DEF Resting
    <3> QED
      BY <3>1, <3>3, OrderStutter
  <2>4. CASE s \in {Done, Failed}
    <3>1. \A k \in AddedRow : pattern'[k] # Running
      BY <1>3, <2>2, <2>4, StatusFacts
    <3>2. \/ Resting' /\ \A k \in AddedRow : pattern'[k] # Running
          \/ ~Resting' /\ ~Resting
      BY <1>1, <3>1 DEF Resting
    <3>3. \E h \in [k \in AddedRow |-> IF Works(k) THEN {"step"} ELSE {}][f] : Order!End(f, h)
      BY <1>2, <2>1, <2>2, <2>4, <3>2, OrderEnd
    <3> QED
      BY <3>3 DEF Order!Next
  <2> QED
    BY <2>3, <2>4 DEF Outcomes
<1>6. ASSUME RollNext
      PROVE  Order!Next
  <2>1. /\ pattern[f] = Done /\ roll' = Rest(roll) /\ Rest(roll) # {}
        /\ pattern' = [pattern EXCEPT ![First(Rest(roll))] = Running]
    BY <1>2, <1>6 DEF RollNext
  <2>3. PICK g \in AddedRow : /\ g = First(Rest(roll)) /\ g \in Rest(roll) /\ g \in roll
                              /\ f < g /\ Works(g) /\ g # f
                              /\ \A k \in Rest(roll) : g <= k
    BY <1>1, <1>2, <2>1, RollFacts DEF AddedRow, Rest
  <2>4. pattern[g] \in {Pending, Failed}
    BY <1>2, <2>3 DEF RollAlone
  <2>5. \A k \in AddedRow : pattern'[k] = IF k = g THEN Running ELSE pattern[k]
    BY <2>1, <2>3, AddedFacts DEF TypeOK
  <2>6. ~Resting'
    BY <2>1 DEF Resting
  <2>7. \A j \in Before(g) : pattern[j] = Done
    <3> SUFFICES ASSUME NEW j \in Before(g)
                 PROVE  pattern[j] = Done
      OBVIOUS
    <3>1. j < g /\ j \in Nat /\ g \in Nat
      BY AddedFacts
    <3>2. j \in roll => j = f
      BY <1>2, <2>3, <3>1 DEF Rest
    <3>3. j \in roll \/ pattern[j] = Done
      BY <1>1, <2>3 DEF RollAlone
    <3> QED
      BY <2>1, <3>2, <3>3
  <2>8. Order!Begin(g) /\ Order!IsNext(g)
    BY <2>3, <2>4, <2>5, <2>6, <2>7, OrderBegin, OrderNext
  <2>9. Order!IsFree(g)
    <3> SUFFICES ASSUME NEW p \in {i \in AddedRow : ActionOf(i) = Pause}, p < g
                 PROVE  \E j \in AddedRow : p < j /\ ~Order!Untouched(j)
      BY DEF Order!IsFree
    <3>1. ~(f < p)
      BY <1>1, <1>2, <2>3 DEF RollAlone
    <3>2. p # f
      BY <1>2 DEF Works, WithTasks, Pause, Publish, StopFlow, Rollback, RestoreFlow,
         RollbackStop
    <3>3. p \in Nat /\ f \in Nat
      BY AddedFacts
    <3>4. ~Order!Untouched(f)
      BY <1>2, <2>1, OrderWords, StatusFacts
    <3> QED
      BY <3>1, <3>2, <3>3, <3>4
  <2>10. Order!Continue(g)
    BY <1>1, <2>8, <2>9 DEF Order!Continue, Resting
  <2> QED
    BY <2>10 DEF Order!Next
<1>7. ASSUME RollGivesUp
      PROVE  Order!Next
  <2>1. roll' = {} /\ pattern' = pattern /\ pattern[f] = Done
    BY <1>2, <1>7 DEF RollGivesUp
  <2>2. \A i \in AddedRow : pattern[i] # Running
    BY <1>3, <2>1, StatusFacts
  <2>3. Order!Quiet
    BY <2>2, OrderQuiet
  <2>4. (roll = {} /\ \A i \in AddedRow : pattern[i] # Running)' = TRUE
    BY <2>1, <2>2 DEF AddedRow, Row, Own
  <2>5. [i \in AddedRow |-> [h \in {"step"} |-> pattern[i]]]'
          = [i \in AddedRow |-> [h \in {"step"} |-> pattern[i]]]
    BY <2>1 DEF AddedRow, Row, Own
  <2>6. Order!Rest
    BY <2>3, <2>4, <2>5 DEF Order!Rest
  <2> QED
    BY <2>6 DEF Order!Next
<1> QED
  BY <1>5, <1>6, <1>7

(* Every step of the plan is a step of the promise or leaves it alone. *)
LEMMA OrderStep ==
  ASSUME Orderly, Patient, RollInv, [Next]_vars
  PROVE  Order!Next \/ UNCHANGED Order!vars
<1>1. CASE \E i \in Row : Start(i)
  BY <1>1, StartOrder
<1>2. CASE \E i \in Row, s \in Outcomes : StepEnds(i, s)
  BY <1>2, StepEndsOrder
<1>3. CASE RunNew \/ Retry
  BY <1>3, RunOrder
<1>4. CASE (\E s \in Outcomes : RollEnds(s)) \/ RollNext \/ RollGivesUp
  BY <1>4, RollOrder
<1>5. CASE \/ (\E ok \in BOOLEAN : DownloadEnds(ok)) \/ RetryPost \/ RetryPut
           \/ (\E i \in Row : FinishPlan(i)) \/ Generate \/ Mark \/ RunRaises
           \/ (\E s \in EditSet : EditPlan(s)) \/ Delete \/ UNCHANGED vars
  <2>1. UNCHANGED <<pattern, roll>>
    BY <1>5 DEF DownloadEnds, RetryPost, RetryPut, Download, FinishPlan, Generate, Mark,
       RunRaises, EditPlan, Delete, vars
  <2>2. Resting' = Resting
    BY <2>1 DEF Resting, AddedRow, Row, Own
  <2> QED
    BY <2>1, <2>2, OrderStutter
<1> QED
  BY <1>1, <1>2, <1>3, <1>4, <1>5 DEF Next

LEMMA OrderInit == Init => Order!Init
<1> SUFFICES ASSUME Init
             PROVE  Order!Init
  OBVIOUS
<1>1. [i \in AddedRow |-> [h \in {"step"} |-> pattern[i]]]
        = [i \in AddedRow |-> [h \in {"step"} |-> Pending]]
  BY DEF Init, AddedRow
<1>2. (roll = {} /\ \A i \in AddedRow : pattern[i] # Running) = TRUE
  BY StatusFacts DEF Init, AddedRow
<1> QED
  BY <1>1, <1>2 DEF Order!Init, Pending, Order!Pending

(* The rollback of a plan keeps what RollbackOrder promises, also when a step
   is left at 1, and when a request adds its steps and does not mark the plan:
   its steps come in their order, none is repeated that has succeeded, and its
   pauses are passed by requests only.  The client waits until nothing is
   under way before he asks, and has carried out one rollback before he asks
   for the next. *)
THEOREM PlanKeepsOrder == Orderly = TRUE /\ Patient = TRUE => (Spec => KeepsOrder)
<1> SUFFICES ASSUME Orderly = TRUE, Patient = TRUE
             PROVE  Spec => KeepsOrder
  OBVIOUS
<1>1. Spec => []RollInv
  BY RollInvariance
<1>2. RollInv /\ [Next]_vars => [Order!Next]_Order!vars
  BY OrderStep
<1> QED
  BY OrderInit, <1>1, <1>2, PTL DEF Spec, KeepsOrder, Order!Spec

-----------------------------------------------------------------------------
(* The plan and the browser that watches it *)

(* The browser only reads: the plan's life is the same with it. *)
THEOREM FeedImplementsPlan == FeedFairSpec => Spec
<1>1. FeedInit => Init
  BY DEF FeedInit
<1>2. [FeedNext]_<<vars, feed>> => [Next]_vars
  BY DEF FeedNext, Watch, Callback
<1> QED BY <1>1, <1>2, PTL DEF FeedFairSpec, Spec

(* The list of ids is of plans watched, and every plan watched is in it. *)
LEMMA IdsOfAll ==
  ASSUME NEW S \in SUBSET Plans, NEW p \in S
  PROVE  /\ \A i \in DOMAIN Ids(S) : Ids(S)[i] \in S
         /\ \E i \in DOMAIN Ids(S) : Ids(S)[i] = p
<1> DEFINE n == Cardinality(S)
           Rises(f) == \A i, j \in DOMAIN f : i < j => f[i] < f[j]
<1>1. IsFiniteSet(S) /\ n \in Nat /\ IsFiniteSet(1..n) /\ Cardinality(1..n) = n
  <2>1. IsFiniteSet(Plans)
    <3>1. \A m \in Nat : IsFiniteSet(1..m)
      BY FS_Interval
    <3> QED BY <3>1 DEF Plans
  <2>2. IsFiniteSet(S)
    BY <2>1, FS_Subset
  <2> QED BY <2>2, FS_CardinalityType, FS_Interval
<1>2. \E f \in [1..n -> S] : Rises(f)
  <2> Plans = {1, 2}
    BY DEF Plans
  <2>1. CASE S = {1, 2}
    <3>1. n = 2
      <4>1. PICK one : one = {1}
        OBVIOUS
      <4>2. IsFiniteSet(one) /\ Cardinality(one) = 1
        BY <4>1, FS_Singleton
      <4>3. 2 \notin one /\ S = one \cup {2}
        BY <2>1, <4>1
      <4>4. Cardinality(one \cup {2}) = Cardinality(one) + 1
        BY <4>2, <4>3, FS_AddElement
      <4> QED BY <4>2, <4>3, <4>4
    <3>2. [i \in 1..n |-> i] \in [1..n -> S] /\ Rises([i \in 1..n |-> i])
      BY <2>1, <3>1
    <3> QED BY <3>2
  <2>2. CASE S # {1, 2}
    <3>1. S = {p}
      BY <2>2
    <3>2. n = 1
      BY <3>1, FS_Singleton
    <3>3. [i \in 1..n |-> p] \in [1..n -> S] /\ Rises([i \in 1..n |-> p])
      BY <3>2
    <3> QED BY <3>3
  <2> QED BY <2>1, <2>2
<1>3. Ids(S) \in [1..n -> S] /\ Rises(Ids(S))
  BY <1>2 DEF Ids
<1>4. Ids(S) \in Injection(1..n, S)
  <2>1. \A i, j \in 1..n : i < j \/ j < i \/ i = j
    BY <1>1
  <2>2. \A x \in S : ~(x < x)
    BY DEF Plans
  <2> QED BY <1>3, <2>1, <2>2 DEF Injection, IsInjective
<1>5. Ids(S) \in Surjection(1..n, S)
  BY <1>1, <1>4, FS_Injection
<1> QED BY <1>3, <1>5 DEF Surjection

(* The list of the look before is that of what the browser shows. *)
ListIsView ==
  /\ watched \in SUBSET Plans
  /\ view = [p \in Plans |-> view[p]]
  /\ watched = {} => known = <<>>
  /\ known # <<>> => known = [i \in DOMAIN Ids(watched) |-> view[Ids(watched)[i]]]

(* A list that is the same as in the look before means that every plan is as
   it was: the plans' ids are not compared, but a message forgets the list. *)
THEOREM SameListMeansSamePlans == FeedFairSpec => []SameListIsRight
<1>1. FeedInit => ListIsView
  BY DEF FeedInit, ListIsView
<1>2. ListIsView /\ [FeedNext]_<<vars, feed>> => ListIsView'
  <2> SUFFICES ASSUME ListIsView, [FeedNext]_<<vars, feed>> PROVE ListIsView'
    OBVIOUS
  <2>1. CASE UNCHANGED feed
    BY <2>1 DEF feed, ListIsView
  <2>2. ASSUME NEW plans \in SUBSET Plans, Watch(plans) PROVE ListIsView'
    BY <2>2 DEF Watch, ListIsView
  <2>3. CASE Callback
    <3>1. Ids(watched)' = Ids(watched) /\ watched' = watched /\ watched # {} /\ known' = Now
      BY <2>3 DEF Callback
    <3>2. \A i \in DOMAIN Ids(watched) : Ids(watched)[i] \in watched
      BY <3>1, IdsOfAll DEF ListIsView
    <3>3. view' = [p \in Plans |-> view'[p]]
      BY <2>3 DEF Callback, ListIsView
    <3>4. \A i \in DOMAIN Ids(watched) : view'[Ids(watched)[i]] = StatusOf(Ids(watched)[i])
      <4>1. CASE Now = known
        <5>1. \A i \in DOMAIN Ids(watched) : known[i] = StatusOf(Ids(watched)[i])
          BY <4>1 DEF Now
        <5>2. known # <<>>
          BY <3>1, <4>1, IdsOfAll DEF ListIsView, Now
        <5> QED BY <2>3, <4>1, <5>1, <5>2 DEF Callback, ListIsView
      <4>2. CASE Now # known
        BY <2>3, <3>2, <4>2 DEF Callback, ListIsView
      <4> QED BY <4>1, <4>2
    <3>5. known' = [i \in DOMAIN Ids(watched) |-> view'[Ids(watched)[i]]]
      BY <3>1, <3>4 DEF Now
    <3> QED BY <3>1, <3>3, <3>5 DEF ListIsView
  <2> QED BY <2>1, <2>2, <2>3 DEF FeedNext
<1>3. ListIsView => SameListIsRight
  <2> SUFFICES ASSUME ListIsView, watched # {}, Now = known, NEW p \in watched
               PROVE  view[p] = StatusOf(p)
    BY DEF SameListIsRight
  <2>1. PICK i \in DOMAIN Ids(watched) : Ids(watched)[i] = p
    BY IdsOfAll DEF ListIsView
  <2>2. known # <<>>
    BY <2>1 DEF Now
  <2>3. known[i] = view[p] /\ known[i] = StatusOf(p)
    BY <2>1, <2>2 DEF ListIsView, Now
  <2> QED BY <2>3
<1> QED BY <1>1, <1>2, <1>3, PTL DEF FeedFairSpec

=============================================================================
