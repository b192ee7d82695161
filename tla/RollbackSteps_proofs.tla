------------------------ MODULE RollbackSteps_proofs ------------------------
(***************************************************************************)
(* Proofs about RollbackSteps, for any number of hosts and applications.   *)
(***************************************************************************)
EXTENDS RollbackSteps, FiniteSetTheorems, TLAPS

-----------------------------------------------------------------------------
(* What the generated steps have in common, whatever the CMDB has answered. *)

(* Traffic is restored first, to the old hosts, who are left alone then. *)
RestoreIsFirst(i, s) ==
  /\ OldHosts(i) # {} => s[1].action = RestoreFlow
  /\ \A j \in DOMAIN s :
       /\ s[j].action = RestoreFlow => j = 1 /\ s[j].hosts = OldHosts(i)
       /\ s[j].action \in {Rollback, RollbackStop} => s[j].hosts \subseteq NewHosts(i)
       /\ s[j].action \in {Pause, RollbackNotice} => s[j].hosts = {}

(* Every new host is rolled back, and then left alone. *)
RolledBackOnce(i, s) ==
  /\ \A h \in NewHosts(i) :
       \E j \in DOMAIN s : s[j].action = Rollback /\ h \in s[j].hosts
  /\ \A j, k \in DOMAIN s :
       j < k /\ s[j].action = Rollback => s[j].hosts \cap s[k].hosts = {}

(* In an application without old hosts the masters are rolled back before any
   step touches another host. *)
MastersGoFirst(i, s) ==
  \A j, k \in DOMAIN s : \A g \in s[j].hosts, h \in s[k].hosts :
    /\ i[g].app = i[h].app /\ i[g].flag = Master /\ i[h].flag # Master
    /\ Of(i, i[g].app) \subseteq NewHosts(i)
    => s[j].action = Rollback /\ j < k

(* At a pause every new master and slave has been rolled back or cut off. *)
PauseComesAfter(i, s) ==
  \A p \in DOMAIN s : s[p].action = Pause =>
    \A h \in NewHosts(i) : i[h].flag # Gray =>
      \E j \in DOMAIN s :
        j < p /\ s[j].action \in {Rollback, RollbackStop} /\ h \in s[j].hosts

Ordered(i, s) ==
  /\ s \in Seq(Steps) /\ Len(s) > 0
  /\ RestoreIsFirst(i, s) /\ RolledBackOnce(i, s)
  /\ MastersGoFirst(i, s) /\ PauseComesAfter(i, s)

-----------------------------------------------------------------------------
(* The inductive invariant. *)

(* A step has begun on the host, or has rolled it back, among the first n. *)
Begun(n, h) == \E j \in 1..n : h \in steps[j].hosts
BackBy(n, h) == \E j \in 1..n : steps[j].action = Rollback /\ h \in steps[j].hosts
Under(h) == off # {} /\ h \in Current.hosts

Planned ==
  /\ steps = <<>> => at = 0 /\ off = {}
  /\ steps # <<>> => Ordered(info, steps)

(* Only a rollback step has hosts off, its own. *)
OffTogether ==
  off # {} => at < Len(steps) /\ Current.action = Rollback /\ off \subseteq Current.hosts

OldStay ==
  /\ OldHosts(info) \subseteq back
  /\ at > 0 => OldHosts(info) \subseteq serving
  /\ OldHosts(info) \cap before \subseteq serving

(* A new host that took traffic takes it until a step begins on it; it takes it
   when it is back, and none in between. *)
NewInTurn ==
  \A h \in NewHosts(info) :
    /\ ~Begun(at, h) /\ ~Under(h) /\ h \in before => h \in serving
    /\ BackBy(at, h) \/ (Under(h) /\ h \notin off) => h \in serving /\ h \in back
    /\ h \in back => BackBy(at, h) \/ (Under(h) /\ h \notin off)
    /\ Begun(at, h) /\ h \notin back => h \notin serving

StepsInv == TypeOK /\ Planned /\ OffTogether /\ OldStay /\ NewInTurn

-----------------------------------------------------------------------------
(* Lemmas about the hosts of a plan. *)

LEMMA ActionFacts ==
  /\ Rollback # RollbackStop /\ Rollback # RestoreFlow /\ Rollback # Pause
  /\ Rollback # RollbackNotice /\ RollbackStop # RestoreFlow /\ RollbackStop # Pause
  /\ RollbackStop # RollbackNotice /\ RestoreFlow # Pause /\ RestoreFlow # RollbackNotice
  /\ Pause # RollbackNotice
BY DEF Rollback, RollbackStop, RestoreFlow, Pause, RollbackNotice

LEMMA HostFacts ==
  ASSUME NEW i
  PROVE  /\ OldHosts(i) \subseteq Host /\ NewHosts(i) \subseteq Host
         /\ OldHosts(i) \cap NewHosts(i) = {}
         /\ OldHosts(i) \cup NewHosts(i) = Host
         /\ \A h \in Host : h \in OldHosts(i) <=> i[h].version = "old"
BY DEF OldHosts, NewHosts

(* The step under way, and those carried out. *)
LEMMA CurrentFacts ==
  ASSUME TypeOK, at < Len(steps)
  PROVE  /\ at + 1 \in DOMAIN steps /\ Current \in Steps /\ at \in Nat /\ Len(steps) \in Nat
         /\ at + 1 \in 1..Len(steps) /\ Current.hosts \subseteq Host
         /\ 1..(at + 1) = (1..at) \cup {at + 1} /\ 1..at \subseteq DOMAIN steps
         /\ \A j \in 1..at : j < at + 1
<1>1. steps \in Seq(Steps) /\ at \in Nat /\ Len(steps) \in Nat /\ DOMAIN steps = 1..Len(steps)
  BY DEF TypeOK
<1>2. at + 1 \in 1..Len(steps)
  BY <1>1
<1>3. Current \in Steps
  BY <1>1, <1>2 DEF Current
<1>4. Current.hosts \subseteq Host
  BY <1>3 DEF Steps
<1> QED
  BY <1>1, <1>2, <1>3, <1>4

LEMMA CurrentOrdered ==
  ASSUME TypeOK, Ordered(info, steps), at < Len(steps)
  PROVE  /\ Current.action = RestoreFlow => at = 0 /\ Current.hosts = OldHosts(info)
         /\ Current.action \in {Rollback, RollbackStop} => Current.hosts \subseteq NewHosts(info)
         /\ Current.action \in {Pause, RollbackNotice} => Current.hosts = {}
         /\ \A h \in Current.hosts : ~BackBy(at, h)
         /\ Current.action # RestoreFlow /\ at = 0 => OldHosts(info) = {}
<1>1. /\ at + 1 \in DOMAIN steps /\ at \in Nat /\ 1..at \subseteq DOMAIN steps
      /\ \A j \in 1..at : j < at + 1
  BY CurrentFacts
<1>2. Current = steps[at + 1]
  BY DEF Current
<1>3. RestoreIsFirst(info, steps) /\ RolledBackOnce(info, steps)
  BY DEF Ordered
<1>4. \A h \in Current.hosts : ~BackBy(at, h)
  BY <1>1, <1>2, <1>3 DEF BackBy, RolledBackOnce
<1>5. Current.action = RestoreFlow => at = 0 /\ Current.hosts = OldHosts(info)
  BY <1>1, <1>2, <1>3 DEF RestoreIsFirst
<1> QED
  BY <1>1, <1>2, <1>3, <1>4, <1>5 DEF RestoreIsFirst

(* What one more step adds. *)
LEMMA MoreFacts ==
  ASSUME TypeOK, at < Len(steps), NEW h
  PROVE  /\ Begun(at + 1, h) <=> Begun(at, h) \/ h \in Current.hosts
         /\ BackBy(at + 1, h) <=>
              BackBy(at, h) \/ (Current.action = Rollback /\ h \in Current.hosts)
<1>1. 1..(at + 1) = (1..at) \cup {at + 1}
  BY CurrentFacts
<1> QED
  BY <1>1 DEF Begun, BackBy, Current

-----------------------------------------------------------------------------
(* The invariant is inductive, once the generated steps are in order. *)

LEMMA StepsInit == Init => StepsInv
<1> SUFFICES ASSUME Init
             PROVE  StepsInv
  OBVIOUS
<1>1. TypeOK
  BY HostFacts DEF Init, TypeOK
<1>2. at = 0 /\ off = {} /\ steps = <<>> /\ 1..at = {}
  BY DEF Init
<1>3. NewInTurn
  BY <1>2, HostFacts DEF Init, NewInTurn, Begun, BackBy, Under
<1> QED
  BY <1>1, <1>2, <1>3 DEF StepsInv, Planned, OffTogether, OldStay, Init

LEMMA OperationKeeps ==
  ASSUME StepsInv, RollbackOperation, Ordered(info, steps')
  PROVE  StepsInv'
<1>1. /\ steps = <<>> /\ at = 0 /\ off = {} /\ 1..at = {}
      /\ UNCHANGED <<info, at, off, serving, back, before>>
  BY DEF RollbackOperation, StepsInv, Planned
<1>2. TypeOK'
  BY <1>1 DEF StepsInv, TypeOK, Ordered
<1>3. Planned' /\ OffTogether' /\ OldStay'
  BY <1>1 DEF StepsInv, Planned, OffTogether, OldStay
<1>4. NewInTurn'
  BY <1>1 DEF StepsInv, NewInTurn, Begun, BackBy, Under
<1> QED
  BY <1>2, <1>3, <1>4 DEF StepsInv

LEMMA TakeOffKeeps ==
  ASSUME StepsInv, TakeOff
  PROVE  StepsInv'
<1>1. /\ at < Len(steps) /\ off = {} /\ Current.action = Rollback
      /\ off' = Current.hosts /\ serving' = serving \ Current.hosts
      /\ UNCHANGED <<info, steps, at, back, before>> /\ TypeOK
  BY DEF TakeOff, StepsInv
<1>2. Current' = Current /\ Ordered(info, steps)
  BY <1>1 DEF Current, StepsInv, Planned, TypeOK
<1>3. /\ Current.hosts \subseteq NewHosts(info) /\ Current.hosts \subseteq Host
      /\ \A h \in Current.hosts : ~BackBy(at, h)
  BY <1>1, <1>2, CurrentOrdered, CurrentFacts
<1>4. TypeOK'
  BY <1>1, <1>3 DEF TypeOK
<1>5. steps # <<>>
  BY <1>1 DEF TypeOK
<1>6. Planned' /\ OffTogether'
  BY <1>1, <1>2, <1>5 DEF StepsInv, Planned, OffTogether
<1>7. OldStay'
  BY <1>1, <1>3, HostFacts DEF StepsInv, OldStay
<1>8. NewInTurn'
  <2> SUFFICES ASSUME NEW h \in NewHosts(info)
               PROVE  /\ ~Begun(at, h) /\ ~Under(h)' /\ h \in before => h \in serving'
                      /\ BackBy(at, h) \/ (Under(h)' /\ h \notin off')
                           => h \in serving' /\ h \in back
                      /\ h \in back => BackBy(at, h) \/ (Under(h)' /\ h \notin off')
                      /\ Begun(at, h) /\ h \notin back => h \notin serving'
    BY <1>1 DEF NewInTurn, Begun, BackBy
  <2>1. Under(h)' <=> h \in Current.hosts
    BY <1>1, <1>2 DEF Under
  <2>2. ~Under(h)
    BY <1>1 DEF Under
  <2> QED
    BY <1>1, <1>3, <2>1, <2>2 DEF StepsInv, NewInTurn
<1> QED
  BY <1>4, <1>6, <1>7, <1>8 DEF StepsInv

LEMMA ComeBackKeeps ==
  ASSUME StepsInv, NEW g \in Host, ComeBack(g)
  PROVE  StepsInv'
<1>1. /\ g \in off /\ off' = off \ {g} /\ serving' = serving \cup {g} /\ back' = back \cup {g}
      /\ at' = IF off = {g} THEN at + 1 ELSE at
      /\ UNCHANGED <<info, steps, before>> /\ TypeOK
  BY DEF ComeBack, StepsInv
<1>2. at < Len(steps) /\ Current.action = Rollback /\ off \subseteq Current.hosts
  BY <1>1 DEF StepsInv, OffTogether
<1>3. steps # <<>> /\ Ordered(info, steps)
  BY <1>1, <1>2 DEF StepsInv, Planned, TypeOK
<1>4. /\ Current.hosts \subseteq NewHosts(info) /\ Current.hosts \subseteq Host
      /\ \A h \in Current.hosts : ~BackBy(at, h)
      /\ at = 0 => OldHosts(info) = {}
  BY <1>2, <1>1, <1>3, CurrentOrdered, CurrentFacts, ActionFacts
<1>5. at \in Nat /\ Len(steps) \in Nat /\ at + 1 \in 0..Len(steps)
  BY <1>1, <1>2, CurrentFacts
<1>6. TypeOK'
  BY <1>1, <1>5 DEF TypeOK
<1>7. OldStay'
  BY <1>1, <1>4, <1>5 DEF StepsInv, OldStay
<1>8. CASE off = {g}
  <2>1. at' = at + 1 /\ off' = {}
    BY <1>1, <1>8
  <2>2. Planned' /\ OffTogether'
    BY <1>1, <1>3, <2>1 DEF Planned, OffTogether
  <2>3. NewInTurn'
    <3> SUFFICES ASSUME NEW h \in NewHosts(info)
                 PROVE  /\ ~Begun(at + 1, h) /\ h \in before => h \in serving'
                        /\ BackBy(at + 1, h) => h \in serving' /\ h \in back'
                        /\ h \in back' => BackBy(at + 1, h)
                        /\ Begun(at + 1, h) /\ h \notin back' => h \notin serving'
      BY <1>1, <2>1 DEF NewInTurn, Begun, BackBy, Under
    <3>1. /\ Begun(at + 1, h) <=> Begun(at, h) \/ h \in Current.hosts
          /\ BackBy(at + 1, h) <=> BackBy(at, h) \/ h \in Current.hosts
      BY <1>1, <1>2, MoreFacts
    <3>2. Under(h) <=> h \in Current.hosts
      BY <1>1 DEF Under
    <3>3. /\ ~Begun(at, h) /\ ~Under(h) /\ h \in before => h \in serving
          /\ BackBy(at, h) \/ (Under(h) /\ h \notin off) => h \in serving /\ h \in back
          /\ h \in back => BackBy(at, h) \/ (Under(h) /\ h \notin off)
          /\ Begun(at, h) /\ h \notin back => h \notin serving
      BY DEF StepsInv, NewInTurn
    <3> QED
      BY <1>1, <1>2, <1>8, <3>1, <3>2, <3>3
  <2> QED
    BY <1>6, <1>7, <2>2, <2>3 DEF StepsInv
<1>9. CASE off # {g}
  <2>1. at' = at /\ off' # {} /\ Current' = Current
    BY <1>1, <1>9 DEF Current
  <2>2. Planned' /\ OffTogether'
    BY <1>1, <1>2, <1>3, <2>1 DEF Planned, OffTogether
  <2>3. NewInTurn'
    <3> SUFFICES ASSUME NEW h \in NewHosts(info)
                 PROVE  /\ ~Begun(at, h) /\ ~Under(h)' /\ h \in before => h \in serving'
                        /\ BackBy(at, h) \/ (Under(h)' /\ h \notin off')
                             => h \in serving' /\ h \in back'
                        /\ h \in back' => BackBy(at, h) \/ (Under(h)' /\ h \notin off')
                        /\ Begun(at, h) /\ h \notin back' => h \notin serving'
      BY <1>1, <2>1 DEF NewInTurn, Begun, BackBy
    <3>1. (Under(h) <=> h \in Current.hosts) /\ (Under(h)' <=> h \in Current.hosts)
      BY <1>1, <2>1 DEF Under
    <3>2. /\ ~Begun(at, h) /\ ~Under(h) /\ h \in before => h \in serving
          /\ BackBy(at, h) \/ (Under(h) /\ h \notin off) => h \in serving /\ h \in back
          /\ h \in back => BackBy(at, h) \/ (Under(h) /\ h \notin off)
          /\ Begun(at, h) /\ h \notin back => h \notin serving
      BY DEF StepsInv, NewInTurn
    <3> QED
      BY <1>1, <1>2, <3>1, <3>2
  <2> QED
    BY <1>6, <1>7, <2>2, <2>3 DEF StepsInv
<1> QED
  BY <1>8, <1>9

(* A step that changes no version goes on to the next one. *)
LEMMA PassKeeps ==
  ASSUME StepsInv, at < Len(steps), off = {}, Current.action # Rollback,
         at' = at + 1, UNCHANGED <<info, steps, off, back, before>>,
         serving' = IF Current.action = RestoreFlow THEN serving \cup Current.hosts
                    ELSE serving \ Current.hosts
  PROVE  StepsInv'
<1>1. TypeOK /\ steps # <<>> /\ Ordered(info, steps)
  BY DEF StepsInv, TypeOK, Planned
<1>2. /\ at \in Nat /\ Len(steps) \in Nat /\ at + 1 \in 0..Len(steps) /\ Current \in Steps
      /\ Current.hosts \subseteq Host
  BY <1>1, CurrentFacts
<1>3. /\ Current.action = RestoreFlow => at = 0 /\ Current.hosts = OldHosts(info)
      /\ Current.action # RestoreFlow => Current.hosts \subseteq NewHosts(info)
      /\ \A h \in Current.hosts : ~BackBy(at, h)
      /\ Current.action # RestoreFlow /\ at = 0 => OldHosts(info) = {}
  BY <1>1, <1>2, CurrentOrdered DEF Steps
<1>4. TypeOK'
  BY <1>1, <1>2 DEF TypeOK
<1>5. Planned' /\ OffTogether'
  BY <1>1 DEF Planned, OffTogether
<1>6. OldStay'
  BY <1>2, <1>3, HostFacts DEF StepsInv, OldStay
<1>7. NewInTurn'
  <2> SUFFICES ASSUME NEW h \in NewHosts(info)
               PROVE  /\ ~Begun(at + 1, h) /\ h \in before => h \in serving'
                      /\ BackBy(at + 1, h) => h \in serving' /\ h \in back
                      /\ h \in back => BackBy(at + 1, h)
                      /\ Begun(at + 1, h) /\ h \notin back => h \notin serving'
    BY DEF NewInTurn, Begun, BackBy, Under
  <2>1. /\ Begun(at + 1, h) <=> Begun(at, h) \/ h \in Current.hosts
        /\ BackBy(at + 1, h) <=> BackBy(at, h)
    BY <1>1, MoreFacts
  <2>2. ~Under(h)
    BY DEF Under
  <2>3. /\ ~Begun(at, h) /\ h \in before => h \in serving
        /\ BackBy(at, h) => h \in serving /\ h \in back
        /\ h \in back => BackBy(at, h)
        /\ Begun(at, h) /\ h \notin back => h \notin serving
    BY <2>2 DEF StepsInv, NewInTurn
  <2>4. CASE Current.action = RestoreFlow
    <3>1. h \notin Current.hosts
      BY <1>3, <2>4, HostFacts
    <3> QED
      BY <2>1, <2>3, <2>4, <3>1
  <2>5. CASE Current.action # RestoreFlow
    BY <1>3, <2>1, <2>3, <2>5
  <2> QED
    BY <2>4, <2>5
<1> QED
  BY <1>4, <1>5, <1>6, <1>7 DEF StepsInv

-----------------------------------------------------------------------------
(* Where each of the generated steps stands.  The plan has up to six parts
   before the notice; b[k] is the last position of the k-th. *)

WebMasters(i) == {h \in NewHosts(i) : TypeOf[i[h].app] = Web /\ i[h].flag = Master}
ModMasters(i) == {h \in NewHosts(i) : TypeOf[i[h].app] = Mod /\ i[h].flag = Master}
Followers(i) == {h \in NewHosts(i) : i[h].flag \in {Slave, Gray}}
HalfWay(i) == {h \in NewHosts(i) : Half(i, i[h].app)}

StopsNew(i) ==
  /\ OldHosts(i) # {} /\ NewHosts(i) # {}
  /\ \A a \in Apps(i) : ~LessThanHalf(i, a)
  /\ \E a \in Apps(i) : Half(i, a)
PausesHalfWay(i) == WebMasters(i) \cup ModMasters(i) # {} /\ Followers(i) # {}

Holds(s, n, action, hosts) == s[n].action = action /\ s[n].hosts = hosts

(* The steps of an optional part that ends at n and begins behind m. *)
OneStep(s, m, n, action, hosts) ==
  \/ n = m /\ hosts = {}
  \/ n = m + 1 /\ hosts # {} /\ Holds(s, n, action, hosts)
StopAndPause(s, m, n, stops, hosts) ==
  \/ n = m /\ ~stops
  \/ n = m + 2 /\ stops /\ Holds(s, m + 1, RollbackStop, hosts) /\ Holds(s, n, Pause, {})

Layout(i, s, b) ==
  /\ b \in [1..6 -> Nat]
  /\ s \in Seq(Steps)
  /\ OneStep(s, 0, b[1], RestoreFlow, OldHosts(i))
  /\ StopAndPause(s, b[1], b[2], StopsNew(i), HalfWay(i))
  /\ OneStep(s, b[2], b[3], Rollback, WebMasters(i))
  /\ OneStep(s, b[3], b[4], Rollback, ModMasters(i))
  /\ StopAndPause(s, b[4], b[5], PausesHalfWay(i), Followers(i))
  /\ OneStep(s, b[5], b[6], Rollback, Followers(i))
  /\ Len(s) = b[6] + 1
  /\ Holds(s, b[6] + 1, RollbackNotice, {})

(* A part is added to the plan so far. *)
LEMMA Joined ==
  ASSUME NEW s \in Seq(Steps), NEW t \in Seq(Steps)
  PROVE  /\ s \o t \in Seq(Steps) /\ Len(s \o t) = Len(s) + Len(t)
         /\ \A j \in 1..Len(s) : (s \o t)[j] = s[j]
         /\ \A j \in 1..Len(t) : (s \o t)[Len(s) + j] = t[j]
  OBVIOUS

LEMMA StepFacts ==
  ASSUME NEW action \in {RollbackStop, Pause, Rollback, RestoreFlow, RollbackNotice},
         NEW hosts \in SUBSET Host
  PROVE  /\ Step(action, hosts) \in Seq(Steps) /\ Len(Step(action, hosts)) = 1
         /\ Step(action, hosts)[1].action = action /\ Step(action, hosts)[1].hosts = hosts
<1>1. PICK r : r = [action |-> action, hosts |-> hosts]
  OBVIOUS
<1>2. r.action = action /\ r.hosts = hosts
  BY <1>1
<1>3. r \in Steps
  BY <1>1 DEF Steps
<1>4. Step(action, hosts) = <<r>>
  BY <1>1 DEF Step
<1> QED
  BY <1>2, <1>3, <1>4

(* The positions of the plan so far are kept when a part is added. *)
LEMMA AddOneStep ==
  ASSUME NEW s \in Seq(Steps),
         NEW action \in {RollbackStop, Pause, Rollback, RestoreFlow, RollbackNotice},
         NEW hosts \in SUBSET Host
  PROVE  LET t == s \o StepIf(action, hosts)
         IN /\ t \in Seq(Steps)
            /\ \A j \in 1..Len(s) : t[j] = s[j]
            /\ OneStep(t, Len(s), Len(t), action, hosts)
<1>1. CASE hosts = {}
  <2>1. StepIf(action, hosts) = <<>>
    BY <1>1 DEF StepIf
  <2>2. s \o <<>> = s
    OBVIOUS
  <2> QED
    BY <1>1, <2>1, <2>2 DEF OneStep
<1>2. CASE hosts # {}
  <2>1. PICK t : t = Step(action, hosts) /\ t \in Seq(Steps) /\ Len(t) = 1
                  /\ t[1].action = action /\ t[1].hosts = hosts
    BY StepFacts
  <2>2. StepIf(action, hosts) = t
    BY <1>2, <2>1 DEF StepIf
  <2> QED
    BY <1>2, <2>1, <2>2, Joined DEF OneStep, Holds
<1> QED
  BY <1>1, <1>2

LEMMA AddStopAndPause ==
  ASSUME NEW s \in Seq(Steps), NEW hosts \in SUBSET Host, NEW stops \in BOOLEAN
  PROVE  LET t == s \o (IF stops THEN Step(RollbackStop, hosts) \o Step(Pause, {}) ELSE <<>>)
         IN /\ t \in Seq(Steps)
            /\ \A j \in 1..Len(s) : t[j] = s[j]
            /\ StopAndPause(t, Len(s), Len(t), stops, hosts)
<1>1. CASE ~stops
  <2>1. s \o <<>> = s
    OBVIOUS
  <2> QED
    BY <1>1, <2>1 DEF StopAndPause
<1>2. CASE stops
  <2>1. PICK t : t = Step(RollbackStop, hosts) /\ t \in Seq(Steps) /\ Len(t) = 1
                  /\ t[1].action = RollbackStop /\ t[1].hosts = hosts
    BY StepFacts
  <2>2. PICK u : u = Step(Pause, {}) /\ u \in Seq(Steps) /\ Len(u) = 1
                  /\ u[1].action = Pause /\ u[1].hosts = {}
    BY StepFacts
  <2>3. PICK w : w = t \o u
    OBVIOUS
  <2>4. w \in Seq(Steps) /\ Len(w) = 2 /\ w[1] = t[1] /\ w[2] = u[1]
    <3>1. /\ w \in Seq(Steps) /\ Len(w) = Len(t) + Len(u)
          /\ \A j \in 1..Len(t) : w[j] = t[j]
          /\ \A j \in 1..Len(u) : w[Len(t) + j] = u[j]
      BY <2>1, <2>2, <2>3, Joined
    <3> QED
      BY <2>1, <2>2, <3>1
  <2>5. PICK x : x = s \o w
    OBVIOUS
  <2>6. /\ x \in Seq(Steps) /\ Len(x) = Len(s) + 2
        /\ \A j \in 1..Len(s) : x[j] = s[j]
        /\ x[Len(s) + 1] = w[1] /\ x[Len(s) + 2] = w[2]
    <3>1. /\ x \in Seq(Steps) /\ Len(x) = Len(s) + Len(w)
          /\ \A j \in 1..Len(s) : x[j] = s[j]
          /\ \A j \in 1..Len(w) : x[Len(s) + j] = w[j]
      BY <2>4, <2>5, Joined
    <3> QED
      BY <2>4, <3>1
  <2>7. StopAndPause(x, Len(s), Len(x), stops, hosts)
    BY <1>2, <2>1, <2>2, <2>4, <2>6 DEF StopAndPause, Holds
  <2>8. s \o (IF stops THEN Step(RollbackStop, hosts) \o Step(Pause, {}) ELSE <<>>) = x
    BY <1>2, <2>1, <2>2, <2>3, <2>5
  <2> QED
    BY <2>6, <2>7, <2>8
<1> QED
  BY <1>1, <1>2

LEMMA KeepsPart ==
  ASSUME NEW s \in Seq(Steps), NEW t, \A j \in 1..Len(s) : t[j] = s[j], NEW m \in Nat
  PROVE  /\ \A action, hosts :
              OneStep(s, m, Len(s), action, hosts) => OneStep(t, m, Len(s), action, hosts)
         /\ \A stops, hosts :
              StopAndPause(s, m, Len(s), stops, hosts) => StopAndPause(t, m, Len(s), stops, hosts)
<1>1. Len(s) \in Nat
  OBVIOUS
<1>2. Len(s) = m + 1 => t[Len(s)] = s[Len(s)]
  BY <1>1
<1>3. Len(s) = m + 2 => t[m + 1] = s[m + 1] /\ t[Len(s)] = s[Len(s)]
  BY <1>1
<1> QED
  BY <1>1, <1>2, <1>3 DEF OneStep, StopAndPause, Holds

LEMMA GenerateLayout ==
  ASSUME NEW i
  PROVE  \E b : Layout(i, Generate(i), b)
<1>1. /\ OldHosts(i) \in SUBSET Host /\ WebMasters(i) \in SUBSET Host
      /\ ModMasters(i) \in SUBSET Host /\ Followers(i) \in SUBSET Host
      /\ HalfWay(i) \in SUBSET Host /\ {} \in SUBSET Host
  BY HostFacts DEF WebMasters, ModMasters, Followers, HalfWay
<1>2. PICK early, late \in BOOLEAN : (early <=> StopsNew(i)) /\ (late <=> PausesHalfWay(i))
  BY DEF StopsNew, PausesHalfWay
<1>3. PICK s1 : s1 = StepIf(RestoreFlow, OldHosts(i))
  OBVIOUS
<1>4. PICK s2 : s2 = s1 \o (IF early THEN Step(RollbackStop, HalfWay(i)) \o Step(Pause, {})
                            ELSE <<>>)
  OBVIOUS
<1>5. PICK s3 : s3 = s2 \o StepIf(Rollback, WebMasters(i))
  OBVIOUS
<1>6. PICK s4 : s4 = s3 \o StepIf(Rollback, ModMasters(i))
  OBVIOUS
<1>7. PICK s5 : s5 = s4 \o (IF late THEN Step(RollbackStop, Followers(i)) \o Step(Pause, {})
                            ELSE <<>>)
  OBVIOUS
<1>8. PICK s6 : s6 = s5 \o StepIf(Rollback, Followers(i))
  OBVIOUS
<1>9. PICK s7 : s7 = s6 \o Step(RollbackNotice, {})
  OBVIOUS
<1>10. s7 = Generate(i)
  <2>1. (IF OldHosts(i) # {} /\ NewHosts(i) # {} THEN StopNew(i) ELSE <<>>)
          = (IF early THEN Step(RollbackStop, HalfWay(i)) \o Step(Pause, {}) ELSE <<>>)
    BY <1>2 DEF StopNew, StopsNew, HalfWay
  <2>2. (IF WebMasters(i) \cup ModMasters(i) # {} /\ Followers(i) # {}
         THEN Step(RollbackStop, Followers(i)) \o Step(Pause, {})
         ELSE <<>>)
          = (IF late THEN Step(RollbackStop, Followers(i)) \o Step(Pause, {}) ELSE <<>>)
    BY <1>2 DEF PausesHalfWay
  <2> QED
    BY <1>3, <1>4, <1>5, <1>6, <1>7, <1>8, <1>9, <2>1, <2>2
       DEF Generate, WebMasters, ModMasters, Followers
<1>11. /\ s1 \in Seq(Steps) /\ OneStep(s1, 0, Len(s1), RestoreFlow, OldHosts(i))
  <2>1. PICK e : e = <<>>
    OBVIOUS
  <2>2. e \in Seq(Steps) /\ Len(e) = 0
    BY <2>1
  <2>3. StepIf(RestoreFlow, OldHosts(i)) \in Seq(Steps)
    BY <1>1, <2>1, <2>2, StepFacts DEF StepIf
  <2>4. e \o StepIf(RestoreFlow, OldHosts(i)) = s1
    BY <1>3, <2>1, <2>3
  <2> QED
    BY <1>1, <2>2, <2>4, AddOneStep
<1>12. /\ s2 \in Seq(Steps) /\ \A j \in 1..Len(s1) : s2[j] = s1[j]
       /\ StopAndPause(s2, Len(s1), Len(s2), early, HalfWay(i))
  BY <1>1, <1>2, <1>4, <1>11, AddStopAndPause
<1>13. /\ s3 \in Seq(Steps) /\ \A j \in 1..Len(s2) : s3[j] = s2[j]
       /\ OneStep(s3, Len(s2), Len(s3), Rollback, WebMasters(i))
  BY <1>1, <1>5, <1>12, AddOneStep
<1>14. /\ s4 \in Seq(Steps) /\ \A j \in 1..Len(s3) : s4[j] = s3[j]
       /\ OneStep(s4, Len(s3), Len(s4), Rollback, ModMasters(i))
  BY <1>1, <1>6, <1>13, AddOneStep
<1>15. /\ s5 \in Seq(Steps) /\ \A j \in 1..Len(s4) : s5[j] = s4[j]
       /\ StopAndPause(s5, Len(s4), Len(s5), late, Followers(i))
  BY <1>1, <1>2, <1>7, <1>14, AddStopAndPause
<1>16. /\ s6 \in Seq(Steps) /\ \A j \in 1..Len(s5) : s6[j] = s5[j]
       /\ OneStep(s6, Len(s5), Len(s6), Rollback, Followers(i))
  BY <1>1, <1>8, <1>15, AddOneStep
<1>17. /\ s7 \in Seq(Steps) /\ \A j \in 1..Len(s6) : s7[j] = s6[j]
       /\ Len(s7) = Len(s6) + 1 /\ Holds(s7, Len(s6) + 1, RollbackNotice, {})
  <2>1. PICK n : /\ n = Step(RollbackNotice, {}) /\ n \in Seq(Steps) /\ Len(n) = 1
                 /\ n[1].action = RollbackNotice /\ n[1].hosts = {}
    BY <1>1, StepFacts
  <2> QED
    BY <1>9, <1>16, <2>1, Joined DEF Holds
<1>18. /\ Len(s1) \in Nat /\ Len(s2) \in Nat /\ Len(s3) \in Nat /\ Len(s4) \in Nat
       /\ Len(s5) \in Nat /\ Len(s6) \in Nat
  BY <1>11, <1>12, <1>13, <1>14, <1>15, <1>16
<1>19. /\ Len(s1) <= Len(s2) /\ Len(s2) <= Len(s3) /\ Len(s3) <= Len(s4) /\ Len(s4) <= Len(s5)
       /\ Len(s5) <= Len(s6)
  BY <1>12, <1>13, <1>14, <1>15, <1>16, <1>18 DEF OneStep, StopAndPause
<1>20. /\ \A j \in 1..Len(s5) : s7[j] = s5[j]
       /\ \A j \in 1..Len(s4) : s7[j] = s4[j]
       /\ \A j \in 1..Len(s3) : s7[j] = s3[j]
       /\ \A j \in 1..Len(s2) : s7[j] = s2[j]
       /\ \A j \in 1..Len(s1) : s7[j] = s1[j]
  <2>1. /\ 1..Len(s1) \subseteq 1..Len(s2) /\ 1..Len(s2) \subseteq 1..Len(s3)
        /\ 1..Len(s3) \subseteq 1..Len(s4) /\ 1..Len(s4) \subseteq 1..Len(s5)
        /\ 1..Len(s5) \subseteq 1..Len(s6)
    BY <1>18, <1>19
  <2>2. \A j \in 1..Len(s5) : s7[j] = s5[j]
    BY <1>16, <1>17, <2>1
  <2>3. \A j \in 1..Len(s4) : s7[j] = s4[j]
    BY <1>15, <2>1, <2>2
  <2>4. \A j \in 1..Len(s3) : s7[j] = s3[j]
    BY <1>14, <2>1, <2>3
  <2>5. \A j \in 1..Len(s2) : s7[j] = s2[j]
    BY <1>13, <2>1, <2>4
  <2>6. \A j \in 1..Len(s1) : s7[j] = s1[j]
    BY <1>12, <2>1, <2>5
  <2> QED
    BY <2>2, <2>3, <2>4, <2>5, <2>6
<1>21. /\ OneStep(s7, 0, Len(s1), RestoreFlow, OldHosts(i))
       /\ StopAndPause(s7, Len(s1), Len(s2), early, HalfWay(i))
       /\ OneStep(s7, Len(s2), Len(s3), Rollback, WebMasters(i))
       /\ OneStep(s7, Len(s3), Len(s4), Rollback, ModMasters(i))
       /\ StopAndPause(s7, Len(s4), Len(s5), late, Followers(i))
       /\ OneStep(s7, Len(s5), Len(s6), Rollback, Followers(i))
  <2>1. 0 \in Nat
    OBVIOUS
  <2>2. OneStep(s7, 0, Len(s1), RestoreFlow, OldHosts(i))
    BY <1>11, <1>20, <2>1, KeepsPart
  <2>3. StopAndPause(s7, Len(s1), Len(s2), early, HalfWay(i))
    BY <1>12, <1>18, <1>20, KeepsPart
  <2>4. OneStep(s7, Len(s2), Len(s3), Rollback, WebMasters(i))
    BY <1>13, <1>18, <1>20, KeepsPart
  <2>5. OneStep(s7, Len(s3), Len(s4), Rollback, ModMasters(i))
    BY <1>14, <1>18, <1>20, KeepsPart
  <2>6. StopAndPause(s7, Len(s4), Len(s5), late, Followers(i))
    BY <1>15, <1>18, <1>20, KeepsPart
  <2>7. OneStep(s7, Len(s5), Len(s6), Rollback, Followers(i))
    BY <1>16, <1>17, <1>18, KeepsPart
  <2> QED
    BY <2>2, <2>3, <2>4, <2>5, <2>6, <2>7
<1>22. PICK b : b = [k \in 1..6 |-> CASE k = 1 -> Len(s1) [] k = 2 -> Len(s2) [] k = 3 -> Len(s3)
                                      [] k = 4 -> Len(s4) [] k = 5 -> Len(s5) [] k = 6 -> Len(s6)]
  OBVIOUS
<1>23. /\ b[1] = Len(s1) /\ b[2] = Len(s2) /\ b[3] = Len(s3) /\ b[4] = Len(s4)
       /\ b[5] = Len(s5) /\ b[6] = Len(s6)
  BY <1>22
<1>24. b \in [1..6 -> Nat]
  <2>1. \A k \in 1..6 : k = 1 \/ k = 2 \/ k = 3 \/ k = 4 \/ k = 5 \/ k = 6
    OBVIOUS
  <2>2. \A k \in 1..6 : b[k] \in Nat
    BY <1>18, <1>23, <2>1
  <2>3. b = [k \in 1..6 |-> b[k]]
    BY <1>22
  <2> QED
    BY <2>2, <2>3
<1>25. StopAndPause(s7, b[1], b[2], StopsNew(i), HalfWay(i))
  BY <1>2, <1>21, <1>23 DEF StopAndPause
<1>26. StopAndPause(s7, b[4], b[5], PausesHalfWay(i), Followers(i))
  BY <1>2, <1>21, <1>23 DEF StopAndPause
<1> QED
  BY <1>10, <1>17, <1>21, <1>23, <1>24, <1>25, <1>26 DEF Layout

(* Which part of the plan each step belongs to. *)
InRestore(i, s, b, j) == j = 1 /\ b[1] = 1 /\ Holds(s, j, RestoreFlow, OldHosts(i))
InStopNew(i, s, b, j) ==
  j = b[1] + 1 /\ b[2] = b[1] + 2 /\ StopsNew(i) /\ Holds(s, j, RollbackStop, HalfWay(i))
InFirstPause(i, s, b, j) ==
  j = b[2] /\ b[2] = b[1] + 2 /\ StopsNew(i) /\ Holds(s, j, Pause, {})
InMasters(i, s, b, j) ==
  /\ b[2] < j /\ j <= b[4]
  /\ s[j].action = Rollback
  /\ \/ j = b[3] /\ s[j].hosts = WebMasters(i)
     \/ j = b[4] /\ j > b[3] /\ s[j].hosts = ModMasters(i)
InStop(i, s, b, j) ==
  j = b[4] + 1 /\ b[5] = b[4] + 2 /\ Holds(s, j, RollbackStop, Followers(i))
InLastPause(i, s, b, j) == j = b[5] /\ b[5] = b[4] + 2 /\ Holds(s, j, Pause, {})
InFollowers(i, s, b, j) == j = b[6] /\ b[6] = b[5] + 1 /\ Holds(s, j, Rollback, Followers(i))
InNotice(s, b, j) == j = b[6] + 1 /\ Holds(s, j, RollbackNotice, {})

LEMMA LayoutParts ==
  ASSUME NEW i, NEW s, NEW b, Layout(i, s, b)
  PROVE  /\ b[1] <= b[2] /\ b[2] <= b[3] /\ b[3] <= b[4] /\ b[4] <= b[5] /\ b[5] <= b[6]
         /\ \A k \in 1..6 : b[k] \in Nat
         /\ DOMAIN s = 1..(b[6] + 1)
         /\ \A j \in DOMAIN s :
              \/ InRestore(i, s, b, j) \/ InStopNew(i, s, b, j) \/ InFirstPause(i, s, b, j)
              \/ InMasters(i, s, b, j) \/ InStop(i, s, b, j) \/ InLastPause(i, s, b, j)
              \/ InFollowers(i, s, b, j) \/ InNotice(s, b, j)
<1>1. /\ b[1] \in Nat /\ b[2] \in Nat /\ b[3] \in Nat /\ b[4] \in Nat /\ b[5] \in Nat
      /\ b[6] \in Nat
  BY DEF Layout
<1>2. /\ b[1] = 0 \/ (b[1] = 1 /\ Holds(s, 1, RestoreFlow, OldHosts(i)))
      /\ \/ b[2] = b[1]
         \/ b[2] = b[1] + 2 /\ StopsNew(i) /\ Holds(s, b[1] + 1, RollbackStop, HalfWay(i))
            /\ Holds(s, b[2], Pause, {})
      /\ b[3] = b[2] \/ (b[3] = b[2] + 1 /\ Holds(s, b[3], Rollback, WebMasters(i)))
      /\ b[4] = b[3] \/ (b[4] = b[3] + 1 /\ Holds(s, b[4], Rollback, ModMasters(i)))
      /\ \/ b[5] = b[4]
         \/ b[5] = b[4] + 2 /\ Holds(s, b[4] + 1, RollbackStop, Followers(i))
            /\ Holds(s, b[5], Pause, {})
      /\ b[6] = b[5] \/ (b[6] = b[5] + 1 /\ Holds(s, b[6], Rollback, Followers(i)))
      /\ Holds(s, b[6] + 1, RollbackNotice, {})
  <2>1. b[1] = 0 \/ (b[1] = 1 /\ Holds(s, 1, RestoreFlow, OldHosts(i)))
    <3>1. OneStep(s, 0, b[1], RestoreFlow, OldHosts(i))
      BY DEF Layout
    <3>2. b[1] = 0 \/ (b[1] = 1 /\ Holds(s, b[1], RestoreFlow, OldHosts(i)))
      BY <1>1, <3>1 DEF OneStep
    <3> QED
      BY <3>2, Zenon
  <2>2. \/ b[2] = b[1]
        \/ b[2] = b[1] + 2 /\ StopsNew(i) /\ Holds(s, b[1] + 1, RollbackStop, HalfWay(i))
           /\ Holds(s, b[2], Pause, {})
    BY DEF Layout, StopAndPause
  <2>3. b[3] = b[2] \/ (b[3] = b[2] + 1 /\ Holds(s, b[3], Rollback, WebMasters(i)))
    BY DEF Layout, OneStep
  <2>4. b[4] = b[3] \/ (b[4] = b[3] + 1 /\ Holds(s, b[4], Rollback, ModMasters(i)))
    BY DEF Layout, OneStep
  <2>5. \/ b[5] = b[4]
        \/ b[5] = b[4] + 2 /\ Holds(s, b[4] + 1, RollbackStop, Followers(i))
           /\ Holds(s, b[5], Pause, {})
    BY DEF Layout, StopAndPause
  <2>6. b[6] = b[5] \/ (b[6] = b[5] + 1 /\ Holds(s, b[6], Rollback, Followers(i)))
    BY DEF Layout, OneStep
  <2>7. Holds(s, b[6] + 1, RollbackNotice, {})
    BY DEF Layout
  <2> QED
    BY <2>1, <2>2, <2>3, <2>4, <2>5, <2>6, <2>7
<1>3. /\ b[1] = 0 \/ b[1] = 1
      /\ b[2] = b[1] \/ b[2] = b[1] + 2
      /\ b[3] = b[2] \/ b[3] = b[2] + 1
      /\ b[4] = b[3] \/ b[4] = b[3] + 1
      /\ b[5] = b[4] \/ b[5] = b[4] + 2
      /\ b[6] = b[5] \/ b[6] = b[5] + 1
  BY <1>2, Zenon
<1>4. /\ b[1] <= b[2] /\ b[2] <= b[3] /\ b[3] <= b[4] /\ b[4] <= b[5] /\ b[5] <= b[6]
  BY <1>1, <1>3
<1>5. DOMAIN s = 1..(b[6] + 1)
  BY DEF Layout
<1>6. \A k \in 1..6 : b[k] \in Nat
  BY DEF Layout
<1>7. ASSUME NEW j \in DOMAIN s
      PROVE  \/ InRestore(i, s, b, j) \/ InStopNew(i, s, b, j) \/ InFirstPause(i, s, b, j)
             \/ InMasters(i, s, b, j) \/ InStop(i, s, b, j) \/ InLastPause(i, s, b, j)
             \/ InFollowers(i, s, b, j) \/ InNotice(s, b, j)
  <2>1. j \in Nat /\ j >= 1 /\ j <= b[6] + 1
    BY <1>1, <1>5
  <2>2. \/ j <= b[1] \/ (b[1] < j /\ j <= b[2]) \/ (b[2] < j /\ j <= b[4])
        \/ (b[4] < j /\ j <= b[5]) \/ (b[5] < j /\ j <= b[6]) \/ j = b[6] + 1
    BY <1>1, <2>1
  <2>3. CASE j <= b[1]
    <3>1. j = 1 /\ b[1] = 1
      BY <1>1, <1>3, <2>1, <2>3
    <3>2. Holds(s, 1, RestoreFlow, OldHosts(i))
      BY <1>2, <3>1
    <3> QED
      BY <3>1, <3>2, Zenon DEF InRestore
  <2>4. CASE b[1] < j /\ j <= b[2]
    BY <1>1, <1>2, <1>5, <2>4, SMTT(30) DEF InStopNew, InFirstPause
  <2>5. CASE b[2] < j /\ j <= b[4]
    <3>1. \/ j = b[3] /\ b[3] = b[2] + 1
          \/ j = b[4] /\ b[4] = b[3] + 1
      BY <1>1, <1>3, <2>1, <2>5
    <3>2. CASE j = b[3] /\ b[3] = b[2] + 1
      <4>1. b[3] # b[2]
        BY <1>1, <3>2
      <4>2. Holds(s, b[3], Rollback, WebMasters(i))
        BY <1>2, <4>1
      <4> QED
        BY <2>5, <3>2, <4>2 DEF InMasters, Holds
    <3>3. CASE j = b[4] /\ b[4] = b[3] + 1
      <4>1. b[4] # b[3] /\ b[4] > b[3]
        BY <1>1, <3>3
      <4>2. Holds(s, b[4], Rollback, ModMasters(i))
        BY <1>2, <4>1
      <4> QED
        BY <2>5, <3>3, <4>1, <4>2 DEF InMasters, Holds
    <3> QED
      BY <3>1, <3>2, <3>3
  <2>6. CASE b[4] < j /\ j <= b[5]
    <3>1. b[5] = b[4] + 2 /\ (j = b[4] + 1 \/ j = b[5])
      BY <1>1, <1>3, <2>1, <2>6
    <3>2. b[5] # b[4]
      BY <1>1, <3>1
    <3>3. Holds(s, b[4] + 1, RollbackStop, Followers(i)) /\ Holds(s, b[5], Pause, {})
      BY <1>2, <3>2
    <3> QED
      BY <3>1, <3>3, Zenon DEF InStop, InLastPause
  <2>7. CASE b[5] < j /\ j <= b[6]
    BY <1>1, <1>2, <1>5, <2>7 DEF InFollowers
  <2>8. CASE j = b[6] + 1
    BY <1>2, <2>8 DEF InNotice
  <2> QED
    BY <2>2, <2>3, <2>4, <2>5, <2>6, <2>7, <2>8
<1> QED
  BY <1>4, <1>5, <1>6, <1>7

(* An application with a new host that is not gray is not rolled back already,
   and one with no old host at all is rolled back by less than half. *)
LEMMA NewHostCounts ==
  ASSUME NEW i \in [Host -> Infos], NEW h \in NewHosts(i), i[h].flag # Gray
  PROVE  /\ ~Full(i, i[h].app)
         /\ Of(i, i[h].app) \subseteq NewHosts(i) => LessThanHalf(i, i[h].app)
<1>1. PICK a : a = i[h].app
  OBVIOUS
<1>2. PICK o : o = {g \in Of(i, a) : i[g].flag # Gray /\ i[g].version = "old"}
  OBVIOUS
<1>3. PICK n : n = {g \in Of(i, a) : i[g].flag # Gray /\ i[g].version # "old"}
  OBVIOUS
<1>4. PICK y : y = {g \in Of(i, a) : i[g].flag = Gray}
  OBVIOUS
<1>5. /\ OldNum(i, a) = Cardinality(o) /\ NewNum(i, a) = Cardinality(n)
      /\ GrayNum(i, a) = Cardinality(y)
  BY <1>2, <1>3, <1>4 DEF OldNum, NewNum, GrayNum
<1>6. h \in Host /\ i[h].version # "old" /\ h \in Of(i, a)
  BY <1>1, HostFacts DEF NewHosts, OldHosts, Of
<1>7. IsFiniteSet(Of(i, a)) /\ o \subseteq Of(i, a) /\ n \subseteq Of(i, a) /\ y \subseteq Of(i, a)
  <2>1. Of(i, a) \subseteq Host
    BY DEF Of
  <2> QED
    BY <1>2, <1>3, <1>4, <2>1, HostAssumption, FS_Subset
<1>8. IsFiniteSet(o) /\ IsFiniteSet(n) /\ IsFiniteSet(y)
  BY <1>7, FS_Subset
<1>9. h \in n /\ h \notin o /\ h \notin y /\ o \cap y = {}
  BY <1>2, <1>3, <1>4, <1>6
<1>10. /\ Cardinality(o) \in Nat /\ Cardinality(n) \in Nat /\ Cardinality(y) \in Nat
       /\ Cardinality(Of(i, a)) \in Nat
  BY <1>7, <1>8, FS_CardinalityType
<1>11. ~Full(i, a)
  <2>1. Cardinality(o \cup y) = Cardinality(o) + Cardinality(y)
    <3>1. Cardinality(o \cup y) = Cardinality(o) + Cardinality(y) - Cardinality(o \cap y)
      BY <1>8, FS_Union
    <3>2. Cardinality(o \cap y) = 0
      BY <1>9, FS_EmptySet
    <3> QED
      BY <1>10, <3>1, <3>2
  <2>2. Cardinality(o \cup y) # Cardinality(Of(i, a))
    BY <1>6, <1>7, <1>9, FS_Subset
  <2> QED
    BY <1>5, <1>10, <2>1, <2>2 DEF Full
<1>12. Of(i, a) \subseteq NewHosts(i) => LessThanHalf(i, a)
  <2>1. Cardinality(n) # 0
    BY <1>8, <1>9, FS_EmptySet
  <2>2. Of(i, a) \subseteq NewHosts(i) => o = {}
    BY <1>2 DEF NewHosts, OldHosts
  <2> QED
    <3>1. Of(i, a) \subseteq NewHosts(i) => Cardinality(o) = 0
      BY <2>2, FS_EmptySet
    <3> QED
      BY <1>5, <1>10, <2>1, <3>1 DEF LessThanHalf
<1> QED
  BY <1>1, <1>11, <1>12

(* The hosts of the parts. *)
LEMMA PartHosts ==
  ASSUME NEW i \in [Host -> Infos]
  PROVE  /\ NewHosts(i) = WebMasters(i) \cup ModMasters(i) \cup Followers(i)
         /\ WebMasters(i) \cap ModMasters(i) = {}
         /\ (WebMasters(i) \cup ModMasters(i)) \cap Followers(i) = {}
         /\ \A h \in WebMasters(i) \cup ModMasters(i) : i[h].flag = Master
         /\ \A h \in Followers(i) : i[h].flag # Master
         /\ HalfWay(i) \subseteq NewHosts(i)
<1>1. \A h \in Host : i[h].app \in App /\ i[h].flag \in Flags
  BY DEF Infos
<1>2. \A h \in Host : TypeOf[i[h].app] = Web \/ TypeOf[i[h].app] = Mod
  BY <1>1, TypesAssumption DEF ApplicationTypes
<1>3. Web # Mod /\ Master # Slave /\ Master # Gray
  BY DEF Web, Mod, Master, Slave, Gray
<1>4. NewHosts(i) \subseteq Host
  BY HostFacts
<1> QED
  BY <1>1, <1>2, <1>3, <1>4 DEF WebMasters, ModMasters, Followers, HalfWay, Flags

LEMMA LayoutOrdered ==
  ASSUME NEW i \in [Host -> Infos], NEW s, NEW b, Layout(i, s, b)
  PROVE  Ordered(i, s)
<1>1. /\ b[1] <= b[2] /\ b[2] <= b[3] /\ b[3] <= b[4] /\ b[4] <= b[5] /\ b[5] <= b[6]
      /\ b[1] \in Nat /\ b[2] \in Nat /\ b[3] \in Nat /\ b[4] \in Nat /\ b[5] \in Nat
      /\ b[6] \in Nat
  BY LayoutParts
<1>2. /\ DOMAIN s = 1..(b[6] + 1)
      /\ \A j \in DOMAIN s :
           \/ InRestore(i, s, b, j) \/ InStopNew(i, s, b, j) \/ InFirstPause(i, s, b, j)
           \/ InMasters(i, s, b, j) \/ InStop(i, s, b, j) \/ InLastPause(i, s, b, j)
           \/ InFollowers(i, s, b, j) \/ InNotice(s, b, j)
  BY LayoutParts
<1>3. /\ OldHosts(i) \cap NewHosts(i) = {}
      /\ NewHosts(i) = WebMasters(i) \cup ModMasters(i) \cup Followers(i)
      /\ WebMasters(i) \cap ModMasters(i) = {}
      /\ (WebMasters(i) \cup ModMasters(i)) \cap Followers(i) = {}
      /\ \A h \in WebMasters(i) \cup ModMasters(i) : i[h].flag = Master
      /\ \A h \in Followers(i) : i[h].flag # Master
      /\ HalfWay(i) \subseteq NewHosts(i)
  BY HostFacts, PartHosts
<1>4. s \in Seq(Steps) /\ Len(s) > 0
  BY <1>1 DEF Layout
<1>5. /\ OldHosts(i) # {} => b[1] = 1 /\ s[1].action = RestoreFlow
      /\ WebMasters(i) # {} => b[3] = b[2] + 1 /\ Holds(s, b[3], Rollback, WebMasters(i))
      /\ ModMasters(i) # {} => b[4] = b[3] + 1 /\ Holds(s, b[4], Rollback, ModMasters(i))
      /\ Followers(i) # {} => b[6] = b[5] + 1 /\ Holds(s, b[6], Rollback, Followers(i))
  <2>1. OldHosts(i) # {} => b[1] = 1 /\ s[1].action = RestoreFlow
    <3>1. OneStep(s, 0, b[1], RestoreFlow, OldHosts(i))
      BY DEF Layout
    <3>2. OldHosts(i) # {} => b[1] = 0 + 1 /\ s[b[1]].action = RestoreFlow
      BY <3>1 DEF OneStep, Holds
    <3> QED
      BY <3>2
  <2>2. WebMasters(i) # {} => b[3] = b[2] + 1 /\ Holds(s, b[3], Rollback, WebMasters(i))
    BY DEF Layout, OneStep
  <2>3. ModMasters(i) # {} => b[4] = b[3] + 1 /\ Holds(s, b[4], Rollback, ModMasters(i))
    BY DEF Layout, OneStep
  <2>4. Followers(i) # {} => b[6] = b[5] + 1 /\ Holds(s, b[6], Rollback, Followers(i))
    BY DEF Layout, OneStep
  <2> QED
    BY <2>1, <2>2, <2>3, <2>4
<1>6. RestoreIsFirst(i, s)
  <2>1. ASSUME NEW j \in DOMAIN s
        PROVE  /\ s[j].action = RestoreFlow => j = 1 /\ s[j].hosts = OldHosts(i)
               /\ s[j].action \in {Rollback, RollbackStop} => s[j].hosts \subseteq NewHosts(i)
               /\ s[j].action \in {Pause, RollbackNotice} => s[j].hosts = {}
    <3>1. \/ InRestore(i, s, b, j)
          \/ InStopNew(i, s, b, j) \/ InStop(i, s, b, j)
          \/ InFirstPause(i, s, b, j) \/ InLastPause(i, s, b, j) \/ InNotice(s, b, j)
          \/ InMasters(i, s, b, j) \/ InFollowers(i, s, b, j)
      BY <1>2
    <3>2. CASE InRestore(i, s, b, j)
      BY <3>2, ActionFacts DEF InRestore, Holds
    <3>3. CASE InStopNew(i, s, b, j) \/ InStop(i, s, b, j)
      BY <1>3, <3>3, ActionFacts DEF InStopNew, InStop, Holds
    <3>4. CASE InFirstPause(i, s, b, j) \/ InLastPause(i, s, b, j) \/ InNotice(s, b, j)
      BY <3>4, ActionFacts DEF InFirstPause, InLastPause, InNotice, Holds
    <3>5. CASE InMasters(i, s, b, j) \/ InFollowers(i, s, b, j)
      BY <1>3, <3>5, ActionFacts DEF InMasters, InFollowers, Holds
    <3> QED
      BY <3>1, <3>2, <3>3, <3>4, <3>5
  <2> QED
    BY <1>5, <2>1 DEF RestoreIsFirst
<1>7. RolledBackOnce(i, s)
  <2>1. ASSUME NEW h \in NewHosts(i)
        PROVE  \E j \in DOMAIN s : s[j].action = Rollback /\ h \in s[j].hosts
    <3>1. CASE h \in WebMasters(i)
      <4>1. b[3] \in DOMAIN s /\ s[b[3]].action = Rollback /\ s[b[3]].hosts = WebMasters(i)
        <5>1. b[3] = b[2] + 1 /\ Holds(s, b[3], Rollback, WebMasters(i))
          BY <1>5, <3>1
        <5>2. b[3] \in DOMAIN s
          <6>1. DOMAIN s = 1..(b[6] + 1)
            BY <1>2
          <6>2. b[3] \in Nat /\ b[3] >= 1 /\ b[3] <= b[6] + 1
            BY <1>1, <5>1
          <6> QED
            BY <1>1, <6>1, <6>2
        <5> QED
          BY <5>1, <5>2 DEF Holds
      <4> QED
        BY <3>1, <4>1
    <3>2. CASE h \in ModMasters(i)
      <4>1. b[4] \in DOMAIN s /\ s[b[4]].action = Rollback /\ s[b[4]].hosts = ModMasters(i)
        <5>1. b[4] = b[3] + 1 /\ Holds(s, b[4], Rollback, ModMasters(i))
          BY <1>5, <3>2
        <5>2. b[4] \in DOMAIN s
          <6>1. DOMAIN s = 1..(b[6] + 1)
            BY <1>2
          <6>2. b[4] \in Nat /\ b[4] >= 1 /\ b[4] <= b[6] + 1
            BY <1>1, <5>1
          <6> QED
            BY <1>1, <6>1, <6>2
        <5> QED
          BY <5>1, <5>2 DEF Holds
      <4> QED
        BY <3>2, <4>1
    <3>3. CASE h \in Followers(i)
      <4>1. b[6] \in DOMAIN s /\ s[b[6]].action = Rollback /\ s[b[6]].hosts = Followers(i)
        <5>1. b[6] = b[5] + 1 /\ Holds(s, b[6], Rollback, Followers(i))
          BY <1>5, <3>3
        <5>2. b[6] \in DOMAIN s
          <6>1. DOMAIN s = 1..(b[6] + 1)
            BY <1>2
          <6>2. b[6] \in Nat /\ b[6] >= 1 /\ b[6] <= b[6] + 1
            BY <1>1, <5>1
          <6> QED
            BY <1>1, <6>1, <6>2
        <5> QED
          BY <5>1, <5>2 DEF Holds
      <4> QED
        BY <3>3, <4>1
    <3> QED
      BY <1>3, <3>1, <3>2, <3>3
  <2>2. ASSUME NEW j \in DOMAIN s, NEW k \in DOMAIN s, j < k, s[j].action = Rollback
        PROVE  s[j].hosts \cap s[k].hosts = {}
    <3>1. InMasters(i, s, b, j) \/ InFollowers(i, s, b, j)
      BY <1>2, <2>2, ActionFacts
         DEF InRestore, InStopNew, InFirstPause, InStop, InLastPause, InNotice, Holds
    <3>2. j > b[2] /\ j \in Nat /\ k \in Nat /\ k > b[2]
      <4>1. j \in Nat /\ k \in Nat
        BY <1>1, <1>2
      <4>2. j > b[2]
        BY <1>1, <3>1 DEF InMasters, InFollowers
      <4> QED
        BY <1>1, <2>2, <4>1, <4>2
    <3>3. \/ InMasters(i, s, b, k)
          \/ s[k].hosts = {}
          \/ s[k].hosts = Followers(i) /\ (k = b[4] + 1 \/ k = b[6])
      <4>1. ~InRestore(i, s, b, k) /\ ~InStopNew(i, s, b, k) /\ ~InFirstPause(i, s, b, k)
        BY <1>1, <3>2 DEF InRestore, InStopNew, InFirstPause
      <4> QED
        BY <1>2, <4>1 DEF InStop, InLastPause, InFollowers, InNotice, Holds
    <3>4. CASE InFollowers(i, s, b, j)
      <4>1. k > b[6] /\ b[6] = b[5] + 1
        BY <2>2, <3>4 DEF InFollowers
      <4>2. ~InMasters(i, s, b, k) /\ k # b[4] + 1 /\ k # b[6]
        BY <1>1, <3>2, <4>1 DEF InMasters
      <4> QED
        BY <3>3, <4>2
    <3>5. CASE InMasters(i, s, b, j)
      <4>1. s[j].hosts \subseteq WebMasters(i) \cup ModMasters(i)
        BY <3>5 DEF InMasters
      <4>2. CASE InMasters(i, s, b, k)
        <5>1. j = b[3] /\ s[j].hosts = WebMasters(i)
          BY <1>1, <2>2, <3>2, <3>5, <4>2 DEF InMasters
        <5>2. s[k].hosts = ModMasters(i)
          BY <2>2, <4>2, <5>1, <3>2, <1>1 DEF InMasters
        <5> QED
          BY <1>3, <5>1, <5>2
      <4>3. CASE ~InMasters(i, s, b, k)
        BY <1>3, <3>3, <4>1, <4>3
      <4> QED
        BY <4>2, <4>3
    <3> QED
      BY <3>1, <3>4, <3>5
  <2> QED
    BY <2>1, <2>2 DEF RolledBackOnce
<1>8. MastersGoFirst(i, s)
  <2> SUFFICES ASSUME NEW j \in DOMAIN s, NEW k \in DOMAIN s,
                      NEW g \in s[j].hosts, NEW h \in s[k].hosts,
                      i[g].app = i[h].app, i[g].flag = Master, i[h].flag # Master,
                      Of(i, i[g].app) \subseteq NewHosts(i)
               PROVE  s[j].action = Rollback /\ j < k
    BY DEF MastersGoFirst
  <2>1. g \in Host /\ h \in Host
    <3>1. s[j] \in Steps /\ s[k] \in Steps
      BY <1>4
    <3> QED
      BY <3>1 DEF Steps
  <2>2. g \in NewHosts(i) /\ h \in NewHosts(i) /\ i[g].app \in Apps(i)
    BY <2>1 DEF Of, Apps
  <2>3. ~StopsNew(i)
    <3>1. i[g].flag # Gray
      BY DEF Master, Gray
    <3>2. LessThanHalf(i, i[g].app)
      BY <2>2, <3>1, NewHostCounts
    <3> QED
      BY <2>2, <3>2 DEF StopsNew
  <2>4. InMasters(i, s, b, j)
    <3>1. /\ ~InRestore(i, s, b, j) /\ ~InStopNew(i, s, b, j) /\ ~InFirstPause(i, s, b, j)
          /\ ~InLastPause(i, s, b, j) /\ ~InNotice(s, b, j)
      BY <1>3, <2>2, <2>3
         DEF InRestore, InStopNew, InFirstPause, InLastPause, InNotice, Holds
    <3>2. ~InStop(i, s, b, j) /\ ~InFollowers(i, s, b, j)
      BY <1>3 DEF InStop, InFollowers, Holds
    <3> QED
      BY <1>2, <3>1, <3>2
  <2>5. InStop(i, s, b, k) \/ InFollowers(i, s, b, k)
    <3>1. /\ ~InRestore(i, s, b, k) /\ ~InStopNew(i, s, b, k) /\ ~InFirstPause(i, s, b, k)
          /\ ~InLastPause(i, s, b, k) /\ ~InNotice(s, b, k)
      BY <1>3, <2>2, <2>3
         DEF InRestore, InStopNew, InFirstPause, InLastPause, InNotice, Holds
    <3>2. ~InMasters(i, s, b, k)
      BY <1>3 DEF InMasters
    <3> QED
      BY <1>2, <3>1, <3>2
  <2>6. s[j].action = Rollback /\ j <= b[4]
    BY <2>4 DEF InMasters
  <2>7. k > b[4] /\ k \in Nat
    BY <1>1, <2>5 DEF InStop, InFollowers
  <2>8. j \in Nat
    BY <1>1, <1>2
  <2> QED
    BY <1>1, <2>6, <2>7, <2>8
<1>9. PauseComesAfter(i, s)
  <2> SUFFICES ASSUME NEW p \in DOMAIN s, s[p].action = Pause,
                      NEW h \in NewHosts(i), i[h].flag # Gray
               PROVE  \E j \in DOMAIN s :
                        j < p /\ s[j].action \in {Rollback, RollbackStop} /\ h \in s[j].hosts
    BY DEF PauseComesAfter
  <2>1. InFirstPause(i, s, b, p) \/ InLastPause(i, s, b, p)
    BY <1>2, ActionFacts
       DEF InRestore, InStopNew, InMasters, InStop, InFollowers, InNotice, Holds
  <2>2. \A n \in Nat : n >= 1 /\ n <= b[6] + 1 => n \in DOMAIN s
    BY <1>1, <1>2
  <2>3. CASE InFirstPause(i, s, b, p)
    <3>1. p = b[2] /\ b[2] = b[1] + 2 /\ StopsNew(i)
      BY <2>3 DEF InFirstPause
    <3>2. Holds(s, b[1] + 1, RollbackStop, HalfWay(i))
      <4>1. b[2] # b[1]
        BY <1>1, <3>1
      <4> QED
        BY <4>1 DEF Layout, StopAndPause
    <3>3. h \in HalfWay(i)
      <4>1. i[h].app \in Apps(i)
        BY HostFacts DEF Apps
      <4>2. ~LessThanHalf(i, i[h].app) /\ ~Full(i, i[h].app)
        BY <3>1, <4>1, NewHostCounts DEF StopsNew
      <4> QED
        BY <4>2 DEF HalfWay, Half
    <3>4. b[1] + 1 \in DOMAIN s /\ b[1] + 1 < p
      <4>1. /\ b[1] + 1 \in Nat /\ b[1] + 1 >= 1 /\ b[1] + 1 <= b[6] + 1
            /\ b[1] + 1 < p
        BY <1>1, <3>1
      <4> QED
        BY <2>2, <4>1
    <3> QED
      BY <3>2, <3>3, <3>4 DEF Holds
  <2>4. CASE InLastPause(i, s, b, p)
    <3>1. p = b[5] /\ b[5] = b[4] + 2
      BY <2>4 DEF InLastPause
    <3>2. CASE h \in WebMasters(i)
      <4>1. Holds(s, b[3], Rollback, WebMasters(i)) /\ b[3] = b[2] + 1
        BY <1>5, <3>2
      <4>2. b[3] \in DOMAIN s /\ b[3] < p
        <5>1. b[3] \in Nat /\ b[3] >= 1 /\ b[3] <= b[6] + 1 /\ b[3] < p
          BY <1>1, <3>1, <4>1
        <5> QED
          BY <2>2, <5>1
      <4> QED
        BY <3>2, <4>1, <4>2 DEF Holds
    <3>3. CASE h \in ModMasters(i)
      <4>1. Holds(s, b[4], Rollback, ModMasters(i)) /\ b[4] = b[3] + 1
        BY <1>5, <3>3
      <4>2. b[4] \in DOMAIN s /\ b[4] < p
        <5>1. b[4] \in Nat /\ b[4] >= 1 /\ b[4] <= b[6] + 1 /\ b[4] < p
          BY <1>1, <3>1, <4>1
        <5> QED
          BY <2>2, <5>1
      <4> QED
        BY <3>3, <4>1, <4>2 DEF Holds
    <3>4. CASE h \in Followers(i)
      <4>1. Holds(s, b[4] + 1, RollbackStop, Followers(i))
        <5>1. b[5] # b[4]
          BY <1>1, <3>1
        <5> QED
          BY <5>1 DEF Layout, StopAndPause
      <4>2. b[4] + 1 \in DOMAIN s /\ b[4] + 1 < p
        <5>1. /\ b[4] + 1 \in Nat /\ b[4] + 1 >= 1 /\ b[4] + 1 <= b[6] + 1
              /\ b[4] + 1 < p
          BY <1>1, <3>1
        <5> QED
          BY <2>2, <5>1
      <4> QED
        BY <3>4, <4>1, <4>2 DEF Holds
    <3> QED
      BY <1>3, <3>2, <3>3, <3>4
  <2> QED
    BY <2>1, <2>3, <2>4
<1> QED
  BY <1>4, <1>6, <1>7, <1>8, <1>9 DEF Ordered

-----------------------------------------------------------------------------
(* The plan that the request generates is in order, so the invariant holds. *)

LEMMA GenerateOrdered ==
  ASSUME NEW i \in [Host -> Infos]
  PROVE  Ordered(i, Generate(i))
<1>1. PICK b : Layout(i, Generate(i), b)
  BY GenerateLayout
<1> QED
  BY <1>1, LayoutOrdered

LEMMA StepsNext == StepsInv /\ [Next]_vars => StepsInv'
<1> SUFFICES ASSUME StepsInv, [Next]_vars
             PROVE  StepsInv'
  OBVIOUS
<1>1. CASE RollbackOperation
  <2>1. info \in [Host -> Infos] /\ steps' = Generate(info) /\ UNCHANGED info
    BY <1>1 DEF RollbackOperation, StepsInv, TypeOK
  <2>2. Ordered(info, steps')
    BY <2>1, GenerateOrdered
  <2> QED
    BY <1>1, <2>2, OperationKeeps
<1>2. CASE TakeOff
  BY <1>2, TakeOffKeeps
<1>3. CASE SwitchFlow
  <2>1. /\ at < Len(steps) /\ at' = at + 1 /\ UNCHANGED <<info, steps, off, back, before>>
        /\ serving' = IF Current.action = RestoreFlow THEN serving \cup Current.hosts
                      ELSE serving \ Current.hosts
    BY <1>3 DEF SwitchFlow
  <2>2. Current.action # Rollback
    BY <1>3, ActionFacts DEF SwitchFlow
  <2>3. off = {}
    BY <2>2 DEF StepsInv, OffTogether
  <2> QED
    BY <2>1, <2>2, <2>3, PassKeeps
<1>4. CASE Confirm
  <2>1. /\ at < Len(steps) /\ Current.action \in {Pause, RollbackNotice}
        /\ at' = at + 1 /\ UNCHANGED <<info, steps, off, serving, back, before>>
    BY <1>4 DEF Confirm
  <2>2. Current.action # Rollback /\ Current.action # RestoreFlow
    BY <2>1, ActionFacts
  <2>3. off = {} /\ TypeOK /\ steps # <<>>
    BY <2>1, <2>2 DEF StepsInv, OffTogether, TypeOK
  <2>4. Current.hosts = {}
    BY <2>1, <2>3, CurrentOrdered DEF StepsInv, Planned
  <2>5. serving' = IF Current.action = RestoreFlow THEN serving \cup Current.hosts
                   ELSE serving \ Current.hosts
    BY <2>1, <2>4
  <2> QED
    BY <2>1, <2>2, <2>3, <2>5, PassKeeps
<1>5. CASE \E h \in Host : ComeBack(h)
  <2>1. PICK h \in Host : ComeBack(h)
    BY <1>5
  <2> QED
    BY <2>1, ComeBackKeeps
<1>6. CASE UNCHANGED vars
  BY <1>6 DEF vars, StepsInv, TypeOK, Planned, OffTogether, OldStay, NewInTurn, Begun, BackBy,
              Under, Current
<1> QED
  BY <1>1, <1>2, <1>3, <1>4, <1>5, <1>6 DEF Next

(* The steps are carried out in the order that was generated, and a machine
   serves a version exactly when its steps say so. *)
THEOREM StepsInvariance == Spec => []StepsInv
<1>1. Init => StepsInv
  BY StepsInit
<1>2. StepsInv /\ [Next]_vars => StepsInv'
  BY StepsNext
<1> QED
  BY <1>1, <1>2, PTL DEF Spec

-----------------------------------------------------------------------------
(* What follows from the invariant. *)

(* While machines are taken off and come back one by one, in any order, and
   whatever a failed publication has left cut off, an application that has a
   host already rolled back, or a master beside another host that took traffic,
   always has a host that takes traffic. *)
THEOREM AlwaysLit == Spec => []NeverDark
<1>1. StepsInv => NeverDark
  <2> SUFFICES ASSUME StepsInv, NEW a \in Apps(info), Covered(a)
               PROVE  \E h \in Of(info, a) : h \in serving
    BY DEF NeverDark
  <2>1. CASE at > 0 /\ \E h \in Of(info, a) : info[h].version = "old"
    BY <2>1 DEF StepsInv, OldStay, Of, OldHosts
  <2>2. CASE ~(at > 0 /\ \E h \in Of(info, a) : info[h].version = "old")
    <3>1. PICK g \in Of(info, a), h \in Of(info, a) \cap before :
            info[g].flag = Master /\ info[h].flag # Master
      BY <2>2 DEF Covered
    <3> SUFFICES ASSUME h \notin serving
                 PROVE  g \in serving
      BY <3>1
    <3>2. info[g].app = a /\ info[h].app = a /\ g \in Host /\ h \in Host
      BY <3>1 DEF Of
    <3>3. TypeOK /\ at \in Nat /\ DOMAIN steps = 1..Len(steps)
      BY DEF StepsInv, TypeOK
    <3>4. h \in NewHosts(info) /\ (Begun(at, h) \/ Under(h))
      <4>1. h \in NewHosts(info)
        BY <3>1, <3>2, HostFacts DEF StepsInv, OldStay
      <4> QED
        BY <3>1, <4>1 DEF StepsInv, NewInTurn
    <3>5. PICK k \in DOMAIN steps : h \in steps[k].hosts /\ k <= at + 1
      <4>1. CASE Begun(at, h)
        <5>1. PICK j \in 1..at : h \in steps[j].hosts
          BY <4>1 DEF Begun
        <5>2. j \in DOMAIN steps /\ j <= at + 1
          BY <3>3 DEF StepsInv, TypeOK
        <5> QED
          BY <5>1, <5>2
      <4>2. CASE Under(h)
        <5>1. h \in steps[at + 1].hosts /\ off # {}
          BY <4>2 DEF Under, Current
        <5>2. at + 1 \in DOMAIN steps /\ at + 1 <= at + 1
          BY <3>3, <5>1, CurrentFacts DEF StepsInv, OffTogether
        <5> QED
          BY <5>1, <5>2
      <4> QED
        BY <3>4, <4>1, <4>2
    <3>6. Ordered(info, steps)
      BY <3>5 DEF StepsInv, Planned
    <3>7. Of(info, a) \subseteq NewHosts(info)
      <4>1. CASE at > 0
        BY <2>2, <4>1 DEF Of, NewHosts, OldHosts
      <4>2. CASE at = 0
        <5>1. Under(h)
          BY <3>4, <4>2 DEF Begun
        <5>2. at < Len(steps) /\ Current.action = Rollback
          BY <5>1 DEF Under, StepsInv, OffTogether
        <5>3. OldHosts(info) = {}
          BY <3>3, <3>6, <4>2, <5>2, CurrentOrdered, ActionFacts
        <5> QED
          BY <5>3, HostFacts DEF Of
      <4> QED
        BY <3>3, <4>1, <4>2
    <3>8. PICK j \in DOMAIN steps : steps[j].action = Rollback /\ g \in steps[j].hosts
      BY <3>1, <3>6, <3>7 DEF Ordered, RolledBackOnce
    <3>9. j < k
      BY <3>1, <3>2, <3>5, <3>6, <3>7, <3>8 DEF Ordered, MastersGoFirst
    <3>10. j \in 1..at
      BY <3>3, <3>5, <3>8, <3>9
    <3>11. BackBy(at, g)
      BY <3>8, <3>10 DEF BackBy
    <3> QED
      BY <3>1, <3>7, <3>11 DEF StepsInv, NewInTurn
  <2> QED
    BY <2>1, <2>2
<1> QED
  BY <1>1, StepsInvariance, PTL

(* At a pause no master or slave still serves the new version beside a host
   that has been rolled back. *)
THEOREM PausesAreClean == Spec => []PauseIsClean
<1>1. StepsInv => PauseIsClean
  <2> SUFFICES ASSUME StepsInv, Paused, NEW a \in Apps(info), Mixed(a, {Master, Slave})
               PROVE  FALSE
    BY DEF PauseIsClean
  <2>1. PICK h \in Of(info, a) \cap serving : h \notin back /\ info[h].flag \in {Master, Slave}
    BY DEF Mixed
  <2>2. TypeOK /\ at < Len(steps) /\ steps[at + 1].action = Pause
    BY DEF StepsInv, Paused, Current
  <2>3. Ordered(info, steps)
    BY <2>2 DEF StepsInv, Planned, TypeOK
  <2>4. h \in NewHosts(info) /\ info[h].flag # Gray
    BY <2>1 DEF StepsInv, OldStay, Of, NewHosts, Master, Slave, Gray
  <2>5. at + 1 \in DOMAIN steps /\ at \in Nat
    BY <2>2, CurrentFacts
  <2>6. PICK j \in DOMAIN steps : j < at + 1 /\ h \in steps[j].hosts
    BY <2>2, <2>3, <2>4, <2>5 DEF Ordered, PauseComesAfter
  <2>7. j \in 1..at
    BY <2>2, <2>5, <2>6 DEF TypeOK
  <2>8. Begun(at, h)
    BY <2>6, <2>7 DEF Begun
  <2> QED
    BY <2>1, <2>4, <2>8 DEF StepsInv, NewInTurn
<1> QED
  BY <1>1, StepsInvariance, PTL

(* When the last step has been confirmed every host runs the old version again
   and takes traffic. *)
THEOREM EndsAsItShould == Spec => []EndsRolledBack
<1>1. StepsInv => EndsRolledBack
  <2> SUFFICES ASSUME StepsInv, steps # <<>>, at = Len(steps)
               PROVE  serving = Host /\ back = Host
    BY DEF EndsRolledBack
  <2>1. Ordered(info, steps) /\ TypeOK
    BY DEF StepsInv, Planned
  <2>2. at > 0 /\ DOMAIN steps = 1..at
    BY <2>1 DEF Ordered, TypeOK
  <2>3. OldHosts(info) \subseteq serving \cap back
    BY <2>2 DEF StepsInv, OldStay
  <2>4. ASSUME NEW h \in NewHosts(info)
        PROVE  h \in serving \cap back
    <3>1. BackBy(at, h)
      BY <2>1, <2>2 DEF Ordered, RolledBackOnce, BackBy
    <3> QED
      BY <3>1 DEF StepsInv, NewInTurn
  <2> QED
    BY <2>1, <2>3, <2>4, HostFacts, ZenonT(60) DEF TypeOK
<1> QED
  BY <1>1, StepsInvariance, PTL

(* With no gray host the same is true of every host: what the code's comment
   says of a pause, "the new version's traffic is cut off first"
   (stop_new_version_host_flow), fails for gray hosts only. *)
COROLLARY CutWithoutGray == Spec => []((\A h \in Host : info[h].flag # Gray) => NewVersionIsCut)
<1>1. TypeOK /\ PauseIsClean => ((\A h \in Host : info[h].flag # Gray) => NewVersionIsCut)
  <2> SUFFICES ASSUME TypeOK, PauseIsClean, \A h \in Host : info[h].flag # Gray, Paused,
                      NEW a \in Apps(info), Mixed(a, Flags)
               PROVE  FALSE
    BY DEF NewVersionIsCut
  <2>1. PICK g, h \in Of(info, a) \cap serving :
          g \in back /\ h \notin back /\ info[h].flag \in Flags
    BY DEF Mixed
  <2>2. info[h].flag \in {Master, Slave}
    BY <2>1 DEF Of, Flags
  <2> QED
    BY <2>1, <2>2 DEF PauseIsClean, Mixed
<1>2. StepsInv => TypeOK
  BY DEF StepsInv
<1> QED
  BY <1>1, <1>2, StepsInvariance, PausesAreClean, PTL

-----------------------------------------------------------------------------
(* What RollbackChain assumes of the steps it carries out. *)

(* Only pauses and the notice have no hosts. *)
Runnable(s) ==
  /\ s \in Seq(Steps) /\ Len(s) > 0
  /\ \A j \in DOMAIN s : s[j].hosts = {} <=> s[j].action \in {Pause, RollbackNotice}

OnePause(s) == \A j, k \in DOMAIN s : s[j].action = Pause /\ s[k].action = Pause => j = k

(* An application that is rolled back by half has a new host that is not gray:
   the comparison of counts leaves something to cut off. *)
LEMMA HalfWayHosts ==
  ASSUME NEW i \in [Host -> Infos], NEW a \in Apps(i), Half(i, a)
  PROVE  HalfWay(i) # {}
<1>1. PICK o : o = {g \in Of(i, a) : i[g].flag # Gray /\ i[g].version = "old"}
  OBVIOUS
<1>2. PICK y : y = {g \in Of(i, a) : i[g].flag = Gray}
  OBVIOUS
<1>3. OldNum(i, a) = Cardinality(o) /\ GrayNum(i, a) = Cardinality(y)
  BY <1>1, <1>2 DEF OldNum, GrayNum
<1>4. IsFiniteSet(o) /\ IsFiniteSet(y) /\ o \cap y = {}
  <2>1. o \subseteq Host /\ y \subseteq Host
    BY <1>1, <1>2 DEF Of
  <2> QED
    BY <1>1, <1>2, <2>1, HostAssumption, FS_Subset
<1>5. Cardinality(o \cup y) = Cardinality(y) + Cardinality(o)
  <2>1. Cardinality(o \cup y) = Cardinality(o) + Cardinality(y) - Cardinality(o \cap y)
    BY <1>4, FS_Union
  <2>2. Cardinality(o \cap y) = 0
    BY <1>4, FS_EmptySet
  <2>3. Cardinality(o) \in Nat /\ Cardinality(y) \in Nat
    BY <1>4, FS_CardinalityType
  <2> QED
    BY <2>1, <2>2, <2>3
<1>6. o \cup y # Of(i, a)
  BY <1>3, <1>5 DEF Half, Full
<1>7. PICK h \in Of(i, a) : h \notin o /\ h \notin y
  BY <1>1, <1>2, <1>6
<1>8. h \in NewHosts(i) /\ i[h].app = a
  BY <1>1, <1>2, <1>7 DEF Of, NewHosts, OldHosts
<1> QED
  BY <1>8 DEF HalfWay

LEMMA LayoutRunnable ==
  ASSUME NEW i \in [Host -> Infos], NEW s, NEW b, Layout(i, s, b)
  PROVE  Runnable(s) /\ (~StopsNew(i) => OnePause(s))
<1>1. /\ b[1] <= b[2] /\ b[2] <= b[3] /\ b[3] <= b[4] /\ b[4] <= b[5] /\ b[5] <= b[6]
      /\ b[1] \in Nat /\ b[2] \in Nat /\ b[3] \in Nat /\ b[4] \in Nat /\ b[5] \in Nat
      /\ b[6] \in Nat
  BY LayoutParts
<1>2. s \in Seq(Steps) /\ Len(s) > 0
  BY <1>1 DEF Layout
<1>3. /\ b[1] # 0 => OldHosts(i) # {}
      /\ b[2] # b[1] => StopsNew(i)
      /\ b[3] # b[2] => WebMasters(i) # {}
      /\ b[4] # b[3] => ModMasters(i) # {}
      /\ b[5] # b[4] => Followers(i) # {}
      /\ b[6] # b[5] => Followers(i) # {}
  BY DEF Layout, OneStep, StopAndPause, PausesHalfWay
<1>4. StopsNew(i) => HalfWay(i) # {}
  BY HalfWayHosts DEF StopsNew
<1>5. ASSUME NEW j \in DOMAIN s
      PROVE  /\ s[j].hosts = {} <=> s[j].action \in {Pause, RollbackNotice}
             /\ s[j].action = Pause => (j = b[2] /\ StopsNew(i)) \/ j = b[5]
  <2>1. \/ InRestore(i, s, b, j)
        \/ InStopNew(i, s, b, j) \/ InStop(i, s, b, j)
        \/ InFirstPause(i, s, b, j) \/ InLastPause(i, s, b, j) \/ InNotice(s, b, j)
        \/ InMasters(i, s, b, j) \/ InFollowers(i, s, b, j)
    BY LayoutParts
  <2>2. CASE InRestore(i, s, b, j)
    BY <1>3, <2>2, ActionFacts DEF InRestore, Holds
  <2>3. CASE InStopNew(i, s, b, j)
    BY <1>4, <2>3, ActionFacts DEF InStopNew, Holds
  <2>4. CASE InStop(i, s, b, j)
    <3>1. b[5] # b[4]
      BY <1>1, <2>4 DEF InStop
    <3> QED
      BY <1>3, <2>4, <3>1, ActionFacts DEF InStop, Holds
  <2>5. CASE InFirstPause(i, s, b, j) \/ InLastPause(i, s, b, j) \/ InNotice(s, b, j)
    BY <2>5, ActionFacts DEF InFirstPause, InLastPause, InNotice, Holds
  <2>6. CASE InMasters(i, s, b, j)
    <3>1. CASE j = b[3] /\ s[j].hosts = WebMasters(i)
      <4>1. b[3] # b[2]
        BY <1>1, <2>6, <3>1 DEF InMasters
      <4> QED
        BY <1>3, <2>6, <3>1, <4>1, ActionFacts DEF InMasters
    <3>2. CASE j = b[4] /\ j > b[3] /\ s[j].hosts = ModMasters(i)
      <4>1. b[4] # b[3]
        BY <1>1, <3>2
      <4> QED
        BY <1>3, <2>6, <3>2, <4>1, ActionFacts DEF InMasters
    <3> QED
      BY <2>6, <3>1, <3>2 DEF InMasters
  <2>7. CASE InFollowers(i, s, b, j)
    <3>1. b[6] # b[5]
      BY <1>1, <2>7 DEF InFollowers
    <3> QED
      BY <1>3, <2>7, <3>1, ActionFacts DEF InFollowers, Holds
  <2> QED
    BY <2>1, <2>2, <2>3, <2>4, <2>5, <2>6, <2>7
<1> QED
  BY <1>2, <1>5 DEF Runnable, OnePause

(* Whatever the CMDB answers, each step that runs tasks has hosts to run them
   on, as RollbackChain assumes of its plan: counting and dividing the hosts
   leave no group empty that gets a step. *)
THEOREM PlansAreRunnable == \A i \in [Host -> Infos] : Runnable(Generate(i))
BY GenerateLayout, LayoutRunnable

(* A second pause, behind which a repeated rollback finds nothing to do
   (RollbackChain's RetryFindsUnfinished), takes hosts of both versions, no
   application rolled back by less than half and one rolled back by half. *)
THEOREM OnePauseUnlessHalf ==
  \A i \in [Host -> Infos] : ~StopsNew(i) => OnePause(Generate(i))
BY GenerateLayout, LayoutRunnable

=============================================================================
