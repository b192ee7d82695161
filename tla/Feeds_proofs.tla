--------------------------- MODULE Feeds_proofs ---------------------------
(***************************************************************************)
(* The feeds, for every number of hosts, tasks and rows and every page     *)
(* size.  SentOnce and NothingSkipped hold on a connection that follows    *)
(* one host whose rows finish in order: at most the last row of a host is  *)
(* unfinished, so the finished rows of a page are an interval that begins  *)
(* at the offset, and the offset moves to its end; the other feeds only    *)
(* read, so it holds beside them.  SilenceIsRight holds for a pattern of   *)
(* one host whose chain does its tasks in turn: what the connection        *)
(* remembers, what it has sent and what there is come one after the other, *)
(* and the tasks of such a chain do not come back to what they were under  *)
(* the same status without having been the same in between.                *)
(***************************************************************************)
EXTENDS Feeds, FiniteSetTheorems, TLAPS

(* Only the last row of a host may be unfinished. *)
Ordered == \A h \in Host : \A i, j \in Rows(h) : i < j => Finished(h, i)

(* The rows up to the offset are finished rows of the host followed, and they
   are the rows that have been sent, each once. *)
Behind ==
  /\ following = None => offset = 0
  /\ following # None =>
       /\ offset <= count[following]
       /\ \A i \in Rows(following) : i <= offset => Finished(following, i)
Counted ==
  \A h \in Host, i \in Row :
    sent[h][i] = IF h = following /\ i <= offset THEN 1 ELSE 0

FeedInv == TypeOK /\ Ordered /\ Behind /\ Counted

-----------------------------------------------------------------------------
(* The finished rows of a page are the rows from the offset to some row k. *)
LEMMA ReadyIsInterval ==
  ASSUME TypeOK, Ordered, NEW h \in Host, offset <= count[h]
  PROVE  \E k \in offset..count[h] : Ready(h) = (offset + 1)..k
<1> DEFINE m == IF offset + Limit < count[h] THEN offset + Limit ELSE count[h]
<1>1. /\ offset \in Nat /\ count[h] \in Nat /\ Limit \in Nat /\ Limit > 0
      /\ m \in Nat /\ offset <= m /\ m <= count[h] /\ m <= offset + Limit
  BY NumbersAssumption DEF TypeOK
<1>2. Page(h) = (offset + 1)..m
  BY <1>1 DEF Page, Rows
<1>3. \A i \in Page(h) : i < m => Finished(h, i)
  BY <1>1, <1>2 DEF Ordered, Rows
<1> HIDE DEF m
<1>4. CASE m = offset
  <2>1. Page(h) = {} /\ (offset + 1)..offset = {}
    BY <1>1, <1>2, <1>4
  <2>2. Ready(h) = (offset + 1)..offset
    BY <2>1 DEF Ready
  <2> QED BY <1>1, <2>2
<1>5. CASE m # offset /\ Finished(h, m)
  <2>1. \A i \in Page(h) : Finished(h, i)
    BY <1>1, <1>2, <1>3, <1>5
  <2>2. Ready(h) = (offset + 1)..m
    BY <1>2, <2>1 DEF Ready
  <2> QED BY <1>1, <2>2
<1>6. CASE m # offset /\ ~Finished(h, m)
  <2>1. Ready(h) = (offset + 1)..(m - 1)
    BY <1>1, <1>2, <1>3, <1>6 DEF Ready
  <2>2. m - 1 \in offset..count[h]
    BY <1>1, <1>6
  <2> QED BY <2>1, <2>2
<1> QED BY <1>4, <1>5, <1>6

(* A look moves the offset to the end of that interval. *)
LEMMA LookMovesOn ==
  ASSUME TypeOK, Ordered, NEW h \in Host, offset <= count[h], Look(h)
  PROVE  /\ offset' \in offset..count[h]
         /\ Ready(h) = (offset + 1)..offset'
<1>1. PICK k \in offset..count[h] : Ready(h) = (offset + 1)..k
  BY ReadyIsInterval
<1>2. offset \in Int /\ k \in Int /\ offset <= k /\ k <= count[h]
  BY <1>1 DEF TypeOK
<1>3. Cardinality((offset + 1)..k) = IF offset + 1 > k THEN 0 ELSE k - (offset + 1) + 1
  BY <1>2, FS_Interval
<1>4. Cardinality(Ready(h)) = k - offset
  BY <1>1, <1>2, <1>3
<1>5. offset' = k
  BY <1>2, <1>4 DEF Look
<1> QED BY <1>1, <1>5

(* A look at a host keeps the invariant, when it is the host that is followed
   afterwards and the rows sent so far are its first ones. *)
LEMMA LookKeepsInv ==
  ASSUME TypeOK, Ordered, NEW h \in Host,
         offset <= count[h],
         \A i \in Rows(h) : i <= offset => Finished(h, i),
         \A g \in Host, i \in Row : sent[g][i] = IF g = h /\ i <= offset THEN 1 ELSE 0,
         following' = h, Look(h), UNCHANGED <<count, row, task>>
  PROVE  FeedInv'
<1>1. /\ offset' \in offset..count[h]
      /\ Ready(h) = (offset + 1)..offset'
  BY LookMovesOn
<1>2. /\ offset \in Nat /\ offset' \in Nat /\ count[h] \in Nat /\ MaxRows \in Nat
      /\ count[h] <= MaxRows /\ offset <= offset' /\ offset' <= count[h]
  BY <1>1, NumbersAssumption DEF TypeOK
<1>3. \A i \in Ready(h) : Finished(h, i)
  BY DEF Ready
<1>4. TypeOK'
  <2>1. sent' \in [Host -> [Row -> Nat]]
    BY DEF Look, Answer, TypeOK
  <2>2. \/ known' = task[h] /\ view' = [view EXCEPT ![h] = task[h]]
        \/ known' = known /\ view' = view
    BY DEF Look, Answer
  <2>3. task[h] \in [Task -> Statuses]
    BY DEF TypeOK
  <2> DEFINE Known == [Task -> Statuses] \cup {None}
  <2>4. task[h] \in Known /\ known \in Known /\ view \in [Host -> Known]
    BY <2>3 DEF TypeOK
  <2> HIDE DEF Known
  <2>5. known' \in Known /\ view' \in [Host -> Known]
    BY <2>2, <2>4
  <2>6. offset' \in 0..MaxRows
    BY <1>2
  <2>7. following' \in Host \cup {None}
    OBVIOUS
  <2>8. count' \in [Host -> 0..MaxRows] /\ task' \in [Host -> [Task -> Statuses]]
    BY DEF TypeOK
  <2>9. row' \in [Host -> [Row -> [task : Nat, status : Statuses]]]
    BY DEF TypeOK
  <2> QED BY <2>1, <2>5, <2>6, <2>7, <2>8, <2>9 DEF TypeOK, Known
<1>5. Ordered'
  BY DEF Ordered, Rows, Finished
<1>6. Behind'
  <2>1. h # None
    BY NoneAssumption
  <2>2. \A i \in Rows(h) : i <= offset' => Finished(h, i)
    BY <1>1, <1>2, <1>3 DEF Rows
  <2> QED BY <1>2, <2>1, <2>2 DEF Behind, Rows, Finished
<1>7. Counted'
  <2> SUFFICES ASSUME NEW g \in Host, NEW i \in Row
               PROVE  sent'[g][i] = IF g = h /\ i <= offset' THEN 1 ELSE 0
    BY DEF Counted
  <2>1. CASE g # h
    BY <2>1 DEF Look, Answer, TypeOK
  <2>2. CASE g = h
    <3>1. sent'[h][i] = IF i \in Ready(h) THEN sent[h][i] + 1 ELSE sent[h][i]
      BY DEF Look, Answer, TypeOK
    <3>2. i \in Nat /\ i > 0
      BY <1>2 DEF Row
    <3>3. i \in Ready(h) <=> offset < i /\ i <= offset'
      BY <1>1, <1>2, <3>2
    <3> QED BY <1>2, <2>2, <3>1, <3>2, <3>3
  <2> QED BY <2>1, <2>2
<1> QED BY <1>4, <1>5, <1>6, <1>7 DEF FeedInv

-----------------------------------------------------------------------------
(* At first there are no rows. *)
LEMMA InitFeed == Init => FeedInv
<1> SUFFICES ASSUME Init PROVE FeedInv
  OBVIOUS
<1>1. TypeOK
  BY NumbersAssumption DEF Init, TypeOK, NoRow, Statuses, Pending, Running, Done, Failed, Row
<1>2. Ordered
  BY DEF Init, Ordered, Rows
<1>3. Behind
  BY DEF Init, Behind
<1>4. Counted
  BY NoneAssumption DEF Init, Counted
<1> QED BY <1>1, <1>2, <1>3, <1>4 DEF FeedInv

(* A new row is the last one; the rows before it have finished. *)
LEMMA BeginKeepsInv ==
  ASSUME InOrder, FeedInv, NEW h \in Host, NEW t \in Task, Begin(h, t)
  PROVE  FeedInv'
<1>1. TypeOK /\ Ordered /\ Behind /\ Counted
  BY DEF FeedInv
<1>2. count[h] \in Nat /\ count[h] < MaxRows /\ MaxRows \in Nat /\ count[h] + 1 \in Row
  BY <1>1, NumbersAssumption DEF Begin, TypeOK, Row
<1>3. \A i \in Rows(h) : Finished(h, i)
  BY DEF Begin
<1>4. /\ count' = [count EXCEPT ![h] = @ + 1]
      /\ row' = [row EXCEPT ![h][count[h] + 1] = [task |-> t, status |-> Running]]
      /\ task' = [task EXCEPT ![h][t] = Running]
  BY DEF Begin
<1>5. TypeOK'
  <2>1. count' \in [Host -> 0..MaxRows]
    BY <1>1, <1>2, <1>4 DEF TypeOK
  <2>2. [task |-> t, status |-> Running] \in [task : Nat, status : Statuses]
    BY NumbersAssumption DEF Task, Statuses
  <2>3. row' \in [Host -> [Row -> [task : Nat, status : Statuses]]]
    BY <1>1, <1>4, <2>2 DEF TypeOK
  <2>4. task' \in [Host -> [Task -> Statuses]]
    BY <1>1, <1>4 DEF TypeOK, Statuses
  <2> QED BY <1>1, <2>1, <2>3, <2>4 DEF TypeOK, Begin
<1>6. \A g \in Host : \A i \in Rows(g) : row'[g][i] = row[g][i]
  BY <1>1, <1>2, <1>4, SMTT(30) DEF TypeOK, Rows, Row
<1>7. Ordered'
  <2> SUFFICES ASSUME NEW g \in Host, NEW i \in Rows(g)', NEW j \in Rows(g)', i < j
               PROVE  Finished(g, i)'
    BY DEF Ordered
  <2>1. CASE g = h
    <3>1. i \in Rows(h)
      BY <1>1, <1>2, <1>4, <2>1 DEF Rows, TypeOK
    <3> QED BY <1>3, <1>6, <2>1, <3>1 DEF Finished
  <2>2. CASE g # h
    <3>1. i \in Rows(g) /\ j \in Rows(g)
      BY <1>1, <1>4, <2>2 DEF Rows, TypeOK
    <3> QED BY <1>1, <1>6, <3>1 DEF Ordered, Finished
  <2> QED BY <2>1, <2>2
<1>8. Behind'
  <2>1. following' = following /\ offset' = offset
    BY DEF Begin
  <2>2. CASE following = None
    BY <1>1, <2>1, <2>2 DEF Behind
  <2>3. CASE following # None
    <3>1. following \in Host /\ count[following] \in Nat /\ offset \in Nat
          /\ offset <= count[following] /\ count'[following] \in Nat
          /\ count[following] <= count'[following]
      BY <1>1, <1>2, <1>4, <2>3 DEF Behind, TypeOK
    <3>2. \A i \in Rows(following)' : i <= offset => i \in Rows(following)
      BY <3>1 DEF Rows
    <3> QED BY <1>1, <1>6, <2>1, <2>3, <3>1, <3>2 DEF Behind, Finished
  <2> QED BY <2>2, <2>3
<1>9. Counted'
  BY <1>1 DEF Begin, Counted
<1> QED BY <1>5, <1>7, <1>8, <1>9 DEF FeedInv

(* A row that finishes becomes a finished one, and one whose success is
   withdrawn stays one. *)
LEMMA FinishKeepsInv ==
  ASSUME FeedInv, NEW h \in Host, NEW k \in Row, NEW s \in {Done, Failed},
         Finish(h, k, s) \/ (s = Failed /\ Withdraw(h, k))
  PROVE  FeedInv'
<1>1. TypeOK /\ Ordered /\ Behind /\ Counted
  BY DEF FeedInv
<1>2. /\ row' = [row EXCEPT ![h][k].status = s]
      /\ task' = [task EXCEPT ![h] =
           [u \in Task |-> IF u = row[h][k].task THEN s ELSE @[u]]]
      /\ UNCHANGED <<count, following, offset, known, sent, view>>
  BY DEF Finish, Withdraw
<1>3. s \in Statuses
  BY DEF Statuses
<1>4. TypeOK'
  <2>1. row' \in [Host -> [Row -> [task : Nat, status : Statuses]]]
    <3> DEFINE Rec == [task : Nat, status : Statuses]
    <3>1. row \in [Host -> [Row -> Rec]]
      BY <1>1 DEF TypeOK
    <3>2. row[h][k] \in Rec
      BY <3>1
    <3>3. [row[h][k] EXCEPT !.status = s] \in Rec
      BY <1>3, <3>2
    <3> DEFINE ended == [row[h] EXCEPT ![k] = [row[h][k] EXCEPT !.status = s]]
    <3>4. row' = [row EXCEPT ![h] = ended]
      BY <1>2
    <3> HIDE DEF Rec
    <3>5. ended \in [Row -> Rec]
      BY <3>1, <3>3
    <3> HIDE DEF ended
    <3>6. row' \in [Host -> [Row -> Rec]]
      BY <3>1, <3>4, <3>5
    <3> QED BY <3>6 DEF Rec
  <2>2. task' \in [Host -> [Task -> Statuses]]
    BY <1>1, <1>2, <1>3 DEF TypeOK
  <2> QED BY <1>1, <1>2, <2>1, <2>2 DEF TypeOK
<1>5. \A g \in Host, i \in Row : Finished(g, i) => Finished(g, i)'
  BY <1>1, <1>2 DEF TypeOK, Finished
<1>6. \A g \in Host : Rows(g) \subseteq Row
  BY <1>1, NumbersAssumption DEF Rows, Row, TypeOK
<1>7. \A g \in Host : Rows(g)' = Rows(g)
  BY <1>2 DEF Rows
<1>8. Ordered'
  BY <1>1, <1>5, <1>6, <1>7 DEF Ordered
<1>9. Behind'
  <2>1. following # None => following \in Host
    BY <1>1 DEF TypeOK
  <2> QED BY <1>1, <1>2, <1>5, <1>6, <1>7, <2>1 DEF Behind
<1>10. Counted'
  BY <1>1, <1>2 DEF Counted
<1> QED BY <1>4, <1>8, <1>9, <1>10 DEF FeedInv

(* A message that names the host to follow is answered with a look. *)
LEMMA FollowKeepsInv ==
  ASSUME OneHost, FeedInv, NEW h \in Host, Follow(h)
  PROVE  FeedInv'
<1>1. TypeOK /\ Ordered /\ Behind /\ Counted
  BY DEF FeedInv
<1>2. following = None /\ offset = 0 /\ following' = h /\ Look(h) /\ UNCHANGED <<count, row, task>>
  BY <1>1 DEF Follow, Behind
<1>3. offset <= count[h]
  BY <1>1, <1>2 DEF TypeOK
<1>4. \A i \in Rows(h) : i <= offset => Finished(h, i)
  BY <1>2 DEF Rows
<1>5. \A g \in Host, i \in Row : sent[g][i] = IF g = h /\ i <= offset THEN 1 ELSE 0
  <2> SUFFICES ASSUME NEW g \in Host, NEW i \in Row
               PROVE  sent[g][i] = IF g = h /\ i <= offset THEN 1 ELSE 0
    OBVIOUS
  <2>1. g # following /\ ~(i <= offset)
    BY <1>2, NoneAssumption DEF Row
  <2> QED BY <1>1, <2>1 DEF Counted
<1> QED BY <1>1, <1>2, <1>3, <1>4, <1>5, LookKeepsInv

(* The periodic look at the host followed. *)
LEMMA CallbackKeepsInv ==
  ASSUME FeedInv, Callback
  PROVE  FeedInv'
<1>1. TypeOK /\ Ordered /\ Behind /\ Counted
  BY DEF FeedInv
<1>2. /\ following \in Host /\ following # None /\ following' = following
      /\ Look(following) /\ UNCHANGED <<count, row, task>>
  BY <1>1 DEF Callback, TypeOK
<1>3. /\ offset <= count[following]
      /\ \A i \in Rows(following) : i <= offset => Finished(following, i)
  BY <1>1, <1>2 DEF Behind
<1>4. \A g \in Host, i \in Row :
        sent[g][i] = IF g = following /\ i <= offset THEN 1 ELSE 0
  BY <1>1 DEF Counted
<1> QED BY <1>1, <1>2, <1>3, <1>4, LookKeepsInv

(* Every step of the workers and of the connection. *)
LEMMA NextFeed ==
  ASSUME OneHost, InOrder, FeedInv, [Next]_vars
  PROVE  FeedInv'
<1>1. CASE \E h \in Host, t \in Task : Begin(h, t)
  BY <1>1, BeginKeepsInv
<1>2. CASE \E h \in Host, i \in Row, s \in {Done, Failed} : Finish(h, i, s)
  BY <1>2, FinishKeepsInv
<1>3. CASE \E h \in Host, i \in Row : Withdraw(h, i)
  BY <1>3, FinishKeepsInv
<1>4. CASE \E h \in Host : Follow(h)
  BY <1>4, FollowKeepsInv
<1>5. CASE Callback
  BY <1>5, CallbackKeepsInv
<1>6. CASE UNCHANGED vars
  BY <1>6 DEF vars, FeedInv, TypeOK, Ordered, Behind, Counted, Rows, Finished
<1> QED BY <1>1, <1>2, <1>3, <1>4, <1>5, <1>6 DEF Next

(* The feed's invariant, for a connection that follows one host whose rows
   finish in order. *)
THEOREM FeedInvariance ==
  ASSUME OneHost, InOrder
  PROVE  Spec => []FeedInv
<1>1. Init => FeedInv
  BY InitFeed
<1>2. FeedInv /\ [Next]_vars => FeedInv'
  BY NextFeed
<1> QED BY <1>1, <1>2, PTL DEF Spec

(* The feed never shows a result twice: the rows it counts are the rows it
   has sent. *)
THEOREM NoResultTwice ==
  ASSUME OneHost, InOrder
  PROVE  Spec => []SentOnce
<1>1. FeedInv => SentOnce
  BY DEF FeedInv, Counted, SentOnce
<1> QED BY <1>1, FeedInvariance, PTL

(* The feed never moves past a result it has not shown. *)
THEOREM NoResultSkipped ==
  ASSUME OneHost, InOrder
  PROVE  Spec => []NothingSkipped
<1>1. FeedInv => NothingSkipped
  <2> SUFFICES ASSUME FeedInv, following # None, NEW i \in Rows(following), i <= offset
               PROVE  sent[following][i] > 0
    BY DEF NothingSkipped
  <2>1. following \in Host /\ i \in Row
    BY NumbersAssumption DEF FeedInv, TypeOK, Rows, Row
  <2>2. sent[following][i] = 1
    BY <2>1 DEF FeedInv, Counted
  <2> QED BY <2>2
<1> QED BY <1>1, FeedInvariance, PTL

-----------------------------------------------------------------------------
(* Beside the other feeds *)

(* A step of the three feeds is one of the feed of a host or leaves it alone. *)
LEMMA FeedsStep == ASSUME [FeedsNext]_allVars PROVE [Next]_vars
<1>1. CASE \E h \in Host, t \in Task :
             Begin(h, t) /\ (open = "pattern" /\ ~GoesBack => InTurn(h, t))
  BY <1>1 DEF Next
<1>2. CASE \/ \E h \in Host, i \in Row, s \in {Done, Failed} : Finish(h, i, s)
           \/ \E h \in Host, i \in Row : Withdraw(h, i) /\ (open = "pattern" => GoesBack)
  BY <1>2 DEF Next
<1>3. CASE Callback \/ \E h \in Host : Follow(h)
  BY <1>3 DEF Next
<1>4. CASE \E p \in Pattern : WatchPattern(p)
  BY <1>4 DEF WatchPattern, workers, host, vars
<1>5. CASE PatternCallback
  BY <1>5 DEF PatternCallback, workers, host, vars
<1>6. CASE (\E h \in Host, i \in Row : Ask(h, i)) \/ TaskCallback
  BY <1>6 DEF Ask, TaskCallback, workers, host, vars
<1>7. CASE UNCHANGED allVars
  BY <1>7 DEF allVars
<1> QED BY <1>1, <1>2, <1>3, <1>4, <1>5, <1>6, <1>7 DEF FeedsNext

(* The three feeds together implement the feed of a host: what is true of a
   connection to a host by itself is true of it beside the others. *)
THEOREM FeedsImplementTaskFeed == FeedsSpec => Spec
<1>1. FeedsInit => Init
  BY DEF FeedsInit
<1>2. [FeedsNext]_allVars => [Next]_vars
  BY FeedsStep
<1> QED BY <1>1, <1>2, PTL DEF FeedsSpec, Spec

(* Beside the other feeds too no result is sent twice and none is skipped. *)
COROLLARY ResultsBesideOtherFeeds ==
  ASSUME OneHost, InOrder
  PROVE  FeedsSpec => []SentOnce /\ []NothingSkipped
BY FeedsImplementTaskFeed, NoResultTwice, NoResultSkipped, PTL

-----------------------------------------------------------------------------
(* The feed of a pattern *)

(* Statuses of the tasks of a host whose chain does them in turn. *)
InLine(f) == \A t, u \in Task : u < t /\ f[t] # Pending => f[u] = Done

(* The statuses f may become the statuses g as a chain goes on. *)
Precedes(f, g) ==
  \A h \in Host, t \in Task :
    /\ f[h][t] = Done => g[h][t] = Done
    /\ f[h][t] # Pending => g[h][t] # Pending

Shown == [Host -> [Task -> Statuses]]
StatusIn(f) == CheckStatus({CheckStatus({f[h][t] : t \in Task}) : h \in Host})

(* The workers of a pattern that is watched: one task at a time, in turn. *)
Workers ==
  /\ row \in [Host -> [Row -> [task : Nat, status : Statuses]]]
  /\ task \in Shown
  /\ open = "pattern" =>
       \A h \in Host :
         /\ InLine(task[h])
         /\ \A i \in Row : row[h][i].status = Running =>
              /\ row[h][i].task \in Task /\ task[h][row[h][i].task] = Running
              /\ \A j \in Row : row[h][j].status = Running => j = i

(* What the connection knows of a pattern, what it has sent and what there is
   come one after the other, and the status it knows is that of what it has
   sent. *)
InStep(p) ==
  /\ shown[p] \in Shown \cup {None} /\ knownTasks[p] \in Shown \cup {None}
  /\ watching = None \/ open = "pattern"
  /\ watching = None => shown[p] = None
  /\ shown[p] = None => knownTasks[p] = None
  /\ shown[p] # None => knownStatus[p] = StatusIn(shown[p]) /\ Precedes(shown[p], TasksOf(p))
  /\ knownTasks[p] # None => Precedes(knownTasks[p], shown[p])

Connection ==
  /\ watching \in Pattern \cup {None}
  /\ knownStatus \in [Pattern -> Statuses]
  /\ knownTasks = [p \in Pattern |-> knownTasks[p]]
  /\ shown = [p \in Pattern |-> shown[p]]
  /\ \A p \in Pattern : InStep(p)
  /\ shown["other"] \in {None, OtherTasks}

(* Going on is a preorder. *)
LEMMA PrecedesOrder ==
  /\ \A f : Precedes(f, f)
  /\ \A f, g, k : Precedes(f, g) /\ Precedes(g, k) => Precedes(f, k)
BY DEF Precedes

(* A status derived from statuses is one of them all. *)
LEMMA StatusType ==
  /\ \A S : CheckStatus(S) \in Statuses
  /\ \A s \in Statuses : CheckStatus({s}) = s
BY DEF CheckStatus, Statuses, Pending, Running, Done, Failed

(* On one host whose chain does its tasks in turn, statuses that may become
   each other, with the same status of the pattern, are the same: a task can
   only be running in one and have failed in the other, and this would show. *)
LEMMA SameStatusSameTasks ==
  ASSUME \A g, h \in Host : g = h,
         NEW a \in Shown, NEW b \in Shown, \A h \in Host : InLine(b[h]),
         Precedes(a, b), Precedes(b, a), StatusIn(a) = StatusIn(b)
  PROVE  a = b
<1> SUFFICES ASSUME NEW h \in Host, NEW t \in Task, a[h][t] # b[h][t]
             PROVE  FALSE
  <2>1. ASSUME \A h \in Host, t \in Task : a[h][t] = b[h][t]
        PROVE  a = b
    <3>1. \A h \in Host : a[h] \in [Task -> Statuses] /\ b[h] \in [Task -> Statuses]
      BY DEF Shown
    <3>2. \A h \in Host : a[h] = b[h]
      BY <2>1, <3>1
    <3> QED BY <3>2 DEF Shown
  <2> QED BY <2>1
<1>1. a[h] \in [Task -> Statuses] /\ b[h] \in [Task -> Statuses]
  BY DEF Shown
<1>2. {a[h][t], b[h][t]} = {Running, Failed}
  BY <1>1 DEF Precedes, Statuses, Pending, Running, Done, Failed
<1>3. \A u \in Task : u # t => b[h][u] \in {Pending, Done} /\ a[h][u] = b[h][u]
  <2> SUFFICES ASSUME NEW u \in Task, u # t PROVE b[h][u] \in {Pending, Done} /\ a[h][u] = b[h][u]
    OBVIOUS
  <2>1. u < t \/ t < u
    BY DEF Task
  <2>2. b[h][t] # Pending /\ b[h][t] # Done
    BY <1>2 DEF Pending, Running, Done, Failed
  <2>3. b[h][u] \in {Pending, Done}
    BY <2>1, <2>2 DEF InLine
  <2> QED BY <1>1, <2>3 DEF Precedes, Statuses, Pending, Running, Done, Failed
<1> DEFINE A == {a[h][u] : u \in Task}
           B == {b[h][u] : u \in Task}
<1>4. StatusIn(a) = CheckStatus(A) /\ StatusIn(b) = CheckStatus(B)
  <2> DEFINE OfHost(f, g) == CheckStatus({f[g][u] : u \in Task})
  <2>1. ASSUME NEW f PROVE StatusIn(f) = OfHost(f, h)
    <3> HIDE DEF OfHost
    <3>1. {OfHost(f, g) : g \in Host} = {OfHost(f, h)}
      OBVIOUS
    <3>2. OfHost(f, h) \in Statuses
      BY StatusType DEF OfHost
    <3>3. StatusIn(f) = CheckStatus({OfHost(f, g) : g \in Host})
      BY DEF StatusIn, OfHost
    <3> QED BY <3>1, <3>2, <3>3, StatusType
  <2> QED BY <2>1
<1>5. a[h][t] \in A /\ b[h][t] \in B
      /\ A \subseteq {a[h][t], Pending, Done} /\ B \subseteq {b[h][t], Pending, Done}
  BY <1>3
<1> HIDE DEF A, B
<1>6. CheckStatus(A) = a[h][t] /\ CheckStatus(B) = b[h][t]
  BY <1>2, <1>5 DEF CheckStatus, Pending, Running, Done, Failed
<1> QED BY <1>4, <1>6

(* The workers keep one task at a time in turn, and go on. *)
LEMMA BeginGoesOn ==
  ASSUME Workers, NEW h \in Host, NEW t \in Task, Begin(h, t),
         open = "pattern" => InTurn(h, t), open' = open
  PROVE  Workers' /\ (open = "pattern" => Precedes(task, task'))
<1>1. /\ row' = [row EXCEPT ![h][count[h] + 1] = [task |-> t, status |-> Running]]
      /\ task' = [task EXCEPT ![h][t] = Running]
  BY DEF Begin
<1>2. [task |-> t, status |-> Running] \in [task : Nat, status : Statuses]
  BY NumbersAssumption DEF Task, Statuses
<1>3. row' \in [Host -> [Row -> [task : Nat, status : Statuses]]] /\ task' \in Shown
  BY <1>1, <1>2 DEF Workers, Shown, Statuses
<1>4. ASSUME open = "pattern" PROVE Precedes(task, task')
  <2>1. task[h][t] # Done
    BY <1>4 DEF InTurn
  <2> QED BY <1>1, <2>1 DEF Precedes, Workers, Shown, Pending, Running, Done
<1>5. ASSUME open = "pattern", NEW g \in Host
      PROVE  /\ InLine(task'[g])
             /\ \A i \in Row : row'[g][i].status = Running =>
                  /\ row'[g][i].task \in Task /\ task'[g][row'[g][i].task] = Running
                  /\ \A j \in Row : row'[g][j].status = Running => j = i
  <2>1. CASE g # h
    BY <1>1, <1>5, <2>1 DEF Workers, Shown
  <2>2. CASE g = h
    <3>1. InTurn(h, t) /\ task[h][t] # Running
      BY <1>5 DEF Begin
    <3>2. \A u \in Task : task[h][u] # Running
      BY <3>1 DEF InTurn, Task, Pending, Running, Done
    <3>3. \A i \in Row : row[h][i].status # Running
      BY <1>5, <3>2 DEF Workers
    <3>4. task'[h] = [task[h] EXCEPT ![t] = Running] /\ task[h] \in [Task -> Statuses]
      BY <1>1 DEF Workers, Shown
    <3>5. InLine(task'[h])
      BY <3>1, <3>4 DEF InTurn, InLine, Task, Pending, Running, Done
    <3>6. \A i \in Row : row'[h][i] = IF i = count[h] + 1 THEN [task |-> t, status |-> Running]
                                      ELSE row[h][i]
      BY <1>1 DEF Workers
    <3>7. \A i \in Row : row'[h][i].status = Running => i = count[h] + 1 /\ row'[h][i].task = t
      BY <3>3, <3>6
    <3> QED BY <2>2, <3>4, <3>5, <3>7
  <2> QED BY <2>1, <2>2
<1> QED BY <1>3, <1>4, <1>5 DEF Workers

(* A task that ends goes on too, and its row is the only one that was running. *)
LEMMA FinishGoesOn ==
  ASSUME Workers, NEW h \in Host, NEW k \in Row, NEW s \in {Done, Failed}, Finish(h, k, s),
         open' = open
  PROVE  Workers' /\ (open = "pattern" => Precedes(task, task'))
<1> DEFINE Rec == [task : Nat, status : Statuses]
<1>1. /\ row' = [row EXCEPT ![h][k].status = s]
      /\ task' = [task EXCEPT ![h] = [u \in Task |-> IF u = row[h][k].task THEN s ELSE @[u]]]
      /\ row[h][k].status = Running
  BY DEF Finish
<1>2. s \in Statuses /\ s # Running
  BY DEF Statuses, Running, Done, Failed
<1>3. row \in [Host -> [Row -> Rec]] /\ task \in Shown
  BY DEF Workers
<1>4. \A g \in Host, i \in Row :
        row'[g][i] = IF g = h /\ i = k THEN [row[g][i] EXCEPT !.status = s] ELSE row[g][i]
  BY <1>1, <1>3
<1>5. row' = [g \in Host |-> [i \in Row |-> row'[g][i]]]
  BY <1>1, <1>3
<1>6. \A r \in Rec : [r EXCEPT !.status = s] \in Rec /\ [r EXCEPT !.status = s].status = s
  BY <1>2
<1>13. \A g \in Host, i \in Row : row'[g][i] \in Rec
  <2> HIDE DEF Rec
  <2>1. \A g \in Host, i \in Row : row[g][i] \in Rec
    BY <1>3
  <2> QED BY <1>4, <1>6, <2>1
<1>7. row' \in [Host -> [Row -> Rec]]
  BY <1>5, <1>13
<1>8. \A g \in Host, u \in Task :
        task'[g][u] = IF g = h /\ u = row[h][k].task THEN s ELSE task[g][u]
  BY <1>1, <1>3 DEF Shown
<1>9. task' \in Shown
  BY <1>1, <1>2, <1>3 DEF Shown
<1>10. ASSUME open = "pattern"
       PROVE  row[h][k].task \in Task /\ task[h][row[h][k].task] = Running
  BY <1>1, <1>10 DEF Workers
<1>11. ASSUME open = "pattern" PROVE Precedes(task, task')
  BY <1>8, <1>10, <1>11 DEF Precedes, Pending, Running, Done, Failed
<1>12. ASSUME open = "pattern", NEW g \in Host
       PROVE  /\ InLine(task'[g])
              /\ \A i \in Row : row'[g][i].status = Running =>
                   /\ row'[g][i].task \in Task /\ task'[g][row'[g][i].task] = Running
                   /\ \A j \in Row : row'[g][j].status = Running => j = i
  <2>1. InLine(task[g])
    BY <1>12 DEF Workers
  <2>2. \A u \in Task : /\ task[g][u] = Done => task'[g][u] = Done
                        /\ task'[g][u] # Pending => task[g][u] # Pending
    BY <1>8, <1>10, <1>12 DEF Pending, Running, Done, Failed
  <2>3. InLine(task'[g])
    BY <2>1, <2>2 DEF InLine
  <2>4. \A i \in Row : row'[g][i].status = Running => row'[g][i] = row[g][i] /\ ~(g = h /\ i = k)
    <3> HIDE DEF Rec
    <3> SUFFICES ASSUME NEW i \in Row, row'[g][i].status = Running
                 PROVE  row'[g][i] = row[g][i] /\ ~(g = h /\ i = k)
      OBVIOUS
    <3>1. row[g][i] \in Rec
      BY <1>3
    <3>2. CASE g = h /\ i = k
      <4>1. row'[g][i] = [row[g][i] EXCEPT !.status = s]
        BY <1>4, <3>2
      <4> QED BY <1>2, <1>6, <3>1, <4>1
    <3>3. CASE ~(g = h /\ i = k)
      BY <1>4, <3>3
    <3> QED BY <3>2, <3>3
  <2>5. \A i \in Row : row'[g][i].status = Running =>
          /\ row[g][i].task \in Task /\ task[g][row[g][i].task] = Running
          /\ \A j \in Row : row[g][j].status = Running => j = i
    BY <1>12, <2>4 DEF Workers
  <2>6. ASSUME NEW i \in Row, row'[g][i].status = Running
        PROVE  g # h
    BY <1>1, <2>4, <2>5, <2>6
  <2> QED BY <1>8, <2>3, <2>4, <2>5, <2>6
<1> HIDE DEF Rec
<1> QED BY <1>7, <1>9, <1>11, <1>12 DEF Workers, Rec

(* A success withdrawn while no pattern is watched. *)
LEMMA WithdrawKeepsWorkers ==
  ASSUME Workers, NEW h \in Host, NEW k \in Row, Withdraw(h, k),
         open # "pattern", open' = open
  PROVE  Workers'
<1> DEFINE Rec == [task : Nat, status : Statuses]
<1>1. /\ row' = [row EXCEPT ![h][k].status = Failed]
      /\ task' = [task EXCEPT ![h] =
                    [u \in Task |-> IF u = row[h][k].task THEN Failed ELSE @[u]]]
  BY DEF Withdraw
<1>2. Failed \in Statuses
  BY DEF Statuses
<1>3. row \in [Host -> [Row -> Rec]] /\ task \in Shown
  BY DEF Workers
<1>4. task' \in Shown
  BY <1>1, <1>2, <1>3 DEF Shown
<1> DEFINE over == [row[h][k] EXCEPT !.status = Failed]
<1>5. over \in Rec
  BY <1>2, <1>3
<1>6. row' = [row EXCEPT ![h] = [row[h] EXCEPT ![k] = over]]
  BY <1>1
<1> HIDE DEF Rec, over
<1>7. row' \in [Host -> [Row -> Rec]]
  BY <1>3, <1>5, <1>6
<1> QED BY <1>4, <1>7 DEF Workers, Rec

(* Tasks that go on keep step with a connection that looks at nothing. *)
LEMMA GoingOnKeepsStep ==
  ASSUME Connection, Workers', UNCHANGED feeds,
         open = "pattern" => Precedes(task, task')
  PROVE  Connection'
<1>1. /\ watching' = watching /\ open' = open /\ knownStatus' = knownStatus
      /\ knownTasks' = knownTasks /\ shown' = shown
  BY DEF feeds, pattern
<1>2. ASSUME NEW p \in Pattern PROVE InStep(p)'
  <2>1. InStep(p)
    BY DEF Connection
  <2>2. open = "pattern" => Precedes(TasksOf(p), TasksOf(p)')
    BY PrecedesOrder DEF TasksOf
  <2>3. shown[p] # None => Precedes(shown[p], TasksOf(p)')
    BY <2>1, <2>2, PrecedesOrder DEF InStep
  <2> QED BY <1>1, <2>1, <2>3 DEF InStep
<1> QED BY <1>1, <1>2 DEF Connection

(* A message that names a pattern, and a look: what was sent before comes
   before what is sent now. *)
LEMMA ConnectionGoesOn ==
  ASSUME Connection, Workers, (\E p \in Pattern : WatchPattern(p)) \/ PatternCallback
  PROVE  Connection'
<1>1. /\ row' = row /\ task' = task /\ open' = open
      /\ \A p \in Pattern : TasksOf(p)' = TasksOf(p)
  BY DEF WatchPattern, PatternCallback, workers, TasksOf
<1>2. ASSUME NEW p \in Pattern, WatchPattern(p)
      PROVE  Connection'
  <2>1. watching' = p /\ open = "pattern" /\ UNCHANGED <<knownStatus, knownTasks, shown>>
    BY <1>2 DEF WatchPattern
  <2> QED BY <1>1, <2>1, NothingAssumption DEF Connection, InStep
<1>3. ASSUME PatternCallback
      PROVE  Connection'
  <2>1. PICK p \in Pattern : watching = p /\ watching' = p /\ p # None
    BY <1>3, NothingAssumption DEF PatternCallback, Connection
  <2>2. \A q \in Pattern : TasksOf(q) \in Shown /\ TasksOf(q) # None
    BY OtherTasksAssumption, NothingAssumption DEF TasksOf, Workers, Shown
  <2>3. \A q \in Pattern : StatusOf(q) = StatusIn(TasksOf(q)) /\ StatusOf(q) \in Statuses
    BY StatusType DEF StatusOf, StatusIn
  <2>4. /\ shown' = [shown EXCEPT ![p] = TasksOf(p)]
        /\ \/ /\ knownStatus' = [knownStatus EXCEPT ![p] = StatusOf(p)]
              /\ knownTasks' = knownTasks
           \/ /\ knownStatus' = knownStatus /\ knownStatus[p] = StatusOf(p)
              /\ knownTasks' = [knownTasks EXCEPT ![p] = TasksOf(p)]
    BY <1>3, <2>1 DEF PatternCallback
  <2>5. ASSUME NEW q \in Pattern, q # p
        PROVE  knownStatus'[q] = knownStatus[q] /\ knownTasks'[q] = knownTasks[q] /\ shown'[q] = shown[q]
    BY <2>4, <2>5 DEF Connection
  <2>6. knownStatus'[p] = StatusOf(p) /\ shown'[p] = TasksOf(p)
        /\ knownTasks'[p] \in {knownTasks[p], TasksOf(p)}
    BY <2>1, <2>4 DEF Connection
  <2>7. InStep(p)
    BY <2>1 DEF Connection
  <2>8. ASSUME knownTasks'[p] # None PROVE Precedes(knownTasks'[p], TasksOf(p))
    <3>1. CASE knownTasks'[p] = TasksOf(p)
      BY <3>1, PrecedesOrder
    <3>2. CASE knownTasks'[p] = knownTasks[p]
      BY <2>7, <2>8, <3>2, PrecedesOrder DEF InStep
    <3> QED BY <2>6, <3>1, <3>2
  <2>9. InStep(p)'
    BY <1>1, <2>1, <2>2, <2>3, <2>6, <2>7, <2>8, PrecedesOrder DEF InStep
  <2>10. \A q \in Pattern : q # p => InStep(q)'
    BY <1>1, <2>1, <2>5 DEF Connection, InStep
  <2>11. knownStatus' \in [Pattern -> Statuses]
    BY <2>1, <2>3, <2>4 DEF Connection
  <2>12. /\ knownTasks' = [q \in Pattern |-> knownTasks'[q]]
         /\ shown' = [q \in Pattern |-> shown'[q]]
    BY <2>4 DEF Connection
  <2>13. shown'["other"] \in {None, OtherTasks}
    BY <2>5, <2>6 DEF Connection, TasksOf, Pattern
  <2> QED BY <2>1, <2>9, <2>10, <2>11, <2>12, <2>13 DEF Connection
<1> QED BY <1>2, <1>3

(* At first no task has begun and no pattern is watched. *)
LEMMA WatchInit == FeedsInit => Workers /\ Connection
<1> SUFFICES ASSUME FeedsInit PROVE Workers /\ Connection
  OBVIOUS
<1>1. Workers
  BY DEF FeedsInit, Init, Workers, Shown, NoRow, InLine, Statuses, Pending, Running, Done
<1>2. Connection
  BY DEF FeedsInit, Connection, InStep, Statuses, Pattern
<1> QED BY <1>1, <1>2

(* Every step of the workers, of the feed and of the other feeds. *)
LEMMA WatchNext ==
  ASSUME ~GoesBack, Workers, Connection, [FeedsNext]_allVars
  PROVE  Workers' /\ Connection'
<1>1. CASE /\ \E h \in Host, t \in Task :
                Begin(h, t) /\ (open = "pattern" /\ ~GoesBack => InTurn(h, t))
           /\ UNCHANGED feeds
  <2>1. PICK h \in Host, t \in Task : Begin(h, t) /\ (open = "pattern" => InTurn(h, t))
    BY <1>1
  <2>2. open' = open /\ UNCHANGED feeds
    BY <1>1 DEF feeds
  <2> QED BY <2>1, <2>2, BeginGoesOn, GoingOnKeepsStep
<1>2. CASE (\E h \in Host, i \in Row, s \in {Done, Failed} : Finish(h, i, s)) /\ UNCHANGED feeds
  <2>1. open' = open /\ UNCHANGED feeds
    BY <1>2 DEF feeds
  <2> QED BY <1>2, <2>1, FinishGoesOn, GoingOnKeepsStep
<1>8. CASE /\ \E h \in Host, i \in Row : Withdraw(h, i) /\ (open = "pattern" => GoesBack)
           /\ UNCHANGED feeds
  <2>1. PICK h \in Host, i \in Row : Withdraw(h, i) /\ open # "pattern"
    BY <1>8
  <2>2. open' = open /\ UNCHANGED feeds
    BY <1>8 DEF feeds
  <2>3. Workers'
    BY <2>1, <2>2, WithdrawKeepsWorkers
  <2> QED BY <2>1, <2>2, <2>3, GoingOnKeepsStep
<1>3. CASE \/ UNCHANGED <<row, task>> /\ UNCHANGED feeds
           \/ UNCHANGED <<row, task>> /\ UNCHANGED <<open, pattern>>
  <2>1. Workers'
    BY <1>3 DEF Workers, feeds
  <2>2. Connection'
    BY <1>3 DEF Connection, InStep, TasksOf, feeds, pattern
  <2> QED BY <2>1, <2>2
<1>4. CASE open = "host" /\ (Callback \/ \E h \in Host : Follow(h)) /\ UNCHANGED feeds
  BY <1>3, <1>4 DEF Callback, Follow
<1>5. CASE (\E p \in Pattern : WatchPattern(p)) \/ PatternCallback
  <2>1. Workers'
    BY <1>5 DEF WatchPattern, PatternCallback, workers, Workers
  <2> QED BY <1>5, <2>1, ConnectionGoesOn
<1>6. CASE (\E h \in Host, i \in Row : Ask(h, i)) \/ TaskCallback
  BY <1>3, <1>6 DEF Ask, TaskCallback, workers
<1>7. CASE UNCHANGED allVars
  BY <1>3, <1>7 DEF allVars, vars
<1> QED BY <1>1, <1>2, <1>4, <1>5, <1>6, <1>7, <1>8 DEF FeedsNext

(* A pattern's connection that falls silent has sent the tasks as they are,
   for a pattern of one host whose chain does its tasks in turn: although the
   tasks it remembers are not always those it has sent. *)
THEOREM SilentFeedIsRight ==
  ASSUME \A g, h \in Host : g = h, ~GoesBack
  PROVE  FeedsSpec => []SilenceIsRight
<1>1. FeedsInit => Workers /\ Connection
  BY WatchInit
<1>2. Workers /\ Connection /\ [FeedsNext]_allVars => (Workers /\ Connection)'
  BY WatchNext
<1>3. Workers /\ Connection => SilenceIsRight
  <2> SUFFICES ASSUME Workers, Connection, NEW p \in Pattern,
                      StatusOf(p) = knownStatus[p], TasksOf(p) = knownTasks[p]
               PROVE  shown[p] = TasksOf(p)
    BY DEF SilenceIsRight
  <2>1. TasksOf(p) \in Shown /\ TasksOf(p) # None
    BY OtherTasksAssumption, NothingAssumption DEF TasksOf, Workers, Shown
  <2>2. InStep(p)
    BY DEF Connection
  <2>3. /\ shown[p] \in Shown /\ shown[p] # None /\ open = "pattern"
        /\ Precedes(TasksOf(p), shown[p]) /\ Precedes(shown[p], TasksOf(p))
        /\ StatusIn(TasksOf(p)) = StatusIn(shown[p])
    BY <2>1, <2>2 DEF InStep, StatusOf, StatusIn
  <2>4. CASE p = "other"
    BY <2>3, <2>4 DEF Connection, TasksOf
  <2>5. CASE p = "this"
    <3>1. TasksOf(p) = task /\ \A h \in Host : InLine(task[h])
      BY <2>3, <2>5 DEF TasksOf, Workers
    <3> QED BY <2>1, <2>3, <3>1, SameStatusSameTasks
  <2> QED BY <2>4, <2>5 DEF Pattern
<1> QED BY <1>1, <1>2, <1>3, PTL DEF FeedsSpec

=============================================================================
