-------------------------- MODULE TargetHost_proofs --------------------------
(***************************************************************************)
(* What holds of a target machine of either type of application, with one  *)
(* switch or both, however its tasks fail, have their effect without       *)
(* succeeding, time out and are repeated.  The proofs rest on two facts:   *)
(* every action has its tasks in one order of verbs (backup, disable,      *)
(* stop, link, start, update, enable), so that the verb a chain has come   *)
(* to says what has been done; and a task done twice in a row does what it *)
(* does once, so that a repeated one finds nothing it cannot cope with.    *)
(* The second fails where something else comes between the two: hence the  *)
(* hypotheses.  The operator waits for scripts that have outlived their    *)
(* tasks (Patient), a switch that dubbo-admin has accepted is made before  *)
(* the last look at it (DubboIsPrompt), and a host on which a publication  *)
(* has failed before the CMDB was told of it is not taken for one of the   *)
(* old version (~EarlyRestore).  A switch that dubbo-admin passes over,    *)
(* finding no matching application, is provided for (Missed).              *)
(***************************************************************************)
EXTENDS TargetHost, SequenceTheorems, TLAPS

(* The tasks of the actions are among these. *)

Verbs == {"download", "backup", "disable", "stop", "link", "start", "update", "enable"}
Things == {"package", "log", "app", "target", "rollback", "cmdb", "nginx", "dubbo"}
Work == [do : Verbs, what : Things]

(* The tasks that switch. *)
Off(s) == [do |-> "disable", what |-> s]
On(s) == [do |-> "enable", what |-> s]

(* The verbs in the order in which every action uses them, and the verb a
   chain has come to; Over when nothing is left. *)
Rank(verb) ==
  CASE verb = "download" -> 1
    [] verb = "backup" -> 2
    [] verb = "disable" -> 3
    [] verb = "stop" -> 4
    [] verb = "link" -> 5
    [] verb = "start" -> 6
    [] verb = "update" -> 7
    [] verb = "enable" -> 8
Over == 9
Stage(s) == IF s = <<>> THEN Over ELSE Rank(s[1].do)

(* The tasks come in the order of their verbs, each once. *)
Ordered(s) ==
  \A i, j \in DOMAIN s : i < j => s[i] # s[j] /\ Rank(s[i].do) <= Rank(s[j].do)

-----------------------------------------------------------------------------
(* Sequences of tasks *)

(* Every task has its rank. *)
LEMMA RankType == \A x \in Work : Rank(x.do) \in 1..8
<1>1. \A v \in Verbs : Rank(v) \in 1..8
  BY DEF Verbs, Rank
<1>2. \A x \in Work : x.do \in Verbs
  BY DEF Work
<1> QED BY <1>1, <1>2

(* A suffix is what is left behind some of the elements. *)
LEMMA SuffixMeans ==
  ASSUME NEW S, NEW s \in Seq(S), NEW t \in Seq(S)
  PROVE  IsSuffix(s, t) <=>
           /\ Len(s) <= Len(t)
           /\ \A i \in 1..Len(s) : s[i] = t[Len(t) - Len(s) + i]
<1> DEFINE rs == [i \in 1..Len(s) |-> s[(Len(s) - i) + 1]]
           rt == [i \in 1..Len(t) |-> t[(Len(t) - i) + 1]]
<1>1. /\ Reverse(s) = rs /\ Reverse(t) = rt
      /\ rs \in Seq(S) /\ rt \in Seq(S) /\ Len(rs) = Len(s) /\ Len(rt) = Len(t)
      /\ Len(s) \in Nat /\ Len(t) \in Nat
  BY DEF Reverse
<1>2. IsSuffix(s, t) <=> Len(s) <= Len(t) /\ SubSeq(rs, 1, Len(s)) = SubSeq(rt, 1, Len(s))
  BY <1>1 DEF IsSuffix, IsPrefix
<1>3. ASSUME Len(s) <= Len(t)
      PROVE  SubSeq(rs, 1, Len(s)) = SubSeq(rt, 1, Len(s))
               <=> \A i \in 1..Len(s) : rs[i] = rt[i]
  <2>1. /\ SubSeq(rs, 1, Len(s)) = [i \in 1..Len(s) |-> rs[i]]
        /\ SubSeq(rt, 1, Len(s)) = [i \in 1..Len(s) |-> rt[i]]
    BY <1>1, <1>3
  <2> HIDE DEF rs, rt
  <2> QED BY <2>1
<1>4. ASSUME Len(s) <= Len(t)
      PROVE  (\A i \in 1..Len(s) : rs[i] = rt[i])
               <=> \A i \in 1..Len(s) : s[i] = t[Len(t) - Len(s) + i]
  <2>1. ASSUME \A i \in 1..Len(s) : rs[i] = rt[i], NEW i \in 1..Len(s)
        PROVE  s[i] = t[Len(t) - Len(s) + i]
    <3>1. Len(s) - i + 1 \in 1..Len(s) /\ Len(s) - i + 1 \in 1..Len(t)
      BY <1>1, <1>4
    <3>2. rs[Len(s) - i + 1] = s[i] /\ rt[Len(s) - i + 1] = t[Len(t) - Len(s) + i]
      BY <1>1, <3>1
    <3> QED BY <2>1, <3>1, <3>2
  <2>2. ASSUME \A i \in 1..Len(s) : s[i] = t[Len(t) - Len(s) + i], NEW i \in 1..Len(s)
        PROVE  rs[i] = rt[i]
    <3>1. Len(s) - i + 1 \in 1..Len(s) /\ i \in 1..Len(t)
      BY <1>1, <1>4
    <3>2. rs[i] = s[Len(s) - i + 1] /\ rt[i] = t[Len(t) - i + 1]
      BY <1>1, <3>1
    <3>3. Len(t) - Len(s) + (Len(s) - i + 1) = Len(t) - i + 1
      BY <1>1
    <3> QED BY <2>2, <3>1, <3>2, <3>3
  <2> QED BY <2>1, <2>2
<1> QED BY <1>2, <1>3, <1>4

(* What is left of ordered tasks, and what is left when the first of them has
   succeeded. *)
LEMMA WhatIsLeft ==
  ASSUME NEW t \in Seq(Work), Ordered(t), NEW s \in Seq(Work), IsSuffix(s, t), s # <<>>
  PROVE  /\ Tail(s) \in Seq(Work) /\ IsSuffix(Tail(s), t)
         /\ s[1] \in ToSet(s) /\ ToSet(s) \subseteq ToSet(t)
         /\ ToSet(Tail(s)) = ToSet(s) \ {s[1]}
         /\ \A x \in ToSet(s) : Rank(s[1].do) <= Rank(x.do)
         /\ \A x \in ToSet(t) \ ToSet(s) : Rank(x.do) <= Rank(s[1].do)
<1> DEFINE d == Len(t) - Len(s)
<1>1. /\ Len(s) \in Nat /\ Len(t) \in Nat /\ Len(s) > 0 /\ d \in Nat
      /\ \A i \in 1..Len(s) : s[i] = t[d + i]
      /\ DOMAIN s = 1..Len(s) /\ DOMAIN t = 1..Len(t)
  BY SuffixMeans
<1>2. /\ Tail(s) \in Seq(Work) /\ Len(Tail(s)) = Len(s) - 1
      /\ \A i \in 1..(Len(s) - 1) : Tail(s)[i] = s[i + 1]
      /\ DOMAIN Tail(s) = 1..(Len(s) - 1)
  BY <1>1
<1> HIDE DEF d
<1>3. IsSuffix(Tail(s), t)
  <2>1. Len(t) - Len(Tail(s)) = d + 1
    BY <1>1, <1>2 DEF d
  <2>2. \A i \in 1..Len(Tail(s)) : Tail(s)[i] = t[d + 1 + i]
    BY <1>1, <1>2
  <2>3. Len(Tail(s)) <= Len(t)
    BY <1>1, <1>2 DEF d
  <2> QED BY <1>2, <2>1, <2>2, <2>3, SuffixMeans
<1>4. s[1] \in ToSet(s) /\ ToSet(s) \subseteq ToSet(t)
  <2>1. \A i \in 1..Len(s) : d + i \in 1..Len(t)
    BY <1>1 DEF d
  <2> QED BY <1>1, <2>1 DEF ToSet
<1>5. \A i \in 2..Len(s) : s[i] # s[1] /\ Rank(s[1].do) <= Rank(s[i].do)
  <2>1. \A i \in 2..Len(s) : d + i \in 1..Len(t) /\ d + 1 \in 1..Len(t) /\ d + 1 < d + i
    BY <1>1 DEF d
  <2> QED BY <1>1, <2>1 DEF Ordered
<1>6. ToSet(Tail(s)) = {s[i] : i \in 2..Len(s)}
  <2>1. \A i \in 2..Len(s) : i - 1 \in 1..(Len(s) - 1) /\ s[i] = Tail(s)[i - 1]
    <3> SUFFICES ASSUME NEW i \in 2..Len(s)
                 PROVE  i - 1 \in 1..(Len(s) - 1) /\ s[i] = Tail(s)[i - 1]
      OBVIOUS
    <3>1. i - 1 \in 1..(Len(s) - 1) /\ (i - 1) + 1 = i
      BY <1>1
    <3> QED BY <1>2, <3>1
  <2>2. \A i \in 1..(Len(s) - 1) : i + 1 \in 2..Len(s)
    BY <1>1
  <2>3. ToSet(Tail(s)) \subseteq {s[i] : i \in 2..Len(s)}
    BY <1>2, <2>2 DEF ToSet
  <2>4. {s[i] : i \in 2..Len(s)} \subseteq ToSet(Tail(s))
    <3> SUFFICES ASSUME NEW i \in 2..Len(s) PROVE s[i] \in ToSet(Tail(s))
      OBVIOUS
    <3>1. i - 1 \in DOMAIN Tail(s) /\ s[i] = Tail(s)[i - 1]
      BY <1>2, <2>1
    <3> QED BY <3>1 DEF ToSet
  <2> QED BY <2>3, <2>4
<1>7. ToSet(s) = {s[1]} \cup {s[i] : i \in 2..Len(s)}
  <2>1. 1..Len(s) = {1} \cup 2..Len(s)
    BY <1>1
  <2> QED BY <1>1, <2>1 DEF ToSet
<1>8. ToSet(Tail(s)) = ToSet(s) \ {s[1]}
  BY <1>5, <1>6, <1>7
<1>9. Rank(s[1].do) <= Rank(s[1].do)
  <2>1. s[1] \in Work
    BY <1>1
  <2> QED BY <2>1, RankType
<1>10. \A x \in ToSet(s) : Rank(s[1].do) <= Rank(x.do)
  BY <1>5, <1>7, <1>9
<1>11. ASSUME NEW x \in ToSet(t) \ ToSet(s)
       PROVE  Rank(x.do) <= Rank(s[1].do)
  <2>1. PICK j \in 1..Len(t) : x = t[j]
    BY <1>1 DEF ToSet
  <2>2. j <= d
    <3> SUFFICES ASSUME j > d PROVE FALSE
      BY <1>1, <2>1
    <3>1. j - d \in 1..Len(s) /\ d + (j - d) = j
      BY <1>1, <2>1 DEF d
    <3> QED BY <1>1, <2>1, <3>1 DEF ToSet
  <2>3. d + 1 \in 1..Len(t) /\ j < d + 1
    BY <1>1, <2>2 DEF d
  <2> QED BY <1>1, <2>1, <2>3, SMTT(30) DEF Ordered
<1> QED BY <1>2, <1>3, <1>4, <1>8, <1>10, <1>11

(* Tasks joined with later ones. *)
LEMMA Joined ==
  ASSUME NEW s \in Seq(Work), NEW t \in Seq(Work), Ordered(s), Ordered(t),
         \A x \in ToSet(s), y \in ToSet(t) : Rank(x.do) < Rank(y.do)
  PROVE  /\ s \o t \in Seq(Work) /\ Ordered(s \o t)
         /\ ToSet(s \o t) = ToSet(s) \cup ToSet(t)
<1> DEFINE u == s \o t
<1>1. /\ Len(s) \in Nat /\ Len(t) \in Nat
      /\ DOMAIN s = 1..Len(s) /\ DOMAIN t = 1..Len(t)
      /\ u \in Seq(Work) /\ Len(u) = Len(s) + Len(t) /\ DOMAIN u = 1..(Len(s) + Len(t))
      /\ \A i \in 1..Len(s) : u[i] = s[i]
      /\ \A i \in 1..Len(t) : u[Len(s) + i] = t[i]
  OBVIOUS
<1> HIDE DEF u
<1>2. ASSUME NEW i \in DOMAIN u
      PROVE  \/ i \in 1..Len(s) /\ u[i] = s[i] /\ s[i] \in ToSet(s)
             \/ i - Len(s) \in 1..Len(t) /\ u[i] = t[i - Len(s)] /\ u[i] \in ToSet(t)
  <2>1. CASE i <= Len(s)
    BY <1>1, <2>1 DEF ToSet
  <2>2. CASE i > Len(s)
    <3>1. i - Len(s) \in 1..Len(t) /\ Len(s) + (i - Len(s)) = i
      BY <1>1, <2>2
    <3> QED BY <1>1, <3>1 DEF ToSet
  <2> QED BY <1>1, <2>1, <2>2
<1>3. ToSet(u) = ToSet(s) \cup ToSet(t)
  <2>1. ToSet(u) \subseteq ToSet(s) \cup ToSet(t)
    BY <1>2 DEF ToSet
  <2>2. \A i \in 1..Len(s) : i \in DOMAIN u
    BY <1>1
  <2>3. \A i \in 1..Len(t) : Len(s) + i \in DOMAIN u
    BY <1>1
  <2>4. ToSet(s) \subseteq ToSet(u)
    BY <1>1, <2>2 DEF ToSet
  <2>5. ToSet(t) \subseteq ToSet(u)
    BY <1>1, <2>3 DEF ToSet
  <2> QED BY <2>1, <2>4, <2>5
<1>4. \A x \in Work : Rank(x.do) \in Nat
  BY RankType
<1>5. ASSUME NEW i \in DOMAIN u, NEW j \in DOMAIN u, i < j
      PROVE  u[i] # u[j] /\ Rank(u[i].do) <= Rank(u[j].do)
  <2>1. CASE j \in 1..Len(s)
    <3>1. i \in 1..Len(s)
      BY <1>1, <1>5, <2>1
    <3> QED BY <1>1, <1>5, <2>1, <3>1 DEF Ordered
  <2>2. CASE i \in 1..Len(s) /\ j \notin 1..Len(s)
    <3>1. u[i] \in ToSet(s) /\ u[j] \in ToSet(t)
      BY <1>1, <1>2, <2>2 DEF ToSet
    <3>2. Rank(u[i].do) < Rank(u[j].do) /\ u[i] \in Work /\ u[j] \in Work
      BY <1>1, <3>1
    <3> QED BY <1>4, <3>2
  <2>3. CASE i \notin 1..Len(s) /\ j \notin 1..Len(s)
    <3>1. /\ i - Len(s) \in 1..Len(t) /\ u[i] = t[i - Len(s)]
          /\ j - Len(s) \in 1..Len(t) /\ u[j] = t[j - Len(s)]
      BY <1>2, <2>3
    <3>2. i - Len(s) < j - Len(s)
      BY <1>1, <1>5
    <3> QED BY <1>1, <3>1, <3>2 DEF Ordered
  <2> QED BY <2>1, <2>2, <2>3
<1> QED BY <1>1, <1>3, <1>5 DEF Ordered, u


-----------------------------------------------------------------------------
(* The tasks of the actions *)

(* Tasks in order, their set, and the ranks between which they lie. *)
Stretch(s, S, lo, hi) ==
  s \in Seq(Work) /\ Ordered(s) /\ ToSet(s) = S /\ \A x \in S : Rank(x.do) \in lo..hi

(* A task by itself is a stretch. *)
LEMMA OneTask ==
  ASSUME NEW verb \in Verbs, NEW what \in Things
  PROVE  Stretch(Do(verb, what), {[do |-> verb, what |-> what]}, Rank(verb), Rank(verb))
<1>1. [do |-> verb, what |-> what] \in Work /\ Rank(verb) \in Int
  BY DEF Work, Verbs, Rank
<1>2. /\ Do(verb, what) = <<[do |-> verb, what |-> what]>>
      /\ DOMAIN Do(verb, what) = 1..1 /\ Len(Do(verb, what)) = 1
  BY DEF Do
<1>3. Do(verb, what) \in Seq(Work)
  BY <1>1, <1>2
<1>4. ToSet(Do(verb, what)) = {[do |-> verb, what |-> what]}
  BY <1>2 DEF ToSet
<1>5. Ordered(Do(verb, what))
  BY <1>2 DEF Ordered
<1>6. Rank(verb) \in Rank(verb)..Rank(verb)
  BY <1>1
<1>7. \A x \in {[do |-> verb, what |-> what]} : Rank(x.do) \in Rank(verb)..Rank(verb)
  BY <1>6
<1> QED BY <1>3, <1>4, <1>5, <1>7 DEF Stretch

(* A stretch and one of later verbs make a stretch. *)
LEMMA JoinedStretch ==
  ASSUME NEW s, NEW S, NEW t, NEW T, NEW a \in Int, NEW b \in Int, NEW c \in Int, a <= b, b < c,
         Stretch(s, S, a, b), Stretch(t, T, c, c)
  PROVE  Stretch(s \o t, S \cup T, a, c)
<1>1. \A x \in S, y \in T : Rank(x.do) < Rank(y.do)
  BY DEF Stretch
<1>2. s \o t \in Seq(Work) /\ Ordered(s \o t) /\ ToSet(s \o t) = S \cup T
  BY <1>1, Joined DEF Stretch
<1>3. \A x \in S \cup T : Rank(x.do) \in a..c
  BY DEF Stretch
<1> QED BY <1>2, <1>3 DEF Stretch

(* An application has one switch or both, each once. *)
LEMMA SwitchesAre ==
  ASSUME NEW type \in ApplicationTypes, NEW special \in BOOLEAN
  PROVE  LET s == Switches(type, special)
         IN  /\ s \in Seq({"nginx", "dubbo"})
             /\ \A i, j \in DOMAIN s : i < j => s[i] # s[j]
             /\ Len(s) > 0
<1>1. Switches(type, special) \in
        {<<"nginx">>, <<"dubbo">>, <<"nginx", "dubbo">>, <<"dubbo", "nginx">>}
  BY DEF Switches, ApplicationTypes, Web, Mod
<1>2. ASSUME NEW s, s \in {<<"nginx">>, <<"dubbo">>}
      PROVE  /\ s \in Seq({"nginx", "dubbo"})
             /\ \A i, j \in DOMAIN s : i < j => s[i] # s[j]
             /\ Len(s) > 0
  <2>1. Len(s) = 1 /\ DOMAIN s = 1..1
    BY <1>2
  <2>2. s \in Seq({"nginx", "dubbo"})
    BY <1>2
  <2> QED BY <2>1, <2>2
<1>3. ASSUME NEW s, s \in {<<"nginx", "dubbo">>, <<"dubbo", "nginx">>}
      PROVE  /\ s \in Seq({"nginx", "dubbo"})
             /\ \A i, j \in DOMAIN s : i < j => s[i] # s[j]
             /\ Len(s) > 0
  <2>1. Len(s) = 2 /\ DOMAIN s = 1..2 /\ s[1] # s[2]
    BY <1>3
  <2>2. <<"nginx", "dubbo">> \in Seq({"nginx", "dubbo"})
    OBVIOUS
  <2>3. <<"dubbo", "nginx">> \in Seq({"nginx", "dubbo"})
    OBVIOUS
  <2>4. s \in Seq({"nginx", "dubbo"})
    BY <1>3, <2>2, <2>3
  <2>5. \A i, j \in DOMAIN s : i < j => s[i] # s[j]
    BY <2>1
  <2> QED BY <2>1, <2>4, <2>5
<1> QED BY <1>1, <1>2, <1>3

(* The switches one after the other are a stretch of one verb. *)
LEMMA EachSwitch ==
  ASSUME NEW verb \in Verbs, NEW type \in ApplicationTypes, NEW special \in BOOLEAN
  PROVE  LET w == Each(verb, Switches(type, special))
         IN  /\ Stretch(w, {[do |-> verb, what |-> s] : s \in ToSet(Switches(type, special))},
                        Rank(verb), Rank(verb))
             /\ w # <<>>
<1> DEFINE s == Switches(type, special)
           w == Each(verb, s)
<1>1. /\ s \in Seq({"nginx", "dubbo"}) /\ Len(s) \in Nat /\ Len(s) > 0 /\ DOMAIN s = 1..Len(s)
      /\ \A i, j \in DOMAIN s : i < j => s[i] # s[j]
      /\ \A i \in DOMAIN s : s[i] \in Things
  BY SwitchesAre DEF Things
<1> HIDE DEF s
<1>2. /\ w = [i \in 1..Len(s) |-> [do |-> verb, what |-> s[i]]]
      /\ \A i \in 1..Len(s) : [do |-> verb, what |-> s[i]] \in Work
  BY <1>1 DEF Each, Work
<1>3. w \in Seq(Work) /\ Len(w) = Len(s) /\ DOMAIN w = 1..Len(s)
  BY <1>1, <1>2
<1>4. \A i \in DOMAIN w : w[i].do = verb /\ w[i].what = s[i] /\ w[i] = [do |-> verb, what |-> s[i]]
  BY <1>2, <1>3
<1>5. Rank(verb) \in Int /\ Rank(verb) \in Rank(verb)..Rank(verb)
  BY DEF Rank, Verbs
<1>6. Ordered(w)
  BY <1>1, <1>3, <1>4, <1>5 DEF Ordered
<1> DEFINE W == {[do |-> verb, what |-> x] : x \in ToSet(s)}
<1>7. ToSet(w) = W
  BY <1>1, <1>3, <1>4 DEF ToSet
<1>8. w # <<>>
  BY <1>1, <1>3
<1>9. \A x \in W : Rank(x.do) \in Rank(verb)..Rank(verb)
  BY <1>5
<1>10. Stretch(w, W, Rank(verb), Rank(verb))
  <2> HIDE DEF w, W
  <2> QED BY <1>3, <1>6, <1>7, <1>9 DEF Stretch
<1> QED BY <1>8, <1>10 DEF s

(* The tasks of a new version that are neither switches nor a download. *)
Plain(version) ==
  {[do |-> "backup", what |-> "log"], [do |-> "stop", what |-> "app"],
   [do |-> "link", what |-> version], [do |-> "start", what |-> "app"],
   [do |-> "update", what |-> "cmdb"]}

(* The tasks that put a version in place of the running one. *)
LEMMA ReplaceTasks ==
  ASSUME NEW type \in ApplicationTypes, NEW special \in BOOLEAN,
         NEW version \in {"rollback", "target"}
  PROVE  LET switches == ToSet(Switches(type, special))
         IN  Stretch(Replace(type, special, version),
                     Plain(version) \cup {Off(s) : s \in switches} \cup {On(s) : s \in switches},
                     2, 8)
<1> DEFINE sw == Switches(type, special)
           b == Do("backup", "log")
           d == Each("disable", sw)
           p == Do("stop", "app")
           l == Do("link", version)
           r == Do("start", "app")
           u == Do("update", "cmdb")
           e == Each("enable", sw)
           B == {[do |-> "backup", what |-> "log"]}
           D == {Off(s) : s \in ToSet(sw)}
           P == {[do |-> "stop", what |-> "app"]}
           L == {[do |-> "link", what |-> version]}
           R == {[do |-> "start", what |-> "app"]}
           U == {[do |-> "update", what |-> "cmdb"]}
           E == {On(s) : s \in ToSet(sw)}
<1>1. /\ Rank("backup") = 2 /\ Rank("disable") = 3 /\ Rank("stop") = 4 /\ Rank("link") = 5
      /\ Rank("start") = 6 /\ Rank("update") = 7 /\ Rank("enable") = 8
  BY DEF Rank
<1>2. Stretch(b, B, 2, 2)
  BY <1>1, OneTask DEF Verbs, Things
<1>3. Stretch(d, D, 3, 3)
  BY <1>1, EachSwitch DEF Verbs, Off
<1>4. Stretch(p, P, 4, 4)
  BY <1>1, OneTask DEF Verbs, Things
<1>5. Stretch(l, L, 5, 5)
  BY <1>1, OneTask DEF Verbs, Things
<1>6. Stretch(r, R, 6, 6)
  BY <1>1, OneTask DEF Verbs, Things
<1>7. Stretch(u, U, 7, 7)
  BY <1>1, OneTask DEF Verbs, Things
<1>8. Stretch(e, E, 8, 8)
  BY <1>1, EachSwitch DEF Verbs, On
<1>9. Replace(type, special, version) = b \o d \o p \o l \o r \o u \o e
  BY DEF Replace
<1>10. Plain(version) \cup D \cup E = B \cup D \cup P \cup L \cup R \cup U \cup E
  BY DEF Plain
<1> HIDE DEF b, d, p, l, r, u, e, B, D, P, L, R, U, E
<1>11. Stretch(b \o d, B \cup D, 2, 3)
  BY <1>2, <1>3, JoinedStretch
<1>12. Stretch(b \o d \o p, B \cup D \cup P, 2, 4)
  BY <1>4, <1>11, JoinedStretch
<1>13. Stretch(b \o d \o p \o l, B \cup D \cup P \cup L, 2, 5)
  BY <1>5, <1>12, JoinedStretch
<1>14. Stretch(b \o d \o p \o l \o r, B \cup D \cup P \cup L \cup R, 2, 6)
  BY <1>6, <1>13, JoinedStretch
<1>15. Stretch(b \o d \o p \o l \o r \o u, B \cup D \cup P \cup L \cup R \cup U, 2, 7)
  BY <1>7, <1>14, JoinedStretch
<1>16. Stretch(b \o d \o p \o l \o r \o u \o e, B \cup D \cup P \cup L \cup R \cup U \cup E, 2, 8)
  BY <1>8, <1>15, JoinedStretch
<1>17. Stretch(Replace(type, special, version), Plain(version) \cup D \cup E, 2, 8)
  BY <1>9, <1>10, <1>16
<1> QED BY <1>17 DEF D, E

(* The version an action puts in place. *)
VersionOf(action) == IF action = Publish THEN "target" ELSE "rollback"

(* The tasks of an action, in the order of their verbs, each once. *)
LEMMA TasksAre ==
  ASSUME NEW type \in ApplicationTypes, NEW special \in BOOLEAN, NEW action \in WithTasks
  PROVE  LET w == Tasks(action, type, special)
             switches == ToSet(Switches(type, special))
         IN  /\ w \in Seq(Work) /\ Ordered(w) /\ w # <<>>
             /\ action \in {Publish, Rollback} =>
                  /\ \A x \in ToSet(w) :
                       \/ x = [do |-> "download", what |-> "package"]
                       \/ x \in Plain(VersionOf(action))
                       \/ \E s \in switches : x = Off(s) \/ x = On(s)
                  /\ Plain(VersionOf(action)) \subseteq ToSet(w)
                  /\ \A s \in switches : Off(s) \in ToSet(w) /\ On(s) \in ToSet(w)
             /\ action \in {StopFlow, RollbackStop} => ToSet(w) = {Off(s) : s \in switches}
             /\ action = RestoreFlow => ToSet(w) = {On(s) : s \in switches}
             /\ action = Publish => w[1].do = "download"
<1> DEFINE w == Tasks(action, type, special)
<1> USE DEF Publish, StopFlow, Rollback, RestoreFlow, RollbackStop, WithTasks
<1> DEFINE switches == ToSet(Switches(type, special))
           T(version) == Plain(version) \cup {Off(s) : s \in switches} \cup {On(s) : s \in switches}
<1>1. CASE action = Publish
  <2> DEFINE d == Do("download", "package")
             r == Replace(type, special, "target")
             D == {[do |-> "download", what |-> "package"]}
  <2>1. Stretch(d, D, 1, 1) /\ Len(d) = 1 /\ d[1].do = "download"
    <3>1. Rank("download") = 1
      BY DEF Rank
    <3> QED BY <3>1, OneTask DEF Verbs, Things, Do
  <2>2. Stretch(r, T("target"), 2, 8)
    BY ReplaceTasks
  <2>3. w = d \o r
    BY <1>1 DEF Tasks
  <2>7. VersionOf(action) = "target"
    BY <1>1 DEF VersionOf
  <2> HIDE DEF d, r, w, D, T
  <2>5. w \in Seq(Work) /\ Ordered(w) /\ ToSet(w) = D \cup T("target")
    <3>1. \A x \in D, y \in T("target") : Rank(x.do) < Rank(y.do)
      BY <2>1, <2>2 DEF Stretch
    <3> QED BY <2>1, <2>2, <2>3, <3>1, Joined DEF Stretch
  <2>6. w # <<>> /\ w[1].do = "download"
    BY <2>1, <2>2, <2>3 DEF Stretch
  <2> QED BY <1>1, <2>5, <2>6, <2>7 DEF w, D, T
<1>2. CASE action = Rollback
  <2>1. w = Replace(type, special, "rollback") /\ VersionOf(action) = "rollback"
    BY <1>2 DEF Tasks, VersionOf
  <2>2. w \in Seq(Work) /\ Ordered(w) /\ ToSet(w) = T("rollback")
    BY <2>1, ReplaceTasks DEF Stretch
  <2>3. w # <<>>
    <3>1. [do |-> "backup", what |-> "log"] \in ToSet(w)
      BY <2>2 DEF Plain
    <3> QED BY <3>1 DEF ToSet
  <2> HIDE DEF w
  <2> QED BY <1>2, <2>1, <2>2, <2>3 DEF w, T
<1>3. CASE action \in {StopFlow, RollbackStop}
  <2>1. w = Each("disable", Switches(type, special))
    BY <1>3 DEF Tasks
  <2> QED BY <1>3, <2>1, EachSwitch DEF Off, Verbs, Stretch
<1>4. CASE action = RestoreFlow
  <2>1. w = Each("enable", Switches(type, special))
    BY <1>4 DEF Tasks
  <2> QED BY <1>4, <2>1, EachSwitch DEF On, Verbs, Stretch
<1> QED BY <1>1, <1>2, <1>3, <1>4

(* Only of switches an action has more than one task of a verb. *)
LEMMA OneOfAVerb ==
  ASSUME NEW type \in ApplicationTypes, NEW special \in BOOLEAN, NEW action \in {Publish, Rollback},
         NEW x \in ToSet(Tasks(action, type, special)),
         NEW y \in ToSet(Tasks(action, type, special)),
         Rank(x.do) = Rank(y.do), Rank(x.do) \notin {3, 8}
  PROVE  x = y
<1>1. /\ Rank("download") = 1 /\ Rank("backup") = 2 /\ Rank("disable") = 3 /\ Rank("stop") = 4
      /\ Rank("link") = 5 /\ Rank("start") = 6 /\ Rank("update") = 7 /\ Rank("enable") = 8
  BY DEF Rank
<1>2. \A z \in {x, y} :
        \/ z = [do |-> "download", what |-> "package"]
        \/ z \in Plain(VersionOf(action))
        \/ \E s \in ToSet(Switches(type, special)) : z = Off(s) \/ z = On(s)
  BY TasksAre DEF WithTasks
<1>3. \A z \in {x, y} : Rank(z.do) \notin {3, 8} =>
        z = [do |-> "download", what |-> "package"] \/ z \in Plain(VersionOf(action))
  BY <1>1, <1>2 DEF Off, On
<1> QED BY <1>1, <1>3 DEF Plain

(* What a chain has come to, and what it comes to when a task has succeeded. *)
LEMMA NextStage ==
  ASSUME NEW type \in ApplicationTypes, NEW special \in BOOLEAN, NEW action \in WithTasks,
         NEW s \in Seq(Work), IsSuffix(s, Tasks(action, type, special)), s # <<>>
  PROVE  LET all == ToSet(Tasks(action, type, special))
             switches == ToSet(Switches(type, special))
             rest == Tail(s)
         IN  /\ rest \in Seq(Work) /\ IsSuffix(rest, Tasks(action, type, special))
             /\ s[1] \in all /\ s[1] \in Work /\ s[1] \in ToSet(s)
             /\ ToSet(rest) = ToSet(s) \ {s[1]}
             /\ Stage(s) \in 1..8
             /\ action \in {Publish, Rollback} =>
                  /\ Stage(s) \notin {3, 8} => Stage(rest) = Stage(s) + 1
                  /\ Stage(s) = 3 => Stage(rest) \in {3, 4}
                  /\ Stage(s) = 8 => Stage(rest) \in {8, 9}
                  /\ Stage(s) > 3 => \A w \in switches : Off(w) \notin ToSet(s)
                  /\ Stage(s) < 8 => \A w \in switches : On(w) \in ToSet(s)
                  /\ s[1].do = "link" => s[1].what = VersionOf(action)
             /\ action \in {StopFlow, RollbackStop} => Stage(s) = 3 /\ Stage(rest) \in {3, 9}
             /\ action = RestoreFlow => Stage(s) = 8 /\ Stage(rest) \in {8, 9}
             /\ s[1].do = "disable" => s[1].what \in switches /\ s[1] = Off(s[1].what)
             /\ s[1].do = "enable" => s[1].what \in switches /\ s[1] = On(s[1].what)
<1> DEFINE t == Tasks(action, type, special)
           all == ToSet(t)
           switches == ToSet(Switches(type, special))
           rest == Tail(s)
           V == VersionOf(action)
<1>1. /\ Rank("download") = 1 /\ Rank("backup") = 2 /\ Rank("disable") = 3 /\ Rank("stop") = 4
      /\ Rank("link") = 5 /\ Rank("start") = 6 /\ Rank("update") = 7 /\ Rank("enable") = 8
  BY DEF Rank
<1>2. /\ t \in Seq(Work) /\ Ordered(t)
      /\ action \in {Publish, Rollback} =>
           /\ \A x \in all :
                \/ x = [do |-> "download", what |-> "package"]
                \/ x \in Plain(V)
                \/ \E w \in switches : x = Off(w) \/ x = On(w)
           /\ Plain(V) \subseteq all
           /\ \A w \in switches : Off(w) \in all /\ On(w) \in all
      /\ action \in {StopFlow, RollbackStop} => all = {Off(w) : w \in switches}
      /\ action = RestoreFlow => all = {On(w) : w \in switches}
  BY TasksAre
<1>3. IsSuffix(s, t)
  OBVIOUS
<1>4. \E w \in switches : TRUE
  BY SwitchesAre DEF ToSet
<1>20. \A x \in all, y \in all :
         action \in {Publish, Rollback} /\ Rank(x.do) = Rank(y.do) /\ Rank(x.do) \notin {3, 8} => x = y
  BY OneOfAVerb
<1> HIDE DEF t, switches, V
<1>5. /\ rest \in Seq(Work) /\ IsSuffix(rest, t)
      /\ s[1] \in ToSet(s) /\ ToSet(s) \subseteq all
      /\ ToSet(rest) = ToSet(s) \ {s[1]}
      /\ \A x \in ToSet(s) : Rank(s[1].do) <= Rank(x.do)
      /\ \A x \in all \ ToSet(s) : Rank(x.do) <= Rank(s[1].do)
  BY <1>2, <1>3, WhatIsLeft
<1>6. s[1] \in all /\ s[1] \in Work /\ Stage(s) = Rank(s[1].do) /\ Stage(s) \in 1..8
  <2>1. s[1] \in Work
    BY <1>5 DEF ToSet
  <2> QED BY <1>5, <2>1, RankType DEF Stage
<1>7. rest # <<>> =>
        /\ rest[1] \in ToSet(rest) /\ Stage(rest) = Rank(rest[1].do)
        /\ \A x \in ToSet(rest) : Stage(rest) <= Rank(x.do)
        /\ Stage(s) <= Stage(rest)
        /\ Stage(rest) \in 1..8
        /\ rest[1] \in all /\ rest[1] # s[1]
  <2> SUFFICES ASSUME rest # <<>>
               PROVE  /\ rest[1] \in ToSet(rest) /\ Stage(rest) = Rank(rest[1].do)
                      /\ \A x \in ToSet(rest) : Stage(rest) <= Rank(x.do)
                      /\ Stage(s) <= Stage(rest)
                      /\ Stage(rest) \in 1..8
                      /\ rest[1] \in all /\ rest[1] # s[1]
    OBVIOUS
  <2> HIDE DEF rest
  <2>1. /\ rest[1] \in ToSet(rest)
        /\ \A x \in ToSet(rest) : Rank(rest[1].do) <= Rank(x.do)
    BY <1>2, <1>5, WhatIsLeft
  <2>2. Stage(rest) = Rank(rest[1].do)
    BY DEF Stage
  <2>3. rest[1] \in Work
    BY <1>5
  <2> QED BY <1>5, <1>6, <2>1, <2>2, <2>3, RankType
<1>8. rest = <<>> => ToSet(rest) = {} /\ Stage(rest) = 9
  BY DEF ToSet, Stage, Over
<1>9. \A x \in all : Rank(x.do) > Stage(s) => x \in ToSet(rest)
  <2>1. \A x \in all : x \in Work
    BY <1>2 DEF ToSet
  <2>2. \A x \in all : Rank(x.do) \in 1..8
    BY <2>1, RankType
  <2> QED BY <1>5, <1>6, <2>2
<1> HIDE DEF rest, all
<1>10. ASSUME action \in {Publish, Rollback}
       PROVE  \A k \in 2..8 : \E x \in all : Rank(x.do) = k
  <2>1. /\ \E x \in Plain(V) : x.do = "backup"
        /\ \E x \in Plain(V) : x.do = "stop"
        /\ \E x \in Plain(V) : x.do = "link"
        /\ \E x \in Plain(V) : x.do = "start"
        /\ \E x \in Plain(V) : x.do = "update"
    BY DEF Plain
  <2>2. (\E x \in all : x.do = "disable") /\ (\E x \in all : x.do = "enable")
    BY <1>2, <1>4, <1>10 DEF Off, On
  <2>3. Plain(V) \subseteq all
    BY <1>2, <1>10
  <2>4. /\ \E x \in all : Rank(x.do) = 2
        /\ \E x \in all : Rank(x.do) = 3
        /\ \E x \in all : Rank(x.do) = 4
        /\ \E x \in all : Rank(x.do) = 5
        /\ \E x \in all : Rank(x.do) = 6
        /\ \E x \in all : Rank(x.do) = 7
        /\ \E x \in all : Rank(x.do) = 8
    BY <1>1, <2>1, <2>2, <2>3
  <2> QED BY <2>4
<1>11. ASSUME action \in {Publish, Rollback}
       PROVE  /\ Stage(s) \notin {3, 8} => Stage(rest) = Stage(s) + 1
              /\ Stage(s) = 3 => Stage(rest) \in {3, 4}
              /\ Stage(s) = 8 => Stage(rest) \in {8, 9}
  <2>1. ASSUME Stage(s) # 8
        PROVE  rest # <<>> /\ Stage(rest) <= Stage(s) + 1 /\ Stage(rest) \in 1..8
    <3>1. PICK x \in all : Rank(x.do) = Stage(s) + 1
      BY <1>6, <1>10, <1>11, <2>1
    <3>2. x \in ToSet(rest)
      BY <1>6, <1>9, <3>1
    <3> QED BY <1>7, <1>8, <3>1, <3>2
  <2>2. ASSUME Stage(s) \notin {3, 8} PROVE Stage(rest) # Stage(s)
    <3>1. rest # <<>>
      BY <2>1, <2>2
    <3> QED BY <1>6, <1>7, <1>11, <1>20, <2>2, <3>1
  <2>3. rest # <<>> => Stage(s) <= Stage(rest)
    BY <1>7
  <2> QED BY <1>6, <1>7, <1>8, <2>1, <2>2, <2>3
<1>12. \A w \in switches : Off(w).do = "disable" /\ On(w).do = "enable"
  BY DEF Off, On
<1>13. ASSUME action \in {Publish, Rollback}
       PROVE  /\ Stage(s) > 3 => \A w \in switches : Off(w) \notin ToSet(s)
              /\ Stage(s) < 8 => \A w \in switches : On(w) \in ToSet(s)
  BY <1>1, <1>2, <1>5, <1>6, <1>9, <1>12, <1>13
<1>14. action \in {Publish, Rollback} /\ s[1].do = "link" => s[1].what = V
  BY <1>2, <1>6 DEF Plain, Off, On
<1>15. action \in {StopFlow, RollbackStop} => Stage(s) = 3 /\ Stage(rest) \in {3, 9}
  BY <1>1, <1>2, <1>6, <1>7, <1>8, <1>12
<1>16. action = RestoreFlow => Stage(s) = 8 /\ Stage(rest) \in {8, 9}
  BY <1>1, <1>2, <1>6, <1>7, <1>8, <1>12
<1>17. /\ s[1].do = "disable" => s[1].what \in switches /\ s[1] = Off(s[1].what)
       /\ s[1].do = "enable" => s[1].what \in switches /\ s[1] = On(s[1].what)
  <2>1. CASE action \in {Publish, Rollback}
    BY <1>2, <1>6, <2>1 DEF Plain, Off, On
  <2>2. CASE action \in {StopFlow, RollbackStop, RestoreFlow}
    BY <1>2, <1>6, <2>2 DEF Off, On
  <2> QED BY <2>1, <2>2 DEF WithTasks
<1> QED BY <1>5, <1>6, <1>11, <1>13, <1>14, <1>15, <1>16, <1>17 DEF t, all, switches, rest, V

-----------------------------------------------------------------------------
(* The inductive invariant *)

(* How far the chain under way has come, and the version it puts in place. *)
Past(verb) == Stage(todo) > Rank(verb)
At(verb) == Stage(todo) = Rank(verb)
Version == VersionOf(last)

(* What is under way is the rest of the action begun last. *)
Chain ==
  /\ todo \in Seq(Work)
  /\ IF last = None THEN todo = <<>>
     ELSE last \in WithTasks /\ IsSuffix(todo, Tasks(last, app.type, app.special))

(* The machine in the midst of an action that changes its version: there is no
   traffic from the last switch to the start, and what an attempt that has
   failed may have done is what the task would do. *)
Replacing ==
  last \in {Publish, Rollback} =>
    /\ ~Past("stop") => running = link \/ (At("stop") /\ running = None)
    /\ At("link") => running = None
    /\ Past("stop") => running \in {None, Version}
    /\ Past("link") => link = Version
    /\ Past("start") => running = Version
    /\ Past("update") => cmdb = Version
    /\ last = Publish /\ ~Past("start") => cmdb = "rollback"
    /\ ~Past("start") => \A s \in flow \ Missed : Off(s) \in ToSet(todo)
    /\ \A s \in ToSet(Mine) \ Missed : On(s) \in ToSet(todo) \/ s \in flow

(* An action that only switches traffic leaves a process that runs what the
   link names. *)
Switching ==
  last \notin {Publish, Rollback} =>
    /\ running = link
    /\ last \in {None, StopFlow, RestoreFlow} => running = "rollback" /\ cmdb = "rollback"
    /\ last \in {StopFlow, RollbackStop} => \A s \in flow \ Missed : Off(s) \in ToSet(todo)
    /\ last = RestoreFlow => \A s \in ToSet(Mine) \ Missed : On(s) \in ToSet(todo) \/ s \in flow

(* What the machine is like, whatever action is under way. *)
MachineOK ==
  /\ dir \in [Versions -> {"absent", "broken", "complete"}]
  /\ link \in Versions /\ running \in Versions \cup {None} /\ cmdb \in Versions
  /\ flow \subseteq ToSet(Mine)
  /\ Replacing /\ Switching

(* A script that has outlived its task is one of the task that comes next. *)
Late == late = {} \/ (todo # <<>> /\ late = {todo[1]} /\ wish = None /\ looks = 0)

(* A wish with dubbo-admin is that of the task that comes next, or changes
   nothing any more; while a task looks, it is this task's. *)
Asks(verb) == todo # <<>> /\ todo[1].do = verb /\ What = "dubbo"
Wishes ==
  /\ wish \in {TRUE, FALSE, None} /\ looks \in 0..Looks
  /\ wish = TRUE => "dubbo" \in flow \/ Asks("enable")
  /\ wish = FALSE => "dubbo" \notin flow \/ Asks("disable")
  /\ wish # None => "dubbo" \in ToSet(Mine)
  /\ looks > 0 =>
       /\ late = {}
       /\ \/ Asks("enable") /\ (wish = TRUE \/ (wish = None /\ "dubbo" \in flow))
          \/ Asks("disable") /\ (wish = FALSE \/ (wish = None /\ "dubbo" \notin flow))

(* The application and the flag of a failure. *)
AppOK ==
  app \in [type : ApplicationTypes, special : BOOLEAN] /\ failed \in BOOLEAN /\ missed \in BOOLEAN

(* The inductive invariant. *)
HostInv == AppOK /\ Chain /\ MachineOK /\ Late /\ Wishes

-----------------------------------------------------------------------------
(* Lemmas of the invariant *)

(* The ranks of the verbs. *)
LEMMA Ranks ==
  /\ Rank("download") = 1 /\ Rank("backup") = 2 /\ Rank("disable") = 3 /\ Rank("stop") = 4
  /\ Rank("link") = 5 /\ Rank("start") = 6 /\ Rank("update") = 7 /\ Rank("enable") = 8
BY DEF Rank

(* The actions, the versions and None differ from each other. *)
LEMMA ActionsAre ==
  /\ WithTasks = {Publish, StopFlow, Rollback, RestoreFlow, RollbackStop}
  /\ Publish \notin {StopFlow, Rollback, RestoreFlow, RollbackStop, None}
  /\ StopFlow \notin {Rollback, RestoreFlow, RollbackStop, None}
  /\ Rollback \notin {RestoreFlow, RollbackStop, None}
  /\ RestoreFlow \notin {RollbackStop, None}
  /\ RollbackStop # None
  /\ None \notin Versions
BY NoneAssumption DEF WithTasks, Publish, StopFlow, Rollback, RestoreFlow, RollbackStop, Versions

(* What is known of the chain under way. *)
LEMMA UnderWay ==
  ASSUME AppOK, Chain, todo # <<>>
  PROVE  LET rest == Tail(todo)
         IN  /\ last \in WithTasks /\ last # None
             /\ rest \in Seq(Work) /\ IsSuffix(rest, Tasks(last, app.type, app.special))
             /\ todo[1] \in ToSet(Tasks(last, app.type, app.special))
             /\ todo[1] \in Work /\ todo[1] \in ToSet(todo)
             /\ ToSet(rest) = ToSet(todo) \ {todo[1]}
             /\ Stage(todo) \in 1..8 /\ Stage(todo) = Rank(todo[1].do)
             /\ last \in {Publish, Rollback} =>
                  /\ Stage(todo) \notin {3, 8} => Stage(rest) = Stage(todo) + 1
                  /\ Stage(todo) = 3 => Stage(rest) \in {3, 4}
                  /\ Stage(todo) = 8 => Stage(rest) \in {8, 9}
                  /\ Stage(todo) > 3 => \A w \in ToSet(Mine) : Off(w) \notin ToSet(todo)
                  /\ Stage(todo) < 8 => \A w \in ToSet(Mine) : On(w) \in ToSet(todo)
                  /\ todo[1].do = "link" => What = Version
             /\ last \in {StopFlow, RollbackStop} => Stage(todo) = 3 /\ Stage(rest) \in {3, 9}
             /\ last = RestoreFlow => Stage(todo) = 8 /\ Stage(rest) \in {8, 9}
             /\ todo[1].do = "disable" => What \in ToSet(Mine) /\ todo[1] = Off(What)
             /\ todo[1].do = "enable" => What \in ToSet(Mine) /\ todo[1] = On(What)
<1>1. /\ last \in WithTasks /\ last # None /\ todo \in Seq(Work)
      /\ IsSuffix(todo, Tasks(last, app.type, app.special))
  BY ActionsAre DEF Chain
<1>2. app.type \in ApplicationTypes /\ app.special \in BOOLEAN
  BY DEF AppOK
<1>3. Stage(todo) = Rank(todo[1].do)
  BY DEF Stage
<1> QED BY <1>1, <1>2, <1>3, NextStage DEF Mine, What, Version

(* An action begins before its first switch, with everything to do. *)
LEMMA FirstStage ==
  ASSUME NEW type \in ApplicationTypes, NEW special \in BOOLEAN, NEW action \in WithTasks
  PROVE  LET w == Tasks(action, type, special)
             switches == ToSet(Switches(type, special))
         IN  /\ w \in Seq(Work) /\ w # <<>> /\ IsSuffix(w, w)
             /\ action \in {Publish, Rollback} =>
                  /\ Stage(w) <= 3 /\ Stage(w) \in Int
                  /\ \A s \in switches : Off(s) \in ToSet(w) /\ On(s) \in ToSet(w)
             /\ action \in {StopFlow, RollbackStop} => \A s \in switches : Off(s) \in ToSet(w)
             /\ action = RestoreFlow => \A s \in switches : On(s) \in ToSet(w)
<1> DEFINE w == Tasks(action, type, special)
           switches == ToSet(Switches(type, special))
<1>1. /\ w \in Seq(Work) /\ Ordered(w) /\ w # <<>>
      /\ action \in {Publish, Rollback} =>
           /\ Plain(VersionOf(action)) \subseteq ToSet(w)
           /\ \A s \in switches : Off(s) \in ToSet(w) /\ On(s) \in ToSet(w)
      /\ action \in {StopFlow, RollbackStop} => ToSet(w) = {Off(s) : s \in switches}
      /\ action = RestoreFlow => ToSet(w) = {On(s) : s \in switches}
  BY TasksAre
<1> HIDE DEF w, switches
<1>2. IsSuffix(w, w)
  <2>1. \A i \in 1..Len(w) : w[i] = w[Len(w) - Len(w) + i]
    BY <1>1
  <2> QED BY <1>1, <2>1, SuffixMeans
<1>3. ASSUME action \in {Publish, Rollback} PROVE Stage(w) <= 3 /\ Stage(w) \in Int
  <2>1. \A x \in ToSet(w) : Rank(w[1].do) <= Rank(x.do)
    BY <1>1, <1>2, WhatIsLeft
  <2>2. [do |-> "backup", what |-> "log"] \in ToSet(w)
    BY <1>1, <1>3 DEF Plain
  <2>3. w[1] \in Work
    BY <1>1
  <2>4. Rank(w[1].do) <= 2 /\ Rank(w[1].do) \in 1..8
    BY <2>1, <2>2, <2>3, Ranks, RankType
  <2> QED BY <1>1, <2>4 DEF Stage
<1> QED BY <1>1, <1>2, <1>3 DEF w, switches

(* What a script does to the machine, by the task it belongs to. *)
Effect ==
  \/ todo[1].do = "download" /\ Downloaded
  \/ todo[1].do = "backup" /\ UNCHANGED machine
  \/ todo[1].do = "stop" /\ Stopped
  \/ todo[1].do = "link" /\ Linked(What)
  \/ todo[1].do = "start" /\ Started
  \/ todo[1].do = "update" /\ Updated
  \/ todo[1].do = "disable" /\ Switched(What, FALSE)
  \/ todo[1].do = "enable" /\ Switched(What, TRUE)

(* The task that comes next is the dubbo switch. *)
IsDubbo == What = "dubbo" /\ todo[1].do \in {"enable", "disable"}

(* A script has its effect; the dubbo switch is made; or it is passed over. *)
HasEffect ==
  \/ Effect /\ missed' = missed
  \/ Effect /\ IsDubbo /\ missed' = FALSE
  \/ UNCHANGED machine /\ IsDubbo /\ missed' = TRUE

(* The effect of the task that comes next keeps what is known of the machine,
   whether the task is then done or is to be repeated. *)
LEMMA EffectKeeps ==
  ASSUME HostInv, todo # <<>>, HasEffect, UNCHANGED <<app, last>>, todo' \in {todo, Tail(todo)}
  PROVE  MachineOK'
<1> DEFINE rest == Tail(todo)
<1>1. /\ last \in WithTasks /\ last # None
      /\ todo[1] \in Work /\ todo[1] \in ToSet(todo)
      /\ ToSet(rest) = ToSet(todo) \ {todo[1]}
      /\ Stage(todo) \in 1..8 /\ Stage(todo) = Rank(todo[1].do)
      /\ last \in {Publish, Rollback} =>
           /\ Stage(todo) \notin {3, 8} => Stage(rest) = Stage(todo) + 1
           /\ Stage(todo) = 3 => Stage(rest) \in {3, 4}
           /\ Stage(todo) = 8 => Stage(rest) \in {8, 9}
           /\ Stage(todo) > 3 => \A w \in ToSet(Mine) : Off(w) \notin ToSet(todo)
           /\ Stage(todo) < 8 => \A w \in ToSet(Mine) : On(w) \in ToSet(todo)
           /\ todo[1].do = "link" => What = Version
      /\ last \in {StopFlow, RollbackStop} => Stage(todo) = 3
      /\ last = RestoreFlow => Stage(todo) = 8
      /\ todo[1].do = "disable" => What \in ToSet(Mine) /\ todo[1] = Off(What)
      /\ todo[1].do = "enable" => What \in ToSet(Mine) /\ todo[1] = On(What)
  BY UnderWay DEF HostInv
<1>2. /\ todo' = todo \/ todo' = rest
      /\ app' = app /\ last' = last /\ Mine' = Mine /\ Version' = Version
      /\ ToSet(todo)' = ToSet(todo) \/ ToSet(todo)' = ToSet(todo) \ {todo[1]}
      /\ Stage(todo)' = Stage(todo) \/ Stage(todo)' = Stage(rest)
  BY <1>1 DEF Mine, Version
<1>3. MachineOK
  BY DEF HostInv
<1>4. todo[1].do \in Verbs /\ Version \in Versions /\ None \notin Versions
  BY <1>1, ActionsAre DEF Work, Version, VersionOf, Versions
<1>20. /\ \A w : Off(w).do = "disable" /\ On(w).do = "enable"
       /\ \A v, w : Off(v) # On(w)
       /\ \A v, w : Off(v) = Off(w) => v = w
       /\ \A v, w : On(v) = On(w) => v = w
  <2>1. \A v : Off(v).what = v /\ On(v).what = v /\ Off(v).do = "disable" /\ On(v).do = "enable"
    BY DEF Off, On
  <2>2. \A v, w : Off(v) = Off(w) => v = w
    <3> SUFFICES ASSUME NEW v, NEW w, Off(v) = Off(w) PROVE v = w
      OBVIOUS
    <3> QED BY <2>1
  <2>3. \A v, w : On(v) = On(w) => v = w
    <3> SUFFICES ASSUME NEW v, NEW w, On(v) = On(w) PROVE v = w
      OBVIOUS
    <3> QED BY <2>1
  <2>4. \A v, w : Off(v) # On(w)
    <3> SUFFICES ASSUME NEW v, NEW w, Off(v) = On(w) PROVE FALSE
      OBVIOUS
    <3> QED BY <2>1
  <2> QED BY <2>1, <2>2, <2>3, <2>4
(* What a switch does to the traffic, and which tasks of switches remain. *)
<1>21. ASSUME todo[1].do = "disable"
       PROVE  /\ flow' \subseteq flow /\ UNCHANGED <<dir, link, running, cmdb>>
              /\ (\A s \in flow \ Missed : Off(s) \in ToSet(todo))
                   => \A s \in flow' \ Missed' : Off(s) \in ToSet(todo)'
              /\ \A s : On(s) \in ToSet(todo) => On(s) \in ToSet(todo)'
  <2>1. /\ flow' \subseteq flow /\ UNCHANGED <<dir, link, running, cmdb>> /\ todo[1] = Off(What)
        /\ flow' \ Missed' \subseteq (flow \ Missed) \ {What}
    <3>1. CASE Effect
      <4>1. flow' = flow \ {What} /\ UNCHANGED <<dir, link, running, cmdb>> /\ todo[1] = Off(What)
        BY <1>1, <1>21, <3>1 DEF Effect, Switched
      <4>2. Missed \subseteq Missed' \cup {What}
        BY DEF HasEffect, Missed, IsDubbo
      <4> QED BY <4>1, <4>2
    <3>2. CASE UNCHANGED machine /\ IsDubbo /\ missed' = TRUE
      BY <1>1, <1>21, <3>2 DEF Missed, IsDubbo, machine
    <3> QED BY <3>1, <3>2 DEF HasEffect
  <2>2. ASSUME NEW s \in flow' \ Missed', \A x \in flow \ Missed : Off(x) \in ToSet(todo)
        PROVE  Off(s) \in ToSet(todo)'
    <3>1. Off(s) # todo[1] /\ Off(s) \in ToSet(todo)
      BY <1>20, <2>1, <2>2
    <3> QED BY <1>2, <3>1
  <2>3. ASSUME NEW s, On(s) \in ToSet(todo)
        PROVE  On(s) \in ToSet(todo)'
    <3>1. On(s) # todo[1]
      BY <1>20, <2>1
    <3> QED BY <1>2, <2>3, <3>1
  <2> QED BY <2>1, <2>2, <2>3
<1>22. ASSUME todo[1].do = "enable"
       PROVE  /\ flow' \subseteq ToSet(Mine) \cup flow /\ UNCHANGED <<dir, link, running, cmdb>>
              /\ flow \subseteq flow'
              /\ (\A s \in ToSet(Mine) \ Missed : On(s) \in ToSet(todo) \/ s \in flow)
                   => \A s \in ToSet(Mine) \ Missed' : On(s) \in ToSet(todo)' \/ s \in flow'
  <2>1. /\ flow \subseteq flow' /\ flow' \subseteq ToSet(Mine) \cup flow
        /\ UNCHANGED <<dir, link, running, cmdb>>
        /\ todo[1] = On(What)
        /\ What \in flow' \/ What \in Missed'
        /\ Missed \subseteq Missed' \cup {What}
    <3>1. CASE Effect
      <4>1. /\ flow' = flow \cup {What} /\ UNCHANGED <<dir, link, running, cmdb>>
            /\ todo[1] = On(What) /\ What \in ToSet(Mine)
        BY <1>1, <1>22, <3>1 DEF Effect, Switched
      <4>2. Missed \subseteq Missed' \cup {What}
        BY DEF HasEffect, Missed, IsDubbo
      <4> QED BY <4>1, <4>2
    <3>2. CASE UNCHANGED machine /\ IsDubbo /\ missed' = TRUE
      BY <1>1, <1>22, <3>2 DEF Missed, IsDubbo, machine
    <3> QED BY <3>1, <3>2 DEF HasEffect
  <2>2. ASSUME NEW s \in ToSet(Mine) \ Missed',
               \A x \in ToSet(Mine) \ Missed : On(x) \in ToSet(todo) \/ x \in flow
        PROVE  On(s) \in ToSet(todo)' \/ s \in flow'
    <3>1. CASE s = What
      BY <2>1, <2>2, <3>1
    <3>2. CASE s # What
      <4>1. On(s) # todo[1] /\ s \notin Missed
        BY <1>20, <2>1, <2>2, <3>2
      <4> QED BY <1>2, <2>1, <2>2, <4>1
    <3> QED BY <3>1, <3>2
  <2> QED BY <2>1, <2>2
<1>23. todo[1].do \notin {"disable", "enable"} => Effect /\ Missed' = Missed
  BY DEF HasEffect, IsDubbo, Missed
<1>24. Missed \subseteq {"dubbo"}
  BY DEF Missed
<1> HIDE DEF rest
<1>5. /\ dir' \in [Versions -> {"absent", "broken", "complete"}]
      /\ link' \in Versions /\ running' \in Versions \cup {None} /\ cmdb' \in Versions
      /\ flow' \subseteq ToSet(Mine)'
  <2> USE <1>1, <1>2, <1>3, <1>4, <1>23, Ranks
  <2>1. CASE todo[1].do = "download"
    BY <2>1 DEF Effect, MachineOK, Downloaded, Versions
  <2>2. CASE todo[1].do = "backup"
    BY <2>2 DEF Effect, MachineOK, machine
  <2>3. CASE todo[1].do = "stop"
    BY <2>3 DEF Effect, MachineOK, Stopped
  <2>4. CASE todo[1].do = "link"
    <3>1. What \in Versions
      BY <2>4, ActionsAre DEF WithTasks
    <3> QED BY <2>4, <3>1 DEF Effect, MachineOK, Linked
  <2>5. CASE todo[1].do = "start"
    BY <2>5 DEF Effect, MachineOK, Started
  <2>6. CASE todo[1].do = "update"
    BY <2>6 DEF Effect, MachineOK, Updated
  <2>7. CASE todo[1].do \in {"disable", "enable"}
    BY <1>21, <1>22, <2>7 DEF MachineOK
  <2> QED BY <2>1, <2>2, <2>3, <2>4, <2>5, <2>6, <2>7 DEF Verbs
<1>6. ASSUME last \in {Publish, Rollback}
      PROVE  Replacing'
  <2>1. /\ ~Past("stop") => running = link \/ (At("stop") /\ running = None)
        /\ At("link") => running = None
        /\ Past("stop") => running \in {None, Version}
        /\ Past("link") => link = Version
        /\ Past("start") => running = Version
        /\ Past("update") => cmdb = Version
        /\ last = Publish /\ ~Past("start") => cmdb = "rollback"
        /\ ~Past("start") => \A s \in flow \ Missed : Off(s) \in ToSet(todo)
        /\ \A s \in ToSet(Mine) \ Missed : On(s) \in ToSet(todo) \/ s \in flow
        /\ flow \subseteq ToSet(Mine)
    BY <1>3, <1>6 DEF MachineOK, Replacing
  <2>2. /\ Stage(todo)' = Stage(todo) \/ Stage(todo)' = Stage(todo) + 1 \/ Stage(todo) \in {3, 8}
        /\ Stage(todo) = 3 => Stage(todo)' \in {3, 4}
        /\ Stage(todo) = 8 => Stage(todo)' \in {8, 9}
        /\ Stage(todo) > 3 => \A w \in ToSet(Mine) : Off(w) \notin ToSet(todo)
        /\ Stage(todo) < 8 => \A w \in ToSet(Mine) : On(w) \in ToSet(todo)
    BY <1>1, <1>2, <1>6
  <2>3. \A w : Off(w).do = "disable" /\ On(w).do = "enable"
    BY <1>20
  <2> USE <1>1, <1>2, <1>4, <1>23, <2>1, <2>2, Ranks
  <2>4. CASE todo[1].do = "download"
    BY <2>3, <2>4 DEF Effect, Replacing, Past, At, Downloaded
  <2>5. CASE todo[1].do = "backup"
    BY <2>3, <2>5 DEF Effect, Replacing, Past, At, machine
  <2>6. CASE todo[1].do = "stop"
    BY <2>3, <2>6 DEF Effect, Replacing, Past, At, Stopped
  <2>7. CASE todo[1].do = "link"
    BY <2>3, <2>7, <1>6 DEF Effect, Replacing, Past, At, Linked
  <2>8. CASE todo[1].do = "start"
    BY <2>3, <2>8 DEF Effect, Replacing, Past, At, Started
  <2>9. CASE todo[1].do = "update"
    BY <2>3, <2>9 DEF Effect, Replacing, Past, At, Updated
  <2>10. CASE todo[1].do = "disable"
    BY <1>21, <2>10 DEF Replacing, Past, At
  <2>11. CASE todo[1].do = "enable"
    BY <1>22, <2>11 DEF Replacing, Past, At
  <2> QED BY <2>4, <2>5, <2>6, <2>7, <2>8, <2>9, <2>10, <2>11 DEF Verbs
<1>7. ASSUME last \notin {Publish, Rollback}
      PROVE  Switching'
  <2>2. CASE last \in {StopFlow, RollbackStop}
    <3>1. todo[1].do = "disable"
      BY <1>1, <1>4, <2>2, Ranks DEF Verbs
    <3> QED BY <1>1, <1>2, <1>3, <1>7, <1>21, <2>2, <3>1, ActionsAre DEF MachineOK, Switching
  <2>3. CASE last = RestoreFlow
    <3>1. todo[1].do = "enable"
      BY <1>1, <1>4, <2>3, Ranks DEF Verbs
    <3> QED BY <1>1, <1>2, <1>3, <1>7, <1>22, <2>3, <3>1, ActionsAre DEF MachineOK, Switching
  <2> QED BY <1>1, <1>7, <2>2, <2>3, ActionsAre
<1>8. Replacing' /\ Switching'
  BY <1>2, <1>6, <1>7 DEF Replacing, Switching
<1> QED BY <1>5, <1>8 DEF MachineOK

(* The machine as it was, but for a broken directory. *)
LEMMA MachineStays ==
  ASSUME HostInv, UNCHANGED <<link, running, cmdb, flow, app, last, todo, missed>>,
         dir' \in [Versions -> {"absent", "broken", "complete"}]
  PROVE  MachineOK'
<1>1. ToSet(todo)' = ToSet(todo) /\ Stage(todo)' = Stage(todo) /\ Mine' = Mine /\ Version' = Version
      /\ Missed' = Missed
  BY DEF Mine, Version, Missed
<1> QED BY <1>1 DEF HostInv, MachineOK, Replacing, Switching, Past, At

(* Where dubbo-admin has no wish and no task looks there is nothing to keep. *)
LEMMA NoWish == ASSUME wish' = None, looks' = 0 PROVE Wishes'
<1>1. None # TRUE /\ None # FALSE
  BY NoneAssumption
<1>2. wish' # TRUE /\ wish' # FALSE
  BY <1>1
<1>3. looks' \in 0..Looks /\ ~(looks' > 0)
  BY DEF Looks
<1> QED BY <1>2, <1>3 DEF Wishes

(* The chain goes on with the same task or with the next. *)
LEMMA ChainKeeps ==
  ASSUME AppOK, Chain, todo # <<>>, UNCHANGED <<app, last>>, todo' \in {todo, Tail(todo)}
  PROVE  Chain'
BY UnderWay DEF Chain

(* An attempt at a task: it has its effect, is done or to be repeated, or its
   script goes on without it. *)
LEMMA AttemptKeeps ==
  ASSUME HostInv, Patient, DubboIsPrompt, todo # <<>>, Attempt,
         UNCHANGED <<app, last, dubbo>>, failed' \in BOOLEAN,
         \/ Effect /\ todo' \in {todo, Tail(todo)} /\ late' = late
         \/ UNCHANGED machine /\ todo' = todo /\ late' \in {late, late \cup {todo[1]}}
         \/ /\ dir' \in [Versions -> {"absent", "broken", "complete"}]
            /\ UNCHANGED <<link, running, cmdb, flow, todo, late>>
  PROVE  HostInv'
<1>1. late = {} /\ wish = None /\ looks = 0
  BY DEF Attempt
<1>2. MachineOK'
  <2>0. missed' = missed
    BY DEF dubbo
  <2>1. CASE Effect /\ todo' \in {todo, Tail(todo)}
    BY <2>0, <2>1, EffectKeeps DEF HasEffect
  <2>2. CASE UNCHANGED machine /\ todo' = todo
    BY <2>0, <2>2, MachineStays DEF machine, HostInv, MachineOK
  <2>3. CASE /\ dir' \in [Versions -> {"absent", "broken", "complete"}]
             /\ UNCHANGED <<link, running, cmdb, flow, todo, late>>
    BY <2>0, <2>3, MachineStays
  <2> QED BY <2>1, <2>2, <2>3
<1>3. Chain'
  <2>1. todo' \in {todo, Tail(todo)}
    OBVIOUS
  <2> QED BY <2>1, ChainKeeps DEF HostInv
<1>4. Late'
  <2>1. late' = {} \/ (late' = {todo[1]} /\ todo' = todo)
    BY <1>1
  <2> QED BY <1>1, <2>1 DEF Late, dubbo
<1>5. Wishes'
  <2>1. wish' = None /\ looks' = 0
    BY <1>1 DEF dubbo
  <2> QED BY <2>1, NoWish
<1>6. AppOK'
  BY DEF AppOK, HostInv, dubbo
<1> QED BY <1>2, <1>3, <1>4, <1>5, <1>6 DEF HostInv

(* Every script is an attempt at the task that comes next. *)
LEMMA ScriptsKeep ==
  ASSUME HostInv, Patient, DubboIsPrompt,
         Download \/ Backup \/ Stop \/ Link \/ Start \/ Update \/ Nginx
  PROVE  HostInv'
<1> USE DEF Current, Script, Succeeds, Fails
<1>1. CASE Download
  <2>1. CASE DownloadBreaks
    <3>1. dir' \in [Versions -> {"absent", "broken", "complete"}]
      BY <2>1 DEF DownloadBreaks, HostInv, MachineOK, Versions
    <3> QED BY <1>1, <2>1, <3>1, AttemptKeeps DEF Download, DownloadBreaks
  <2>2. CASE Script(Downloaded, TRUE)
    BY <1>1, <2>2, AttemptKeeps DEF Download, Effect
  <2> QED BY <1>1, <2>1, <2>2 DEF Download
<1>2. CASE Backup
  BY <1>2, AttemptKeeps DEF Backup, Effect
<1>3. CASE Stop
  BY <1>3, AttemptKeeps DEF Stop, Effect
<1>4. CASE Link
  BY <1>4, AttemptKeeps DEF Link, Effect
<1>5. CASE Start
  BY <1>5, AttemptKeeps DEF Start, Effect
<1>6. CASE Update
  BY <1>6, AttemptKeeps DEF Update, Effect
<1>7. CASE Nginx
  <2>1. PICK on \in BOOLEAN :
          /\ Current(IF on THEN "enable" ELSE "disable") /\ What = "nginx"
          /\ Script(Switched("nginx", on), TRUE)
    BY <1>7 DEF Nginx
  <2>2. CASE on
    <3>1. Switched("nginx", on) => Effect
      BY <2>1, <2>2 DEF Effect, Switched
    <3> QED BY <2>1, <2>2, <3>1, AttemptKeeps
  <2>3. CASE ~on
    <3>1. Switched("nginx", on) => Effect
      BY <2>1, <2>3 DEF Effect, Switched
    <3> QED BY <2>1, <2>3, <3>1, AttemptKeeps
  <2> QED BY <2>2, <2>3
<1> QED BY <1>1, <1>2, <1>3, <1>4, <1>5, <1>6, <1>7

(* A script that ends late has the effect of the task that comes next, which
   is repeated. *)
LEMMA LateEndsKeeps ==
  ASSUME HostInv, LateEnds
  PROVE  HostInv'
<1>1. PICK t \in late :
        /\ late' = late \ {t}
        /\ \/ UNCHANGED machine
           \/ t.do = "download" /\ Downloaded
           \/ t.do = "stop" /\ Stopped
           \/ t.do = "link" /\ Linked(t.what)
           \/ t.do = "start" /\ Started
           \/ t.do = "update" /\ Updated
           \/ t.do \in {"enable", "disable"} /\ Switched(t.what, t.do = "enable")
  BY DEF LateEnds
<1>2. todo # <<>> /\ t = todo[1] /\ late' = {}
  BY <1>1 DEF HostInv, Late
<1>3. UNCHANGED <<app, last, todo, failed, wish, looks, missed>>
  BY DEF LateEnds, chain, dubbo
<1>4. UNCHANGED machine \/ Effect
  <2>1. ASSUME t.do \in {"enable", "disable"}, Switched(t.what, t.do = "enable")
        PROVE  Effect
    BY <1>2, <2>1 DEF Effect, Switched, What
  <2> QED BY <1>1, <1>2, <2>1 DEF Effect, What
<1>5. MachineOK'
  <2>1. CASE UNCHANGED machine
    BY <1>3, <2>1, MachineStays DEF machine, HostInv, MachineOK
  <2>2. CASE Effect
    BY <1>2, <1>3, <2>2, EffectKeeps DEF HasEffect
  <2> QED BY <1>4, <2>1, <2>2
<1>6. Wishes'
  BY <1>1, <1>3, NoWish DEF HostInv, Late
<1> QED BY <1>2, <1>3, <1>5, <1>6 DEF HostInv, AppOK, Chain, Late

(* The dubbo switch changes nothing where it is as asked for. *)
LEMMA DubboAsAsked ==
  ASSUME HostInv, UNCHANGED machine,
         \/ missed' = FALSE /\ Asks("enable") /\ "dubbo" \in flow
         \/ missed' = FALSE /\ Asks("disable") /\ "dubbo" \notin flow
         \/ missed' = TRUE /\ (Asks("enable") \/ Asks("disable"))
  PROVE  todo # <<>> /\ HasEffect
BY DEF Asks, Effect, Switched, machine, HasEffect, IsDubbo

(* While a task waits for dubbo-admin nothing else happens to the machine. *)
LEMMA DubboKeeps ==
  ASSUME HostInv, UNCHANGED <<machine, app, last, late>>, failed' \in BOOLEAN, late = {}, Wishes',
         \/ todo' = todo /\ missed' = missed
         \/ missed' = FALSE /\ todo' = Tail(todo) /\ Asks("enable") /\ "dubbo" \in flow
         \/ missed' = FALSE /\ todo' = Tail(todo) /\ Asks("disable") /\ "dubbo" \notin flow
         \/ missed' = TRUE /\ todo' = Tail(todo) /\ (Asks("enable") \/ Asks("disable"))
  PROVE  HostInv'
<1>1. MachineOK'
  <2>1. CASE todo' = todo /\ missed' = missed
    BY <2>1, MachineStays DEF machine, HostInv, MachineOK
  <2>2. CASE ~(todo' = todo /\ missed' = missed)
    BY <2>2, DubboAsAsked, EffectKeeps
  <2> QED BY <2>1, <2>2
<1>2. Chain'
  <2>1. CASE todo' = todo
    BY <2>1 DEF HostInv, Chain
  <2>2. CASE todo' # todo
    BY <2>2, DubboAsAsked, ChainKeeps DEF HostInv
  <2> QED BY <2>1, <2>2
<1> QED BY <1>1, <1>2 DEF HostInv, AppOK, Late

(* A request to dubbo-admin, whatever the answer. *)
LEMMA DubboAnswersKeeps ==
  ASSUME HostInv, Patient, DubboIsPrompt, DubboAnswers
  PROVE  HostInv'
<1>1. /\ todo # <<>> /\ What = "dubbo" /\ todo[1].do \in {"enable", "disable"}
      /\ wish = None /\ late = {} /\ looks = 0
      /\ UNCHANGED <<machine, app, last, late>> /\ failed' \in BOOLEAN
  BY DEF DubboAnswers, DubboAccepts, DubboMisses, Current, Attempt, Succeeds, Fails, HostInv, AppOK, chain
<1>6. CASE DubboMisses
  <2>1. wish' = None /\ looks' = 0 /\ missed' = TRUE /\ todo' = Tail(todo)
    BY <1>1, <1>6 DEF DubboMisses, Succeeds
  <2>2. Wishes'
    BY <2>1, NoWish
  <2>3. Asks("enable") \/ Asks("disable")
    BY <1>1 DEF Asks
  <2> QED BY <1>1, <2>1, <2>2, <2>3, DubboKeeps
<1> SUFFICES ASSUME ~DubboMisses PROVE HostInv'
  BY <1>6
<1>2. /\ \/ wish' = Wanted /\ looks' = Looks
         \/ wish' \in {wish, Wanted} /\ looks' = looks
      /\ UNCHANGED <<todo, missed>>
  BY DEF DubboAnswers, DubboAccepts, Fails, chain
<1>3. /\ todo[1].do = "enable" => wish' \in {None, TRUE}
      /\ todo[1].do = "disable" => wish' \in {None, FALSE}
      /\ looks' > 0 => (todo[1].do = "enable" => wish' = TRUE)
      /\ looks' > 0 => (todo[1].do = "disable" => wish' = FALSE)
  <2>1. todo[1].do = "enable" => Wanted = TRUE
    BY DEF Wanted
  <2>2. todo[1].do = "disable" => Wanted = FALSE
    BY DEF Wanted
  <2>3. ~(looks > 0)
    BY <1>1
  <2>4. CASE todo[1].do = "enable"
    BY <1>1, <1>2, <2>1, <2>3, <2>4
  <2>5. CASE todo[1].do = "disable"
    BY <1>1, <1>2, <2>2, <2>3, <2>5
  <2> QED BY <1>1, <2>4, <2>5
<1>4. "dubbo" \in ToSet(Mine)
  BY <1>1, UnderWay DEF HostInv
<1>5. Wishes'
  <2>1. UNCHANGED <<Mine, flow>> /\ What' = What /\ late' = {} /\ todo' = todo
    BY <1>1, <1>2 DEF Mine, What, machine
  <2>2. looks' \in 0..Looks
    BY <1>1, <1>2 DEF Looks
  <2>3. None # TRUE /\ None # FALSE
    BY NoneAssumption
  <2>4. CASE todo[1].do = "enable"
    <3>1. wish' \in {None, TRUE} /\ wish' # FALSE /\ (looks' > 0 => wish' = TRUE)
      BY <1>3, <2>3, <2>4
    <3>2. Asks("enable")'
      BY <1>1, <2>1, <2>4 DEF Asks
    <3> QED BY <1>4, <2>1, <2>2, <3>1, <3>2 DEF Wishes
  <2>5. CASE todo[1].do = "disable"
    <3>1. wish' \in {None, FALSE} /\ wish' # TRUE /\ (looks' > 0 => wish' = FALSE)
      BY <1>3, <2>3, <2>5
    <3>2. Asks("disable")'
      BY <1>1, <2>1, <2>5 DEF Asks
    <3> QED BY <1>4, <2>1, <2>2, <3>1, <3>2 DEF Wishes
  <2> QED BY <1>1, <2>4, <2>5
<1> QED BY <1>1, <1>2, <1>5, DubboKeeps

(* A look: the last one finds the wish granted. *)
LEMMA LookKeeps ==
  ASSUME HostInv, DubboIsPrompt, Look \/ LookFails
  PROVE  HostInv'
<1>1. /\ looks > 0 /\ late = {} /\ looks \in 0..3
      /\ UNCHANGED <<machine, app, last, late, wish>> /\ failed' \in BOOLEAN
  BY DEF Look, LookFails, Succeeds, Fails, HostInv, AppOK, Wishes, Looks, chain
<1>2. \/ Asks("enable") /\ (wish = TRUE \/ (wish = None /\ "dubbo" \in flow))
      \/ Asks("disable") /\ (wish = FALSE \/ (wish = None /\ "dubbo" \notin flow))
  BY <1>1 DEF HostInv, Wishes
<1>3. /\ wish \in {TRUE, FALSE, None}
      /\ wish = TRUE => "dubbo" \in flow \/ Asks("enable")
      /\ wish = FALSE => "dubbo" \notin flow \/ Asks("disable")
      /\ wish # None => "dubbo" \in ToSet(Mine)
  BY DEF HostInv, Wishes
<1>4. None # TRUE /\ None # FALSE
  BY NoneAssumption
<1>5. Mine' = Mine /\ flow' = flow /\ wish' = wish /\ late' = {}
  BY <1>1 DEF Mine, machine
<1>6. CASE todo' = todo /\ missed' = missed /\ looks' \in 0..looks
  <2>1. Asks("enable")' = Asks("enable") /\ Asks("disable")' = Asks("disable")
    BY <1>6 DEF Asks, What
  <2>2. looks' \in 0..Looks
    BY <1>1, <1>6 DEF Looks
  <2>3. Wishes'
    BY <1>2, <1>3, <1>5, <2>1, <2>2 DEF Wishes
  <2> QED BY <1>1, <1>6, <2>3, DubboKeeps
<1>7. CASE /\ todo' = Tail(todo) /\ looks' = 0 /\ missed' = FALSE
           /\ ("dubbo" \in flow) = Wanted \/ (looks = 1 /\ ("dubbo" \in flow) # Wanted /\ wish = None)
  <2>1. \/ Asks("enable") /\ "dubbo" \in flow /\ wish \in {TRUE, None}
        \/ Asks("disable") /\ "dubbo" \notin flow /\ wish \in {FALSE, None}
    <3>1. CASE Asks("enable") /\ (wish = TRUE \/ (wish = None /\ "dubbo" \in flow))
      <4>1. Wanted = TRUE
        BY <3>1 DEF Wanted, Asks
      <4>2. "dubbo" \in flow
        BY <1>4, <1>7, <3>1, <4>1
      <4> QED BY <3>1, <4>2
    <3>2. CASE Asks("disable") /\ (wish = FALSE \/ (wish = None /\ "dubbo" \notin flow))
      <4>1. Wanted = FALSE
        BY <3>2 DEF Wanted, Asks
      <4>2. "dubbo" \notin flow
        BY <1>4, <1>7, <3>2, <4>1
      <4> QED BY <3>2, <4>2
    <3> QED BY <1>2, <3>1, <3>2
  <2>2. looks' \in 0..Looks /\ ~(looks' > 0)
    BY <1>7 DEF Looks
  <2>3. Wishes'
    BY <1>3, <1>4, <1>5, <2>1, <2>2 DEF Wishes
  <2> QED BY <1>1, <1>7, <2>1, <2>3, DubboKeeps
<1>8. \/ todo' = todo /\ missed' = missed /\ looks' \in 0..looks
      \/ /\ todo' = Tail(todo) /\ looks' = 0 /\ missed' = FALSE
         /\ ("dubbo" \in flow) = Wanted \/ (looks = 1 /\ ("dubbo" \in flow) # Wanted /\ wish = None)
  <2>1. CASE LookFails
    BY <1>1, <2>1 DEF LookFails, Fails
  <2>2. CASE Look
    <3>1. looks = 1 => wish = None
      BY <2>2 DEF Look
    <3> QED BY <1>1, <2>2, <3>1 DEF Look, Succeeds, Fails, chain
  <2> QED BY <2>1, <2>2
<1> QED BY <1>6, <1>7, <1>8

(* A wish that is granted is what the task that comes next asks for. *)
LEMMA GrantsKeep ==
  ASSUME HostInv, DubboGrants
  PROVE  HostInv'
<1>1. /\ wish # None /\ wish' = None /\ Switched("dubbo", wish)
      /\ UNCHANGED <<app, last, todo, failed, late, looks, missed>>
  BY DEF DubboGrants, chain
<1>2. late = {} /\ wish \in {TRUE, FALSE}
  BY <1>1 DEF HostInv, Late, Wishes
<1>3. None # TRUE /\ None # FALSE
  BY NoneAssumption
<1>4. /\ \/ wish = TRUE /\ flow' = flow \cup {"dubbo"} /\ ("dubbo" \in flow \/ Asks("enable"))
         \/ wish = FALSE /\ flow' = flow \ {"dubbo"} /\ ("dubbo" \notin flow \/ Asks("disable"))
      /\ UNCHANGED <<dir, link, running, cmdb>>
  <2>1. CASE wish = TRUE
    BY <1>1, <2>1 DEF HostInv, Wishes, Switched
  <2>2. CASE wish = FALSE
    BY <1>1, <2>2 DEF HostInv, Wishes, Switched
  <2> QED BY <1>2, <2>1, <2>2
<1>5. MachineOK'
  <2>1. CASE flow' = flow
    BY <1>1, <1>4, <2>1, MachineStays DEF HostInv, MachineOK
  <2>2. CASE flow' # flow
    <3>1. \/ Asks("enable") /\ Switched("dubbo", TRUE)
          \/ Asks("disable") /\ Switched("dubbo", FALSE)
      BY <1>4, <2>2 DEF Switched
    <3>2. todo # <<>> /\ Effect
      BY <3>1 DEF Asks, Effect
    <3> QED BY <1>1, <3>2, EffectKeeps DEF HasEffect
  <2> QED BY <2>1, <2>2
<1>6. Wishes'
  <2>1. Asks("enable")' = Asks("enable") /\ Asks("disable")' = Asks("disable")
    BY <1>1 DEF Asks, What
  <2>2. /\ wish' \in {TRUE, FALSE, None} /\ looks' \in 0..Looks /\ ~(wish' = TRUE) /\ ~(wish' = FALSE)
        /\ late' = {}
    BY <1>1, <1>2, <1>3 DEF HostInv, Wishes
  <2>3. ASSUME looks' > 0
        PROVE  \/ Asks("enable") /\ "dubbo" \in flow'
               \/ Asks("disable") /\ "dubbo" \notin flow'
    <3>1. \/ Asks("enable") /\ wish = TRUE
          \/ Asks("disable") /\ wish = FALSE
      BY <1>1, <2>3 DEF HostInv, Wishes
    <3> QED BY <1>4, <3>1
  <2> QED BY <1>1, <2>1, <2>2, <2>3 DEF Wishes
<1> QED BY <1>1, <1>2, <1>5, <1>6 DEF HostInv, AppOK, Chain, Late

-----------------------------------------------------------------------------
(* An action begins where a task may be attempted and the one before has
   ended, on a machine that runs what it is linked to. *)
LEMMA BeginKeeps ==
  ASSUME HostInv, Patient, DubboIsPrompt, Attempt, NEW action \in WithTasks, Begin(action),
         running = link,
         action \in {StopFlow, RestoreFlow} => running = "rollback",
         action \in {Publish, StopFlow, RestoreFlow} => cmdb = "rollback"
  PROVE  HostInv'
<1> DEFINE w == Tasks(action, app.type, app.special)
<1>1. late = {} /\ wish = None /\ looks = 0
  BY DEF Attempt
<1>2. /\ last' = action /\ todo' = w /\ failed' = FALSE
      /\ UNCHANGED <<app, dir, link, running, cmdb, flow, late, wish, looks, missed>>
  BY DEF Begin, machine, dubbo
<1>3. app.type \in ApplicationTypes /\ app.special \in BOOLEAN
  BY DEF HostInv, AppOK
<1>4. /\ w \in Seq(Work) /\ w # <<>> /\ IsSuffix(w, w)
      /\ action \in {Publish, Rollback} =>
           /\ Stage(w) <= 3 /\ Stage(w) \in Int
           /\ \A s \in ToSet(Mine) : Off(s) \in ToSet(w) /\ On(s) \in ToSet(w)
      /\ action \in {StopFlow, RollbackStop} => \A s \in ToSet(Mine) : Off(s) \in ToSet(w)
      /\ action = RestoreFlow => \A s \in ToSet(Mine) : On(s) \in ToSet(w)
  BY <1>3, FirstStage DEF Mine
<1>5. Chain'
  BY <1>2, <1>4, ActionsAre DEF Chain
<1>6. Mine' = Mine /\ Stage(todo)' = Stage(w) /\ ToSet(todo)' = ToSet(w) /\ Missed' = Missed
  BY <1>2 DEF Mine, Missed
<1>7. MachineOK
  BY DEF HostInv
<1> HIDE DEF w
<1>8. Replacing'
  <2> SUFFICES ASSUME action \in {Publish, Rollback} PROVE Replacing'
    BY <1>2 DEF Replacing
  <2>1. ~Past("stop")' /\ ~At("link")' /\ ~Past("link")' /\ ~Past("start")' /\ ~Past("update")'
    BY <1>4, <1>6, Ranks DEF Past, At
  <2> QED BY <1>2, <1>4, <1>6, <1>7, <2>1 DEF Replacing, MachineOK
<1>9. Switching'
  BY <1>2, <1>4, <1>6, <1>7, ActionsAre DEF Switching, MachineOK
<1>10. MachineOK'
  BY <1>2, <1>6, <1>7, <1>8, <1>9 DEF MachineOK
<1> QED BY <1>1, <1>2, <1>5, <1>10, NoWish DEF HostInv, AppOK, Late

(* A publish and a rollback begin on a machine that serves. *)
LEMMA BeginsKeep ==
  ASSUME HostInv, Patient, DubboIsPrompt, ~EarlyRestore,
         \/ BeginPublish \/ BeginStopFlow
         \/ BeginRestoreFlow \/ BeginRollbackStop \/ BeginRollback
  PROVE  HostInv'
<1>1. Stage(todo) \in Int /\ (todo = <<>> => Stage(todo) = 9)
  BY UnderWay DEF Stage, Over, HostInv
<1>2. last \in {Publish, Rollback} /\ Past("start") => running = link
  BY <1>1, Ranks DEF HostInv, MachineOK, Replacing, Past
<1>3. last \notin {Publish, Rollback} =>
        /\ running = link
        /\ last \in {None, StopFlow, RestoreFlow} => running = "rollback" /\ cmdb = "rollback"
  BY DEF HostInv, MachineOK, Switching
<1>4. last = Publish /\ cmdb # "rollback" => Past("start")
  BY DEF HostInv, MachineOK, Replacing
<1> USE ActionsAre
<1>5. CASE BeginPublish
  BY <1>3, <1>5, BeginKeeps DEF BeginPublish
<1>6. CASE BeginStopFlow
  BY <1>3, <1>6, BeginKeeps DEF BeginStopFlow
<1>7. CASE BeginRestoreFlow
  <2>1. last = StopFlow
    BY <1>7 DEF BeginRestoreFlow, MayRollBack
  <2> QED BY <1>3, <1>7, <2>1, BeginKeeps DEF BeginRestoreFlow, MayRollBack
<1>8. CASE BeginRollbackStop
  <2>1. running = link
    BY <1>2, <1>3, <1>4, <1>8 DEF BeginRollbackStop, MayRollBack
  <2> QED BY <1>8, <2>1, BeginKeeps DEF BeginRollbackStop, MayRollBack
<1>9. CASE BeginRollback
  <2>1. running = link
    BY <1>2, <1>3, <1>4, <1>9 DEF BeginRollback, MayRollBack
  <2> QED BY <1>9, <2>1, BeginKeeps DEF BeginRollback, MayRollBack
<1> QED BY <1>5, <1>6, <1>7, <1>8, <1>9

(* A machine that serves the version to roll back to, before any action. *)
LEMMA HostInvInit == Init => HostInv
<1> SUFFICES ASSUME Init PROVE HostInv
  OBVIOUS
<1>1. AppOK /\ Chain /\ Late
  <2>1. AppOK /\ Late
    BY DEF Init, AppOK, Late
  <2>2. <<>> \in Seq(Work)
    OBVIOUS
  <2> QED BY <2>1, <2>2 DEF Init, Chain
<1>2. last = None /\ None \notin {Publish, Rollback, StopFlow, RollbackStop, RestoreFlow}
  BY ActionsAre DEF Init
<1>3. MachineOK
  BY <1>2 DEF Init, MachineOK, Replacing, Switching, Versions
<1>4. Wishes
  <2>1. wish = None /\ looks = 0 /\ None # TRUE /\ None # FALSE
    BY NoneAssumption DEF Init
  <2>2. wish # TRUE /\ wish # FALSE
    BY <2>1
  <2>3. looks \in 0..Looks /\ ~(looks > 0)
    BY <2>1 DEF Looks
  <2> QED BY <2>1, <2>2, <2>3 DEF Wishes
<1> QED BY <1>1, <1>3, <1>4 DEF HostInv

(* The invariant, for an operator who waits for the scripts, a prompt
   dubbo-admin, and rollbacks that find no publication failed half way. *)
THEOREM HostInvariance ==
  ASSUME Patient, DubboIsPrompt, ~EarlyRestore
  PROVE  Spec => []HostInv
<1>1. HostInv /\ [Next]_vars => HostInv'
  <2> SUFFICES ASSUME HostInv, [Next]_vars PROVE HostInv'
    OBVIOUS
  <2>1. CASE \/ BeginPublish \/ BeginStopFlow
             \/ BeginRestoreFlow \/ BeginRollbackStop \/ BeginRollback
    BY <2>1, BeginsKeep
  <2>2. CASE Download \/ Backup \/ Stop \/ Link \/ Start \/ Update \/ Nginx
    BY <2>2, ScriptsKeep
  <2>3. CASE LateEnds
    BY <2>3, LateEndsKeeps
  <2>4. CASE DubboAnswers
    BY <2>4, DubboAnswersKeeps
  <2>5. CASE Look \/ LookFails
    BY <2>5, LookKeeps
  <2>6. CASE DubboGrants
    BY <2>6, GrantsKeep
  <2>7. CASE UNCHANGED vars
    <3>1. UNCHANGED <<app, last, todo, failed, dir, link, running, cmdb, flow, late, wish, looks, missed>>
      BY <2>7 DEF vars, machine, chain, dubbo
    <3>2. MachineOK'
      BY <3>1, MachineStays DEF HostInv, MachineOK
    <3>3. Wishes'
      BY <3>1 DEF HostInv, Wishes, Asks, What, Mine
    <3> QED BY <3>1, <3>2, <3>3 DEF HostInv, AppOK, Chain, Late
  <2> QED BY <2>1, <2>2, <2>3, <2>4, <2>5, <2>6, <2>7 DEF Next
<1> QED BY <1>1, HostInvInit, PTL DEF Spec

-----------------------------------------------------------------------------
(* Theorems *)

(* What the variables of a machine hold. *)
THEOREM TypeCorrect ==
  ASSUME Patient, DubboIsPrompt, ~EarlyRestore
  PROVE  Spec => []TypeOK
<1>1. HostInv => TypeOK
  <2> SUFFICES ASSUME HostInv PROVE TypeOK
    OBVIOUS
  <2>1. CASE todo = <<>>
    <3>1. late = {}
      BY <2>1 DEF HostInv, Late
    <3>2. last # None => IsSuffix(todo, Tasks(last, app.type, app.special))
      BY DEF HostInv, Chain
    <3> QED BY <2>1, <3>1, <3>2 DEF HostInv, AppOK, MachineOK, Wishes, TypeOK
  <2>2. CASE todo # <<>>
    <3>1. /\ last # None /\ todo[1] \in ToSet(Tasks(last, app.type, app.special))
          /\ IsSuffix(todo, Tasks(last, app.type, app.special))
      BY <2>2, UnderWay DEF HostInv, Chain
    <3>2. late \subseteq ToSet(Tasks(last, app.type, app.special))
      BY <3>1 DEF HostInv, Late
    <3> QED BY <3>1, <3>2 DEF HostInv, AppOK, MachineOK, Wishes, TypeOK
  <2> QED BY <2>1, <2>2
<1> QED BY <1>1, HostInvariance, PTL

(* Traffic reaches the machine only while a process runs, and one of the
   version the link names, unless it comes through a dubbo switch that was
   passed over: for either type of application, with either or both switches,
   and however often tasks fail, with or without their effect, time out and are
   repeated. *)
THEOREM TrafficIsServed ==
  ASSUME Patient, DubboIsPrompt, ~EarlyRestore
  PROVE  Spec => []NoTrafficToNothing
<1>1. HostInv => NoTrafficToNothing
  <2> SUFFICES ASSUME HostInv, NEW x \in flow \ Missed PROVE running # None /\ running = link
    BY DEF NoTrafficToNothing
  <2>1. link \in Versions /\ None \notin Versions
    BY ActionsAre DEF HostInv, MachineOK
  <2>2. CASE last \notin {Publish, Rollback}
    BY <2>1, <2>2 DEF HostInv, MachineOK, Switching
  <2>3. CASE last \in {Publish, Rollback} /\ Past("start")
    <3>1. Stage(todo) \in Int
      <4>1. CASE todo = <<>>
        BY <4>1 DEF Stage, Over
      <4>2. CASE todo # <<>>
        BY <4>2, UnderWay DEF HostInv
      <4> QED BY <4>1, <4>2
    <3>2. Past("link")
      BY <2>3, <3>1, Ranks DEF Past
    <3> QED BY <2>1, <2>3, <3>2 DEF HostInv, MachineOK, Replacing
  <2>4. CASE last \in {Publish, Rollback} /\ ~Past("start")
    <3>1. todo # <<>>
      BY <2>4, Ranks DEF Past, Stage, Over
    <3>2. PICK s \in flow \ Missed : Off(s) \in ToSet(todo) /\ s \in ToSet(Mine)
      BY <2>4 DEF HostInv, MachineOK, Replacing
    <3>3. ~(Stage(todo) > 3) /\ Stage(todo) \in Int
      BY <2>4, <3>1, <3>2, UnderWay DEF HostInv
    <3>4. ~Past("stop") /\ ~At("stop")
      BY <3>3, Ranks DEF Past, At
    <3> QED BY <2>1, <2>4, <3>4 DEF HostInv, MachineOK, Replacing
  <2> QED BY <2>2, <2>3, <2>4
<1> QED BY <1>1, HostInvariance, PTL

(* An action that has ended has done what it is for, whatever its attempts did
   before, but for a dubbo switch that was passed over: from publications that
   end or fail half way, and from rollbacks of the latter, unless they take the
   host for one of the old version. *)
THEOREM ActionsEndAsAsked ==
  ASSUME Patient, DubboIsPrompt, ~EarlyRestore
  PROVE  Spec => []EndsAsAsked
<1>1. HostInv => EndsAsAsked
  <2> SUFFICES ASSUME HostInv, todo = <<>> PROVE EndsAsAsked
    BY DEF EndsAsAsked, Ended
  <2>1. Stage(todo) = 9 /\ ToSet(todo) = {}
    BY DEF Stage, Over, ToSet
  <2>2. flow \subseteq ToSet(Mine)
    BY DEF HostInv, MachineOK
  <2>3. ASSUME last \in {Publish, Rollback}
        PROVE  running = Version /\ cmdb = Version /\ ToSet(Mine) \ Missed \subseteq flow
    BY <2>1, <2>2, <2>3, Ranks DEF HostInv, MachineOK, Replacing, Past
  <2>4. last = RestoreFlow => running = "rollback" /\ ToSet(Mine) \ Missed \subseteq flow
    BY <2>1, <2>2, ActionsAre DEF HostInv, MachineOK, Switching
  <2>5. last \in {StopFlow, RollbackStop} => flow \subseteq Missed
    BY <2>1, ActionsAre DEF HostInv, MachineOK, Switching
  <2> QED BY <2>3, <2>4, <2>5, ActionsAre DEF EndsAsAsked, Ended, Version, VersionOf
<1> QED BY <1>1, HostInvariance, PTL

=============================================================================
