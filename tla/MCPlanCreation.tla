--------------------------- MODULE MCPlanCreation ---------------------------
(* Small instances of PlanCreation for TLC: two applications, and packages of
   every kind for the first. *)
EXTENDS PlanCreation

CONSTANTS a, b, a1, a2, aBad, aGone, aInfo, b1

AppOfAll == [p \in Package |-> IF p = b1 THEN b ELSE a]

(* aBad is a broken build of a1, under the same file name. *)
FileOfAll == [p \in Package |-> IF p = aBad THEN a1 ELSE p]
VersionOfAll == [p \in Package |-> CASE p = a2 -> 2 [] OTHER -> 1]
KindOfAll ==
  [p \in Package |->
     CASE p \in {a1, a2, b1} -> "good"
       [] p = aBad -> "notzip"
       [] p = aGone -> "missing"
       [] p = aInfo -> "badinfo"]

(* Each once; the rival moves a package and writes the index. *)
EachOnce == [k \in Events |-> IF k = "rival" THEN 2 ELSE 1]

=============================================================================
