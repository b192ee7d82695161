-------------------------- MODULE MCRollbackChain ---------------------------
(* Instances of RollbackChain for TLC, on plans that RollbackPlan generates. *)
EXTENDS RollbackChain, TLC

CONSTANTS h1, h2, h3, h4, web, mod

Types == [a \in {web, mod} |-> IF a = web THEN Web ELSE Mod]

P == INSTANCE RollbackPlan WITH App <- {web, mod}, TypeOf <- Types

Info(flag, version) ==
  [h \in Host |-> [app |-> IF h = h1 THEN web ELSE mod,
                   flag |-> flag[h], version |-> version[h]]]

AllNew == [h \in Host |-> "new"]

(* Nothing is rolled back yet: a web master, then a module's two masters, then
   its slave after a pause. *)
OnePause ==
  P!Generate(Info([h \in Host |-> IF h = h4 THEN P!Slave ELSE P!Master], AllNew))

(* A slave runs the old version already, so the first pause comes before the
   master is rolled back and the second one before the gray host. *)
TwoPauses ==
  P!Generate([h \in Host |->
    [app |-> web,
     flag |-> CASE h = h1 -> P!Slave [] h = h2 -> P!Master [] OTHER -> P!Gray,
     version |-> IF h = h1 THEN "old" ELSE "new"]])

=============================================================================
