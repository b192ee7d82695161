-------------------------- MODULE MCRollbackSteps ---------------------------
(* Small instances of RollbackSteps for TLC. *)
EXTENDS RollbackSteps, TLC

CONSTANTS web, mod

HostSymmetry == Permutations(Host)
OneOfEach == [a \in App |-> IF a = web THEN Web ELSE Mod]

=============================================================================
