---------------------------- MODULE MCPatternRun ----------------------------
(* Small instances of PatternRun for TLC. *)
EXTENDS PatternRunInv, TLC

NoFaults == [k \in FaultKind |-> 0]
OneAbort == [NoFaults EXCEPT !["abort"] = 1]
OneFinish == [NoFaults EXCEPT !["finish"] = 1]
CrashAndAbort == [NoFaults EXCEPT !["crash"] = 1, !["abort"] = 1]
EveryFault == [k \in FaultKind |-> 1]
Publishing == {8}
PublishOrRollback == {8, 21}
ExecSymmetry == Permutations(Exec)

=============================================================================
