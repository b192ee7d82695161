--------------------------- MODULE MCPatternEdits ---------------------------
(* Small instances of PatternEdits for TLC. *)
EXTENDS PatternEdits, TLC

NoFaults == [k \in FaultKind |-> 0]
OneCrash == [NoFaults EXCEPT !["crash"] = 1]
Publishing == {8}

=============================================================================
