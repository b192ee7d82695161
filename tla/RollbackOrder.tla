--------------------------- MODULE RollbackOrder ----------------------------
(***************************************************************************)
(* What a rollback promises: its steps come in their order, each when the  *)
(* hosts of all earlier steps are rolled back; a step that has succeeded   *)
(* is not repeated; and a pause is passed by a request made while nothing  *)
(* is under way, never by the work itself.  How a step leads to the next,  *)
(* and who remembers where the rollback stands, is not said here.          *)
(***************************************************************************)
EXTENDS Status

CONSTANTS
  Host,     \* the hosts that are rolled back
  Step,     \* the numbers of the steps, integers
  Hosts,    \* the hosts of each step, none for a pause
  Pauses    \* the numbers of the pauses, some of Step

VARIABLES
  status,   \* the status of each host, by step
  resting   \* nothing is under way

vars == <<status, resting>>

Init ==
  /\ status = [i \in Step |-> [h \in Host |-> Pending]]
  /\ resting = TRUE

Finished(i) == \A h \in Hosts[i] : status[i][h] = Done
Untouched(i) == \A h \in Hosts[i] : status[i][h] = Pending

(* What lies before the step is done. *)
IsNext(i) == \A j \in Step : j < i => Finished(j)

(* The work has come past every pause before the step already. *)
IsFree(i) ==
  \A p \in Pauses : p < i => \E j \in Step : p < j /\ ~Untouched(j)

Begin(i) ==
  /\ resting' = FALSE
  /\ \E some \in (SUBSET Hosts[i]) \ {{}} :
       /\ \A h \in some : status[i][h] \in {Pending, Failed}
       /\ status' = [status EXCEPT ![i] =
                       [h \in Host |-> IF h \in some THEN Running ELSE @[h]]]

(* A request begins a step, before or behind a pause; the work goes on to a
   step before the next pause. *)
Request(i) == resting /\ IsNext(i) /\ Begin(i)
Continue(i) == ~resting /\ IsNext(i) /\ IsFree(i) /\ Begin(i)

Quiet == \A i \in Step : \A h \in Hosts[i] : status[i][h] # Running

(* A host is rolled back or has failed; the work may come to rest with it. *)
End(i, h) ==
  /\ status[i][h] = Running
  /\ \E s \in {Done, Failed} : status' = [status EXCEPT ![i][h] = s]
  /\ resting' \in {resting, Quiet'}

Rest == resting' = TRUE /\ UNCHANGED status /\ Quiet

Next ==
  \/ Rest
  \/ \E i \in Step : Request(i) \/ Continue(i) \/ \E h \in Hosts[i] : End(i, h)

Spec == Init /\ [][Next]_vars

=============================================================================
