----------------------------- MODULE HostChain ------------------------------
(***************************************************************************)
(* What a pattern promises about the machines it touches: each host works  *)
(* through its tasks strictly in order.  A task starts only after every    *)
(* earlier one is done and while every later one is untouched; a failed    *)
(* task may be started again; a task that is done is never repeated, and   *)
(* is withdrawn (marked failed) only while no later task has started.      *)
(***************************************************************************)
EXTENDS Status

CONSTANTS NHosts, NTasks

Host == 1..NHosts
Task == 1..NTasks

VARIABLE taskStatus

Init == taskStatus = [h \in Host |-> [t \in Task |-> Pending]]

Moves == {<<Pending, Running>>, <<Failed, Running>>, <<Running, Done>>,
          <<Running, Failed>>, <<Done, Failed>>}

(* One host's tasks go from old to new by moving the task at the frontier. *)
HostMoves(old, new) ==
  \E t \in Task :
    /\ \A u \in Task : u < t => old[u] = Done
    /\ \A u \in Task : u > t => old[u] = Pending
    /\ \A u \in Task : u # t => new[u] = old[u]
    /\ <<old[t], new[t]>> \in Moves

Next ==
  /\ taskStatus' \in [Host -> [Task -> Statuses]]
  /\ \A h \in Host :
       taskStatus'[h] = taskStatus[h] \/ HostMoves(taskStatus[h], taskStatus'[h])

Spec == Init /\ [][Next]_taskStatus

=============================================================================
