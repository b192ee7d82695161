------------------------------- MODULE Status -------------------------------
(***************************************************************************)
(* The status codes shared by pattern tasks, pattern hosts and patterns    *)
(* (orm/models.py, orm/field_map.py), and the rule that derives the status *)
(* of a parent from the statuses of its children (worker/commons.py).      *)
(***************************************************************************)
EXTENDS Integers

Pending == 0        \* PENDING
Running == 1        \* STARTED
Done    == 2        \* SUCCESS
Failed  == 3        \* FAILED, UNREACHABLE

Statuses == {Pending, Running, Done, Failed}

(* The values a function takes: the rows a status query returns. *)
Values(f) == {f[x] : x \in DOMAIN f}

(* Slip: failure is looked at first. *)
CheckStatusFailedFirst(S) ==
  IF Failed \in S THEN Failed
  ELSE IF Running \in S THEN Running
  ELSE IF Pending \in S /\ Done \notin S THEN Pending
  ELSE IF Done \in S /\ Pending \notin S THEN Done
  ELSE Running

(***************************************************************************)
(* check_status: one running child makes the parent running, otherwise one *)
(* failed child makes it failed; all pending is pending, all done is done, *)
(* and a mixture of pending and done (also no child at all) is running.    *)
(***************************************************************************)
CheckStatus(S) ==
  IF Running \in S THEN Running
  ELSE IF Failed \in S THEN Failed
  ELSE IF Pending \in S /\ Done \notin S THEN Pending
  ELSE IF Done \in S /\ Pending \notin S THEN Done
  ELSE Running

=============================================================================
