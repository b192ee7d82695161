---------------------------- MODULE MCTargetHost ----------------------------
(* TargetHost for TLC; the .cfg files give the flags their values. *)
EXTENDS TargetHost

=============================================================================
