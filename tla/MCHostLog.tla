------------------------------ MODULE MCHostLog ------------------------------
(* Small instances of HostLog for TLC. *)
EXTENDS HostLog

=============================================================================
