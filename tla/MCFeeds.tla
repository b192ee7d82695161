------------------------------ MODULE MCFeeds -------------------------------
(* A small instance of Feeds for TLC. *)
EXTENDS Feeds

AllDone == [h \in Host |-> [t \in Task |-> Done]]

=============================================================================
