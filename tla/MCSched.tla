------------------------------- MODULE MCSched -------------------------------
(* Instances of Sched for TLC; the .cfg files give the constants their values. *)
EXTENDS Sched

=============================================================================
