------------------------------- MODULE MCFiles -------------------------------
(* Instances of Files for TLC; the .cfg files give the constants their values. *)
EXTENDS Files

=============================================================================
