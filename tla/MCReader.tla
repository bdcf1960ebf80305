------------------------------ MODULE MCReader ------------------------------
(* Instances of Reader for TLC; the .cfg files give the constants their values. *)
EXTENDS Reader, TLC

\* Pages are interchangeable.
Symmetry == Permutations(Threads)

=============================================================================
