------------------------------ MODULE MCUsers ------------------------------
(* Users on a small instance. *)
EXTENDS Users, TLC

Symmetry == Permutations(Email) \cup Permutations(Slot)
=============================================================================
