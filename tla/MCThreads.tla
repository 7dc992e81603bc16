----------------------------- MODULE MCThreads -----------------------------
(* Threads on small instances, with model values for visitors and requests. *)
EXTENDS Threads, TLC

Symmetry == Permutations(Visitor) \cup Permutations(Slot)
=============================================================================
