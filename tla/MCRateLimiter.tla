--------------------------- MODULE MCRateLimiter ---------------------------
(* Instances of RateLimiter for TLC. *)
EXTENDS RateLimiter, TLC

\* The addresses are alike.
Symmetry == Permutations(Key)
=============================================================================
