-------------------------------- MODULE Page --------------------------------
(***************************************************************************)
(* What the pages in a visitor's or an operator's browser have in common.  *)
(* Each request is answered once: as asked, refused by the server with an  *)
(* error of its own, or failed, when the network or the server gave up     *)
(* and nobody can tell whether the request was obeyed (ApiError with       *)
(* status 0 or 500).  fetch has no time limit of its own; a request that   *)
(* is never answered is left out.                                          *)
(*                                                                         *)
(* Whatever goes wrong, and whatever others do, is a mishap, counted up to *)
(* MaxMishaps.                                                             *)
(***************************************************************************)
EXTENDS Integers

CONSTANTS
    MaxDrafts,   \* bound on the texts a visitor types
    MaxMishaps   \* bound on what goes wrong

ASSUME PageBounds == MaxDrafts \in Nat /\ MaxMishaps \in Nat

VARIABLE mishaps

Answer == {"none", "ok", "refused", "failed"}

\* A text is the number of the draft it was typed as; 0 is a box that
\* validation rejects.
NoText == 0
Draft == 1 .. MaxDrafts
DraftOrNone == 0 .. MaxDrafts

Mishap == mishaps < MaxMishaps /\ mishaps' = mishaps + 1

\* Room for the requests of one kind; the pages mean to have one out.
Slot == {1, 2}

One(b) == IF b THEN 1 ELSE 0
=============================================================================
