------------------------------- MODULE Quota -------------------------------
(***************************************************************************)
(* What the rate limiter promises: every address has an allowance, full at *)
(* first, which every tick of the clock raises and every request that is   *)
(* let through lowers by the cost of a request; a request is let through   *)
(* exactly when the allowance covers it.  No buckets, no sweep, no         *)
(* computing of refills after the fact.                                    *)
(***************************************************************************)
EXTENDS Integers

CONSTANTS Key, Cost, Full, Refill

VARIABLES
    level,     \* the allowance of every address, in parts of a request
    answer     \* what was last answered, until the clock goes on

vars == <<level, answer>>

NoAnswer == <<>>

Init == level = [k \in Key |-> Full] /\ answer = NoAnswer

Tick ==
    /\ level' = [k \in Key |-> IF level[k] + Refill > Full THEN Full
                               ELSE level[k] + Refill]
    /\ answer' = NoAnswer

Pass(k) ==
    /\ level[k] >= Cost
    /\ level' = [level EXCEPT ![k] = level[k] - Cost]
    /\ answer' = <<k, TRUE>>

Refuse(k) ==
    /\ level[k] < Cost
    /\ answer' = <<k, FALSE>>
    /\ UNCHANGED level

Restart == level' = [k \in Key |-> Full] /\ answer' = NoAnswer

Next == Tick \/ Restart \/ \E k \in Key : Pass(k) \/ Refuse(k)

Spec == Init /\ [][Next]_vars
=============================================================================
