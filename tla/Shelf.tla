------------------------------- MODULE Shelf -------------------------------
(***************************************************************************)
(* Where a visitor's messages go: what a page that follows links relies on *)
(* and the handlers of the server promise, without tables, order or mails. *)
(* A message stays where it was put and changes the status of no thread;   *)
(* a thread is begun with a message, only while its visitor has none open. *)
(* A follow-up goes where its link leads if that thread was open when it   *)
(* was looked up, and else where any message of this visitor would.        *)
(***************************************************************************)
VARIABLES
    open, archived,   \* threads, as pairs: the visitor, the thread
    filed,            \* pairs: a message of a visitor, the thread it is in
    found             \* follow-ups that have looked up their link

vars == <<open, archived, filed, found>>

begun == open \cup archived

Init == open \cap archived = {} /\ filed = {} /\ found = {}

\* A message for which only its visitor counts.
File(v, m, t) ==
    /\ filed' = filed \cup {<<m, t>>}
    /\ \/ <<v, t>> \in open /\ UNCHANGED open
       \/ /\ \A q \in open : q[1] # v
          /\ \A q \in begun : q[2] # t
          /\ open' = open \cup {<<v, t>>}
    /\ UNCHANGED archived

Submit(v, m, t) == File(v, m, t) /\ UNCHANGED found

LookUp(f) ==
    /\ \E q \in begun : f.thread = q[2] /\ f.open = (q \in open)
    /\ found' = found \cup {f}
    /\ UNCHANGED <<open, archived, filed>>

FollowUp(f, m, t) ==
    /\ found' = found \ {f}
    /\ \/ /\ f.open /\ t = f.thread
          /\ filed' = filed \cup {<<m, t>>}
          /\ UNCHANGED <<open, archived>>
       \/ /\ ~f.open
          /\ \E q \in begun : q[2] = f.thread /\ File(q[1], m, t)

GiveUp == found' \subseteq found /\ UNCHANGED <<open, archived, filed>>

\* Operators archive threads and take them back.
Archive(q) ==
    /\ open' = open \ {q} /\ archived' = archived \cup {q}
    /\ UNCHANGED <<filed, found>>

Unarchive(q) ==
    /\ archived' = archived \ {q} /\ open' = open \cup {q}
    /\ UNCHANGED <<filed, found>>

Next ==
    \/ \E p \in filed' :
           \/ \E q \in open' : Submit(q[1], p[1], p[2])
           \/ \E f \in found : FollowUp(f, p[1], p[2])
    \/ \E f \in found' : LookUp(f)
    \/ \E q \in begun : Archive(q) \/ Unarchive(q)
    \/ GiveUp

Spec == Init /\ [][Next]_vars
=============================================================================
