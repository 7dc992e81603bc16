-------------------------------- MODULE Desk --------------------------------
(***************************************************************************)
(* What the support desk promises about the unread mark, without requests, *)
(* tables or timestamps: a posted message puts its conversation on the     *)
(* unread list at once, only showing messages to an operator takes a       *)
(* conversation off it, and only when all its messages have been shown.    *)
(***************************************************************************)
VARIABLES
    posted,    \* pairs: a message, the conversation it went to
    shown,     \* the pairs an operator has been shown
    unread     \* the conversations marked unread

vars == <<posted, shown, unread>>

PostedTo(c) == {p \in posted : p[2] = c}

Init == posted = {} /\ shown = {} /\ unread = {}

Post(p) ==
    /\ \A q \in posted : q[1] # p[1]
    /\ posted' = posted \cup {p}
    /\ unread' = unread \cup {p[2]}
    /\ UNCHANGED shown

\* Messages of one conversation are shown; its mark may stay.
Show(c) ==
    /\ shown \subseteq shown'
    /\ shown' \ shown \subseteq PostedTo(c)
    /\ \/ unread' = unread
       \/ PostedTo(c) \subseteq shown' /\ unread' = unread \ {c}
    /\ UNCHANGED posted

Next ==
    \/ \E p \in posted' : Post(p)
    \/ \E c \in unread \cup {p[2] : p \in posted} : Show(c)

Spec == Init /\ [][Next]_vars
=============================================================================
