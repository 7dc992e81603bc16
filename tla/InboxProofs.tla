---------------------------- MODULE InboxProofs ----------------------------
(***************************************************************************)
(* Proofs about the inbox page for any conversations and any bounds: the   *)
(* invariant of the requests in flight, the spinners, what is on screen,   *)
(* and what happens to a draft.                                            *)
(***************************************************************************)
EXTENDS Inbox, TLAPS

Calls == [Slot -> Call \cup {NoCall}]

-----------------------------------------------------------------------------
(* Requests. *)

LEMMA RowsType == NoRows \in Rows /\ \A tab \in Status : TypeOK => Listed(tab) \in Rows
<1>1. NoRows \in [{} -> BOOLEAN]
  BY DEF NoRows
<1>2. NoRows \in Rows
  <2>1. {} \in SUBSET Conv
    OBVIOUS
  <2> QED BY <1>1, <2>1 DEF Rows
<1>3. ASSUME NEW tab \in Status, TypeOK PROVE Listed(tab) \in Rows
  <2> DEFINE ids == {k \in Conv : desk[k].status = tab}
  <2>1. \A k \in Conv : desk[k].unread \in BOOLEAN
    <3>1. desk \in [Conv -> Row \cup {Absent}]
      BY <1>3 DEF TypeOK
    <3>2. \A r \in Row : r.unread \in BOOLEAN
      BY DEF Row
    <3>3. Absent.unread \in BOOLEAN
      BY DEF Absent
    <3> QED BY <3>1, <3>2, <3>3
  <2>2. Listed(tab) \in [ids -> BOOLEAN]
    BY <2>1 DEF Listed
  <2>3. ids \in SUBSET Conv
    OBVIOUS
  <2> QED BY <2>2, <2>3 DEF Rows
<1> QED BY <1>2, <1>3

\* A request for a list fills its slot and no other.
LEMMA AskListCalls ==
    ASSUME NEW cs \in Calls, NEW s \in Slot, NEW tab \in Status, NEW then \in Then,
           NEW id \in OrNone
    PROVE  LET new == AskList(cs, s, tab, then, id) IN
           /\ new \in Calls
           /\ \A t \in Slot \ {s} : new[t] = cs[t]
           /\ new[s].op = "list" /\ new[s].tab = tab /\ new[s].then = then /\ new[s].id = id
           /\ new[s] # NoCall
<1> DEFINE c == [op |-> "list", tab |-> tab, then |-> then, id |-> id, answer |-> "none",
                 rows |-> NoRows]
<1>1. c \in ListCall
  BY RowsType DEF ListCall, Answer
<1>2. c \in Call
  BY <1>1 DEF Call
<1>3. c # NoCall
  BY DEF NoCall
<1> HIDE DEF c
<1>4. AskList(cs, s, tab, then, id) = [cs EXCEPT ![s] = c]
  BY DEF AskList, c
<1>5. c.op = "list" /\ c.tab = tab /\ c.then = then /\ c.id = id
  BY DEF c
<1> QED BY <1>2, <1>3, <1>4, <1>5 DEF Calls

LEMMA AskDetailCalls ==
    ASSUME NEW cs \in Calls, NEW s \in Slot, NEW id \in Conv, NEW then \in Then
    PROVE  LET new == AskDetail(cs, s, id, then) IN
           /\ new \in Calls
           /\ \A t \in Slot \ {s} : new[t] = cs[t]
           /\ new[s].op = "load" /\ new[s].then = then /\ new[s].id = id
           /\ new[s] # NoCall
<1> DEFINE c == [op |-> "load", id |-> id, then |-> then, answer |-> "none", status |-> "open"]
<1>1. c \in LoadCall
  BY DEF LoadCall, Answer, Status
<1>2. c \in Call
  BY <1>1 DEF Call
<1>3. c # NoCall
  BY DEF NoCall
<1> HIDE DEF c
<1>4. AskDetail(cs, s, id, then) = [cs EXCEPT ![s] = c]
  BY DEF AskDetail, c
<1>5. c.op = "load" /\ c.then = then /\ c.id = id
  BY DEF c
<1> QED BY <1>2, <1>3, <1>4, <1>5 DEF Calls

LEMMA EndCalls ==
    ASSUME NEW cs \in Calls, NEW s \in Slot
    PROVE  /\ End(cs, s) \in Calls
           /\ \A t \in Slot \ {s} : End(cs, s)[t] = cs[t]
           /\ End(cs, s)[s] = NoCall /\ End(cs, s)[s].op = "none"
BY DEF End, Calls, NoCall

\* An answer, and a failure, keep what the request is.
Same(c, d) ==
    /\ d \in Call
    /\ d.op = c.op
    /\ c.op = "list" => d.tab = c.tab
    /\ c.op # "list" => d.id = c.id
    /\ c.op \in {"list", "load"} => d.then = c.then

LEMMA WithAnswer ==
    ASSUME NEW c \in Call, NEW code \in Answer
    PROVE  Same(c, [c EXCEPT !.answer = code])
<1>1. CASE c \in ListCall
  BY <1>1 DEF Same, Call, ListCall
<1>2. CASE c \in LoadCall
  BY <1>2 DEF Same, Call, LoadCall
<1>3. CASE c \in ReplyCall
  BY <1>3 DEF Same, Call, ReplyCall
<1>4. CASE c \in ArchiveCall
  BY <1>4 DEF Same, Call, ArchiveCall
<1> QED BY <1>1, <1>2, <1>3, <1>4 DEF Call

LEMMA FilledSame ==
    ASSUME TypeOK, NEW c \in Call
    PROVE  Same(c, Filled(c))
<1>1. CASE c \in ListCall
  <2>1. Listed(c.tab) \in Rows
    BY <1>1, RowsType DEF ListCall
  <2>2. Filled(c) = [c EXCEPT !.rows = Listed(c.tab)]
    BY <1>1 DEF Filled, ListCall
  <2> QED BY <1>1, <2>1, <2>2 DEF Same, Call, ListCall
<1>2. CASE c \in LoadCall /\ Exists(c.id)
  <2>1. desk \in [Conv -> Row \cup {Absent}]
    BY DEF TypeOK
  <2>2. desk[c.id].status \in Status
    BY <1>2, <2>1 DEF LoadCall, Exists, Row
  <2>3. Filled(c) = [c EXCEPT !.status = desk[c.id].status]
    BY <1>2 DEF Filled, LoadCall
  <2> QED BY <1>2, <2>2, <2>3 DEF Same, Call, LoadCall
<1>3. CASE c \notin ListCall /\ ~(c \in LoadCall /\ Exists(c.id))
  <2>1. c.op # "list" /\ ~(c.op = "load" /\ Exists(c.id))
    BY <1>3 DEF Call, ListCall, LoadCall, ReplyCall, ArchiveCall
  <2>2. Filled(c) = c
    BY <2>1 DEF Filled
  <2> QED BY <2>2 DEF Same
<1> QED BY <1>1, <1>2, <1>3

LEMMA AnsweredSame ==
    ASSUME TypeOK, NEW c \in Call
    PROVE  Same(c, Answered(c))
<1>1. Same(c, Filled(c))
  BY FilledSame
<1>2. Code(c) \in Answer
  BY DEF Code, Answer
<1>3. Filled(c) \in Call
  BY <1>1 DEF Same
<1>4. Same(Filled(c), Answered(c))
  BY <1>2, <1>3, WithAnswer DEF Answered
<1> QED BY <1>1, <1>4 DEF Same

\* A request is known by its operation.
LEMMA ByOperation ==
    ASSUME NEW c \in Call \cup {NoCall}
    PROVE  /\ c.op = "list" => c \in ListCall
           /\ c.op = "load" => c \in LoadCall
           /\ c.op = "reply" => c \in ReplyCall
           /\ c.op = "archive" => c \in ArchiveCall
           /\ c.op = "none" <=> c = NoCall
BY DEF Call, ListCall, LoadCall, ReplyCall, ArchiveCall, NoCall

LEMMA MarkedType ==
    ASSUME NEW r \in Rows, NEW id
    PROVE  [k \in DOMAIN r |-> r[k] /\ k # id] \in Rows
<1>1. PICK ids \in SUBSET Conv : r \in [ids -> BOOLEAN]
  BY DEF Rows
<1>2. [k \in DOMAIN r |-> r[k] /\ k # id] \in [ids -> BOOLEAN]
  BY <1>1
<1> QED BY <1>2 DEF Rows

-----------------------------------------------------------------------------
(* The pieces of the invariant, one at a time. *)

\* A request that goes on, an empty slot, or a new request nobody's reply waits
\* for.
Quiet(t) ==
    \/ call'[t] = call[t]
    \/ call'[t] = NoCall
    \/ t # 0 /\ call'[t].op # "reply" /\ ~Awaited(call'[t])
    \/ Same(call[t], call'[t]) /\ call[t] # NoCall

LEMMA ReplyKept ==
    ASSUME TypeOK, ReplyInOrder, call' \in Calls, \A t \in Slot : Quiet(t),
           sending' = sending, detailError' = detailError \/ detailError' # "reply",
           sending /\ draft' # None => sent' = draft'
    PROVE  ReplyInOrder'
<1>1. \A t \in Slot : /\ call'[t].op = "reply" => call[t].op = "reply"
                      /\ Awaited(call'[t]) => Awaited(call[t])
  BY DEF Quiet, Same, Awaited, NoCall
<1>2. call'[0] # NoCall => call'[0].op = "load" /\ call'[0].then = "reply"
  <2>1. 0 \in Slot
    BY InboxBounds DEF Slot
  <2>2. Quiet(0)
    BY <2>1
  <2> QED BY <2>2 DEF Quiet, Same, ReplyInOrder
<1>3. (\A s \in Slot : call[s].op = "reply" \/ Awaited(call[s]) => sending)'
  BY <1>1 DEF ReplyInOrder
<1>4. (\A s, t \in Slot : call[s].op = "reply" =>
           ~Awaited(call[t]) /\ (call[t].op = "reply" => s = t))'
  BY <1>1 DEF ReplyInOrder
<1>5. ((\E s \in Slot : Awaited(call[s])) => detailError # "reply")'
  BY <1>1 DEF ReplyInOrder
<1> QED BY <1>2, <1>3, <1>4, <1>5 DEF ReplyInOrder

\* A spinner that was turning goes on for the same request.
LEMMA DetailSpinnerKept ==
    ASSUME SpinnersHonest, detailLoading' => detailLoading, activeId' = activeId,
           \A t \in Slot : call[t].op = "load" => call'[t].op = "load" /\ call'[t].id = call[t].id
    PROVE  (detailLoading => \E s \in Slot : call[s].op = "load" /\ call[s].id = activeId)'
BY DEF SpinnersHonest, Slot

LEMMA ListSpinnerKept ==
    ASSUME SpinnersHonest, listLoading' => listLoading, status' = status,
           \A t \in Slot : call[t].op = "list" => call'[t].op = "list" /\ call'[t].tab = call[t].tab
    PROVE  (listLoading => \E s \in Slot : call[s].op = "list" /\ call[s].tab = status)'
BY DEF SpinnersHonest, Slot

LEMMA DraftUnderType ==
    ASSUME TypeOK, DraftOfShown, NEW detail \in Detail \cup {None}
    PROVE  /\ DraftUnder(detail) \in OrNone
           /\ DraftUnder(detail) # None =>
                  DraftUnder(detail) = draft /\ detail # None /\ detail.id = draft
BY NoneAssumption DEF DraftUnder, IdOf, OrNone, TypeOK, DraftOfShown, Detail

\* What loadActive has done when it awaits, or returns.
LEMMA LoadActiveEffect ==
    ASSUME TypeOK, DraftOfShown, NEW cs \in Calls, NEW s \in Slot, NEW id \in OrNone,
           NEW then \in Then, NEW error \in Error, LoadActive(cs, s, id, then, error)
    PROVE  /\ call' \in Calls
           /\ \A t \in Slot \ {s} : call'[t] = cs[t]
           /\ id = None => call' = cs /\ detailError' = NoError /\ active' = None
           /\ id # None => /\ call'[s].op = "load" /\ call'[s].then = then /\ call'[s].id = id
                           /\ detailError' = error /\ active' = active /\ draft' = draft
           /\ detailLoading' \in BOOLEAN /\ (detailLoading' => id # None)
           /\ id # None => detailLoading'
           /\ active' \in Detail \cup {None}
           /\ draft' \in OrNone
           /\ draft' # None => draft' = draft
           /\ DraftOfShown'
<1>1. CASE id = None
  <2>1. /\ active' = None /\ draft' = DraftUnder(None) /\ detailError' = NoError
        /\ detailLoading' = FALSE /\ call' = cs
    BY <1>1 DEF LoadActive
  <2>2. draft' = None
    BY <2>1, DraftUnderType
  <2> QED BY <1>1, <2>1, <2>2 DEF DraftOfShown, OrNone
<1>2. CASE id # None
  <2>1. /\ detailLoading' = TRUE /\ detailError' = error
        /\ call' = AskDetail(cs, s, id, then) /\ active' = active /\ draft' = draft
    BY <1>2 DEF LoadActive
  <2>2. id \in Conv
    BY <1>2 DEF OrNone
  <2>3. active \in Detail \cup {None} /\ draft \in OrNone
    BY DEF TypeOK
  <2>4. /\ call' \in Calls
        /\ \A t \in Slot \ {s} : call'[t] = cs[t]
        /\ call'[s].op = "load" /\ call'[s].then = then /\ call'[s].id = id
    BY <2>1, <2>2, AskDetailCalls
  <2>5. DraftOfShown'
    BY <2>1 DEF DraftOfShown
  <2> QED BY <1>2, <2>1, <2>3, <2>4, <2>5
<1> QED BY <1>1, <1>2

LEMMA CloseEffect ==
    ASSUME TypeOK, DraftOfShown, CloseDetail
    PROVE  /\ activeId' = None /\ active' = None /\ draft' = None
           /\ detailError' = NoError /\ detailLoading' = FALSE
           /\ DraftOfShown'
<1>1. draft' = None
  BY DraftUnderType DEF CloseDetail
<1> QED BY <1>1 DEF CloseDetail, DraftOfShown

LEMMA CallsType == TypeOK => call \in Calls
BY DEF TypeOK, Calls

\* A step that starts a load of the row it selects, or shows nothing.
LEMMA LoadStep ==
    ASSUME IInv, NEW s \in Slot, s # 0, call[s] = NoCall, NEW id \in OrNone, NEW then \in Then \ {"reply"},
           NEW cs \in Calls, cs[s] = NoCall,
           \A t \in Slot : cs[t] = call[t]
               \/ (call[t] = NoCall /\ t # 0 /\ cs[t].op = "list" /\ ~Awaited(cs[t])),
           LoadActive(cs, s, id, then, detailError), activeId' = id,
           UNCHANGED <<sending, sent, status, listLoading>>
    PROVE  /\ SpinnersHonest' /\ ShownIsSelectedOrTold' /\ DraftOfShown' /\ ReplyInOrder'
<1> USE DEF IInv
<1>1. detailError \in Error
  BY DEF TypeOK
<1>2. /\ call' \in Calls
      /\ \A t \in Slot \ {s} : call'[t] = cs[t]
      /\ id = None => call' = cs /\ detailError' = NoError /\ active' = None
      /\ id # None => /\ call'[s].op = "load" /\ call'[s].then = then /\ call'[s].id = id
                      /\ detailError' = detailError /\ active' = active /\ draft' = draft
      /\ detailLoading' => id # None
      /\ id # None => detailLoading'
      /\ draft' # None => draft' = draft
      /\ DraftOfShown'
  BY <1>1, LoadActiveEffect
<1>3. s # 0 /\ call[s] = NoCall
  OBVIOUS
<1>4. \A t \in Slot : Quiet(t)
  <2> SUFFICES ASSUME NEW t \in Slot PROVE Quiet(t)
    OBVIOUS
  <2>1. CASE t = s /\ id # None
    BY <1>2, <1>3, <2>1 DEF Quiet, Awaited
  <2>2. CASE t # s \/ id = None
    <3>1. call'[t] = cs[t]
      BY <1>2, <2>2
    <3> QED BY <3>1 DEF Quiet
  <2> QED BY <2>1, <2>2
<1>5. ReplyInOrder'
  <2>1. detailError' = detailError \/ detailError' # "reply"
    BY <1>2 DEF NoError
  <2>2. sending /\ draft' # None => sent' = draft'
    BY <1>2 DEF ReplyInOrder
  <2> QED BY <1>2, <1>4, <2>1, <2>2, ReplyKept
<1>6. (detailLoading => \E t \in Slot : call[t].op = "load" /\ call[t].id = activeId)'
  BY <1>2 DEF Slot
<1>7. (listLoading => \E t \in Slot : call[t].op = "list" /\ call[t].tab = status)'
  <2>1. \A t \in Slot : call[t].op = "list" => call'[t] = call[t]
    BY <1>2, <1>3 DEF NoCall
  <2> QED BY <2>1, ListSpinnerKept
<1>8. ShownIsSelectedOrTold'
  BY <1>2 DEF ShownIsSelectedOrTold
<1> QED BY <1>2, <1>5, <1>6, <1>7, <1>8 DEF SpinnersHonest

-----------------------------------------------------------------------------
(* One lemma for each action. *)

LEMMA ActType == Act /\ TypeOK => acts' \in 0 .. MaxActs
BY InboxBounds DEF Act, TypeOK

LEMMA EventType == Event /\ TypeOK => events' \in 0 .. MaxEvents
BY InboxBounds DEF Event, TypeOK

LEMMA InitInv == Init => IInv
<1> SUFFICES ASSUME Init PROVE IInv
  OBVIOUS
<1> DEFINE none == [s \in Slot |-> NoCall]
           listed == AskList(none, 1, "open", "done", None)
<1>1. 0 \in Slot /\ 1 \in Slot /\ 2 \in Slot
  BY InboxBounds DEF Slot
<1>2. none \in Calls /\ \A t \in Slot : none[t] = NoCall
  BY DEF Calls
<1>3. None \in OrNone /\ "open" \in Status /\ "done" \in Then
  BY DEF OrNone, Status, Then
<1>4. /\ listed \in Calls
      /\ \A t \in Slot \ {1} : listed[t] = NoCall
      /\ listed[1].op = "list" /\ listed[1].tab = "open" /\ listed[1].then = "done"
  <2> HIDE DEF none
  <2> QED BY <1>1, <1>2, <1>3, AskListCalls
<1>5. /\ call \in Calls
      /\ \A t \in Slot \ {1, 2} : call[t] = NoCall
      /\ call[1].op = "list" /\ call[1].tab = "open" /\ call[1].then = "done"
      /\ activeId = None => call[2] = NoCall
      /\ activeId # None => call[2].op = "load" /\ call[2].id = activeId /\ call[2].then = "done"
  <2> HIDE DEF listed
  <2>1. CASE activeId = None
    <3>1. call = listed
      BY <2>1 DEF Init, listed
    <3> QED BY <1>1, <1>4, <2>1, <3>1
  <2>2. CASE activeId # None
    <3>1. call = AskDetail(listed, 2, activeId, "done")
      BY <2>2 DEF Init, listed
    <3>2. activeId \in Conv
      BY <2>2 DEF Init, OrNone
    <3> QED BY <1>1, <1>3, <1>4, <2>2, <3>1, <3>2, AskDetailCalls
  <2> QED BY <2>1, <2>2
<1>6. TypeOK
  <2>1. desk \in [Conv -> Row \cup {Absent}]
    <3> DEFINE new == [status |-> "open", unread |-> TRUE]
    <3>1. new \in Row
      BY DEF Row, Status
    <3>2. desk \in [Conv -> {Absent, new}]
      BY DEF Init
    <3> HIDE DEF new
    <3> QED BY <3>1, <3>2
  <2>2. rows \in Rows
    BY RowsType DEF Init
  <2>3. acts \in 0 .. MaxActs /\ events \in 0 .. MaxEvents
    BY InboxBounds DEF Init
  <2>4. detailError \in Error /\ status \in Status
    BY DEF Init, Error, Status
  <2>5. detailLoading \in BOOLEAN
    BY DEF Init
  <2> QED BY <1>3, <1>5, <2>1, <2>2, <2>3, <2>4, <2>5 DEF TypeOK, Calls, Init
<1>7. SpinnersHonest
  BY <1>1, <1>5 DEF SpinnersHonest, Init
<1>8. ShownIsSelectedOrTold /\ DraftOfShown
  BY DEF ShownIsSelectedOrTold, DraftOfShown, Init
<1>9. ReplyInOrder
  <2>1. \A t \in Slot : call[t].op # "reply" /\ ~Awaited(call[t])
    BY <1>5 DEF Awaited, NoCall
  <2>2. call[0] = NoCall
    BY <1>1, <1>5
  <2> QED BY <2>1, <2>2 DEF ReplyInOrder, Init
<1> QED BY <1>6, <1>7, <1>8, <1>9 DEF IInv

LEMMA SelectInv == ASSUME IInv, NEW id \in Conv, Select(id) PROVE IInv'
<1>1. TypeOK /\ DraftOfShown /\ call \in Calls
  BY CallsType DEF IInv
<1>2. id \in OrNone /\ "done" \in Then \ {"reply"} /\ detailError \in Error
  BY <1>1 DEF OrNone, Then, TypeOK
<1>3. PICK s \in Slot : Free(s) /\ LoadActive(call, s, id, "done", detailError)
  BY DEF Select
<1>4. SpinnersHonest' /\ ShownIsSelectedOrTold' /\ DraftOfShown' /\ ReplyInOrder'
  <2>1. call[s] = NoCall /\ s # 0
    BY <1>3 DEF Free, Slot
  <2> QED BY <1>1, <1>2, <1>3, <2>1, LoadStep DEF Select, listPane
<1>5. TypeOK'
  <2>1. /\ call' \in Calls /\ detailLoading' \in BOOLEAN /\ active' \in Detail \cup {None}
        /\ draft' \in OrNone /\ (detailError' = detailError \/ detailError' = NoError)
    BY <1>1, <1>2, <1>3, LoadActiveEffect
  <2>2. acts' \in 0 .. MaxActs
    BY <1>1, ActType DEF Select
  <2> QED BY <1>1, <1>2, <2>1, <2>2 DEF TypeOK, Select, Calls, server, listPane, Error, NoError
<1> QED BY <1>4, <1>5 DEF IInv

LEMMA PopStateInv == ASSUME IInv, NEW id \in OrNone, PopState(id) PROVE IInv'
<1>1. TypeOK /\ DraftOfShown /\ call \in Calls
  BY CallsType DEF IInv
<1>2. "done" \in Then \ {"reply"} /\ detailError \in Error
  BY <1>1 DEF Then, TypeOK
<1>3. PICK s \in Slot : Free(s) /\ LoadActive(call, s, id, "done", detailError)
  BY DEF PopState
<1>4. SpinnersHonest' /\ ShownIsSelectedOrTold' /\ DraftOfShown' /\ ReplyInOrder'
  <2>1. call[s] = NoCall /\ s # 0
    BY <1>3 DEF Free, Slot
  <2> QED BY <1>1, <1>2, <1>3, <2>1, LoadStep DEF PopState, listPane
<1>5. TypeOK'
  <2>1. /\ call' \in Calls /\ detailLoading' \in BOOLEAN /\ active' \in Detail \cup {None}
        /\ draft' \in OrNone /\ (detailError' = detailError \/ detailError' = NoError)
    BY <1>1, <1>2, <1>3, LoadActiveEffect
  <2>2. acts' \in 0 .. MaxActs
    BY <1>1, ActType DEF PopState
  <2> QED BY <1>1, <1>2, <2>1, <2>2 DEF TypeOK, PopState, Calls, server, listPane, pollings, Error, NoError
<1> QED BY <1>4, <1>5 DEF IInv

LEMMA CloseInv == ASSUME IInv, Close PROVE IInv'
<1> USE DEF Close
<1>1. TypeOK /\ DraftOfShown /\ call \in Calls /\ UNCHANGED call
  BY CallsType DEF IInv
<1>2. /\ activeId' = None /\ active' = None /\ draft' = None
      /\ detailError' = NoError /\ detailLoading' = FALSE
      /\ DraftOfShown'
  BY <1>1, CloseEffect
<1>3. TypeOK'
  <2>1. acts' \in 0 .. MaxActs
    BY <1>1, ActType
  <2> QED BY <1>1, <1>2, <2>1 DEF TypeOK, server, listPane, Error, NoError, OrNone
<1>4. SpinnersHonest' /\ ShownIsSelectedOrTold'
  BY <1>1, <1>2 DEF IInv, SpinnersHonest, ShownIsSelectedOrTold, listPane
<1>5. ReplyInOrder'
  <2>1. \A t \in Slot : Quiet(t)
    BY <1>1 DEF Quiet
  <2>2. UNCHANGED sending /\ detailError' # "reply"
    BY <1>2 DEF NoError
  <2> QED BY <1>1, <1>2, <2>1, <2>2, ReplyKept DEF IInv
<1> QED BY <1>2, <1>3, <1>4, <1>5 DEF IInv

LEMMA SwitchTabInv == ASSUME IInv, NEW tab \in Status, SwitchTab(tab) PROVE IInv'
<1>1. TypeOK /\ DraftOfShown /\ call \in Calls
  BY CallsType DEF IInv
<1>2. PICK s \in Slot : Free(s) /\ call' = AskList(call, s, tab, "done", None)
  BY DEF SwitchTab
<1>3. None \in OrNone /\ "done" \in Then
  BY DEF OrNone, Then
<1>4. /\ call' \in Calls
      /\ \A t \in Slot \ {s} : call'[t] = call[t]
      /\ call'[s].op = "list" /\ call'[s].tab = tab /\ call'[s].then = "done"
      /\ s # 0 /\ call[s] = NoCall
  BY <1>1, <1>2, <1>3, AskListCalls DEF Free
<1>5. TypeOK'
  <2>1. acts' \in 0 .. MaxActs
    BY <1>1, ActType DEF SwitchTab
  <2> QED BY <1>1, <1>4, <2>1 DEF TypeOK, Calls, SwitchTab, server, detailPane, pollings
<1>6. SpinnersHonest'
  <2>1. \A t \in Slot : call[t].op = "load" => call'[t] = call[t]
    BY <1>4 DEF NoCall
  <2>2. (detailLoading => \E t \in Slot : call[t].op = "load" /\ call[t].id = activeId)'
    BY <2>1, DetailSpinnerKept DEF IInv, SwitchTab, detailPane
  <2> QED BY <1>4, <2>2 DEF SpinnersHonest, SwitchTab
<1>7. ReplyInOrder'
  <2>1. \A t \in Slot : Quiet(t)
    BY <1>4 DEF Quiet, Awaited
  <2>2. UNCHANGED <<sending, sent, draft, detailError>>
    BY DEF SwitchTab, detailPane
  <2>3. sending /\ draft' # None => sent' = draft'
    BY <2>2 DEF IInv, ReplyInOrder
  <2> QED BY <1>1, <1>4, <2>1, <2>2, <2>3, ReplyKept DEF IInv
<1>8. ShownIsSelectedOrTold' /\ DraftOfShown'
  BY DEF IInv, ShownIsSelectedOrTold, DraftOfShown, SwitchTab, detailPane
<1> QED BY <1>5, <1>6, <1>7, <1>8 DEF IInv

LEMMA TypeInv == ASSUME IInv, Type PROVE IInv'
<1> USE DEF Type
<1>1. UNCHANGED <<call, activeId, active, detailLoading, detailError, sending, sent>>
  OBVIOUS
<1>2. TypeOK'
  <2>1. active \in Detail
    BY DEF CanType, IInv, TypeOK
  <2>2. draft' \in OrNone
    BY <2>1 DEF Detail, OrNone
  <2> QED BY <2>2 DEF IInv, TypeOK, server, listPane, pollings
<1>3. SpinnersHonest' /\ ShownIsSelectedOrTold' /\ DraftOfShown'
  BY DEF IInv, SpinnersHonest, ShownIsSelectedOrTold, DraftOfShown, listPane, CanType
<1>4. ReplyInOrder'
  BY <1>1 DEF IInv, ReplyInOrder, CanType
<1> QED BY <1>2, <1>3, <1>4 DEF IInv

LEMMA SendInv == ASSUME IInv, Send PROVE IInv'
<1>1. TypeOK /\ call \in Calls
  BY CallsType DEF IInv
<1> DEFINE c == [op |-> "reply", id |-> activeId, answer |-> "none"]
<1>2. PICK s \in Slot : Free(s) /\ call' = [call EXCEPT ![s] = c]
  BY DEF Send
<1>3. c \in Call /\ c.op = "reply" /\ ~Awaited(c)
  BY <1>1 DEF Call, ReplyCall, Answer, Awaited, Send, TypeOK, OrNone
<1>4. /\ call' \in Calls
      /\ \A t \in Slot \ {s} : call'[t] = call[t]
      /\ call'[s].op = "reply" /\ ~Awaited(call'[s])
      /\ s # 0 /\ call[s] = NoCall
  <2> HIDE DEF c
  <2> QED BY <1>1, <1>2, <1>3 DEF Free, Calls
<1>5. UNCHANGED <<activeId, active, detailLoading, detailError, draft>> /\ UNCHANGED listPane
  BY DEF Send
<1>6. TypeOK'
  <2>1. acts' \in 0 .. MaxActs
    BY <1>1, ActType DEF Send
  <2> QED BY <1>1, <1>4, <1>5, <2>1 DEF TypeOK, Calls, Send, server, listPane, pollings
<1>7. SpinnersHonest'
  <2>1. \A t \in Slot : call[t].op \in {"list", "load"} => call'[t] = call[t]
    BY <1>4 DEF NoCall
  <2>2. (detailLoading => \E t \in Slot : call[t].op = "load" /\ call[t].id = activeId)'
    BY <1>5, <2>1, DetailSpinnerKept DEF IInv
  <2>3. (listLoading => \E t \in Slot : call[t].op = "list" /\ call[t].tab = status)'
    BY <1>5, <2>1, ListSpinnerKept DEF IInv, listPane
  <2> QED BY <2>2, <2>3 DEF SpinnersHonest
<1>8. ReplyInOrder'
  <2>1. ~sending /\ sending' /\ sent' = draft
    BY DEF Send
  <2>2. \A t \in Slot : call[t].op # "reply" /\ ~Awaited(call[t])
    BY <2>1 DEF IInv, ReplyInOrder
  <2>3. \A t \in Slot : ~Awaited(call'[t]) /\ (call'[t].op = "reply" => t = s)
    BY <1>4, <2>2
  <2>4. call'[0] # NoCall => call'[0].op = "load" /\ call'[0].then = "reply"
    BY <1>4, InboxBounds DEF IInv, ReplyInOrder, Slot
  <2> QED BY <1>5, <2>1, <2>3, <2>4 DEF ReplyInOrder
<1>9. ShownIsSelectedOrTold' /\ DraftOfShown'
  BY <1>5 DEF IInv, ShownIsSelectedOrTold, DraftOfShown
<1> QED BY <1>6, <1>7, <1>8, <1>9 DEF IInv

LEMMA ArchiveInv == ASSUME IInv, Archive PROVE IInv'
<1>1. TypeOK /\ call \in Calls
  BY CallsType DEF IInv
<1> DEFINE c == [op |-> "archive", id |-> activeId, answer |-> "none",
                 to |-> IF active.status = "archived" THEN "open" ELSE "archived"]
<1>2. PICK s \in Slot : Free(s) /\ call' = [call EXCEPT ![s] = c]
  BY DEF Archive
<1>3. c \in Call /\ c.op = "archive"
  BY <1>1 DEF Call, ArchiveCall, Answer, Status, Archive, TypeOK, OrNone
<1>4. /\ call' \in Calls
      /\ \A t \in Slot \ {s} : call'[t] = call[t]
      /\ call'[s].op = "archive"
      /\ s # 0 /\ call[s] = NoCall
  <2> HIDE DEF c
  <2> QED BY <1>1, <1>2, <1>3 DEF Free, Calls
<1>5. UNCHANGED detailPane /\ UNCHANGED listPane
  BY DEF Archive
<1>6. TypeOK'
  <2>1. acts' \in 0 .. MaxActs
    BY <1>1, ActType DEF Archive
  <2> QED BY <1>1, <1>4, <1>5, <2>1 DEF TypeOK, Calls, Archive, server, listPane, detailPane, pollings
<1>7. SpinnersHonest'
  <2>1. \A t \in Slot : call[t].op \in {"list", "load"} => call'[t] = call[t]
    BY <1>4 DEF NoCall
  <2>2. (detailLoading => \E t \in Slot : call[t].op = "load" /\ call[t].id = activeId)'
    BY <1>5, <2>1, DetailSpinnerKept DEF IInv, detailPane
  <2>3. (listLoading => \E t \in Slot : call[t].op = "list" /\ call[t].tab = status)'
    BY <1>5, <2>1, ListSpinnerKept DEF IInv, listPane
  <2> QED BY <2>2, <2>3 DEF SpinnersHonest
<1>8. ReplyInOrder'
  <2>1. \A t \in Slot : Quiet(t)
    BY <1>4 DEF Quiet, Awaited
  <2>2. sending /\ draft' # None => sent' = draft'
    BY <1>5 DEF IInv, ReplyInOrder, detailPane
  <2> QED BY <1>1, <1>4, <1>5, <2>1, <2>2, ReplyKept DEF IInv, detailPane
<1>9. ShownIsSelectedOrTold' /\ DraftOfShown'
  BY <1>5 DEF IInv, ShownIsSelectedOrTold, DraftOfShown, detailPane
<1> QED BY <1>6, <1>7, <1>8, <1>9 DEF IInv

LEMMA TickInv == ASSUME IInv, Tick PROVE IInv'
<1>1. TypeOK /\ call \in Calls
  BY CallsType DEF IInv
<1>2. PICK s \in Slot : Free(s) /\ call' = AskList(call, s, status, "poll", None)
  BY DEF Tick
<1>3. None \in OrNone /\ "poll" \in Then /\ status \in Status
  BY <1>1 DEF OrNone, Then, TypeOK
<1>4. /\ call' \in Calls
      /\ \A t \in Slot \ {s} : call'[t] = call[t]
      /\ call'[s].op = "list" /\ call'[s].then = "poll"
      /\ s # 0 /\ call[s] = NoCall
  BY <1>1, <1>2, <1>3, AskListCalls DEF Free
<1>5. UNCHANGED detailPane /\ UNCHANGED listPane
  BY DEF Tick
<1>6. TypeOK'
  BY <1>1, <1>4, <1>5 DEF TypeOK, Calls, Tick, server, listPane, detailPane
<1>7. SpinnersHonest'
  <2>1. \A t \in Slot : call[t].op \in {"list", "load"} => call'[t] = call[t]
    BY <1>4 DEF NoCall
  <2>2. (detailLoading => \E t \in Slot : call[t].op = "load" /\ call[t].id = activeId)'
    BY <1>5, <2>1, DetailSpinnerKept DEF IInv, detailPane
  <2>3. (listLoading => \E t \in Slot : call[t].op = "list" /\ call[t].tab = status)'
    BY <1>5, <2>1, ListSpinnerKept DEF IInv, listPane
  <2> QED BY <2>2, <2>3 DEF SpinnersHonest
<1>8. ReplyInOrder'
  <2>1. \A t \in Slot : Quiet(t)
    BY <1>4 DEF Quiet, Awaited
  <2>2. sending /\ draft' # None => sent' = draft'
    BY <1>5 DEF IInv, ReplyInOrder, detailPane
  <2> QED BY <1>1, <1>4, <1>5, <2>1, <2>2, ReplyKept DEF IInv, detailPane
<1>9. ShownIsSelectedOrTold' /\ DraftOfShown'
  BY <1>5 DEF IInv, ShownIsSelectedOrTold, DraftOfShown, detailPane
<1> QED BY <1>6, <1>7, <1>8, <1>9 DEF IInv

\* Both pollings: the list in slot s, the conversation in slot t.
LEMMA FocusInv == ASSUME IInv, Focus PROVE IInv'
<1>1. TypeOK /\ DraftOfShown /\ call \in Calls
  BY CallsType DEF IInv
<1>2. PICK s \in Slot, t \in Slot :
        /\ Free(s) /\ FreeNext(s, t)
        /\ LET calls == IF listRunning THEN call ELSE AskList(call, s, status, "poll", None)
           IN  IF detailRunning
               THEN call' = calls /\ UNCHANGED <<active, draft, detailError, detailLoading>>
               ELSE LoadActive(calls, t, activeId, "poll", detailError)
  BY DEF Focus
<1> DEFINE calls == IF listRunning THEN call ELSE AskList(call, s, status, "poll", None)
<1>3. /\ None \in OrNone /\ "poll" \in Then \ {"reply"} /\ status \in Status
      /\ activeId \in OrNone /\ detailError \in Error
  BY <1>1 DEF OrNone, Then, TypeOK
<1>4. s # 0 /\ t # 0 /\ s # t /\ call[s] = NoCall /\ call[t] = NoCall
  BY <1>2 DEF Free, FreeNext, Slot
<1>5. /\ calls \in Calls
      /\ \A u \in Slot \ {s} : calls[u] = call[u]
      /\ calls[s] = call[s] \/ (calls[s].op = "list" /\ calls[s].then = "poll")
  BY <1>1, <1>3, AskListCalls
<1>6. /\ UNCHANGED <<sending, sent, status, listLoading>> /\ activeId' = activeId
      /\ UNCHANGED <<server, rows, listError>>
      /\ listRunning' \in BOOLEAN /\ detailRunning' \in BOOLEAN
  BY DEF Focus, listPane
<1>7. acts' \in 0 .. MaxActs
  BY <1>1, ActType DEF Focus
<1>8. CASE detailRunning
  <2>1. call' = calls /\ UNCHANGED <<active, draft, detailError, detailLoading>>
    BY <1>2, <1>8
  <2> HIDE DEF calls
  <2>2. TypeOK'
    BY <1>1, <1>5, <1>6, <1>7, <2>1 DEF TypeOK, Calls, server
  <2>3. SpinnersHonest'
    <3>1. \A u \in Slot : call[u].op \in {"list", "load"} => call'[u] = call[u]
      BY <1>4, <1>5, <2>1 DEF NoCall
    <3>2. (detailLoading => \E u \in Slot : call[u].op = "load" /\ call[u].id = activeId)'
      BY <1>6, <2>1, <3>1, DetailSpinnerKept DEF IInv
    <3>3. (listLoading => \E u \in Slot : call[u].op = "list" /\ call[u].tab = status)'
      BY <1>6, <3>1, ListSpinnerKept DEF IInv
    <3> QED BY <3>2, <3>3 DEF SpinnersHonest
  <2>4. ReplyInOrder'
    <3>1. \A u \in Slot : Quiet(u)
      BY <1>4, <1>5, <2>1 DEF Quiet, Awaited
    <3>2. sending /\ draft' # None => sent' = draft'
      BY <1>6, <2>1 DEF IInv, ReplyInOrder
    <3> QED BY <1>1, <1>5, <1>6, <2>1, <3>1, <3>2, ReplyKept DEF IInv
  <2>5. ShownIsSelectedOrTold' /\ DraftOfShown'
    BY <1>6, <2>1 DEF IInv, ShownIsSelectedOrTold, DraftOfShown
  <2> QED BY <2>2, <2>3, <2>4, <2>5 DEF IInv
<1>9. CASE ~detailRunning
  <2>1. LoadActive(calls, t, activeId, "poll", detailError)
    BY <1>2, <1>9
  <2> HIDE DEF calls
  <2>2. call' \in Calls /\ detailLoading' \in BOOLEAN /\ active' \in Detail \cup {None}
        /\ draft' \in OrNone /\ (detailError' = detailError \/ detailError' = NoError)
    BY <1>1, <1>3, <1>5, <2>1, LoadActiveEffect
  <2>3. TypeOK'
    BY <1>1, <1>3, <1>6, <1>7, <2>2 DEF TypeOK, Calls, server, Error, NoError
  <2>4. SpinnersHonest' /\ ShownIsSelectedOrTold' /\ DraftOfShown' /\ ReplyInOrder'
    <3>1. calls[t] = NoCall
      BY <1>4, <1>5
    <3>2. \A u \in Slot : calls[u] = call[u]
             \/ (call[u] = NoCall /\ u # 0 /\ calls[u].op = "list" /\ ~Awaited(calls[u]))
      BY <1>4, <1>5 DEF Awaited
    <3>3. activeId' = activeId /\ UNCHANGED <<sending, sent, status, listLoading>>
      BY <1>6
    <3> QED BY <1>3, <1>4, <1>5, <2>1, <3>1, <3>2, <3>3, LoadStep
  <2> QED BY <2>3, <2>4 DEF IInv
<1> QED BY <1>8, <1>9

\* A load that comes back, for whoever waits for it.
LEMMA ReplyDoneInv ==
    ASSUME IInv, NEW s \in Slot, call[s].op \in {"list", "load"}, call' = End(call, s),
           NEW kept \in OrNone, kept # None => kept = draft, ReplyDone(s, kept),
           detailError' = detailError \/ detailError' # "reply"
    PROVE  /\ ReplyInOrder'
           /\ sending' \in BOOLEAN /\ sent' \in OrNone /\ draft' \in OrNone
           /\ draft' # None => draft' = kept
<1>1. TypeOK /\ call \in Calls
  BY CallsType DEF IInv
<1>2. /\ call' \in Calls
      /\ \A t \in Slot \ {s} : call'[t] = call[t]
      /\ call'[s] = NoCall
  BY <1>1, EndCalls
<1>3. CASE ReplyEnds(s)
  <2>1. ~sending' /\ sending' \in BOOLEAN /\ sent' = None /\ draft' = None
    BY <1>3 DEF ReplyDone
  <2>2. \A t \in Slot : call[t].op # "reply"
    BY <1>3 DEF ReplyEnds, IInv, ReplyInOrder
  <2>3. \A t \in Slot : call'[t].op # "reply" /\ ~Awaited(call'[t])
    BY <1>2, <1>3, <2>2 DEF ReplyEnds, Awaited, NoCall
  <2>4. call'[0] # NoCall => call'[0].op = "load" /\ call'[0].then = "reply"
    BY <1>2, InboxBounds DEF IInv, ReplyInOrder, Slot
  <2>5. ReplyInOrder'
    BY <2>1, <2>3, <2>4 DEF ReplyInOrder
  <2> QED BY <2>1, <2>5 DEF OrNone
<1>4. CASE ~ReplyEnds(s)
  <2>1. draft' = kept /\ UNCHANGED <<sending, sent>>
    BY <1>4 DEF ReplyDone
  <2>2. \A t \in Slot : Quiet(t)
    BY <1>2 DEF Quiet
  <2>3. sending /\ draft' # None => sent' = draft'
    BY <2>1 DEF IInv, ReplyInOrder
  <2>4. ReplyInOrder'
    BY <1>1, <1>2, <2>1, <2>2, <2>3, ReplyKept DEF IInv
  <2> QED BY <1>1, <2>1, <2>4 DEF TypeOK
<1> QED BY <1>3, <1>4

LEMMA ReceiveListInv == ASSUME IInv, NEW s \in Slot, ReceiveList(s) PROVE IInv'
<1>1. TypeOK /\ DraftOfShown /\ call \in Calls
  BY CallsType DEF IInv
<1> DEFINE c == call[s]
<1>2. c \in ListCall
  <2>1. c \in Call \cup {NoCall} /\ c.op = "list"
    BY <1>1 DEF ReceiveList, Calls
  <2> QED BY <2>1, ByOperation
<1>3. /\ call' \in Calls
      /\ \A t \in Slot \ {s} : call'[t] = call[t]
      /\ call'[s] = NoCall
      /\ call' = End(call, s)
  BY <1>1, EndCalls DEF ReceiveList
<1>4. /\ rows' \in Rows /\ listError' \in BOOLEAN /\ ~listLoading' /\ listLoading' \in BOOLEAN
      /\ listRunning' \in BOOLEAN
      /\ UNCHANGED <<server, status, detailRunning, acts>>
  <2>1. c.rows \in Rows /\ rows \in Rows
    BY <1>1, <1>2 DEF ListCall, TypeOK
  <2>2. rows' = IF c.answer = "ok" THEN c.rows ELSE rows
    BY DEF ReceiveList
  <2>3. listError' \in BOOLEAN /\ listLoading' = FALSE /\ listRunning' \in BOOLEAN
    BY DEF ReceiveList
  <2> QED BY <2>1, <2>2, <2>3 DEF ReceiveList
<1>5. \A t \in Slot : call[t].op = "load" => call'[t] = call[t]
  BY <1>2, <1>3 DEF ListCall
<1>6. CASE CloseDetail /\ UNCHANGED <<sending, sent>> /\ ~Awaited(c)
  <2>1. /\ activeId' = None /\ active' = None /\ draft' = None
        /\ detailError' = NoError /\ detailLoading' = FALSE
        /\ DraftOfShown'
    BY <1>1, <1>6, CloseEffect
  <2>2. TypeOK'
    BY <1>1, <1>3, <1>4, <1>6, <2>1 DEF TypeOK, Calls, server, Error, NoError, OrNone
  <2>3. SpinnersHonest' /\ ShownIsSelectedOrTold'
    BY <1>4, <2>1 DEF SpinnersHonest, ShownIsSelectedOrTold
  <2>4. ReplyInOrder'
    <3>1. \A t \in Slot : Quiet(t)
      BY <1>3 DEF Quiet
    <3> QED BY <1>1, <1>3, <1>6, <2>1, <3>1, ReplyKept DEF IInv, NoError
  <2> QED BY <2>1, <2>2, <2>3, <2>4 DEF IInv
<1>7. CASE /\ ReplyDone(s, draft)
           /\ UNCHANGED <<activeId, active, detailLoading, detailError>>
  <2>1. /\ ReplyInOrder'
        /\ sending' \in BOOLEAN /\ sent' \in OrNone /\ draft' \in OrNone
        /\ draft' # None => draft' = draft
    BY <1>1, <1>2, <1>3, <1>7, ReplyDoneInv DEF TypeOK, ListCall
  <2>2. TypeOK'
    BY <1>1, <1>3, <1>4, <1>7, <2>1 DEF TypeOK, Calls, server
  <2>3. SpinnersHonest'
    <3>1. (detailLoading => \E t \in Slot : call[t].op = "load" /\ call[t].id = activeId)'
      BY <1>5, <1>7, DetailSpinnerKept DEF IInv
    <3> QED BY <1>4, <3>1 DEF SpinnersHonest
  <2>4. ShownIsSelectedOrTold' /\ DraftOfShown'
    BY <1>7, <2>1 DEF IInv, ShownIsSelectedOrTold, DraftOfShown
  <2> QED BY <2>1, <2>2, <2>3, <2>4 DEF IInv
<1>8. \/ CloseDetail /\ UNCHANGED <<sending, sent>> /\ ~Awaited(c)
      \/ ReplyDone(s, draft) /\ UNCHANGED <<activeId, active, detailLoading, detailError>>
  BY DEF ReceiveList, Awaited
<1> QED BY <1>6, <1>7, <1>8

LEMMA ReceiveLoadInv == ASSUME IInv, NEW s \in Slot, ReceiveLoad(s) PROVE IInv'
<1>1. TypeOK /\ DraftOfShown /\ call \in Calls
  BY CallsType DEF IInv
<1> DEFINE c == call[s]
           shown == CASE c.answer = "ok" -> [id |-> c.id, status |-> c.status, of |-> c.id]
                      [] c.answer = "gone" -> None
                      [] OTHER -> active
           error == CASE c.answer = "ok" -> NoError
                      [] c.answer = "gone" -> "gone"
                      [] OTHER -> "load"
<1>2. c \in LoadCall
  <2>1. c \in Call \cup {NoCall} /\ c.op = "load"
    BY <1>1 DEF ReceiveLoad, Calls
  <2> QED BY <2>1, ByOperation
<1>3. /\ call' \in Calls
      /\ \A t \in Slot \ {s} : call'[t] = call[t]
      /\ call'[s] = NoCall
      /\ call' = End(call, s)
  BY <1>1, EndCalls DEF ReceiveLoad
<1>4. /\ detailRunning' \in BOOLEAN
      /\ UNCHANGED <<server, status, listLoading, listError, activeId, listRunning, acts>>
      /\ detailLoading' \in BOOLEAN
      /\ detailLoading' => detailLoading /\ activeId # c.id
      /\ detailLoading /\ activeId # c.id => detailLoading'
  BY <1>1 DEF ReceiveLoad, StillLoading, StillOpen, TypeOK
<1>5. SpinnersHonest'
  <2>1. (listLoading => \E t \in Slot : call[t].op = "list" /\ call[t].tab = status)'
    <3>1. \A t \in Slot : call[t].op = "list" => call'[t] = call[t]
      BY <1>2, <1>3 DEF LoadCall
    <3> QED BY <1>4, <3>1, ListSpinnerKept DEF IInv
  <2>2. (detailLoading => \E t \in Slot : call[t].op = "load" /\ call[t].id = activeId)'
    <3> SUFFICES ASSUME detailLoading'
                 PROVE  \E t \in Slot : call'[t].op = "load" /\ call'[t].id = activeId'
      OBVIOUS
    <3>1. PICK t \in Slot : call[t].op = "load" /\ call[t].id = activeId
      BY <1>4 DEF IInv, SpinnersHonest
    <3>2. t # s
      BY <1>4, <3>1
    <3> QED BY <1>3, <1>4, <3>1, <3>2
  <2> QED BY <2>1, <2>2 DEF SpinnersHonest
<1>6. CASE /\ StillOpen(c.id)
           /\ active' = shown /\ detailError' = error
           /\ rows' = IF c.answer = "ok" THEN [k \in DOMAIN rows |-> rows[k] /\ k # c.id] ELSE rows
           /\ ReplyDone(s, DraftUnder(shown))
  <2>1. shown \in Detail \cup {None}
    BY <1>1, <1>2 DEF TypeOK, Detail, LoadCall, OrNone
  <2>2. error \in Error /\ error # "reply"
    BY DEF Error, NoError
  <2>3. rows' \in Rows
    BY <1>1, <1>6, MarkedType DEF TypeOK
  <2>4. shown # None => error # NoError \/ shown.id = c.id
    BY <1>2 DEF LoadCall, NoError
  <2> HIDE DEF shown, error
  <2>5. /\ DraftUnder(shown) \in OrNone
        /\ DraftUnder(shown) # None => DraftUnder(shown) = draft /\ shown # None /\ shown.id = draft
    BY <1>1, <2>1, DraftUnderType
  <2>6. /\ ReplyInOrder'
        /\ sending' \in BOOLEAN /\ sent' \in OrNone /\ draft' \in OrNone
        /\ draft' # None => draft' = DraftUnder(shown)
    BY <1>2, <1>3, <1>6, <2>2, <2>5, ReplyDoneInv DEF LoadCall
  <2>7. TypeOK'
    BY <1>1, <1>3, <1>4, <1>6, <2>1, <2>2, <2>3, <2>6 DEF TypeOK, Calls, server
  <2>8. ShownIsSelectedOrTold'
    BY <1>4, <1>6, <2>4 DEF ShownIsSelectedOrTold, StillOpen
  <2>9. DraftOfShown'
    BY <1>6, <2>5, <2>6 DEF DraftOfShown
  <2> QED BY <1>5, <2>6, <2>7, <2>8, <2>9 DEF IInv
<1>7. CASE /\ ~StillOpen(c.id)
           /\ ReplyDone(s, draft)
           /\ UNCHANGED <<active, detailError, rows>>
  <2>1. /\ ReplyInOrder'
        /\ sending' \in BOOLEAN /\ sent' \in OrNone /\ draft' \in OrNone
        /\ draft' # None => draft' = draft
    BY <1>1, <1>2, <1>3, <1>7, ReplyDoneInv DEF TypeOK, LoadCall
  <2>2. TypeOK'
    BY <1>1, <1>3, <1>4, <1>7, <2>1 DEF TypeOK, Calls, server
  <2>3. ShownIsSelectedOrTold' /\ DraftOfShown'
    BY <1>4, <1>7, <2>1 DEF IInv, ShownIsSelectedOrTold, DraftOfShown, StillOpen
  <2> QED BY <1>5, <2>1, <2>2, <2>3 DEF IInv
<1> QED BY <1>6, <1>7 DEF ReceiveLoad

LEMMA ReceiveReplyInv == ASSUME IInv, NEW s \in Slot, ReceiveReply(s) PROVE IInv'
<1>1. TypeOK /\ DraftOfShown /\ call \in Calls
  BY CallsType DEF IInv
<1>2. call[s].op = "reply" /\ UNCHANGED <<server, pollings, acts, activeId>> /\ UNCHANGED listPane
  BY DEF ReceiveReply
<1>3. /\ sending
      /\ \A t \in Slot : ~Awaited(call[t]) /\ (call[t].op = "reply" => t = s)
  BY <1>2 DEF IInv, ReplyInOrder
<1>4. 0 \in Slot /\ call[0] = NoCall /\ s # 0
  <2>1. 0 \in Slot
    BY InboxBounds DEF Slot
  <2>2. call[0] = NoCall
    BY <1>3, <2>1 DEF IInv, ReplyInOrder, Awaited
  <2> QED BY <1>2, <2>1, <2>2 DEF NoCall
<1>5. CASE /\ LoadActive(AskList(call, s, status, "reply", None), 0, activeId, "reply", NoError)
           /\ UNCHANGED <<sending, sent>>
  <2> DEFINE calls == AskList(call, s, status, "reply", None)
  <2>1. /\ None \in OrNone /\ "reply" \in Then /\ status \in Status
        /\ activeId \in OrNone /\ NoError \in Error
    BY <1>1 DEF OrNone, Then, TypeOK, Error, NoError
  <2>2. /\ calls \in Calls
        /\ \A t \in Slot \ {s} : calls[t] = call[t]
        /\ calls[s].op = "list"
    BY <1>1, <2>1, AskListCalls
  <2> HIDE DEF calls
  <2>3. LoadActive(calls, 0, activeId, "reply", NoError)
    BY <1>5 DEF calls
  <2>4. /\ call' \in Calls
        /\ \A t \in Slot \ {0} : call'[t] = calls[t]
        /\ activeId = None => call' = calls /\ detailError' = NoError /\ active' = None
        /\ activeId # None => /\ call'[0].op = "load" /\ call'[0].then = "reply"
                              /\ call'[0].id = activeId /\ detailError' = NoError
        /\ detailLoading' \in BOOLEAN /\ (detailLoading' => activeId # None)
        /\ activeId # None => detailLoading'
        /\ active' \in Detail \cup {None}
        /\ draft' \in OrNone
        /\ draft' # None => draft' = draft
        /\ DraftOfShown'
    BY <1>1, <1>4, <2>1, <2>2, <2>3, LoadActiveEffect
  <2>5. TypeOK'
    BY <1>1, <1>2, <1>5, <2>1, <2>4 DEF TypeOK, Calls, server, pollings, listPane
  <2>6. SpinnersHonest'
    <3>1. (listLoading => \E t \in Slot : call[t].op = "list" /\ call[t].tab = status)'
      <4>1. \A t \in Slot : call[t].op = "list" => call'[t] = call[t]
        BY <1>2, <1>4, <2>2, <2>4 DEF NoCall
      <4> QED BY <1>2, <4>1, ListSpinnerKept DEF IInv, listPane
    <3>2. (detailLoading => \E t \in Slot : call[t].op = "load" /\ call[t].id = activeId)'
      BY <1>2, <1>4, <2>4
    <3> QED BY <3>1, <3>2 DEF SpinnersHonest
  <2>7. ReplyInOrder'
    <3>1. \A t \in Slot : call'[t].op # "reply"
      BY <1>3, <1>4, <2>2, <2>4
    <3>2. call'[0] # NoCall => call'[0].op = "load" /\ call'[0].then = "reply"
      BY <1>4, <2>2, <2>4
    <3>3. sending' /\ detailError' # "reply"
      BY <1>3, <1>5, <2>4 DEF NoError
    <3>4. draft' # None => sent' = draft'
      BY <1>3, <1>5, <2>4 DEF IInv, ReplyInOrder
    <3> QED BY <3>1, <3>2, <3>3, <3>4 DEF ReplyInOrder
  <2>8. ShownIsSelectedOrTold'
    BY <1>2, <2>4 DEF ShownIsSelectedOrTold
  <2> QED BY <2>4, <2>5, <2>6, <2>7, <2>8 DEF IInv
<1>6. CASE /\ detailError' = "reply" /\ sending' = FALSE /\ sent' = None
           /\ call' = End(call, s)
           /\ UNCHANGED <<active, detailLoading, draft>>
  <2>1. /\ call' \in Calls
        /\ \A t \in Slot \ {s} : call'[t] = call[t]
        /\ call'[s] = NoCall
    BY <1>1, <1>6, EndCalls
  <2>2. TypeOK'
    BY <1>1, <1>2, <1>6, <2>1 DEF TypeOK, Calls, server, pollings, listPane, Error, OrNone
  <2>3. SpinnersHonest'
    <3>1. \A t \in Slot : call[t].op \in {"list", "load"} => call'[t] = call[t]
      BY <1>2, <2>1
    <3>2. (detailLoading => \E t \in Slot : call[t].op = "load" /\ call[t].id = activeId)'
      BY <1>2, <1>6, <3>1, DetailSpinnerKept DEF IInv
    <3>3. (listLoading => \E t \in Slot : call[t].op = "list" /\ call[t].tab = status)'
      BY <1>2, <3>1, ListSpinnerKept DEF IInv, listPane
    <3> QED BY <3>2, <3>3 DEF SpinnersHonest
  <2>4. ReplyInOrder'
    <3>1. \A t \in Slot : call'[t].op # "reply" /\ ~Awaited(call'[t])
      BY <1>3, <2>1 DEF Awaited, NoCall
    <3>2. call'[0] = NoCall
      BY <1>4, <2>1
    <3> QED BY <1>6, <3>1, <3>2 DEF ReplyInOrder
  <2>5. ShownIsSelectedOrTold' /\ DraftOfShown'
    BY <1>1, <1>2, <1>6 DEF ShownIsSelectedOrTold, DraftOfShown, NoError
  <2> QED BY <2>2, <2>3, <2>4, <2>5 DEF IInv
<1> QED BY <1>5, <1>6 DEF ReceiveReply

LEMMA ReceiveArchiveInv == ASSUME IInv, NEW s \in Slot, ReceiveArchive(s) PROVE IInv'
<1>1. TypeOK /\ DraftOfShown /\ call \in Calls
  BY CallsType DEF IInv
<1> DEFINE c == call[s]
           shown == [id |-> c.id, status |-> c.to,
                     of |-> IF active = None THEN None ELSE active.of]
<1>2. c \in ArchiveCall
  <2>1. c \in Call \cup {NoCall} /\ c.op = "archive"
    BY <1>1 DEF ReceiveArchive, Calls
  <2> QED BY <2>1, ByOperation
<1>3. /\ UNCHANGED <<server, pollings, acts, activeId, detailLoading, sending, sent>>
      /\ UNCHANGED listPane
  BY DEF ReceiveArchive
<1>4. /\ \/ call' = End(call, s)
         \/ call' = AskList(call, s, status, "archive", c.id)
      /\ \/ UNCHANGED <<active, draft, detailError>>
         \/ UNCHANGED <<active, draft>> /\ detailError' = "archive"
         \/ /\ active' = shown /\ draft' = DraftUnder(shown) /\ detailError' = NoError
            /\ StillOpen(c.id)
  BY DEF ReceiveArchive, ArchiveMayShow
<1>5. /\ call' \in Calls
      /\ \A t \in Slot \ {s} : call'[t] = call[t]
      /\ call'[s] = NoCall \/ (call'[s].op = "list" /\ call'[s].then = "archive")
  <2>1. c.id \in OrNone /\ status \in Status /\ "archive" \in Then
    BY <1>1, <1>2 DEF ArchiveCall, OrNone, TypeOK, Then
  <2> QED BY <1>1, <1>4, <2>1, AskListCalls, EndCalls
<1>6. SpinnersHonest'
  <2>1. \A t \in Slot : call[t].op \in {"list", "load"} => call'[t] = call[t]
    BY <1>2, <1>5 DEF ArchiveCall
  <2>2. (detailLoading => \E t \in Slot : call[t].op = "load" /\ call[t].id = activeId)'
    BY <1>3, <2>1, DetailSpinnerKept DEF IInv
  <2>3. (listLoading => \E t \in Slot : call[t].op = "list" /\ call[t].tab = status)'
    BY <1>3, <2>1, ListSpinnerKept DEF IInv, listPane
  <2> QED BY <2>2, <2>3 DEF SpinnersHonest
<1>7. shown \in Detail
  <2>1. active = None \/ active.of \in OrNone
    BY <1>1 DEF TypeOK, Detail
  <2>2. c.id \in Conv /\ c.to \in Status
    BY <1>2 DEF ArchiveCall
  <2> QED BY <2>1, <2>2 DEF Detail, OrNone
<1>8. shown.id = c.id
  OBVIOUS
<1> HIDE DEF shown
<1>9. /\ active' \in Detail \cup {None}
      /\ draft' \in OrNone
      /\ draft' # None => draft' = draft
      /\ detailError' \in Error /\ (detailError' = detailError \/ detailError' # "reply")
      /\ DraftOfShown' /\ ShownIsSelectedOrTold'
  <2>1. CASE UNCHANGED <<active, draft, detailError>>
    BY <1>1, <1>3, <2>1 DEF IInv, TypeOK, DraftOfShown, ShownIsSelectedOrTold
  <2>2. CASE UNCHANGED <<active, draft>> /\ detailError' = "archive"
    BY <1>1, <1>3, <2>2 DEF TypeOK, DraftOfShown, ShownIsSelectedOrTold, Error, NoError
  <2>3. CASE /\ active' = shown /\ draft' = DraftUnder(shown) /\ detailError' = NoError
             /\ StillOpen(c.id)
    <3>1. /\ DraftUnder(shown) \in OrNone
          /\ DraftUnder(shown) # None => DraftUnder(shown) = draft /\ shown # None /\ shown.id = draft
      BY <1>1, <1>7, DraftUnderType
    <3> QED BY <1>3, <1>7, <1>8, <2>3, <3>1
            DEF DraftOfShown, ShownIsSelectedOrTold, StillOpen, Error, NoError
  <2> QED BY <1>4, <2>1, <2>2, <2>3
<1>10. TypeOK'
  BY <1>1, <1>3, <1>5, <1>9 DEF TypeOK, Calls, server, pollings, listPane
<1>11. ReplyInOrder'
  <2>1. s # 0
    BY <1>2, InboxBounds DEF IInv, ReplyInOrder, ArchiveCall, NoCall, Slot
  <2>2. \A t \in Slot : Quiet(t)
    BY <1>5, <2>1 DEF Quiet, Awaited
  <2>3. sending /\ draft' # None => sent' = draft'
    BY <1>3, <1>9 DEF IInv, ReplyInOrder
  <2> QED BY <1>1, <1>3, <1>5, <1>9, <2>2, <2>3, ReplyKept DEF IInv
<1> QED BY <1>6, <1>9, <1>10, <1>11 DEF IInv

\* A step of the server: the page is as it was, and its requests go on.
LEMMA ServerInv ==
    ASSUME IInv, desk' \in [Conv -> Row \cup {Absent}], events' \in 0 .. MaxEvents,
           call' \in Calls, UNCHANGED <<acts, pollings>>, UNCHANGED listPane, UNCHANGED detailPane,
           \A t \in Slot : call'[t] = call[t] \/ (Same(call[t], call'[t]) /\ call[t] # NoCall)
    PROVE  IInv'
<1>1. TypeOK
  BY DEF IInv
<1>2. TypeOK'
  BY <1>1 DEF TypeOK, Calls, listPane, detailPane, pollings
<1>3. SpinnersHonest'
  <2>1. (detailLoading => \E t \in Slot : call[t].op = "load" /\ call[t].id = activeId)'
    BY DetailSpinnerKept DEF IInv, Same, detailPane
  <2>2. (listLoading => \E t \in Slot : call[t].op = "list" /\ call[t].tab = status)'
    BY ListSpinnerKept DEF IInv, Same, listPane
  <2> QED BY <2>1, <2>2 DEF SpinnersHonest
<1>4. ReplyInOrder'
  <2>1. \A t \in Slot : Quiet(t)
    BY DEF Quiet
  <2>2. sending /\ draft' # None => sent' = draft'
    BY DEF IInv, ReplyInOrder, detailPane
  <2> QED BY <1>1, <2>1, <2>2, ReplyKept DEF IInv, detailPane
<1>5. ShownIsSelectedOrTold' /\ DraftOfShown'
  BY DEF IInv, ShownIsSelectedOrTold, DraftOfShown, detailPane
<1> QED BY <1>2, <1>3, <1>4, <1>5 DEF IInv

LEMMA EffectType ==
    ASSUME TypeOK, NEW c \in Call
    PROVE  Effect(c) \in [Conv -> Row \cup {Absent}]
<1>1. desk \in [Conv -> Row \cup {Absent}]
  BY DEF TypeOK
<1>2. \A k \in Conv : Exists(k) => desk[k] \in Row
  BY <1>1 DEF Exists
<1>3. CASE c \in LoadCall /\ Exists(c.id)
  <2>1. Effect(c) = [desk EXCEPT ![c.id] = [desk[c.id] EXCEPT !.unread = FALSE]]
    BY <1>3 DEF Effect, LoadCall
  <2>2. [desk[c.id] EXCEPT !.unread = FALSE] \in Row
    BY <1>2, <1>3 DEF Row, LoadCall
  <2> QED BY <1>1, <2>1, <2>2
<1>4. CASE c \in ArchiveCall /\ Exists(c.id)
  <2>1. Effect(c) = [desk EXCEPT ![c.id] = [desk[c.id] EXCEPT !.status = c.to]]
    BY <1>4 DEF Effect, ArchiveCall
  <2>2. [desk[c.id] EXCEPT !.status = c.to] \in Row
    BY <1>2, <1>4 DEF Row, ArchiveCall
  <2> QED BY <1>1, <2>1, <2>2
<1>5. CASE ~(c \in LoadCall /\ Exists(c.id)) /\ ~(c \in ArchiveCall /\ Exists(c.id))
  <2>1. ~(c.op = "load" /\ Exists(c.id)) /\ ~(c.op = "archive" /\ Exists(c.id))
    BY <1>5, ByOperation
  <2>2. Effect(c) = desk
    BY <2>1 DEF Effect
  <2> QED BY <1>1, <2>2
<1> QED BY <1>3, <1>4, <1>5

LEMMA ServeInv == ASSUME IInv, NEW s \in Slot, Serve(s) PROVE IInv'
<1>1. TypeOK /\ call \in Calls
  BY CallsType DEF IInv
<1>2. call[s] \in Call /\ call[s] # NoCall
  BY <1>1 DEF Serve, Waiting, Calls
<1>3. Same(call[s], Answered(call[s]))
  BY <1>1, <1>2, AnsweredSame
<1>4. /\ call' \in Calls
      /\ \A t \in Slot : call'[t] = call[t] \/ (Same(call[t], call'[t]) /\ call[t] # NoCall)
  <2>1. Answered(call[s]) \in Call
    BY <1>3 DEF Same
  <2>2. call' = [call EXCEPT ![s] = Answered(call[s])]
    BY DEF Serve
  <2> QED BY <1>1, <1>2, <1>3, <2>1, <2>2 DEF Calls
<1>5. desk' \in [Conv -> Row \cup {Absent}] /\ events' \in 0 .. MaxEvents
  BY <1>1, <1>2, EffectType DEF Serve, TypeOK
<1> QED BY <1>4, <1>5, ServerInv DEF Serve

LEMMA ServeFailsInv == ASSUME IInv, NEW s \in Slot, ServeFails(s) PROVE IInv'
<1>1. TypeOK /\ call \in Calls
  BY CallsType DEF IInv
<1>2. call[s] \in Call /\ call[s] # NoCall
  BY <1>1 DEF ServeFails, Waiting, Calls
<1> DEFINE failed == [call[s] EXCEPT !.answer = "failed"]
<1>3. Same(call[s], failed)
  BY <1>2, WithAnswer DEF Answer
<1>4. /\ call' \in Calls
      /\ \A t \in Slot : call'[t] = call[t] \/ (Same(call[t], call'[t]) /\ call[t] # NoCall)
  <2>1. failed \in Call
    BY <1>3 DEF Same
  <2>2. call' = [call EXCEPT ![s] = failed]
    BY DEF ServeFails
  <2> HIDE DEF failed
  <2> QED BY <1>1, <1>2, <1>3, <2>1, <2>2 DEF Calls
<1>5. desk' \in [Conv -> Row \cup {Absent}]
  BY <1>1, <1>2, EffectType DEF ServeFails, TypeOK
<1>6. events' \in 0 .. MaxEvents
  BY <1>1, EventType DEF ServeFails
<1> QED BY <1>4, <1>5, <1>6, ServerInv DEF ServeFails

LEMMA VisitorWritesInv == ASSUME IInv, NEW k \in Conv, VisitorWrites(k) PROVE IInv'
<1>1. TypeOK /\ call \in Calls
  BY CallsType DEF IInv
<1>2. desk' \in [Conv -> Row \cup {Absent}]
  <2> DEFINE new == [status |-> "open", unread |-> TRUE]
  <2>1. new \in Row
    BY DEF Row, Status
  <2>2. desk' = [desk EXCEPT ![k] = new]
    BY DEF VisitorWrites
  <2> HIDE DEF new
  <2> QED BY <1>1, <2>1, <2>2 DEF TypeOK
<1>3. events' \in 0 .. MaxEvents
  BY <1>1, EventType DEF VisitorWrites
<1> QED BY <1>1, <1>2, <1>3, ServerInv DEF VisitorWrites

LEMMA ColleagueActsInv == ASSUME IInv, NEW k \in Conv, ColleagueActs(k) PROVE IInv'
<1>1. TypeOK /\ call \in Calls
  BY CallsType DEF IInv
<1>2. desk' \in [Conv -> Row \cup {Absent}]
  <2>1. desk[k] \in Row /\ desk \in [Conv -> Row \cup {Absent}]
    BY <1>1 DEF ColleagueActs, Exists, TypeOK
  <2>2. \/ desk' = [desk EXCEPT ![k] = [desk[k] EXCEPT !.unread = FALSE]]
        \/ \E to \in Status : desk' = [desk EXCEPT ![k] = [desk[k] EXCEPT !.status = to]]
    BY DEF ColleagueActs
  <2>3. /\ [desk[k] EXCEPT !.unread = FALSE] \in Row
        /\ \A to \in Status : [desk[k] EXCEPT !.status = to] \in Row
    BY <2>1 DEF Row
  <2> QED BY <2>1, <2>2, <2>3
<1>3. events' \in 0 .. MaxEvents
  BY <1>1, EventType DEF ColleagueActs
<1> QED BY <1>1, <1>2, <1>3, ServerInv DEF ColleagueActs

-----------------------------------------------------------------------------
(* The theorems. *)

\* Whatever comes back in whatever order, the requests in flight account for
\* what the page shows.
THEOREM Invariance == Spec => []IInv
<1>1. ASSUME IInv, [Next]_vars PROVE IInv'
  <2>1. CASE \E id \in Conv : Select(id)
    BY <1>1, <2>1, SelectInv
  <2>2. CASE \E id \in OrNone : PopState(id)
    BY <1>1, <2>2, PopStateInv
  <2>3. CASE \E tab \in Status : SwitchTab(tab)
    BY <1>1, <2>3, SwitchTabInv
  <2>4. CASE Close
    BY <1>1, <2>4, CloseInv
  <2>5. CASE Type
    BY <1>1, <2>5, TypeInv
  <2>6. CASE Send
    BY <1>1, <2>6, SendInv
  <2>7. CASE Archive
    BY <1>1, <2>7, ArchiveInv
  <2>8. CASE Focus
    BY <1>1, <2>8, FocusInv
  <2>9. CASE Tick
    BY <1>1, <2>9, TickInv
  <2>10. CASE \E s \in Slot : Receive(s)
    BY <1>1, <2>10, ReceiveListInv, ReceiveLoadInv, ReceiveReplyInv, ReceiveArchiveInv DEF Receive
  <2>11. CASE \E s \in Slot : Serve(s)
    BY <1>1, <2>11, ServeInv
  <2>12. CASE \E s \in Slot : ServeFails(s)
    BY <1>1, <2>12, ServeFailsInv
  <2>13. CASE \E k \in Conv : VisitorWrites(k)
    BY <1>1, <2>13, VisitorWritesInv
  <2>14. CASE \E k \in Conv : ColleagueActs(k)
    BY <1>1, <2>14, ColleagueActsInv
  <2>15. CASE UNCHANGED vars
    BY <1>1, <2>15 DEF vars, IInv, TypeOK, SpinnersHonest, ShownIsSelectedOrTold, DraftOfShown,
                       ReplyInOrder, Awaited
  <2> QED BY <1>1, <2>1, <2>2, <2>3, <2>4, <2>5, <2>6, <2>7, <2>8, <2>9, <2>10, <2>11, <2>12,
             <2>13, <2>14, <2>15 DEF Next, Operator
<1> QED BY <1>1, InitInv, PTL DEF Spec

\* The page's state keeps its types.
THEOREM TypeCorrect == Spec => []TypeOK
<1>1. IInv => TypeOK
  BY DEF IInv
<1> QED BY <1>1, Invariance, PTL

\* No spinner turns without its request.
THEOREM NoLostSpinner == Spec => []SpinnersHonest
<1>1. IInv => SpinnersHonest
  BY DEF IInv
<1> QED BY <1>1, Invariance, PTL

\* Another conversation than the selected one is on screen only while its load
\* is on its way, or with an error.
THEOREM ShownSound == Spec => []ShownIsSelectedOrTold
<1>1. IInv => ShownIsSelectedOrTold
  BY DEF IInv
<1> QED BY <1>1, Invariance, PTL

-----------------------------------------------------------------------------
(* Drafts. *)

DraftAllowed == DraftLost => activeId' # draft \/ detailError' = "gone" \/ ReplyStored

\* A load loses the draft only when no row is selected any more.
LEMMA LoadKeepsDraft ==
    ASSUME NEW cs, NEW s, NEW id, NEW then, NEW error,
           LoadActive(cs, s, id, then, error), activeId' = id
    PROVE  DraftAllowed
<1>1. CASE id = None
  BY <1>1 DEF DraftAllowed, DraftLost
<1>2. CASE id # None
  BY <1>2 DEF LoadActive, DraftAllowed, DraftLost
<1> QED BY <1>1, <1>2

\* What is shown next belongs to the selected row: a draft it pushes out was
\* that of another.
LEMMA ShownKeepsDraft ==
    ASSUME DraftOfShown, NEW detail, detail # None, detail.id = activeId,
           activeId' = activeId, draft' = DraftUnder(detail)
    PROVE  DraftAllowed
BY DEF DraftOfShown, DraftUnder, IdOf, DraftAllowed, DraftLost

\* reply() returns with the text it was given, which is the one in the box.
LEMMA ReturnKeepsDraft ==
    ASSUME ReplyInOrder, NEW s \in Slot, ReplyEnds(s), sending' = FALSE,
           detailError' = detailError \/ detailError' # "reply"
    PROVE  DraftAllowed
BY DEF ReplyInOrder, ReplyEnds, ReplyDone, DraftAllowed, DraftLost, ReplyStored

LEMMA ReceiveListDraft == ASSUME IInv, NEW s \in Slot, ReceiveList(s) PROVE DraftAllowed
<1>1. CASE CloseDetail
  BY <1>1 DEF CloseDetail, DraftAllowed, DraftLost
<1>2. CASE ReplyDone(s, draft) /\ UNCHANGED <<activeId, active, detailLoading, detailError>>
  <2>1. CASE ReplyEnds(s)
    BY <1>2, <2>1, ReturnKeepsDraft DEF IInv, ReplyDone
  <2>2. CASE ~ReplyEnds(s)
    BY <1>2, <2>2 DEF ReplyDone, DraftAllowed, DraftLost
  <2> QED BY <2>1, <2>2
<1> QED BY <1>1, <1>2 DEF ReceiveList

LEMMA ReceiveLoadDraft == ASSUME IInv, NEW s \in Slot, ReceiveLoad(s) PROVE DraftAllowed
<1> DEFINE c == call[s]
           answered == [id |-> c.id, status |-> c.status, of |-> c.id]
<1>1. activeId' = activeId
  BY DEF ReceiveLoad
<1>2. \/ /\ c.answer = "ok" /\ StillOpen(c.id)
         /\ detailError' = NoError /\ ReplyDone(s, DraftUnder(answered))
      \/ /\ c.answer = "gone"
         /\ detailError' = "gone"
      \/ /\ detailError' = "load" /\ ReplyDone(s, DraftUnder(active))
      \/ /\ detailError' = detailError /\ ReplyDone(s, draft)
  BY DEF ReceiveLoad
<1>3. c.answer = "ok" => answered \in Detail /\ answered.id = c.id
  <2>1. c \in Call \cup {NoCall} /\ c.op = "load"
    BY DEF IInv, TypeOK, ReceiveLoad
  <2>2. c \in LoadCall
    BY <2>1, ByOperation
  <2> QED BY <2>2 DEF LoadCall, Detail, OrNone
<1> HIDE DEF answered
<1>4. CASE ReplyEnds(s)
  BY <1>1, <1>2, <1>4, ReturnKeepsDraft DEF IInv, ReplyDone, NoError, DraftAllowed
<1>5. CASE ~ReplyEnds(s)
  <2>1. CASE /\ c.answer = "ok" /\ StillOpen(c.id) /\ draft' = DraftUnder(answered)
    BY <1>1, <1>3, <2>1, NullAssumption, ShownKeepsDraft DEF IInv, StillOpen
  <2>2. CASE detailError' = "gone"
    BY <2>2 DEF DraftAllowed
  <2>3. CASE draft' = draft \/ draft' = DraftUnder(active)
    BY <2>3 DEF DraftUnder, DraftAllowed, DraftLost
  <2> QED BY <1>2, <1>5, <2>1, <2>2, <2>3 DEF ReplyDone
<1> QED BY <1>4, <1>5

LEMMA ReceiveReplyDraft == ASSUME IInv, NEW s \in Slot, ReceiveReply(s) PROVE DraftAllowed
<1>1. CASE draft' = draft
  BY <1>1 DEF DraftAllowed, DraftLost
<1>2. CASE draft' # draft
  <2>1. /\ LoadActive(AskList(call, s, status, "reply", None), 0, activeId, "reply", NoError)
        /\ activeId' = activeId
    BY <1>2 DEF ReceiveReply
  <2> QED BY <2>1, LoadKeepsDraft
<1> QED BY <1>1, <1>2

LEMMA ReceiveArchiveDraft == ASSUME IInv, NEW s \in Slot, ReceiveArchive(s) PROVE DraftAllowed
<1> DEFINE c == call[s]
           shown == [id |-> c.id, status |-> c.to,
                     of |-> IF active = None THEN None ELSE active.of]
<1>1. activeId' = activeId
  BY DEF ReceiveArchive
<1>2. draft' = draft \/ (draft' = DraftUnder(shown) /\ StillOpen(c.id))
  BY DEF ReceiveArchive, ArchiveMayShow
<1>3. shown \in Detail /\ shown.id = c.id
  <2>1. c \in Call \cup {NoCall} /\ c.op = "archive"
    BY DEF IInv, TypeOK, ReceiveArchive
  <2>2. c.id \in Conv /\ c.to \in Status
    BY <2>1, ByOperation DEF ArchiveCall
  <2>3. active = None \/ active.of \in OrNone
    BY DEF IInv, TypeOK, Detail
  <2> QED BY <2>2, <2>3 DEF Detail, OrNone
<1> HIDE DEF shown
<1>4. CASE draft' = draft
  BY <1>4 DEF DraftAllowed, DraftLost
<1>5. CASE draft' = DraftUnder(shown) /\ StillOpen(c.id)
  BY <1>1, <1>3, <1>5, NullAssumption, ShownKeepsDraft DEF IInv, StillOpen
<1> QED BY <1>2, <1>4, <1>5

\* What is typed under a conversation goes away with it, or when it is stored.
THEOREM DraftsKept == Spec => DraftKept
<1>1. ASSUME IInv, [Next]_vars PROVE DraftAllowed
  <2>1. CASE draft' = draft
    BY <2>1 DEF DraftAllowed, DraftLost
  <2>2. CASE \E s, id : LoadActive(call, s, id, "done", detailError) /\ activeId' = id
    BY <2>2, LoadKeepsDraft
  <2>3. CASE Close
    BY <2>3 DEF Close, CloseDetail, DraftAllowed, DraftLost
  <2>4. CASE Type
    BY <2>4 DEF Type, DraftAllowed, DraftLost
  <2>5. CASE Focus
    <3>1. activeId' = activeId
      BY <2>5 DEF Focus
    <3>2. draft' = draft \/ \E cs, t : LoadActive(cs, t, activeId, "poll", detailError)
      BY <2>5 DEF Focus
    <3>3. CASE draft' = draft
      BY <3>3 DEF DraftAllowed, DraftLost
    <3>4. CASE \E cs, t : LoadActive(cs, t, activeId, "poll", detailError)
      BY <3>1, <3>4, LoadKeepsDraft
    <3> QED BY <3>2, <3>3, <3>4
  <2>6. CASE \E s \in Slot : Receive(s)
    BY <1>1, <2>6, ReceiveListDraft, ReceiveLoadDraft, ReceiveReplyDraft, ReceiveArchiveDraft
       DEF Receive
  <2>7. ASSUME NEW id, Select(id) \/ PopState(id)
        PROVE  \E s \in Slot : LoadActive(call, s, id, "done", detailError) /\ activeId' = id
    BY <2>7 DEF Select, PopState
  <2>8. \/ \E tab \in Status : SwitchTab(tab)
        \/ Send \/ Archive \/ Tick
        \/ \E s \in Slot : Serve(s) \/ ServeFails(s)
        \/ \E k \in Conv : VisitorWrites(k) \/ ColleagueActs(k)
        \/ UNCHANGED vars
        => draft' = draft
    BY DEF SwitchTab, Send, Archive, Tick, Serve, ServeFails, VisitorWrites, ColleagueActs,
           detailPane, vars
  <2> QED BY <1>1, <2>1, <2>2, <2>3, <2>4, <2>5, <2>6, <2>7, <2>8 DEF Next, Operator
<1>2. IInv /\ [Next]_vars => (DraftLost => activeId' # draft \/ detailError' = "gone" \/ ReplyStored)
  BY <1>1 DEF DraftAllowed
<1> QED BY <1>2, Invariance, PTL DEF Spec, DraftKept

-----------------------------------------------------------------------------
(* Messages under a header. *)

MixedAllowed == ~Mixed /\ Mixed' => active # None /\ active.id # activeId

\* Only the answer of archive() puts a header over other messages.
LEMMA ReceiveArchiveMixed == ASSUME IInv, NEW s \in Slot, ReceiveArchive(s) PROVE MixedAllowed
<1> DEFINE c == call[s]
           shown == [id |-> c.id, status |-> c.to,
                     of |-> IF active = None THEN None ELSE active.of]
<1>1. active' = active \/ (active' = shown /\ StillOpen(c.id))
  BY DEF ReceiveArchive, ArchiveMayShow
<1>2. shown.id = c.id /\ shown.of = IF active = None THEN None ELSE active.of
  OBVIOUS
<1> HIDE DEF shown
<1>3. CASE active' = active
  BY <1>3 DEF MixedAllowed, Mixed
<1>4. CASE active' = shown /\ StillOpen(c.id)
  BY <1>2, <1>4 DEF MixedAllowed, Mixed, StillOpen
<1> QED BY <1>1, <1>3, <1>4

LEMMA ReceiveLoadMixed == ASSUME NEW s \in Slot, ReceiveLoad(s) PROVE MixedAllowed
<1> DEFINE c == call[s]
           answered == [id |-> c.id, status |-> c.status, of |-> c.id]
<1>1. active' \in {active, None, answered}
  BY DEF ReceiveLoad
<1>2. answered.id = answered.of
  OBVIOUS
<1> HIDE DEF answered
<1> QED BY <1>1, <1>2 DEF MixedAllowed, Mixed

\* Messages come under another header only while the selected row was not on
\* screen yet.
THEOREM MixedConfined == Spec => MixedOnlyWhileLoading
<1>1. ASSUME IInv, [Next]_vars PROVE MixedAllowed
  <2>1. CASE active' \in {active, None}
    BY <2>1 DEF MixedAllowed, Mixed
  <2>2. CASE \E cs, s, id, then, error : LoadActive(cs, s, id, then, error)
    BY <2>1, <2>2 DEF LoadActive
  <2>3. CASE CloseDetail
    BY <2>1, <2>3 DEF CloseDetail
  <2>4. CASE \E s \in Slot : ReceiveLoad(s) \/ ReceiveArchive(s)
    BY <1>1, <2>4, ReceiveLoadMixed, ReceiveArchiveMixed
  <2>5. ASSUME NEW id, Select(id) \/ PopState(id) \/ Focus
        PROVE  active' = active \/ \E cs, s, then, error, any : LoadActive(cs, s, any, then, error)
    BY <2>5 DEF Select, PopState, Focus
  <2>6. ASSUME NEW s \in Slot, ReceiveList(s) \/ ReceiveReply(s)
        PROVE  active' = active \/ CloseDetail
                   \/ \E cs, t, id, then, error : LoadActive(cs, t, id, then, error)
    BY <2>6 DEF ReceiveList, ReceiveReply
  <2>7. \/ \E tab \in Status : SwitchTab(tab)
        \/ Type \/ Send \/ Archive \/ Tick
        \/ \E s \in Slot : Serve(s) \/ ServeFails(s)
        \/ \E k \in Conv : VisitorWrites(k) \/ ColleagueActs(k)
        \/ UNCHANGED vars
        => active' = active
    BY DEF SwitchTab, Type, Send, Archive, Tick, Serve, ServeFails, VisitorWrites, ColleagueActs,
           detailPane, vars
  <2>8. Close => CloseDetail
    BY DEF Close
  <2> QED BY <1>1, <2>1, <2>2, <2>3, <2>4, <2>5, <2>6, <2>7, <2>8 DEF Next, Operator, Receive
<1>2. IInv /\ [Next]_vars => (~Mixed /\ Mixed' => active # None /\ active.id # activeId)
  BY <1>1 DEF MixedAllowed
<1> QED BY <1>2, Invariance, PTL DEF Spec, MixedOnlyWhileLoading
=============================================================================
