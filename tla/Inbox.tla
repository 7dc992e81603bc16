------------------------------- MODULE Inbox -------------------------------
(***************************************************************************)
(* The operators' inbox in the browser: web/inbox/src/views/InboxView.vue, *)
(* components/ConversationDetail.vue and composables/usePolling.ts.        *)
(*                                                                         *)
(* The page's code runs one piece at a time: a step is an event of the     *)
(* operator, of the timer or of the window, or an answer with everything   *)
(* its await resumes.  In between lie the requests: the server takes them  *)
(* up in any order and the answers come back in any order, while visitors  *)
(* and colleagues change the conversations.  The server is the one of      *)
(* module Threads, with one step for each request.                         *)
(*                                                                         *)
(* Texts, names and the order of rows are left out.  A draft, and a text   *)
(* on its way, is the conversation that was shown when it was typed; the   *)
(* messages on screen are the conversation they belong to.  The page stays *)
(* mounted: signing out and the settings are left out.                     *)
(***************************************************************************)
EXTENDS Integers

CONSTANTS
    Conv,        \* ids of conversations
    None,        \* null: no conversation
    MaxCalls,    \* bound on requests in flight
    MaxActs,     \* bound on what the operator does
    MaxEvents    \* bound on what others do and on failures

ASSUME NoneAssumption == None \notin Conv
ASSUME InboxBounds == MaxCalls \in Nat \ {0, 1} /\ MaxActs \in Nat /\ MaxEvents \in Nat

VARIABLES
    desk,            \* the server's conversations
    call,            \* requests in flight, with the code that awaits them
    status,          \* the tab
    rows,            \* the list: the marks of its conversations
    listLoading,
    listError,
    activeId,        \* the selected row
    active,          \* the conversation on screen
    detailLoading,
    detailError,
    draft,           \* the text in the reply box
    sending,
    sent,            \* the text send() has passed to reply(), until it returns
    listRunning,     \* listPolling's run has not come back
    detailRunning,   \* detailPolling's run has not come back
    acts,            \* what the operator has done, counted up to MaxActs
    events           \* what others have done and what failed, up to MaxEvents

listPane == <<status, rows, listLoading, listError>>
detailPane == <<activeId, active, detailLoading, detailError, draft, sending, sent>>
pollings == <<listRunning, detailRunning>>
server == <<desk, events>>
vars == <<desk, call, status, rows, listLoading, listError, activeId, active,
          detailLoading, detailError, draft, sending, sent, listRunning, detailRunning,
          acts, events>>

Status == {"open", "archived"}
\* Slot 0 is kept for the load reply() starts beside that of the list.
Slot == 0 .. MaxCalls
OrNone == Conv \cup {None}
Row == [status : Status, unread : BOOLEAN]
Absent == [status |-> "absent", unread |-> FALSE]

\* Rows of the list, with their marks.
Rows == UNION {[ids -> BOOLEAN] : ids \in SUBSET Conv}
NoRows == [k \in {} |-> FALSE]

\* The conversation on screen: its header, and whose messages are under it.
Detail == [id : Conv, status : Status, of : OrNone]
ASSUME NullAssumption == None \notin Detail

\* What resumes when a load has come back: nothing, the polling, reply()
\* or archive().
Then == {"done", "poll", "reply", "archive"}
Answer == {"none", "ok", "gone", "failed"}

ListCall == [op : {"list"}, tab : Status, then : Then, id : OrNone, answer : Answer, rows : Rows]
LoadCall == [op : {"load"}, id : Conv, then : Then, answer : Answer, status : Status]
ReplyCall == [op : {"reply"}, id : Conv, answer : Answer]
ArchiveCall == [op : {"archive"}, id : Conv, to : Status, answer : Answer]
Call == ListCall \cup LoadCall \cup ReplyCall \cup ArchiveCall
NoCall == [op |-> "none"]

NoError == "none"
Error == {NoError, "gone", "load", "reply", "archive"}

\* One type invariant.
TypeOK ==
    /\ desk \in [Conv -> Row \cup {Absent}]
    /\ call \in [Slot -> Call \cup {NoCall}]
    /\ status \in Status /\ rows \in Rows
    /\ activeId \in OrNone /\ active \in Detail \cup {None}
    /\ detailError \in Error
    /\ draft \in OrNone /\ sent \in OrNone
    /\ listLoading \in BOOLEAN /\ listError \in BOOLEAN
    /\ detailLoading \in BOOLEAN /\ sending \in BOOLEAN
    /\ listRunning \in BOOLEAN /\ detailRunning \in BOOLEAN
    /\ acts \in 0 .. MaxActs /\ events \in 0 .. MaxEvents

-----------------------------------------------------------------------------
(* Requests.  A call takes the first free slot. *)

AskList(calls, s, tab, then, id) ==
    [calls EXCEPT ![s] = [op |-> "list", tab |-> tab, then |-> then, id |-> id,
                          answer |-> "none", rows |-> NoRows]]
AskDetail(calls, s, id, then) ==
    [calls EXCEPT ![s] = [op |-> "load", id |-> id, then |-> then,
                          answer |-> "none", status |-> "open"]]
End(calls, s) == [calls EXCEPT ![s] = NoCall]

Free(s) == s > 0 /\ call[s] = NoCall /\ \A t \in 1 .. s - 1 : call[t] # NoCall
FreeNext(s, t) == s < t /\ call[t] = NoCall /\ \A u \in s + 1 .. t - 1 : call[u] # NoCall

Act == acts < MaxActs /\ acts' = acts + 1
Event == events < MaxEvents /\ events' = events + 1

-----------------------------------------------------------------------------
(* The pieces of the page that several handlers run. *)

IdOf(detail) == IF detail = None THEN None ELSE detail.id

\* The watcher of ConversationDetail: another conversation on screen, or none,
\* empties the reply box.
DraftUnder(detail) == IF IdOf(detail) = IdOf(active) THEN draft ELSE None

\* loadActive up to its await.
LoadActive(calls, s, id, then, error) ==
    IF id = None
    THEN /\ active' = None
         /\ draft' = DraftUnder(None)
         /\ detailError' = NoError
         /\ detailLoading' = FALSE
         /\ call' = calls
    ELSE /\ detailLoading' = TRUE
         /\ detailError' = error
         /\ call' = AskDetail(calls, s, id, then)
         /\ UNCHANGED <<active, draft>>

\* Faulty: the spinner of the request in flight stays.
CloseDetail_KeepsSpinner ==
    /\ activeId' = None
    /\ active' = None
    /\ draft' = DraftUnder(None)
    /\ detailError' = NoError
    /\ UNCHANGED detailLoading

CloseDetail ==
    /\ activeId' = None
    /\ active' = None
    /\ draft' = DraftUnder(None)
    /\ detailError' = NoError
    /\ detailLoading' = FALSE

\* A late answer must not reach another row's pane.
StillOpen(id) == activeId = id

\* Faulty: archive() does not look again.
ArchiveMayShow_Unchecked(id) == TRUE
ArchiveMayShow(id) == StillOpen(id)

\* Faulty: the finally block of loadActive stops any spinner.
StillLoading_Never(id) == FALSE
StillLoading(id) == detailLoading /\ ~StillOpen(id)

\* Faulty: a run that failed does not come back.
PollEnds_OnSuccess(c) == c.then = "poll" /\ c.answer = "ok"
PollEnds(c) == c.then = "poll"

\* What reply() still waits for.
Awaited(c) == c.op \in {"list", "load"} /\ c.then = "reply"

\* Faulty: reply() waits for its own answer as well.
ReplyEnds_Never(s) == Awaited(call[s]) /\ \A t \in Slot : ~Awaited(call[t])

\* Faulty: reply() returns when one of its loads is back.
ReplyEnds_First(s) == Awaited(call[s])

\* Promise.all: both loads are back.
ReplyEnds(s) == Awaited(call[s]) /\ \A t \in Slot \ {s} : ~Awaited(call[t])

\* reply() returns true: send() empties the reply box.
ReplyDone(s, kept) ==
    IF ReplyEnds(s)
    THEN sending' = FALSE /\ sent' = None /\ draft' = None
    ELSE draft' = kept /\ UNCHANGED <<sending, sent>>

\* Whether the reply box takes keys.  Faulty: always.
CanType_Sending == active # None
CanType == active # None /\ ~sending

-----------------------------------------------------------------------------
(* The operator, the timer and the window. *)

\* onMounted: the page opens at the conversation its address names.
Init ==
    /\ desk \in [Conv -> {Absent, [status |-> "open", unread |-> TRUE]}]
    /\ status = "open" /\ rows = NoRows /\ listLoading = TRUE /\ listError = FALSE
    /\ activeId \in OrNone /\ active = None
    /\ detailLoading = (activeId # None) /\ detailError = NoError
    /\ draft = None /\ sending = FALSE /\ sent = None
    /\ listRunning = FALSE /\ detailRunning = FALSE
    /\ acts = 0 /\ events = 0
    /\ call = LET listed == AskList([s \in Slot |-> NoCall], 1, "open", "done", None)
              IN  IF activeId = None THEN listed ELSE AskDetail(listed, 2, activeId, "done")

Select(id) ==
    /\ id \in DOMAIN rows
    /\ Act
    /\ activeId' = id
    /\ \E s \in Slot : Free(s) /\ LoadActive(call, s, id, "done", detailError)
    /\ UNCHANGED <<server, listPane, sending, sent, listRunning, detailRunning>>

\* The button of the conversation on screen.
Close ==
    /\ active # None
    /\ Act
    /\ CloseDetail
    /\ UNCHANGED <<server, call, listPane, sending, sent, listRunning, detailRunning>>

\* onPopState.  Which entries the browser's history holds is left out: they
\* outlive a reload of the page.
PopState(id) ==
    /\ Act
    /\ activeId' = id
    /\ \E s \in Slot : Free(s) /\ LoadActive(call, s, id, "done", detailError)
    /\ UNCHANGED <<server, listPane, sending, sent, pollings>>

SwitchTab(tab) ==
    /\ tab # status
    /\ Act
    /\ status' = tab
    /\ listLoading' = TRUE
    /\ \E s \in Slot : Free(s) /\ call' = AskList(call, s, tab, "done", None)
    /\ UNCHANGED <<server, rows, listError, detailPane, pollings>>

Type ==
    /\ CanType
    /\ draft = None
    /\ draft' = active.id
    /\ UNCHANGED <<server, acts, call, listPane, activeId, active, detailLoading, detailError,
                   sending, sent, pollings>>

\* send() and reply() up to its await: the row is read when the text is sent.
Send ==
    /\ active # None /\ draft # None /\ ~sending
    /\ activeId # None
    /\ Act
    /\ sending' = TRUE
    /\ sent' = draft
    /\ \E s \in Slot :
        /\ Free(s)
        /\ call' = [call EXCEPT ![s] = [op |-> "reply", id |-> activeId, answer |-> "none"]]
    /\ UNCHANGED <<server, listPane, activeId, active, detailLoading, detailError, draft, pollings>>

Archive ==
    /\ active # None
    /\ activeId # None
    /\ Act
    /\ \E s \in Slot :
        /\ Free(s)
        /\ call' = [call EXCEPT ![s] =
               [op |-> "archive", id |-> activeId, answer |-> "none",
                to |-> IF active.status = "archived" THEN "open" ELSE "archived"]]
    /\ UNCHANGED <<server, listPane, detailPane, pollings>>

\* The interval of listPolling.  A tick is dropped when a run is out; one of a
\* hidden tab is a tick that does not come.
Tick ==
    /\ ~listRunning
    /\ listRunning' = TRUE
    /\ \E s \in Slot : Free(s) /\ call' = AskList(call, s, status, "poll", None)
    /\ UNCHANGED <<server, listPane, detailPane, detailRunning, acts>>

\* Both pollings run on focus, unless a run of theirs is out.
Focus ==
    /\ Act
    /\ listRunning' = TRUE
    /\ detailRunning' = (detailRunning \/ activeId # None)
    /\ \E s \in Slot, t \in Slot :
        /\ Free(s) /\ FreeNext(s, t)
        /\ LET calls == IF listRunning THEN call ELSE AskList(call, s, status, "poll", None)
           IN  IF detailRunning
               THEN call' = calls /\ UNCHANGED <<active, draft, detailError, detailLoading>>
               ELSE LoadActive(calls, t, activeId, "poll", detailError)
    /\ UNCHANGED <<server, listPane, activeId, sending, sent>>

-----------------------------------------------------------------------------
(* Answers, each with what its await resumes. *)

ReceiveList(s) ==
    LET c == call[s]
        newRows == IF c.answer = "ok" THEN c.rows ELSE rows
        moved == c.then = "archive" /\ StillOpen(c.id) /\ c.id \notin DOMAIN newRows
    IN
    /\ c.op = "list" /\ c.answer # "none"
    /\ rows' = newRows
    /\ listError' = (c.answer # "ok")
    /\ listLoading' = FALSE
    /\ listRunning' = (listRunning /\ ~PollEnds(c))
    /\ call' = End(call, s)
    /\ \/ /\ moved
          /\ CloseDetail
          /\ UNCHANGED <<sending, sent>>
       \/ /\ ~moved
          /\ ReplyDone(s, draft)
          /\ UNCHANGED <<activeId, active, detailLoading, detailError>>
    /\ UNCHANGED <<server, status, detailRunning, acts>>

\* With markReadLocally for a conversation that is shown.
ReceiveLoad(s) ==
    LET c == call[s]
        shown == CASE c.answer = "ok" -> [id |-> c.id, status |-> c.status, of |-> c.id]
                   [] c.answer = "gone" -> None
                   [] OTHER -> active
        error == CASE c.answer = "ok" -> NoError
                   [] c.answer = "gone" -> "gone"
                   [] OTHER -> "load"
    IN
    /\ c.op = "load" /\ c.answer # "none"
    /\ \/ /\ StillOpen(c.id)
          /\ active' = shown
          /\ detailError' = error
          /\ rows' = IF c.answer = "ok" THEN [k \in DOMAIN rows |-> rows[k] /\ k # c.id] ELSE rows
          /\ ReplyDone(s, DraftUnder(shown))
       \/ /\ ~StillOpen(c.id)
          /\ ReplyDone(s, draft)
          /\ UNCHANGED <<active, detailError, rows>>
    /\ detailLoading' = StillLoading(c.id)
    /\ detailRunning' = (detailRunning /\ c.then # "poll")
    /\ call' = End(call, s)
    /\ UNCHANGED <<server, status, listLoading, listError, activeId, listRunning,
                   acts>>

\* reply() after its await: both panes are loaded before it returns.
ReceiveReply(s) ==
    /\ call[s].op = "reply" /\ call[s].answer # "none"
    /\ \/ /\ call[s].answer = "ok"
          /\ LoadActive(AskList(call, s, status, "reply", None), 0, activeId, "reply", NoError)
          /\ UNCHANGED <<sending, sent>>
       \/ /\ call[s].answer # "ok"
          /\ detailError' = "reply"
          /\ sending' = FALSE
          /\ sent' = None
          /\ call' = End(call, s)
          /\ UNCHANGED <<active, detailLoading, draft>>
    /\ UNCHANGED <<server, listPane, activeId, pollings, acts>>

\* archive() after its await: the messages on screen stay under the header of
\* the answer, and the list is loaded.
ReceiveArchive(s) ==
    LET c == call[s]
        shown == [id |-> c.id, status |-> c.to, of |-> IF active = None THEN None ELSE active.of]
    IN
    /\ c.op = "archive" /\ c.answer # "none"
    /\ \/ /\ c.answer = "ok" /\ ArchiveMayShow(c.id)
          /\ active' = shown
          /\ draft' = DraftUnder(shown)
          /\ detailError' = NoError
          /\ call' = AskList(call, s, status, "archive", c.id)
       \/ /\ c.answer # "ok" /\ StillOpen(c.id)
          /\ detailError' = "archive"
          /\ call' = End(call, s)
          /\ UNCHANGED <<active, draft>>
       \/ /\ ~StillOpen(c.id)
          /\ call' = End(call, s)
          /\ UNCHANGED <<active, draft, detailError>>
    /\ UNCHANGED <<server, listPane, activeId, detailLoading, sending, sent, pollings, acts>>

Receive(s) == ReceiveList(s) \/ ReceiveLoad(s) \/ ReceiveReply(s) \/ ReceiveArchive(s)

-----------------------------------------------------------------------------
(* The server. *)

Exists(k) == desk[k] # Absent
Listed(tab) == [k \in {k \in Conv : desk[k].status = tab} |-> desk[k].unread]

\* What a request does to the conversations, and its answer.
Effect(c) ==
    CASE c.op = "load" /\ Exists(c.id) -> [desk EXCEPT ![c.id].unread = FALSE]
      [] c.op = "archive" /\ Exists(c.id) -> [desk EXCEPT ![c.id].status = c.to]
      [] OTHER -> desk

Filled(c) ==
    CASE c.op = "list" -> [c EXCEPT !.rows = Listed(c.tab)]
      [] c.op = "load" /\ Exists(c.id) -> [c EXCEPT !.status = desk[c.id].status]
      [] OTHER -> c

Code(c) == IF c.op = "list" \/ Exists(c.id) THEN "ok" ELSE "gone"
Answered(c) == [Filled(c) EXCEPT !.answer = Code(c)]

Waiting(s) == call[s] # NoCall /\ call[s].answer = "none"

Serve(s) ==
    /\ Waiting(s)
    /\ desk' = Effect(call[s])
    /\ call' = [call EXCEPT ![s] = Answered(call[s])]
    /\ UNCHANGED <<events, acts, listPane, detailPane, pollings>>

\* The server or the network fails, before or after the request was obeyed.
ServeFails(s) ==
    /\ Waiting(s)
    /\ Event
    /\ desk' \in {desk, Effect(call[s])}
    /\ call' = [call EXCEPT ![s].answer = "failed"]
    /\ UNCHANGED <<acts, listPane, detailPane, pollings>>

\* A visitor writes, to an open conversation or a new one.
VisitorWrites(k) ==
    /\ desk[k].status # "archived"
    /\ Event
    /\ desk' = [desk EXCEPT ![k] = [status |-> "open", unread |-> TRUE]]
    /\ UNCHANGED <<call, acts, listPane, detailPane, pollings>>

\* A colleague opens, archives or unarchives a conversation.
ColleagueActs(k) ==
    /\ Exists(k)
    /\ Event
    /\ \/ desk' = [desk EXCEPT ![k].unread = FALSE]
       \/ \E to \in Status : desk' = [desk EXCEPT ![k].status = to]
    /\ UNCHANGED <<call, acts, listPane, detailPane, pollings>>

-----------------------------------------------------------------------------
Operator ==
    \/ \E id \in Conv : Select(id)
    \/ \E id \in OrNone : PopState(id)
    \/ \E tab \in Status : SwitchTab(tab)
    \/ Close
    \/ Type
    \/ Send
    \/ Archive
    \/ Focus

Next ==
    \/ Operator
    \/ Tick
    \/ \E s \in Slot : Receive(s)
    \/ \E s \in Slot : Serve(s)
    \/ \E s \in Slot : ServeFails(s)
    \/ \E k \in Conv : VisitorWrites(k)
    \/ \E k \in Conv : ColleagueActs(k)

Spec == Init /\ [][Next]_vars

\* The interval goes on, the server answers, and the page's code resumes when
\* an answer is there.  Nothing is assumed of the operator.
FairSpec ==
    /\ Spec
    /\ WF_vars(Tick)
    /\ \A s \in Slot : WF_vars(Serve(s)) /\ WF_vars(Receive(s))

-----------------------------------------------------------------------------
(* Properties. *)

\* A spinner turns only while the request it stands for is on its way: the
\* resets in closeDetail and loadActive (InboxView.vue 59-62, 83-85, 110-112)
\* and the late answers they are about never leave one turning for ever.
SpinnersHonest ==
    /\ detailLoading => \E s \in Slot : call[s].op = "load" /\ call[s].id = activeId
    /\ listLoading => \E s \in Slot : call[s].op = "list" /\ call[s].tab = status

\* While another conversation than the selected one is on screen, its load is
\* on its way or the operator has been told: "must not stop the spinner for
\* the one they are waiting on" (InboxView.vue 83).
ShownIsSelectedOrTold ==
    active # None /\ active.id # activeId => detailLoading \/ detailError # NoError

\* What the operator has typed goes away only when its conversation is left or
\* gone, or when this very text is stored: not by a failed refresh, a rejected
\* send (ConversationDetail.vue 44), or a reply that returns later, under
\* another row.
DraftLost == draft # None /\ draft' # draft
ReplyStored == sending /\ ~sending' /\ sent = draft /\ detailError' # "reply"
DraftKept ==
    [][DraftLost => activeId' # draft \/ detailError' = "gone" \/ ReplyStored]_vars

\* The messages of one conversation come under the header of another only when
\* archive() was answered while the selected row was not on screen yet; what
\* InboxView.vue 145 excludes, an answer for a row that was left, never does it.
Mixed == active # None /\ active.of \notin {active.id, None}
MixedOnlyWhileLoading ==
    [][~Mixed /\ Mixed' => active # None /\ active.id # activeId]_vars

\* The strengthening the proofs use: whose draft is in the box, and what may be
\* in flight while a reply is sent.
DraftOfShown == draft # None => active # None /\ active.id = draft

ReplyInOrder ==
    /\ call[0] # NoCall => call[0].op = "load" /\ call[0].then = "reply"
    /\ \A s \in Slot : call[s].op = "reply" \/ Awaited(call[s]) => sending
    /\ \A s, t \in Slot : call[s].op = "reply" =>
           ~Awaited(call[t]) /\ (call[t].op = "reply" => s = t)
    /\ (\E s \in Slot : Awaited(call[s])) => detailError # "reply"
    /\ sending /\ draft # None => sent = draft

IInv == TypeOK /\ SpinnersHonest /\ ShownIsSelectedOrTold /\ DraftOfShown /\ ReplyInOrder

\* When the operator and the others have come to rest, the list of a tab
\* that is looked at becomes what the server has for it, whatever answers came late, failed
\* or belonged to the other tab, and whatever was marked locally.
ListCatchesUp == <>[](rows = Listed(status) /\ ~listError)

\* The reply box opens again after every reply.
ComposerReturns == sending ~> ~sending

\* A text is sent to the conversation it was typed under: "A draft belongs to
\* one conversation; switching rows must not carry it over."
\* (ConversationDetail.vue 26).
DraftSentToOwn == \A s \in Slot : call[s].op = "reply" => call[s].id = sent
=============================================================================
