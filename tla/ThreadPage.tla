----------------------------- MODULE ThreadPage -----------------------------
(***************************************************************************)
(* The page behind a magic link, web/visitor/src/views/ThreadPage.vue,     *)
(* which route.ts and App.vue of the visitor app open for /t/<token>.      *)
(*                                                                         *)
(* A step is an event of the visitor or an answer with what its await      *)
(* resumes.  The server is handleThreadMessage and handleGetThread over    *)
(* the threads of this visitor's address, which operators archive and take *)
(* back meanwhile; a follow-up is a look-up of the link and a write, as in *)
(* module Threads.  A token is the thread it opens, 0 one that opens none. *)
(* The visitor may type while a follow-up is on its way: only the button   *)
(* is disabled then.  Reloading the page starts it again at its address.   *)
(***************************************************************************)
EXTENDS Page

CONSTANT MaxThreads   \* bound on the threads of the visitor

ASSUME ThreadBound == MaxThreads \in Nat \ {0}

VARIABLES
    url,        \* the token in the page's address
    token,
    thread,     \* what the page was last shown of a thread
    loading,
    loadError,
    invalid,
    body,       \* the text in the reply box
    drafts,     \* how many texts were typed
    sending,
    fetching,   \* the request of load() in flight
    posting,    \* the requests of send() in flight
    threads,    \* the server's threads: status, and the drafts stored in each
    copies,     \* how many copies of a draft are stored
    lost,       \* how many of them the page was not told of
    acked       \* the thread a draft was stored in, once the page was told

page == <<url, token, thread, loading, loadError, invalid>>
box == <<body, drafts, sending, acked>>
shelf == <<threads, copies, lost>>
threadVars == <<page, box, fetching, posting, shelf, mishaps>>

Thread == 1 .. MaxThreads
Link == 0 .. MaxThreads

Status == {"none", "open", "archived"}
Content == [status : Status, posts : SUBSET Draft]
Shown == [of : Link, posts : SUBSET Draft]
Nothing == [of |-> 0, posts |-> {}]

Fetch == [of : Link, answer : Answer, shown : Shown]
NoFetch == [of |-> 0, answer |-> "none", shown |-> Nothing]

\* A follow-up has looked up its link ("append" or "add") or not ("new").
FollowUp == [of : Link, text : Draft, stage : {"new", "append", "add", "done"},
             answer : Answer, next : Link]
NoFollowUp == [of |-> 0, text |-> 0, stage |-> "done", answer |-> "none", next |-> 0]

ThreadTypeOK ==
    /\ url \in Link /\ token \in Link
    /\ thread \in Shown
    /\ loading \in BOOLEAN /\ loadError \in BOOLEAN /\ invalid \in BOOLEAN
    /\ body \in DraftOrNone /\ drafts \in DraftOrNone
    /\ sending \in BOOLEAN
    /\ fetching \in Fetch
    /\ posting \in [Slot -> FollowUp \cup {NoFollowUp}]
    /\ threads \in [Thread -> Content]
    /\ copies \in [Draft -> Nat] /\ lost \in [Draft -> Nat]
    /\ acked \in [Draft -> Link]
    /\ mishaps \in Nat

\* The page as it starts at an address: its first load is on its way.
Mounted(t) ==
    /\ url = t /\ token = t
    /\ thread = Nothing
    /\ loading = TRUE /\ loadError = FALSE /\ invalid = FALSE
    /\ body = NoText /\ sending = FALSE
    /\ fetching = [NoFetch EXCEPT !.of = t]

ThreadInit ==
    /\ \E t \in {0, 1} : Mounted(t)
    /\ drafts = 0
    /\ posting = [s \in Slot |-> NoFollowUp]
    /\ \E status \in {"open", "archived"} :
           threads = [i \in Thread |-> [status |-> IF i = 1 THEN status ELSE "none", posts |-> {}]]
    /\ copies = [d \in Draft |-> 0] /\ lost = [d \in Draft |-> 0]
    /\ acked = [d \in Draft |-> 0]

-----------------------------------------------------------------------------
(* The page. *)

\* load() up to its await.
Load(t) ==
    /\ loading' = TRUE
    /\ loadError' = FALSE
    /\ fetching' = [NoFetch EXCEPT !.of = t]

\* load() after its await; it is the last thing a send() waits for.
ReceiveThread ==
    /\ fetching.answer # "none"
    /\ fetching' = NoFetch
    /\ loading' = FALSE
    /\ sending' = FALSE
    /\ \/ /\ fetching.answer = "ok"
          /\ thread' = fetching.shown
          /\ invalid' = FALSE
          /\ UNCHANGED loadError
       \/ /\ fetching.answer = "refused"
          /\ invalid' = TRUE
          /\ UNCHANGED <<thread, loadError>>
       \/ /\ fetching.answer = "failed"
          /\ loadError' = TRUE
          /\ UNCHANGED <<thread, invalid>>
    /\ UNCHANGED <<url, token, body, drafts, acked, posting, shelf, mishaps>>

\* The reply form of the template, with the box open at all times.
ReplyShown == ~loading /\ ~invalid

TypeReply ==
    /\ ReplyShown
    /\ drafts < MaxDrafts
    /\ drafts' = drafts + 1
    /\ body' = drafts + 1
    /\ UNCHANGED <<page, sending, acked, fetching, posting, shelf, mishaps>>

FreePosting(s) == posting[s] = NoFollowUp /\ \A t \in Slot : t < s => posting[t] # NoFollowUp

PostReply(s) ==
    /\ ReplyShown
    /\ ~sending
    /\ body # NoText
    /\ FreePosting(s)
    /\ sending' = TRUE
    /\ posting' = [posting EXCEPT ![s] = [of |-> token, text |-> body, stage |-> "new",
                                          answer |-> "none", next |-> 0]]
    /\ UNCHANGED <<page, drafts, acked, fetching, shelf, mishaps>>

\* Faulty: the box is emptied at once.
SendReply_Empties(s) == PostReply(s) /\ body' = NoText

\* send() up to its await.
SendReply(s) == PostReply(s) /\ UNCHANGED body

\* Faulty: the load is not waited for with the new token.
Follow_LoadsOld(next) ==
    /\ token' = next
    /\ url' = next
    /\ Load(token)

\* The token of the answer is followed, in the address too, and loaded.
Follow(next) ==
    /\ token' = next
    /\ url' = next
    /\ Load(next)

\* send() after its await; a load that fails does not make it fail.
ReceiveFollowUp(s) ==
    LET c == posting[s] IN
    /\ c.answer # "none"
    /\ posting' = [posting EXCEPT ![s] = NoFollowUp]
    /\ \/ /\ c.answer = "ok"
          /\ body' = NoText
          /\ acked' = [acked EXCEPT ![c.text] = c.next]
          /\ Follow(c.next)
          /\ UNCHANGED sending
       \/ /\ c.answer # "ok"
          /\ sending' = FALSE
          /\ UNCHANGED <<url, token, loading, loadError, body, acked, fetching>>
    /\ UNCHANGED <<thread, invalid, drafts, shelf, mishaps>>

Untold(d) == \E s \in Slot : posting[s].text = d /\ posting[s].answer = "ok"

\* The visitor reloads the page: what is typed is gone, the requests are cut
\* off, and so are the answers that were on their way.
Reload ==
    /\ Mishap
    /\ token' = url /\ UNCHANGED url
    /\ thread' = Nothing
    /\ invalid' = FALSE
    /\ body' = NoText
    /\ sending' = FALSE
    /\ Load(url)
    /\ posting' = [s \in Slot |-> NoFollowUp]
    /\ lost' = [d \in Draft |-> lost[d] + One(Untold(d))]
    /\ UNCHANGED <<drafts, acked, threads, copies>>

-----------------------------------------------------------------------------
(* The server. *)

ServeThread ==
    /\ loading /\ fetching.answer = "none"
    /\ fetching' =
           IF fetching.of = 0 THEN [fetching EXCEPT !.answer = "refused"]
           ELSE [of |-> fetching.of, answer |-> "ok",
                 shown |-> [of |-> fetching.of, posts |-> threads[fetching.of].posts]]
    /\ UNCHANGED <<page, box, posting, shelf, mishaps>>

ThreadFails ==
    /\ loading /\ fetching.answer = "none"
    /\ Mishap
    /\ fetching' = [fetching EXCEPT !.answer = "failed"]
    /\ UNCHANGED <<page, box, posting, shelf>>

\* conversationByToken, and the branch on the status it found.
LookUpThread(s) ==
    LET c == posting[s] IN
    /\ c.stage = "new"
    /\ posting' = [posting EXCEPT ![s] =
           IF c.of = 0 THEN [c EXCEPT !.stage = "done", !.answer = "refused"]
           ELSE [c EXCEPT !.stage = IF threads[c.of].status = "open" THEN "append" ELSE "add"]]
    /\ UNCHANGED <<page, box, fetching, shelf, mishaps>>

OpenThreads == {i \in Thread : threads[i].status = "open"}
Unused == {i \in Thread : threads[i].status = "none"}

\* AppendVisitorMessage goes by the thread found, AddVisitorMessage to an open
\* thread of the address (which of several is the subject of module Threads)
\* or to a new one.
Targets(c) ==
    IF c.stage = "append" THEN {c.of}
    ELSE IF OpenThreads # {} THEN OpenThreads
    ELSE {i \in Unused : \A j \in Unused : i <= j}

Insert(i, d) ==
    /\ threads' = [threads EXCEPT ![i] =
           [status |-> IF @.status = "none" THEN "open" ELSE @.status, posts |-> @.posts \cup {d}]]
    /\ copies' = [copies EXCEPT ![d] = @ + 1]

StoreReply(s) ==
    LET c == posting[s] IN
    /\ c.stage \in {"append", "add"}
    /\ \E i \in Targets(c) :
           /\ Insert(i, c.text)
           /\ posting' = [posting EXCEPT ![s] =
                  [c EXCEPT !.stage = "done", !.answer = "ok", !.next = i]]
    /\ UNCHANGED <<page, box, fetching, lost, mishaps>>

\* The store or the connection fails; the latter may hide a stored message.
ReplyFails(s) ==
    LET c == posting[s] IN
    /\ c.stage # "done"
    /\ Mishap
    /\ posting' = [posting EXCEPT ![s] = [c EXCEPT !.stage = "done", !.answer = "failed"]]
    /\ \/ UNCHANGED shelf
       \/ /\ c.stage \in {"append", "add"}
          /\ \E i \in Targets(c) : Insert(i, c.text)
          /\ lost' = [lost EXCEPT ![c.text] = @ + 1]
    /\ UNCHANGED <<page, box, fetching>>

\* Operators archive threads and take them back; the last one the bound has
\* room for stays, so that a follow-up always finds a thread.
SetStatus(i) ==
    /\ threads[i].status # "none" /\ i < MaxThreads
    /\ Mishap
    /\ threads' = [threads EXCEPT ![i].status = IF @ = "open" THEN "archived" ELSE "open"]
    /\ UNCHANGED <<page, box, fetching, posting, copies, lost>>

-----------------------------------------------------------------------------
ThreadNext ==
    \/ ReceiveThread \/ TypeReply \/ Reload
    \/ ServeThread \/ ThreadFails
    \/ \E s \in Slot : \/ SendReply(s) \/ ReceiveFollowUp(s)
                       \/ LookUpThread(s) \/ StoreReply(s) \/ ReplyFails(s)
    \/ \E i \in Thread : SetStatus(i)

ThreadSpec == ThreadInit /\ mishaps = 0 /\ [][ThreadNext]_threadVars

-----------------------------------------------------------------------------
(* Properties. *)

\* What the page shows is the thread its token opens, with every follow-up
\* that was acknowledged in that thread, also after the answer moved the page
\* to another thread and after a reload.
ScreenIsCurrent ==
    ~loading /\ ~invalid /\ ~loadError =>
        /\ thread.of = token
        /\ \A d \in Draft : acked[d] = token => d \in thread.posts

\* A text leaves the box only when it is stored, when the visitor reloads the
\* page, or when it was typed while the follow-up before it was on its way:
\* the empty box then takes the place of both (ThreadPage.vue 49).
TypedOver == \E s \in Slot : posting[s].answer = "ok" /\ posting[s].text # body
Reloaded == thread' = Nothing /\ loading' /\ ~sending'
TextLeavesStored ==
    [][body # NoText /\ body' = NoText => acked'[body] # 0 \/ TypedOver \/ Reloaded]_threadVars

\* Every stored copy of a follow-up was acknowledged, or its answer is on its
\* way or was lost.
EachReplyOnce ==
    \A d \in Draft : copies[d] = lost[d] + One(Untold(d)) + One(acked[d] # 0)

\* One request is out at a time, for the token of the page, and the page is
\* at its address.
OneFollowUp ==
    /\ url = token
    /\ posting[2] = NoFollowUp
    /\ posting[1] # NoFollowUp => sending /\ ~loading /\ posting[1].of = token
    /\ sending => loading \/ posting[1] # NoFollowUp
    /\ loading => fetching.of = token
    /\ ~loading => fetching = NoFetch

\* What an answer on its way says is so, what was acknowledged is stored, and
\* is not in the box any more.
AnswersSound ==
    /\ body <= drafts
    /\ \A d \in Draft : acked[d] # 0 => d <= drafts /\ d # body /\ d \in threads[acked[d]].posts
    /\ LET c == posting[1] IN
           c # NoFollowUp =>
               /\ c.text <= drafts /\ acked[c.text] = 0
               /\ c.stage \in {"append", "add"} => c.of # 0
               /\ c.answer # "none" <=> c.stage = "done"
               /\ c.answer = "ok" => c.next # 0 /\ c.text \in threads[c.next].posts
    /\ fetching.answer = "ok" =>
           /\ fetching.of # 0 /\ fetching.shown.of = fetching.of
           /\ \A d \in Draft : acked[d] = fetching.of => d \in fetching.shown.posts
    /\ ~loading /\ ~invalid /\ ~loadError => token # 0

\* A link that is followed leads to a thread that was begun.
Leads(link) == link # 0 => threads[link].status # "none"
LinksLead == Leads(token) /\ \A s \in Slot : Leads(posting[s].of) /\ Leads(posting[s].next)

PageInv ==
    ThreadTypeOK /\ ScreenIsCurrent /\ EachReplyOnce /\ OneFollowUp /\ AnswersSound

ThreadInv == PageInv /\ LinksLead

-----------------------------------------------------------------------------
(* The abstract shelf, of one visitor. *)

Standing(status) == {<<"visitor", i>> : i \in {j \in Thread : threads[j].status = status}}

LookedUpBy(s) ==
    [request |-> s, thread |-> posting[s].of, open |-> (posting[s].stage = "append")]

Filing == INSTANCE Shelf WITH
    open <- Standing("open"),
    archived <- Standing("archived"),
    filed <- {p \in Draft \X Thread : p[1] \in threads[p[2]].posts},
    found <- {LookedUpBy(s) : s \in {r \in Slot : posting[r].stage \in {"append", "add"}}}

\* The threads this page is served from are filed as those of module Threads
\* are: a look-up, then a message into the thread of the link if it was open, or
\* into an open or a new one of the visitor (public.go:144).
PageKeepsShelf == Filing!Spec
=============================================================================
