------------------------------ MODULE Threads ------------------------------
(***************************************************************************)
(* The conversations of the support desk and the HTTP handlers that work   *)
(* on them: internal/store (threads, conversations, messages), the public  *)
(* handlers of internal/server/public.go, the operator handlers of         *)
(* internal/server/inbox.go and the mail jobs of internal/mail/notifier.go.*)
(*                                                                         *)
(* Every database call is one atomic step, because the store keeps a       *)
(* single connection (store.go:40) and groups the writes of an operation   *)
(* in one transaction.  A handler is a sequence of such steps: what it has *)
(* read so far is in its request slot, and other handlers run in between.  *)
(* Where a handler's second call does not depend on anything its first one *)
(* read that could have changed, the two are one action here.              *)
(*                                                                         *)
(* Conversations and messages are the two tables, a row's id its position. *)
(* Inserts are serialised and stamped with a later instant each, so the id *)
(* of a message also stands for its created_at.  A conversation's magic    *)
(* link is the random token of its row and stands for the conversation     *)
(* itself; a visitor stands for the address and for its mailbox.           *)
(***************************************************************************)
EXTENDS Naturals, Sequences

CONSTANTS
    Visitor,      \* visitor addresses, each with the person who reads its mail
    Slot,         \* requests that may be in progress at the same time
    MaxMessages,  \* bound on the messages ever stored
    Faults        \* what may go wrong, see Outcomes

ASSUME BoundAssumption == MaxMessages \in Nat
ASSUME FaultAssumption == Faults \subseteq {"crash", "store", "mail", "client"}

VARIABLES
    convs,     \* table conversations
    msgs,      \* table messages
    req,       \* what each request slot is doing
    outbox,    \* threads with a mail to the visitor on its way
    held,      \* the links each visitor has been given, by mail or in an answer
    seen,      \* visitor messages in a history an operator's request answered
    mailed,    \* visitor messages the operators have been mailed about
    reopened   \* conversations an operator has ever unarchived

vars == <<convs, msgs, req, outbox, held, seen, mailed, reopened>>

----------------------------------------------------------------------------
(* Types *)

Status == {"open", "archived"}

Conversation == [email : Visitor, status : Status, unread : BOOLEAN, lastAt : Nat]

Message == [conv : Nat, sender : {"visitor", "operator"}]

\* A slot without a request.
Idle == [pc |-> "idle"]

\* A request: a follow-up that has looked its link up; a visitor message that
\* is stored, its notifications and its answer still to come; a conversation
\* being opened that has read the row; one that has also read the messages.
Request ==
    {Idle}
    \cup [pc : {"followUp"}, who : Visitor, conv : Nat, status : Status]
    \cup [pc : {"stored"}, who : Visitor, conv : Nat, msg : Nat,
          receipt : BOOLEAN, link : BOOLEAN]
    \cup [pc : {"opened"}, conv : Nat, unread : BOOLEAN, asOf : Nat]
    \cup [pc : {"listed"}, conv : Nat, asOf : Nat, history : SUBSET Nat]

ConvId == DOMAIN convs
MsgId == DOMAIN msgs

TypeOK ==
    /\ convs \in Seq(Conversation)
    /\ msgs \in Seq(Message)
    /\ req \in [Slot -> Request]
    /\ outbox \subseteq Nat
    /\ held \in [Visitor -> SUBSET Nat]
    /\ seen \subseteq Nat
    /\ mailed \subseteq Nat
    /\ reopened \subseteq Nat

\* The ways a step that a fault can spoil may end: always well without it.
Outcomes(fault) == IF fault \in Faults THEN BOOLEAN ELSE {TRUE}

----------------------------------------------------------------------------
(* The store *)

NextMsg == Len(msgs) + 1

\* What listMessages returns: the messages of a conversation.
History(c) == {m \in MsgId : msgs[m].conv = c}

VisitorMessages == {m \in MsgId : msgs[m].sender = "visitor"}

\* Faulty: the status is not part of the query.
OpenConvs_AnyStatus(email) == {c \in ConvId : convs[c].email = email}

OpenConvs(email) == {c \in ConvId : convs[c].email = email /\ convs[c].status = "open"}

\* c is the row of ORDER BY last_message_at DESC, id DESC LIMIT 1
openConversationForVisitor(email, c) ==
    /\ c \in OpenConvs(email)
    /\ \A d \in OpenConvs(email) \ {c} :
        \/ convs[d].lastAt < convs[c].lastAt
        \/ convs[d].lastAt = convs[c].lastAt /\ d < c

createConversation(email) ==
    convs' = Append(convs, [email |-> email, status |-> "open",
                            unread |-> TRUE, lastAt |-> NextMsg])

insertMessage(c, sender) == msgs' = Append(msgs, [conv |-> c, sender |-> sender])

\* Faulty: a message reopens the thread it is appended to.
AppendVisitorMessage_Reopens(c) ==
    /\ insertMessage(c, "visitor")
    /\ convs' = [convs EXCEPT ![c].unread = TRUE, ![c].lastAt = NextMsg,
                             ![c].status = "open"]

\* By id: the status of the conversation is not looked at.
AppendVisitorMessage(c) ==
    /\ insertMessage(c, "visitor")
    /\ convs' = [convs EXCEPT ![c].unread = TRUE, ![c].lastAt = NextMsg]

\* By address: c is where the message went, created whether c is new.
AddVisitorMessage(email, c, created) ==
    \/ /\ ~created
       /\ openConversationForVisitor(email, c)
       /\ AppendVisitorMessage(c)
    \/ /\ created
       /\ OpenConvs(email) = {}
       /\ c = Len(convs) + 1
       /\ createConversation(email)
       /\ insertMessage(c, "visitor")

\* Faulty: the conversation is not bumped.
AddOperatorReply_NoBump(c) == insertMessage(c, "operator") /\ UNCHANGED convs

\* The unread flag is left as it is.
AddOperatorReply(c) ==
    /\ insertMessage(c, "operator")
    /\ convs' = [convs EXCEPT ![c].lastAt = NextMsg]

\* Faulty: the flag is cleared whatever has arrived.
MarkRead_Always(c, asOf) == convs' = [convs EXCEPT ![c].unread = FALSE]

\* UPDATE ... SET unread = 0 WHERE id = c AND last_message_at = asOf
MarkRead(c, asOf) ==
    convs' = [convs EXCEPT ![c].unread = @ /\ convs[c].lastAt # asOf]

\* Faulty: archiving counts as reading.
SetStatus_Reads(c, status) ==
    convs' = [convs EXCEPT ![c].status = status, ![c].unread = @ /\ status = "open"]

SetStatus(c, status) == convs' = [convs EXCEPT ![c].status = status]

----------------------------------------------------------------------------
(* The handlers *)

Init ==
    /\ convs = <<>>
    /\ msgs = <<>>
    /\ req = [s \in Slot |-> Idle]
    /\ outbox = {}
    /\ held = [v \in Visitor |-> {}]
    /\ seen = {}
    /\ mailed = {}
    /\ reopened = {}

CanStore == Len(msgs) < MaxMessages

\* Faulty: the answer carries the link of the thread.
HandleNewMessage_AnswersLink(s, who, email) ==
    /\ req[s] = Idle
    /\ CanStore
    /\ \E c \in 1 .. Len(convs) + 1, created \in BOOLEAN :
        /\ AddVisitorMessage(email, c, created)
        /\ req' = [req EXCEPT ![s] = [pc |-> "stored", who |-> who, conv |-> c,
                        msg |-> NextMsg, receipt |-> created, link |-> TRUE]]
    /\ UNCHANGED <<outbox, held, seen, mailed, reopened>>

\* Faulty: no receipt for a new thread.
HandleNewMessage_NoReceipt(s, who, email) ==
    /\ req[s] = Idle
    /\ CanStore
    /\ \E c \in 1 .. Len(convs) + 1, created \in BOOLEAN :
        /\ AddVisitorMessage(email, c, created)
        /\ req' = [req EXCEPT ![s] = [pc |-> "stored", who |-> who, conv |-> c,
                        msg |-> NextMsg, receipt |-> FALSE, link |-> FALSE]]
    /\ UNCHANGED <<outbox, held, seen, mailed, reopened>>

\* handleNewMessage: anyone may submit the form with any address.
HandleNewMessage(s, who, email) ==
    /\ req[s] = Idle
    /\ CanStore
    /\ \E c \in 1 .. Len(convs) + 1, created \in BOOLEAN :
        /\ AddVisitorMessage(email, c, created)
        /\ req' = [req EXCEPT ![s] = [pc |-> "stored", who |-> who, conv |-> c,
                        msg |-> NextMsg, receipt |-> created, link |-> FALSE]]
    /\ UNCHANGED <<outbox, held, seen, mailed, reopened>>

\* handleThreadMessage, first call: the conversation behind the link.
LookUpLink(s, who, c) ==
    /\ req[s] = Idle
    /\ c \in held[who]
    /\ req' = [req EXCEPT ![s] = [pc |-> "followUp", who |-> who, conv |-> c,
                                  status |-> convs[c].status]]
    /\ UNCHANGED <<convs, msgs, outbox, held, seen, mailed, reopened>>

\* Faulty: the link decides, whatever the status.
StoreFollowUp_ByLink(s) ==
    /\ req[s].pc = "followUp"
    /\ CanStore
    /\ AppendVisitorMessage(req[s].conv)
    /\ req' = [req EXCEPT ![s] = [pc |-> "stored", who |-> req[s].who,
                    conv |-> req[s].conv, msg |-> NextMsg, receipt |-> FALSE,
                    link |-> TRUE]]
    /\ UNCHANGED <<outbox, held, seen, mailed, reopened>>

\* handleThreadMessage, second call: an open thread takes the message itself,
\* an archived one hands it to the rules for new messages.
StoreFollowUp(s) ==
    /\ req[s].pc = "followUp"
    /\ CanStore
    /\ \E c \in 1 .. Len(convs) + 1 :
        /\ IF req[s].status = "open"
           THEN c = req[s].conv /\ AppendVisitorMessage(c)
           ELSE \E created \in BOOLEAN :
                    AddVisitorMessage(convs[req[s].conv].email, c, created)
        /\ req' = [req EXCEPT ![s] = [pc |-> "stored", who |-> req[s].who,
                        conv |-> c, msg |-> NextMsg, receipt |-> FALSE,
                        link |-> TRUE]]
    /\ UNCHANGED <<outbox, held, seen, mailed, reopened>>

\* Faulty: operators are told of new threads only.
Answer_NewThreadsOnly(s) ==
    /\ req[s].pc = "stored"
    /\ mailed' = IF req[s].receipt THEN mailed \cup {req[s].msg} ELSE mailed
    /\ outbox' = IF req[s].receipt THEN outbox \cup {req[s].conv} ELSE outbox
    /\ held' = IF req[s].link THEN [held EXCEPT ![req[s].who] = @ \cup {req[s].conv}] ELSE held
    /\ req' = [req EXCEPT ![s] = Idle]
    /\ UNCHANGED <<convs, msgs, seen, reopened>>

\* The end of both handlers.  The operators' mail is lost when operatorEmails
\* failed (for instance because the client has gone and its context is
\* cancelled) or when the send fails, which is only logged; nothing else reads
\* what it does, so the goroutine's run is part of this step.  The answer to a
\* follow-up carries the link of the thread the message went to.
Answer(s) ==
    /\ req[s].pc = "stored"
    /\ \E recipients \in Outcomes("store"), sent \in Outcomes("mail") :
        mailed' = IF recipients /\ sent THEN mailed \cup {req[s].msg} ELSE mailed
    /\ outbox' = IF req[s].receipt THEN outbox \cup {req[s].conv} ELSE outbox
    /\ \E delivered \in Outcomes("client") :
        held' = IF req[s].link /\ delivered
                THEN [held EXCEPT ![req[s].who] = @ \cup {req[s].conv}]
                ELSE held
    /\ req' = [req EXCEPT ![s] = Idle]
    /\ UNCHANGED <<convs, msgs, seen, reopened>>

\* Faulty: the flag is cleared before the messages are read.
OpenConversation_ClearsFirst(s, c) ==
    /\ req[s] = Idle
    /\ convs' = [convs EXCEPT ![c].unread = FALSE]
    /\ req' = [req EXCEPT ![s] = [pc |-> "opened", conv |-> c,
                        unread |-> convs[c].unread, asOf |-> convs[c].lastAt]]
    /\ UNCHANGED <<msgs, outbox, held, seen, mailed, reopened>>

\* Faulty: the last activity taken is the last one of the visitor.
OpenConversation_VisitorActivity(s, c) ==
    /\ req[s] = Idle
    /\ \E m \in History(c) \cap VisitorMessages :
        /\ \A n \in History(c) \cap VisitorMessages : n <= m
        /\ req' = [req EXCEPT ![s] = [pc |-> "opened", conv |-> c,
                            unread |-> convs[c].unread, asOf |-> m]]
    /\ UNCHANGED <<convs, msgs, outbox, held, seen, mailed, reopened>>

\* handleGetConversation, first call: the row, with its flag and last activity.
OpenConversation(s, c) ==
    /\ req[s] = Idle
    /\ req' = [req EXCEPT ![s] = [pc |-> "opened", conv |-> c,
                        unread |-> convs[c].unread, asOf |-> convs[c].lastAt]]
    /\ UNCHANGED <<convs, msgs, outbox, held, seen, mailed, reopened>>

\* Second call: the messages.  A conversation that was read already has its
\* answer now.
ListMessages(s) ==
    /\ req[s].pc = "opened"
    /\ IF req[s].unread
       THEN /\ req' = [req EXCEPT ![s] = [pc |-> "listed", conv |-> req[s].conv,
                            asOf |-> req[s].asOf, history |-> History(req[s].conv)]]
            /\ UNCHANGED seen
       ELSE /\ req' = [req EXCEPT ![s] = Idle]
            /\ seen' = seen \cup (History(req[s].conv) \cap VisitorMessages)
    /\ UNCHANGED <<convs, msgs, outbox, held, mailed, reopened>>

\* Third call: the flag.  When the update fails the history is still shown.
AnswerOpened(s) ==
    /\ req[s].pc = "listed"
    /\ \E stored \in Outcomes("store") :
        IF stored THEN MarkRead(req[s].conv, req[s].asOf) ELSE UNCHANGED convs
    /\ seen' = seen \cup (req[s].history \cap VisitorMessages)
    /\ req' = [req EXCEPT ![s] = Idle]
    /\ UNCHANGED <<msgs, outbox, held, mailed, reopened>>

\* handleReply: the mail uses only the address and the token of the row that
\* was looked up, which never change.
HandleReply(c) ==
    /\ CanStore
    /\ AddOperatorReply(c)
    /\ outbox' = outbox \cup {c}
    /\ UNCHANGED <<req, held, seen, mailed, reopened>>

HandleArchive(c) ==
    /\ SetStatus(c, "archived")
    /\ UNCHANGED <<msgs, req, outbox, held, seen, mailed, reopened>>

HandleUnarchive(c) ==
    /\ SetStatus(c, "open")
    /\ reopened' = IF convs[c].status = "archived" THEN reopened \cup {c} ELSE reopened
    /\ UNCHANGED <<msgs, req, outbox, held, seen, mailed>>

\* A store call of a handler fails, its client has gone or the text it sent is
\* refused: it gives up with nothing written.  At the bound a follow-up does.
Fail(s) ==
    /\ \/ "store" \in Faults /\ req[s].pc \in {"followUp", "opened"}
       \/ ~CanStore /\ req[s].pc = "followUp"
    /\ req' = [req EXCEPT ![s] = Idle]
    /\ UNCHANGED <<convs, msgs, outbox, held, seen, mailed, reopened>>

\* A mail with the link of a thread, the receipt or a reply, reaches the
\* mailbox of the thread's address.  A failed send is logged and not repeated.
Send(c) ==
    /\ c \in outbox
    /\ outbox' = outbox \ {c}
    /\ \E delivered \in Outcomes("mail") :
        held' = IF delivered
                THEN [held EXCEPT ![convs[c].email] = @ \cup {c}]
                ELSE held
    /\ UNCHANGED <<convs, msgs, req, seen, mailed, reopened>>

\* The process dies and is started again: the tables survive, requests in
\* progress and mails not yet sent do not.
Crash ==
    /\ "crash" \in Faults
    /\ req' = [s \in Slot |-> Idle]
    /\ outbox' = {}
    /\ UNCHANGED <<convs, msgs, held, seen, mailed, reopened>>

Handle(s) == StoreFollowUp(s) \/ Answer(s) \/ ListMessages(s) \/ AnswerOpened(s) \/ Fail(s)

Next ==
    \/ \E s \in Slot, who \in Visitor :
        \/ \E email \in Visitor : HandleNewMessage(s, who, email)
        \/ \E c \in ConvId : LookUpLink(s, who, c)
    \/ \E s \in Slot, c \in ConvId : OpenConversation(s, c)
    \/ \E s \in Slot : StoreFollowUp(s)
    \/ \E s \in Slot : Answer(s)
    \/ \E s \in Slot : ListMessages(s)
    \/ \E s \in Slot : AnswerOpened(s)
    \/ \E s \in Slot : Fail(s)
    \/ \E c \in ConvId :
        \/ HandleReply(c)
        \/ HandleArchive(c)
        \/ HandleUnarchive(c)
        \/ Send(c)
    \/ Crash

Spec == Init /\ [][Next]_vars

\* A handler and a mail goroutine that can take a step takes it; an operator
\* comes back to every conversation.  Nothing is assumed of visitors.
AttentiveOperator ==
    \A c \in 1 .. MaxMessages :
        SF_vars(c \in ConvId /\ \E s \in Slot : OpenConversation(s, c))

FairSpec ==
    /\ Spec
    /\ \A s \in Slot : WF_vars(Handle(s))
    /\ WF_vars(\E c \in outbox : Send(c))
    /\ AttentiveOperator

----------------------------------------------------------------------------
(* Safety *)

\* A message of a visitor that no operator has been shown keeps its thread
\* unread, whatever arrives between the calls of handleGetConversation: the
\* reason MarkRead compares last_message_at (threads.go:155).
UnreadUntilShown ==
    \A m \in VisitorMessages : m \in seen \/ convs[msgs[m].conv].unread

\* last_message_at, the order of the inbox and the condition of MarkRead, is
\* the time of the newest message of the conversation, of either side.
LastActivityIsNewest ==
    \A c \in ConvId : convs[c].lastAt \in History(c) /\ \A m \in History(c) : m <= convs[c].lastAt

\* A visitor's messages are gathered in one open thread: once there is a newer
\* thread of the same address, an older one is open only because an operator
\* unarchived it (AddVisitorMessage looks for an open thread and creates one in
\* a single transaction).
OneOpenThread ==
    \A c, d \in ConvId :
        (c < d /\ convs[c].email = convs[d].email /\ convs[c].status = "open")
            => c \in reopened

\* The link of a thread is only ever given to the visitor whose address the
\* thread carries, though anyone may submit any address (public.go:92).
LinkOnlyToOwner ==
    \A v \in Visitor : \A c \in held[v] : c \in ConvId /\ convs[c].email = v

\* A visitor's message goes into an archived thread only when the handler had
\* read the thread as open before it was archived.
ArchivedTakesOnlyRacing ==
    [][ \A m \in DOMAIN msgs' \ MsgId :
            (/\ msgs'[m].sender = "visitor"
             /\ convs'[msgs'[m].conv].status = "archived")
            => \E s \in Slot : /\ req[s].pc = "followUp"
                               /\ req[s].conv = msgs'[m].conv
                               /\ req[s].status = "open" ]_vars

\* What the safety properties rest on: every id held anywhere is one of a row...
RowsExist ==
    /\ \A m \in MsgId : msgs[m].conv \in ConvId
    /\ outbox \subseteq ConvId
    /\ seen \subseteq VisitorMessages

\* ... and what a handler has read stays true in the way it relies on: a link
\* belongs to who presented it, and a history that was listed is of its
\* conversation and holds every message up to the last activity read before it.
RequestSound(r) ==
    /\ r # Idle => r.conv \in ConvId
    /\ (r.pc = "followUp" \/ (r.pc = "stored" /\ r.link)) => convs[r.conv].email = r.who
    /\ r.pc \in {"opened", "listed"} => r.asOf <= Len(msgs)
    /\ r.pc = "listed" =>
        /\ r.history \subseteq History(r.conv)
        /\ \A m \in History(r.conv) : m <= r.asOf => m \in r.history

RequestsSound == \A s \in Slot : RequestSound(req[s])

\* The inductive invariant of the proofs: a step from any state it holds in
\* leads to one it holds in (threads.go:155 and public.go:92 are what it is for).
IInv ==
    /\ TypeOK
    /\ RowsExist
    /\ RequestsSound
    /\ LastActivityIsNewest
    /\ UnreadUntilShown
    /\ OneOpenThread
    /\ LinkOnlyToOwner

----------------------------------------------------------------------------
(* The abstract desk *)

PairsOf(ms) == {<<m, msgs[m].conv>> : m \in ms}

Promise == INSTANCE Desk WITH
    posted <- PairsOf(VisitorMessages),
    shown <- PairsOf(seen),
    unread <- {c \in ConvId : convs[c].unread}

\* The handlers, taken together, keep the promise of Desk: the unread mark is
\* set with the message and taken away by nothing but an answer that shows all
\* there is (handleGetConversation, inbox.go:103).
KeepsPromise == Promise!Spec

----------------------------------------------------------------------------
(* The abstract shelf *)

WithStatus(status) ==
    {<<convs[c].email, c>> : c \in {d \in ConvId : convs[d].status = status}}

FollowUpOf(s) == [request |-> s, thread |-> req[s].conv, open |-> (req[s].status = "open")]

Filing == INSTANCE Shelf WITH
    open <- WithStatus("open"),
    archived <- WithStatus("archived"),
    filed <- PairsOf(VisitorMessages),
    found <- {FollowUpOf(s) : s \in {r \in Slot : req[r].pc = "followUp"}}

\* Forms, follow-ups and what operators do to threads meanwhile file messages as
\* Shelf does: handleThreadMessage branches on the status it has looked up
\* (public.go:144), and AddVisitorMessage finds or begins a thread in one
\* transaction (threads.go:30).
KeepsShelf == Filing!Spec

----------------------------------------------------------------------------
(* Liveness *)

\* Without faults the operators are mailed about every message of a visitor.
OperatorsToldOfEach ==
    \A m \in 1 .. MaxMessages : (m \in VisitorMessages) ~> (m \in mailed)

\* Without faults every thread's owner comes to hold its link, by the receipt,
\* or by the answer to the follow-up that created it.
OwnerGetsLink ==
    \A c \in 1 .. MaxMessages : (c \in ConvId) ~> (c \in ConvId /\ c \in held[convs[c].email])

\* A conversation an operator keeps coming back to does not stay unread.
UnreadIsCleared ==
    \A c \in 1 .. MaxMessages :
        (c \in ConvId /\ convs[c].unread) ~> (c \in ConvId /\ ~convs[c].unread)

----------------------------------------------------------------------------
(* What comments of the code say and the code does not do *)

\* public.go:123: an open thread receives a follow-up, an archived one never
\* does, it falls back to a new conversation.
ArchivedTakesNothing ==
    [][ \A m \in DOMAIN msgs' \ MsgId :
            msgs'[m].sender = "visitor" => convs'[msgs'[m].conv].status = "open" ]_vars

\* public.go:98: appending to an existing thread sends nothing, because that
\* visitor already has the link (or its receipt is still on the way).
LinkOnTheWay(c) ==
    \/ c \in held[convs[c].email]
    \/ c \in outbox
    \/ \E s \in Slot : req[s].pc = "stored" /\ req[s].conv = c /\ req[s].receipt

SilentAppendHasLink ==
    [][ \A s \in Slot :
            (req[s] = Idle /\ req'[s] # Idle /\ req'[s].pc = "stored" /\ ~req'[s].receipt)
            => LinkOnTheWay(req'[s].conv) ]_vars
=============================================================================
