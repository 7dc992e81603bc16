--------------------------- MODULE ThreadsProofs ---------------------------
(***************************************************************************)
(* Theorems of Threads, for any visitors, slots, faults and bound.         *)
(* First what each operation of the store does to the two tables (Grows,   *)
(* RowChanges), then that the inductive invariant IInv is kept by every    *)
(* action, then the safety properties and the refinements of Desk and of   *)
(* Shelf.                                                                  *)
(***************************************************************************)
EXTENDS Threads, SequenceTheorems, TLAPS

----------------------------------------------------------------------------
(* The tables *)

\* A message of sender is appended and goes to conversation c, which may be new.
Grows(c, sender) ==
    /\ msgs' \in Seq(Message)
    /\ Len(msgs') = Len(msgs) + 1
    /\ \A m \in MsgId : msgs'[m] = msgs[m]
    /\ msgs'[NextMsg] = [conv |-> c, sender |-> sender]
    /\ convs' \in Seq(Conversation)
    /\ c \in ConvId' /\ ConvId' = ConvId \cup {c}
    /\ \A d \in ConvId : /\ convs'[d].email = convs[d].email
                         /\ convs'[d].status = convs[d].status
                         /\ d # c => convs'[d] = convs[d]
    /\ convs'[c].lastAt = NextMsg
    /\ sender = "visitor" => convs'[c].unread
    /\ sender = "operator" => c \in ConvId /\ convs'[c].unread = convs[c].unread
    /\ c \notin ConvId => /\ c = Len(convs) + 1
                          /\ OpenConvs(convs'[c].email) = {}

\* One row of conversations is replaced, its address kept.
LEMMA RowReplaced ==
    ASSUME NEW rows \in Seq(Conversation), NEW c \in DOMAIN rows, NEW row \in Conversation
    PROVE  /\ [rows EXCEPT ![c] = row] \in Seq(Conversation)
           /\ DOMAIN [rows EXCEPT ![c] = row] = DOMAIN rows
           /\ Len([rows EXCEPT ![c] = row]) = Len(rows)
           /\ [rows EXCEPT ![c] = row][c] = row
           /\ \A d \in DOMAIN rows : d # c => [rows EXCEPT ![c] = row][d] = rows[d]
<1>1. c \in 1 .. Len(rows) BY LenProperties
<1>. QED BY <1>1, ExceptSeq, LenProperties

LEMMA MessageInserted ==
    ASSUME TypeOK, NEW c \in Nat, NEW sender \in {"visitor", "operator"},
           insertMessage(c, sender)
    PROVE  /\ msgs' \in Seq(Message)
           /\ Len(msgs') = Len(msgs) + 1
           /\ \A m \in MsgId : msgs'[m] = msgs[m]
           /\ msgs'[NextMsg] = [conv |-> c, sender |-> sender]
           /\ NextMsg \in Nat
<1>. DEFINE row == [conv |-> c, sender |-> sender]
<1>1. msgs \in Seq(Message) /\ row \in Message BY DEF TypeOK, Message
<1>2. msgs' = Append(msgs, row) BY DEF insertMessage
<1>. HIDE DEF row
<1>3. DOMAIN msgs = 1 .. Len(msgs) /\ Len(msgs) \in Nat BY <1>1, LenProperties
<1>4. /\ msgs' \in Seq(Message) /\ Len(msgs') = Len(msgs) + 1
      /\ \A m \in 1 .. Len(msgs) : msgs'[m] = msgs[m]
      /\ msgs'[Len(msgs) + 1] = row
  BY <1>1, <1>2, AppendProperties
<1>. QED BY <1>3, <1>4 DEF MsgId, NextMsg, row

LEMMA ConversationsTyped ==
    ASSUME TypeOK
    PROVE  /\ ConvId = 1 .. Len(convs) /\ Len(convs) \in Nat
           /\ MsgId = 1 .. Len(msgs) /\ Len(msgs) \in Nat
           /\ \A c \in ConvId : convs[c] \in Conversation
           /\ \A m \in MsgId : msgs[m] \in Message
<1>1. msgs \in Seq(Message) /\ convs \in Seq(Conversation) BY DEF TypeOK
<1>2. /\ DOMAIN convs = 1 .. Len(convs) /\ Len(convs) \in Nat
      /\ DOMAIN msgs = 1 .. Len(msgs) /\ Len(msgs) \in Nat
  BY <1>1, LenProperties
<1>3. \A c \in 1 .. Len(convs) : convs[c] \in Conversation BY <1>1, ElementOfSeq
<1>4. \A m \in 1 .. Len(msgs) : msgs[m] \in Message BY <1>1, ElementOfSeq
<1>. QED BY <1>2, <1>3, <1>4 DEF ConvId, MsgId

LEMMA AppendVisitorGrows ==
    ASSUME TypeOK, NEW c \in ConvId, AppendVisitorMessage(c)
    PROVE  Grows(c, "visitor") /\ Len(convs') = Len(convs)
<1>. DEFINE mid == [convs[c] EXCEPT !.unread = TRUE]
            new == [mid EXCEPT !.lastAt = NextMsg]
<1>1. c \in Nat /\ convs[c] \in Conversation /\ convs \in Seq(Conversation)
  BY ConversationsTyped DEF TypeOK
<1>2. insertMessage(c, "visitor") BY DEF AppendVisitorMessage
<1>3. NextMsg \in Nat BY <1>1, <1>2, MessageInserted
<1>4. convs' = [convs EXCEPT ![c] = new] BY DEF AppendVisitorMessage
<1>5. /\ mid \in Conversation /\ mid.email = convs[c].email
      /\ mid.status = convs[c].status /\ mid.unread
  BY <1>1 DEF Conversation
<1>. HIDE DEF mid
<1>6. /\ new \in Conversation /\ new.email = mid.email /\ new.status = mid.status
      /\ new.unread = mid.unread /\ new.lastAt = NextMsg
  BY <1>3, <1>5 DEF Conversation
<1>. HIDE DEF new
<1>7. /\ convs' \in Seq(Conversation) /\ Len(convs') = Len(convs)
      /\ ConvId' = ConvId /\ convs'[c] = new
      /\ \A d \in ConvId : d # c => convs'[d] = convs[d]
  BY <1>1, <1>4, <1>6, RowReplaced DEF ConvId
<1>. QED BY <1>1, <1>2, <1>5, <1>6, <1>7, MessageInserted DEF Grows

LEMMA AddVisitorGrows ==
    ASSUME TypeOK, NEW email \in Visitor, NEW c, NEW created \in BOOLEAN,
           AddVisitorMessage(email, c, created)
    PROVE  /\ Grows(c, "visitor")
           /\ convs'[c].email = email
           /\ convs'[c].status = "open"
<1>1. CASE ~created
  <2>1. c \in OpenConvs(email) /\ AppendVisitorMessage(c)
    BY <1>1 DEF AddVisitorMessage, openConversationForVisitor
  <2>2. c \in ConvId /\ convs[c].email = email /\ convs[c].status = "open"
    BY <2>1 DEF OpenConvs
  <2>. QED BY <2>1, <2>2, AppendVisitorGrows DEF Grows
<1>2. CASE created
  <2>. DEFINE new == [email |-> email, status |-> "open", unread |-> TRUE, lastAt |-> NextMsg]
  <2>1. /\ OpenConvs(email) = {} /\ c = Len(convs) + 1
        /\ createConversation(email) /\ insertMessage(c, "visitor")
    BY <1>2 DEF AddVisitorMessage
  <2>2. convs \in Seq(Conversation) /\ c \in Nat BY <2>1, ConversationsTyped DEF TypeOK
  <2>3. NextMsg \in Nat BY <2>1, <2>2, MessageInserted
  <2>4. new \in Conversation BY <2>3 DEF Conversation, Status
  <2>5. convs' = Append(convs, new) BY <2>1 DEF createConversation
  <2>6. /\ new.email = email /\ new.status = "open"
        /\ new.unread /\ new.lastAt = NextMsg OBVIOUS
  <2>. HIDE DEF new
  <2>7. /\ convs' \in Seq(Conversation) /\ Len(convs') = Len(convs) + 1
        /\ \A d \in 1 .. Len(convs) : convs'[d] = convs[d]
        /\ convs'[Len(convs) + 1] = new
    BY <2>2, <2>4, <2>5, AppendProperties
  <2>8. ConvId = 1 .. Len(convs) /\ Len(convs) \in Nat BY ConversationsTyped
  <2>9. ConvId' = 1 .. Len(convs) + 1 BY <2>7, LenProperties DEF ConvId
  <2>10. ConvId' = ConvId \cup {c} BY <2>1, <2>8, <2>9
  <2>. QED BY <2>1, <2>2, <2>6, <2>7, <2>8, <2>10, MessageInserted DEF Grows
<1>. QED BY <1>1, <1>2

LEMMA ReplyGrows ==
    ASSUME TypeOK, NEW c \in ConvId, AddOperatorReply(c)
    PROVE  Grows(c, "operator")
<1>. DEFINE new == [convs[c] EXCEPT !.lastAt = NextMsg]
<1>1. c \in Nat /\ convs[c] \in Conversation /\ convs \in Seq(Conversation)
  BY ConversationsTyped DEF TypeOK
<1>2. insertMessage(c, "operator") BY DEF AddOperatorReply
<1>3. NextMsg \in Nat BY <1>1, <1>2, MessageInserted
<1>4. convs' = [convs EXCEPT ![c] = new] BY DEF AddOperatorReply
<1>5. /\ new \in Conversation /\ new.email = convs[c].email /\ new.status = convs[c].status
      /\ new.unread = convs[c].unread /\ new.lastAt = NextMsg
  BY <1>1, <1>3 DEF Conversation
<1>. HIDE DEF new
<1>6. /\ convs' \in Seq(Conversation) /\ ConvId' = ConvId /\ convs'[c] = new
      /\ \A d \in ConvId : d # c => convs'[d] = convs[d]
  BY <1>1, <1>4, <1>5, RowReplaced DEF ConvId
<1>. QED BY <1>1, <1>2, <1>5, <1>6, MessageInserted DEF Grows

\* Only the flag or the status of conversation c changes.
RowChanges(c) ==
    /\ msgs' = msgs
    /\ convs' \in Seq(Conversation)
    /\ ConvId' = ConvId
    /\ \A d \in ConvId : /\ convs'[d].email = convs[d].email
                         /\ convs'[d].lastAt = convs[d].lastAt
                         /\ d # c => convs'[d] = convs[d]

LEMMA MarkReadChanges ==
    ASSUME TypeOK, NEW c \in ConvId, NEW asOf, MarkRead(c, asOf), UNCHANGED msgs
    PROVE  /\ RowChanges(c)
           /\ convs'[c].status = convs[c].status
           /\ convs'[c].unread = (convs[c].unread /\ convs[c].lastAt # asOf)
<1>. DEFINE flag == convs[c].unread /\ convs[c].lastAt # asOf
            new == [convs[c] EXCEPT !.unread = flag]
<1>1. convs[c] \in Conversation /\ convs \in Seq(Conversation)
  BY ConversationsTyped DEF TypeOK
<1>2. convs' = [convs EXCEPT ![c] = new] BY DEF MarkRead
<1>3. flag \in BOOLEAN BY <1>1 DEF Conversation
<1>. HIDE DEF flag
<1>4. /\ new \in Conversation /\ new.email = convs[c].email /\ new.status = convs[c].status
      /\ new.unread = flag /\ new.lastAt = convs[c].lastAt
  BY <1>1, <1>3 DEF Conversation
<1>. HIDE DEF new
<1>5. /\ convs' \in Seq(Conversation) /\ ConvId' = ConvId /\ convs'[c] = new
      /\ \A d \in ConvId : d # c => convs'[d] = convs[d]
  BY <1>1, <1>2, <1>4, RowReplaced DEF ConvId
<1>. QED BY <1>4, <1>5 DEF RowChanges, flag

LEMMA SetStatusChanges ==
    ASSUME TypeOK, NEW c \in ConvId, NEW status \in Status, SetStatus(c, status),
           UNCHANGED msgs
    PROVE  /\ RowChanges(c)
           /\ convs'[c].status = status
           /\ convs'[c].unread = convs[c].unread
<1>. DEFINE new == [convs[c] EXCEPT !.status = status]
<1>1. convs[c] \in Conversation /\ convs \in Seq(Conversation)
  BY ConversationsTyped DEF TypeOK
<1>2. convs' = [convs EXCEPT ![c] = new] BY DEF SetStatus
<1>3. /\ new \in Conversation /\ new.email = convs[c].email /\ new.status = status
      /\ new.unread = convs[c].unread /\ new.lastAt = convs[c].lastAt
  BY <1>1 DEF Conversation
<1>. HIDE DEF new
<1>4. /\ convs' \in Seq(Conversation) /\ ConvId' = ConvId /\ convs'[c] = new
      /\ \A d \in ConvId : d # c => convs'[d] = convs[d]
  BY <1>1, <1>2, <1>3, RowReplaced DEF ConvId
<1>. QED BY <1>3, <1>4 DEF RowChanges

----------------------------------------------------------------------------
(* What the two kinds of change leave true *)

LEMMA GrowsTyped ==
    ASSUME TypeOK, NEW c, NEW sender, Grows(c, sender)
    PROVE  /\ MsgId' = MsgId \cup {NextMsg} /\ NextMsg \notin MsgId /\ NextMsg \in Nat
           /\ \A m \in MsgId : m < NextMsg
<1>1. MsgId = 1 .. Len(msgs) /\ Len(msgs) \in Nat BY ConversationsTyped
<1>2. MsgId' = 1 .. Len(msgs) + 1 BY LenProperties DEF Grows, MsgId
<1>. QED BY <1>1, <1>2 DEF NextMsg

\* What a request has read is not spoilt by a new message.
LEMMA GrowsKeepsRequest ==
    ASSUME TypeOK, NEW c, NEW sender, Grows(c, sender),
           NEW r \in Request, RequestSound(r)
    PROVE  RequestSound(r)'
<1>1. (r # Idle => r.conv \in ConvId)' BY DEF Grows, RequestSound
<1>2. ((r.pc = "followUp" \/ (r.pc = "stored" /\ r.link)) => convs[r.conv].email = r.who)'
  BY DEF Grows, RequestSound, Idle
<1>3. (r.pc \in {"opened", "listed"} => r.asOf <= Len(msgs))'
  BY ConversationsTyped DEF Grows, RequestSound, Request, Idle
<1>4. ASSUME r.pc = "listed", NEW m \in History(r.conv)', m <= r.asOf
      PROVE  m \in r.history
  <2>1. m \in MsgId
    BY <1>4, GrowsTyped, ConversationsTyped DEF RequestSound, History, NextMsg, Request, Idle
  <2>2. m \in History(r.conv) BY <2>1, <1>4 DEF Grows, History
  <2>. QED BY <1>4, <2>2 DEF RequestSound
<1>5. r.pc = "listed" => r.history \subseteq History(r.conv)'
  BY GrowsTyped DEF Grows, RequestSound, History
<1>. QED BY <1>1, <1>2, <1>3, <1>4, <1>5 DEF RequestSound

LEMMA RowChangesKeepsRequest ==
    ASSUME TypeOK, NEW c, RowChanges(c), NEW r \in Request, RequestSound(r)
    PROVE  RequestSound(r)'
<1>1. History(r.conv)' = History(r.conv) BY DEF RowChanges, History, MsgId
<1>2. (r.pc = "followUp" \/ (r.pc = "stored" /\ r.link)) => r # Idle BY DEF Idle
<1>. QED BY <1>1, <1>2 DEF RowChanges, RequestSound

LEMMA GrowsKeepsTables ==
    ASSUME IInv, NEW c \in Nat, NEW sender \in {"visitor", "operator"}, Grows(c, sender),
           UNCHANGED <<seen, reopened, held>>
    PROVE  /\ LastActivityIsNewest'
           /\ UnreadUntilShown'
           /\ OneOpenThread'
           /\ LinkOnlyToOwner'
           /\ (\A m \in MsgId : msgs[m].conv \in ConvId)'
           /\ (seen \subseteq VisitorMessages)'
<1>. USE DEF IInv
<1>1. /\ MsgId' = MsgId \cup {NextMsg} /\ NextMsg \notin MsgId /\ NextMsg \in Nat
      /\ \A m \in MsgId : m < NextMsg
  BY GrowsTyped
<1>2. \A d \in ConvId : d # c => History(d)' = History(d)
  BY <1>1 DEF Grows, History, NextMsg
<1>3. NextMsg \in History(c)' /\ \A m \in MsgId' : m <= NextMsg
  BY <1>1, ConversationsTyped DEF Grows, History
<1>4. LastActivityIsNewest'
  <2>. SUFFICES ASSUME NEW d \in ConvId'
                PROVE  (convs[d].lastAt \in History(d))'
                       /\ \A m \in History(d)' : m <= convs'[d].lastAt
    BY DEF LastActivityIsNewest
  <2>1. CASE d = c
    BY <1>3, <2>1 DEF Grows, History
  <2>2. CASE d # c
    BY <1>2, <2>2 DEF Grows, LastActivityIsNewest
  <2>. QED BY <2>1, <2>2
<1>5. VisitorMessages \subseteq VisitorMessages' /\ VisitorMessages' \subseteq VisitorMessages \cup {NextMsg}
  BY <1>1 DEF Grows, VisitorMessages
<1>6. UnreadUntilShown'
  <2>. SUFFICES ASSUME NEW m \in VisitorMessages', m \notin seen'
                PROVE  convs'[msgs'[m].conv].unread
    BY DEF UnreadUntilShown
  <2>1. CASE m = NextMsg
    BY <2>1 DEF Grows, VisitorMessages
  <2>2. CASE m # NextMsg
    <3>1. m \in VisitorMessages /\ m \in MsgId /\ msgs'[m] = msgs[m]
      BY <1>5, <2>2 DEF Grows, VisitorMessages
    <3>2. convs[msgs[m].conv].unread /\ msgs[m].conv \in ConvId
      BY <3>1 DEF UnreadUntilShown, RowsExist
    <3>3. CASE msgs[m].conv # c
      BY <3>1, <3>2, <3>3 DEF Grows
    <3>4. CASE msgs[m].conv = c
      <4>1. CASE sender = "visitor" BY <3>1, <3>4, <4>1 DEF Grows
      <4>2. CASE sender = "operator" BY <3>1, <3>2, <3>4, <4>2 DEF Grows
      <4>. QED BY <4>1, <4>2
    <3>. QED BY <3>3, <3>4
  <2>. QED BY <2>1, <2>2
<1>7. OneOpenThread'
  <2>. SUFFICES ASSUME NEW a \in ConvId', NEW d \in ConvId', a < d,
                       convs'[a].email = convs'[d].email, convs'[a].status = "open"
                PROVE  a \in reopened
    BY DEF OneOpenThread
  <2>1. CASE d \in ConvId
    <3>1. a \in ConvId BY <2>1, ConversationsTyped DEF Grows
    <3>. QED BY <2>1, <3>1 DEF Grows, OneOpenThread
  <2>2. CASE d \notin ConvId
    <3>1. d = c /\ a \in ConvId BY <2>2, ConversationsTyped DEF Grows
    <3>2. a \in OpenConvs(convs'[c].email) BY <3>1 DEF Grows, OpenConvs
    <3>. QED BY <2>2, <3>1, <3>2 DEF Grows
  <2>. QED BY <2>1, <2>2
<1>8. LinkOnlyToOwner'
  BY DEF LinkOnlyToOwner, Grows
<1>9. (\A m \in MsgId : msgs[m].conv \in ConvId)'
  BY <1>1 DEF Grows, RowsExist
<1>10. (seen \subseteq VisitorMessages)'
  BY <1>5 DEF RowsExist
<1>. QED BY <1>4, <1>6, <1>7, <1>8, <1>9, <1>10

LEMMA RowChangesKeepsTables ==
    ASSUME IInv, NEW c \in ConvId, RowChanges(c)
    PROVE  /\ LastActivityIsNewest'
           /\ held' = held => LinkOnlyToOwner'
           /\ (\A m \in MsgId : msgs[m].conv \in ConvId)'
           /\ VisitorMessages' = VisitorMessages
           /\ \A d \in ConvId : History(d)' = History(d)
<1>. USE DEF IInv
<1>1. MsgId' = MsgId BY DEF RowChanges, MsgId
<1>2. VisitorMessages' = VisitorMessages BY <1>1 DEF RowChanges, VisitorMessages
<1>3. \A d \in ConvId : History(d)' = History(d) BY <1>1 DEF RowChanges, History
<1>4. LastActivityIsNewest' BY <1>3 DEF RowChanges, LastActivityIsNewest
<1>5. held' = held => LinkOnlyToOwner' BY DEF RowChanges, LinkOnlyToOwner
<1>6. (\A m \in MsgId : msgs[m].conv \in ConvId)' BY <1>1 DEF RowChanges, RowsExist
<1>. QED BY <1>2, <1>3, <1>4, <1>5, <1>6

\* When no table changes, neither does what only the tables decide.
LEMMA TablesUnchanged ==
    ASSUME IInv, UNCHANGED <<convs, msgs, reopened>>
    PROVE  /\ LastActivityIsNewest' /\ OneOpenThread'
           /\ ConvId' = ConvId /\ VisitorMessages' = VisitorMessages
           /\ (\A m \in MsgId : msgs[m].conv \in ConvId)'
           /\ \A r : RequestSound(r) => RequestSound(r)'
           /\ seen \subseteq seen' => UnreadUntilShown'
<1>. USE DEF IInv, ConvId, MsgId, History, VisitorMessages
<1>1. LastActivityIsNewest' BY DEF LastActivityIsNewest
<1>2. OneOpenThread' BY DEF OneOpenThread
<1>3. (\A m \in MsgId : msgs[m].conv \in ConvId)' BY DEF RowsExist
<1>4. \A r : RequestSound(r) => RequestSound(r)' BY DEF RequestSound
<1>5. seen \subseteq seen' => UnreadUntilShown' BY DEF UnreadUntilShown
<1>. QED BY <1>1, <1>2, <1>3, <1>4, <1>5

----------------------------------------------------------------------------
(* Every action keeps IInv *)

\* One slot gets another request, the other requests are not spoilt.
LEMMA SlotUpdated ==
    ASSUME TypeOK, RequestsSound, NEW s \in Slot, NEW r \in Request,
           req' = [req EXCEPT ![s] = r], RequestSound(r)',
           \A x \in Request : RequestSound(x) => RequestSound(x)'
    PROVE  req' \in [Slot -> Request] /\ RequestsSound'
<1>1. req' \in [Slot -> Request] BY DEF TypeOK
<1>2. ASSUME NEW q \in Slot PROVE RequestSound(req[q])'
  <2>1. PICK x \in Request : x = req'[q] BY <1>1
  <2>2. RequestSound(x)'
    <3>1. CASE q = s
      <4>1. x = r BY <2>1, <3>1 DEF TypeOK
      <4>. QED BY <4>1
    <3>2. CASE q # s
      <4>1. x = req[q] BY <2>1, <3>2 DEF TypeOK
      <4>2. RequestSound(x) BY <4>1 DEF RequestsSound
      <4>. QED BY <4>2
    <3>. QED BY <3>1, <3>2
  <2>. QED BY <2>1, <2>2 DEF RequestSound
<1>. QED BY <1>1, <1>2 DEF RequestsSound

LEMMA SlotKept ==
    ASSUME TypeOK, RequestsSound, UNCHANGED req,
           \A x \in Request : RequestSound(x) => RequestSound(x)'
    PROVE  RequestsSound'
<1>1. ASSUME NEW q \in Slot PROVE RequestSound(req[q])'
  <2>1. PICK x \in Request : x = req[q] BY DEF TypeOK
  <2>2. RequestSound(x)' BY <2>1 DEF RequestsSound
  <2>. QED BY <2>1, <2>2 DEF RequestSound
<1>. QED BY <1>1 DEF RequestsSound

LEMMA IdleSound == Idle \in Request /\ RequestSound(Idle)'
BY DEF Idle, Request, RequestSound

\* A visitor's message is stored and its handler still has to answer.
LEMMA StoredKeeps ==
    ASSUME IInv, NEW s \in Slot, NEW c \in Nat, NEW who \in Visitor,
           NEW receipt \in BOOLEAN, NEW link \in BOOLEAN,
           Grows(c, "visitor"), link => convs'[c].email = who,
           req' = [req EXCEPT ![s] = [pc |-> "stored", who |-> who, conv |-> c,
                        msg |-> NextMsg, receipt |-> receipt, link |-> link]],
           UNCHANGED <<outbox, held, seen, mailed, reopened>>
    PROVE  IInv'
<1>1. NextMsg \in Nat BY GrowsTyped DEF IInv
<1>2. PICK r \in Request : r = [pc |-> "stored", who |-> who, conv |-> c,
                        msg |-> NextMsg, receipt |-> receipt, link |-> link]
  BY <1>1 DEF Request
<1>3. RequestSound(r)'
  BY <1>2 DEF RequestSound, Grows
<1>4. \A x \in Request : RequestSound(x) => RequestSound(x)'
  BY GrowsKeepsRequest DEF IInv
<1>5. req' \in [Slot -> Request] /\ RequestsSound'
  BY <1>2, <1>3, <1>4, SlotUpdated DEF IInv
<1>6. TypeOK' BY <1>5 DEF IInv, TypeOK, Grows
<1>7. RowsExist' BY GrowsKeepsTables DEF IInv, RowsExist, Grows
<1>. QED BY <1>5, <1>6, <1>7, GrowsKeepsTables DEF IInv

LEMMA NewMessageKeeps ==
    ASSUME IInv, NEW s \in Slot, NEW who \in Visitor, NEW email \in Visitor,
           HandleNewMessage(s, who, email)
    PROVE  IInv'
<1>1. PICK c \in 1 .. Len(convs) + 1, created \in BOOLEAN :
        /\ AddVisitorMessage(email, c, created)
        /\ req' = [req EXCEPT ![s] = [pc |-> "stored", who |-> who, conv |-> c,
                        msg |-> NextMsg, receipt |-> created, link |-> FALSE]]
  BY DEF HandleNewMessage
<1>2. c \in Nat BY ConversationsTyped DEF IInv
<1>3. Grows(c, "visitor") BY <1>1, AddVisitorGrows DEF IInv
<1>4. UNCHANGED <<outbox, held, seen, mailed, reopened>> BY DEF HandleNewMessage
<1>. QED BY <1>1, <1>2, <1>3, <1>4, StoredKeeps

LEMMA FollowUpKeeps ==
    ASSUME IInv, NEW s \in Slot, StoreFollowUp(s)
    PROVE  IInv'
<1>1. PICK c \in 1 .. Len(convs) + 1 :
        /\ IF req[s].status = "open"
           THEN c = req[s].conv /\ AppendVisitorMessage(c)
           ELSE \E created \in BOOLEAN :
                    AddVisitorMessage(convs[req[s].conv].email, c, created)
        /\ req' = [req EXCEPT ![s] = [pc |-> "stored", who |-> req[s].who,
                        conv |-> c, msg |-> NextMsg, receipt |-> FALSE,
                        link |-> TRUE]]
  BY DEF StoreFollowUp
<1>2. c \in Nat BY ConversationsTyped DEF IInv
<1>3. /\ req[s].who \in Visitor /\ req[s].conv \in ConvId
      /\ convs[req[s].conv].email = req[s].who
  BY DEF StoreFollowUp, IInv, TypeOK, RequestsSound, RequestSound, Request, Idle
<1>4. Grows(c, "visitor") /\ convs'[c].email = req[s].who
  <2>1. CASE req[s].status = "open"
    <3>1. c = req[s].conv /\ AppendVisitorMessage(c) BY <1>1, <2>1
    <3>. QED BY <1>3, <3>1, AppendVisitorGrows DEF IInv, Grows
  <2>2. CASE req[s].status # "open"
    <3>1. PICK created \in BOOLEAN : AddVisitorMessage(convs[req[s].conv].email, c, created)
      BY <1>1, <2>2
    <3>2. convs[req[s].conv].email \in Visitor BY <1>3
    <3>. QED BY <1>3, <3>1, <3>2, AddVisitorGrows DEF IInv
  <2>. QED BY <2>1, <2>2
<1>5. UNCHANGED <<outbox, held, seen, mailed, reopened>> BY DEF StoreFollowUp
<1>. QED BY <1>1, <1>2, <1>3, <1>4, <1>5, StoredKeeps

LEMMA ReplyKeeps ==
    ASSUME IInv, NEW c \in ConvId, HandleReply(c)
    PROVE  IInv'
<1>1. c \in Nat BY ConversationsTyped DEF IInv
<1>2. Grows(c, "operator") BY ReplyGrows DEF IInv, HandleReply
<1>3. \A x \in Request : RequestSound(x) => RequestSound(x)'
  BY <1>2, GrowsKeepsRequest DEF IInv
<1>4. UNCHANGED <<req, held, seen, mailed, reopened>> /\ outbox' = outbox \cup {c}
  BY DEF HandleReply
<1>5. RequestsSound' BY <1>3, <1>4, SlotKept DEF IInv
<1>6. TypeOK' BY <1>1, <1>2, <1>4 DEF IInv, TypeOK, Grows
<1>7. RowsExist' BY <1>1, <1>2, <1>4, GrowsKeepsTables DEF IInv, RowsExist, Grows
<1>. QED BY <1>1, <1>2, <1>4, <1>5, <1>6, <1>7, GrowsKeepsTables DEF IInv

\* A request takes a step that changes no table.
LEMMA RequestStepKeeps ==
    ASSUME IInv, NEW s \in Slot, NEW r \in Request,
           req' = [req EXCEPT ![s] = r], RequestSound(r)',
           UNCHANGED <<convs, msgs, reopened>>,
           outbox' \subseteq ConvId, seen \subseteq seen', seen' \subseteq VisitorMessages,
           mailed' \subseteq Nat, LinkOnlyToOwner', held' \in [Visitor -> SUBSET Nat]
    PROVE  IInv'
<1>1. \A x \in Request : RequestSound(x) => RequestSound(x)' BY TablesUnchanged
<1>2. req' \in [Slot -> Request] /\ RequestsSound' BY <1>1, SlotUpdated DEF IInv
<1>3. /\ LastActivityIsNewest' /\ OneOpenThread' /\ ConvId' = ConvId
      /\ VisitorMessages' = VisitorMessages /\ UnreadUntilShown'
      /\ (\A m \in MsgId : msgs[m].conv \in ConvId)'
  BY TablesUnchanged
<1>4. ConvId \subseteq Nat /\ VisitorMessages \subseteq Nat
  BY ConversationsTyped DEF IInv, VisitorMessages
<1>5. TypeOK' BY <1>2, <1>4 DEF IInv, TypeOK
<1>6. RowsExist' BY <1>3 DEF RowsExist
<1>. QED BY <1>2, <1>3, <1>5, <1>6 DEF IInv

LEMMA LookUpLinkKeeps ==
    ASSUME IInv, NEW s \in Slot, NEW who \in Visitor, NEW c \in ConvId, LookUpLink(s, who, c)
    PROVE  IInv'
<1>1. /\ UNCHANGED <<convs, msgs, outbox, held, seen, mailed, reopened>> /\ c \in held[who]
      /\ req' = [req EXCEPT ![s] = [pc |-> "followUp", who |-> who, conv |-> c,
                                    status |-> convs[c].status]]
  BY DEF LookUpLink
<1>2. c \in Nat /\ convs[c].status \in Status /\ convs[c].email = who
  BY <1>1, ConversationsTyped DEF IInv, Conversation, LinkOnlyToOwner
<1>3. PICK r \in Request : r = [pc |-> "followUp", who |-> who, conv |-> c,
                                status |-> convs[c].status]
  BY <1>2 DEF Request
<1>4. RequestSound(r)' BY <1>1, <1>2, <1>3 DEF RequestSound, ConvId
<1>5. LinkOnlyToOwner' BY <1>1 DEF IInv, LinkOnlyToOwner, ConvId
<1>. QED BY <1>1, <1>3, <1>4, <1>5, RequestStepKeeps DEF IInv, TypeOK, RowsExist

LEMMA OpenKeeps ==
    ASSUME IInv, NEW s \in Slot, NEW c \in ConvId, OpenConversation(s, c)
    PROVE  IInv'
<1>1. /\ UNCHANGED <<convs, msgs, outbox, held, seen, mailed, reopened>>
      /\ req' = [req EXCEPT ![s] = [pc |-> "opened", conv |-> c,
                        unread |-> convs[c].unread, asOf |-> convs[c].lastAt]]
  BY DEF OpenConversation
<1>2. /\ c \in Nat /\ convs[c].unread \in BOOLEAN /\ convs[c].lastAt \in Nat
      /\ convs[c].lastAt <= Len(msgs)
  BY ConversationsTyped DEF IInv, Conversation, LastActivityIsNewest, History
<1>3. PICK r \in Request : r = [pc |-> "opened", conv |-> c,
                        unread |-> convs[c].unread, asOf |-> convs[c].lastAt]
  BY <1>2 DEF Request
<1>4. RequestSound(r)' BY <1>1, <1>2, <1>3 DEF RequestSound, ConvId
<1>5. LinkOnlyToOwner' BY <1>1 DEF IInv, LinkOnlyToOwner, ConvId
<1>. QED BY <1>1, <1>3, <1>4, <1>5, RequestStepKeeps DEF IInv, TypeOK, RowsExist

LEMMA ListKeeps ==
    ASSUME IInv, NEW s \in Slot, ListMessages(s)
    PROVE  IInv'
<1>. DEFINE H == History(req[s].conv)
<1>1. UNCHANGED <<convs, msgs, outbox, held, mailed, reopened>> /\ req[s].pc = "opened"
  BY DEF ListMessages
<1>2. /\ req[s].conv \in ConvId /\ req[s].conv \in Nat /\ req[s].asOf \in Nat
      /\ req[s].asOf <= Len(msgs)
  BY <1>1 DEF IInv, TypeOK, RequestsSound, RequestSound, Request, Idle
<1>3. LinkOnlyToOwner' BY <1>1 DEF IInv, LinkOnlyToOwner, ConvId
<1>4. H \subseteq Nat BY ConversationsTyped DEF IInv, History
<1>5. CASE req[s].unread
  <2>1. UNCHANGED seen
        /\ req' = [req EXCEPT ![s] = [pc |-> "listed", conv |-> req[s].conv,
                                      asOf |-> req[s].asOf, history |-> H]]
    BY <1>5 DEF ListMessages
  <2>2. PICK r \in Request : r = [pc |-> "listed", conv |-> req[s].conv,
                                  asOf |-> req[s].asOf, history |-> H]
    BY <1>2, <1>4 DEF Request
  <2>3. History(r.conv)' = H BY <1>1, <2>2 DEF History, MsgId
  <2>4. RequestSound(r)' BY <1>1, <1>2, <2>2, <2>3 DEF RequestSound, ConvId
  <2>. QED BY <1>1, <1>3, <2>1, <2>2, <2>4, RequestStepKeeps DEF IInv, TypeOK, RowsExist
<1>6. CASE ~req[s].unread
  <2>1. req' = [req EXCEPT ![s] = Idle] /\ seen' = seen \cup (H \cap VisitorMessages)
    BY <1>6 DEF ListMessages
  <2>. HIDE DEF H
  <2>. QED BY <1>1, <1>3, <2>1, IdleSound, RequestStepKeeps DEF IInv, TypeOK, RowsExist
<1>. QED BY <1>5, <1>6

LEMMA FailKeeps ==
    ASSUME IInv, NEW s \in Slot, Fail(s)
    PROVE  IInv'
<1>1. /\ UNCHANGED <<convs, msgs, outbox, held, seen, mailed, reopened>>
      /\ req' = [req EXCEPT ![s] = Idle]
  BY DEF Fail
<1>2. LinkOnlyToOwner' BY <1>1 DEF IInv, LinkOnlyToOwner, ConvId
<1>. QED BY <1>1, <1>2, IdleSound, RequestStepKeeps DEF IInv, TypeOK, RowsExist

LEMMA AnswerKeeps ==
    ASSUME IInv, NEW s \in Slot, Answer(s)
    PROVE  IInv'
<1>1. /\ UNCHANGED <<convs, msgs, seen, reopened>> /\ req[s].pc = "stored"
      /\ req' = [req EXCEPT ![s] = Idle]
  BY DEF Answer
<1>2. /\ req[s].conv \in ConvId /\ req[s].msg \in Nat /\ req[s].who \in Visitor
      /\ req[s].conv \in Nat /\ req[s].link => convs[req[s].conv].email = req[s].who
  BY <1>1 DEF IInv, TypeOK, RequestsSound, RequestSound, Request, Idle
<1>3. mailed' \subseteq Nat BY <1>2 DEF Answer, IInv, TypeOK
<1>4. outbox' \subseteq ConvId BY <1>2 DEF Answer, IInv, RowsExist
<1>5. held' \in [Visitor -> SUBSET Nat] /\ LinkOnlyToOwner'
  <2>1. CASE held' = held
    BY <1>1, <2>1 DEF IInv, TypeOK, LinkOnlyToOwner, ConvId
  <2>2. CASE req[s].link /\ held' = [held EXCEPT ![req[s].who] = @ \cup {req[s].conv}]
    BY <1>1, <1>2, <2>2 DEF IInv, TypeOK, LinkOnlyToOwner, ConvId
  <2>. QED BY <2>1, <2>2 DEF Answer
<1>. QED BY <1>1, <1>3, <1>4, <1>5, IdleSound, RequestStepKeeps DEF IInv, RowsExist

\* The point of MarkRead: the flag of a conversation is only cleared when its
\* newest message is the one known before the messages were listed, so that
\* the answer holds them all.
LEMMA AnswerOpenedKeeps ==
    ASSUME IInv, NEW s \in Slot, AnswerOpened(s)
    PROVE  IInv'
<1>. DEFINE c == req[s].conv
            asOf == req[s].asOf
            H == req[s].history
<1>1. /\ UNCHANGED <<msgs, outbox, held, mailed, reopened>> /\ req[s].pc = "listed"
      /\ req' = [req EXCEPT ![s] = Idle] /\ seen' = seen \cup (H \cap VisitorMessages)
      /\ MarkRead(c, asOf) \/ UNCHANGED convs
  BY DEF AnswerOpened
<1>2. /\ c \in ConvId /\ asOf <= Len(msgs)
      /\ \A m \in History(c) : m <= asOf => m \in H
  BY <1>1 DEF IInv, TypeOK, RequestsSound, RequestSound, Request, Idle
<1>. HIDE DEF c, asOf, H
<1>3. CASE UNCHANGED convs
  <2>1. LinkOnlyToOwner' BY <1>1, <1>3 DEF IInv, LinkOnlyToOwner, ConvId
  <2>. QED BY <1>1, <1>3, <2>1, IdleSound, RequestStepKeeps DEF IInv, TypeOK, RowsExist
<1>4. CASE MarkRead(c, asOf)
  <2>1. /\ RowChanges(c) /\ convs'[c].status = convs[c].status
        /\ convs'[c].unread = (convs[c].unread /\ convs[c].lastAt # asOf)
    BY <1>1, <1>2, <1>4, MarkReadChanges DEF IInv
  <2>2. \A x \in Request : RequestSound(x) => RequestSound(x)'
    BY <2>1, RowChangesKeepsRequest DEF IInv
  <2>3. req' \in [Slot -> Request] /\ RequestsSound'
    BY <1>1, <2>2, IdleSound, SlotUpdated DEF IInv
  <2>4. /\ LastActivityIsNewest' /\ LinkOnlyToOwner'
        /\ (\A m \in MsgId : msgs[m].conv \in ConvId)'
        /\ VisitorMessages' = VisitorMessages
    BY <1>1, <1>2, <2>1, RowChangesKeepsTables
  <2>5. UnreadUntilShown'
    <3>. SUFFICES ASSUME NEW m \in VisitorMessages, m \notin seen'
                  PROVE  convs'[msgs[m].conv].unread
      BY <1>1, <2>4 DEF UnreadUntilShown
    <3>1. m \in MsgId /\ msgs[m].conv \in ConvId /\ convs[msgs[m].conv].unread
      BY <1>1 DEF IInv, UnreadUntilShown, RowsExist, VisitorMessages
    <3>2. CASE msgs[m].conv # c
      BY <2>1, <3>1, <3>2 DEF RowChanges
    <3>3. CASE msgs[m].conv = c
      <4>1. m \in History(c) /\ m \notin H BY <1>1, <3>1, <3>3 DEF History
      <4>2. ~(m <= asOf) BY <1>2, <4>1
      <4>3. m <= convs[c].lastAt BY <1>2, <4>1 DEF IInv, LastActivityIsNewest
      <4>4. convs[c].lastAt # asOf BY <4>2, <4>3
      <4>. QED BY <2>1, <3>1, <3>3, <4>4
    <3>. QED BY <3>2, <3>3
  <2>6. OneOpenThread'
    <3>1. \A d \in ConvId : convs'[d].status = convs[d].status /\ convs'[d].email = convs[d].email
      BY <2>1 DEF RowChanges
    <3>. QED BY <1>1, <2>1, <3>1 DEF IInv, OneOpenThread, RowChanges
  <2>7. VisitorMessages \subseteq Nat
    BY ConversationsTyped DEF IInv, VisitorMessages
  <2>8. TypeOK' BY <1>1, <2>1, <2>3, <2>7 DEF IInv, TypeOK, RowChanges
  <2>9. RowsExist' BY <1>1, <2>1, <2>4 DEF IInv, RowsExist, RowChanges
  <2>. QED BY <2>3, <2>4, <2>5, <2>6, <2>8, <2>9 DEF IInv
<1>. QED BY <1>1, <1>3, <1>4

LEMMA StatusKeeps ==
    ASSUME IInv, NEW c \in ConvId, NEW status \in Status, SetStatus(c, status),
           UNCHANGED <<msgs, req, outbox, held, seen, mailed>>,
           reopened \subseteq reopened', reopened' \subseteq reopened \cup {c},
           status = "open" /\ convs[c].status = "archived" => c \in reopened'
    PROVE  IInv'
<1>1. /\ RowChanges(c) /\ convs'[c].status = status /\ convs'[c].unread = convs[c].unread
  BY SetStatusChanges DEF IInv
<1>2. \A x \in Request : RequestSound(x) => RequestSound(x)'
  BY <1>1, RowChangesKeepsRequest DEF IInv
<1>3. RequestsSound' BY <1>2, SlotKept DEF IInv
<1>4. /\ LastActivityIsNewest' /\ LinkOnlyToOwner'
      /\ (\A m \in MsgId : msgs[m].conv \in ConvId)'
      /\ VisitorMessages' = VisitorMessages
  BY <1>1, RowChangesKeepsTables
<1>5. UnreadUntilShown'
  <2>. SUFFICES ASSUME NEW m \in VisitorMessages, m \notin seen
                PROVE  convs'[msgs[m].conv].unread
    BY <1>4 DEF UnreadUntilShown
  <2>1. m \in MsgId /\ msgs[m].conv \in ConvId /\ convs[msgs[m].conv].unread
    BY DEF IInv, UnreadUntilShown, RowsExist, VisitorMessages
  <2>. QED BY <1>1, <2>1 DEF RowChanges
<1>6. OneOpenThread'
  <2>. SUFFICES ASSUME NEW a \in ConvId, NEW d \in ConvId, a < d,
                       convs[a].email = convs[d].email, convs'[a].status = "open"
                PROVE  a \in reopened'
    BY <1>1 DEF OneOpenThread, RowChanges
  <2>1. CASE convs[a].status = "open" BY <2>1 DEF IInv, OneOpenThread
  <2>2. CASE convs[a].status # "open"
    <3>1. convs[a].status = "archived"
      BY <2>2, ConversationsTyped DEF IInv, Conversation, Status
    <3>2. a = c /\ status = "open" BY <1>1, <2>2 DEF RowChanges
    <3>. QED BY <3>1, <3>2
  <2>. QED BY <2>1, <2>2
<1>7. c \in Nat BY ConversationsTyped DEF IInv
<1>8. TypeOK' BY <1>1, <1>7 DEF IInv, TypeOK, RowChanges
<1>9. RowsExist' BY <1>1, <1>4 DEF IInv, RowsExist, RowChanges
<1>. QED BY <1>3, <1>4, <1>5, <1>6, <1>8, <1>9 DEF IInv

LEMMA SendKeeps ==
    ASSUME IInv, NEW c \in ConvId, Send(c)
    PROVE  IInv'
<1>1. /\ UNCHANGED <<convs, msgs, req, seen, mailed, reopened>>
      /\ outbox' = outbox \ {c}
  BY DEF Send
<1>2. c \in Nat /\ convs[c].email \in Visitor
  BY ConversationsTyped DEF IInv, Conversation
<1>3. held' \in [Visitor -> SUBSET Nat] /\ LinkOnlyToOwner'
  <2>1. CASE held' = held
    BY <1>1, <2>1 DEF IInv, TypeOK, LinkOnlyToOwner, ConvId
  <2>2. CASE held' = [held EXCEPT ![convs[c].email] = @ \cup {c}]
    BY <1>1, <1>2, <2>2 DEF IInv, TypeOK, LinkOnlyToOwner, ConvId
  <2>. QED BY <2>1, <2>2 DEF Send
<1>4. RequestsSound' BY <1>1, TablesUnchanged, SlotKept DEF IInv
<1>5. TypeOK' BY <1>1, <1>3 DEF IInv, TypeOK
<1>6. RowsExist' BY <1>1, TablesUnchanged DEF IInv, RowsExist
<1>. QED BY <1>1, <1>3, <1>4, <1>5, <1>6, TablesUnchanged DEF IInv

LEMMA CrashKeeps ==
    ASSUME IInv, Crash
    PROVE  IInv'
<1>1. /\ UNCHANGED <<convs, msgs, held, seen, mailed, reopened>>
      /\ req' = [s \in Slot |-> Idle] /\ outbox' = {}
  BY DEF Crash
<1>2. req' \in [Slot -> Request] BY <1>1 DEF Request
<1>3. RequestsSound' BY <1>1 DEF RequestsSound, RequestSound, Idle
<1>4. TypeOK' BY <1>1, <1>2 DEF IInv, TypeOK
<1>5. LinkOnlyToOwner' BY <1>1 DEF IInv, LinkOnlyToOwner, ConvId
<1>6. RowsExist' BY <1>1, TablesUnchanged DEF IInv, RowsExist
<1>. QED BY <1>1, <1>3, <1>4, <1>5, <1>6, TablesUnchanged DEF IInv

LEMMA InitInv == Init => IInv
<1>. SUFFICES ASSUME Init PROVE IInv OBVIOUS
<1>1. TypeOK
  <2>1. convs \in Seq(Conversation) /\ msgs \in Seq(Message) BY EmptySeq DEF Init
  <2>. QED BY <2>1 DEF Init, TypeOK, Request
<1>2. ConvId = {} /\ MsgId = {} BY DEF Init, ConvId, MsgId
<1>3. RequestsSound BY DEF Init, RequestsSound, RequestSound, Idle
<1>. QED
  BY <1>1, <1>2, <1>3
  DEF Init, IInv, RowsExist, LastActivityIsNewest, UnreadUntilShown, VisitorMessages,
      OneOpenThread, LinkOnlyToOwner

LEMMA NextInv == IInv /\ [Next]_vars => IInv'
<1>. SUFFICES ASSUME IInv, [Next]_vars PROVE IInv' OBVIOUS
<1>1. CASE UNCHANGED vars
  <2>. USE <1>1 DEF vars
  <2>1. TypeOK' /\ LinkOnlyToOwner' BY DEF IInv, TypeOK, LinkOnlyToOwner, ConvId
  <2>2. RowsExist' BY TablesUnchanged DEF IInv, RowsExist
  <2>3. RequestsSound' BY TablesUnchanged, SlotKept DEF IInv
  <2>. QED BY <2>1, <2>2, <2>3, TablesUnchanged DEF IInv
<1>2. CASE \E s \in Slot, who \in Visitor, email \in Visitor : HandleNewMessage(s, who, email)
  BY <1>2, NewMessageKeeps
<1>3. CASE \E s \in Slot, who \in Visitor, c \in ConvId : LookUpLink(s, who, c)
  BY <1>3, LookUpLinkKeeps
<1>4. CASE \E s \in Slot, c \in ConvId : OpenConversation(s, c)
  BY <1>4, OpenKeeps
<1>5. CASE \E s \in Slot : StoreFollowUp(s)
  BY <1>5, FollowUpKeeps
<1>6. CASE \E s \in Slot : Answer(s)
  BY <1>6, AnswerKeeps
<1>7. CASE \E s \in Slot : ListMessages(s)
  BY <1>7, ListKeeps
<1>8. CASE \E s \in Slot : AnswerOpened(s)
  BY <1>8, AnswerOpenedKeeps
<1>9. CASE \E s \in Slot : Fail(s)
  BY <1>9, FailKeeps
<1>10. CASE \E c \in ConvId : HandleReply(c)
  BY <1>10, ReplyKeeps
<1>11. CASE \E c \in ConvId : HandleArchive(c)
  BY <1>11, StatusKeeps DEF HandleArchive, Status
<1>12. CASE \E c \in ConvId : HandleUnarchive(c)
  <2>1. PICK c \in ConvId : HandleUnarchive(c) BY <1>12
  <2>. QED BY <2>1, StatusKeeps DEF HandleUnarchive, Status
<1>13. CASE \E c \in ConvId : Send(c)
  BY <1>13, SendKeeps
<1>14. CASE Crash
  BY <1>14, CrashKeeps
<1>. QED
  BY <1>1, <1>2, <1>3, <1>4, <1>5, <1>6, <1>7, <1>8, <1>9, <1>10, <1>11, <1>12, <1>13, <1>14
  DEF Next

----------------------------------------------------------------------------
(* The theorems *)

\* The inductive invariant holds of every reachable state: the tables, what
\* handlers have read of them and what has been given away stay in step.
THEOREM Invariance == Spec => []IInv
BY InitInv, NextInv, PTL DEF Spec

\* The variables keep their types.
THEOREM TypeCorrect == Spec => []TypeOK
<1>1. IInv => TypeOK BY DEF IInv
<1>. QED BY <1>1, Invariance, PTL

\* No interleaving of handlers, failure or crash takes a thread off the unread
\* list while it holds a visitor's message no answer has shown (threads.go:155).
THEOREM UnreadSound == Spec => []UnreadUntilShown
<1>1. IInv => UnreadUntilShown BY DEF IInv
<1>. QED BY <1>1, Invariance, PTL

\* last_message_at is always the time of the newest message.
THEOREM ActivitySound == Spec => []LastActivityIsNewest
<1>1. IInv => LastActivityIsNewest BY DEF IInv
<1>. QED BY <1>1, Invariance, PTL

\* Of a visitor's threads all but the newest are closed, unless unarchived.
THEOREM OneThread == Spec => []OneOpenThread
<1>1. IInv => OneOpenThread BY DEF IInv
<1>. QED BY <1>1, Invariance, PTL

\* A link reaches nobody but the visitor whose address its thread carries.
THEOREM LinkConfined == Spec => []LinkOnlyToOwner
<1>1. IInv => LinkOnlyToOwner BY DEF IInv
<1>. QED BY <1>1, Invariance, PTL

LEMMA OnlyRacingStep ==
    ASSUME IInv, [Next]_vars, NEW m \in MsgId' \ MsgId,
           msgs'[m].sender = "visitor", convs'[msgs'[m].conv].status = "archived"
    PROVE  \E s \in Slot : req[s].pc = "followUp" /\ req[s].conv = msgs'[m].conv
                           /\ req[s].status = "open"
<1>1. msgs' # msgs BY DEF MsgId
<1>2. CASE \E s \in Slot, who \in Visitor, email \in Visitor : HandleNewMessage(s, who, email)
  <2>1. PICK email \in Visitor, c \in 1 .. Len(convs) + 1, created \in BOOLEAN :
            AddVisitorMessage(email, c, created)
    BY <1>2 DEF HandleNewMessage
  <2>2. Grows(c, "visitor") /\ convs'[c].status = "open" BY <2>1, AddVisitorGrows DEF IInv
  <2>3. m = NextMsg BY <2>2, GrowsTyped DEF IInv
  <2>. QED BY <2>2, <2>3 DEF Grows
<1>3. CASE \E s \in Slot : StoreFollowUp(s)
  <2>1. PICK s \in Slot : StoreFollowUp(s) BY <1>3
  <2>2. req[s].pc = "followUp" /\ req[s].conv \in ConvId
    BY <2>1 DEF StoreFollowUp, IInv, RequestsSound, RequestSound, Idle
  <2>3. PICK c \in 1 .. Len(convs) + 1 :
            IF req[s].status = "open"
            THEN c = req[s].conv /\ AppendVisitorMessage(c)
            ELSE \E created \in BOOLEAN :
                    AddVisitorMessage(convs[req[s].conv].email, c, created)
    BY <2>1 DEF StoreFollowUp
  <2>4. CASE req[s].status = "open"
    <3>1. Grows(c, "visitor") BY <2>2, <2>3, <2>4, AppendVisitorGrows DEF IInv
    <3>2. m = NextMsg BY <3>1, GrowsTyped DEF IInv
    <3>. QED BY <2>2, <2>3, <2>4, <3>1, <3>2 DEF Grows
  <2>5. CASE req[s].status # "open"
    <3>1. PICK created \in BOOLEAN : AddVisitorMessage(convs[req[s].conv].email, c, created)
      BY <2>3, <2>5
    <3>2. convs[req[s].conv].email \in Visitor
      BY <2>2, ConversationsTyped DEF IInv, Conversation
    <3>3. Grows(c, "visitor") /\ convs'[c].status = "open"
      BY <3>1, <3>2, AddVisitorGrows DEF IInv
    <3>4. m = NextMsg BY <3>3, GrowsTyped DEF IInv
    <3>. QED BY <3>3, <3>4 DEF Grows
  <2>. QED BY <2>4, <2>5
<1>4. CASE \E c \in ConvId : HandleReply(c)
  <2>1. PICK c \in ConvId : AddOperatorReply(c) BY <1>4 DEF HandleReply
  <2>2. Grows(c, "operator") BY <2>1, ReplyGrows DEF IInv
  <2>3. m = NextMsg BY <2>2, GrowsTyped DEF IInv
  <2>. QED BY <2>2, <2>3 DEF Grows
<1>. QED
  BY <1>1, <1>2, <1>3, <1>4
  DEF Next, vars, LookUpLink, OpenConversation, Answer, ListMessages, AnswerOpened, Fail,
      HandleArchive, HandleUnarchive, Send, Crash

\* A visitor's message only goes into an archived thread by losing the race
\* between handleThreadMessage's two calls and an operator's archiving.
THEOREM OnlyRacing == Spec => ArchivedTakesOnlyRacing
<1>1. IInv /\ [Next]_vars =>
        [ \A m \in DOMAIN msgs' \ MsgId :
            (/\ msgs'[m].sender = "visitor"
             /\ convs'[msgs'[m].conv].status = "archived")
            => \E s \in Slot : /\ req[s].pc = "followUp"
                               /\ req[s].conv = msgs'[m].conv
                               /\ req[s].status = "open" ]_vars
  BY OnlyRacingStep DEF MsgId
<1>. QED BY <1>1, Invariance, PTL DEF Spec, ArchivedTakesOnlyRacing

----------------------------------------------------------------------------
(* Threads implements Desk *)

LEMMA PromiseStep == IInv /\ IInv' /\ [Next]_vars => [Promise!Next]_(Promise!vars)
<1>. SUFFICES ASSUME IInv, IInv', [Next]_vars PROVE [Promise!Next]_(Promise!vars)
  OBVIOUS
<1>. DEFINE P == PairsOf(VisitorMessages)
            S == PairsOf(seen)
            U == {c \in ConvId : convs[c].unread}
<1>1. ASSUME NEW c \in Nat, Grows(c, "visitor"), UNCHANGED seen
      PROVE  Promise!Next
  <2>. PICK p : p = <<NextMsg, c>> OBVIOUS
  <2>1. /\ MsgId' = MsgId \cup {NextMsg} /\ NextMsg \notin MsgId
    BY <1>1, GrowsTyped DEF IInv
  <2>2. VisitorMessages' = VisitorMessages \cup {NextMsg}
    BY <1>1, <2>1 DEF Grows, VisitorMessages
  <2>3. P' = P \cup {p}
    BY <1>1, <2>2 DEF Grows, PairsOf, VisitorMessages
  <2>4. S' = S
    BY <1>1 DEF Grows, PairsOf, VisitorMessages, IInv, RowsExist
  <2>5. U' = U \cup {c}
    BY <1>1 DEF Grows
  <2>6. \A q \in P : q[1] # NextMsg
    BY <2>1 DEF PairsOf, VisitorMessages
  <2>7. Promise!Post(p)
    BY <2>3, <2>4, <2>5, <2>6 DEF Promise!Post
  <2>. QED BY <2>3, <2>7 DEF Promise!Next
<1>2. ASSUME UNCHANGED msgs, U' = U, UNCHANGED seen
      PROVE  UNCHANGED Promise!vars
  BY <1>2 DEF Promise!vars, PairsOf, VisitorMessages, MsgId
<1>3. ASSUME NEW c \in ConvId, NEW H \in SUBSET History(c), UNCHANGED msgs,
             seen' = seen \cup (H \cap VisitorMessages),
             \/ U' = U
             \/ U' = U \ {c} /\ History(c) \cap VisitorMessages \subseteq seen'
      PROVE  [Promise!Next]_(Promise!vars)
  <2>1. P' = P BY <1>3 DEF PairsOf, VisitorMessages, MsgId
  <2>2. S \subseteq S' BY <1>3 DEF PairsOf
  <2>3. S' \ S \subseteq {p \in P : p[2] = c} BY <1>3 DEF PairsOf, History
  <2>4. ASSUME History(c) \cap VisitorMessages \subseteq seen'
        PROVE  {p \in P : p[2] = c} \subseteq S'
    BY <1>3, <2>4 DEF PairsOf, History, VisitorMessages
  <2>5. Promise!Show(c)
    BY <1>3, <2>1, <2>2, <2>3, <2>4 DEF Promise!Show, Promise!PostedTo
  <2>6. CASE c \in U \cup {p[2] : p \in P}
    BY <2>5, <2>6 DEF Promise!Next
  <2>7. CASE c \notin U \cup {p[2] : p \in P}
    <3>1. S' = S BY <2>2, <2>3, <2>7
    <3>2. U' = U BY <1>3, <2>7
    <3>. QED BY <2>1, <3>1, <3>2 DEF Promise!vars
  <2>. QED BY <2>6, <2>7
<1>4. CASE UNCHANGED vars
  BY <1>2, <1>4 DEF vars, ConvId
<1>5. CASE \E s \in Slot, who \in Visitor, email \in Visitor : HandleNewMessage(s, who, email)
  <2>1. PICK email \in Visitor, c \in 1 .. Len(convs) + 1, created \in BOOLEAN :
            AddVisitorMessage(email, c, created)
    BY <1>5 DEF HandleNewMessage
  <2>2. c \in Nat /\ UNCHANGED seen
    BY <1>5, ConversationsTyped DEF HandleNewMessage, IInv
  <2>. QED BY <1>1, <2>1, <2>2, AddVisitorGrows DEF IInv
<1>6. CASE \E s \in Slot : StoreFollowUp(s)
  <2>1. PICK s \in Slot : StoreFollowUp(s) BY <1>6
  <2>2. PICK c \in 1 .. Len(convs) + 1 :
            IF req[s].status = "open"
            THEN c = req[s].conv /\ AppendVisitorMessage(c)
            ELSE \E created \in BOOLEAN :
                    AddVisitorMessage(convs[req[s].conv].email, c, created)
    BY <2>1 DEF StoreFollowUp
  <2>3. req[s].conv \in ConvId /\ convs[req[s].conv].email \in Visitor
    BY <2>1, ConversationsTyped
    DEF StoreFollowUp, IInv, RequestsSound, RequestSound, Idle, Conversation
  <2>4. Grows(c, "visitor")
    BY <2>2, <2>3, AppendVisitorGrows, AddVisitorGrows DEF IInv
  <2>5. c \in Nat /\ UNCHANGED seen
    BY <2>1, ConversationsTyped DEF StoreFollowUp, IInv
  <2>. QED BY <1>1, <2>4, <2>5
<1>7. CASE \E c \in ConvId : HandleReply(c)
  <2>1. PICK c \in ConvId : AddOperatorReply(c) /\ UNCHANGED seen
    BY <1>7 DEF HandleReply
  <2>2. Grows(c, "operator") BY <2>1, ReplyGrows DEF IInv
  <2>3. /\ MsgId' = MsgId \cup {NextMsg} /\ NextMsg \notin MsgId
    BY <2>2, GrowsTyped DEF IInv
  <2>4. VisitorMessages' = VisitorMessages BY <2>2, <2>3 DEF Grows, VisitorMessages
  <2>5. P' = P BY <2>2, <2>4 DEF Grows, PairsOf, VisitorMessages
  <2>6. S' = S BY <2>1, <2>2 DEF Grows, PairsOf, VisitorMessages, IInv, RowsExist
  <2>7. U' = U BY <2>2 DEF Grows
  <2>. QED BY <2>5, <2>6, <2>7 DEF Promise!vars
<1>8. CASE \E s \in Slot : ListMessages(s)
  <2>1. PICK s \in Slot : ListMessages(s) BY <1>8
  <2>2. /\ UNCHANGED <<convs, msgs>> /\ req[s].conv \in ConvId
        /\ \/ UNCHANGED seen
           \/ seen' = seen \cup (History(req[s].conv) \cap VisitorMessages)
    BY <2>1 DEF ListMessages, IInv, RequestsSound, RequestSound, Idle
  <2>3. U' = U BY <2>2 DEF ConvId
  <2>. QED BY <1>2, <1>3, <2>2, <2>3
<1>9. CASE \E s \in Slot : AnswerOpened(s)
  <2>1. PICK s \in Slot : AnswerOpened(s) BY <1>9
  <2>. DEFINE c == req[s].conv
              H == req[s].history
  <2>2. /\ UNCHANGED msgs /\ c \in ConvId /\ H \subseteq History(c)
        /\ \A m \in History(c) : m <= req[s].asOf => m \in H
        /\ seen' = seen \cup (H \cap VisitorMessages)
        /\ MarkRead(c, req[s].asOf) \/ UNCHANGED convs
    BY <2>1 DEF AnswerOpened, IInv, RequestsSound, RequestSound, Idle
  <2>3. CASE UNCHANGED convs
    <3>1. U' = U BY <2>3 DEF ConvId
    <3>. QED BY <1>3, <2>2, <3>1
  <2>4. CASE MarkRead(c, req[s].asOf)
    <3>1. /\ RowChanges(c)
          /\ convs'[c].unread = (convs[c].unread /\ convs[c].lastAt # req[s].asOf)
      BY <2>2, <2>4, MarkReadChanges DEF IInv
    <3>2. CASE convs[c].lastAt # req[s].asOf
      <4>1. convs[c].unread \in BOOLEAN
        BY <2>2, ConversationsTyped DEF IInv, Conversation
      <4>2. U' = U BY <3>1, <3>2, <4>1 DEF RowChanges
      <4>. QED BY <1>3, <2>2, <4>2
    <3>3. CASE convs[c].lastAt = req[s].asOf
      <4>1. U' = U \ {c} BY <2>2, <3>1, <3>3 DEF RowChanges
      <4>2. \A m \in History(c) : m <= req[s].asOf
        BY <2>2, <3>3 DEF IInv, LastActivityIsNewest
      <4>3. History(c) \cap VisitorMessages \subseteq seen'
        BY <2>2, <4>2
      <4>. QED BY <1>3, <2>2, <4>1, <4>3
    <3>. QED BY <3>2, <3>3
  <2>. QED BY <2>2, <2>3, <2>4
<1>10. CASE \E c \in ConvId : HandleArchive(c) \/ HandleUnarchive(c)
  <2>1. PICK c \in ConvId, status \in Status : SetStatus(c, status) /\ UNCHANGED <<msgs, seen>>
    BY <1>10 DEF HandleArchive, HandleUnarchive, Status
  <2>2. RowChanges(c) /\ convs'[c].unread = convs[c].unread
    BY <2>1, SetStatusChanges DEF IInv
  <2>3. U' = U BY <2>2 DEF RowChanges
  <2>. QED BY <1>2, <2>1, <2>3
<1>11. CASE \/ \E s \in Slot, who \in Visitor, c \in ConvId : LookUpLink(s, who, c)
            \/ \E s \in Slot, c \in ConvId : OpenConversation(s, c)
            \/ \E s \in Slot : Answer(s)
            \/ \E s \in Slot : Fail(s)
            \/ \E c \in ConvId : Send(c)
            \/ Crash
  <2>1. UNCHANGED <<convs, msgs, seen>>
    BY <1>11 DEF LookUpLink, OpenConversation, Answer, Fail, Send, Crash
  <2>. QED BY <1>2, <2>1 DEF ConvId
<1>. QED
  BY <1>4, <1>5, <1>6, <1>7, <1>8, <1>9, <1>10, <1>11 DEF Next

\* The handlers with their several store calls do what Desk does in one step:
\* a thread leaves the unread list only with an answer that shows it whole.
THEOREM Refinement == Spec => KeepsPromise
<1>1. Init => Promise!Init
  BY DEF Init, Promise!Init, PairsOf, VisitorMessages, MsgId, ConvId
<1>. QED BY <1>1, PromiseStep, Invariance, PTL DEF Spec, KeepsPromise, Promise!Spec

----------------------------------------------------------------------------
(* Threads implements Shelf *)

LEMMA MessageFiled ==
    ASSUME IInv, NEW c \in Nat, Grows(c, "visitor")
    PROVE  PairsOf(VisitorMessages)' = PairsOf(VisitorMessages) \cup {<<NextMsg, c>>}
<1>1. MsgId' = MsgId \cup {NextMsg} /\ NextMsg \notin MsgId
  BY GrowsTyped DEF IInv
<1>2. VisitorMessages' = VisitorMessages \cup {NextMsg}
  BY <1>1 DEF Grows, VisitorMessages
<1>. QED BY <1>2 DEF Grows, PairsOf, VisitorMessages

\* A message to a thread that is there leaves all statuses.
LEMMA StatusesStay ==
    ASSUME NEW c \in ConvId, NEW sender, Grows(c, sender), NEW status
    PROVE  WithStatus(status)' = WithStatus(status)
BY DEF Grows, WithStatus

\* AddVisitorMessage finds an open thread of the address, or begins one.
LEMMA FiledByAddress ==
    ASSUME IInv, NEW email \in Visitor, NEW c \in Nat, NEW created \in BOOLEAN,
           AddVisitorMessage(email, c, created)
    PROVE  Filing!File(email, NextMsg, c) /\ <<email, c>> \in WithStatus("open")'
<1>. DEFINE O == WithStatus("open")
            A == WithStatus("archived")
<1>1. Grows(c, "visitor") /\ convs'[c].email = email /\ convs'[c].status = "open"
  BY AddVisitorGrows DEF IInv
<1>2. PairsOf(VisitorMessages)' = PairsOf(VisitorMessages) \cup {<<NextMsg, c>>}
  BY <1>1, MessageFiled
<1>3. <<email, c>> \in O' BY <1>1 DEF WithStatus, Grows
<1>4. CASE c \in ConvId
  <2>1. <<email, c>> \in O BY <1>1, <1>4 DEF WithStatus, Grows
  <2>2. O' = O /\ A' = A BY <1>1, <1>4, StatusesStay
  <2>. QED BY <1>2, <1>3, <2>1, <2>2 DEF Filing!File
<1>5. CASE c \notin ConvId
  <2>1. OpenConvs(email) = {} BY <1>1, <1>5 DEF Grows
  <2>2. \A q \in O : q[1] # email BY <2>1 DEF WithStatus, OpenConvs
  <2>3. \A q \in O \cup A : q[2] # c BY <1>5 DEF WithStatus
  <2>4. O' = O \cup {<<email, c>>} BY <1>1, <1>5 DEF WithStatus, Grows
  <2>5. A' = A BY <1>1, <1>5 DEF WithStatus, Grows
  <2>. QED BY <1>2, <1>3, <2>2, <2>3, <2>4, <2>5 DEF Filing!File, Filing!begun
<1>. QED BY <1>4, <1>5

LookedUp == {FollowUpOf(s) : s \in {r \in Slot : req[r].pc = "followUp"}}

\* A slot that leaves a follow-up, or takes no part in one.
LEMMA SlotLeaves ==
    ASSUME TypeOK, NEW s \in Slot, NEW r, r.pc # "followUp", req' = [req EXCEPT ![s] = r]
    PROVE  /\ req[s].pc = "followUp" => LookedUp' = LookedUp \ {FollowUpOf(s)}
           /\ req[s].pc # "followUp" => LookedUp' = LookedUp
<1>1. /\ DOMAIN req = Slot /\ req'[s] = r
      /\ \A x \in Slot : x # s => req'[x] = req[x]
  BY DEF TypeOK
<1>2. \A x, y \in Slot : FollowUpOf(x) = FollowUpOf(y) => x = y BY DEF FollowUpOf
<1>3. \A x \in Slot : x # s => FollowUpOf(x)' = FollowUpOf(x) BY <1>1 DEF FollowUpOf
<1>4. LookedUp' = {FollowUpOf(x) : x \in {y \in Slot \ {s} : req[y].pc = "followUp"}}
  BY <1>1, <1>3 DEF LookedUp
<1>. QED BY <1>2, <1>4 DEF LookedUp

LEMMA SlotStores ==
    ASSUME TypeOK, NEW s \in Slot, NEW who, NEW c, NEW receipt, NEW link,
           req' = [req EXCEPT ![s] = [pc |-> "stored", who |-> who, conv |-> c,
                        msg |-> NextMsg, receipt |-> receipt, link |-> link]]
    PROVE  /\ req[s].pc = "followUp" => LookedUp' = LookedUp \ {FollowUpOf(s)}
           /\ req[s].pc # "followUp" => LookedUp' = LookedUp
<1>. DEFINE r == [pc |-> "stored", who |-> who, conv |-> c,
                  msg |-> NextMsg, receipt |-> receipt, link |-> link]
<1>1. r.pc # "followUp" /\ req' = [req EXCEPT ![s] = r] OBVIOUS
<1>. HIDE DEF r
<1>. QED BY <1>1, SlotLeaves

LEMMA SlotLooksUp ==
    ASSUME TypeOK, NEW s \in Slot, req[s] = Idle, NEW who, NEW c, NEW status,
           req' = [req EXCEPT ![s] = [pc |-> "followUp", who |-> who, conv |-> c,
                                      status |-> status]]
    PROVE  LookedUp' = LookedUp \cup {[request |-> s, thread |-> c, open |-> (status = "open")]}
<1>1. req[s].pc # "followUp" BY DEF Idle
<1>2. /\ DOMAIN req = Slot /\ req'[s].pc = "followUp"
      /\ req'[s].conv = c /\ req'[s].status = status
      /\ \A x \in Slot : x # s => req'[x] = req[x]
  BY DEF TypeOK
<1>3. \A x \in Slot : x # s => FollowUpOf(x)' = FollowUpOf(x) BY <1>2 DEF FollowUpOf
<1>4. FollowUpOf(s)' = [request |-> s, thread |-> c, open |-> (status = "open")]
  BY <1>2 DEF FollowUpOf
<1>. QED BY <1>1, <1>2, <1>3, <1>4 DEF LookedUp

\* Operators archive a thread, or take it back.
LEMMA StatusMoves ==
    ASSUME IInv, NEW c \in ConvId, NEW status \in Status, SetStatus(c, status),
           UNCHANGED <<msgs, req>>
    PROVE  Filing!Archive(<<convs[c].email, c>>) \/ Filing!Unarchive(<<convs[c].email, c>>)
<1>. DEFINE O == WithStatus("open")
            A == WithStatus("archived")
            q == <<convs[c].email, c>>
<1>1. RowChanges(c) /\ convs'[c].status = status BY SetStatusChanges DEF IInv
<1>2. \A d \in ConvId : d # c => convs'[d] = convs[d] BY <1>1 DEF RowChanges
<1>3. UNCHANGED <<PairsOf(VisitorMessages), LookedUp>>
  BY DEF PairsOf, VisitorMessages, MsgId, LookedUp, FollowUpOf
<1>4. \A st : WithStatus(st)' = (WithStatus(st) \ {q}) \cup (IF st = status THEN {q} ELSE {})
  BY <1>1, <1>2 DEF RowChanges, WithStatus
<1>5. q \in O \cup A BY ConversationsTyped DEF IInv, WithStatus, Conversation, Status
<1>6. CASE status = "archived"
  <2>1. O' = O \ {q} /\ A' = A \cup {q} BY <1>4, <1>6
  <2>. QED BY <1>3, <2>1 DEF Filing!Archive, LookedUp
<1>7. CASE status = "open"
  <2>1. A' = A \ {q} /\ O' = O \cup {q} BY <1>4, <1>7
  <2>. QED BY <1>3, <2>1 DEF Filing!Unarchive, LookedUp
<1>. QED BY <1>6, <1>7 DEF Status

LEMMA ShelfStep == IInv /\ [Next]_vars => [Filing!Next]_(Filing!vars)
<1>. SUFFICES ASSUME IInv, [Next]_vars PROVE [Filing!Next]_(Filing!vars)
  OBVIOUS
<1>. DEFINE O == WithStatus("open")
            A == WithStatus("archived")
            P == PairsOf(VisitorMessages)
<1>1. ASSUME UNCHANGED <<convs, msgs>>
      PROVE  O' = O /\ A' = A /\ P' = P
  BY <1>1 DEF WithStatus, PairsOf, VisitorMessages, ConvId, MsgId
<1>2. ASSUME O' = O, A' = A, P' = P, LookedUp' \subseteq LookedUp
      PROVE  Filing!Next
  BY <1>2 DEF Filing!Next, Filing!GiveUp, LookedUp
<1>3. CASE UNCHANGED vars
  BY <1>1, <1>2, <1>3 DEF vars, LookedUp, FollowUpOf
<1>4. CASE \E s \in Slot, who \in Visitor, email \in Visitor : HandleNewMessage(s, who, email)
  <2>1. PICK s \in Slot, who \in Visitor, email \in Visitor : HandleNewMessage(s, who, email)
    BY <1>4
  <2>2. PICK c \in 1 .. Len(convs) + 1, created \in BOOLEAN :
            /\ AddVisitorMessage(email, c, created)
            /\ req' = [req EXCEPT ![s] = [pc |-> "stored", who |-> who, conv |-> c,
                            msg |-> NextMsg, receipt |-> created, link |-> FALSE]]
    BY <2>1 DEF HandleNewMessage
  <2>3. c \in Nat BY ConversationsTyped DEF IInv
  <2>4. LookedUp' = LookedUp
    <3>1. TypeOK /\ req[s].pc # "followUp" BY <2>1 DEF HandleNewMessage, Idle, IInv
    <3>. QED BY <2>2, <3>1, SlotStores
  <2>5. Filing!File(email, NextMsg, c) /\ <<email, c>> \in O'
    BY <2>2, <2>3, FiledByAddress
  <2>6. Filing!Submit(email, NextMsg, c) /\ <<NextMsg, c>> \in P'
    BY <2>4, <2>5 DEF Filing!Submit, Filing!File, LookedUp
  <2>7. \E p \in P' : \E q \in O' : Filing!Submit(q[1], p[1], p[2])
    BY <2>5, <2>6
  <2>. QED BY <2>7 DEF Filing!Next
<1>5. CASE \E s \in Slot, who \in Visitor, c \in ConvId : LookUpLink(s, who, c)
  <2>1. PICK s \in Slot, who \in Visitor, c \in ConvId : LookUpLink(s, who, c) BY <1>5
  <2>. PICK f : f = [request |-> s, thread |-> c, open |-> (convs[c].status = "open")]
    OBVIOUS
  <2>. DEFINE q == <<convs[c].email, c>>
  <2>2. req' = [req EXCEPT ![s] = [pc |-> "followUp", who |-> who, conv |-> c,
                                   status |-> convs[c].status]]
    BY <2>1 DEF LookUpLink
  <2>3. O' = O /\ A' = A /\ P' = P BY <1>1, <2>1 DEF LookUpLink
  <2>5. LookedUp' = LookedUp \cup {f}
    <3>1. TypeOK /\ req[s] = Idle BY <2>1 DEF LookUpLink, IInv
    <3>. QED BY <2>2, <3>1, SlotLooksUp
  <2>6. q \in O \cup A /\ f.open = (q \in O) /\ f.thread = q[2]
    BY ConversationsTyped DEF IInv, WithStatus, Conversation, Status
  <2>7. Filing!LookUp(f)
    BY <2>3, <2>5, <2>6 DEF Filing!LookUp, Filing!begun, LookedUp
  <2>8. \E g \in LookedUp' : Filing!LookUp(g) BY <2>5, <2>7
  <2>. QED BY <2>8 DEF Filing!Next, LookedUp
<1>6. CASE \E s \in Slot : StoreFollowUp(s)
  <2>1. PICK s \in Slot : StoreFollowUp(s) BY <1>6
  <2>. DEFINE f == FollowUpOf(s)
  <2>2. PICK c \in 1 .. Len(convs) + 1 :
            /\ IF req[s].status = "open"
               THEN c = req[s].conv /\ AppendVisitorMessage(c)
               ELSE \E created \in BOOLEAN :
                        AddVisitorMessage(convs[req[s].conv].email, c, created)
            /\ req' = [req EXCEPT ![s] = [pc |-> "stored", who |-> req[s].who, conv |-> c,
                            msg |-> NextMsg, receipt |-> FALSE, link |-> TRUE]]
    BY <2>1 DEF StoreFollowUp
  <2>3. /\ c \in Nat /\ req[s].pc = "followUp" /\ req[s].conv \in ConvId
        /\ convs[req[s].conv].email \in Visitor /\ convs[req[s].conv].status \in Status
    BY <2>1, ConversationsTyped
    DEF StoreFollowUp, IInv, RequestsSound, RequestSound, Idle, Conversation
  <2>4. LookedUp' = LookedUp \ {f} /\ f \in LookedUp
    BY <2>2, <2>3, SlotStores DEF LookedUp, IInv
  <2>5. f.thread = req[s].conv /\ f.open = (req[s].status = "open") BY DEF FollowUpOf
  <2>6. CASE req[s].status = "open"
    <3>1. Grows(c, "visitor") BY <2>2, <2>3, <2>6, AppendVisitorGrows DEF IInv
    <3>2. P' = P \cup {<<NextMsg, c>>} BY <2>3, <3>1, MessageFiled
    <3>3. O' = O /\ A' = A BY <2>2, <2>3, <2>6, <3>1, StatusesStay
    <3>. HIDE DEF f
    <3>4. Filing!FollowUp(f, NextMsg, c)
      BY <2>2, <2>4, <2>5, <2>6, <3>2, <3>3 DEF Filing!FollowUp, LookedUp
    <3>5. <<NextMsg, c>> \in P' BY <3>2
    <3>6. \E p \in P' : \E g \in LookedUp : Filing!FollowUp(g, p[1], p[2])
      BY <2>4, <3>4, <3>5
    <3>. QED BY <3>6 DEF Filing!Next, LookedUp
  <2>7. CASE req[s].status # "open"
    <3>. DEFINE email == convs[req[s].conv].email
    <3>1. PICK created \in BOOLEAN : AddVisitorMessage(email, c, created) BY <2>2, <2>7
    <3>2. Filing!File(email, NextMsg, c) BY <2>3, <3>1, FiledByAddress
    <3>3. <<email, req[s].conv>> \in O \cup A BY <2>3 DEF WithStatus, Status
    <3>4. <<NextMsg, c>> \in P' BY <3>2 DEF Filing!File
    <3>. HIDE DEF f, email
    <3>5. Filing!FollowUp(f, NextMsg, c)
      BY <2>4, <2>5, <2>7, <3>2, <3>3 DEF Filing!FollowUp, Filing!begun, LookedUp
    <3>6. \E p \in P' : \E g \in LookedUp : Filing!FollowUp(g, p[1], p[2])
      BY <2>4, <3>4, <3>5
    <3>. QED BY <3>6 DEF Filing!Next, LookedUp
  <2>. QED BY <2>6, <2>7
<1>7. CASE \E c \in ConvId : HandleReply(c)
  <2>1. PICK c \in ConvId : AddOperatorReply(c) /\ UNCHANGED req BY <1>7 DEF HandleReply
  <2>2. Grows(c, "operator") BY <2>1, ReplyGrows DEF IInv
  <2>3. O' = O /\ A' = A BY <2>2, StatusesStay
  <2>4. MsgId' = MsgId \cup {NextMsg} /\ NextMsg \notin MsgId BY <2>2, GrowsTyped DEF IInv
  <2>5. VisitorMessages' = VisitorMessages BY <2>2, <2>4 DEF Grows, VisitorMessages
  <2>6. P' = P BY <2>2, <2>5 DEF Grows, PairsOf, VisitorMessages
  <2>. QED BY <1>2, <2>1, <2>3, <2>6 DEF LookedUp, FollowUpOf
<1>8. CASE \E c \in ConvId : HandleArchive(c) \/ HandleUnarchive(c)
  <2>1. PICK c \in ConvId, status \in Status :
            SetStatus(c, status) /\ UNCHANGED <<msgs, req>>
    BY <1>8 DEF HandleArchive, HandleUnarchive, Status
  <2>2. <<convs[c].email, c>> \in O \cup A
    BY ConversationsTyped DEF IInv, WithStatus, Conversation, Status
  <2>. QED BY <2>1, <2>2, StatusMoves DEF Filing!Next, Filing!begun
<1>9. CASE \E s \in Slot : AnswerOpened(s)
  <2>1. PICK s \in Slot : AnswerOpened(s) BY <1>9
  <2>2. /\ UNCHANGED msgs /\ req[s].conv \in ConvId /\ req[s].pc = "listed"
        /\ MarkRead(req[s].conv, req[s].asOf) \/ UNCHANGED convs
        /\ req' = [req EXCEPT ![s] = Idle]
    BY <2>1 DEF AnswerOpened, IInv, RequestsSound, RequestSound, Idle
  <2>3. LookedUp' = LookedUp BY <2>2, SlotLeaves DEF Idle, IInv
  <2>4. O' = O /\ A' = A /\ P' = P
    <3>1. CASE UNCHANGED convs BY <1>1, <2>2, <3>1
    <3>2. CASE MarkRead(req[s].conv, req[s].asOf)
      <4>1. /\ RowChanges(req[s].conv)
            /\ convs'[req[s].conv].status = convs[req[s].conv].status
        BY <2>2, <3>2, MarkReadChanges DEF IInv
      <4>2. \A d \in ConvId : convs'[d].status = convs[d].status BY <4>1 DEF RowChanges
      <4>. QED BY <2>2, <4>1, <4>2 DEF RowChanges, WithStatus, PairsOf, VisitorMessages, MsgId
    <3>. QED BY <2>2, <3>1, <3>2
  <2>. QED BY <1>2, <2>3, <2>4
<1>10. ASSUME NEW s \in Slot,
              \/ \E c \in ConvId : OpenConversation(s, c)
              \/ Answer(s) \/ ListMessages(s) \/ Fail(s)
       PROVE  Filing!Next
  <2>1. UNCHANGED <<convs, msgs>> /\ \E r : r.pc # "followUp" /\ req' = [req EXCEPT ![s] = r]
    <3>1. CASE \E c \in ConvId : OpenConversation(s, c)
      <4>1. PICK c \in ConvId : OpenConversation(s, c) BY <3>1
      <4>. DEFINE r == [pc |-> "opened", conv |-> c,
                        unread |-> convs[c].unread, asOf |-> convs[c].lastAt]
      <4>2. r.pc # "followUp" /\ req' = [req EXCEPT ![s] = r]
        BY <4>1 DEF OpenConversation
      <4>. QED BY <4>1, <4>2 DEF OpenConversation
    <3>2. CASE req[s].pc = "opened" /\ req[s].unread /\ ListMessages(s)
      <4>. DEFINE r == [pc |-> "listed", conv |-> req[s].conv,
                        asOf |-> req[s].asOf, history |-> History(req[s].conv)]
      <4>1. r.pc # "followUp" /\ req' = [req EXCEPT ![s] = r]
        BY <3>2 DEF ListMessages
      <4>. QED BY <3>2, <4>1 DEF ListMessages
    <3>3. CASE req' = [req EXCEPT ![s] = Idle] /\ UNCHANGED <<convs, msgs>>
      BY <3>3 DEF Idle
    <3>. QED BY <1>10, <3>1, <3>2, <3>3 DEF Answer, ListMessages, Fail
  <2>2. LookedUp' \subseteq LookedUp
    <3>1. PICK r : r.pc # "followUp" /\ req' = [req EXCEPT ![s] = r] BY <2>1
    <3>. QED BY <3>1, SlotLeaves DEF IInv
  <2>. QED BY <1>1, <1>2, <2>1, <2>2
<1>11. CASE Crash
  <2>1. UNCHANGED <<convs, msgs>> /\ LookedUp' = {} BY <1>11 DEF Crash, LookedUp, Idle
  <2>. QED BY <1>1, <1>2, <2>1
<1>12. CASE \E c \in ConvId : Send(c)
  <2>1. UNCHANGED <<convs, msgs, req>> BY <1>12 DEF Send
  <2>. QED BY <1>1, <1>2, <2>1 DEF LookedUp, FollowUpOf
<1>. QED
  BY <1>3, <1>4, <1>5, <1>6, <1>7, <1>8, <1>9, <1>10, <1>11, <1>12 DEF Next

\* Whatever interleaves, a message goes where Shelf puts it, and stays there.
THEOREM ShelfRefinement == Spec => KeepsShelf
<1>1. Init => Filing!Init
  BY DEF Init, Filing!Init, WithStatus, PairsOf, VisitorMessages, MsgId, ConvId, Idle
<1>. QED BY <1>1, ShelfStep, Invariance, PTL DEF Spec, KeepsShelf, Filing!Spec
=============================================================================
