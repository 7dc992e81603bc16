------------------------------ MODULE Settings ------------------------------
(***************************************************************************)
(* The team in the settings of the operators' application: the users part  *)
(* of web/inbox/src/views/SettingsScreen.vue with its calls in api.ts.     *)
(*                                                                         *)
(* A step is an event of the operator or an answer with what its await     *)
(* resumes.  The server is the handlers of users.go, one step each (their  *)
(* own races are in module Users).  An account is the number of its birth; *)
(* its row id is what the screen names it by, and the id of a removed      *)
(* account may come back.  The operator stays signed in and an             *)
(* administrator: module Console has sessions, and with them the change of *)
(* one's own password, which touches nothing else here.  The operator's    *)
(* own row, which cannot be removed, is left out.  Who is an administrator *)
(* is left to module Users: a toggle is a request that rewrites a row.     *)
(*                                                                         *)
(* Only the form for new accounts waits for its answer; any number of the  *)
(* other requests may be out, two of all kinds here.                       *)
(***************************************************************************)
EXTENDS Page, Sequences, FiniteSets

CONSTANT MaxAccounts   \* bound on the accounts that are ever made

ASSUME TeamBound == MaxAccounts \in Nat \ {0}

VARIABLES
    users,              \* the list on screen
    usersLoading,
    adding,
    confirmingDeleteId,
    resettingId,
    resetPassword,      \* the account under whose row the text was typed, or 0
    managing,           \* requests in flight
    idOf,               \* the table: the row id of an account, 0 if it has none
    born,               \* how many accounts were ever made
    calm                \* what has happened since the screen was opened

team == <<idOf, born>>
rowForms == <<confirmingDeleteId, resettingId, resetPassword>>
settingsVars == <<users, usersLoading, adding, rowForms, managing, team, calm, mishaps>>

Account == 1 .. MaxAccounts
RowId == 0 .. MaxAccounts
Row == [id : Account, who : Account]

\* Calm: one request at a time, and nobody else's.  Crossed: two requests were
\* out together.  Disturbed: somebody else changed the team, an answer was
\* lost, or an id came back.
Calm == {"calm", "crossed", "disturbed"}

\* id and who are those of the row the request is about; stale: the array an
\* added row will be pushed onto is no longer on screen.  The screen treats all
\* errors alike.
Management == [op : {"load", "add", "toggle", "delete", "reset"}, id : RowId, who : RowId,
               stale : BOOLEAN, answer : Answer, rows : Seq(Row)]
Managed(op, id, who) ==
    [op |-> op, id |-> id, who |-> who, stale |-> FALSE, answer |-> "none", rows |-> << >>]
NoManagement == Managed("none", 0, 0)

SettingsTypeOK ==
    /\ users \in Seq(Row)
    /\ usersLoading \in BOOLEAN /\ adding \in BOOLEAN
    /\ confirmingDeleteId \in RowId /\ resettingId \in RowId /\ resetPassword \in RowId
    /\ managing \in [Slot -> Management \cup {NoManagement}]
    /\ idOf \in [Account -> RowId]
    /\ born \in RowId
    /\ calm \in Calm

Loading == [s \in Slot |-> IF s = 1 THEN Managed("load", 0, 0) ELSE NoManagement]

\* An administrator opens the screen: onMounted.
SettingsInit ==
    /\ users = << >>
    /\ usersLoading = TRUE /\ adding = FALSE
    /\ confirmingDeleteId = 0 /\ resettingId = 0 /\ resetPassword = 0
    /\ managing = Loading
    /\ born \in RowId
    /\ idOf = [a \in Account |-> IF a <= born THEN a ELSE 0]
    /\ calm = "calm"

\* The numbers of a finite set in order, as the one list of them.
Ascending(numbers) ==
    {list \in [1 .. Cardinality(numbers) -> numbers] :
        /\ \A i, j \in DOMAIN list : i < j => list[i] < list[j]
        /\ \A n \in numbers : \E i \in DOMAIN list : list[i] = n}

-----------------------------------------------------------------------------
(* The operator. *)

FreeManaging(s) ==
    managing[s] = NoManagement /\ \A t \in Slot : t < s => managing[t] # NoManagement

Worse(a, b) == IF "disturbed" \in {a, b} THEN "disturbed" ELSE b

Manage(s, op, id, who) ==
    /\ FreeManaging(s)
    /\ managing' = [managing EXCEPT ![s] = Managed(op, id, who)]
    /\ calm' = IF \E t \in Slot : managing[t].op # "none" THEN Worse(calm, "crossed") ELSE calm

\* addUser up to its await.  users.value.push is looked up before it.
AddUser(s) ==
    /\ ~adding
    /\ adding' = TRUE
    /\ Manage(s, "add", 0, 0)
    /\ UNCHANGED <<users, usersLoading, rowForms, team, mishaps>>

RowShown(r) == ~usersLoading /\ \E i \in 1 .. Len(users) : users[i] = r

ToggleAdmin(s, r) ==
    /\ RowShown(r)
    /\ Manage(s, "toggle", r.id, r.who)
    /\ UNCHANGED <<users, usersLoading, adding, rowForms, team, mishaps>>

\* The other form of the row goes; what was typed in it does not.
AskDelete(r) ==
    /\ RowShown(r)
    /\ confirmingDeleteId' = IF confirmingDeleteId = r.id THEN 0 ELSE r.id
    /\ resettingId' = 0
    /\ UNCHANGED <<users, usersLoading, adding, resetPassword, managing, team, calm, mishaps>>

CancelDelete ==
    /\ confirmingDeleteId # 0
    /\ confirmingDeleteId' = 0
    /\ UNCHANGED <<users, usersLoading, adding, resettingId, resetPassword, managing, team,
                   calm, mishaps>>

\* Nothing keeps the operator from confirming twice.
RemoveUser(s, r) ==
    /\ RowShown(r) /\ confirmingDeleteId = r.id
    /\ Manage(s, "delete", r.id, r.who)
    /\ UNCHANGED <<users, usersLoading, adding, rowForms, team, mishaps>>

\* Faulty: the text typed for another account stays.
OpenReset_KeepsText(r) ==
    /\ RowShown(r)
    /\ resettingId' = IF resettingId = r.id THEN 0 ELSE r.id
    /\ confirmingDeleteId' = 0
    /\ UNCHANGED <<users, usersLoading, adding, resetPassword, managing, team, calm, mishaps>>

OpenReset(r) ==
    /\ RowShown(r)
    /\ resettingId' = IF resettingId = r.id THEN 0 ELSE r.id
    /\ confirmingDeleteId' = 0
    /\ resetPassword' = 0
    /\ UNCHANGED <<users, usersLoading, adding, managing, team, calm, mishaps>>

TypePassword(r) ==
    /\ RowShown(r) /\ resettingId = r.id
    /\ resetPassword = 0
    /\ resetPassword' = r.who
    /\ UNCHANGED <<users, usersLoading, adding, confirmingDeleteId, resettingId, managing,
                   team, calm, mishaps>>

\* submitReset up to its await: a text goes to the id of the row it stands
\* under.
SubmitReset(s, r) ==
    /\ RowShown(r) /\ resettingId = r.id
    /\ resetPassword # 0
    /\ Manage(s, "reset", r.id, resetPassword)
    /\ UNCHANGED <<users, usersLoading, adding, rowForms, team, mishaps>>

\* Closing the screen and opening it again.  An answer to the old one has no
\* effect, and what the server still does for it is somebody else's doing here.
Reopen ==
    /\ ~usersLoading
    /\ users' = << >>
    /\ usersLoading' = TRUE /\ adding' = FALSE
    /\ confirmingDeleteId' = 0 /\ resettingId' = 0 /\ resetPassword' = 0
    /\ managing' = Loading
    /\ calm' = "calm"
    /\ UNCHANGED <<team, mishaps>>

-----------------------------------------------------------------------------
(* Answers. *)

\* The array of users is replaced: a row still to be added will not show.
Outdate(calls) ==
    [t \in Slot |-> IF calls[t].op = "add" THEN [calls[t] EXCEPT !.stale = TRUE] ELSE calls[t]]
AnswerTaken(s) == [managing EXCEPT ![s] = NoManagement]

\* What the screen still needs of a request that is answered.
Answered(s, answer, rows) ==
    LET c == managing[s] IN
    [managing EXCEPT ![s] = [op |-> c.op, id |-> IF c.op = "delete" THEN c.id ELSE 0, who |-> 0,
                             stale |-> c.stale, answer |-> answer, rows |-> rows]]

\* What addUser changes of the list.  Faulty: the row goes to the list of now.
PushTo_Current(s) == Append(users, managing[s].rows[1])

PushTo(s) == IF managing[s].stale THEN users ELSE Append(users, managing[s].rows[1])

ReceiveTeam(s) ==
    /\ managing[s].op = "load" /\ managing[s].answer # "none"
    /\ usersLoading' = FALSE
    /\ \/ /\ managing[s].answer = "ok"
          /\ users' = managing[s].rows
          /\ managing' = Outdate(AnswerTaken(s))
       \/ /\ managing[s].answer # "ok"
          /\ managing' = AnswerTaken(s)
          /\ UNCHANGED users
    /\ UNCHANGED <<adding, rowForms, team, calm, mishaps>>

ReceiveAdded(s) ==
    /\ managing[s].op = "add" /\ managing[s].answer # "none"
    /\ adding' = FALSE
    /\ managing' = AnswerTaken(s)
    /\ users' = IF managing[s].answer = "ok" THEN PushTo(s) ELSE users
    /\ UNCHANGED <<usersLoading, rowForms, team, calm, mishaps>>

ReceiveToggled(s) ==
    /\ managing[s].op = "toggle" /\ managing[s].answer # "none"
    /\ \/ /\ managing[s].answer = "ok"
          /\ LET updated == managing[s].rows[1] IN
             users' = [i \in 1 .. Len(users) |->
                          IF users[i].id = updated.id THEN updated ELSE users[i]]
          /\ managing' = Outdate(AnswerTaken(s))
       \/ /\ managing[s].answer # "ok"
          /\ managing' = AnswerTaken(s)
          /\ UNCHANGED users
    /\ UNCHANGED <<usersLoading, adding, rowForms, team, calm, mishaps>>

\* The confirmation goes, also one that is now asked for another row.
ReceiveRemoved(s) ==
    /\ managing[s].op = "delete" /\ managing[s].answer # "none"
    /\ \/ /\ managing[s].answer = "ok"
          /\ \E kept \in Ascending({i \in 1 .. Len(users) : users[i].id # managing[s].id}) :
                 users' = [i \in DOMAIN kept |-> users[kept[i]]]
          /\ confirmingDeleteId' = 0
          /\ managing' = Outdate(AnswerTaken(s))
       \/ /\ managing[s].answer # "ok"
          /\ managing' = AnswerTaken(s)
          /\ UNCHANGED <<users, confirmingDeleteId>>
    /\ UNCHANGED <<usersLoading, adding, resettingId, resetPassword, team, calm, mishaps>>

\* The form goes with its text, also one that is now open under another row.
ReceiveReset(s) ==
    /\ managing[s].op = "reset" /\ managing[s].answer # "none"
    /\ managing' = AnswerTaken(s)
    /\ \/ managing[s].answer = "ok" /\ resettingId' = 0 /\ resetPassword' = 0
       \/ managing[s].answer # "ok" /\ UNCHANGED <<resettingId, resetPassword>>
    /\ UNCHANGED <<users, usersLoading, adding, confirmingDeleteId, team, calm, mishaps>>

-----------------------------------------------------------------------------
(* The server. *)

\* At most one disturbance for each opening of the screen, which is counted with
\* it and not over all.
Disturb == calm # "disturbed" /\ calm' = "disturbed" /\ UNCHANGED mishaps

Alive(a) == idOf[a] # 0

InTeam(ids) == {a \in Account : ids[a] # 0}

\* ListUsers: the rows of some accounts, oldest first.
Roster(ids, asked) ==
    {[i \in DOMAIN oldest |-> [id |-> ids[oldest[i]], who |-> oldest[i]]] :
        oldest \in Ascending(asked)}

\* The highest id in the table plus one.
NextId(i) ==
    /\ \A a \in Account : idOf[a] < i
    /\ i = 1 \/ \E a \in Account : idOf[a] = i - 1

MakeAccount ==
    /\ born < MaxAccounts
    /\ born' = born + 1
    /\ \E i \in Account : NextId(i) /\ idOf' = [idOf EXCEPT ![born + 1] = i]

RemoveAccount(a) ==
    /\ idOf' = [idOf EXCEPT ![a] = 0]
    /\ UNCHANGED born

\* A target is found by its id.
Target(c) == {a \in Account : Alive(a) /\ idOf[a] = c.id}

Obey(c) ==
    \/ c.op = "load" /\ UNCHANGED team
    \/ c.op = "add" /\ MakeAccount
    \/ \E a \in Target(c) :
           \/ c.op = "delete" /\ RemoveAccount(a)
           \/ c.op \in {"toggle", "reset"} /\ UNCHANGED team

\* The accounts whose rows are answered with.
AnswerRows(c) ==
    {a \in InTeam(idOf') : \/ c.op = "load"
                           \/ c.op = "add" /\ a = born'
                           \/ c.op = "toggle" /\ idOf'[a] = c.id}

IdCameBack == born' # born /\ idOf'[born'] # born'

ServeManaging(s) ==
    LET c == managing[s] IN
    /\ c.op # "none" /\ c.answer = "none"
    /\ Obey(c)
    /\ \E rows \in Roster(idOf', AnswerRows(c)) : managing' = Answered(s, "ok", rows)
    /\ calm' = IF IdCameBack THEN "disturbed" ELSE calm
    /\ UNCHANGED <<users, usersLoading, adding, rowForms, mishaps>>

\* No such account; an address that is taken, of which the model knows nothing.
Refusable(c) == c.op = "add" \/ (c.op # "load" /\ Target(c) = {})

RefuseManaging(s) ==
    LET c == managing[s] IN
    /\ c.op # "none" /\ c.answer = "none"
    /\ Refusable(c)
    /\ managing' = Answered(s, "refused", << >>)
    /\ UNCHANGED <<users, usersLoading, adding, rowForms, team, calm, mishaps>>

\* The store or the connection fails, before or after the effect.
ManagingFails(s) ==
    LET c == managing[s] IN
    /\ c.op # "none" /\ c.answer = "none"
    /\ Disturb
    /\ UNCHANGED team \/ Obey(c)
    /\ managing' = Answered(s, "refused", << >>)
    /\ UNCHANGED <<users, usersLoading, adding, rowForms>>

\* Another administrator is at work.
OthersManage ==
    /\ Disturb
    /\ MakeAccount \/ \E a \in Account : Alive(a) /\ RemoveAccount(a)
    /\ UNCHANGED <<users, usersLoading, adding, rowForms, managing>>

-----------------------------------------------------------------------------
SettingsNext ==
    \/ CancelDelete \/ Reopen \/ OthersManage
    \/ \E i \in 1 .. Len(users) : LET r == users[i] IN
           \/ AskDelete(r) \/ OpenReset(r) \/ TypePassword(r)
           \/ \E s \in Slot : ToggleAdmin(s, r) \/ RemoveUser(s, r) \/ SubmitReset(s, r)
    \/ \E s \in Slot :
           \/ AddUser(s)
           \/ ReceiveTeam(s) \/ ReceiveAdded(s) \/ ReceiveToggled(s) \/ ReceiveRemoved(s)
           \/ ReceiveReset(s)
           \/ ServeManaging(s) \/ RefuseManaging(s) \/ ManagingFails(s)

SettingsSpec == SettingsInit /\ mishaps = 0 /\ [][SettingsNext]_settingsVars

-----------------------------------------------------------------------------
(* Properties. *)

\* After one thing at a time, and as long as nobody else changes the team, the
\* list is the team: after each answer the screen has patched it right, without
\* loading it again.  With several requests out a row may be missing (a row is
\* pushed onto a list no longer shown), and still no account is listed twice.
ListIsTrue ==
    /\ calm = "calm" /\ ~usersLoading /\ (\A s \in Slot : managing[s] = NoManagement)
           => users \in Roster(idOf, InTeam(idOf))
    /\ calm # "disturbed" =>
           \A i, j \in 1 .. Len(users) : users[i].who = users[j].who => i = j

\* Whatever is sent goes to the account it was meant for: the row the operator
\* pressed a button of, or typed a password under - if that account is still
\* there.  If it is gone, its id may be another's by now.
MeantAccount ==
    \A s \in Slot : LET c == managing[s] IN
        c.answer = "none" /\ c.who # 0 /\ Alive(c.who) => c.id = idOf[c.who]

-----------------------------------------------------------------------------
(* Why they hold. *)

\* The form for new accounts waits for its answer, the list is loaded once.
OneAtATime ==
    /\ \A s, t \in Slot : /\ managing[s].op = "load" /\ managing[t].op = "load" => s = t
                          /\ managing[s].op = "add" /\ managing[t].op = "add" => s = t
    /\ adding <=> \E s \in Slot : managing[s].op = "add"
    /\ usersLoading <=> \E s \in Slot : managing[s].op = "load"

\* Ids tell the accounts apart, and no account has one above its number.
IdsTellApart ==
    /\ \A a, b \in Account : idOf[a] = idOf[b] /\ Alive(a) => a = b
    /\ \A a \in Account : idOf[a] <= a /\ (Alive(a) => a <= born)

RowsOf(list) == {list[i] : i \in 1 .. Len(list)}
OldestFirst(list) == \A i, j \in 1 .. Len(list) : i < j => list[i].who < list[j].who

\* The rows on screen and in the answers that are on their way to it.
InPlay == RowsOf(users) \cup UNION {RowsOf(managing[s].rows) : s \in Slot}

\* An account keeps its id as long as it lives, so a row tells the truth about
\* one that is still there; so do the typed text and a request.
RowsSound ==
    /\ \A r \in InPlay : r.id <= r.who /\ r.who <= born /\ (Alive(r.who) => idOf[r.who] = r.id)
    /\ resetPassword <= born
    /\ resetPassword # 0 /\ resettingId # 0 /\ Alive(resetPassword)
           => idOf[resetPassword] = resettingId
    /\ \A s \in Slot : managing[s].answer = "none" => managing[s].who <= born

AnswersComplete ==
    \A s \in Slot : LET c == managing[s] IN
        /\ c.op \in {"add", "toggle"} /\ c.answer = "ok" => Len(c.rows) = 1
        /\ c.op = "load" => OldestFirst(c.rows)

\* Until somebody else, or an id that came back, interferes, an id means one
\* account in all that is in play, and a row still to be pushed is a new one.
NoneTwice ==
    calm # "disturbed" =>
        /\ \A r, q \in InPlay : r.id = q.id => r.who = q.who
        /\ \A r \in InPlay, a \in Account : idOf[a] = r.id => a = r.who
        /\ \A i, j \in 1 .. Len(users) : users[i].who = users[j].who => i = j
        /\ \A s \in Slot : LET c == managing[s] IN
               c.op = "add" /\ c.answer = "ok" /\ ~c.stale =>
                   \A r \in RowsOf(users) : r.who # c.rows[1].who

TeamRows == {[id |-> idOf[a], who |-> a] : a \in InTeam(idOf)}

\* What the list is while the answer to c is awaited or on its way: one patch
\* short of the team.
OnePatchShort(c) ==
    /\ c.op = "load" => c.answer = "none" \/ (c.answer = "ok" /\ RowsOf(c.rows) = TeamRows)
    /\ c.op # "load" => OldestFirst(users)
    /\ c.op = "add" =>
           /\ ~c.stale
           /\ c.answer # "ok" => RowsOf(users) = TeamRows
           /\ c.answer = "ok" => /\ RowsOf(users) \cup {c.rows[1]} = TeamRows
                                 /\ \A r \in RowsOf(users) : r.who < c.rows[1].who
    /\ c.op = "delete" =>
           /\ c.answer # "ok" => RowsOf(users) = TeamRows
           /\ c.answer = "ok" => {r \in RowsOf(users) : r.id # c.id} = TeamRows
    /\ c.op \in {"none", "toggle", "reset"} => RowsOf(users) = TeamRows
    /\ c.op = "toggle" /\ c.answer = "ok" => c.rows[1] \in TeamRows

\* Calm: one request is out at most, and the list is what it leaves to be done.
OnePatchAtATime ==
    calm = "calm" =>
        \E s \in Slot : /\ OnePatchShort(managing[s])
                        /\ \A t \in Slot : t # s => managing[t] = NoManagement

\* The inductive invariant; ListIsTrue follows from it.
SettingsIInv ==
    /\ SettingsTypeOK /\ OneAtATime /\ IdsTellApart /\ RowsSound /\ MeantAccount
    /\ AnswersComplete /\ NoneTwice /\ OnePatchAtATime

SettingsInv == SettingsIInv /\ ListIsTrue
=============================================================================
