------------------------------ MODULE Console ------------------------------
(***************************************************************************)
(* Who is signed in to the operators' application, and which screen it     *)
(* shows: web/inbox/src/App.vue, views/LoginScreen.vue, SetupScreen.vue,   *)
(* signOut of InboxView.vue, and the part of api.ts that watches for 401.  *)
(*                                                                         *)
(* A step is an event of the operator or of a timer, or an answer with     *)
(* what its await resumes.  The server is requireOperator, handleSetup,    *)
(* handlePasswordLogin and handleLogout, one step each.  The session is in *)
(* the browser's cookie: a request carries the cookie of the moment it is  *)
(* sent, an answer may set it.                                             *)
(*                                                                         *)
(* The application runs in one tab; another tab that signs in as somebody  *)
(* else shares the cookie and is left out.  Passwords are right or wrong,  *)
(* and the notices on the screens are left out.                            *)
(***************************************************************************)
EXTENDS Page

CONSTANTS
    Person,      \* addresses that may have an account
    Nobody

ASSUME NobodyAssumption == Nobody \notin Person

VARIABLES
    ready,
    me,
    setupRequired,  \* what authConfig says; FALSE also when it is not there
    settingsOpen,
    busy,           \* of the sign-in or setup form on screen
    cookie,         \* whose session the browser holds
    accounts,       \* addresses with an account on the server
    asking          \* requests in flight

screen == <<ready, me, setupRequired, settingsOpen, busy>>
consoleVars == <<screen, cookie, accounts, asking, mishaps>>

Operator == Person \cup {Nobody}

\* Requests in flight; the interval's poll has slot 0 to itself.
CallSlot == 0 .. 2
Form == {"login", "setup"}
Awaited == Form \cup {"logout"}

\* Who signs in, or whose cookie the request carries.  A call is stale when the
\* screen that awaits it has gone, and a request also when somebody has signed
\* in, or an account was made again, since it was sent.  "refused" is a 401;
\* "ok" of a request is any other answer; "due" is a start with setup_required.
Call == [op : {"start", "login", "setup", "logout", "request"}, who : Operator,
         stale : BOOLEAN, answer : Answer \cup {"due"}]
NoCall == [op |-> "none", who |-> Nobody, stale |-> FALSE, answer |-> "none"]

ConsoleTypeOK ==
    /\ ready \in BOOLEAN /\ setupRequired \in BOOLEAN /\ settingsOpen \in BOOLEAN
    /\ busy \in BOOLEAN
    /\ me \in Operator /\ cookie \in Operator
    /\ accounts \subseteq Person
    /\ asking \in [CallSlot -> Call \cup {NoCall}]
    /\ mishaps \in Nat

Asked(op, who) == [op |-> op, who |-> who, stale |-> FALSE, answer |-> "none"]

\* App is mounted, with whatever cookie the browser has kept: fetchMe and
\* fetchAuthConfig, awaited together, are one request.
ConsoleInit ==
    /\ ready = FALSE /\ me = Nobody /\ setupRequired = FALSE /\ settingsOpen = FALSE
    /\ busy = FALSE
    /\ cookie \in Operator
    /\ accounts \in SUBSET Person
    /\ asking = [s \in CallSlot |-> IF s = 1 THEN Asked("start", cookie) ELSE NoCall]

-----------------------------------------------------------------------------
(* The screens, as App.vue chooses them. *)

EntryShown(entry) == ready /\ me = Nobody /\ entry = IF setupRequired THEN "setup" ELSE "login"
InboxShown == me # Nobody /\ ~settingsOpen

Mark(calls, ops) ==
    [s \in CallSlot |-> IF calls[s].op \in ops THEN [calls[s] EXCEPT !.stale = TRUE] ELSE calls[s]]
Done(s) == [asking EXCEPT ![s] = NoCall]

FreeCall(s) == s > 0 /\ asking[s] = NoCall /\ \A t \in 1 .. s - 1 : asking[t] # NoCall
Ask(s, op, who) == asking' = [asking EXCEPT ![s] = Asked(op, who)]

\* The interval of the inbox; its next run waits for this one.
Poll ==
    /\ InboxShown
    /\ asking[0] = NoCall
    /\ Ask(0, "request", cookie)
    /\ UNCHANGED <<screen, cookie, accounts, mishaps>>

\* Whatever else the operator's clicks in the inbox or the settings ask for.
Request(s) ==
    /\ me # Nobody
    /\ FreeCall(s)
    /\ Ask(s, "request", cookie)
    /\ UNCHANGED <<screen, cookie, accounts, mishaps>>

\* signOut up to its await; nothing keeps the operator from pressing twice.
SignOut(s) ==
    /\ InboxShown
    /\ FreeCall(s)
    /\ Ask(s, "logout", Nobody)
    /\ UNCHANGED <<screen, cookie, accounts, mishaps>>

\* open-settings and close: the other view is unmounted.
SwitchView ==
    /\ me # Nobody
    /\ settingsOpen' = ~settingsOpen
    /\ asking' = Mark(asking, Awaited)
    /\ UNCHANGED <<ready, me, setupRequired, busy, cookie, accounts, mishaps>>

Enter(s, entry, p) ==
    /\ EntryShown(entry)
    /\ FreeCall(s)
    /\ busy' = TRUE
    /\ Ask(s, entry, p)
    /\ UNCHANGED <<ready, me, setupRequired, settingsOpen, cookie, accounts, mishaps>>

\* Faulty: a second press while the first sign-in is on its way.
Submit_NotBusy(s, entry, p) == Enter(s, entry, p)

\* submit of LoginScreen and of SetupScreen up to its await.  What
\* passwordProblem rejects is not sent.
SubmitForm(s, entry, p) == ~busy /\ Enter(s, entry, p)

-----------------------------------------------------------------------------
(* Answers. *)

\* onMounted of App: without both answers it is the login screen.
ReceiveStart(s) ==
    LET c == asking[s] IN
    /\ c.op = "start" /\ c.answer # "none"
    /\ ready' = TRUE
    /\ me' = IF c.answer = "ok" THEN c.who ELSE Nobody
    /\ setupRequired' = (c.answer = "due")
    /\ asking' = Done(s)
    /\ UNCHANGED <<settingsOpen, busy, cookie, accounts, mishaps>>

\* submit after its await, and signedIn of App.  The browser takes the cookie
\* in any case; the emit of a form that is unmounted is dropped.
ReceiveSignIn(s) ==
    LET c == asking[s] IN
    /\ c.op \in Form /\ c.answer # "none"
    /\ busy' = FALSE
    /\ cookie' = IF c.answer = "ok" THEN c.who ELSE cookie
    /\ \/ /\ c.answer = "ok" /\ ~c.stale
          /\ me' = c.who
          /\ setupRequired' = FALSE
          /\ asking' = Mark(Done(s), Awaited \cup {"request"})
       \/ /\ c.answer # "ok" \/ c.stale
          /\ asking' = Done(s)
          /\ UNCHANGED <<me, setupRequired>>
    /\ UNCHANGED <<ready, settingsOpen, accounts, mishaps>>

\* The view of nobody: signedOut, and the handler of 401.
DropSession(calls) ==
    /\ me' = Nobody
    /\ settingsOpen' = FALSE
    /\ asking' = Mark(calls, Awaited)

\* signOut after its await, whatever the answer was, and signedOut of App,
\* unless the inbox was unmounted meanwhile.
ReceiveLogout(s) ==
    LET c == asking[s] IN
    /\ c.op = "logout" /\ c.answer # "none"
    /\ cookie' = IF c.answer = "ok" THEN Nobody ELSE cookie
    /\ \/ ~c.stale /\ DropSession(Done(s))
       \/ c.stale /\ asking' = Done(s) /\ UNCHANGED <<me, settingsOpen>>
    /\ UNCHANGED <<ready, setupRequired, busy, accounts, mishaps>>

\* Faulty: the polls keep quiet about it.
SessionGone_NotByPoll(s) == s # 0 /\ asking[s].answer = "refused"

SessionGone(s) == asking[s].answer = "refused"

\* request() of api.ts with the handler onUnauthorized: a 401, whatever session
\* it was about, drops back to the login screen.
ReceiveRequest(s) ==
    LET c == asking[s] IN
    /\ c.op = "request" /\ c.answer # "none"
    /\ \/ SessionGone(s) /\ me # Nobody /\ DropSession(Done(s))
       \/ /\ ~SessionGone(s) \/ me = Nobody
          /\ asking' = Done(s)
          /\ UNCHANGED <<me, settingsOpen>>
    /\ UNCHANGED <<ready, setupRequired, busy, cookie, accounts, mishaps>>

ReceiveCall(s) == ReceiveStart(s) \/ ReceiveSignIn(s) \/ ReceiveLogout(s) \/ ReceiveRequest(s)

-----------------------------------------------------------------------------
(* The server. *)

Asks(s, ops) == asking[s].op \in ops /\ asking[s].answer = "none"

Respond(s, answer) == asking' = [asking EXCEPT ![s].answer = answer]

\* handleMe and handleAuthConfig.
ServeStart(s) ==
    /\ Asks(s, {"start"})
    /\ Respond(s, IF asking[s].who \in accounts THEN "ok"
                  ELSE IF accounts = {} THEN "due" ELSE "refused")
    /\ UNCHANGED <<screen, cookie, accounts, mishaps>>

\* Faulty: a wrong current password (users.go 116) is a 401 too.
RequestAnswers_Password(who) == IF who \in accounts THEN {"ok", "refused"} ELSE {"refused"}

\* requireOperator looks the account up on each request; every other error of
\* a handler is another code than 401.
RequestAnswers(who) == IF who \in accounts THEN {"ok"} ELSE {"refused"}

ServeRequest(s) ==
    /\ Asks(s, {"request"})
    /\ \E answer \in RequestAnswers(asking[s].who) : Respond(s, answer)
    /\ UNCHANGED <<screen, cookie, accounts, mishaps>>

\* handlePasswordLogin: a wrong address or password is a 401 as well.
ServeLogin(s) ==
    /\ Asks(s, {"login"})
    /\ \/ asking[s].who \in accounts /\ Respond(s, "ok")
       \/ Respond(s, "refused")
    /\ UNCHANGED <<screen, cookie, accounts, mishaps>>

\* handleSetup: once only, then 403.
ServeSetup(s) ==
    /\ Asks(s, {"setup"})
    /\ \/ /\ accounts = {}
          /\ accounts' = {asking[s].who}
          /\ Respond(s, "ok")
       \/ /\ accounts # {}
          /\ Respond(s, "failed")
          /\ UNCHANGED accounts
    /\ UNCHANGED <<screen, cookie, mishaps>>

ServeLogout(s) ==
    /\ Asks(s, {"logout"})
    /\ Respond(s, "ok")
    /\ UNCHANGED <<screen, cookie, accounts, mishaps>>

ServeCall(s) == ServeStart(s) \/ ServeRequest(s) \/ ServeLogin(s) \/ ServeSetup(s) \/ ServeLogout(s)

\* The server or the network fails, or the answer to a setup is lost.
CallFails(s) ==
    /\ Asks(s, Awaited \cup {"start"})
    /\ Mishap
    /\ Respond(s, "failed")
    /\ \/ UNCHANGED accounts
       \/ /\ asking[s].op = "setup" /\ accounts = {}
          /\ accounts' = {asking[s].who}
    /\ UNCHANGED <<screen, cookie>>

\* The session runs out, or its cookie is removed.
CookieExpires ==
    /\ cookie # Nobody
    /\ Mishap
    /\ cookie' = Nobody
    /\ UNCHANGED <<screen, accounts, asking>>

\* Another browser sets the inbox up, adds an account, or removes one: always
\* some account remains (module Users).
OthersAct(p) ==
    /\ Mishap
    /\ \/ /\ p \notin accounts
          /\ accounts' = accounts \cup {p}
          /\ asking' = Mark(asking, {"request"})
       \/ /\ p \in accounts /\ accounts # {p}
          /\ accounts' = accounts \ {p}
          /\ UNCHANGED asking
    /\ UNCHANGED <<screen, cookie>>

-----------------------------------------------------------------------------
ConsoleNext ==
    \/ Poll \/ SwitchView \/ CookieExpires
    \/ \E s \in CallSlot : \/ Request(s) \/ SignOut(s)
                           \/ \E entry \in Form, p \in Person : SubmitForm(s, entry, p)
                           \/ ReceiveCall(s) \/ ServeCall(s) \/ CallFails(s)
    \/ \E p \in Person : OthersAct(p)

ConsoleSpec == ConsoleInit /\ mishaps = 0 /\ [][ConsoleNext]_consoleVars

\* The interval runs, requests are answered, and awaits resume.
ConsoleFairness ==
    /\ WF_consoleVars(Poll)
    /\ \A s \in CallSlot : WF_consoleVars(ServeCall(s)) /\ WF_consoleVars(ReceiveCall(s))

-----------------------------------------------------------------------------
(* Properties. *)

\* Requests go out as the operator whose name is on the screen, or as nobody:
\* no order of sign-ins, sign-outs and late answers leaves one operator's
\* inbox on screen under the session of another.
OneIdentity == me # Nobody /\ cookie # Nobody => cookie = me

\* "Any request may discover the session is gone" (App.vue 15): a 401 drops the
\* operator to the login screen only when the session is gone - except one
\* that comes late: its request was sent before the operator signed in again,
\* or before the account was made again.
DeadSession == cookie \notin accounts
DroppedBy(s) == me # Nobody /\ me' = Nobody /\ asking[s].answer = "refused" /\ asking'[s] = NoCall
KickedOnlyDead ==
    [][\A s \in CallSlot : DroppedBy(s) => DeadSession \/ asking[s].stale]_consoleVars

\* The inbox of an operator whose session is gone closes by itself.
DeadSessionNoticed ==
    ConsoleFairness => (InboxShown /\ DeadSession) ~> (~InboxShown \/ ~DeadSession)

\* A 401 on its way was right when it was sent, and was about the cookie the
\* browser still has, if it has one.
RefusedRightly ==
    \A s \in CallSlot :
        asking[s].op = "request" /\ ~asking[s].stale =>
            /\ asking[s].answer = "refused" => asking[s].who \notin accounts
            /\ me # Nobody => cookie \in {asking[s].who, Nobody}

\* The start is alone, one form is out at a time and from the screen it was
\* sent from, and a logout that is awaited is the inbox's.
OneForm ==
    \A s \in CallSlot :
        /\ asking[s].op \in Form =>
               busy /\ ready /\ me = Nobody /\ ~asking[s].stale /\ asking[s].who # Nobody
        /\ asking[s].op = "start" => ~ready /\ cookie \in {asking[s].who, Nobody}
        /\ asking[s].op = "logout" => asking[s].answer # "refused" /\ (InboxShown \/ asking[s].stale)
        /\ asking[s].op \in Form \cup {"start"} =>
               \A t \in CallSlot : asking[t].op \in Form \cup {"start"} => t = s
        /\ ~ready => asking[s].op \in {"start", "none"}

\* Nobody gets in before there is an account.
Founded ==
    accounts = {} =>
        /\ me = Nobody
        /\ \A s \in CallSlot : asking[s].op \notin {"request", "logout"} /\ asking[s].answer # "ok"

ConsoleInv ==
    /\ ConsoleTypeOK
    /\ ~ready => me = Nobody
    /\ OneIdentity
    /\ RefusedRightly
    /\ OneForm
    /\ Founded
=============================================================================
