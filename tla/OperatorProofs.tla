---------------------------- MODULE OperatorProofs ----------------------------
(***************************************************************************)
(* The operators' application: ConsoleInv and SettingsIInv are inductive;  *)
(* KickedOnlyDead follows from the one, ListIsTrue from the other.         *)
(*                                                                         *)
(* OneIdentity rests on OneForm: a sign-in that is out was sent from the   *)
(* screen of nobody and is the only one, so that its answer gives the      *)
(* screen and the cookie the same name; a late logout only takes the       *)
(* cookie away.  KickedOnlyDead rests on RefusedRightly: a request that is *)
(* not stale was made for the cookie the browser still has, and the server *)
(* refused it for want of an account.                                      *)
(*                                                                         *)
(* MeantAccount rests on RowsSound: an account keeps its id as long as it  *)
(* lives, so that a row on screen, however old, a text typed under it and  *)
(* a request sent from it never name another account that lives.           *)
(* ListIsTrue rests on OnePatchAtATime: while the screen is calm the list  *)
(* is one patch short of the team, the one that the answer on its way will *)
(* make; and on NoneTwice, which says why a patch by id finds its row.     *)
(***************************************************************************)
EXTENDS Console, Settings, FiniteSetTheorems, TLAPS

-----------------------------------------------------------------------------
(* Who is signed in. *)

LEMMA MishapsStayCounted ==
    ASSUME mishaps \in Nat, Mishap \/ UNCHANGED mishaps
    PROVE  mishaps' \in Nat
BY DEF Mishap

\* A call may only grow stale.
Same(new, old) == new.op = old.op /\ new.who = old.who /\ new.answer = old.answer
Aged(new, old) == Same(new, old) /\ (~new.stale => ~old.stale)
Calls == [CallSlot -> Call \cup {NoCall}]

LEMMA NoCallIs ==
    /\ NoCall.op = "none" /\ NoCall.answer = "none" /\ NoCall.who = Nobody /\ ~NoCall.stale
    /\ \A c \in Call \cup {NoCall} : c.op = "none" <=> c = NoCall
    /\ \A c \in Call \cup {NoCall} : c.who \in Operator /\ c.stale \in BOOLEAN
<1>1. /\ NoCall.op = "none" /\ NoCall.answer = "none" /\ NoCall.who = Nobody /\ ~NoCall.stale
      /\ NoCall.stale \in BOOLEAN /\ Nobody \in Operator
    BY DEF NoCall, Operator
<1>2. \A c \in Call : c.op # "none" /\ c.who \in Operator /\ c.stale \in BOOLEAN
    BY DEF Call
<1> QED BY <1>1, <1>2

LEMMA DoneIs ==
    ASSUME asking \in Calls, NEW s \in CallSlot
    PROVE  /\ Done(s) \in Calls
           /\ Done(s)[s] = NoCall
           /\ \A t \in CallSlot : t # s => Done(s)[t] = asking[t]
BY DEF Done, Calls

LEMMA MarkIs ==
    ASSUME NEW calls \in Calls, NEW ops, "none" \notin ops
    PROVE  /\ Mark(calls, ops) \in Calls
           /\ \A t \in CallSlot : /\ Aged(Mark(calls, ops)[t], calls[t])
                                  /\ calls[t].op \notin ops => Mark(calls, ops)[t] = calls[t]
                                  /\ calls[t].op \in ops => Mark(calls, ops)[t].stale
<1>1. ASSUME NEW t \in CallSlot
      PROVE  /\ Mark(calls, ops)[t] \in Call \cup {NoCall}
             /\ Aged(Mark(calls, ops)[t], calls[t])
             /\ calls[t].op \notin ops => Mark(calls, ops)[t] = calls[t]
             /\ calls[t].op \in ops => Mark(calls, ops)[t].stale
    <2>1. CASE calls[t].op \in ops
        <3>1. calls[t] \in Call
            BY <2>1, NoCallIs DEF Calls
        <3> DEFINE r == [calls[t] EXCEPT !.stale = TRUE]
        <3>2. r \in Call /\ Same(r, calls[t]) /\ r.stale
            BY <3>1 DEF Call, Same
        <3>3. Mark(calls, ops)[t] = r
            BY <2>1 DEF Mark
        <3> QED BY <2>1, <3>2, <3>3 DEF Aged
    <2>2. CASE calls[t].op \notin ops
        BY <2>2 DEF Mark, Aged, Same, Calls
    <2> QED BY <2>1, <2>2
<1>2. Mark(calls, ops) = [t \in CallSlot |-> Mark(calls, ops)[t]]
    BY DEF Mark
<1> QED BY <1>1, <1>2 DEF Calls

LEMMA AskIs ==
    ASSUME asking \in Calls, NEW s \in CallSlot, NEW who \in Operator,
           NEW op \in {"start", "login", "setup", "logout", "request"}, Ask(s, op, who)
    PROVE  /\ asking' \in Calls
           /\ asking'[s].op = op /\ asking'[s].who = who /\ asking'[s].answer = "none"
           /\ ~asking'[s].stale /\ asking'[s] # NoCall
           /\ \A t \in CallSlot : t # s => asking'[t] = asking[t]
<1> DEFINE c == Asked(op, who)
<1>1. c \in Call /\ c.op = op /\ c.who = who /\ c.answer = "none" /\ ~c.stale
    BY DEF Asked, Call, Answer
<1>2. asking' = [asking EXCEPT ![s] = c]
    BY DEF Ask
<1> HIDE DEF c
<1> QED BY <1>1, <1>2, NoCallIs DEF Calls

LEMMA RespondIs ==
    ASSUME asking \in Calls, NEW s \in CallSlot, asking[s].op # "none",
           NEW answer \in {"ok", "refused", "failed", "due"}, Respond(s, answer)
    PROVE  /\ asking' \in Calls
           /\ asking'[s].op = asking[s].op /\ asking'[s].who = asking[s].who
           /\ asking'[s].stale = asking[s].stale /\ asking'[s].answer = answer
           /\ \A t \in CallSlot : t # s => asking'[t] = asking[t]
<1> DEFINE c == [asking[s] EXCEPT !.answer = answer]
<1>1. asking[s] \in Call
    BY NoCallIs DEF Calls
<1>2. c \in Call /\ c.op = asking[s].op /\ c.who = asking[s].who /\ c.stale = asking[s].stale /\ c.answer = answer
    BY <1>1 DEF Call, Answer
<1>3. asking' = [asking EXCEPT ![s] = c]
    BY DEF Respond
<1> HIDE DEF c
<1> QED BY <1>2, <1>3 DEF Calls

LEMMA ConsoleStart == ConsoleInit /\ mishaps = 0 => ConsoleInv
<1> SUFFICES ASSUME ConsoleInit, mishaps = 0 PROVE ConsoleInv
    OBVIOUS
<1> USE DEF ConsoleInit
<1>1. /\ asking \in Calls
      /\ asking[1].op = "start" /\ asking[1].who = cookie /\ asking[1].answer = "none"
      /\ \A t \in CallSlot : t # 1 => asking[t] = NoCall
    <2> DEFINE c == Asked("start", cookie)
    <2>1. c \in Call /\ c.op = "start" /\ c.who = cookie /\ c.answer = "none"
        BY DEF Asked, Call, Answer
    <2>2. asking = [s \in CallSlot |-> IF s = 1 THEN c ELSE NoCall]
        OBVIOUS
    <2> HIDE DEF c
    <2> QED BY <2>1, <2>2 DEF Calls, CallSlot
<1>2. ConsoleTypeOK
    BY <1>1 DEF ConsoleTypeOK, Calls, Operator
<1>3. OneIdentity
    BY DEF OneIdentity
<1>4. RefusedRightly
    BY <1>1, NoCallIs DEF RefusedRightly
<1>5. OneForm
    BY <1>1, NoCallIs DEF OneForm, Form
<1>6. Founded
    BY <1>1, NoCallIs DEF Founded
<1> QED BY <1>2, <1>3, <1>4, <1>5, <1>6 DEF ConsoleInv

\* Somebody on the screen has started, and there are accounts.
LEMMA SomebodyIs ==
    ASSUME ConsoleInv, me # Nobody
    PROVE  ready /\ accounts # {} /\ \A s \in CallSlot : asking[s].op \notin Form \cup {"start"}
BY DEF ConsoleInv, Founded, OneForm, Form

LEMMA AskingKeeps ==
    ASSUME ConsoleInv, NEW s \in CallSlot, Poll \/ Request(s) \/ SignOut(s)
    PROVE  ConsoleInv'
<1> USE DEF ConsoleInv
<1>1. UNCHANGED <<ready, me, setupRequired, settingsOpen, busy, cookie, accounts, mishaps>>
    BY DEF Poll, Request, SignOut, screen
<1>2. asking \in Calls /\ Nobody \in Operator /\ cookie \in Operator /\ 0 \in CallSlot
    BY DEF ConsoleTypeOK, Calls, Operator, CallSlot
<1>3. me # Nobody
    BY DEF Poll, Request, SignOut, InboxShown
<1>4. PICK i \in CallSlot :
          /\ asking[i] = NoCall
          /\ \/ Ask(i, "request", cookie)
             \/ Ask(i, "logout", Nobody) /\ InboxShown
    BY <1>2 DEF Poll, Request, SignOut, FreeCall
<1>5. /\ asking' \in Calls
      /\ \/ asking'[i].op = "request" /\ asking'[i].who = cookie
         \/ asking'[i].op = "logout" /\ InboxShown
      /\ asking'[i].answer = "none" /\ ~asking'[i].stale
      /\ \A t \in CallSlot : t # i => asking'[t] = asking[t]
    <2>1. CASE Ask(i, "request", cookie)
        BY <1>2, <2>1, AskIs
    <2>2. CASE Ask(i, "logout", Nobody) /\ InboxShown
        BY <1>2, <2>2, AskIs
    <2> QED BY <1>4, <2>1, <2>2
<1>6. ConsoleTypeOK'
    BY <1>1, <1>5 DEF ConsoleTypeOK, Calls
<1>7. OneIdentity' /\ (~ready' => me' = Nobody)
    BY <1>1 DEF OneIdentity
<1>8. RefusedRightly'
    BY <1>1, <1>5 DEF RefusedRightly
<1>9. OneForm'
    BY <1>1, <1>3, <1>5, SomebodyIs DEF OneForm, Form, InboxShown
<1>10. Founded'
    BY <1>1, <1>3, SomebodyIs DEF Founded
<1> QED BY <1>6, <1>7, <1>8, <1>9, <1>10

LEMMA SubmitFormKeeps ==
    ASSUME ConsoleInv, NEW s \in CallSlot, NEW entry \in Form, NEW p \in Person, SubmitForm(s, entry, p)
    PROVE  ConsoleInv'
<1> USE DEF ConsoleInv, SubmitForm, Enter
<1>1. UNCHANGED <<ready, me, setupRequired, settingsOpen, cookie, accounts, mishaps>> /\ busy' = TRUE
    OBVIOUS
<1>2. ready /\ me = Nobody /\ ~busy /\ p \in Operator /\ p # Nobody
    BY NobodyAssumption DEF EntryShown, Operator
<1>3. /\ asking' \in Calls
      /\ asking'[s].op = entry /\ asking'[s].who = p /\ asking'[s].answer = "none" /\ ~asking'[s].stale
      /\ \A t \in CallSlot : t # s => asking'[t] = asking[t]
    BY <1>2, AskIs DEF Form, ConsoleTypeOK, Calls
<1>4. \A t \in CallSlot : asking[t].op \notin Form \cup {"start"}
    BY <1>2 DEF OneForm
<1>5. ConsoleTypeOK'
    BY <1>1, <1>3 DEF ConsoleTypeOK, Calls
<1>6. OneIdentity' /\ (~ready' => me' = Nobody)
    BY <1>1 DEF OneIdentity
<1>7. RefusedRightly'
    BY <1>1, <1>3 DEF RefusedRightly, Form
<1>8. OneForm'
    BY <1>1, <1>2, <1>3, <1>4 DEF OneForm, Form, InboxShown
<1>9. Founded'
    BY <1>1, <1>3 DEF Founded, Form
<1> QED BY <1>5, <1>6, <1>7, <1>8, <1>9

LEMMA SwitchViewKeeps ==
    ASSUME ConsoleInv, SwitchView
    PROVE  ConsoleInv'
<1> USE DEF ConsoleInv, SwitchView
<1>1. me # Nobody /\ UNCHANGED <<ready, me, setupRequired, busy, cookie, accounts, mishaps>>
    OBVIOUS
<1>2. settingsOpen' \in BOOLEAN
    BY Zenon
<1>3. /\ asking' \in Calls
      /\ \A t \in CallSlot : /\ Aged(asking'[t], asking[t])
                             /\ asking[t].op \in Awaited => asking'[t].stale
    BY MarkIs DEF ConsoleTypeOK, Calls, Awaited, Form
<1>4. ConsoleTypeOK'
    BY <1>1, <1>2, <1>3 DEF ConsoleTypeOK, Calls
<1>5. OneIdentity' /\ (~ready' => me' = Nobody)
    BY <1>1 DEF OneIdentity
<1>6. RefusedRightly'
    BY <1>1, <1>3 DEF RefusedRightly, Aged, Same
<1>7. OneForm'
    BY <1>1, <1>3, SomebodyIs DEF OneForm, Form, Awaited, Aged, Same
<1>8. Founded'
    BY <1>1, SomebodyIs DEF Founded
<1> QED BY <1>4, <1>5, <1>6, <1>7, <1>8

LEMMA ReceiveStartKeeps ==
    ASSUME ConsoleInv, NEW s \in CallSlot, ReceiveStart(s)
    PROVE  ConsoleInv'
<1> USE DEF ConsoleInv, ReceiveStart
<1>1. /\ asking[s].op = "start" /\ ready' = TRUE
      /\ me' = IF asking[s].answer = "ok" THEN asking[s].who ELSE Nobody
      /\ UNCHANGED <<settingsOpen, busy, cookie, accounts, mishaps>>
    OBVIOUS
<1>2. ~ready /\ cookie \in {asking[s].who, Nobody}
    BY <1>1 DEF OneForm
<1>3. \A t \in CallSlot : t # s => asking[t].op = "none"
    BY <1>1, <1>2 DEF OneForm, Form
<1>4. asking' \in Calls /\ \A t \in CallSlot : asking'[t] = NoCall
    <2>1. asking' = Done(s) /\ asking \in Calls
        BY DEF ConsoleTypeOK, Calls
    <2>2. \A t \in CallSlot : t # s => asking[t] = NoCall
        BY <1>3, NoCallIs DEF ConsoleTypeOK
    <2> QED BY <2>1, <2>2, DoneIs
<1>5. ConsoleTypeOK'
    <2>1. me' \in Operator
        BY <1>1, NoCallIs DEF ConsoleTypeOK, Operator
    <2>2. setupRequired' \in BOOLEAN
        OBVIOUS
    <2> QED BY <1>1, <1>4, <2>1, <2>2 DEF ConsoleTypeOK, Calls
<1>6. OneIdentity' /\ (~ready' => me' = Nobody)
    BY <1>1, <1>2 DEF OneIdentity
<1>7. RefusedRightly' /\ OneForm'
    BY <1>4, NoCallIs DEF RefusedRightly, OneForm, Form
<1>8. Founded'
    BY <1>1, <1>4, NoCallIs DEF Founded
<1> QED BY <1>5, <1>6, <1>7, <1>8

\* A form that is answered was sent from the screen that is still there.
LEMMA ReceiveSignInKeeps ==
    ASSUME ConsoleInv, NEW s \in CallSlot, ReceiveSignIn(s)
    PROVE  ConsoleInv'
<1> USE DEF ConsoleInv
<1>1. /\ asking[s].op \in Form /\ asking[s].answer # "none" /\ busy' = FALSE
      /\ cookie' = IF asking[s].answer = "ok" THEN asking[s].who ELSE cookie
      /\ UNCHANGED <<ready, settingsOpen, accounts, mishaps>>
    BY DEF ReceiveSignIn
<1>2. busy /\ ready /\ me = Nobody /\ ~asking[s].stale /\ asking[s].who # Nobody
    BY <1>1 DEF OneForm
<1>3. \A t \in CallSlot : t # s => asking[t].op \notin Form \cup {"start"}
    BY <1>1 DEF OneForm
<1>4. asking \in Calls /\ asking[s].who \in Operator
    BY NoCallIs DEF ConsoleTypeOK, Calls
<1>5. CASE asking[s].answer = "ok"
    <2>1. /\ me' = asking[s].who /\ setupRequired' = FALSE
          /\ asking' = Mark(Done(s), Awaited \cup {"request"})
        BY <1>2, <1>5 DEF ReceiveSignIn
    <2>2. Done(s) \in Calls /\ Done(s)[s] = NoCall /\ \A t \in CallSlot : t # s => Done(s)[t] = asking[t]
        BY <1>4, DoneIs
    <2>3. /\ asking' \in Calls
          /\ \A t \in CallSlot : /\ Aged(asking'[t], Done(s)[t])
                                 /\ Done(s)[t].op \in Awaited \cup {"request"} => asking'[t].stale
        BY <2>1, <2>2, MarkIs DEF Awaited, Form
    <2>4. \A t \in CallSlot : asking'[t].op \notin Form \cup {"start"}
        BY <1>3, <2>2, <2>3, NoCallIs DEF Aged, Same, Form
    <2>5. accounts # {}
        BY <1>5 DEF Founded
    <2>6. ConsoleTypeOK'
        BY <1>1, <1>4, <1>5, <2>1, <2>3 DEF ConsoleTypeOK, Calls
    <2>7. OneIdentity' /\ (~ready' => me' = Nobody)
        BY <1>1, <1>2, <1>5, <2>1 DEF OneIdentity
    <2>8. RefusedRightly'
        BY <2>3 DEF RefusedRightly, Aged, Same
    <2>9. OneForm'
        <3>1. ASSUME NEW t \in CallSlot, asking'[t].op = "logout"
              PROVE  asking'[t].answer # "refused" /\ asking'[t].stale
            <4>1. t # s /\ asking[t].op = "logout" /\ asking'[t].answer = asking[t].answer
                BY <2>2, <2>3, <3>1, NoCallIs DEF Aged, Same
            <4> QED BY <2>2, <2>3, <4>1 DEF OneForm, Awaited
        <3> QED BY <1>1, <1>2, <2>4, <3>1 DEF OneForm
    <2>10. Founded'
        BY <1>1, <2>5 DEF Founded
    <2> QED BY <2>6, <2>7, <2>8, <2>9, <2>10
<1>6. CASE asking[s].answer # "ok"
    <2>1. UNCHANGED <<me, setupRequired, cookie>> /\ asking' = Done(s)
        BY <1>1, <1>6 DEF ReceiveSignIn
    <2>2. asking' \in Calls /\ asking'[s] = NoCall /\ \A t \in CallSlot : t # s => asking'[t] = asking[t]
        BY <1>4, <2>1, DoneIs
    <2>3. ConsoleTypeOK'
        BY <1>1, <2>1, <2>2 DEF ConsoleTypeOK, Calls
    <2>4. OneIdentity' /\ (~ready' => me' = Nobody)
        BY <1>1, <2>1 DEF OneIdentity
    <2>5. RefusedRightly'
        BY <1>1, <2>1, <2>2, NoCallIs DEF RefusedRightly
    <2>6. OneForm'
        BY <1>1, <1>2, <1>3, <2>1, <2>2, NoCallIs DEF OneForm, InboxShown, Form
    <2>7. Founded'
        BY <1>1, <2>1, <2>2, NoCallIs DEF Founded
    <2> QED BY <2>3, <2>4, <2>5, <2>6, <2>7
<1> QED BY <1>5, <1>6

\* Nobody's view, from somebody's: every logout is then nobody's to wait for.
LEMMA DropKeeps ==
    ASSUME ConsoleInv, NEW s \in CallSlot, me # Nobody, DropSession(Done(s)),
           cookie' \in {cookie, Nobody}, UNCHANGED <<ready, setupRequired, busy, accounts, mishaps>>
    PROVE  ConsoleInv'
<1> USE DEF ConsoleInv
<1>1. me' = Nobody /\ settingsOpen' = FALSE /\ asking' = Mark(Done(s), Awaited)
    BY DEF DropSession
<1>2. /\ Done(s) \in Calls /\ Done(s)[s] = NoCall
      /\ \A t \in CallSlot : t # s => Done(s)[t] = asking[t]
    BY DoneIs DEF ConsoleTypeOK, Calls
<1>3. /\ asking' \in Calls
      /\ \A t \in CallSlot : /\ Aged(asking'[t], Done(s)[t])
                             /\ Done(s)[t].op \in Awaited => asking'[t].stale
    BY <1>1, <1>2, MarkIs DEF Awaited, Form
<1>4. \A t \in CallSlot : asking'[t].op \notin Form \cup {"start"}
    BY <1>2, <1>3, SomebodyIs, NoCallIs DEF Aged, Same, Form
<1>5. ConsoleTypeOK'
    BY <1>1, <1>3 DEF ConsoleTypeOK, Calls, Operator
<1>6. OneIdentity' /\ (~ready' => me' = Nobody)
    BY <1>1 DEF OneIdentity
<1>7. RefusedRightly'
    <2>1. ASSUME NEW t \in CallSlot, asking'[t].op = "request", ~asking'[t].stale,
                 asking'[t].answer = "refused"
          PROVE  asking'[t].who \notin accounts
        <3>1. t # s /\ Aged(asking'[t], asking[t])
            BY <1>2, <1>3, <2>1, NoCallIs DEF Aged, Same
        <3> QED BY <2>1, <3>1 DEF RefusedRightly, Aged, Same
    <2> QED BY <1>1, <2>1 DEF RefusedRightly
<1>8. OneForm'
    <2>1. ASSUME NEW t \in CallSlot, asking'[t].op = "logout"
          PROVE  asking'[t].answer # "refused" /\ asking'[t].stale
        <3>1. t # s /\ asking[t].op = "logout" /\ asking'[t].answer = asking[t].answer
            BY <1>2, <1>3, <2>1, NoCallIs DEF Aged, Same
        <3> QED BY <1>2, <1>3, <3>1 DEF OneForm, Awaited
    <2> QED BY <1>4, <2>1, SomebodyIs DEF OneForm
<1>9. Founded'
    BY SomebodyIs DEF Founded
<1> QED BY <1>5, <1>6, <1>7, <1>8, <1>9

\* An answer that changes nothing on the screen.
LEMMA DoneKeeps ==
    ASSUME ConsoleInv, NEW s \in CallSlot, asking' = Done(s), cookie' \in {cookie, Nobody},
           UNCHANGED <<ready, me, setupRequired, settingsOpen, busy, accounts, mishaps>>
    PROVE  ConsoleInv'
<1> USE DEF ConsoleInv
<1>1. asking' \in Calls /\ asking'[s] = NoCall /\ \A t \in CallSlot : t # s => asking'[t] = asking[t]
    BY DoneIs DEF ConsoleTypeOK, Calls
<1>2. ConsoleTypeOK'
    BY <1>1 DEF ConsoleTypeOK, Calls, Operator
<1>3. OneIdentity' /\ (~ready' => me' = Nobody)
    BY DEF OneIdentity
<1>4. RefusedRightly'
    BY <1>1, NoCallIs DEF RefusedRightly
<1>5. OneForm'
    BY <1>1, NoCallIs DEF OneForm, InboxShown, Form
<1>6. Founded'
    BY <1>1, NoCallIs DEF Founded
<1> QED BY <1>2, <1>3, <1>4, <1>5, <1>6

LEMMA ReceiveLogoutKeeps ==
    ASSUME ConsoleInv, NEW s \in CallSlot, ReceiveLogout(s)
    PROVE  ConsoleInv'
<1>1. /\ asking[s].op = "logout" /\ cookie' \in {cookie, Nobody}
      /\ UNCHANGED <<ready, setupRequired, busy, accounts, mishaps>>
    BY DEF ReceiveLogout
<1>2. CASE asking[s].stale
    BY <1>1, <1>2, DoneKeeps DEF ReceiveLogout
<1>3. CASE ~asking[s].stale
    <2>1. me # Nobody
        BY <1>1, <1>3 DEF ConsoleInv, OneForm, InboxShown
    <2> QED BY <1>1, <1>3, <2>1, DropKeeps DEF ReceiveLogout
<1> QED BY <1>2, <1>3

LEMMA ReceiveRequestKeeps ==
    ASSUME ConsoleInv, NEW s \in CallSlot, ReceiveRequest(s)
    PROVE  ConsoleInv'
BY DropKeeps, DoneKeeps DEF ReceiveRequest

\* What the server answers, and the account that a setup makes.
LEMMA ServeKeeps ==
    ASSUME ConsoleInv, NEW s \in CallSlot, ServeCall(s) \/ CallFails(s)
    PROVE  ConsoleInv'
<1> DEFINE c == asking[s]
<1> USE DEF ConsoleInv
<1>1. c.answer = "none" /\ UNCHANGED <<ready, me, setupRequired, settingsOpen, busy, cookie>>
    BY DEF ServeCall, ServeStart, ServeRequest, ServeLogin, ServeSetup, ServeLogout, CallFails, Asks, screen
<1>2. PICK a \in {"ok", "refused", "failed", "due"} :
          /\ Respond(s, a)
          /\ c.op \in {"start", "login", "setup", "logout", "request"}
          /\ c.op = "request" => (a = "refused" <=> c.who \notin accounts)
          /\ c.op = "logout" => a # "refused"
          /\ a = "ok" => c.op = "logout" \/ c.who \in accounts \/ c.op = "setup"
          /\ \/ UNCHANGED accounts /\ (a = "ok" => c.op # "setup")
             \/ c.op = "setup" /\ accounts = {} /\ accounts' = {c.who}
    <2>1. CASE ServeStart(s)
        BY <2>1 DEF ServeStart, Asks
    <2>2. CASE ServeRequest(s)
        BY <2>2 DEF ServeRequest, Asks, RequestAnswers
    <2>3. CASE ServeLogin(s)
        BY <2>3 DEF ServeLogin, Asks
    <2>4. CASE ServeSetup(s)
        BY <2>4 DEF ServeSetup, Asks
    <2>5. CASE ServeLogout(s)
        BY <2>5 DEF ServeLogout, Asks
    <2>6. CASE CallFails(s)
        BY <2>6 DEF CallFails, Asks, Awaited, Form
    <2> QED BY <2>1, <2>2, <2>3, <2>4, <2>5, <2>6 DEF ServeCall
<1>3. /\ asking' \in Calls
      /\ asking'[s].op = c.op /\ asking'[s].who = c.who
      /\ asking'[s].stale = c.stale /\ asking'[s].answer = a
      /\ \A t \in CallSlot : t # s => asking'[t] = asking[t]
    BY <1>2, RespondIs DEF ConsoleTypeOK, Calls
<1>4. c.op = "setup" => me = Nobody /\ c.who \in Person
    BY NoCallIs DEF OneForm, Form, ConsoleTypeOK, Operator
<1>5. ConsoleTypeOK'
    <2>1. mishaps' \in Nat
        BY MishapsStayCounted
           DEF ConsoleTypeOK, ServeCall, ServeStart, ServeRequest, ServeLogin, ServeSetup, ServeLogout, CallFails
    <2>2. accounts' \subseteq Person
        BY <1>2, <1>4 DEF ConsoleTypeOK
    <2> QED BY <1>1, <1>3, <2>1, <2>2 DEF ConsoleTypeOK, Calls
<1>6. OneIdentity' /\ (~ready' => me' = Nobody)
    BY <1>1 DEF OneIdentity
<1>7. RefusedRightly'
    <2>1. CASE UNCHANGED accounts
        BY <1>1, <1>2, <1>3, <2>1 DEF RefusedRightly
    <2>2. CASE c.op = "setup" /\ accounts = {}
        BY <1>3, <2>2 DEF RefusedRightly, Founded
    <2> QED BY <1>2, <2>1, <2>2
<1>8. OneForm'
    BY <1>1, <1>2, <1>3 DEF OneForm, InboxShown
<1>9. Founded'
    BY <1>1, <1>2, <1>3 DEF Founded
<1> QED BY <1>5, <1>6, <1>7, <1>8, <1>9

LEMMA CookieExpiresKeeps ==
    ASSUME ConsoleInv, CookieExpires
    PROVE  ConsoleInv'
<1> USE DEF ConsoleInv, CookieExpires, screen
<1>1. ConsoleTypeOK'
    BY MishapsStayCounted DEF ConsoleTypeOK, Operator
<1>2. OneIdentity' /\ RefusedRightly' /\ (~ready' => me' = Nobody)
    BY DEF OneIdentity, RefusedRightly
<1>3. OneForm' /\ Founded'
    BY DEF OneForm, Founded, InboxShown
<1> QED BY <1>1, <1>2, <1>3

LEMMA OthersActKeeps ==
    ASSUME ConsoleInv, NEW p \in Person, OthersAct(p)
    PROVE  ConsoleInv'
<1> USE DEF ConsoleInv
<1>1. UNCHANGED <<ready, me, setupRequired, settingsOpen, busy, cookie>> /\ mishaps' \in Nat
    BY MishapsStayCounted DEF OthersAct, screen, ConsoleTypeOK
<1>2. /\ asking' \in Calls
      /\ \A t \in CallSlot : /\ Aged(asking'[t], asking[t])
                             /\ asking[t].op # "request" => asking'[t] = asking[t]
      /\ \/ /\ \A t \in CallSlot : asking[t].op = "request" => asking'[t].stale
            /\ accounts' = accounts \cup {p}
         \/ accounts' = accounts \ {p} /\ accounts' # {}
    <2>1. CASE accounts' = accounts \cup {p} /\ asking' = Mark(asking, {"request"})
        BY <2>1, MarkIs DEF ConsoleTypeOK, Calls
    <2>2. CASE p \in accounts /\ accounts # {p} /\ accounts' = accounts \ {p} /\ UNCHANGED asking
        BY <2>2 DEF ConsoleTypeOK, Calls, Aged, Same
    <2> QED BY <2>1, <2>2 DEF OthersAct
<1>3. ConsoleTypeOK'
    BY <1>1, <1>2 DEF ConsoleTypeOK, Calls
<1>4. OneIdentity' /\ (~ready' => me' = Nobody)
    BY <1>1 DEF OneIdentity
<1>5. RefusedRightly'
    BY <1>1, <1>2 DEF RefusedRightly, Aged, Same
<1>6. OneForm'
    BY <1>1, <1>2 DEF OneForm, InboxShown, Form, Aged, Same
<1>7. Founded'
    BY <1>1, <1>2 DEF Founded
<1> QED BY <1>3, <1>4, <1>5, <1>6, <1>7

\* What happens elsewhere is at most a mishap here.
LEMMA ConsoleIdles ==
    ASSUME ConsoleInv, mishaps' \in Nat, UNCHANGED <<screen, cookie, accounts, asking>>
    PROVE  ConsoleInv'
BY DEF ConsoleInv, screen, ConsoleTypeOK, OneIdentity, RefusedRightly, OneForm, Founded, InboxShown

LEMMA ConsoleInductive == ConsoleInv /\ [ConsoleNext]_consoleVars => ConsoleInv'
<1> SUFFICES ASSUME ConsoleInv, [ConsoleNext]_consoleVars PROVE ConsoleInv'
    OBVIOUS
<1>1. CASE ConsoleNext
    <2>1. 0 \in CallSlot
        BY DEF CallSlot
    <2> QED BY <1>1, <2>1, AskingKeeps, SubmitFormKeeps, SwitchViewKeeps, ReceiveStartKeeps,
               ReceiveSignInKeeps, ReceiveLogoutKeeps, ReceiveRequestKeeps, ServeKeeps,
               CookieExpiresKeeps, OthersActKeeps
            DEF ConsoleNext, ReceiveCall
<1>2. CASE UNCHANGED consoleVars
    <2>1. mishaps' \in Nat
        BY <1>2 DEF consoleVars, ConsoleInv, ConsoleTypeOK
    <2> QED BY <1>2, <2>1, ConsoleIdles DEF consoleVars
<1> QED BY <1>1, <1>2

\* The invariant of the application, for any number of operators.
THEOREM ConsoleInvariance == ConsoleSpec => []ConsoleInv
<1>1. ConsoleInv /\ [ConsoleNext]_consoleVars => ConsoleInv'
    BY ConsoleInductive
<1> QED BY <1>1, ConsoleStart, PTL DEF ConsoleSpec

\* The name on the screen is the one requests go out as (App.vue 35-46).
THEOREM IdentityIsOne == ConsoleSpec => []OneIdentity
<1>1. ConsoleInv => OneIdentity
    BY DEF ConsoleInv
<1> QED BY <1>1, ConsoleInvariance, PTL

\* Only a dead session, or an answer that comes late, ends the view of an
\* operator (App.vue 15-21).
THEOREM KicksOnlyDead == ConsoleSpec => KickedOnlyDead
<1> DEFINE Kick == \A s \in CallSlot : DroppedBy(s) => DeadSession \/ asking[s].stale
<1>1. ConsoleInv /\ [ConsoleNext]_consoleVars => Kick
    <2> SUFFICES ASSUME ConsoleInv, [ConsoleNext]_consoleVars, NEW s \in CallSlot, DroppedBy(s),
                        ~asking[s].stale
                 PROVE  DeadSession
        OBVIOUS
    <2>1. me # Nobody /\ asking[s].answer = "refused" /\ asking[s] # NoCall
        BY NoCallIs DEF DroppedBy
    <2>2. asking[s].op = "request"
        BY <2>1, SomebodyIs, NoCallIs DEF ConsoleInv, ConsoleTypeOK, OneForm, Form, Call
    <2>3. asking[s].who \notin accounts /\ cookie \in {asking[s].who, Nobody}
        BY <2>1, <2>2 DEF ConsoleInv, RefusedRightly
    <2>4. Nobody \notin accounts
        BY NobodyAssumption DEF ConsoleInv, ConsoleTypeOK
    <2> QED BY <2>3, <2>4 DEF DeadSession
<1>2. ConsoleInv /\ [ConsoleNext]_consoleVars => [Kick]_consoleVars
    BY <1>1
<1> QED BY <1>2, ConsoleInvariance, PTL DEF ConsoleSpec, KickedOnlyDead

-----------------------------------------------------------------------------
(* The team. *)

-----------------------------------------------------------------------------
(* Lists in order. *)

LEMMA AscendingIs ==
    ASSUME NEW numbers \in SUBSET Int, IsFiniteSet(numbers), NEW list \in Ascending(numbers)
    PROVE  /\ list \in Seq(numbers) /\ DOMAIN list = 1 .. Len(list)
           /\ \A i, j \in 1 .. Len(list) : i < j => list[i] < list[j]
           /\ \A n \in numbers : \E i \in 1 .. Len(list) : list[i] = n
<1>1. Cardinality(numbers) \in Nat
    BY FS_CardinalityType
<1>2. list \in [1 .. Cardinality(numbers) -> numbers]
    BY DEF Ascending
<1>3. list \in Seq(numbers) /\ DOMAIN list = 1 .. Len(list)
    BY <1>1, <1>2
<1> QED BY <1>3 DEF Ascending

LEMMA AscendingMade ==
    ASSUME NEW numbers \in SUBSET Int, NEW n \in Nat, NEW list \in [1 .. n -> numbers],
           \A i, j \in 1 .. n : i < j => list[i] < list[j],
           \A k \in numbers : \E i \in 1 .. n : list[i] = k
    PROVE  list \in Ascending(numbers)
<1>1. \A i, j \in 1 .. n : list[i] = list[j] => i = j
    <2> SUFFICES ASSUME NEW i \in 1 .. n, NEW j \in 1 .. n, list[i] = list[j] PROVE i = j
        OBVIOUS
    <2>1. list[i] \in Int /\ list[j] \in Int
        OBVIOUS
    <2>2. ~(i < j) /\ ~(j < i)
        BY <2>1
    <2> QED BY <2>2
<1>2. list \in Bijection(1 .. n, numbers)
    BY <1>1 DEF Bijection, Injection, Surjection, IsInjective
<1>3. Cardinality(numbers) = n
    BY <1>2, FS_CountingElements DEF ExistsBijection
<1> QED BY <1>3 DEF Ascending

LEMMA SomeFinite ==
    ASSUME NEW n \in Nat, NEW numbers \in SUBSET (1 .. n)
    PROVE  numbers \in SUBSET Int /\ IsFiniteSet(numbers)
<1>1. IsFiniteSet(1 .. n)
    BY FS_Interval
<1>2. IsFiniteSet(numbers)
    BY <1>1, FS_Subset
<1>3. numbers \in SUBSET Int
    OBVIOUS
<1> QED BY <1>2, <1>3

RowIn(ids, a) == [id |-> ids[a], who |-> a]
RowsIn(ids, asked) == {RowIn(ids, a) : a \in asked}
IdTable == [Account -> RowId]

LEMMA RosterIs ==
    ASSUME NEW ids \in IdTable, NEW asked \in SUBSET InTeam(ids), NEW list \in Roster(ids, asked)
    PROVE  /\ list \in Seq(Row) /\ OldestFirst(list) /\ RowsOf(list) = RowsIn(ids, asked)
<1>1. PICK oldest \in Ascending(asked) : list = [i \in DOMAIN oldest |-> RowIn(ids, oldest[i])]
    BY DEF Roster, RowIn
<1>2. MaxAccounts \in Nat /\ asked \in SUBSET Account
    BY TeamBound DEF InTeam
<1>3. asked \in SUBSET Int /\ IsFiniteSet(asked)
    BY <1>2, SomeFinite DEF Account
<1>4. /\ oldest \in Seq(asked) /\ DOMAIN oldest = 1 .. Len(oldest)
      /\ \A i, j \in 1 .. Len(oldest) : i < j => oldest[i] < oldest[j]
      /\ \A n \in asked : \E i \in 1 .. Len(oldest) : oldest[i] = n
    BY <1>3, AscendingIs
<1>5. \A a \in asked : RowIn(ids, a) \in Row /\ RowIn(ids, a).who = a
    BY <1>2 DEF InTeam, RowIn, Row, IdTable, RowId, Account
<1> DEFINE n == Len(oldest)
<1>6. n \in Nat /\ \A i \in 1 .. n : oldest[i] \in asked
    BY <1>4
<1>7. list = [i \in 1 .. n |-> RowIn(ids, oldest[i])]
    BY <1>1, <1>4
<1> HIDE DEF n
<1>8. list \in Seq(Row) /\ Len(list) = n /\ \A i \in 1 .. n : list[i] = RowIn(ids, oldest[i])
    BY <1>5, <1>6, <1>7
<1>9. OldestFirst(list)
    BY <1>4, <1>5, <1>6, <1>8 DEF OldestFirst, n
<1>10. RowsOf(list) = RowsIn(ids, asked)
    BY <1>4, <1>6, <1>8 DEF RowsOf, RowsIn, n
<1> QED BY <1>8, <1>9, <1>10

LEMMA RosterMade ==
    ASSUME NEW ids \in IdTable, NEW asked \in SUBSET InTeam(ids), NEW list \in Seq(Row),
           OldestFirst(list), RowsOf(list) = RowsIn(ids, asked)
    PROVE  list \in Roster(ids, asked)
<1> DEFINE n == Len(list)
           oldest == [i \in 1 .. n |-> list[i].who]
<1>1. n \in Nat /\ asked \in SUBSET Int /\ DOMAIN list = 1 .. n /\ \A i \in 1 .. n : list[i] \in Row
    BY TeamBound DEF InTeam, Account
<1>2. \A i \in 1 .. n : \E a \in asked : list[i] = RowIn(ids, a)
    BY DEF RowsOf, RowsIn
<1>3. \A a \in asked : \E i \in 1 .. n : list[i] = RowIn(ids, a)
    BY DEF RowsOf, RowsIn
<1>4. \A a \in asked : RowIn(ids, a).who = a
    BY DEF RowIn
<1>5. \A i, j \in 1 .. n : i < j => list[i].who < list[j].who
    BY DEF OldestFirst
<1> HIDE DEF n
<1>6. oldest \in [1 .. n -> asked]
    BY <1>2, <1>4
<1>7. /\ \A i, j \in 1 .. n : i < j => oldest[i] < oldest[j]
      /\ \A k \in asked : \E i \in 1 .. n : oldest[i] = k
    BY <1>3, <1>4, <1>5
<1>8. oldest \in Ascending(asked)
    BY <1>1, <1>6, <1>7, AscendingMade
<1>9. \A i \in 1 .. n : list[i] = RowIn(ids, oldest[i])
    BY <1>2, <1>4
<1>10. list = [i \in DOMAIN oldest |-> RowIn(ids, oldest[i])]
    <2>1. list = [i \in 1 .. n |-> list[i]]
        BY <1>1
    <2> QED BY <2>1, <1>9
<1> QED BY <1>8, <1>10 DEF Roster, RowIn

\* The row of one account is a list of one.
LEMMA RosterOfOne ==
    ASSUME NEW ids \in IdTable, NEW a \in InTeam(ids), NEW list \in Roster(ids, {a})
    PROVE  Len(list) = 1 /\ list[1] = RowIn(ids, a)
<1>1. list \in Seq(Row) /\ OldestFirst(list) /\ RowsOf(list) = {RowIn(ids, a)}
    BY RosterIs DEF RowsIn
<1> DEFINE n == Len(list)
<1>2. n \in Nat /\ \A i \in 1 .. n : list[i] \in Row
    BY <1>1
<1>3. n # 0 /\ \A i \in 1 .. n : list[i] = RowIn(ids, a)
    <2>1. \A i \in 1 .. n : list[i] \in RowsOf(list)
        BY DEF RowsOf
    <2>2. \E i \in 1 .. n : list[i] = RowIn(ids, a)
        BY <1>1 DEF RowsOf
    <2> QED BY <1>1, <1>2, <2>1, <2>2
<1>4. \A i, j \in 1 .. n : ~(i < j)
    <2>1. RowIn(ids, a).who \in Int
        BY TeamBound DEF RowIn, InTeam, Account
    <2> QED BY <1>1, <1>3, <2>1 DEF OldestFirst
<1>5. n = 1
    <2> HIDE DEF n
    <2> QED BY <1>2, <1>3, <1>4
<1> QED BY <1>3, <1>5

-----------------------------------------------------------------------------
(* Requests. *)

Requests == [Slot -> Management \cup {NoManagement}]

LEMMA NoManagementIs ==
    /\ NoManagement.op = "none" /\ NoManagement.answer = "none" /\ NoManagement.rows = << >>
    /\ NoManagement.id = 0 /\ NoManagement.who = 0 /\ NoManagement.stale = FALSE
    /\ \A c \in Management \cup {NoManagement} : c.op = "none" <=> c = NoManagement
    /\ \A c \in Management \cup {NoManagement} :
           /\ c.id \in RowId /\ c.who \in RowId /\ c.stale \in BOOLEAN
           /\ c.answer \in Answer /\ c.rows \in Seq(Row)
    /\ RowsOf(<< >>) = {} /\ OldestFirst(<< >>)
<1>1. /\ NoManagement.op = "none" /\ NoManagement.answer = "none" /\ NoManagement.rows = << >>
      /\ NoManagement.id = 0 /\ NoManagement.who = 0 /\ NoManagement.stale = FALSE
    BY DEF NoManagement, Managed
<1>2. \A c \in Management : c.op # "none"
    BY DEF Management
<1>3. \A c \in Management :
          /\ c.id \in RowId /\ c.who \in RowId /\ c.stale \in BOOLEAN
          /\ c.answer \in Answer /\ c.rows \in Seq(Row)
    BY DEF Management
<1>4. 0 \in RowId /\ "none" \in Answer /\ << >> \in Seq(Row)
    BY TeamBound DEF RowId, Answer
<1>5. RowsOf(<< >>) = {} /\ OldestFirst(<< >>)
    BY DEF RowsOf, OldestFirst
<1> QED BY <1>1, <1>2, <1>3, <1>4, <1>5

\* What may happen to a request while another is taken from the wire.
Older(new, old) ==
    /\ new.op = old.op /\ new.id = old.id /\ new.who = old.who /\ new.answer = old.answer
    /\ new.rows = old.rows /\ (old.stale => new.stale)

Taken(s) ==
    /\ managing' \in Requests /\ managing'[s] = NoManagement
    /\ \A t \in Slot : t # s => Older(managing'[t], managing[t])

LEMMA AnswerTakenIs ==
    ASSUME managing \in Requests, NEW s \in Slot
    PROVE  /\ AnswerTaken(s) \in Requests /\ AnswerTaken(s)[s] = NoManagement
           /\ \A t \in Slot : t # s => AnswerTaken(s)[t] = managing[t]
BY DEF AnswerTaken, Requests

LEMMA OutdateIs ==
    ASSUME NEW calls \in Requests
    PROVE  /\ Outdate(calls) \in Requests
           /\ \A t \in Slot : /\ Older(Outdate(calls)[t], calls[t])
                              /\ calls[t].op = "add" => Outdate(calls)[t].stale
                              /\ calls[t] = NoManagement => Outdate(calls)[t] = NoManagement
<1>1. ASSUME NEW t \in Slot
      PROVE  /\ Outdate(calls)[t] \in Management \cup {NoManagement}
             /\ Older(Outdate(calls)[t], calls[t])
             /\ calls[t].op = "add" => Outdate(calls)[t].stale
             /\ calls[t] = NoManagement => Outdate(calls)[t] = NoManagement
    <2>1. calls[t] \in Management \cup {NoManagement}
        BY DEF Requests
    <2>2. CASE calls[t].op = "add"
        <3>1. calls[t] \in Management
            BY <2>1, <2>2, NoManagementIs
        <3> DEFINE r == [calls[t] EXCEPT !.stale = TRUE]
        <3>2. r \in Management /\ Older(r, calls[t]) /\ r.stale
            BY <3>1 DEF Management, Older
        <3>3. Outdate(calls)[t] = r
            BY <2>2 DEF Outdate
        <3> QED BY <2>2, <3>2, <3>3, NoManagementIs
    <2>3. CASE calls[t].op # "add"
        <3>1. Outdate(calls)[t] = calls[t]
            BY <2>3 DEF Outdate
        <3> QED BY <2>1, <2>3, <3>1 DEF Older
    <2> QED BY <2>2, <2>3
<1>2. Outdate(calls) \in Requests
    BY <1>1 DEF Outdate, Requests
<1> QED BY <1>1, <1>2

LEMMA TakenBy ==
    ASSUME managing \in Requests, NEW s \in Slot,
           managing' = AnswerTaken(s) \/ managing' = Outdate(AnswerTaken(s))
    PROVE  Taken(s)
<1>1. CASE managing' = AnswerTaken(s)
    BY <1>1, AnswerTakenIs DEF Taken, Older
<1>2. CASE managing' = Outdate(AnswerTaken(s))
    BY <1>2, AnswerTakenIs, OutdateIs DEF Taken
<1> QED BY <1>1, <1>2

AnsweredWith(new, old, answer, rows) ==
    /\ new.op = old.op /\ new.answer = answer /\ new.rows = rows /\ new.stale = old.stale
    /\ new.op = "delete" => new.id = old.id

LEMMA AnsweredIs ==
    ASSUME managing \in Requests, NEW s \in Slot, managing[s].op # "none",
           NEW answer \in Answer, NEW rows \in Seq(Row), managing' = Answered(s, answer, rows)
    PROVE  /\ managing' \in Requests
           /\ \A t \in Slot : t # s => managing'[t] = managing[t]
           /\ AnsweredWith(managing'[s], managing[s], answer, rows)
<1> DEFINE i == IF managing[s].op = "delete" THEN managing[s].id ELSE 0
           c == [op |-> managing[s].op, id |-> i, who |-> 0, stale |-> managing[s].stale,
                 answer |-> answer, rows |-> rows]
<1>1. managing[s] \in Management
    BY NoManagementIs DEF Requests
<1>2. 0 \in RowId
    BY NoManagementIs
<1>3. i \in RowId
    BY <1>1, <1>2 DEF Management
<1>4. managing[s].op = "delete" => i = managing[s].id
    OBVIOUS
<1> HIDE DEF i
<1>5. AnsweredWith(c, managing[s], answer, rows)
    BY <1>4 DEF AnsweredWith
<1>7. c \in Management
    BY <1>1, <1>2, <1>3 DEF Management
<1>8. managing' = [managing EXCEPT ![s] = c]
    BY DEF Answered, i
<1> HIDE DEF c
<1>9. managing' \in Requests /\ managing'[s] = c /\ \A t \in Slot : t # s => managing'[t] = managing[t]
    BY <1>7, <1>8 DEF Requests
<1> QED BY <1>5, <1>9

LEMMA InPlayIs ==
    /\ \A r : r \in InPlay <=> r \in RowsOf(users) \/ \E s \in Slot : r \in RowsOf(managing[s].rows)
    /\ \A r : r \in InPlay' <=> r \in RowsOf(users') \/ \E s \in Slot : r \in RowsOf(managing'[s].rows)
BY DEF InPlay

\* With one request out, the list is one patch short for that one.
LEMMA TheOne ==
    ASSUME OnePatchAtATime, calm = "calm", NEW s \in Slot, managing[s] # NoManagement
    PROVE  OnePatchShort(managing[s]) /\ \A t \in Slot : t # s => managing[t] = NoManagement
BY DEF OnePatchAtATime

LEMMA NoneOut ==
    ASSUME OnePatchAtATime, calm = "calm", \A s \in Slot : managing[s] = NoManagement
    PROVE  OldestFirst(users) /\ RowsOf(users) = TeamRows
BY NoManagementIs DEF OnePatchAtATime, OnePatchShort

-----------------------------------------------------------------------------
(* What the steps have in common. *)

FormsTyped == confirmingDeleteId \in RowId /\ resettingId \in RowId /\ resetPassword \in RowId

FormsSound ==
    /\ resetPassword <= born
    /\ resetPassword # 0 /\ resettingId # 0 /\ Alive(resetPassword)
           => idOf[resetPassword] = resettingId

RowTrue(r) == r.id <= r.who /\ r.who <= born /\ (Alive(r.who) => idOf[r.who] = r.id)

RequestMeant(c) ==
    c.answer = "none" => c.who <= born /\ (c.who # 0 /\ Alive(c.who) => c.id = idOf[c.who])

Sound ==
    /\ \A r \in InPlay : RowTrue(r)
    /\ FormsSound
    /\ \A s \in Slot : RequestMeant(managing[s])

LEMMA SoundIs ==
    (RowsSound /\ MeantAccount <=> Sound) /\ (RowsSound' /\ MeantAccount' <=> Sound')
BY DEF RowsSound, MeantAccount, Sound, RowTrue, FormsSound, RequestMeant

\* An id means one account in what is in play.
OneMeaning ==
    /\ \A r, q \in InPlay : r.id = q.id => r.who = q.who
    /\ \A r \in InPlay, a \in Account : idOf[a] = r.id => a = r.who

NoRowTwice == \A i, j \in 1 .. Len(users) : users[i].who = users[j].who => i = j

NewToList(c) ==
    c.op = "add" /\ c.answer = "ok" /\ ~c.stale => \A r \in RowsOf(users) : r.who # c.rows[1].who

Apart == OneMeaning /\ NoRowTwice /\ \A s \in Slot : NewToList(managing[s])

LEMMA NoneTwiceIs ==
    /\ NoneTwice <=> (calm # "disturbed" => Apart)
    /\ NoneTwice' <=> (calm' # "disturbed" => Apart')
BY DEF NoneTwice, Apart, OneMeaning, NoRowTwice, NewToList

\* Nothing of the table has changed and no row is new: what the rows say stays
\* true.
LEMMA RowsKeep ==
    ASSUME UNCHANGED team, InPlay' \subseteq InPlay
    PROVE  /\ (\A r \in InPlay : RowTrue(r)) => \A r \in InPlay' : RowTrue(r)'
           /\ OneMeaning => OneMeaning'
           /\ IdsTellApart => IdsTellApart'
           /\ TeamRows' = TeamRows /\ InTeam(idOf') = InTeam(idOf)
BY DEF team, RowTrue, Alive, OneMeaning, IdsTellApart, TeamRows

\* A click in the forms of the rows.
LEMMA FormKeeps ==
    ASSUME SettingsIInv, UNCHANGED <<users, usersLoading, adding, managing, team, calm>>,
           FormsTyped', FormsSound'
    PROVE  SettingsIInv'
<1>1. InPlay' = InPlay
    BY DEF InPlay
<1>2. SettingsTypeOK'
    BY DEF SettingsIInv, SettingsTypeOK, FormsTyped, team
<1>3. OneAtATime' /\ IdsTellApart'
    BY <1>1, RowsKeep DEF SettingsIInv, OneAtATime
<1>4. RowsSound' /\ MeantAccount'
    <2>1. \A r \in InPlay' : RowTrue(r)'
        BY <1>1, RowsKeep, SoundIs DEF Sound, SettingsIInv
    <2>2. \A s \in Slot : RequestMeant(managing[s])'
        BY SoundIs DEF Sound, SettingsIInv, RequestMeant, team, Alive
    <2> QED BY <2>1, <2>2, SoundIs DEF Sound
<1>5. AnswersComplete'
    BY DEF SettingsIInv, AnswersComplete
<1>6. NoneTwice'
    BY <1>1, RowsKeep, NoneTwiceIs DEF Apart, SettingsIInv, NoRowTwice, NewToList
<1>7. OnePatchAtATime'
    BY <1>1, RowsKeep DEF SettingsIInv, OnePatchAtATime, OnePatchShort
<1> QED BY <1>2, <1>3, <1>4, <1>5, <1>6, <1>7 DEF SettingsIInv

\* A click that sends a request.
LEMMA ManageKeeps ==
    ASSUME SettingsIInv, NEW s \in Slot, NEW op \in {"add", "toggle", "delete", "reset"},
           NEW id \in RowId, NEW who \in RowId, Manage(s, op, id, who),
           who <= born, who # 0 /\ Alive(who) => id = idOf[who],
           \/ op = "add" /\ ~adding /\ adding' = TRUE
           \/ op # "add" /\ adding' = adding,
           UNCHANGED <<users, usersLoading, rowForms, team>>
    PROVE  SettingsIInv'
<1> DEFINE c == Managed(op, id, who)
<1>1. managing \in Requests /\ managing[s] = NoManagement
    BY DEF SettingsIInv, SettingsTypeOK, Requests, Manage, FreeManaging
<1>0. op \in {"load", "add", "toggle", "delete", "reset"}
    OBVIOUS
<1>2. /\ c \in Management /\ c.op = op /\ c.id = id /\ c.who = who /\ c.answer = "none"
      /\ c.stale = FALSE /\ c.rows = << >>
    BY <1>0, NoManagementIs DEF Managed, Management, Answer
<1>3. managing' = [managing EXCEPT ![s] = c]
    BY DEF Manage
<1> HIDE DEF c
<1>4. /\ managing' \in Requests /\ managing'[s] = c
      /\ \A t \in Slot : t # s => managing'[t] = managing[t]
    BY <1>1, <1>2, <1>3 DEF Requests
<1>5. calm' \in Calm /\ (calm' # "disturbed" => calm # "disturbed")
    BY DEF Manage, Worse, SettingsIInv, SettingsTypeOK, Calm
<1>6. SettingsTypeOK'
    BY <1>4, <1>5 DEF SettingsIInv, SettingsTypeOK, rowForms, team, Requests
<1>7. InPlay' \subseteq InPlay
    BY <1>2, <1>4, InPlayIs, NoManagementIs
<1>8. OneAtATime'
    BY <1>1, <1>2, <1>4, NoManagementIs DEF SettingsIInv, OneAtATime
<1>9. IdsTellApart'
    BY <1>7, RowsKeep DEF SettingsIInv
<1>10. RowsSound' /\ MeantAccount'
    <2>1. \A r \in InPlay' : RowTrue(r)'
        BY <1>7, RowsKeep, SoundIs DEF Sound, SettingsIInv
    <2>2. \A t \in Slot : RequestMeant(managing[t])'
        BY <1>2, <1>4, SoundIs DEF Sound, SettingsIInv, RequestMeant, team, Alive
    <2>3. FormsSound'
        BY SoundIs DEF Sound, SettingsIInv, FormsSound, rowForms, team, Alive
    <2> QED BY <2>1, <2>2, <2>3, SoundIs DEF Sound
<1>11. AnswersComplete'
    BY <1>2, <1>4, NoManagementIs DEF SettingsIInv, AnswersComplete
<1>12. NoneTwice'
    BY <1>2, <1>4, <1>5, <1>7, RowsKeep, NoneTwiceIs DEF Apart, SettingsIInv, NoRowTwice, NewToList
<1>13. OnePatchAtATime'
    <2> SUFFICES ASSUME calm' = "calm" PROVE OnePatchAtATime'
        BY DEF OnePatchAtATime
    <2>1. calm = "calm" /\ \A t \in Slot : managing[t].op = "none"
        BY DEF Manage, Worse, SettingsIInv, SettingsTypeOK, Calm
    <2>2. \A t \in Slot : managing[t] = NoManagement
        BY <1>1, <2>1, NoManagementIs DEF Requests
    <2>3. OldestFirst(users) /\ RowsOf(users) = TeamRows
        BY <2>1, <2>2, NoneOut DEF SettingsIInv
    <2>4. OldestFirst(users') /\ RowsOf(users') = TeamRows'
        BY <2>3, <1>7, RowsKeep
    <2>5. OnePatchShort(managing[s])'
        BY <1>2, <1>4, <2>4 DEF OnePatchShort
    <2> QED BY <1>4, <2>2, <2>5 DEF OnePatchAtATime
<1> QED BY <1>6, <1>8, <1>9, <1>10, <1>11, <1>12, <1>13 DEF SettingsIInv

\* An answer, with what it does to the list.
LEMMA ReceiveKeeps ==
    ASSUME SettingsIInv, NEW s \in Slot, managing[s] # NoManagement, Taken(s),
           UNCHANGED <<team, calm>>,
           users' \in Seq(Row), RowsOf(users') \subseteq InPlay,
           \/ managing[s].op = "add" /\ adding' = FALSE
           \/ managing[s].op # "add" /\ adding' = adding,
           \/ managing[s].op = "load" /\ usersLoading' = FALSE
           \/ managing[s].op # "load" /\ usersLoading' = usersLoading,
           FormsTyped', FormsSound',
           calm # "disturbed" => NoRowTwice' /\ \A t \in Slot : t # s => NewToList(managing[t])',
           calm = "calm" => OldestFirst(users') /\ RowsOf(users') = TeamRows
    PROVE  SettingsIInv'
<1>1. managing \in Requests /\ managing' \in Requests
    BY DEF SettingsIInv, SettingsTypeOK, Requests, Taken
<1>2. /\ managing'[s] = NoManagement /\ managing[s].op # "none"
      /\ \A t \in Slot : t # s => Older(managing'[t], managing[t])
    BY <1>1, NoManagementIs DEF Taken, Requests
<1>3. InPlay' \subseteq InPlay
    BY <1>2, InPlayIs, NoManagementIs DEF Older
<1>4. SettingsTypeOK'
    BY <1>1 DEF SettingsIInv, SettingsTypeOK, FormsTyped, team, Requests
<1>5. OneAtATime'
    <2>1. \A t \in Slot : t # s => managing'[t].op = managing[t].op
        BY <1>2 DEF Older
    <2> QED BY <1>2, <2>1, NoManagementIs DEF SettingsIInv, OneAtATime
<1>6. IdsTellApart'
    BY <1>3, RowsKeep DEF SettingsIInv
<1>7. RowsSound' /\ MeantAccount'
    <2>1. \A r \in InPlay' : RowTrue(r)'
        BY <1>3, RowsKeep, SoundIs DEF Sound, SettingsIInv
    <2>2. RequestMeant(managing[s])'
        BY <1>2, <1>4, NoManagementIs DEF RequestMeant, SettingsTypeOK, RowId
    <2>3. \A t \in Slot : t # s => RequestMeant(managing[t])'
        BY <1>2, SoundIs DEF Sound, SettingsIInv, RequestMeant, team, Alive, Older
    <2> QED BY <2>1, <2>2, <2>3, SoundIs DEF Sound
<1>8. AnswersComplete'
    BY <1>2, NoManagementIs DEF SettingsIInv, AnswersComplete, Older
<1>9. NoneTwice'
    <2>1. NewToList(managing[s])'
        BY <1>2, NoManagementIs DEF NewToList
    <2> QED BY <1>3, <2>1, RowsKeep, NoneTwiceIs DEF Apart, SettingsIInv
<1>10. OnePatchAtATime'
    <2> SUFFICES ASSUME calm' = "calm" PROVE OnePatchAtATime'
        BY DEF OnePatchAtATime
    <2>1. \A t \in Slot : t # s => managing[t] = NoManagement
        BY TheOne DEF SettingsIInv
    <2>2. \A t \in Slot : managing'[t] = NoManagement
        BY <1>1, <1>2, <2>1, NoManagementIs DEF Older, Requests
    <2>3. OldestFirst(users') /\ RowsOf(users') = TeamRows'
        BY <1>3, RowsKeep
    <2> QED BY <1>2, <2>2, <2>3, NoManagementIs DEF OnePatchAtATime, OnePatchShort
<1> QED BY <1>4, <1>5, <1>6, <1>7, <1>8, <1>9, <1>10 DEF SettingsIInv

-----------------------------------------------------------------------------
(* The operator. *)

\* A row on screen is about the account it was made for.
LEMMA ShownIs ==
    ASSUME SettingsIInv, NEW i \in 1 .. Len(users)
    PROVE  users[i] \in Row /\ users[i] \in InPlay /\ RowTrue(users[i])
<1>1. users[i] \in Row
    BY DEF SettingsIInv, SettingsTypeOK
<1>2. users[i] \in InPlay
    BY InPlayIs DEF RowsOf
<1> QED BY <1>1, <1>2, SoundIs DEF Sound, SettingsIInv

LEMMA AccountIs ==
    /\ Account \subseteq RowId /\ 0 \in RowId /\ 0 \notin Account
    /\ \A r \in Row : r.id \in Account /\ r.who \in Account /\ r.id \in Nat /\ r.who \in Nat
    /\ RowId \subseteq Nat
BY TeamBound DEF Account, RowId, Row

LEMMA CancelDeleteKeeps == ASSUME SettingsIInv, CancelDelete PROVE SettingsIInv'
<1>1. FormsTyped'
    BY AccountIs DEF CancelDelete, SettingsIInv, SettingsTypeOK, FormsTyped
<1>2. FormsSound'
    BY SoundIs DEF Sound, CancelDelete, SettingsIInv, FormsSound, team, Alive
<1> QED BY <1>1, <1>2, FormKeeps DEF CancelDelete

LEMMA RowFormsKeep ==
    ASSUME SettingsIInv, NEW i \in 1 .. Len(users),
           AskDelete(users[i]) \/ OpenReset(users[i]) \/ TypePassword(users[i])
    PROVE  SettingsIInv'
<1> DEFINE r == users[i]
<1>1. r \in Row /\ RowTrue(r) /\ born \in RowId /\ FormsTyped /\ FormsSound
    BY ShownIs, SoundIs DEF Sound, SettingsIInv, SettingsTypeOK, FormsTyped
<1>2. AskDelete(r) \/ OpenReset(r) \/ TypePassword(r)
    OBVIOUS
<1> HIDE DEF r
<1>3. CASE AskDelete(r)
    BY <1>1, <1>3, AccountIs, FormKeeps DEF AskDelete, FormsTyped, FormsSound, team, Alive
<1>4. CASE OpenReset(r)
    BY <1>1, <1>4, AccountIs, FormKeeps DEF OpenReset, FormsTyped, FormsSound, team, Alive
<1>5. CASE TypePassword(r)
    <2>1. FormsTyped'
        BY <1>1, <1>5, AccountIs DEF TypePassword, FormsTyped
    <2>2. FormsSound'
        BY <1>1, <1>5 DEF TypePassword, FormsSound, RowTrue, team, Alive
    <2> QED BY <1>5, <2>1, <2>2, FormKeeps DEF TypePassword
<1> QED BY <1>2, <1>3, <1>4, <1>5

LEMMA AddUserKeeps == ASSUME SettingsIInv, NEW s \in Slot, AddUser(s) PROVE SettingsIInv'
<1>1. 0 <= born /\ 0 \in RowId
    BY AccountIs DEF SettingsIInv, SettingsTypeOK
<1>2. Manage(s, "add", 0, 0) /\ ~adding /\ adding' = TRUE
    BY DEF AddUser
<1> QED BY <1>1, <1>2, ManageKeeps DEF AddUser

LEMMA RowRequestsKeep ==
    ASSUME SettingsIInv, NEW s \in Slot, NEW i \in 1 .. Len(users),
           ToggleAdmin(s, users[i]) \/ RemoveUser(s, users[i]) \/ SubmitReset(s, users[i])
    PROVE  SettingsIInv'
<1> DEFINE r == users[i]
<1>1. r \in Row /\ RowTrue(r) /\ born \in RowId /\ FormsTyped /\ FormsSound
    BY ShownIs, SoundIs DEF Sound, SettingsIInv, SettingsTypeOK, FormsTyped
<1>2. ToggleAdmin(s, r) \/ RemoveUser(s, r) \/ SubmitReset(s, r)
    OBVIOUS
<1> HIDE DEF r
<1>3. /\ r.id \in RowId /\ r.who \in RowId /\ r.id # 0 /\ r.who <= born
      /\ Alive(r.who) => r.id = idOf[r.who]
    BY <1>1, AccountIs DEF RowTrue
<1>4. CASE ToggleAdmin(s, r)
    <2>1. Manage(s, "toggle", r.id, r.who)
        BY <1>4 DEF ToggleAdmin
    <2> QED BY <1>3, <1>4, <2>1, ManageKeeps DEF ToggleAdmin
<1>5. CASE RemoveUser(s, r)
    <2>1. Manage(s, "delete", r.id, r.who)
        BY <1>5 DEF RemoveUser
    <2> QED BY <1>3, <1>5, <2>1, ManageKeeps DEF RemoveUser
<1>6. CASE SubmitReset(s, r)
    <2>1. Manage(s, "reset", r.id, resetPassword) /\ resettingId = r.id /\ resetPassword \in RowId
        BY <1>1, <1>6 DEF SubmitReset, FormsTyped
    <2>2. resetPassword <= born /\ (Alive(resetPassword) => r.id = idOf[resetPassword])
        BY <1>1, <1>3, <1>6, <2>1 DEF FormsSound, SubmitReset
    <2> QED BY <1>3, <1>6, <2>1, <2>2, ManageKeeps DEF SubmitReset
<1> QED BY <1>2, <1>4, <1>5, <1>6

-----------------------------------------------------------------------------
(* Answers. *)

\* What holds of a request that is taken from the wire.
LEMMA OnTheWire ==
    ASSUME SettingsIInv, NEW s \in Slot, managing[s].op # "none"
    PROVE  /\ managing \in Requests /\ managing[s] \in Management /\ managing[s] # NoManagement
           /\ managing[s].rows \in Seq(Row) /\ RowsOf(managing[s].rows) \subseteq InPlay
           /\ RowsOf(users) \subseteq InPlay /\ users \in Seq(Row)
           /\ FormsTyped /\ FormsSound
           /\ calm = "calm" => OnePatchShort(managing[s])
<1>1. managing \in Requests /\ users \in Seq(Row) /\ FormsTyped /\ FormsSound
    BY SoundIs DEF Sound, SettingsIInv, SettingsTypeOK, Requests, FormsTyped
<1>2. managing[s] \in Management /\ managing[s] # NoManagement /\ managing[s].rows \in Seq(Row)
    BY <1>1, NoManagementIs DEF Requests
<1>3. RowsOf(managing[s].rows) \subseteq InPlay /\ RowsOf(users) \subseteq InPlay
    BY InPlayIs
<1>4. calm = "calm" => OnePatchShort(managing[s])
    BY <1>2, TheOne DEF SettingsIInv
<1> QED BY <1>1, <1>2, <1>3, <1>4

\* Without an effect on the list.
LEMMA OtherAnswerKeeps ==
    ASSUME SettingsIInv, NEW s \in Slot, managing[s].op # "none",
           managing' = AnswerTaken(s), UNCHANGED <<users, team, calm>>,
           managing[s].op = "reset" \/ managing[s].answer # "ok",
           managing[s].op = "load" => calm # "calm",
           \/ managing[s].op = "add" /\ adding' = FALSE
           \/ managing[s].op # "add" /\ adding' = adding,
           \/ managing[s].op = "load" /\ usersLoading' = FALSE
           \/ managing[s].op # "load" /\ usersLoading' = usersLoading,
           FormsTyped', FormsSound'
    PROVE  SettingsIInv'
<1>1. Taken(s)
    BY OnTheWire, TakenBy
<1>2. calm # "disturbed" => NoRowTwice' /\ \A t \in Slot : t # s => NewToList(managing[t])'
    <2>1. \A t \in Slot : t # s => managing'[t] = managing[t]
        BY OnTheWire, AnswerTakenIs
    <2> QED BY <2>1, NoneTwiceIs DEF Apart, SettingsIInv, NoRowTwice, NewToList
<1>3. calm = "calm" => OldestFirst(users') /\ RowsOf(users') = TeamRows
    <2> SUFFICES ASSUME calm = "calm" PROVE OldestFirst(users) /\ RowsOf(users) = TeamRows
        OBVIOUS
    <2>1. OnePatchShort(managing[s]) /\ managing[s].op \in {"load", "add", "toggle", "delete", "reset"}
        BY OnTheWire DEF Management
    <2> QED BY <2>1 DEF OnePatchShort
<1> QED BY <1>1, <1>2, <1>3, OnTheWire, ReceiveKeeps

\* The array of the list is replaced: rows still to be pushed do not show.
LEMMA ReplacedKeeps ==
    ASSUME SettingsIInv, NEW s \in Slot, managing[s].op # "none",
           managing' = Outdate(AnswerTaken(s)), UNCHANGED <<team, calm>>,
           managing[s].op # "add" /\ adding' = adding,
           \/ managing[s].op = "load" /\ usersLoading' = FALSE
           \/ managing[s].op # "load" /\ usersLoading' = usersLoading,
           FormsTyped', FormsSound',
           users' \in Seq(Row), RowsOf(users') \subseteq InPlay,
           calm # "disturbed" => NoRowTwice',
           calm = "calm" => OldestFirst(users') /\ RowsOf(users') = TeamRows
    PROVE  SettingsIInv'
<1>1. Taken(s)
    BY OnTheWire, TakenBy
<1>2. \A t \in Slot : NewToList(managing[t])'
    <2>1. \A t \in Slot : managing'[t].op = "add" => managing'[t].stale
        BY OnTheWire, AnswerTakenIs, OutdateIs DEF Older
    <2> QED BY <2>1 DEF NewToList
<1> QED BY <1>1, <1>2, OnTheWire, ReceiveKeeps

LEMMA NotTwice ==
    ASSUME NEW list \in Seq(Row), OldestFirst(list)
    PROVE  \A i, j \in 1 .. Len(list) : list[i].who = list[j].who => i = j
<1> SUFFICES ASSUME NEW i \in 1 .. Len(list), NEW j \in 1 .. Len(list), list[i].who = list[j].who
             PROVE  i = j
    OBVIOUS
<1>0. list[i] \in Row /\ list[j] \in Row
    OBVIOUS
<1>1. list[i].who \in Int /\ list[j].who \in Int
    BY <1>0, AccountIs
<1>2. ~(i < j) /\ ~(j < i)
    BY <1>1 DEF OldestFirst
<1> QED BY <1>2

LEMMA ReceiveTeamKeeps == ASSUME SettingsIInv, NEW s \in Slot, ReceiveTeam(s) PROVE SettingsIInv'
<1>1. managing[s].op = "load" /\ managing[s].answer # "none" /\ usersLoading' = FALSE
      /\ adding' = adding /\ UNCHANGED <<rowForms, team, calm>>
    BY DEF ReceiveTeam
<1>2. FormsTyped' /\ FormsSound'
    BY <1>1, OnTheWire DEF rowForms, team, FormsTyped, FormsSound, Alive
<1>3. CASE managing[s].answer = "ok"
    <2>1. users' = managing[s].rows /\ managing' = Outdate(AnswerTaken(s))
        BY <1>3 DEF ReceiveTeam
    <2>2. OldestFirst(users') /\ users' \in Seq(Row) /\ RowsOf(users') \subseteq InPlay
        BY <1>1, <2>1, OnTheWire DEF SettingsIInv, AnswersComplete
    <2>3. NoRowTwice'
        BY <2>2, NotTwice DEF NoRowTwice
    <2>4. calm = "calm" => RowsOf(users') = TeamRows
        BY <1>1, <1>3, <2>1, OnTheWire DEF OnePatchShort
    <2> QED BY <1>1, <1>2, <2>1, <2>2, <2>3, <2>4, ReplacedKeeps
<1>4. CASE managing[s].answer # "ok"
    <2>1. UNCHANGED users /\ managing' = AnswerTaken(s)
        BY <1>4 DEF ReceiveTeam
    <2>2. calm # "calm"
        BY <1>1, <1>4, OnTheWire DEF OnePatchShort
    <2> QED BY <1>1, <1>2, <1>4, <2>1, <2>2, OtherAnswerKeeps
<1> QED BY <1>3, <1>4

LEMMA PushedIs ==
    ASSUME NEW list \in Seq(Row), NEW r \in Row
    PROVE  /\ Append(list, r) \in Seq(Row) /\ RowsOf(Append(list, r)) = RowsOf(list) \cup {r}
           /\ OldestFirst(list) /\ (\A q \in RowsOf(list) : q.who < r.who)
                  => OldestFirst(Append(list, r))
           /\ (\A i, j \in 1 .. Len(list) : list[i].who = list[j].who => i = j)
              /\ (\A q \in RowsOf(list) : q.who # r.who)
                  => \A i, j \in 1 .. Len(Append(list, r)) :
                         Append(list, r)[i].who = Append(list, r)[j].who => i = j
<1> DEFINE n == Len(list)
           new == Append(list, r)
<1>1. n \in Nat /\ new \in Seq(Row) /\ Len(new) = n + 1
    OBVIOUS
<1>2. new[n + 1] = r /\ \A i \in 1 .. n : new[i] = list[i]
    OBVIOUS
<1>3. \A i \in 1 .. n : list[i] \in RowsOf(list)
    BY DEF RowsOf
<1>4. \A i \in 1 .. n + 1 : i \in 1 .. n \/ i = n + 1
    BY <1>1
<1>5. RowsOf(new) = RowsOf(list) \cup {r}
    <2> HIDE DEF n, new
    <2>1. RowsOf(new) = {new[i] : i \in 1 .. n + 1} /\ RowsOf(list) = {list[i] : i \in 1 .. n}
        BY <1>1 DEF RowsOf, n
    <2>2. n + 1 \in 1 .. n + 1 /\ \A i \in 1 .. n : i \in 1 .. n + 1
        BY <1>1
    <2> QED BY <1>2, <1>4, <2>1, <2>2
<1>6. \A i, j \in 1 .. n + 1 : i < j => i \in 1 .. n
    BY <1>1
<1>7. OldestFirst(list) /\ (\A q \in RowsOf(list) : q.who < r.who) => OldestFirst(new)
    BY <1>1, <1>2, <1>3, <1>4, <1>6 DEF OldestFirst
<1>8. ASSUME \A i, j \in 1 .. n : list[i].who = list[j].who => i = j,
             \A q \in RowsOf(list) : q.who # r.who
      PROVE  \A i, j \in 1 .. n + 1 : new[i].who = new[j].who => i = j
    <2> HIDE DEF n, new
    <2> QED BY <1>2, <1>3, <1>4, <1>8
<1> QED BY <1>1, <1>5, <1>7, <1>8

LEMMA ReceiveAddedKeeps == ASSUME SettingsIInv, NEW s \in Slot, ReceiveAdded(s) PROVE SettingsIInv'
<1> DEFINE c == managing[s]
<1>1. /\ c.op = "add" /\ c.answer # "none" /\ adding' = FALSE /\ managing' = AnswerTaken(s)
      /\ users' = IF c.answer = "ok" THEN PushTo(s) ELSE users
      /\ usersLoading' = usersLoading /\ UNCHANGED <<rowForms, team, calm>>
    BY DEF ReceiveAdded
<1>2. FormsTyped' /\ FormsSound'
    BY <1>1, OnTheWire DEF rowForms, team, FormsTyped, FormsSound, Alive
<1>3. c.stale \in BOOLEAN /\ Taken(s)
    BY <1>1, OnTheWire, NoManagementIs, TakenBy DEF Requests
<1>4. \A t \in Slot : t # s => managing'[t].op # "add"
    BY <1>1, OnTheWire, AnswerTakenIs DEF SettingsIInv, OneAtATime
<1>5. \A t \in Slot : t # s => NewToList(managing[t])'
    BY <1>4 DEF NewToList
<1>6. CASE c.answer # "ok"
    BY <1>1, <1>2, <1>6, OtherAnswerKeeps
<1>7. CASE c.answer = "ok" /\ c.stale
    <2>1. users' = users
        BY <1>1, <1>7 DEF PushTo
    <2>2. calm # "calm"
        BY <1>1, <1>7, OnTheWire DEF OnePatchShort
    <2>3. calm # "disturbed" => NoRowTwice'
        BY <2>1, NoneTwiceIs DEF SettingsIInv, Apart, NoRowTwice
    <2> QED BY <1>1, <1>2, <1>3, <1>5, <2>1, <2>2, <2>3, OnTheWire, ReceiveKeeps
<1>8. CASE c.answer = "ok" /\ ~c.stale
    <2> DEFINE r == c.rows[1]
    <2>1. Len(c.rows) = 1 /\ c.rows \in Seq(Row)
        BY <1>1, <1>8, OnTheWire DEF SettingsIInv, AnswersComplete
    <2>2. 1 \in 1 .. Len(c.rows)
        BY <2>1
    <2>3. r \in Row /\ r \in InPlay
        BY <1>1, <2>1, <2>2, OnTheWire DEF RowsOf
    <2>4. users' = Append(users, r)
        BY <1>1, <1>8 DEF PushTo
    <2>5. calm # "disturbed" => NoRowTwice /\ \A q \in RowsOf(users) : q.who # r.who
        BY <1>1, <1>8, NoneTwiceIs DEF SettingsIInv, Apart, NewToList
    <2>6. calm = "calm" => /\ OldestFirst(users) /\ RowsOf(users) \cup {r} = TeamRows
                           /\ \A q \in RowsOf(users) : q.who < r.who
        BY <1>1, <1>8, OnTheWire DEF OnePatchShort
    <2> HIDE DEF r
    <2>7. users \in Seq(Row) /\ RowsOf(users) \subseteq InPlay
        BY <1>1, OnTheWire
    <2>8. users' \in Seq(Row) /\ RowsOf(users') \subseteq InPlay
        BY <2>3, <2>4, <2>7, PushedIs
    <2>9. calm # "disturbed" => NoRowTwice'
        BY <2>3, <2>4, <2>5, <2>7, PushedIs DEF NoRowTwice
    <2>10. calm = "calm" => OldestFirst(users') /\ RowsOf(users') = TeamRows
        BY <2>3, <2>4, <2>6, <2>7, PushedIs
    <2> QED BY <1>1, <1>2, <1>3, <1>5, <2>8, <2>9, <2>10, OnTheWire, ReceiveKeeps
<1> QED BY <1>3, <1>6, <1>7, <1>8

LEMMA ReceiveToggledKeeps == ASSUME SettingsIInv, NEW s \in Slot, ReceiveToggled(s) PROVE SettingsIInv'
<1> DEFINE c == managing[s]
           n == Len(users)
           updated == c.rows[1]
<1>1. /\ c.op = "toggle" /\ c.answer # "none" /\ adding' = adding
      /\ usersLoading' = usersLoading /\ UNCHANGED <<rowForms, team, calm>>
    BY DEF ReceiveToggled
<1>2. FormsTyped' /\ FormsSound'
    BY <1>1, OnTheWire DEF rowForms, team, FormsTyped, FormsSound, Alive
<1>3. CASE c.answer # "ok"
    BY <1>1, <1>2, <1>3, OtherAnswerKeeps DEF ReceiveToggled
<1>4. CASE c.answer = "ok"
    <2>1. /\ users' = [i \in 1 .. n |-> IF users[i].id = updated.id THEN updated ELSE users[i]]
          /\ managing' = Outdate(AnswerTaken(s))
        BY <1>4 DEF ReceiveToggled
    <2>2. Len(c.rows) = 1 /\ c.rows \in Seq(Row)
        BY <1>1, <1>4, OnTheWire DEF SettingsIInv, AnswersComplete
    <2>3. 1 \in 1 .. Len(c.rows)
        BY <2>2
    <2>4. updated \in Row /\ updated \in InPlay
        BY <1>1, <2>2, <2>3, OnTheWire DEF RowsOf
    <2>5. n \in Nat /\ users \in Seq(Row) /\ \A i \in 1 .. n : users[i] \in Row /\ users[i] \in InPlay
        BY <1>1, OnTheWire, ShownIs
    <2>6. calm = "calm" => OldestFirst(users) /\ RowsOf(users) = TeamRows /\ updated \in TeamRows
        BY <1>1, <1>4, OnTheWire DEF OnePatchShort
    <2>7. calm # "disturbed" => OneMeaning /\ NoRowTwice
        BY NoneTwiceIs DEF SettingsIInv, Apart
    <2> HIDE DEF updated, n
    <2>8. /\ users' \in Seq(Row) /\ Len(users') = n
          /\ \A i \in 1 .. n : users'[i] = IF users[i].id = updated.id THEN updated ELSE users[i]
        BY <2>1, <2>4, <2>5
    <2>9. RowsOf(users') \subseteq InPlay
        BY <2>4, <2>5, <2>8 DEF RowsOf
    <2>10. calm # "disturbed" => NoRowTwice'
        <3> SUFFICES ASSUME calm # "disturbed" PROVE NoRowTwice'
            OBVIOUS
        <3>1. \A i \in 1 .. n : users'[i].who = users[i].who
            BY <2>4, <2>5, <2>7, <2>8 DEF OneMeaning
        <3> QED BY <2>7, <2>8, <3>1 DEF NoRowTwice, n
    <2>11. calm = "calm" => OldestFirst(users') /\ RowsOf(users') = TeamRows
        <3> SUFFICES ASSUME calm = "calm" PROVE OldestFirst(users') /\ RowsOf(users') = TeamRows
            OBVIOUS
        <3>1. \A i \in 1 .. n : users[i] \in TeamRows
            BY <2>6 DEF RowsOf, n
        <3>2. \A q, r \in TeamRows : q.id = r.id => q = r
            BY DEF TeamRows, SettingsIInv, IdsTellApart, InTeam, Alive
        <3>3. \A i \in 1 .. n : users'[i] = users[i]
            BY <2>6, <2>8, <3>1, <3>2
        <3>4. users' = users
            <4>1. users' = [i \in 1 .. n |-> users[i]]
                BY <2>1, <2>8, <3>3
            <4>2. users = [i \in 1 .. n |-> users[i]]
                BY <2>5 DEF n
            <4> QED BY <4>1, <4>2
        <3> QED BY <2>6, <3>4
    <2> QED BY <1>1, <1>2, <2>1, <2>8, <2>9, <2>10, <2>11, ReplacedKeeps
<1> QED BY <1>3, <1>4

\* A list of the rows at some places of it.
ReadOff(list, kept) == [i \in DOMAIN kept |-> list[kept[i]]]

LEMMA KeptIs ==
    ASSUME NEW list \in Seq(Row), NEW places \in SUBSET (1 .. Len(list)), NEW kept \in Ascending(places)
    PROVE  LET new == ReadOff(list, kept) IN
           /\ new \in Seq(Row) /\ RowsOf(new) = {list[k] : k \in places}
           /\ OldestFirst(list) => OldestFirst(new)
           /\ (\A i, j \in 1 .. Len(list) : list[i].who = list[j].who => i = j)
                  => \A i, j \in 1 .. Len(new) : new[i].who = new[j].who => i = j
<1> DEFINE n == Len(kept)
           new == ReadOff(list, kept)
<1>0. Len(list) \in Nat /\ \A k \in places : k \in 1 .. Len(list) /\ list[k] \in Row
    OBVIOUS
<1>1. places \in SUBSET Int /\ IsFiniteSet(places)
    BY <1>0, SomeFinite
<1>2. /\ kept \in Seq(places) /\ DOMAIN kept = 1 .. n
      /\ \A i, j \in 1 .. n : i < j => kept[i] < kept[j]
      /\ \A k \in places : \E i \in 1 .. n : kept[i] = k
    BY <1>1, AscendingIs
<1>3. n \in Nat /\ \A i \in 1 .. n : kept[i] \in places
    BY <1>2
<1> HIDE DEF n
<1>8. \A i \in 1 .. n : kept[i] \in 1 .. Len(list) /\ kept[i] \in Int /\ list[kept[i]] \in Row
    <2> SUFFICES ASSUME NEW i \in 1 .. n
                 PROVE  kept[i] \in 1 .. Len(list) /\ kept[i] \in Int /\ list[kept[i]] \in Row
        OBVIOUS
    <2>1. PICK k \in places : k = kept[i]
        BY <1>3
    <2>2. k \in 1 .. Len(list) /\ k \in Int /\ list[k] \in Row
        BY <1>0
    <2> QED BY <2>1, <2>2
<1>4. new \in Seq(Row) /\ Len(new) = n /\ \A i \in 1 .. n : new[i] = list[kept[i]]
    BY <1>2, <1>3, <1>8 DEF ReadOff
<1> HIDE DEF new
<1>5. RowsOf(new) = {list[k] : k \in places}
    <2>1. RowsOf(new) = {new[i] : i \in 1 .. n}
        BY <1>4 DEF RowsOf
    <2>2. \A i \in 1 .. n : new[i] \in {list[k] : k \in places}
        BY <1>3, <1>4
    <2>3. ASSUME NEW k \in places PROVE list[k] \in {new[i] : i \in 1 .. n}
        <3>1. PICK i \in 1 .. n : kept[i] = k
            BY <1>2
        <3> QED BY <1>4, <3>1
    <2> QED BY <2>1, <2>2, <2>3
<1>6. OldestFirst(list) => OldestFirst(new)
    BY <1>2, <1>4, <1>8 DEF OldestFirst
<1>7. ASSUME \A i, j \in 1 .. Len(list) : list[i].who = list[j].who => i = j
      PROVE  \A i, j \in 1 .. n : new[i].who = new[j].who => i = j
    <2> SUFFICES ASSUME NEW i \in 1 .. n, NEW j \in 1 .. n, new[i].who = new[j].who PROVE i = j
        OBVIOUS
    <2>1. kept[i] = kept[j]
        BY <1>4, <1>7, <1>8
    <2>2. kept[i] \in Int /\ i \in Int /\ j \in Int
        BY <1>8
    <2> QED BY <1>2, <2>1, <2>2
<1> QED BY <1>4, <1>5, <1>6, <1>7 DEF new

LEMMA ReceiveRemovedKeeps == ASSUME SettingsIInv, NEW s \in Slot, ReceiveRemoved(s) PROVE SettingsIInv'
<1> DEFINE c == managing[s]
           places == {i \in 1 .. Len(users) : users[i].id # c.id}
<1>1. /\ c.op = "delete" /\ c.answer # "none" /\ adding' = adding
      /\ usersLoading' = usersLoading /\ UNCHANGED <<resettingId, resetPassword, team, calm>>
    BY DEF ReceiveRemoved
<1>2. confirmingDeleteId' \in {0, confirmingDeleteId}
    BY DEF ReceiveRemoved
<1>3. FormsTyped' /\ FormsSound'
    BY <1>1, <1>2, OnTheWire, AccountIs DEF team, FormsTyped, FormsSound, Alive
<1>4. CASE c.answer # "ok"
    BY <1>1, <1>3, <1>4, OtherAnswerKeeps DEF ReceiveRemoved
<1>5. CASE c.answer = "ok"
    <2>1. managing' = Outdate(AnswerTaken(s))
        BY <1>5 DEF ReceiveRemoved
    <2>2. PICK kept \in Ascending(places) : users' = ReadOff(users, kept)
        BY <1>5 DEF ReceiveRemoved, ReadOff
    <2>3. users \in Seq(Row) /\ RowsOf(users) \subseteq InPlay
        BY <1>1, OnTheWire
    <2>9. places \in SUBSET (1 .. Len(users))
        OBVIOUS
    <2>10. {users[k] : k \in places} = {r \in RowsOf(users) : r.id # c.id}
        BY DEF RowsOf
    <2> HIDE DEF places
    <2>4. /\ users' \in Seq(Row) /\ RowsOf(users') = {users[k] : k \in places}
          /\ OldestFirst(users) => OldestFirst(users')
          /\ NoRowTwice => NoRowTwice'
        BY <2>2, <2>3, <2>9, KeptIs DEF NoRowTwice
    <2>6. calm # "disturbed" => NoRowTwice'
        BY <2>4, NoneTwiceIs DEF SettingsIInv, Apart
    <2>7. calm = "calm" => OldestFirst(users') /\ RowsOf(users') = TeamRows
        BY <1>1, <1>5, <2>4, <2>10, OnTheWire DEF OnePatchShort
    <2>8. RowsOf(users') \subseteq InPlay
        BY <2>3, <2>4, <2>10
    <2> QED BY <1>1, <1>3, <2>1, <2>4, <2>6, <2>7, <2>8, ReplacedKeeps
<1> QED BY <1>4, <1>5

LEMMA ReceiveResetKeeps == ASSUME SettingsIInv, NEW s \in Slot, ReceiveReset(s) PROVE SettingsIInv'
<1>1. /\ managing[s].op = "reset" /\ managing' = AnswerTaken(s) /\ adding' = adding
      /\ usersLoading' = usersLoading /\ UNCHANGED <<users, confirmingDeleteId, team, calm>>
      /\ \/ resettingId' = 0 /\ resetPassword' = 0
         \/ UNCHANGED <<resettingId, resetPassword>>
    BY DEF ReceiveReset
<1>2. 0 <= born
    BY AccountIs DEF SettingsIInv, SettingsTypeOK
<1>3. FormsTyped' /\ FormsSound'
    BY <1>1, <1>2, OnTheWire, AccountIs DEF team, FormsTyped, FormsSound, Alive
<1> QED BY <1>1, <1>3, OtherAnswerKeeps

-----------------------------------------------------------------------------
(* The server. *)

\* What the team may become in a step: an account keeps its id or is gone, and
\* there may be one more.
Moved ==
    /\ idOf' \in IdTable /\ born' \in RowId /\ born <= born' /\ IdsTellApart'
    /\ \A a \in Account : \/ idOf'[a] \in {0, idOf[a]}
                          \/ a = born' /\ born < born'

LEMMA MakeAccountIs ==
    ASSUME SettingsIInv, MakeAccount
    PROVE  /\ Moved /\ born' = born + 1 /\ born' \in Account /\ idOf'[born'] # 0 /\ idOf[born'] = 0
           /\ \A a \in Account : a # born' => idOf'[a] = idOf[a]
<1>1. /\ idOf \in [Account -> RowId] /\ born \in Nat /\ born < MaxAccounts /\ MaxAccounts \in Nat
      /\ born' = born + 1 /\ born' \in Account /\ born' \in RowId
    BY TeamBound DEF SettingsIInv, SettingsTypeOK, MakeAccount, Account, RowId
<1>2. /\ \A a \in Account : idOf[a] <= a /\ (idOf[a] # 0 => a <= born)
      /\ \A a, b \in Account : idOf[a] = idOf[b] /\ idOf[a] # 0 => a = b
    BY DEF SettingsIInv, IdsTellApart, Alive
<1>3. PICK i \in Account : NextId(i) /\ idOf' = [idOf EXCEPT ![born'] = i]
    BY <1>1 DEF MakeAccount
<1>4. \A a \in Account : idOf[a] \in Nat /\ a \in Nat
    BY <1>1 DEF Account, RowId
<1>5. i \in RowId /\ i # 0 /\ i \in Nat
    BY AccountIs
<1>6. idOf' \in IdTable /\ idOf'[born'] = i /\ \A a \in Account : a # born' => idOf'[a] = idOf[a]
    BY <1>1, <1>3, <1>5 DEF IdTable
<1>7. idOf[born'] = 0
    BY <1>1, <1>2
<1>8. i <= born'
    <2>1. CASE i = 1
        BY <1>1, <2>1
    <2>2. CASE i # 1
        <3>1. PICK a \in Account : idOf[a] = i - 1
            BY <1>3, <2>2 DEF NextId
        <3>2. a <= born /\ i - 1 <= a /\ a \in Nat
            BY <1>2, <1>4, <1>5, <2>2, <3>1
        <3> QED BY <1>1, <1>5, <3>2
    <2> QED BY <2>1, <2>2
<1>9. \A a \in Account : idOf[a] < i
    BY <1>3 DEF NextId
<1>10. IdsTellApart'
    <2>1. \A a, b \in Account : idOf'[a] = idOf'[b] /\ idOf'[a] # 0 => a = b
        BY <1>2, <1>4, <1>5, <1>6, <1>9
    <2>2. \A a \in Account : idOf'[a] <= a /\ (idOf'[a] # 0 => a <= born')
        BY <1>1, <1>2, <1>4, <1>6, <1>8
    <2> QED BY <2>1, <2>2 DEF IdsTellApart, Alive
<1>11. Moved
    BY <1>1, <1>6, <1>10 DEF Moved
<1> QED BY <1>1, <1>5, <1>6, <1>7, <1>11

LEMMA RemoveAccountIs ==
    ASSUME SettingsIInv, NEW a \in Account, RemoveAccount(a)
    PROVE  /\ Moved /\ born' = born /\ idOf'[a] = 0
           /\ \A b \in Account : b # a => idOf'[b] = idOf[b]
<1>1. idOf \in [Account -> RowId] /\ born \in RowId /\ 0 \in RowId /\ born <= born
    BY AccountIs DEF SettingsIInv, SettingsTypeOK
<1>2. /\ idOf' \in IdTable /\ born' = born /\ idOf'[a] = 0
      /\ \A b \in Account : b # a => idOf'[b] = idOf[b]
    BY <1>1 DEF RemoveAccount, IdTable
<1>3. IdsTellApart'
    <2>1. \A b \in Account : 0 <= b
        BY AccountIs
    <2> QED BY <1>2, <2>1 DEF IdsTellApart, Alive, SettingsIInv
<1> QED BY <1>1, <1>2, <1>3 DEF Moved

LEMMA TeamMoves ==
    ASSUME SettingsIInv, UNCHANGED team \/ MakeAccount \/ \E a \in Account : RemoveAccount(a)
    PROVE  Moved
<1>1. CASE UNCHANGED team
    <2>1. idOf \in IdTable /\ born \in RowId /\ born <= born
        BY AccountIs DEF SettingsIInv, SettingsTypeOK, IdTable
    <2> QED BY <1>1, <2>1 DEF SettingsIInv, IdsTellApart, Alive, Moved, team
<1> QED BY <1>1, MakeAccountIs, RemoveAccountIs

\* Who is named keeps the id it was named with.
LEMMA NamesKeep ==
    ASSUME SettingsIInv, Moved
    PROVE  /\ \A r \in Row : RowTrue(r) => RowTrue(r)'
           /\ FormsSound /\ UNCHANGED rowForms => FormsSound'
           /\ \A c \in Management \cup {NoManagement} : RequestMeant(c) => RequestMeant(c)'
<1>1. born \in Nat /\ born' \in Nat /\ born <= born' /\ resetPassword \in RowId
    BY AccountIs DEF SettingsIInv, SettingsTypeOK, Moved
<1>2. ASSUME NEW a \in RowId, a <= born
      PROVE  a <= born' /\ (a # 0 /\ Alive(a)' => Alive(a) /\ idOf'[a] = idOf[a])
    <2>1. a \in Nat /\ (a # 0 => a \in Account)
        BY <1>2, TeamBound DEF RowId, Account
    <2>2. ~(a = born' /\ born < born')
        BY <1>1, <1>2, <2>1
    <2> QED BY <1>1, <1>2, <2>1, <2>2 DEF Moved, Alive
<1>3. \A r \in Row : RowTrue(r) => RowTrue(r)'
    BY <1>2, AccountIs DEF RowTrue, Alive
<1>4. FormsSound /\ UNCHANGED rowForms => FormsSound'
    BY <1>1, <1>2 DEF FormsSound, rowForms, Alive
<1>5. \A c \in Management \cup {NoManagement} : RequestMeant(c) => RequestMeant(c)'
    BY <1>2, NoManagementIs DEF RequestMeant, Alive
<1> QED BY <1>3, <1>4, <1>5

\* A request that is answered with true rows.
AnsweredSoundly(s) ==
    LET c == managing'[s] IN
    /\ c.op = managing[s].op /\ c.answer # "none"
    /\ \A r \in RowsOf(c.rows) : RowTrue(r)'
    /\ c.op \in {"add", "toggle"} /\ c.answer = "ok" => Len(c.rows) = 1
    /\ c.op = "load" => OldestFirst(c.rows)

LEMMA TeamServerKeeps ==
    ASSUME SettingsIInv, Moved, calm' \in Calm,
           UNCHANGED <<users, usersLoading, adding, rowForms>>,
           managing' \in Requests,
           \A t \in Slot : managing'[t] = managing[t] \/ AnsweredSoundly(t),
           calm' # "disturbed" => Apart',
           OnePatchAtATime'
    PROVE  SettingsIInv'
<1>1. SettingsTypeOK'
    BY DEF SettingsIInv, SettingsTypeOK, rowForms, Moved, IdTable, Requests
<1>2. OneAtATime'
    <2>1. \A t \in Slot : managing'[t].op = managing[t].op
        BY DEF AnsweredSoundly
    <2> QED BY <2>1 DEF SettingsIInv, OneAtATime
<1>3. RowsSound' /\ MeantAccount'
    <2>1. \A r \in InPlay' : RowTrue(r)'
        <3> SUFFICES ASSUME NEW r \in InPlay' PROVE RowTrue(r)'
            OBVIOUS
        <3>1. r \in InPlay \/ \E t \in Slot : AnsweredSoundly(t) /\ r \in RowsOf(managing'[t].rows)
            BY InPlayIs
        <3>2. CASE r \in InPlay
            <4>1. r \in Row
                BY <1>1, InPlayIs, NoManagementIs DEF SettingsTypeOK, RowsOf
            <4> QED BY <3>2, <4>1, NamesKeep, SoundIs DEF SettingsIInv, Sound
        <3> QED BY <3>1, <3>2 DEF AnsweredSoundly
    <2>2. FormsSound'
        BY NamesKeep, SoundIs DEF SettingsIInv, Sound
    <2>3. \A t \in Slot : RequestMeant(managing[t])'
        <3> SUFFICES ASSUME NEW t \in Slot, managing'[t] = managing[t]
                     PROVE  RequestMeant(managing[t])'
            BY DEF RequestMeant, AnsweredSoundly
        <3>1. managing[t] \in Management \cup {NoManagement} /\ RequestMeant(managing[t])
            BY SoundIs DEF SettingsIInv, SettingsTypeOK, Sound
        <3> QED BY <3>1, NamesKeep DEF RequestMeant, Alive
    <2> QED BY <2>1, <2>2, <2>3, SoundIs DEF Sound
<1>4. AnswersComplete'
    BY DEF SettingsIInv, AnswersComplete, AnsweredSoundly
<1>5. NoneTwice'
    BY NoneTwiceIs
<1> QED BY <1>1, <1>2, <1>3, <1>4, <1>5 DEF SettingsIInv, Moved

LEMMA OthersManageKeeps == ASSUME SettingsIInv, OthersManage PROVE SettingsIInv'
<1>1. Moved
    BY TeamMoves DEF OthersManage
<1>2. calm' = "disturbed"
    BY DEF OthersManage, Disturb
<1>3. OnePatchAtATime' /\ calm' \in Calm
    BY <1>2 DEF OnePatchAtATime, Calm
<1>4. managing' \in Requests
    BY DEF OthersManage, SettingsIInv, SettingsTypeOK, Requests
<1> QED BY <1>1, <1>2, <1>3, <1>4, TeamServerKeeps DEF OthersManage

LEMMA ObeyMoves ==
    ASSUME SettingsIInv, NEW c \in Management, Obey(c)
    PROVE  Moved
<1>1. UNCHANGED team \/ MakeAccount \/ \E a \in Account : RemoveAccount(a)
    BY DEF Obey, Target
<1> QED BY <1>1, TeamMoves

LEMMA AnswerIn == "ok" \in Answer /\ "refused" \in Answer /\ << >> \in Seq(Row)
BY DEF Answer

LEMMA ManagingFailsKeeps == ASSUME SettingsIInv, NEW s \in Slot, ManagingFails(s) PROVE SettingsIInv'
<1>1. managing[s].op # "none" /\ managing' = Answered(s, "refused", << >>)
    BY DEF ManagingFails
<1>2. Moved
    <2>1. managing[s] \in Management
        BY <1>1, OnTheWire
    <2> QED BY <2>1, ObeyMoves, TeamMoves DEF ManagingFails
<1>3. calm' = "disturbed"
    BY DEF ManagingFails, Disturb
<1>4. OnePatchAtATime' /\ calm' \in Calm
    BY <1>3 DEF OnePatchAtATime, Calm
<1>5. managing' \in Requests /\ \A t \in Slot : managing'[t] = managing[t] \/ AnsweredSoundly(t)
    BY <1>1, OnTheWire, AnswerIn, AnsweredIs, NoManagementIs DEF AnsweredSoundly, AnsweredWith
<1> QED BY <1>2, <1>3, <1>4, <1>5, TeamServerKeeps DEF ManagingFails

LEMMA RefuseManagingKeeps == ASSUME SettingsIInv, NEW s \in Slot, RefuseManaging(s) PROVE SettingsIInv'
<1> DEFINE c == managing[s]
           d == managing'[s]
<1>1. /\ c.op # "none" /\ c.op # "load" /\ c.answer = "none"
      /\ managing' = Answered(s, "refused", << >>)
      /\ UNCHANGED <<users, usersLoading, adding, rowForms, team, calm>>
    BY DEF RefuseManaging, Refusable
<1>2. Moved
    BY <1>1, TeamMoves
<1>3. /\ managing' \in Requests /\ \A t \in Slot : t # s => managing'[t] = managing[t]
      /\ d.op = c.op /\ d.answer = "refused" /\ d.rows = << >> /\ d.stale = c.stale
    BY <1>1, OnTheWire, AnswerIn, AnsweredIs DEF AnsweredWith
<1>4. \A t \in Slot : managing'[t] = managing[t] \/ AnsweredSoundly(t)
    BY <1>1, <1>3, NoManagementIs DEF AnsweredSoundly
<1>5. InPlay' \subseteq InPlay
    BY <1>1, <1>3, InPlayIs, NoManagementIs
<1>6. calm' # "disturbed" => Apart'
    BY <1>1, <1>3, <1>5, RowsKeep, NoneTwiceIs DEF SettingsIInv, Apart, NoRowTwice, NewToList
<1>7. OnePatchAtATime'
    <2> SUFFICES ASSUME calm = "calm" PROVE OnePatchAtATime'
        BY <1>1 DEF OnePatchAtATime
    <2>1. OnePatchShort(c) /\ \A t \in Slot : t # s => managing[t] = NoManagement
        BY <1>1, OnTheWire, TheOne DEF SettingsIInv
    <2>2. TeamRows' = TeamRows /\ users' = users
        BY <1>1, <1>5, RowsKeep
    <2>3. OnePatchShort(managing[s])'
        BY <1>1, <1>3, <2>1, <2>2 DEF OnePatchShort
    <2> QED BY <1>3, <2>1, <2>3 DEF OnePatchAtATime
<1>8. calm' \in Calm
    BY <1>1 DEF SettingsIInv, SettingsTypeOK
<1> QED BY <1>1, <1>2, <1>3, <1>4, <1>6, <1>7, <1>8, TeamServerKeeps

LEMMA TeamRowsIs ==
    /\ TeamRows = RowsIn(idOf, InTeam(idOf)) /\ TeamRows' = RowsIn(idOf', InTeam(idOf'))
    /\ \A ids, a : RowIn(ids, a).id = ids[a] /\ RowIn(ids, a).who = a
BY DEF TeamRows, RowsIn, RowIn

\* What ServeManaging does, and with which rows it answers.
LEMMA ServedIs ==
    ASSUME SettingsIInv, NEW s \in Slot, ServeManaging(s)
    PROVE  /\ managing[s].op # "none" /\ managing[s].answer = "none" /\ managing[s] \in Management
           /\ Obey(managing[s]) /\ Moved
           /\ UNCHANGED <<users, usersLoading, adding, rowForms>>
           /\ calm' \in Calm /\ (calm' # "disturbed" => calm' = calm /\ ~IdCameBack)
           /\ \E rows \in Roster(idOf', AnswerRows(managing[s])) :
                  /\ rows \in Seq(Row) /\ OldestFirst(rows)
                  /\ RowsOf(rows) = RowsIn(idOf', AnswerRows(managing[s]))
                  /\ managing' \in Requests
                  /\ \A t \in Slot : t # s => managing'[t] = managing[t]
                  /\ AnsweredWith(managing'[s], managing[s], "ok", rows)
<1>1. /\ managing[s].op # "none" /\ managing[s].answer = "none" /\ Obey(managing[s])
      /\ UNCHANGED <<users, usersLoading, adding, rowForms>>
      /\ calm' = IF IdCameBack THEN "disturbed" ELSE calm
    BY DEF ServeManaging
<1>2. managing \in Requests /\ managing[s] \in Management
    BY <1>1, OnTheWire
<1>3. Moved
    BY <1>1, <1>2, ObeyMoves
<1>4. calm' \in Calm /\ (calm' # "disturbed" => calm' = calm /\ ~IdCameBack)
    BY <1>1 DEF SettingsIInv, SettingsTypeOK, Calm
<1>5. PICK rows \in Roster(idOf', AnswerRows(managing[s])) : managing' = Answered(s, "ok", rows)
    BY DEF ServeManaging
<1>6. AnswerRows(managing[s]) \in SUBSET InTeam(idOf') /\ idOf' \in IdTable
    BY <1>3 DEF AnswerRows, Moved
<1>7. /\ rows \in Seq(Row) /\ OldestFirst(rows)
      /\ RowsOf(rows) = RowsIn(idOf', AnswerRows(managing[s]))
    BY <1>6, RosterIs
<1>8. /\ managing' \in Requests /\ \A t \in Slot : t # s => managing'[t] = managing[t]
      /\ AnsweredWith(managing'[s], managing[s], "ok", rows)
    BY <1>1, <1>2, <1>5, <1>7, AnswerIn, AnsweredIs
<1> QED BY <1>1, <1>2, <1>3, <1>4, <1>7, <1>8

\* The team that a request leaves, and the row it is answered with.
LEMMA ObeyedIs ==
    ASSUME SettingsIInv, NEW c \in Management, Obey(c)
    PROVE  /\ c.op \in {"load", "toggle", "reset"} => UNCHANGED team
           /\ c.op = "load" => AnswerRows(c) = InTeam(idOf')
           /\ c.op = "add" => MakeAccount /\ AnswerRows(c) = {born'} /\ born' \in InTeam(idOf')
           /\ c.op = "toggle" => \E a \in InTeam(idOf') : AnswerRows(c) = {a}
           /\ c.op = "delete" => \E a \in Account : idOf[a] = c.id /\ Alive(a) /\ RemoveAccount(a)
<1>1. c.op \in {"load", "toggle", "reset"} => UNCHANGED team
    BY DEF Obey
<1>2. c.op = "load" => AnswerRows(c) = InTeam(idOf')
    BY DEF AnswerRows
<1>3. c.op = "add" => MakeAccount /\ AnswerRows(c) = {born'} /\ born' \in InTeam(idOf')
    <2> SUFFICES ASSUME c.op = "add"
                 PROVE  MakeAccount /\ AnswerRows(c) = {born'} /\ born' \in InTeam(idOf')
        OBVIOUS
    <2>1. MakeAccount
        BY DEF Obey
    <2>2. born' \in InTeam(idOf')
        BY <2>1, MakeAccountIs DEF InTeam
    <2> QED BY <2>1, <2>2 DEF AnswerRows
<1>4. c.op = "toggle" => \E a \in InTeam(idOf') : AnswerRows(c) = {a}
    <2> SUFFICES ASSUME c.op = "toggle" PROVE \E a \in InTeam(idOf') : AnswerRows(c) = {a}
        OBVIOUS
    <2>1. PICK a \in Account : Alive(a) /\ idOf[a] = c.id /\ idOf' = idOf
        BY DEF Obey, Target, team
    <2>2. a \in InTeam(idOf')
        BY <2>1 DEF InTeam, Alive
    <2>3. \A b \in InTeam(idOf') : idOf'[b] = c.id <=> b = a
        BY <2>1 DEF InTeam, SettingsIInv, IdsTellApart, Alive
    <2> QED BY <2>2, <2>3 DEF AnswerRows
<1>5. c.op = "delete" => \E a \in Account : idOf[a] = c.id /\ Alive(a) /\ RemoveAccount(a)
    BY DEF Obey, Target
<1> QED BY <1>1, <1>2, <1>3, <1>4, <1>5

\* The rows answered with are true, and one where the screen wants one.
LEMMA ServedSoundly ==
    ASSUME SettingsIInv, NEW s \in Slot, ServeManaging(s)
    PROVE  AnsweredSoundly(s)
<1> DEFINE c == managing[s]
<1>1. c \in Management /\ Obey(c) /\ Moved
    BY ServedIs
<1>2. PICK rows \in Roster(idOf', AnswerRows(c)) :
          /\ OldestFirst(rows) /\ RowsOf(rows) = RowsIn(idOf', AnswerRows(c))
          /\ AnsweredWith(managing'[s], c, "ok", rows)
    BY ServedIs
<1>3. ASSUME NEW r \in RowsOf(rows) PROVE RowTrue(r)'
    <2>1. PICK a \in InTeam(idOf') : r = RowIn(idOf', a)
        BY <1>2 DEF RowsIn, AnswerRows
    <2>2. idOf'[a] <= a /\ a <= born'
        BY <1>1, <2>1 DEF Moved, IdsTellApart, InTeam, Alive
    <2> QED BY <2>1, <2>2, TeamRowsIs DEF RowTrue
<1>4. c.op \in {"add", "toggle"} => Len(rows) = 1
    <2> SUFFICES ASSUME c.op \in {"add", "toggle"} PROVE Len(rows) = 1
        OBVIOUS
    <2>1. PICK a \in InTeam(idOf') : AnswerRows(c) = {a}
        BY <1>1, ObeyedIs
    <2>2. rows \in Roster(idOf', {a}) /\ idOf' \in IdTable
        BY <1>1, <2>1 DEF Moved
    <2> QED BY <2>2, RosterOfOne
<1> QED BY <1>2, <1>3, <1>4 DEF AnsweredSoundly, AnsweredWith

\* A row that is new is of an account of now, with its id; an id that was not
\* there before is above all that are in play.
LEMMA ServedApart ==
    ASSUME SettingsIInv, NEW s \in Slot, ServeManaging(s), calm' # "disturbed"
    PROVE  Apart'
<1> DEFINE c == managing[s]
<1>1. /\ c \in Management /\ Obey(c) /\ Moved /\ users' = users
      /\ calm # "disturbed" /\ ~IdCameBack
    BY ServedIs
<1>2. PICK rows \in Roster(idOf', AnswerRows(c)) :
          /\ RowsOf(rows) = RowsIn(idOf', AnswerRows(c))
          /\ \A t \in Slot : t # s => managing'[t] = managing[t]
          /\ AnsweredWith(managing'[s], c, "ok", rows)
    BY ServedIs
<1>3. OneMeaning /\ NoRowTwice /\ \A t \in Slot : NewToList(managing[t])
    BY <1>1, NoneTwiceIs DEF SettingsIInv, Apart
<1>4. \A r \in InPlay' : r \in InPlay \/ \E a \in InTeam(idOf') : r = RowIn(idOf', a)
    <2> SUFFICES ASSUME NEW r \in InPlay', r \notin InPlay
                 PROVE  \E a \in InTeam(idOf') : r = RowIn(idOf', a)
        OBVIOUS
    <2>1. r \in RowsOf(rows)
        BY <1>1, <1>2, InPlayIs DEF AnsweredWith
    <2> QED BY <1>2, <2>1 DEF RowsIn, AnswerRows
<1>5. born \in Nat /\ \A r \in InPlay : r \in Row /\ RowTrue(r) /\ r.id \in Nat /\ r.who \in Nat /\ r.id # 0
    <2>1. \A r \in InPlay : r \in Row
        BY InPlayIs, NoManagementIs DEF SettingsIInv, SettingsTypeOK, RowsOf
    <2>2. \A r \in InPlay : RowTrue(r)
        BY SoundIs DEF SettingsIInv, Sound
    <2> QED BY <2>1, <2>2, AccountIs DEF SettingsIInv, SettingsTypeOK
<1>6. \A r \in InPlay, a \in Account : idOf'[a] = r.id => a = r.who
    <2> SUFFICES ASSUME NEW r \in InPlay, NEW a \in Account, idOf'[a] = r.id PROVE a = r.who
        OBVIOUS
    <2>1. r.id # 0 /\ r.id <= born /\ r.id \in Nat
        BY <1>5 DEF RowTrue
    <2>2. CASE idOf'[a] \in {0, idOf[a]}
        BY <1>3, <2>1, <2>2 DEF OneMeaning
    <2>3. CASE a = born' /\ born < born'
        <3>1. idOf'[a] = born'
            BY <1>1, <1>5, <2>3 DEF IdCameBack
        <3> QED BY <1>5, <2>1, <2>3, <3>1
    <2> QED BY <1>1, <2>2, <2>3 DEF Moved
<1>7. \A a \in InTeam(idOf'), b \in Account : idOf'[b] = idOf'[a] => b = a
    BY <1>1 DEF Moved, IdsTellApart, InTeam, Alive
<1>8. \A r \in InPlay', a \in Account : idOf'[a] = r.id => a = r.who
    BY <1>4, <1>6, <1>7, TeamRowsIs
<1>9. \A r, q \in InPlay' : r.id = q.id => r.who = q.who
    <2> SUFFICES ASSUME NEW r \in InPlay', NEW q \in InPlay', r.id = q.id PROVE r.who = q.who
        OBVIOUS
    <2>1. CASE r \in InPlay /\ q \in InPlay
        BY <1>3, <2>1 DEF OneMeaning
    <2>2. ASSUME NEW a \in InTeam(idOf'), r = RowIn(idOf', a) PROVE r.who = q.who
        <3>1. a \in Account /\ idOf'[a] = q.id
            BY <2>2, TeamRowsIs DEF InTeam
        <3> QED BY <1>8, <2>2, <3>1, TeamRowsIs
    <2>3. ASSUME NEW a \in InTeam(idOf'), q = RowIn(idOf', a) PROVE r.who = q.who
        <3>1. a \in Account /\ idOf'[a] = r.id
            BY <2>3, TeamRowsIs DEF InTeam
        <3> QED BY <1>8, <2>3, <3>1, TeamRowsIs
    <2> QED BY <1>4, <2>1, <2>2, <2>3
<1>10. NewToList(managing[s])'
    <2> SUFFICES ASSUME c.op = "add", NEW r \in RowsOf(users) PROVE r.who # rows[1].who
        BY <1>1, <1>2 DEF NewToList, AnsweredWith
    <2>1. /\ born' = born + 1 /\ rows \in Roster(idOf', {born'}) /\ born' \in InTeam(idOf')
          /\ idOf' \in IdTable
        BY <1>1, ObeyedIs, MakeAccountIs DEF Moved
    <2>2. rows[1].who = born'
        BY <2>1, RosterOfOne, TeamRowsIs
    <2>3. r.who <= born /\ r.who \in Nat
        BY <1>5, InPlayIs DEF RowTrue
    <2> QED BY <1>5, <2>1, <2>2, <2>3
<1>11. \A t \in Slot : t # s => NewToList(managing[t])'
    BY <1>1, <1>2, <1>3 DEF NewToList
<1>12. OneMeaning' /\ NoRowTwice'
    BY <1>1, <1>3, <1>8, <1>9 DEF OneMeaning, NoRowTwice
<1> QED BY <1>10, <1>11, <1>12 DEF Apart

\* What the answer leaves to be done is what the request has changed.
LEMMA ServedLeavesOnePatch ==
    ASSUME SettingsIInv, NEW s \in Slot, ServeManaging(s)
    PROVE  OnePatchAtATime'
<1> SUFFICES ASSUME calm' = "calm" PROVE OnePatchAtATime'
    BY DEF OnePatchAtATime
<1> DEFINE c == managing[s]
           d == managing'[s]
<1>1. /\ c \in Management /\ c.op # "none" /\ c.answer = "none" /\ Obey(c) /\ Moved
      /\ users' = users /\ calm = "calm"
    BY ServedIs
<1>2. PICK rows \in Roster(idOf', AnswerRows(c)) :
          /\ RowsOf(rows) = RowsIn(idOf', AnswerRows(c))
          /\ \A t \in Slot : t # s => managing'[t] = managing[t]
          /\ AnsweredWith(d, c, "ok", rows)
    BY ServedIs
<1>3. OnePatchShort(c) /\ \A t \in Slot : t # s => managing[t] = NoManagement
    BY <1>1, NoManagementIs, TheOne DEF SettingsIInv
<1>4. d.op = c.op /\ d.answer = "ok" /\ d.rows = rows /\ d.stale = c.stale /\ idOf' \in IdTable
    BY <1>1, <1>2 DEF AnsweredWith, Moved
<1>5. CASE c.op = "load"
    <2>1. RowsOf(rows) = TeamRows'
        BY <1>1, <1>2, <1>5, ObeyedIs, TeamRowsIs
    <2> QED BY <1>2, <1>3, <1>4, <1>5, <2>1 DEF OnePatchAtATime, OnePatchShort
<1>6. CASE c.op = "add"
    <2>1. OldestFirst(users) /\ ~c.stale /\ RowsOf(users) = TeamRows
        BY <1>1, <1>3, <1>6 DEF OnePatchShort
    <2>2. /\ MakeAccount /\ rows \in Roster(idOf', {born'}) /\ born' \in InTeam(idOf')
        BY <1>1, <1>6, ObeyedIs
    <2>3. rows[1] = RowIn(idOf', born')
        BY <1>4, <2>2, RosterOfOne
    <2>4. /\ born' = born + 1 /\ idOf[born'] = 0
          /\ \A a \in Account : a # born' => idOf'[a] = idOf[a]
        BY <2>2, MakeAccountIs
    <2>5. InTeam(idOf') = InTeam(idOf) \cup {born'} /\ born' \notin InTeam(idOf)
        BY <2>2, <2>4 DEF InTeam
    <2>6. TeamRows' = TeamRows \cup {rows[1]}
        <3>1. \A a \in InTeam(idOf) : RowIn(idOf', a) = RowIn(idOf, a)
            BY <2>4, <2>5 DEF RowIn, InTeam
        <3> QED BY <2>3, <2>5, <3>1, TeamRowsIs DEF RowsIn
    <2>7. \A r \in RowsOf(users) : r.who < rows[1].who
        <3> SUFFICES ASSUME NEW r \in RowsOf(users) PROVE r.who < rows[1].who
            OBVIOUS
        <3>1. r.who <= born /\ r.who \in Nat /\ born \in Nat
            <4>1. r \in InPlay /\ r \in Row
                BY InPlayIs DEF SettingsIInv, SettingsTypeOK, RowsOf
            <4> QED BY <4>1, AccountIs, SoundIs DEF SettingsIInv, SettingsTypeOK, Sound, RowTrue
        <3> QED BY <2>3, <2>4, <3>1, TeamRowsIs
    <2>8. OnePatchShort(managing[s])'
        BY <1>1, <1>4, <1>6, <2>1, <2>6, <2>7 DEF OnePatchShort
    <2> QED BY <1>2, <1>3, <2>8 DEF OnePatchAtATime
<1>7. CASE c.op = "delete"
    <2>1. OldestFirst(users) /\ RowsOf(users) = TeamRows
        BY <1>1, <1>3, <1>7 DEF OnePatchShort
    <2>2. PICK a \in Account : idOf[a] = c.id /\ Alive(a) /\ RemoveAccount(a)
        BY <1>1, <1>7, ObeyedIs
    <2>3. idOf'[a] = 0 /\ \A b \in Account : b # a => idOf'[b] = idOf[b]
        BY <2>2, RemoveAccountIs
    <2>4. \A b \in InTeam(idOf) : idOf[b] # c.id <=> b # a
        BY <2>2 DEF InTeam, SettingsIInv, IdsTellApart, Alive
    <2>5. InTeam(idOf') = {b \in InTeam(idOf) : idOf[b] # c.id}
        BY <2>3, <2>4 DEF InTeam
    <2>6. \A b \in InTeam(idOf') : RowIn(idOf', b) = RowIn(idOf, b)
        BY <2>3, <2>4, <2>5 DEF RowIn, InTeam
    <2>7. {r \in TeamRows : r.id # c.id} = TeamRows'
        BY <2>5, <2>6, TeamRowsIs DEF RowsIn
    <2>8. d.id = c.id
        BY <1>2, <1>7 DEF AnsweredWith
    <2>9. OnePatchShort(managing[s])'
        BY <1>1, <1>4, <1>7, <2>1, <2>7, <2>8 DEF OnePatchShort
    <2> QED BY <1>2, <1>3, <2>9 DEF OnePatchAtATime
<1>8. CASE c.op \in {"toggle", "reset"}
    <2>1. OldestFirst(users) /\ RowsOf(users) = TeamRows
        BY <1>3, <1>8 DEF OnePatchShort
    <2>2. TeamRows' = TeamRows
        BY <1>1, <1>8, ObeyedIs DEF TeamRows, team
    <2>3. c.op = "toggle" => rows[1] \in TeamRows'
        <3> SUFFICES ASSUME c.op = "toggle" PROVE rows[1] \in TeamRows'
            OBVIOUS
        <3>1. PICK a \in InTeam(idOf') : AnswerRows(c) = {a}
            BY <1>1, ObeyedIs
        <3>2. rows[1] = RowIn(idOf', a)
            BY <1>4, <3>1, RosterOfOne
        <3> QED BY <3>2, TeamRowsIs DEF RowsIn
    <2>4. OnePatchShort(managing[s])'
        BY <1>1, <1>4, <1>8, <2>1, <2>2, <2>3 DEF OnePatchShort
    <2> QED BY <1>2, <1>3, <2>4 DEF OnePatchAtATime
<1> QED BY <1>1, <1>5, <1>6, <1>7, <1>8 DEF Management

LEMMA ServeManagingKeeps == ASSUME SettingsIInv, NEW s \in Slot, ServeManaging(s) PROVE SettingsIInv'
<1>1. Moved /\ UNCHANGED <<users, usersLoading, adding, rowForms>> /\ calm' \in Calm
    BY ServedIs
<1>2. managing' \in Requests /\ \A t \in Slot : t # s => managing'[t] = managing[t]
    BY ServedIs
<1>3. AnsweredSoundly(s)
    BY ServedSoundly
<1>4. calm' # "disturbed" => Apart'
    BY ServedApart
<1>5. OnePatchAtATime'
    BY ServedLeavesOnePatch
<1> QED BY <1>1, <1>2, <1>3, <1>4, <1>5, TeamServerKeeps

-----------------------------------------------------------------------------
(* The screen as it is opened. *)

Opened ==
    /\ users = << >> /\ usersLoading = TRUE /\ adding = FALSE
    /\ confirmingDeleteId = 0 /\ resettingId = 0 /\ resetPassword = 0
    /\ managing = Loading /\ calm = "calm"
    /\ idOf \in IdTable /\ born \in RowId /\ IdsTellApart

LEMMA OpenedIs == Opened => SettingsIInv
<1> SUFFICES ASSUME Opened PROVE SettingsIInv
    OBVIOUS
<1> DEFINE c == Managed("load", 0, 0)
<1>1. /\ c \in Management /\ c.op = "load" /\ c.id = 0 /\ c.who = 0 /\ c.answer = "none"
      /\ c.stale = FALSE /\ c.rows = << >>
    BY NoManagementIs DEF Managed, Management, Answer
<1>2. managing = [s \in Slot |-> IF s = 1 THEN c ELSE NoManagement]
    BY DEF Opened, Loading
<1> HIDE DEF c
<1>3. /\ managing \in Requests /\ managing[1] = c /\ 1 \in Slot
      /\ \A s \in Slot : s # 1 => managing[s] = NoManagement
    BY <1>1, <1>2 DEF Requests, Slot
<1>4. SettingsTypeOK
    <2>1. users \in Seq(Row) /\ calm \in Calm
        BY AnswerIn DEF Opened, Calm
    <2> QED BY <1>3, <2>1, AccountIs DEF Opened, SettingsTypeOK, Requests, IdTable
<1>5. OneAtATime
    BY <1>1, <1>3, NoManagementIs DEF Opened, OneAtATime
<1>6. \A r : r \notin InPlay
    BY <1>1, <1>3, InPlayIs, NoManagementIs DEF Opened
<1>7. RowsSound /\ MeantAccount
    BY <1>1, <1>3, <1>6, AccountIs, NoManagementIs DEF Opened, RowsSound, MeantAccount
<1>8. AnswersComplete
    BY <1>1, <1>3, NoManagementIs DEF AnswersComplete
<1>9. NoneTwice
    BY <1>1, <1>3, <1>6, NoManagementIs DEF Opened, NoneTwice
<1>10. OnePatchAtATime
    BY <1>1, <1>3 DEF OnePatchAtATime, OnePatchShort
<1> QED BY <1>4, <1>5, <1>7, <1>8, <1>9, <1>10 DEF SettingsIInv, Opened

LEMMA SettingsStart == SettingsInit => SettingsIInv
<1> SUFFICES ASSUME SettingsInit PROVE Opened
    BY OpenedIs
<1>1. born \in RowId /\ idOf = [a \in Account |-> IF a <= born THEN a ELSE 0]
    BY DEF SettingsInit
<1>2. \A a \in Account : a \in Nat /\ a # 0 /\ a \in RowId
    BY AccountIs
<1>3. idOf \in IdTable
    BY <1>1, <1>2, AccountIs DEF IdTable
<1>4. IdsTellApart
    BY <1>1, <1>2, AccountIs DEF IdsTellApart, Alive
<1> QED BY <1>1, <1>3, <1>4 DEF SettingsInit, Opened

LEMMA ReopenOpens == ASSUME SettingsIInv, Reopen PROVE Opened'
<1>1. idOf \in IdTable /\ born \in RowId /\ IdsTellApart
    BY DEF SettingsIInv, SettingsTypeOK, IdTable
<1> QED BY <1>1 DEF Reopen, Opened, team, IdsTellApart, Alive

\* What happens elsewhere is nothing to the screen.
LEMMA SettingsIdles ==
    ASSUME SettingsIInv, UNCHANGED <<users, usersLoading, adding, rowForms, managing, team, calm>>
    PROVE  SettingsIInv'
<1>1. FormsTyped' /\ FormsSound'
    BY SoundIs DEF SettingsIInv, SettingsTypeOK, Sound, FormsTyped, FormsSound, Alive, rowForms, team
<1> QED BY <1>1, FormKeeps

LEMMA SettingsKeeps ==
    ASSUME SettingsIInv, [SettingsNext]_settingsVars
    PROVE  SettingsIInv' \/ Opened'
<1>1. CASE CancelDelete \/ Reopen \/ OthersManage
    BY <1>1, CancelDeleteKeeps, ReopenOpens, OthersManageKeeps
<1>2. ASSUME NEW i \in 1 .. Len(users),
             \/ AskDelete(users[i]) \/ OpenReset(users[i]) \/ TypePassword(users[i])
             \/ \E s \in Slot : \/ ToggleAdmin(s, users[i]) \/ RemoveUser(s, users[i])
                                \/ SubmitReset(s, users[i])
      PROVE  SettingsIInv'
    BY <1>2, RowFormsKeep, RowRequestsKeep
<1>3. ASSUME NEW s \in Slot,
             \/ AddUser(s) \/ ReceiveTeam(s) \/ ReceiveAdded(s) \/ ReceiveToggled(s)
             \/ ReceiveRemoved(s) \/ ReceiveReset(s) \/ ServeManaging(s) \/ RefuseManaging(s)
             \/ ManagingFails(s)
      PROVE  SettingsIInv'
    BY <1>3, AddUserKeeps, ReceiveTeamKeeps, ReceiveAddedKeeps, ReceiveToggledKeeps,
       ReceiveRemovedKeeps, ReceiveResetKeeps, ServeManagingKeeps, RefuseManagingKeeps,
       ManagingFailsKeeps
<1>4. CASE UNCHANGED settingsVars
    BY <1>4, SettingsIdles DEF settingsVars
<1> QED BY <1>1, <1>2, <1>3, <1>4 DEF SettingsNext

LEMMA SettingsInductive == SettingsIInv /\ [SettingsNext]_settingsVars => SettingsIInv'
<1>1. SettingsIInv /\ [SettingsNext]_settingsVars => SettingsIInv' \/ Opened'
    BY SettingsKeeps
<1> QED BY <1>1, OpenedIs, PTL

\* With nothing out, nothing is left to be patched.
LEMMA ListFollows == SettingsIInv => ListIsTrue
<1> SUFFICES ASSUME SettingsIInv PROVE ListIsTrue
    OBVIOUS
<1>1. ASSUME calm = "calm", \A s \in Slot : managing[s] = NoManagement
      PROVE  users \in Roster(idOf, InTeam(idOf))
    <2>1. OldestFirst(users) /\ RowsOf(users) = RowsIn(idOf, InTeam(idOf))
        BY <1>1, NoneOut, TeamRowsIs DEF SettingsIInv
    <2>2. users \in Seq(Row) /\ idOf \in IdTable
        BY DEF SettingsIInv, SettingsTypeOK, IdTable
    <2> QED BY <2>1, <2>2, RosterMade
<1>2. calm # "disturbed" => NoRowTwice
    BY NoneTwiceIs DEF SettingsIInv, Apart
<1> QED BY <1>1, <1>2 DEF ListIsTrue, NoRowTwice

\* The invariant of the team's screen, for any number of accounts.
THEOREM SettingsInvariance == SettingsSpec => []SettingsInv
<1>1. SettingsIInv => SettingsInv
    BY ListFollows DEF SettingsInv
<1> QED BY <1>1, SettingsStart, SettingsInductive, PTL DEF SettingsSpec

\* One request at a time patches the list to what the team is
\* (SettingsScreen.vue 80-139).
THEOREM ListTrue == SettingsSpec => []ListIsTrue
<1>1. SettingsInv => ListIsTrue
    BY DEF SettingsInv
<1> QED BY <1>1, SettingsInvariance, PTL

\* No request reaches another account than its row's while that one lives
\* (SettingsScreen.vue 115-154).
THEOREM AccountMeant == SettingsSpec => []MeantAccount
<1>1. SettingsInv => MeantAccount
    BY DEF SettingsInv, SettingsIInv
<1> QED BY <1>1, SettingsInvariance, PTL
=============================================================================
