---------------------------- MODULE VisitorProofs -----------------------------
(***************************************************************************)
(* What a visitor's browser runs: WidgetInv and ThreadInv are inductive,   *)
(* and TextLeavesStored follows from ThreadInv.                            *)
(*                                                                         *)
(* In the widget, the panel, the captcha and the form are disjoint groups  *)
(* of variables, and most actions touch one of them: a lemma for each      *)
(* group says what the others keep.  TokenSpentOnce rests on CaptchaSound: *)
(* a used token stays in the form only while a submission is out or after  *)
(* the thanks, and then nothing can be submitted.                          *)
(*                                                                         *)
(* On the thread page, ScreenIsCurrent is kept because an acknowledgement  *)
(* always starts a load (loading hides the thread until then), because no  *)
(* follow-up is out while the page loads, so that nothing is acknowledged  *)
(* after the server has answered the load, and because threads only grow   *)
(* (AnswersSound).  Links lead to threads that were begun because they     *)
(* come from answers (LinksLead), which a look-up of Shelf asks for.       *)
(***************************************************************************)
EXTENDS Widget, ThreadPage, TLAPS

LEMMA MishapCounts ==
    ASSUME mishaps \in Nat, Mishap \/ UNCHANGED mishaps
    PROVE  mishaps' \in Nat
BY DEF Mishap

-----------------------------------------------------------------------------
(* The widget. *)

LEMMA WidgetStart == WidgetInit /\ mishaps = 0 => WidgetInv
<1> SUFFICES ASSUME WidgetInit, mishaps = 0 PROVE WidgetInv
    OBVIOUS
<1> USE DEF WidgetInit
<1>1. WidgetTypeOK
    <2>1. submission \in [Slot -> Submission \cup {NoSubmission}]
        OBVIOUS
    <2>2. received \in [Draft -> Nat] /\ unanswered \in [Draft -> Nat]
        OBVIOUS
    <2>3. values \in DraftOrNone /\ thanked \in DraftOrNone /\ posted \in 0 .. MaxPosted
        BY PageBounds DEF DraftOrNone, MaxPosted, NoText
    <2> QED BY <2>1, <2>2, <2>3 DEF WidgetTypeOK, Captcha
<1>2. PanelSound /\ CaptchaSound
    BY DEF PanelSound, CaptchaSound
<1>3. TokenSpentOnce /\ OneSubmission
    BY DEF TokenSpentOnce, OneSubmission, Slot, NoSubmission
<1>4. EachStoredOnce
    BY DEF EachStoredOnce, ThanksDue, NoSubmission, Draft, NoText, One
<1> QED BY <1>1, <1>2, <1>3, <1>4 DEF WidgetInv

\* What is stored and what is due, from the variables they are made of.
LEMMA LedgerKeeps ==
    ASSUME EachStoredOnce, UNCHANGED <<ledger, submission, thanked>>
    PROVE  EachStoredOnce'
BY DEF EachStoredOnce, ThanksDue, ledger

LEMMA SubmissionKeeps ==
    ASSUME TokenSpentOnce, OneSubmission, UNCHANGED <<submission, submitting, sent, thanked>>
    PROVE  TokenSpentOnce' /\ OneSubmission'
BY DEF TokenSpentOnce, OneSubmission

\* A step of the panel either toggles it or leaves it, hides it, or is PressClose.
LEMMA ToggleMoves ==
    ASSUME WidgetTypeOK, Toggle
    PROVE  /\ isOpen' \in BOOLEAN /\ displayed' \in BOOLEAN /\ hideTimer' \in BOOLEAN /\ loaded' = TRUE
           /\ isOpen' <=> ~isOpen
           /\ displayed' <=> displayed \/ ~isOpen
           /\ hideTimer' <=> isOpen
           /\ mounting' = IF loaded THEN mounting ELSE "config"
<1>1. isOpen' \in BOOLEAN /\ (isOpen' <=> ~isOpen)
    BY Zenon DEF WidgetTypeOK, Toggle
<1>2. displayed' \in BOOLEAN /\ (displayed' <=> displayed \/ ~isOpen)
    BY Zenon DEF WidgetTypeOK, Toggle
<1>3. hideTimer' \in BOOLEAN /\ (hideTimer' <=> isOpen)
    BY Zenon DEF WidgetTypeOK, Toggle
<1> QED BY <1>1, <1>2, <1>3 DEF Toggle

\* The panel: clicks, keys, messages of the frame and the timer.
LEMMA PanelKeeps ==
    ASSUME WidgetInv, Click \/ Escape \/ TakeClose \/ Hide \/ PressClose
    PROVE  WidgetInv'
<1>1. /\ UNCHANGED Unmoved
      /\ posted' \in 0 .. MaxPosted
    BY DEF WidgetInv, WidgetTypeOK, Click, Escape, TakeClose, Hide, PressClose, Unmoved, captcha, MaxPosted
<1>2. \/ Toggle
      \/ UNCHANGED <<isOpen, displayed, hideTimer, loaded, mounting>>
      \/ hideTimer /\ hideTimer' = FALSE /\ displayed' = FALSE /\ UNCHANGED <<isOpen, loaded, mounting>>
    BY DEF Click, Escape, TakeClose, Hide, PressClose, panel, captcha
<1>3. /\ isOpen' \in BOOLEAN /\ displayed' \in BOOLEAN /\ hideTimer' \in BOOLEAN /\ loaded' \in BOOLEAN
      /\ mounting' \in {"off", "config", "script", "rendered", "failed", "done"}
      /\ PanelSound'
    <2>1. CASE Toggle
        BY <2>1, ToggleMoves DEF WidgetInv, WidgetTypeOK, PanelSound
    <2>2. CASE UNCHANGED <<isOpen, displayed, hideTimer, loaded, mounting>>
        BY <2>2 DEF WidgetInv, WidgetTypeOK, PanelSound
    <2>3. CASE hideTimer /\ hideTimer' = FALSE /\ displayed' = FALSE /\ UNCHANGED <<isOpen, loaded, mounting>>
        BY <2>3 DEF WidgetInv, WidgetTypeOK, PanelSound
    <2> QED BY <1>2, <2>1, <2>2, <2>3
<1>4. WidgetTypeOK'
    BY <1>1, <1>3 DEF WidgetInv, WidgetTypeOK, Unmoved, form, ledger
<1>5. TokenSpentOnce' /\ OneSubmission'
    BY <1>1, SubmissionKeeps DEF WidgetInv, Unmoved, form
<1>6. EachStoredOnce'
    BY <1>1, LedgerKeeps DEF WidgetInv, Unmoved, form
<1>7. CaptchaSound'
    <2>1. mounting' = mounting \/ (mounting = "off" /\ mounting' = "config")
        BY <1>2 DEF WidgetInv, PanelSound, Toggle
    <2> QED BY <1>1, <2>1 DEF WidgetInv, CaptchaSound, Unmoved, form
<1> QED BY <1>3, <1>4, <1>5, <1>6, <1>7 DEF WidgetInv

\* The captcha: what onMounted loads, and the callbacks.
LEMMA CaptchaKeeps ==
    ASSUME WidgetInv, ReceiveConfig \/ ReceiveScript \/ Solve \/ Expire
    PROVE  WidgetInv'
<1> USE DEF WidgetInv, WidgetTypeOK, ReceiveConfig, ReceiveScript, Solve, Expire, panel, form, ledger
<1>1. WidgetTypeOK'
    <2>1. mishaps' \in Nat
        BY MishapCounts
    <2>2. CASE ReceiveConfig
        BY <2>1, <2>2
    <2>3. CASE ReceiveScript
        <3>1. challenged' \in BOOLEAN
            BY <2>3
        <3> QED BY <2>1, <2>3, <3>1
    <2>4. CASE Solve
        <3>1. captchaToken' \in Captcha
            BY <2>4 DEF Captcha
        <3> QED BY <2>1, <2>4, <3>1
    <2>5. CASE Expire
        <3>1. captchaToken' \in Captcha
            BY <2>5 DEF Captcha
        <3> QED BY <2>1, <2>5, <3>1
    <2> QED BY <2>2, <2>3, <2>4, <2>5
<1>2. PanelSound'
    BY DEF PanelSound
<1>3. TokenSpentOnce' /\ OneSubmission'
    BY SubmissionKeeps
<1>4. EachStoredOnce'
    BY LedgerKeeps
<1>5. CaptchaSound'
    BY DEF CaptchaSound
<1> QED BY <1>1, <1>2, <1>3, <1>4, <1>5

LEMMA TypeMessageKeeps ==
    ASSUME WidgetInv, TypeMessage
    PROVE  WidgetInv'
<1> USE DEF WidgetInv, WidgetTypeOK, TypeMessage, panel, captcha, ledger
<1>1. WidgetTypeOK'
    BY PageBounds DEF DraftOrNone
<1>2. PanelSound'
    BY DEF PanelSound
<1>3. TokenSpentOnce' /\ OneSubmission'
    BY SubmissionKeeps
<1>4. EachStoredOnce'
    BY LedgerKeeps
<1>5. CaptchaSound'
    BY DEF CaptchaSound
<1> QED BY <1>1, <1>2, <1>3, <1>4, <1>5

\* The guards of submit() leave it a text, and a token that is fresh or none.
LEMMA SubmitKeeps ==
    ASSUME WidgetInv, NEW s \in Slot, Submit(s)
    PROVE  WidgetInv'
<1> DEFINE c == [text |-> values, token |-> captchaToken, answer |-> "none"]
<1> USE DEF WidgetInv, WidgetTypeOK, Submit, Post, panel, captcha, ledger
<1>1. s = 1 /\ \A t \in Slot : submission[t] = NoSubmission
    BY DEF OneSubmission, FreeSlot, Slot
<1>2. values \in Draft
    BY PageBounds DEF MaySubmit, NoText, DraftOrNone, Draft
<1>3. captchaToken # "used"
    BY DEF CaptchaSound, FormShown
<1>4. c \in Submission /\ c # NoSubmission /\ c.token # "used" /\ c.answer = "none"
    BY <1>2, <1>3 DEF Submission, NoSubmission, Answer, Draft
<1>5. submission' = [submission EXCEPT ![s] = c]
    OBVIOUS
<1> HIDE DEF c
<1>6. WidgetTypeOK'
    BY <1>4, <1>5 DEF Captcha
<1>7. PanelSound'
    BY DEF PanelSound
<1>8. TokenSpentOnce'
    BY <1>4, <1>5 DEF TokenSpentOnce
<1>9. EachStoredOnce'
    <2>1. \A t \in Slot : submission[t].answer # "ok" /\ submission'[t].answer # "ok"
        BY <1>1, <1>4, <1>5 DEF NoSubmission
    <2> QED BY <2>1 DEF EachStoredOnce, ThanksDue
<1>10. OneSubmission'
    BY <1>1, <1>4, <1>5 DEF OneSubmission, Slot, FormShown
<1>11. CaptchaSound'
    BY DEF CaptchaSound, FormShown
<1> QED BY <1>6, <1>7, <1>8, <1>9, <1>10, <1>11

\* Whoever answers a submission, the one that is out is the first.
LEMMA SubmissionIsFirst ==
    ASSUME WidgetInv, NEW s \in Slot, submission[s] # NoSubmission
    PROVE  s = 1 /\ submitting /\ ~sent /\ thanked = NoText /\ submission[s] \in Submission
BY DEF WidgetInv, WidgetTypeOK, OneSubmission, Slot

LEMMA ResetMoves ==
    ASSUME WidgetTypeOK, ResetCaptcha
    PROVE  captchaToken' = "none" /\ challenged' \in BOOLEAN /\ (challenged' <=> challenged \/ mounting = "rendered")
BY Zenon DEF ResetCaptcha, WidgetTypeOK

LEMMA ReceiveSubmissionKeeps ==
    ASSUME WidgetInv, NEW s \in Slot, ReceiveSubmission(s)
    PROVE  WidgetInv'
<1> DEFINE c == submission[s]
<1> USE DEF WidgetInv, WidgetTypeOK, ReceiveSubmission, panel, ledger
<1>1. c # NoSubmission /\ c.answer # "none"
    BY DEF NoSubmission
<1>2. s = 1 /\ submitting /\ ~sent /\ thanked = NoText /\ c \in Submission
    BY <1>1, SubmissionIsFirst
<1>3. c.text \in Draft /\ c.text # NoText
    BY <1>2 DEF Submission, Draft, NoText
<1>4. submission' = [submission EXCEPT ![s] = NoSubmission] /\ submitting' = FALSE
    OBVIOUS
<1>5. \/ c.answer = "ok" /\ sent' = TRUE /\ thanked' = c.text /\ UNCHANGED <<challenged, captchaToken>>
      \/ c.answer # "ok" /\ ResetCaptcha /\ UNCHANGED <<sent, thanked>>
    OBVIOUS
<1>6. WidgetTypeOK'
    <2>1. challenged' \in BOOLEAN /\ captchaToken' \in Captcha
        BY <1>5, ResetMoves DEF Captcha
    <2>2. sent' \in BOOLEAN /\ thanked' \in DraftOrNone
        <3>1. c.text \in DraftOrNone
            BY <1>3, PageBounds DEF DraftOrNone, Draft
        <3> QED BY <1>5, <3>1
    <2>3. submission' \in [Slot -> Submission \cup {NoSubmission}]
        BY <1>4
    <2> QED BY <1>4, <2>1, <2>2, <2>3
<1>7. PanelSound'
    BY DEF PanelSound
<1>8. TokenSpentOnce'
    BY <1>4 DEF TokenSpentOnce, NoSubmission
<1>9. EachStoredOnce'
    <2>1. \A t \in Slot : submission'[t].answer # "ok"
        BY <1>2, <1>4 DEF OneSubmission, Slot, NoSubmission
    <2>2. \A t \in Draft : ~ThanksDue(t)'
        BY <2>1 DEF ThanksDue
    <2>3. \A t \in Draft : ThanksDue(t) <=> c.text = t /\ c.answer = "ok"
        BY <1>2 DEF ThanksDue, OneSubmission, Slot, NoSubmission
    <2>4. \A t \in Draft : thanked # t
        BY <1>2 DEF NoText, Draft
    <2>5. CASE c.answer = "ok"
        BY <1>5, <2>2, <2>3, <2>4, <2>5 DEF EachStoredOnce, One
    <2>6. CASE c.answer # "ok"
        BY <1>5, <2>2, <2>3, <2>4, <2>6 DEF EachStoredOnce, One
    <2> QED BY <2>5, <2>6
<1>10. OneSubmission'
    BY <1>2, <1>3, <1>4, <1>5 DEF OneSubmission, Slot
<1>11. CaptchaSound'
    <2>1. CASE c.answer = "ok"
        BY <1>2, <1>5, <2>1 DEF CaptchaSound
    <2>2. CASE c.answer # "ok"
        BY <1>2, <1>5, <2>2, ResetMoves DEF CaptchaSound
    <2> QED BY <2>1, <2>2
<1> QED BY <1>6, <1>7, <1>8, <1>9, <1>10, <1>11

\* The server answers: what it stores is due, or lost with the answer.
LEMMA ServerKeeps ==
    ASSUME WidgetInv, NEW s \in Slot, ServeSubmission(s) \/ SubmissionFails(s)
    PROVE  WidgetInv'
<1> DEFINE c == submission[s]
<1> USE DEF WidgetInv, WidgetTypeOK, ServeSubmission, SubmissionFails, StoreMessage, panel, captcha, form, ledger
<1>1. c # NoSubmission /\ c.answer = "none"
    BY DEF Submitted
<1>2. s = 1 /\ submitting /\ ~sent /\ thanked = NoText /\ c \in Submission
    BY <1>1, SubmissionIsFirst
<1>3. PICK a \in {"ok", "refused", "failed"} :
          /\ submission' = [submission EXCEPT ![s].answer = a]
          /\ \/ UNCHANGED <<received, unanswered>> /\ a # "ok"
             \/ received' = [received EXCEPT ![c.text] = @ + 1] /\ UNCHANGED unanswered /\ a = "ok"
             \/ /\ received' = [received EXCEPT ![c.text] = @ + 1]
                /\ unanswered' = [unanswered EXCEPT ![c.text] = @ + 1] /\ a # "ok"
    <2>1. CASE ServeSubmission(s)
        BY <2>1
    <2>2. CASE SubmissionFails(s)
        BY <2>2
    <2> QED BY <2>1, <2>2
<1> DEFINE d == [c EXCEPT !.answer = a]
<1>4. d \in Submission /\ d # NoSubmission /\ d.text = c.text /\ d.token = c.token /\ d.answer = a
    BY <1>2 DEF Submission, NoSubmission, Answer, Draft
<1>5. submission' = [submission EXCEPT ![s] = d]
    BY <1>3
<1>6. c.text \in Draft
    BY <1>2 DEF Submission
<1> HIDE DEF d
<1>7. WidgetTypeOK'
    <2>1. mishaps' \in Nat
        BY MishapCounts
    <2>2. submission' \in [Slot -> Submission \cup {NoSubmission}]
        BY <1>4, <1>5
    <2>3. received' \in [Draft -> Nat] /\ unanswered' \in [Draft -> Nat]
        BY <1>6
    <2> QED BY <2>1, <2>2, <2>3
<1>8. PanelSound'
    BY DEF PanelSound
<1>9. TokenSpentOnce'
    BY <1>4, <1>5 DEF TokenSpentOnce
<1>10. EachStoredOnce'
    <2>1. \A t \in Draft : ~ThanksDue(t)
        BY <1>1, <1>2 DEF ThanksDue, OneSubmission, Slot, NoSubmission
    <2>2. \A t \in Draft : ThanksDue(t)' <=> c.text = t /\ a = "ok"
        BY <1>2, <1>4, <1>5 DEF ThanksDue, OneSubmission, Slot, NoSubmission
    <2>3. CASE UNCHANGED <<received, unanswered>> /\ a # "ok"
        BY <2>1, <2>2, <2>3 DEF EachStoredOnce, One
    <2>4. CASE received' = [received EXCEPT ![c.text] = @ + 1] /\ UNCHANGED unanswered /\ a = "ok"
        BY <2>1, <2>2, <2>4 DEF EachStoredOnce, One
    <2>5. CASE /\ received' = [received EXCEPT ![c.text] = @ + 1]
               /\ unanswered' = [unanswered EXCEPT ![c.text] = @ + 1] /\ a # "ok"
        BY <2>1, <2>2, <2>5 DEF EachStoredOnce, One
    <2> QED BY <1>3, <2>3, <2>4, <2>5
<1>11. OneSubmission'
    <2>1. UNCHANGED <<submitting, sent, thanked>>
        OBVIOUS
    <2>2. submission'[1] # NoSubmission /\ submission'[2] = NoSubmission
        BY <1>2, <1>4, <1>5 DEF OneSubmission, Slot
    <2> QED BY <1>2, <2>1, <2>2 DEF OneSubmission
<1>12. CaptchaSound'
    BY DEF CaptchaSound
<1> QED BY <1>7, <1>8, <1>9, <1>10, <1>11, <1>12

\* What happens elsewhere is at most a mishap to the widget.
LEMMA WidgetIdles ==
    ASSUME WidgetInv, mishaps' \in Nat,
           UNCHANGED <<panel, posted, captcha, captchaToken, form, submission, captchaOn, ledger>>
    PROVE  WidgetInv'
<1> USE DEF WidgetInv, panel, captcha, form, ledger
<1>1. WidgetTypeOK'
    BY DEF WidgetTypeOK
<1>2. PanelSound' /\ CaptchaSound'
    BY DEF PanelSound, CaptchaSound
<1>3. EachStoredOnce'
    BY LedgerKeeps
<1>4. TokenSpentOnce' /\ OneSubmission'
    BY SubmissionKeeps
<1> QED BY <1>1, <1>2, <1>3, <1>4

LEMMA WidgetInductive == WidgetInv /\ [WidgetNext]_widgetVars => WidgetInv'
<1> SUFFICES ASSUME WidgetInv, [WidgetNext]_widgetVars PROVE WidgetInv'
    OBVIOUS
<1>1. CASE WidgetNext
    BY <1>1, PanelKeeps, CaptchaKeeps, TypeMessageKeeps, SubmitKeeps, ReceiveSubmissionKeeps, ServerKeeps
       DEF WidgetNext
<1>2. CASE UNCHANGED widgetVars
    <2>1. mishaps' \in Nat
        BY <1>2 DEF widgetVars, WidgetInv, WidgetTypeOK
    <2> QED BY <1>2, <2>1, WidgetIdles DEF widgetVars
<1> QED BY <1>1, <1>2

\* The invariant of the widget, whatever the visitor types and presses and
\* whatever fails.
THEOREM WidgetInvariance == WidgetSpec => []WidgetInv
<1>1. WidgetInv /\ [WidgetNext]_widgetVars => WidgetInv'
    BY WidgetInductive
<1> QED BY <1>1, WidgetStart, PTL DEF WidgetSpec

\* No captcha token is submitted a second time (WidgetForm.vue 17-18).
THEOREM TokensSpentOnce == WidgetSpec => []TokenSpentOnce
<1>1. WidgetInv => TokenSpentOnce
    BY DEF WidgetInv
<1> QED BY <1>1, WidgetInvariance, PTL

\* Every copy the server stores is thanked for, or its answer was lost.
THEOREM StoredOnce == WidgetSpec => []EachStoredOnce
<1>1. WidgetInv => EachStoredOnce
    BY DEF WidgetInv
<1> QED BY <1>1, WidgetInvariance, PTL

-----------------------------------------------------------------------------
(* The thread page. *)

LEMMA CopiesKept ==
    ASSUME EachReplyOnce, UNCHANGED <<copies, lost, posting, acked>>
    PROVE  EachReplyOnce'
BY DEF EachReplyOnce, Untold

\* What an answer of the server is made of.
LEMMA NoFetchIs ==
    /\ NoFetch \in Fetch /\ NoFetch.answer = "none" /\ NoFetch.of = 0
    /\ \A t \in Link : LET f == [NoFetch EXCEPT !.of = t] IN
                           f \in Fetch /\ f.answer = "none" /\ f.of = t
<1>1. 0 \in Link
    BY ThreadBound DEF Link
<1> QED BY <1>1 DEF NoFetch, Fetch, Nothing, Shown, Answer

LEMMA PageStart == ThreadInit /\ mishaps = 0 => PageInv
<1> SUFFICES ASSUME ThreadInit, mishaps = 0 PROVE PageInv
    OBVIOUS
<1>1. PICK t \in {0, 1} : Mounted(t)
    BY DEF ThreadInit
<1>2. t \in Link /\ 0 \in Link
    BY ThreadBound DEF Link
<1>3. fetching \in Fetch /\ fetching.answer = "none" /\ fetching.of = t
    BY <1>1, <1>2, NoFetchIs DEF Mounted
<1>4. \A s \in Slot : posting[s] = NoFollowUp
    BY DEF ThreadInit
<1>5. \A d \in Draft : copies[d] = 0 /\ lost[d] = 0 /\ acked[d] = 0
    BY DEF ThreadInit
<1>6. ThreadTypeOK
    <2>1. posting \in [Slot -> FollowUp \cup {NoFollowUp}]
        BY DEF ThreadInit
    <2>2. /\ copies \in [Draft -> Nat] /\ lost \in [Draft -> Nat]
          /\ acked \in [Draft -> Link]
        BY <1>2 DEF ThreadInit
    <2>3. threads \in [Thread -> Content]
        <3>1. PICK status \in {"open", "archived"} :
                  threads = [i \in Thread |-> [status |-> IF i = 1 THEN status ELSE "none", posts |-> {}]]
            BY DEF ThreadInit
        <3> QED BY <3>1 DEF Content, Status
    <2>4. thread \in Shown /\ body \in DraftOrNone /\ drafts \in DraftOrNone
        BY <1>1, <1>2, PageBounds DEF Mounted, ThreadInit, Nothing, Shown, NoText, DraftOrNone
    <2> QED BY <1>1, <1>2, <1>3, <2>1, <2>2, <2>3, <2>4 DEF ThreadTypeOK, Mounted
<1>7. ScreenIsCurrent
    BY <1>1 DEF ScreenIsCurrent, Mounted
<1>8. EachReplyOnce
    BY <1>4, <1>5 DEF EachReplyOnce, Untold, NoFollowUp, One
<1>9. OneFollowUp
    BY <1>1, <1>3, <1>4 DEF OneFollowUp, Mounted, Slot
<1>10. AnswersSound
    BY <1>1, <1>3, <1>4, <1>5 DEF AnswersSound, Mounted, ThreadInit, Slot, NoText
<1> QED BY <1>6, <1>7, <1>8, <1>9, <1>10 DEF PageInv

\* The answer of a load is for the token of the page.
LEMMA ReceiveThreadKeeps ==
    ASSUME PageInv, ReceiveThread
    PROVE  PageInv'
<1> USE DEF PageInv, ReceiveThread, shelf
<1>1. loading /\ fetching.of = token /\ fetching \in Fetch
    BY NoFetchIs DEF OneFollowUp, ThreadTypeOK
<1>2. posting[1] = NoFollowUp
    BY <1>1 DEF OneFollowUp
<1>3. /\ fetching' = NoFetch /\ loading' = FALSE /\ sending' = FALSE
      /\ UNCHANGED <<url, token, body, drafts, acked, posting, threads, copies, lost, mishaps>>
    OBVIOUS
<1>4. ThreadTypeOK'
    <2>1. thread' \in Shown /\ invalid' \in BOOLEAN /\ loadError' \in BOOLEAN
        BY <1>1 DEF ThreadTypeOK, Fetch
    <2> QED BY <1>3, <2>1, NoFetchIs DEF ThreadTypeOK
<1>5. ScreenIsCurrent'
    <2>1. CASE fetching.answer = "ok"
        BY <1>1, <1>3, <2>1 DEF ScreenIsCurrent, AnswersSound
    <2>2. CASE fetching.answer # "ok"
        BY <2>2 DEF ScreenIsCurrent
    <2> QED BY <2>1, <2>2
<1>6. EachReplyOnce'
    BY <1>3, CopiesKept
<1>7. OneFollowUp'
    BY <1>2, <1>3 DEF OneFollowUp
<1>8. AnswersSound'
    <2>1. ~loading' /\ ~invalid' /\ ~loadError' => token' # 0
        BY <1>1, <1>3 DEF AnswersSound
    <2>2. fetching'.answer # "ok"
        BY <1>3, NoFetchIs
    <2> QED BY <1>2, <1>3, <2>1, <2>2 DEF AnswersSound
<1> QED BY <1>4, <1>5, <1>6, <1>7, <1>8

LEMMA TypeReplyKeeps ==
    ASSUME PageInv, TypeReply
    PROVE  PageInv'
<1> USE DEF PageInv, TypeReply, page, shelf
<1>1. ThreadTypeOK'
    BY PageBounds DEF ThreadTypeOK, DraftOrNone
<1>2. ScreenIsCurrent'
    BY DEF ScreenIsCurrent
<1>3. EachReplyOnce'
    BY CopiesKept
<1>4. OneFollowUp'
    BY DEF OneFollowUp
<1>5. AnswersSound'
    <2>1. drafts \in Nat /\ drafts' = drafts + 1 /\ body' = drafts'
        BY PageBounds DEF ThreadTypeOK, DraftOrNone
    <2>2. \A d \in Draft : acked[d] # 0 => d <= drafts' /\ d # body' /\ d \in threads[acked[d]].posts
        BY <2>1 DEF AnswersSound, Draft
    <2>3. posting[1] # NoFollowUp => posting[1].text \in Draft
        BY DEF ThreadTypeOK, FollowUp, Slot
    <2>4. posting[1] # NoFollowUp => posting[1].text <= drafts'
        BY <2>1, <2>3 DEF AnswersSound, Draft
    <2> QED BY <2>1, <2>2, <2>4 DEF AnswersSound
<1> QED BY <1>1, <1>2, <1>3, <1>4, <1>5

LEMMA SendReplyKeeps ==
    ASSUME PageInv, NEW s \in Slot, SendReply(s)
    PROVE  PageInv'
<1> DEFINE c == [of |-> token, text |-> body, stage |-> "new", answer |-> "none", next |-> 0]
<1> USE DEF PageInv, SendReply, PostReply, ReplyShown, page, shelf
<1>1. s = 1 /\ \A t \in Slot : posting[t] = NoFollowUp
    BY DEF OneFollowUp, FreePosting, Slot
<1>2. body \in Draft /\ 0 \in Link
    BY PageBounds, ThreadBound DEF ThreadTypeOK, DraftOrNone, Draft, NoText, Link
<1>3. /\ c \in FollowUp /\ c # NoFollowUp /\ c.of = token /\ c.text = body /\ c.answer = "none"
      /\ c.stage = "new"
    BY <1>2 DEF FollowUp, NoFollowUp, Answer, ThreadTypeOK
<1>4. posting' = [posting EXCEPT ![s] = c]
    OBVIOUS
<1> HIDE DEF c
<1>5. ThreadTypeOK'
    BY <1>3, <1>4 DEF ThreadTypeOK
<1>6. ScreenIsCurrent'
    BY DEF ScreenIsCurrent
<1>7. EachReplyOnce'
    <2>1. \A d \in Draft : ~Untold(d) /\ ~Untold(d)'
        BY <1>1, <1>3, <1>4 DEF Untold, NoFollowUp, ThreadTypeOK
    <2>2. UNCHANGED <<copies, lost, acked>>
        OBVIOUS
    <2> QED BY <2>1, <2>2 DEF EachReplyOnce, One
<1>8. OneFollowUp'
    BY <1>1, <1>3, <1>4 DEF OneFollowUp, ThreadTypeOK, Slot
<1>9. AnswersSound'
    <2>1. posting'[1] = c
        BY <1>1, <1>4 DEF ThreadTypeOK, Slot
    <2>2. acked[body] = 0
        BY <1>2 DEF AnswersSound
    <2> QED BY <1>3, <2>1, <2>2 DEF AnswersSound
<1> QED BY <1>5, <1>6, <1>7, <1>8, <1>9

\* A request that is out is the first, was made for the page's token, and the
\* page waits for it.
LEMMA FollowUpIsFirst ==
    ASSUME PageInv, NEW s \in Slot, posting[s] # NoFollowUp
    PROVE  /\ s = 1 /\ sending /\ ~loading /\ posting[s].of = token /\ fetching = NoFetch
           /\ posting[s] \in FollowUp /\ posting[s].text \in Draft /\ acked[posting[s].text] = 0
           /\ posting[s].text <= drafts
           /\ posting[s].answer # "none" <=> posting[s].stage = "done"
           /\ posting[s].stage \in {"append", "add"} => posting[s].of \in Thread
           /\ posting[s].answer = "ok" =>
                  posting[s].next \in Thread /\ posting[s].text \in threads[posting[s].next].posts
<1>1. s = 1 /\ sending /\ ~loading /\ posting[s].of = token /\ fetching = NoFetch
    BY DEF PageInv, OneFollowUp, Slot
<1>2. posting[s] \in FollowUp
    BY DEF PageInv, ThreadTypeOK
<1>3. \A i \in Link : i # 0 => i \in Thread
    BY ThreadBound DEF Link, Thread
<1> QED BY <1>1, <1>2, <1>3 DEF PageInv, AnswersSound, FollowUp

LEMMA ReceiveFollowUpKeeps ==
    ASSUME PageInv, NEW s \in Slot, ReceiveFollowUp(s)
    PROVE  PageInv'
<1> DEFINE c == posting[s]
<1> USE DEF PageInv, shelf
<1>1. c # NoFollowUp
    BY DEF ReceiveFollowUp, NoFollowUp
<1>2. /\ s = 1 /\ sending /\ ~loading /\ fetching = NoFetch
      /\ c.text \in Draft /\ acked[c.text] = 0 /\ c.text <= drafts
      /\ c.answer = "ok" => c.next \in Thread /\ c.text \in threads[c.next].posts
    BY <1>1, FollowUpIsFirst
<1>3. posting' = [posting EXCEPT ![s] = NoFollowUp] /\ \A t \in Slot : posting'[t] = NoFollowUp
    BY <1>2 DEF ReceiveFollowUp, OneFollowUp, ThreadTypeOK, Slot
<1>4. UNCHANGED <<thread, invalid, drafts, threads, copies, lost, mishaps>>
    BY DEF ReceiveFollowUp
<1>5. \A d \in Draft : ~Untold(d)'
    BY <1>3 DEF Untold, NoFollowUp
<1>6. \A d \in Draft : Untold(d) <=> c.text = d /\ c.answer = "ok"
    BY <1>2 DEF Untold, OneFollowUp, Slot, NoFollowUp
<1>7. CASE c.answer = "ok"
    <2>1. /\ body' = NoText
          /\ acked' = [acked EXCEPT ![c.text] = c.next]
          /\ token' = c.next /\ url' = c.next
          /\ loading' = TRUE /\ loadError' = FALSE
          /\ fetching' = [NoFetch EXCEPT !.of = c.next]
          /\ UNCHANGED sending
        BY <1>7 DEF ReceiveFollowUp, Follow, Load
    <2>2. c.next \in Link /\ c.next # 0 /\ 0 \in DraftOrNone
        BY <1>2, <1>7, ThreadBound, PageBounds DEF Thread, Link, DraftOrNone
    <2>3. fetching' \in Fetch /\ fetching'.answer = "none" /\ fetching'.of = c.next
        BY <2>1, <2>2, NoFetchIs
    <2>4. \A d \in Draft : acked'[d] = IF d = c.text THEN c.next ELSE acked[d]
        BY <1>2, <2>1 DEF ThreadTypeOK
    <2>5. ThreadTypeOK'
        <3>1. acked' \in [Draft -> Link]
            BY <2>1, <2>2, <1>2 DEF ThreadTypeOK
        <3>2. posting' \in [Slot -> FollowUp \cup {NoFollowUp}]
            BY <1>3 DEF ThreadTypeOK
        <3> QED BY <1>4, <2>1, <2>2, <2>3, <3>1, <3>2 DEF ThreadTypeOK, NoText
    <2>6. ScreenIsCurrent'
        BY <2>1 DEF ScreenIsCurrent
    <2>7. EachReplyOnce'
        <3>1. \A d \in Draft : copies[d] \in Nat /\ lost[d] \in Nat
            BY DEF ThreadTypeOK
        <3>2. \A d \in Draft : One(Untold(d)) + One(acked[d] # 0) = One(Untold(d)') + One(acked'[d] # 0)
            BY <1>2, <1>5, <1>6, <1>7, <2>2, <2>4 DEF One
        <3> QED BY <1>4, <3>1, <3>2 DEF EachReplyOnce, One
    <2>8. OneFollowUp'
        BY <1>3, <2>1, <2>3 DEF OneFollowUp, Slot
    <2>9. AnswersSound'
        <3>1. body' = 0 /\ body' <= drafts'
            BY <1>4, <2>1, PageBounds DEF NoText, ThreadTypeOK, DraftOrNone
        <3>2. \A d \in Draft : acked'[d] # 0 => d <= drafts' /\ d # body' /\ d \in threads'[acked'[d]].posts
            BY <1>2, <1>4, <1>7, <2>4, <3>1 DEF AnswersSound, Draft
        <3> QED BY <1>3, <2>1, <2>3, <3>1, <3>2 DEF AnswersSound, Slot
    <2> QED BY <2>5, <2>6, <2>7, <2>8, <2>9
<1>8. CASE c.answer # "ok"
    <2>1. sending' = FALSE /\ UNCHANGED <<url, token, loading, loadError, body, acked, fetching>>
        BY <1>8 DEF ReceiveFollowUp
    <2>2. ThreadTypeOK'
        BY <1>3, <1>4, <2>1 DEF ThreadTypeOK
    <2>3. ScreenIsCurrent'
        BY <1>4, <2>1 DEF ScreenIsCurrent
    <2>4. EachReplyOnce'
        BY <1>4, <1>5, <1>6, <1>8, <2>1 DEF EachReplyOnce, One
    <2>5. OneFollowUp'
        BY <1>2, <1>3, <2>1 DEF OneFollowUp, Slot
    <2>6. AnswersSound'
        BY <1>3, <1>4, <2>1 DEF AnswersSound, Slot
    <2> QED BY <2>2, <2>3, <2>4, <2>5, <2>6
<1> QED BY <1>7, <1>8

\* A reload takes the box and the answers that were on their way.
LEMMA ReloadKeeps ==
    ASSUME PageInv, Reload
    PROVE  PageInv'
<1> USE DEF PageInv
<1>1. /\ token' = url /\ url' = url /\ thread' = Nothing /\ invalid' = FALSE /\ body' = NoText
      /\ sending' = FALSE /\ loading' = TRUE /\ loadError' = FALSE
      /\ fetching' = [NoFetch EXCEPT !.of = url]
      /\ posting' = [s \in Slot |-> NoFollowUp]
      /\ lost' = [d \in Draft |-> lost[d] + One(Untold(d))]
      /\ UNCHANGED <<drafts, acked, threads, copies>>
    BY DEF Reload, Load
<1>2. fetching' \in Fetch /\ fetching'.answer = "none" /\ fetching'.of = url
    BY <1>1, NoFetchIs DEF ThreadTypeOK
<1>3. mishaps' \in Nat
    BY MishapCounts DEF Reload, ThreadTypeOK
<1>4. 0 \in Link /\ 0 \in DraftOrNone /\ Nothing \in Shown
    BY ThreadBound, PageBounds DEF Link, DraftOrNone, Nothing, Shown
<1>5. lost' \in [Draft -> Nat]
    BY <1>1 DEF ThreadTypeOK, One
<1>6. ThreadTypeOK'
    BY <1>1, <1>2, <1>3, <1>4, <1>5 DEF ThreadTypeOK, NoText
<1>7. ScreenIsCurrent'
    BY <1>1 DEF ScreenIsCurrent
<1>8. EachReplyOnce'
    <2>1. \A d \in Draft : ~Untold(d)'
        BY <1>1 DEF Untold, NoFollowUp
    <2>2. \A d \in Draft : lost'[d] = lost[d] + One(Untold(d))
        BY <1>1
    <2>3. \A d \in Draft : lost[d] \in Nat
        BY DEF ThreadTypeOK
    <2> QED BY <1>1, <2>1, <2>2, <2>3 DEF EachReplyOnce, One
<1>9. OneFollowUp'
    BY <1>1, <1>2 DEF OneFollowUp, Slot
<1>10. AnswersSound'
    <2>1. body' = 0 /\ body' <= drafts'
        BY <1>1, PageBounds DEF NoText, ThreadTypeOK, DraftOrNone
    <2>2. \A d \in Draft : d # body'
        BY <2>1 DEF Draft
    <2> QED BY <1>1, <1>2, <2>1, <2>2 DEF AnswersSound, Slot
<1> QED BY <1>6, <1>7, <1>8, <1>9, <1>10

\* The server answers a load with what the thread holds.
LEMMA ServeThreadKeeps ==
    ASSUME PageInv, ServeThread \/ ThreadFails
    PROVE  PageInv'
<1> USE DEF PageInv
<1>1. /\ loading /\ fetching.answer = "none"
      /\ UNCHANGED <<url, token, thread, loading, loadError, invalid, body, drafts, sending, acked,
                     posting, threads, copies, lost>>
    BY DEF ServeThread, ThreadFails, page, box, shelf
<1>2. fetching \in Fetch /\ fetching.of = token
    BY <1>1 DEF ThreadTypeOK, OneFollowUp
<1>3. /\ fetching' \in Fetch /\ fetching'.of = token
      /\ fetching'.answer = "ok" =>
             /\ token # 0 /\ fetching'.shown.of = token
             /\ fetching'.shown.posts = threads[token].posts
    <2>1. CASE ServeThread /\ fetching.of # 0
        <3>1. fetching.of \in Thread
            BY <1>2, <2>1, ThreadBound DEF ThreadTypeOK, Link, Thread
        <3>2. threads[fetching.of].posts \subseteq Draft
            BY <3>1 DEF ThreadTypeOK, Content
        <3> QED BY <1>2, <2>1, <3>2 DEF ServeThread, Fetch, Shown, Answer
    <2>2. CASE ServeThread /\ fetching.of = 0
        BY <1>2, <2>2 DEF ServeThread, Fetch, Answer
    <2>3. CASE ThreadFails
        BY <1>2, <2>3 DEF ThreadFails, Fetch, Answer
    <2> QED BY <2>1, <2>2, <2>3
<1>4. mishaps' \in Nat
    BY MishapCounts DEF ThreadTypeOK, ServeThread, ThreadFails
<1>5. ThreadTypeOK'
    BY <1>1, <1>3, <1>4 DEF ThreadTypeOK
<1>6. ScreenIsCurrent'
    BY <1>1 DEF ScreenIsCurrent
<1>7. EachReplyOnce'
    BY <1>1, CopiesKept
<1>8. OneFollowUp'
    BY <1>1, <1>3 DEF OneFollowUp
<1>9. AnswersSound'
    BY <1>1, <1>2, <1>3 DEF AnswersSound
<1> QED BY <1>5, <1>6, <1>7, <1>8, <1>9

LEMMA LookUpKeeps ==
    ASSUME PageInv, NEW s \in Slot, LookUpThread(s)
    PROVE  PageInv'
<1> USE DEF PageInv
<1>1. posting[s].stage = "new"
    BY DEF LookUpThread
<1>2. posting[s] # NoFollowUp
    BY <1>1 DEF NoFollowUp
<1>3. /\ s = 1 /\ posting[s] \in FollowUp /\ posting[s].answer = "none"
      /\ posting[s].text <= drafts /\ acked[posting[s].text] = 0
    BY <1>1, <1>2, FollowUpIsFirst
<1>4. PICK d \in FollowUp :
          /\ posting' = [posting EXCEPT ![s] = d]
          /\ d.of = posting[s].of /\ d.text = posting[s].text /\ d.next = posting[s].next
          /\ d.answer \in {"none", "refused"}
          /\ d.answer # "none" <=> d.stage = "done"
          /\ d.stage \in {"append", "add"} => d.of # 0
    <2>1. CASE posting[s].of = 0
        <3> DEFINE d == [posting[s] EXCEPT !.stage = "done", !.answer = "refused"]
        <3>1. /\ d \in FollowUp /\ d.of = posting[s].of /\ d.text = posting[s].text
              /\ d.next = posting[s].next /\ d.stage = "done" /\ d.answer = "refused"
            BY <1>3 DEF FollowUp, Answer
        <3> HIDE DEF d
        <3>2. posting' = [posting EXCEPT ![s] = d]
            BY <2>1 DEF LookUpThread, d
        <3> QED BY <3>1, <3>2
    <2>2. CASE posting[s].of # 0
        <3> DEFINE d == [posting[s] EXCEPT
                            !.stage = IF threads[posting[s].of].status = "open" THEN "append" ELSE "add"]
        <3>1. /\ d \in FollowUp /\ d.of = posting[s].of /\ d.text = posting[s].text
              /\ d.next = posting[s].next /\ d.stage \in {"append", "add"} /\ d.answer = "none"
            BY <1>3 DEF FollowUp, Answer
        <3> HIDE DEF d
        <3>2. posting' = [posting EXCEPT ![s] = d]
            BY <2>2 DEF LookUpThread, d
        <3> QED BY <2>2, <3>1, <3>2
    <2> QED BY <2>1, <2>2
<1>5. UNCHANGED <<url, token, thread, loading, loadError, invalid, body, drafts, sending, acked, fetching,
                  threads, copies, lost, mishaps>>
    BY DEF LookUpThread, page, box, shelf
<1>6. d # NoFollowUp
    BY DEF NoFollowUp, FollowUp, Draft
<1>7. ThreadTypeOK'
    BY <1>4, <1>5 DEF ThreadTypeOK
<1>8. ScreenIsCurrent'
    BY <1>5 DEF ScreenIsCurrent
<1>9. EachReplyOnce'
    <2>1. \A e \in Draft : ~Untold(e) /\ ~Untold(e)'
        BY <1>3, <1>4 DEF Untold, OneFollowUp, Slot, NoFollowUp, ThreadTypeOK
    <2> QED BY <1>5, <2>1 DEF EachReplyOnce, One
<1>10. OneFollowUp'
    BY <1>2, <1>3, <1>4, <1>5, <1>6 DEF OneFollowUp, ThreadTypeOK, Slot
<1>11. AnswersSound'
    <2>1. posting'[1] = d
        BY <1>3, <1>4 DEF ThreadTypeOK, Slot
    <2> QED BY <1>3, <1>4, <1>5, <2>1 DEF AnswersSound
<1> QED BY <1>7, <1>8, <1>9, <1>10, <1>11

\* Threads grow by the text of the follow-up, and one copy is counted.
LEMMA InsertGrows ==
    ASSUME ThreadTypeOK, NEW i \in Thread, NEW d \in Draft, Insert(i, d)
    PROVE  /\ threads' \in [Thread -> Content]
           /\ \A j \in Thread : threads[j].posts \subseteq threads'[j].posts
           /\ d \in threads'[i].posts
           /\ copies' = [copies EXCEPT ![d] = @ + 1]
<1>1. threads[i] \in Content
    BY DEF ThreadTypeOK
<1>2. [status |-> IF threads[i].status = "none" THEN "open" ELSE threads[i].status,
       posts |-> threads[i].posts \cup {d}] \in Content
    BY <1>1 DEF Content, Status
<1> QED BY <1>2 DEF ThreadTypeOK, Insert

\* What the server does with a follow-up it has looked up: it stores the text in
\* one of the targets or not, and says so or not.
LEMMA FollowUpServed ==
    ASSUME PageInv, NEW s \in Slot, StoreReply(s) \/ ReplyFails(s)
    PROVE  LET c == posting[s] IN
           /\ c # NoFollowUp /\ c.stage # "done"
           /\ \A i \in Targets(c) : c.stage \in {"append", "add"} => i \in Thread /\ i \in Link /\ i # 0
           /\ \E d \in FollowUp :
                 /\ posting' = [posting EXCEPT ![s] = d]
                 /\ d.of = c.of /\ d.text = c.text /\ d.stage = "done"
                 /\ \/ /\ d.answer = "failed" /\ d.next = c.next
                       /\ UNCHANGED <<threads, copies, lost>>
                    \/ /\ d.answer = "failed" /\ d.next = c.next /\ c.stage \in {"append", "add"}
                       /\ \E i \in Targets(c) : Insert(i, c.text)
                       /\ lost' = [lost EXCEPT ![c.text] = @ + 1]
                    \/ /\ d.answer = "ok" /\ d.next \in Targets(c) /\ c.stage \in {"append", "add"}
                       /\ Insert(d.next, c.text)
                       /\ UNCHANGED lost
<1> DEFINE c == posting[s]
<1>1. c.stage # "done"
    BY DEF StoreReply, ReplyFails
<1>2. c # NoFollowUp
    BY <1>1 DEF NoFollowUp
<1>3. c \in FollowUp /\ (c.stage \in {"append", "add"} => c.of \in Thread)
    BY <1>1, <1>2, FollowUpIsFirst
<1>4. \A i \in Targets(c) : c.stage \in {"append", "add"} => i \in Thread /\ i \in Link /\ i # 0
    BY <1>3, ThreadBound DEF Targets, OpenThreads, Unused, Thread, Link
<1>5. CASE StoreReply(s)
    <2>1. PICK i \in Targets(c) :
              /\ Insert(i, c.text)
              /\ posting' = [posting EXCEPT ![s] = [c EXCEPT !.stage = "done", !.answer = "ok", !.next = i]]
        BY <1>5 DEF StoreReply
    <2>2. i \in Thread /\ i \in Link /\ i # 0 /\ c.stage \in {"append", "add"}
        BY <1>4, <1>5 DEF StoreReply
    <2> DEFINE d == [c EXCEPT !.stage = "done", !.answer = "ok", !.next = i]
    <2>3. /\ d \in FollowUp /\ d.of = c.of /\ d.text = c.text /\ d.stage = "done"
          /\ d.answer = "ok" /\ d.next = i
        BY <1>3, <2>2 DEF FollowUp, Answer
    <2>4. posting' = [posting EXCEPT ![s] = d] /\ UNCHANGED lost
        BY <1>5, <2>1 DEF StoreReply
    <2> HIDE DEF d
    <2> QED BY <1>1, <1>2, <1>4, <2>1, <2>2, <2>3, <2>4
<1>6. CASE ReplyFails(s)
    <2> DEFINE d == [c EXCEPT !.stage = "done", !.answer = "failed"]
    <2>1. /\ d \in FollowUp /\ d.of = c.of /\ d.text = c.text /\ d.stage = "done"
          /\ d.answer = "failed" /\ d.next = c.next
        BY <1>3 DEF FollowUp, Answer
    <2>2. posting' = [posting EXCEPT ![s] = d]
        BY <1>6 DEF ReplyFails
    <2> HIDE DEF d
    <2>3. \/ UNCHANGED <<threads, copies, lost>>
          \/ /\ \E i \in Targets(c) : Insert(i, c.text)
             /\ c.stage \in {"append", "add"}
             /\ lost' = [lost EXCEPT ![c.text] = @ + 1]
        BY <1>6 DEF ReplyFails, shelf
    <2> QED BY <1>1, <1>2, <1>4, <2>1, <2>2, <2>3
<1> QED BY <1>5, <1>6

LEMMA StoreKeeps ==
    ASSUME PageInv, NEW s \in Slot, StoreReply(s) \/ ReplyFails(s)
    PROVE  PageInv'
<1> DEFINE c == posting[s]
<1> USE DEF PageInv
<1>2. c # NoFollowUp
    BY FollowUpServed
<1>3. /\ s = 1 /\ c \in FollowUp /\ c.answer = "none" /\ c.text \in Draft
      /\ c.text <= drafts /\ acked[c.text] = 0
      /\ c.stage \in {"append", "add"} => c.of \in Thread
    <2>1. c.stage # "done"
        BY FollowUpServed
    <2> QED BY <1>2, <2>1, FollowUpIsFirst
<1>5. UNCHANGED <<url, token, thread, loading, loadError, invalid, body, drafts, sending, acked, fetching>>
    BY DEF StoreReply, ReplyFails, page, box
<1>6. PICK d \in FollowUp :
          /\ posting' = [posting EXCEPT ![s] = d]
          /\ d.of = c.of /\ d.text = c.text /\ d.stage = "done"
          /\ \/ /\ d.answer = "failed" /\ UNCHANGED <<threads, copies, lost>>
             \/ /\ d.answer = "failed"
                /\ \E i \in Thread : Insert(i, c.text)
                /\ lost' = [lost EXCEPT ![c.text] = @ + 1]
             \/ /\ d.answer = "ok" /\ d.next \in Thread /\ d.next # 0 /\ Insert(d.next, c.text)
                /\ UNCHANGED lost
    <2> HIDE DEF PageInv
    <2> QED BY FollowUpServed
<1>7. /\ threads' \in [Thread -> Content]
      /\ \A j \in Thread : threads[j].posts \subseteq threads'[j].posts
      /\ d.answer = "ok" => c.text \in threads'[d.next].posts
    BY <1>3, <1>6, InsertGrows DEF ThreadTypeOK
<1>8. \/ /\ d.answer = "failed" /\ UNCHANGED <<copies, lost>>
      \/ /\ d.answer = "failed" /\ copies' = [copies EXCEPT ![c.text] = @ + 1]
         /\ lost' = [lost EXCEPT ![c.text] = @ + 1]
      \/ /\ d.answer = "ok" /\ copies' = [copies EXCEPT ![c.text] = @ + 1] /\ UNCHANGED lost
    BY <1>6 DEF Insert
<1>9. d # NoFollowUp
    BY <1>3, <1>6 DEF NoFollowUp, Draft
<1>10. ThreadTypeOK'
    <2>1. mishaps' \in Nat
        BY MishapCounts DEF ThreadTypeOK, StoreReply, ReplyFails
    <2>2. copies' \in [Draft -> Nat] /\ lost' \in [Draft -> Nat]
        BY <1>3, <1>8 DEF ThreadTypeOK
    <2>3. posting' \in [Slot -> FollowUp \cup {NoFollowUp}]
        BY <1>6 DEF ThreadTypeOK
    <2> QED BY <1>5, <1>7, <2>1, <2>2, <2>3 DEF ThreadTypeOK
<1>11. ScreenIsCurrent'
    BY <1>5 DEF ScreenIsCurrent
<1>12. EachReplyOnce'
    <2>1. \A e \in Draft : ~Untold(e)
        BY <1>3 DEF Untold, OneFollowUp, Slot, NoFollowUp
    <2>2. \A e \in Draft : Untold(e)' <=> e = c.text /\ d.answer = "ok"
        BY <1>3, <1>6 DEF Untold, OneFollowUp, Slot, NoFollowUp, ThreadTypeOK
    <2>3. \A e \in Draft : copies[e] \in Nat /\ lost[e] \in Nat
        BY DEF ThreadTypeOK
    <2> QED BY <1>3, <1>5, <1>8, <2>1, <2>2, <2>3 DEF EachReplyOnce, One, ThreadTypeOK
<1>13. OneFollowUp'
    BY <1>2, <1>3, <1>5, <1>6, <1>9 DEF OneFollowUp, ThreadTypeOK, Slot
<1>14. AnswersSound'
    <2>1. posting'[1] = d
        BY <1>3, <1>6 DEF ThreadTypeOK, Slot
    <2>2. \A e \in Draft : acked[e] # 0 => acked[e] \in Thread
        BY ThreadBound DEF ThreadTypeOK, Link, Thread
    <2>3. \A e \in Draft : acked'[e] # 0 => e <= drafts' /\ e # body' /\ e \in threads'[acked'[e]].posts
        BY <1>5, <1>7, <2>2 DEF AnswersSound
    <2>4. d.answer = "ok" => d.next # 0 /\ d.text \in threads'[d.next].posts
        BY <1>6, <1>7
    <2>5. d.answer # "none" /\ d.text <= drafts' /\ acked'[d.text] = 0
        BY <1>3, <1>5, <1>6
    <2> QED BY <1>5, <1>6, <2>1, <2>3, <2>4, <2>5 DEF AnswersSound
<1> QED BY <1>10, <1>11, <1>12, <1>13, <1>14

LEMMA SetStatusKeeps ==
    ASSUME PageInv, NEW i \in Thread, SetStatus(i)
    PROVE  PageInv'
<1> USE DEF PageInv
<1>1. UNCHANGED <<url, token, thread, loading, loadError, invalid, body, drafts, sending, acked, fetching,
                  posting, copies, lost>>
    BY DEF SetStatus, page, box
<1>2. threads' \in [Thread -> Content] /\ \A j \in Thread : threads'[j].posts = threads[j].posts
    <2>1. threads[i] \in Content
        BY DEF ThreadTypeOK
    <2> DEFINE r == [threads[i] EXCEPT !.status = IF threads[i].status = "open" THEN "archived" ELSE "open"]
    <2>2. r \in Content /\ r.posts = threads[i].posts
        BY <2>1 DEF Content, Status
    <2>3. threads' = [threads EXCEPT ![i] = r]
        BY DEF SetStatus
    <2> HIDE DEF r
    <2> QED BY <2>2, <2>3 DEF ThreadTypeOK
<1>3. mishaps' \in Nat
    BY MishapCounts DEF SetStatus, ThreadTypeOK
<1>4. ThreadTypeOK'
    BY <1>1, <1>2, <1>3 DEF ThreadTypeOK
<1>5. ScreenIsCurrent'
    BY <1>1 DEF ScreenIsCurrent
<1>6. EachReplyOnce'
    BY <1>1, CopiesKept
<1>7. OneFollowUp'
    BY <1>1 DEF OneFollowUp
<1>8. AnswersSound'
    <2>1. \A e \in Draft : acked[e] # 0 => acked[e] \in Thread
        BY ThreadBound DEF ThreadTypeOK, Link, Thread
    <2>2. posting[1] # NoFollowUp /\ posting[1].answer = "ok" => posting[1].next \in Thread
        BY FollowUpIsFirst DEF Slot
    <2> QED BY <1>1, <1>2, <2>1, <2>2 DEF AnswersSound
<1> QED BY <1>4, <1>5, <1>6, <1>7, <1>8

\* What happens elsewhere is at most a mishap to the page.
LEMMA PageIdles ==
    ASSUME PageInv, mishaps' \in Nat, UNCHANGED <<page, box, fetching, posting, shelf>>
    PROVE  PageInv'
<1> USE DEF PageInv, page, box, shelf
<1>1. ThreadTypeOK'
    BY DEF ThreadTypeOK
<1>2. ScreenIsCurrent' /\ OneFollowUp'
    BY DEF ScreenIsCurrent, OneFollowUp
<1>3. EachReplyOnce'
    BY CopiesKept
<1>4. AnswersSound'
    BY DEF AnswersSound
<1> QED BY <1>1, <1>2, <1>3, <1>4

LEMMA PageInductive == PageInv /\ [ThreadNext]_threadVars => PageInv'
<1> SUFFICES ASSUME PageInv, [ThreadNext]_threadVars PROVE PageInv'
    OBVIOUS
<1>1. CASE ThreadNext
    BY <1>1, ReceiveThreadKeeps, TypeReplyKeeps, ReloadKeeps, ServeThreadKeeps, SendReplyKeeps,
       ReceiveFollowUpKeeps, LookUpKeeps, StoreKeeps, SetStatusKeeps
       DEF ThreadNext
<1>2. CASE UNCHANGED threadVars
    <2>1. mishaps' \in Nat
        BY <1>2 DEF threadVars, PageInv, ThreadTypeOK
    <2> QED BY <1>2, <2>1, PageIdles DEF threadVars
<1> QED BY <1>1, <1>2

\* A thread that was begun stays, so the links of the page go on leading to it.
LEMMA LeadOn ==
    ASSUME PageInv, [ThreadNext]_threadVars, NEW t \in Link, Leads(t)
    PROVE  Leads(t)'
<1>2. ThreadTypeOK
    BY DEF PageInv
<1>1. ASSUME NEW i \in Thread, threads[i].status # "none"
      PROVE  threads'[i].status # "none"
    <2>1. ASSUME NEW j \in Thread, NEW d, Insert(j, d) PROVE threads'[i].status # "none"
        BY <1>1, <1>2, <2>1 DEF Insert, ThreadTypeOK
    <2>2. ASSUME NEW j \in Thread, SetStatus(j) PROVE threads'[i].status # "none"
        <3> DEFINE r == [threads[j] EXCEPT !.status = IF threads[j].status = "open" THEN "archived" ELSE "open"]
        <3>1. threads' = [threads EXCEPT ![j] = r] /\ r.status # "none"
            BY <1>2, <2>2 DEF SetStatus, ThreadTypeOK, Content
        <3> HIDE DEF r
        <3> QED BY <1>1, <1>2, <3>1 DEF ThreadTypeOK
    <2>3. CASE UNCHANGED threads
        BY <1>1, <2>3
    <2>4. ASSUME NEW s \in Slot, StoreReply(s) \/ ReplyFails(s) PROVE threads'[i].status # "none"
        <3>1. UNCHANGED threads \/ \E d : \E j \in Thread : Insert(j, d)
            BY <2>4, FollowUpServed
        <3> QED BY <2>1, <2>3, <3>1
    <2> QED BY <2>1, <2>2, <2>3, <2>4 DEF ThreadNext, threadVars, shelf, ReceiveThread, TypeReply, Reload,
               ServeThread, ThreadFails, SendReply, PostReply, ReceiveFollowUp, LookUpThread
<1> QED BY <1>1, ThreadBound DEF Leads, Link, Thread

LEMMA LinksLeadStart == ThreadInit => LinksLead
<1> SUFFICES ASSUME ThreadInit PROVE LinksLead
    OBVIOUS
<1>1. token \in {0, 1} /\ \A s \in Slot : posting[s].of = 0 /\ posting[s].next = 0
    BY DEF ThreadInit, Mounted, NoFollowUp
<1>2. 1 \in Thread /\ threads[1].status # "none"
    BY ThreadBound DEF ThreadInit, Thread
<1> QED BY <1>1, <1>2 DEF LinksLead, Leads

\* The page takes up a link only from an answer, and an answer names the thread
\* the text is in.
LEMMA LinksLeadOn ==
    ASSUME ThreadInv, [ThreadNext]_threadVars
    PROVE  LinksLead'
<1>1. PageInv /\ ThreadTypeOK /\ OneFollowUp /\ LinksLead
    BY DEF ThreadInv, PageInv
<1>2. \A t \in Link : Leads(t) => Leads(t)'
    BY <1>1, LeadOn
<1>3. 0 \in Link /\ token \in Link /\ \A s \in Slot : posting[s].of \in Link /\ posting[s].next \in Link
    BY <1>1, ThreadBound DEF ThreadTypeOK, FollowUp, NoFollowUp, Link
<1>4. Leads(0)'
    BY DEF Leads
<1>5. ASSUME UNCHANGED <<token, posting>>
      PROVE  LinksLead'
    BY <1>1, <1>2, <1>3, <1>5 DEF LinksLead
<1>6. ASSUME token' = url, \A s \in Slot : posting'[s] = NoFollowUp
      PROVE  LinksLead'
    BY <1>1, <1>2, <1>3, <1>4, <1>6 DEF LinksLead, NoFollowUp, OneFollowUp
<1>7. ASSUME NEW s \in Slot, NEW d, posting' = [posting EXCEPT ![s] = d],
             Leads(token)', Leads(d.of)', Leads(d.next)'
      PROVE  LinksLead'
    <2>1. \A r \in Slot \ {s} : Leads(posting[r].of)' /\ Leads(posting[r].next)'
        BY <1>1, <1>2, <1>3, <1>7 DEF LinksLead, ThreadTypeOK
    <2>2. posting'[s] = d
        BY <1>1, <1>7 DEF ThreadTypeOK
    <2> QED BY <1>7, <2>1, <2>2 DEF LinksLead
<1>8. ASSUME NEW s \in Slot, SendReply(s) PROVE LinksLead'
    <2>1. PICK d : d = [of |-> token, text |-> body, stage |-> "new", answer |-> "none", next |-> 0]
        OBVIOUS
    <2>2. posting' = [posting EXCEPT ![s] = d] /\ token' = token /\ d.of = token /\ d.next = 0
        BY <1>8, <2>1 DEF SendReply, PostReply, page
    <2>3. Leads(d.of)' /\ Leads(d.next)' /\ Leads(token)'
        <3>1. Leads(token)'
            BY <1>1, <1>2, <1>3, <2>2 DEF LinksLead, Leads
        <3> QED BY <1>4, <2>2, <3>1 DEF Leads
    <2> QED BY <1>7, <2>2, <2>3
<1>9. ASSUME NEW s \in Slot, ReceiveFollowUp(s) PROVE LinksLead'
    <2>1. posting' = [posting EXCEPT ![s] = NoFollowUp] /\ token' \in {token, posting[s].next}
        BY <1>9 DEF ReceiveFollowUp, Follow
    <2>2. Leads(token)'
        BY <1>1, <1>2, <1>3, <2>1 DEF LinksLead
    <2>3. PICK d : d = NoFollowUp
        OBVIOUS
    <2>4. d.of = 0 /\ d.next = 0
        BY <2>3 DEF NoFollowUp
    <2>5. Leads(d.of)' /\ Leads(d.next)'
        BY <1>4, <2>4 DEF Leads
    <2> QED BY <1>7, <2>1, <2>2, <2>3, <2>5
<1>10. ASSUME NEW s \in Slot, LookUpThread(s) PROVE LinksLead'
    <2>1. posting[s] # NoFollowUp /\ token' = token
        BY <1>10 DEF LookUpThread, NoFollowUp, page
    <2>2. PICK d : /\ posting' = [posting EXCEPT ![s] = d]
                   /\ d.of = posting[s].of /\ d.next = posting[s].next
        <3> DEFINE c == posting[s]
                   r == [c EXCEPT !.stage = "done", !.answer = "refused"]
                   q == [c EXCEPT !.stage = IF threads[c.of].status = "open" THEN "append" ELSE "add"]
        <3>1. c \in FollowUp
            BY <1>1, <2>1 DEF ThreadTypeOK
        <3>2. r.of = c.of /\ r.next = c.next /\ q.of = c.of /\ q.next = c.next
            BY <3>1 DEF FollowUp
        <3>3. \/ posting' = [posting EXCEPT ![s] = r]
              \/ posting' = [posting EXCEPT ![s] = q]
            BY <1>10 DEF LookUpThread
        <3> HIDE DEF r, q
        <3> QED BY <3>2, <3>3
    <2>3. Leads(d.of)' /\ Leads(d.next)' /\ Leads(token)'
        BY <1>1, <1>2, <1>3, <2>1, <2>2 DEF LinksLead
    <2> QED BY <1>7, <2>2, <2>3
<1>11. ASSUME NEW s \in Slot, StoreReply(s) \/ ReplyFails(s) PROVE LinksLead'
    <2>1. PICK d \in FollowUp :
              /\ posting' = [posting EXCEPT ![s] = d] /\ d.of = posting[s].of
              /\ \/ d.next = posting[s].next
                 \/ d.next \in Thread /\ Insert(d.next, posting[s].text)
        BY <1>11, FollowUpServed DEF ThreadInv
    <2>2. token' = token
        BY <1>11 DEF StoreReply, ReplyFails, page
    <2>3. ASSUME d.next \in Thread, Insert(d.next, posting[s].text) PROVE Leads(d.next)'
        BY <1>1, <2>3 DEF Insert, ThreadTypeOK, Leads
    <2>4. Leads(d.of)' /\ Leads(d.next)' /\ Leads(token)'
        BY <1>1, <1>2, <1>3, <2>1, <2>2, <2>3 DEF LinksLead
    <2> QED BY <1>7, <2>1, <2>4
<1>12. CASE Reload
    BY <1>6, <1>12 DEF Reload
<1>13. CASE \/ ReceiveThread \/ TypeReply \/ ServeThread \/ ThreadFails \/ UNCHANGED threadVars
            \/ \E i \in Thread : SetStatus(i)
    BY <1>5, <1>13 DEF ReceiveThread, TypeReply, ServeThread, ThreadFails, SetStatus, threadVars, page
<1> QED BY <1>8, <1>9, <1>10, <1>11, <1>12, <1>13 DEF ThreadNext

LEMMA ThreadStart == ThreadInit /\ mishaps = 0 => ThreadInv
BY PageStart, LinksLeadStart DEF ThreadInv

LEMMA ThreadIdles ==
    ASSUME ThreadInv, mishaps' \in Nat, UNCHANGED <<page, box, fetching, posting, shelf>>
    PROVE  ThreadInv'
<1>1. PageInv'
    BY PageIdles DEF ThreadInv
<1>2. LinksLead'
    BY DEF ThreadInv, LinksLead, Leads, page, shelf
<1> QED BY <1>1, <1>2 DEF ThreadInv

LEMMA ThreadInductive == ThreadInv /\ [ThreadNext]_threadVars => ThreadInv'
BY PageInductive, LinksLeadOn DEF ThreadInv

\* The invariant of the page, whatever operators do to the threads meanwhile.
THEOREM ThreadPageInvariance == ThreadSpec => []ThreadInv
<1>1. ThreadInv /\ [ThreadNext]_threadVars => ThreadInv'
    BY ThreadInductive
<1> QED BY <1>1, ThreadStart, PTL DEF ThreadSpec

\* The page shows the thread of its token with every acknowledged follow-up
\* (ThreadPage.vue 48-55).
THEOREM ScreenStaysCurrent == ThreadSpec => []ScreenIsCurrent
<1>1. ThreadInv => ScreenIsCurrent
    BY DEF ThreadInv, PageInv
<1> QED BY <1>1, ThreadPageInvariance, PTL

\* A text leaves the box only when it is stored, by a reload, or typed over
\* (ThreadPage.vue 49).
THEOREM TextsLeaveStored == ThreadSpec => TextLeavesStored
<1> DEFINE Leaves == body # NoText /\ body' = NoText => acked'[body] # 0 \/ TypedOver \/ Reloaded
<1>1. ThreadInv /\ [ThreadNext]_threadVars => Leaves
    <2> SUFFICES ASSUME ThreadInv, [ThreadNext]_threadVars, body # NoText, body' = NoText
                 PROVE  acked'[body] # 0 \/ TypedOver \/ Reloaded
        OBVIOUS
    <2>1. CASE Reload
        BY <2>1 DEF Reload, Reloaded, Load
    <2>2. CASE \E s \in Slot : ReceiveFollowUp(s)
        <3>1. PICK s \in Slot : ReceiveFollowUp(s)
            BY <2>2
        <3>2. posting[s].answer = "ok"
            BY <3>1 DEF ReceiveFollowUp
        <3>3. posting[s] # NoFollowUp
            BY <3>2 DEF NoFollowUp
        <3>4. posting[s].text \in Draft /\ posting[s].next \in Thread
            BY <3>2, <3>3, FollowUpIsFirst DEF ThreadInv
        <3>5. acked' = [acked EXCEPT ![posting[s].text] = posting[s].next]
            BY <3>1, <3>2 DEF ReceiveFollowUp
        <3>6. acked'[posting[s].text] # 0
            BY <3>4, <3>5 DEF ThreadInv, PageInv, ThreadTypeOK, Thread
        <3> QED BY <3>2, <3>6 DEF TypedOver
    <2>3. CASE ~Reload /\ ~\E s \in Slot : ReceiveFollowUp(s)
        <3>1. body' = body \/ TypeReply
            BY <2>3 DEF ThreadNext, ReceiveThread, ServeThread, ThreadFails, SendReply, LookUpThread,
                        StoreReply, ReplyFails, SetStatus, threadVars, page, box
        <3>2. TypeReply => body' # NoText
            BY PageBounds DEF TypeReply, NoText, ThreadInv, PageInv, ThreadTypeOK, DraftOrNone
        <3> QED BY <3>1, <3>2
    <2> QED BY <2>1, <2>2, <2>3
<1>2. ThreadInv /\ [ThreadNext]_threadVars => [Leaves]_threadVars
    BY <1>1
<1> QED BY <1>2, ThreadPageInvariance, PTL DEF ThreadSpec, TextLeavesStored

----------------------------------------------------------------------------
(* ThreadPage's server implements Shelf *)

PageFiled == {p \in Draft \X Thread : p[1] \in threads[p[2]].posts}
PageFound == {LookedUpBy(s) : s \in {r \in Slot : posting[r].stage \in {"append", "add"}}}

\* A request that looks nothing up leaves the follow-ups that have, without its
\* own.
LEMMA RequestLeaves ==
    ASSUME ThreadTypeOK, NEW s \in Slot, NEW d, d.stage \notin {"append", "add"},
           posting' = [posting EXCEPT ![s] = d]
    PROVE  /\ PageFound' \subseteq PageFound
           /\ posting[s].stage \in {"append", "add"} => PageFound' = PageFound \ {LookedUpBy(s)}
<1>1. posting'[s] = d /\ \A x \in Slot : x # s => posting'[x] = posting[x]
    BY DEF ThreadTypeOK
<1>2. \A x, y : LookedUpBy(x) = LookedUpBy(y) => x = y
    BY DEF LookedUpBy
<1>3. \A x \in Slot : x # s => LookedUpBy(x)' = LookedUpBy(x)
    BY <1>1 DEF LookedUpBy
<1>4. PageFound' = {LookedUpBy(x) : x \in {y \in Slot \ {s} : posting[y].stage \in {"append", "add"}}}
    BY <1>1, <1>3 DEF PageFound
<1> QED BY <1>2, <1>4 DEF PageFound

\* The server puts a text into a thread: one that is open, or archived, where
\* it stays so, or a new one.
LEMMA InsertFiles ==
    ASSUME ThreadTypeOK, NEW i \in Thread, NEW d \in Draft, Insert(i, d)
    PROVE  /\ PageFiled' = PageFiled \cup {<<d, i>>}
           /\ Standing("archived")' = Standing("archived")
           /\ threads[i].status # "none" => Standing("open")' = Standing("open")
           /\ threads[i].status = "none" =>
                  Standing("open")' = Standing("open") \cup {<<"visitor", i>>}
<1>1. /\ \A j \in Thread : j # i => threads'[j] = threads[j]
      /\ threads'[i].posts = threads[i].posts \cup {d}
      /\ threads'[i].status = IF threads[i].status = "none" THEN "open" ELSE threads[i].status
    BY DEF Insert, ThreadTypeOK
<1>2. \A p \in Draft \X Thread : p[1] \in threads'[p[2]].posts
                                  <=> p[1] \in threads[p[2]].posts \/ p = <<d, i>>
    BY <1>1
<1>3. PageFiled' = PageFiled \cup {<<d, i>>}
    BY <1>2 DEF PageFiled
<1> QED BY <1>1, <1>3 DEF Standing

LEMMA FollowUpFiled ==
    ASSUME ThreadTypeOK, NEW s \in Slot, NEW i \in Targets(posting[s]), i \in Thread,
           posting[s].stage \in {"append", "add"}, posting[s].of \in Thread, posting[s].text \in Draft,
           threads[posting[s].of].status # "none",
           Insert(i, posting[s].text),
           PageFound' = PageFound \ {LookedUpBy(s)}
    PROVE  Filing!Next
<1> DEFINE f == LookedUpBy(s)
           c == posting[s]
           m == posting[s].text
           O == Standing("open")
           A == Standing("archived")
<1>1. /\ PageFiled' = PageFiled \cup {<<m, i>>} /\ A' = A
      /\ threads[i].status # "none" => O' = O
      /\ threads[i].status = "none" => O' = O \cup {<<"visitor", i>>}
    BY InsertFiles
<1>2. f \in PageFound /\ f.thread = c.of /\ f.open = (c.stage = "append")
    BY DEF PageFound, LookedUpBy
<1>3. <<"visitor", c.of>> \in O \cup A
    BY DEF Standing, ThreadTypeOK, Content, Status
<1>4. /\ threads[i].status = "open" <=> <<"visitor", i>> \in O
      /\ threads[i].status = "none" => \A q \in O \cup A : q[2] # i
      /\ OpenThreads = {} => \A q \in O : q[1] # "visitor"
    BY DEF Standing, OpenThreads
<1>5. ASSUME Filing!FollowUp(f, m, i) PROVE Filing!Next
    <2>1. <<m, i>> \in PageFiled'
        BY <1>1
    <2> HIDE DEF f, m
    <2>2. \E p \in PageFiled' : \E g \in PageFound : Filing!FollowUp(g, p[1], p[2])
        BY <1>2, <1>5, <2>1
    <2> QED BY <2>2 DEF Filing!Next, PageFound, PageFiled
<1>6. CASE c.stage = "append"
    <2>1. i = c.of /\ O' = O
        BY <1>1, <1>6 DEF Targets
    <2> HIDE DEF f, m, c
    <2>2. Filing!FollowUp(f, m, i)
        BY <1>1, <1>2, <1>6, <2>1 DEF Filing!FollowUp, PageFound, PageFiled, f
    <2> QED BY <1>5, <2>2
<1>7. CASE c.stage = "add"
    <2>1. \/ threads[i].status = "open"
          \/ threads[i].status = "none" /\ OpenThreads = {}
        BY <1>7 DEF Targets, OpenThreads, Unused
    <2> HIDE DEF f, m, c
    <2>2. Filing!File("visitor", m, i)
        BY <1>1, <1>4, <2>1 DEF Filing!File, Filing!begun, PageFiled
    <2>3. Filing!FollowUp(f, m, i)
        BY <1>2, <1>3, <1>7, <2>2 DEF Filing!FollowUp, Filing!begun, PageFound, f
    <2> QED BY <1>5, <2>3
<1> QED BY <1>6, <1>7

LEMMA PageShelfStep == ThreadInv /\ [ThreadNext]_threadVars => [Filing!Next]_(Filing!vars)
<1> SUFFICES ASSUME ThreadInv, [ThreadNext]_threadVars PROVE [Filing!Next]_(Filing!vars)
    OBVIOUS
<1> DEFINE O == Standing("open")
           A == Standing("archived")
<1>1. PageInv /\ ThreadTypeOK /\ OneFollowUp /\ LinksLead
    BY DEF ThreadInv, PageInv
<1>2. ASSUME UNCHANGED threads PROVE O' = O /\ A' = A /\ PageFiled' = PageFiled
    BY <1>2 DEF Standing, PageFiled
<1>3. ASSUME UNCHANGED threads, PageFound' \subseteq PageFound PROVE Filing!Next
    BY <1>2, <1>3 DEF Filing!Next, Filing!GiveUp, PageFound, PageFiled
<1>4. CASE \/ ReceiveThread \/ TypeReply \/ ServeThread \/ ThreadFails \/ UNCHANGED threadVars
    <2>1. UNCHANGED <<threads, posting>>
        BY <1>4 DEF ReceiveThread, TypeReply, ServeThread, ThreadFails, threadVars, shelf
    <2> QED BY <1>3, <2>1 DEF PageFound, LookedUpBy
<1>5. CASE Reload
    <2>1. UNCHANGED threads /\ PageFound' = {}
        BY <1>5 DEF Reload, PageFound, NoFollowUp
    <2> QED BY <1>3, <2>1
<1>6. ASSUME NEW s \in Slot, SendReply(s) \/ ReceiveFollowUp(s) PROVE Filing!Next
    <2>1. UNCHANGED threads
        BY <1>6 DEF SendReply, PostReply, ReceiveFollowUp, shelf
    <2>2. \E d : d.stage \notin {"append", "add"} /\ posting' = [posting EXCEPT ![s] = d]
        <3>1. CASE SendReply(s)
            <4>1. PICK d : d = [of |-> token, text |-> body, stage |-> "new", answer |-> "none", next |-> 0]
                OBVIOUS
            <4> QED BY <3>1, <4>1 DEF SendReply, PostReply
        <3>2. CASE ReceiveFollowUp(s)
            BY <3>2 DEF ReceiveFollowUp, NoFollowUp
        <3> QED BY <1>6, <3>1, <3>2
    <2> QED BY <1>1, <1>3, <2>1, <2>2, RequestLeaves
<1>7. ASSUME NEW s \in Slot, LookUpThread(s) PROVE Filing!Next
    <2>1. UNCHANGED threads /\ posting[s].stage = "new" /\ posting[s] # NoFollowUp
        BY <1>7 DEF LookUpThread, shelf, NoFollowUp
    <2>2. s = 1 /\ posting[s] \in FollowUp
        BY <1>1, <2>1, FollowUpIsFirst
    <2>3. CASE posting[s].of = 0
        <3>1. PICK d : d = [posting[s] EXCEPT !.stage = "done", !.answer = "refused"]
            OBVIOUS
        <3>2. posting' = [posting EXCEPT ![s] = d] /\ d.stage = "done"
            BY <1>7, <2>2, <2>3, <3>1 DEF LookUpThread, FollowUp
        <3> QED BY <1>1, <1>3, <2>1, <3>2, RequestLeaves
    <2>4. CASE posting[s].of # 0
        <3>1. PICK d : d = [posting[s] EXCEPT
                               !.stage = IF threads[posting[s].of].status = "open" THEN "append" ELSE "add"]
            OBVIOUS
        <3>2. /\ posting' = [posting EXCEPT ![s] = d] /\ d.of = posting[s].of
              /\ d.stage = IF threads[posting[s].of].status = "open" THEN "append" ELSE "add"
            BY <1>7, <2>2, <2>4, <3>1 DEF LookUpThread, FollowUp
        <3>3. PICK f : f = [request |-> s, thread |-> posting[s].of,
                            open |-> (threads[posting[s].of].status = "open")]
            OBVIOUS
        <3>4. LookedUpBy(s)' = f
            BY <1>1, <3>2, <3>3 DEF LookedUpBy, ThreadTypeOK
        <3>5. PageFound = {}
            BY <1>1, <2>1, <2>2 DEF PageFound, OneFollowUp, Slot, NoFollowUp
        <3>6. PageFound' = {f}
            BY <1>1, <2>2, <3>2, <3>4 DEF PageFound, OneFollowUp, Slot, NoFollowUp, ThreadTypeOK
        <3>7. posting[s].of \in Thread /\ threads[posting[s].of].status # "none"
            BY <1>1, <2>2, <2>4, ThreadBound DEF LinksLead, Leads, FollowUp, Link, Thread
        <3>8. /\ <<"visitor", posting[s].of>> \in O \cup A
              /\ <<"visitor", posting[s].of>> \in O <=> threads[posting[s].of].status = "open"
            BY <1>1, <3>7 DEF Standing, ThreadTypeOK, Content, Status
        <3>9. \E q \in O \cup A : f.thread = q[2] /\ f.open = (q \in O)
            BY <3>3, <3>8
        <3>10. Filing!LookUp(f)
            BY <1>2, <2>1, <3>5, <3>6, <3>9 DEF Filing!LookUp, Filing!begun, PageFound, PageFiled
        <3> QED BY <3>6, <3>10 DEF Filing!Next, PageFound
    <2> QED BY <2>3, <2>4
<1>8. ASSUME NEW s \in Slot, StoreReply(s) \/ ReplyFails(s) PROVE Filing!Next
    <2>1. posting[s] # NoFollowUp /\ posting[s].stage # "done"
        BY <1>1, <1>8, FollowUpServed
    <2>2. /\ posting[s].text \in Draft
          /\ posting[s].stage \in {"append", "add"} =>
                 posting[s].of \in Thread /\ threads[posting[s].of].status # "none"
        BY <1>1, <2>1, FollowUpIsFirst DEF LinksLead, Leads, Thread
    <2>3. PICK d : /\ posting' = [posting EXCEPT ![s] = d] /\ d.stage = "done"
                   /\ \/ UNCHANGED threads
                      \/ /\ posting[s].stage \in {"append", "add"}
                         /\ \E i \in Targets(posting[s]) : Insert(i, posting[s].text)
        BY <1>1, <1>8, FollowUpServed
    <2>4. CASE UNCHANGED threads
        BY <1>1, <1>3, <2>3, <2>4, RequestLeaves
    <2>5. ASSUME posting[s].stage \in {"append", "add"},
                 NEW i \in Targets(posting[s]), Insert(i, posting[s].text)
          PROVE  Filing!Next
        <3>1. PageFound' = PageFound \ {LookedUpBy(s)}
            BY <1>1, <2>3, <2>5, RequestLeaves
        <3>2. i \in Thread
            BY <1>1, <1>8, <2>5, FollowUpServed
        <3> QED BY <1>1, <2>2, <2>5, <3>1, <3>2, FollowUpFiled
    <2> QED BY <2>3, <2>4, <2>5
<1>9. ASSUME NEW i \in Thread, SetStatus(i) PROVE Filing!Next
    <2> PICK q : q = <<"visitor", i>>
        OBVIOUS
    <2>1. /\ UNCHANGED posting /\ threads[i].status \in {"open", "archived"}
          /\ \A j \in Thread : j # i => threads'[j] = threads[j]
          /\ threads'[i].posts = threads[i].posts
          /\ threads'[i].status = IF threads[i].status = "open" THEN "archived" ELSE "open"
        BY <1>1, <1>9 DEF SetStatus, ThreadTypeOK, Content, Status
    <2>2. PageFound' = PageFound
        BY <2>1 DEF PageFound, LookedUpBy
    <2>3. PageFiled' = PageFiled
        <3>1. \A j \in Thread : threads'[j].posts = threads[j].posts
            BY <2>1
        <3> QED BY <3>1 DEF PageFiled
    <2>4. CASE threads[i].status = "open"
        <3>1. O' = O \ {q} /\ A' = A \cup {q} /\ q \in O
            BY <2>1, <2>4 DEF Standing
        <3>2. Filing!Archive(q)
            BY <2>2, <2>3, <3>1 DEF Filing!Archive, PageFound, PageFiled
        <3> QED BY <3>1, <3>2 DEF Filing!Next, Filing!begun
    <2>5. CASE threads[i].status = "archived"
        <3>1. O' = O \cup {q} /\ A' = A \ {q} /\ q \in A
            BY <2>1, <2>5 DEF Standing
        <3>2. Filing!Unarchive(q)
            BY <2>2, <2>3, <3>1 DEF Filing!Unarchive, PageFound, PageFiled
        <3> QED BY <3>1, <3>2 DEF Filing!Next, Filing!begun
    <2> QED BY <2>1, <2>4, <2>5
<1> QED BY <1>4, <1>5, <1>6, <1>7, <1>8, <1>9 DEF ThreadNext

\* The threads the page is served from promise what those of module Threads do
\* (ThreadsProofs, ShelfRefinement): a follow-up goes into the thread its link
\* led to if that was open at the look-up, and else into an open or a new one of
\* the visitor (public.go:144).
THEOREM PageShelfRefinement == ThreadSpec => PageKeepsShelf
<1>1. ThreadInit => Filing!Init
    <2> SUFFICES ASSUME ThreadInit PROVE Filing!Init
        OBVIOUS
    <2>1. /\ \A j \in Thread : threads[j].posts = {}
          /\ \A s \in Slot : posting[s].stage = "done"
        BY DEF ThreadInit, NoFollowUp
    <2>2. Standing("open") \cap Standing("archived") = {}
        BY DEF Standing
    <2> QED BY <2>1, <2>2 DEF Filing!Init
<1>2. ThreadInv /\ [ThreadNext]_threadVars => [Filing!Next]_(Filing!vars)
    BY PageShelfStep
<1> QED BY <1>1, <1>2, ThreadPageInvariance, PTL DEF ThreadSpec, PageKeepsShelf, Filing!Spec
=============================================================================
