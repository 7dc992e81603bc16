------------------------------- MODULE Widget -------------------------------
(***************************************************************************)
(* The widget of a website: the panel that web/widget/widget.js puts on    *)
(* the host page, and in its frame the contact form of the visitor app,    *)
(* web/visitor/src/views/WidgetForm.vue, with the captcha it loads         *)
(* (turnstile.ts) and the request it makes (api.ts).                       *)
(*                                                                         *)
(* A step is an event of the page (a click, a key, a message, a timer) or  *)
(* an answer with what its await resumes.  The visitor types while a       *)
(* submission is on its way: nothing in the form keeps them from it.       *)
(*                                                                         *)
(* A captcha token is fresh until a submission has taken it; Turnstile     *)
(* accepts a token once.  The server is handleNewMessage: the captcha is   *)
(* verified before anything is stored.  Styles, sizes, wording and the     *)
(* address of the visitor are left out.                                    *)
(***************************************************************************)
EXTENDS Page

VARIABLES
    isOpen,        \* the panel, as the visitor asked for it
    displayed,     \* the panel has its place on the host page
    hideTimer,     \* the timer that takes it away after the fade-out
    loaded,        \* the frame has been given its address
    posted,        \* close messages of the frame on their way to the host
    mounting,      \* how far onMounted has come
    siteKey,       \* the form knows that a captcha is due
    challenged,    \* Turnstile has the box and owes it a token
    captchaToken,
    values,        \* what is typed in the form
    submitting,
    sent,
    thanked,       \* the draft the visitor was thanked for
    submission,    \* requests of submit() in flight
    captchaOn,     \* the server is configured with a captcha
    received,      \* how many copies of a draft the server has stored
    unanswered     \* how many of them the form was not told of

panel == <<isOpen, displayed, hideTimer, loaded>>
captcha == <<mounting, siteKey, challenged>>
form == <<values, submitting, sent, thanked>>
ledger == <<received, unanswered>>
widgetVars == <<panel, posted, captcha, captchaToken, form, submission, captchaOn,
                ledger, mishaps>>

MaxPosted == 2
Captcha == {"none", "fresh", "used"}
Submission == [text : Draft, token : Captcha, answer : Answer]
NoSubmission == [text |-> 0, token |-> "none", answer |-> "none"]

WidgetTypeOK ==
    /\ isOpen \in BOOLEAN /\ displayed \in BOOLEAN /\ hideTimer \in BOOLEAN
    /\ loaded \in BOOLEAN
    /\ posted \in 0 .. MaxPosted
    /\ mounting \in {"off", "config", "script", "rendered", "failed", "done"}
    /\ siteKey \in BOOLEAN /\ challenged \in BOOLEAN
    /\ captchaToken \in Captcha
    /\ values \in DraftOrNone
    /\ submitting \in BOOLEAN /\ sent \in BOOLEAN
    /\ thanked \in DraftOrNone
    /\ submission \in [Slot -> Submission \cup {NoSubmission}]
    /\ captchaOn \in BOOLEAN
    /\ received \in [Draft -> Nat] /\ unanswered \in [Draft -> Nat]
    /\ mishaps \in Nat

\* init() of the host page, and a form that is not there before its frame is.
WidgetInit ==
    /\ isOpen = FALSE /\ displayed = FALSE /\ hideTimer = FALSE /\ loaded = FALSE
    /\ posted = 0
    /\ mounting = "off" /\ siteKey = FALSE /\ challenged = FALSE
    /\ captchaToken = "none"
    /\ values = NoText /\ submitting = FALSE /\ sent = FALSE /\ thanked = NoText
    /\ submission = [s \in Slot |-> NoSubmission]
    /\ captchaOn \in BOOLEAN
    /\ received = [t \in Draft |-> 0] /\ unanswered = [t \in Draft |-> 0]

-----------------------------------------------------------------------------
(* The panel. *)

\* Faulty: the timer of the last close goes on.
Toggle_KeepsTimer ==
    /\ isOpen' = ~isOpen
    /\ displayed' = (displayed \/ ~isOpen)
    /\ hideTimer' = (hideTimer \/ isOpen)
    /\ loaded' = TRUE
    /\ mounting' = IF loaded THEN mounting ELSE "config"

\* The frame is given its address at the first opening only.
Toggle ==
    /\ isOpen' = ~isOpen
    /\ displayed' = (displayed \/ ~isOpen)
    /\ hideTimer' = isOpen
    /\ loaded' = TRUE
    /\ mounting' = IF loaded THEN mounting ELSE "config"

Unmoved == <<siteKey, challenged, captchaToken, form, submission, captchaOn, ledger, mishaps>>

Click ==
    /\ Toggle
    /\ UNCHANGED <<posted, Unmoved>>

Escape ==
    /\ isOpen
    /\ Toggle
    /\ UNCHANGED <<posted, Unmoved>>

\* The message of the form's close button: one that comes late opens nothing.
TakeClose ==
    /\ posted > 0
    /\ posted' = posted - 1
    /\ IF isOpen THEN Toggle ELSE UNCHANGED <<panel, mounting>>
    /\ UNCHANGED Unmoved

Hide ==
    /\ hideTimer
    /\ hideTimer' = FALSE
    /\ displayed' = FALSE
    /\ UNCHANGED <<isOpen, loaded, posted, mounting, Unmoved>>

-----------------------------------------------------------------------------
(* The form: onMounted, the captcha's callbacks, submit and close. *)

\* fetchConfig: any failure is taken for a server without a captcha.
ReceiveConfig ==
    /\ mounting = "config"
    /\ \/ siteKey' = captchaOn /\ UNCHANGED mishaps
       \/ siteKey' = FALSE /\ Mishap
    /\ mounting' = IF siteKey' THEN "script" ELSE "done"
    /\ UNCHANGED <<panel, posted, challenged, captchaToken, form, submission, captchaOn, ledger>>

\* loadTurnstile; nothing calls it again after a failure.  The box is there
\* unless the form has made way for the thanks.
ReceiveScript ==
    /\ mounting = "script"
    /\ \/ mounting' = "rendered" /\ challenged' = ~sent /\ UNCHANGED mishaps
       \/ mounting' = "failed" /\ UNCHANGED challenged /\ Mishap
    /\ UNCHANGED <<panel, posted, siteKey, captchaToken, form, submission, captchaOn, ledger>>

\* callback: the visitor has solved the challenge.
Solve ==
    /\ challenged /\ ~sent
    /\ challenged' = FALSE
    /\ captchaToken' = "fresh"
    /\ UNCHANGED <<panel, posted, mounting, siteKey, form, submission, captchaOn, ledger, mishaps>>

\* expired-callback and error-callback; Turnstile starts over by itself.
Expire ==
    /\ captchaToken # "none" /\ ~sent
    /\ Mishap
    /\ captchaToken' = "none"
    /\ challenged' = TRUE
    /\ UNCHANGED <<panel, posted, mounting, siteKey, form, submission, captchaOn, ledger>>

FormShown == isOpen /\ loaded /\ ~sent

\* Each text typed is a new draft, also over one that is on its way.
TypeMessage ==
    /\ FormShown
    /\ values < MaxDrafts
    /\ values' = values + 1
    /\ UNCHANGED <<panel, posted, captcha, captchaToken, submitting, sent, thanked, submission,
                   captchaOn, ledger, mishaps>>

FreeSlot(s) == submission[s] = NoSubmission /\ \A t \in Slot : t < s => submission[t] # NoSubmission

MaySubmit == values # NoText /\ (siteKey => captchaToken # "none")

\* What submitMessage posts; the token is taken by it.
Post(s) ==
    /\ FreeSlot(s)
    /\ submitting' = TRUE
    /\ submission' = [submission EXCEPT ![s] =
                         [text |-> values, token |-> captchaToken, answer |-> "none"]]
    /\ captchaToken' = IF captchaToken = "fresh" THEN "used" ELSE captchaToken
    /\ UNCHANGED <<panel, posted, captcha, values, sent, thanked, captchaOn, ledger, mishaps>>

\* Faulty: a second press while the first is on its way.
Submit_Twice(s) == FormShown /\ MaySubmit /\ Post(s)

\* submit() up to its await.  When it returns early it changes nothing but
\* the messages under the fields.
Submit(s) == FormShown /\ ~submitting /\ MaySubmit /\ Post(s)

\* Faulty: the old token stays in the form.
ResetCaptcha_TokenStays ==
    /\ challenged' = (challenged \/ mounting = "rendered")
    /\ UNCHANGED captchaToken

\* Faulty: Turnstile is not asked for another one.
ResetCaptcha_NoChallenge ==
    /\ captchaToken' = "none"
    /\ UNCHANGED challenged

ResetCaptcha ==
    /\ captchaToken' = "none"
    /\ challenged' = (challenged \/ mounting = "rendered")

\* submit() after its await.
ReceiveSubmission(s) ==
    LET c == submission[s] IN
    /\ c.answer # "none"
    /\ submission' = [submission EXCEPT ![s] = NoSubmission]
    /\ submitting' = FALSE
    /\ \/ /\ c.answer = "ok"
          /\ sent' = TRUE
          /\ thanked' = c.text
          /\ UNCHANGED <<challenged, captchaToken>>
       \/ /\ c.answer # "ok"
          /\ ResetCaptcha
          /\ UNCHANGED <<sent, thanked>>
    /\ UNCHANGED <<panel, posted, mounting, siteKey, values, captchaOn, ledger, mishaps>>

\* close(): the button under the thanks.
PressClose ==
    /\ isOpen /\ sent
    /\ posted < MaxPosted
    /\ posted' = posted + 1
    /\ UNCHANGED <<panel, captcha, captchaToken, form, submission, captchaOn, ledger, mishaps>>

-----------------------------------------------------------------------------
(* The server. *)

Submitted(s) == submission[s] # NoSubmission /\ submission[s].answer = "none"

Verified(c) == captchaOn => c.token = "fresh"

StoreMessage(t) == received' = [received EXCEPT ![t] = @ + 1]

ServeSubmission(s) ==
    /\ Submitted(s)
    /\ \/ /\ Verified(submission[s])
          /\ StoreMessage(submission[s].text)
          /\ submission' = [submission EXCEPT ![s].answer = "ok"]
       \/ /\ ~Verified(submission[s])
          /\ submission' = [submission EXCEPT ![s].answer = "refused"]
          /\ UNCHANGED received
    /\ UNCHANGED <<panel, posted, captcha, captchaToken, form, captchaOn, unanswered, mishaps>>

\* The rate limiter refuses, the captcha cannot be verified, the store fails,
\* or the connection does; only the last may hide that the message is stored.
SubmissionFails(s) ==
    /\ Submitted(s)
    /\ Mishap
    /\ submission' = [submission EXCEPT ![s].answer = "failed"]
    /\ \/ UNCHANGED ledger
       \/ /\ Verified(submission[s])
          /\ StoreMessage(submission[s].text)
          /\ unanswered' = [unanswered EXCEPT ![submission[s].text] = @ + 1]
    /\ UNCHANGED <<panel, posted, captcha, captchaToken, form, captchaOn>>

-----------------------------------------------------------------------------
WidgetNext ==
    \/ Click \/ Escape \/ TakeClose \/ Hide
    \/ ReceiveConfig \/ ReceiveScript \/ Solve \/ Expire
    \/ TypeMessage \/ PressClose
    \/ \E s \in Slot : Submit(s) \/ ReceiveSubmission(s) \/ ServeSubmission(s) \/ SubmissionFails(s)

WidgetSpec == WidgetInit /\ mishaps = 0 /\ [][WidgetNext]_widgetVars

\* Timers run out, requests are answered, and awaits resume; and of people, that
\* a visitor who waits solves the challenge and presses the button again,
\* without which no message ever comes.
WidgetFairness ==
    /\ WF_widgetVars(Hide)
    /\ WF_widgetVars(ReceiveConfig) /\ WF_widgetVars(ReceiveScript)
    /\ WF_widgetVars(Solve)
    /\ \A s \in Slot : /\ WF_widgetVars(Submit(s))
                       /\ WF_widgetVars(ServeSubmission(s))
                       /\ WF_widgetVars(ReceiveSubmission(s))

-----------------------------------------------------------------------------
(* Properties. *)

\* An open panel is on the page and stays there: the timer of an earlier close
\* never takes it away (widget.js 177-180), and a closed panel goes when its
\* timer has run.
PanelSound ==
    /\ displayed <=> isOpen \/ hideTimer
    /\ ~(isOpen /\ hideTimer)
    /\ isOpen => loaded
    /\ mounting = "off" <=> ~loaded

\* "Turnstile tokens are single-use, so a failed submission has to reset the
\* widget before the visitor can try again" (WidgetForm.vue 17): no token is
\* submitted a second time, whatever failed, expired or was solved in between.
TokenSpentOnce == \A s \in Slot : submission[s].token # "used"

\* Every stored copy of a text is the one the visitor is thanked for, or its
\* answer is on its way or was lost: a message comes twice only after a lost
\* answer, and thanks are never for a message that is not stored, also when
\* the visitor has typed on meanwhile.
ThanksDue(t) == \E s \in Slot : submission[s].text = t /\ submission[s].answer = "ok"
EachStoredOnce ==
    \A t \in Draft : received[t] = unanswered[t] + One(ThanksDue(t)) + One(thanked = t)

\* At most one submission is out, and the form knows.
OneSubmission ==
    /\ submission[2] = NoSubmission
    /\ submission[1] # NoSubmission <=> submitting
    /\ sent <=> thanked # NoText
    /\ sent => ~submitting

\* The token of the form goes with the captcha the form knows of.
CaptchaSound ==
    /\ siteKey => captchaOn
    /\ challenged \/ captchaToken # "none" => mounting = "rendered"
    /\ mounting = "rendered" /\ ~sent => challenged \/ captchaToken # "none"
    /\ captchaToken = "used" => submitting \/ sent
    /\ mounting \in {"rendered", "failed", "script"} <=> siteKey

WidgetInv ==
    WidgetTypeOK /\ PanelSound /\ TokenSpentOnce /\ EachStoredOnce /\ OneSubmission /\ CaptchaSound

\* A visitor who keeps the panel open and keeps pressing the button gets the
\* message through once the mishaps are over - unless the form could not learn
\* that a captcha is due, or could not load it: then nothing but a reload of
\* the page helps.
CaptchaMissed == captchaOn /\ mounting \in {"done", "failed"}
GetsThrough ==
    WidgetFairness => (isOpen /\ values # NoText) ~> (sent \/ ~isOpen \/ CaptchaMissed)
=============================================================================
