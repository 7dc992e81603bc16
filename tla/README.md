# FreeSupp: a verification project

FreeSupp is a self-hosted support desk: a website embeds a widget, visitors leave messages, operators
answer from an inbox, and everything reaches the other side by mail with a *magic link* to the thread.
This directory holds TLA+ modules of its logic, TLC configurations that check them on small instances,
and proofs of their main properties for every size, checked by TLAPS.

Paths below are relative to the repository root.

## 1. Inventory

| component | state | operations | talks to |
|---|---|---|---|
| conversation store (`internal/store/threads.go`, `conversations.go`, `messages.go`) | tables `conversations`, `messages` | add / append a visitor message, add a reply, mark read, archive, unarchive, list | one SQLite connection (`store.go:40`), writes of one operation in one transaction |
| visitor API (`internal/server/public.go`) | none of its own | new message, thread by link, follow-up | store, captcha, notifier, rate limiter |
| operator API (`internal/server/inbox.go`) | none of its own | list, open (and mark read), reply, archive, unarchive | store, notifier |
| notifier (`internal/mail/notifier.go`) | goroutines in a wait group | operator notice, receipt, reply mail; bounded wait | mail sender |
| operator accounts (`internal/store/users.go`, `internal/server/users.go`, `auth.go`) | table `users`; the session is in the client's cookie | setup, sign in, authenticate each request, create, remove, promote, demote, reset, change password | store |
| rate limiter (`internal/server/ratelimit.go`) | map of buckets, time of the last sweep, a mutex | `allow`, `sweep` | clock |
| sessions and passwords (`internal/auth`) | none | sign, parse, hash, check | - |
| mail sender, templates (`internal/mail`) | one SMTP connection per mail | send | SMTP server |
| captcha (`internal/captcha`) | none | verify | Turnstile |
| migrations (`internal/store/store.go`) | table of applied migrations | apply what is missing | SQLite |
| process (`cmd/freesupp/main.go`) | HTTP server, notifier, store | start, graceful stop | all of the above |
| configuration, static files (`internal/config`, `assets.go`, `widget.go`) | none | load, serve | environment |
| inbox page (`web/inbox/src/views/InboxView.vue`, `ConversationDetail.vue`, `usePolling.ts`) | selected row, shown thread, list, draft, polling flags | select, load, reply, archive, switch tab | operator API |
| sign-in of the inbox application (`App.vue`, `LoginScreen.vue`, `SetupScreen.vue`, `api.ts`) | who is signed in, which screen, busy form; the cookie is the browser's | start, set up, sign in, sign out, drop on 401 | operator API |
| team settings (`SettingsScreen.vue`) | list of users, open row forms, typed password | load, add, promote, delete, reset | operator accounts |
| widget (`web/widget/widget.js`) and contact form (`WidgetForm.vue`, `turnstile.ts`) | panel, its timer, the frame; captcha token, typed text, submission | open, close, solve, type, submit | visitor API, Turnstile, each other by messages |
| thread page (`web/visitor/src/views/ThreadPage.vue`) | token, address, thread shown, reply box | load, follow up, follow the new token | visitor API |

What is hard here, and what the properties are for (`PROJECT.json` lists each hazard with its line):

* **Handlers are several store calls.** Each call is atomic, the handler is not. What it has read (a
  thread's status and link, the row and the messages of a conversation, the caller's and the target's
  account, the number of admins) may be stale when it writes.
* **Mails are sent by goroutines of their own**, once: a failure is logged and the mail is gone, and a
  crash loses what was not sent.
* **Clients go away**, which cancels the request's context between two calls.
* **Row ids of accounts come back** after the highest one is removed.
* **The limiter forgets** idle addresses and refills the others only when they ask.
* In the pages, **answers arrive in any order**; drafts, selections, marks, open forms, captcha tokens and
  timers outlive the requests they were made for. An answer may be lost although the server obeyed.
* **The session is in the browser**, the name of who is signed in on the page: late answers set one and
  not the other.
* **A stop is a chain of bounded waits**: handlers, then the mails they started, then the store; and a
  **migration** may be met by a crash or by a second process.

What makes each component right:

* conversations: no message is lost from sight (unread until shown), one open thread per address, the
  inbox ordered by the newest message, the magic link given to nobody but the address's owner, everybody
  told in the end;
* accounts: one account per address, always an admin, rights only by admins, a password only for its own
  account;
* limiter: no address gets more than its limit, none less, and the wait it is told is enough;
* inbox page: no spinner without its request, nothing on screen under another conversation's name without
  a sign, no lost draft, a list that catches up;
* sign-in: one identity in the page and the browser, dropped when the session is gone and only then;
* settings: the patched list is the team, and what is asked for one account never goes to another;
* widget and form: an open panel stays, a captcha token is spent once, a message is stored once unless an
  answer was lost, thanks only for what is stored;
* thread page: what is shown is the thread of the token in the address, a text is never lost unstored;
* process: migrations exactly once, in order; a stop loses nothing unless a wait was given up, and ends.

## 2. Plan

| order | module | what | state |
|---|---|---|---|
| 1 | `Threads`, over `Desk` and `Shelf` | conversation store, both APIs, notifier's outcomes, crashes | done, proved |
| 2 | `Users` | accounts and their handlers | done, proved |
| 3 | `RateLimiter`, over `Quota` | limiter | done, proved |
| 4 | `Inbox` | the operators' page: `InboxView.vue`, `usePolling.ts`, `ConversationDetail.vue`, over a server that changes under it | done, proved |
| 5 | `Lifecycle` | migrations at start-up, crashes, two processes on one database; the drain (10 s), the bounded wait for mails (15 s), the closing of the store | done, proved |
| 6 | `Widget`; `ThreadPage`, over `Shelf` | panel, form and captcha; the page that follows tokens | done, proved |
| 7 | `Console` | who is signed in to the inbox application | done, proved |
| 8 | `Settings` | the team screen | done, proved |
| 9 | `Site`, over `Page` | 5 to 8 in one run | done, proved |
| 10 | composition | `Threads` and the server of `ThreadPage` keep one promise, `Shelf`: done, proved. The server of `Inbox` likewise; accounts of `Users` as recipients | open |

Theorems worth proving next: that the server in `Inbox` keeps `Desk` or `Shelf`, as `Threads` does.

## 3. The modules

### Threads

A step is one call of the store. A handler's reads are kept in its slot of `req`, other handlers run
between its steps, and `Answer` is the end of a visitor handler (recipients, mails started, response).

| TLA+ | code |
|---|---|
| `convs`, `msgs` | the two tables; the id of a row is its position |
| `req` | a handler in progress: `followUp` (link looked up), `stored` (message stored), `opened` (row read), `listed` (messages read) |
| `outbox` | receipts and reply mails of the notifier that are not sent yet |
| `held` | links that reached a visitor, by mail or in the answer to a follow-up |
| `seen`, `mailed`, `reopened` | history: what operators have been shown, been mailed about, and which threads they unarchived |
| `HandleNewMessage`, `LookUpLink`, `StoreFollowUp`, `Answer` | `handleNewMessage`, `handleThreadMessage` |
| `OpenConversation`, `ListMessages`, `AnswerOpened` | the three calls of `handleGetConversation` |
| `HandleReply`, `HandleArchive`, `HandleUnarchive` | the handlers of these names: the row they look up first is used only for what never changes, so one step |
| `Send` | `notifyVisitor`, `notifyVisitorReceipt` and `send` |
| `Fail`, `Crash` | an error return; the end of the process |

`Desk` says what operators rely on without requests or timestamps: a posted message marks its thread at
once, and the mark goes only with everything posted having been shown. `Threads!KeepsPromise` is the
refinement. `Shelf` says what a page with a link relies on, without tables, order or mails: where a message
goes, by a form or a follow-up, and that it stays there. `Threads!KeepsShelf` is the refinement, and
`ThreadPage`, whose server has the threads of one visitor only, keeps the same promise (`PageKeepsShelf`), so
that the page is not proved against a server that the code does not have.

Time: the store serialises its writes and stamps each message inside its transaction, so a message's id
stands for its `created_at`. A clock that steps backwards is not modelled.

### Users

The table is a function from ids to rows, so that a removed id can come back. Every handler is
`Authenticate` (the caller's row is read once), then `UserByParam` (the target's row) and for a demotion
`CountAdmins`, then one write. `raced` marks a request while which another one wrote; it lets a property
say "unless another request wrote between check and write". A password is the address of the person it
was chosen for.

### RateLimiter

One step is one call of `allow`, with its sweep: the mutex is held throughout and the clock read inside.
Tokens are counted in parts: a request costs `Window`, a tick refills `Burst`, which makes the code's
floats integers. `Quota` is the promise: an allowance per address, refilled at each tick, with no map, no
lazy refill and no sweep. `granted` and `told` are history.

### Inbox

The page's code runs one piece at a time, up to its next `await`. A step is an event of the operator, of
the timer or the window, or an answer with everything its `await` resumes. In between, requests are in
flight: the server obeys them in any order, the answers come back in any order, and others change the
conversations.

| TLA+ | code |
|---|---|
| `desk` | the server's conversations: absent, or status and unread mark |
| `call` | requests in flight: what was asked, which code awaits it (`then`), the answer once there is one (`ok`, `gone`, `failed`) and what it carries |
| `status`, `rows`, `listLoading`, `listError` | the refs of these names; `rows` keeps the marks, not the order |
| `activeId`, `active`, `detailLoading`, `detailError` | the refs of these names; `active.of` says whose messages are under the header |
| `draft`, `sending`, `sent` | the reply box of `ConversationDetail`; a text is the conversation that was on screen when it was typed |
| `listRunning`, `detailRunning` | `running` of the two pollings |
| `Select`, `Close`, `PopState`, `SwitchTab`, `Type`, `Send`, `Archive` | `select`, `close`, `onPopState`, the watcher of `status`, the reply box, `send` with `reply`, `archive`, each up to its `await` |
| `Tick`, `Focus` | `run` from the interval, and from the focus or visibility of the window |
| `ReceiveList`, `ReceiveLoad`, `ReceiveReply`, `ReceiveArchive` | what follows the `await` in `loadList`, `loadActive`, `reply`, `archive` |
| `Serve`, `ServeFails` | the handlers of `inbox.go`, one step for each; a failure may come before or after the effect |
| `VisitorWrites`, `ColleagueActs` | what others do to the same conversations |

A request takes the first free slot. Slot 0 is kept for the load that `reply` starts beside its list, so
that a returning reply never waits for a slot, which the code would not. `PopState` may go to any entry,
since the browser's history outlives a reload of the page. A hidden tab is a tick that does not come.
`Init` is the page opened at any conversation, or at none.

### Page

What the modules of the pages share: the four outcomes of a request (`ok`, `refused` with an error of the
server's, `failed` when nobody can tell whether it was obeyed), texts as numbered drafts, and `mishaps`,
which counts failures, lost answers, expiries, crashes and what others do, up to `MaxMishaps`.

### Widget

| TLA+ | code |
|---|---|
| `isOpen`, `loaded`, `hideTimer` | the variables of `widget.js`; `displayed` is the panel's `display` |
| `posted` | close messages between frame and host page |
| `mounting` | how far `onMounted` of the form is: configuration, script, captcha rendered, or given up |
| `siteKey`, `captchaToken`, `submitting`, `sent` | the refs of `WidgetForm.vue`; a token is fresh until a submission has taken it |
| `challenged` | Turnstile owes the box a token |
| `values`, `submission`, `thanked` | the draft in the form, the requests of `submit` in flight, the draft the thanks are for |
| `received`, `unanswered` | history: stored copies of each draft, and those whose answer was lost |
| `Click`, `Escape`, `TakeClose`, `Hide` | `toggle` from its three callers, the timer's callback |
| `ReceiveConfig`, `ReceiveScript`, `Solve`, `Expire` | `onMounted` after each `await`, the callbacks of the captcha |
| `Submit`, `ReceiveSubmission` | `submit` before and after its `await`, with `resetCaptcha` |
| `ServeSubmission`, `SubmissionFails` | `verifyCaptcha` and `handleNewMessage`; the failures before and after storing |

### ThreadPage

| TLA+ | code |
|---|---|
| `token`, `thread`, `loading`, `loadError`, `invalid`, `body`, `sending` | the refs of `ThreadPage.vue`; `url` is the address of the page |
| `fetching`, `posting` | the request of `load`, those of `send`; a follow-up keeps how far its handler has come |
| `threads`, `copies`, `lost`, `acked` | the visitor's threads on the server; history of what is stored and acknowledged |
| `SendReply`, `ReceiveFollowUp` with `Follow`, `ReceiveThread` | `send` and `load`, cut at each `await` |
| `LookUpThread`, `StoreReply`, `ReplyFails` | `handleThreadMessage`: link and status, then the write they lead to, as in `Threads` |
| `SetStatus`, `Reload` | operators archive and take back; the visitor reloads |

### Console

| TLA+ | code |
|---|---|
| `ready`, `me`, `setupRequired`, `settingsOpen` | the refs of `App.vue` |
| `busy` | of the form on screen |
| `cookie`, `accounts` | the session the browser holds; the addresses with an account |
| `asking` | requests in flight; a request carries the cookie of the moment it is sent, `stale` says that who awaits it has gone, or that it was sent in an earlier session |
| `SubmitForm`, `SignOut`, `Poll`, `Request` | the two `submit`s, `signOut`, `usePolling`, and every other call of the screens |
| `ReceiveStart`, `ReceiveSignIn`, `ReceiveLogout`, `ReceiveRequest` | `onMounted`, `signedIn`, `signedOut`, the 401 of `request` with the handler of `onUnauthorized` |
| `ServeStart` ... `ServeLogout` | `handleMe` with `handleAuthConfig`, `requireOperator`, `handlePasswordLogin`, `handleSetup`, `handleLogout` |

### Settings

An account is the number of its birth, a row names it by its id, and `idOf` is the table. `calm` says what
has happened since the screen was opened: nothing but single requests (`calm`), requests that were out
together (`crossed`), somebody else's changes, lost answers or an id that came back (`disturbed`). The list
is promised to be the team only in the first case, and never to show an account twice in the second.
`stale` marks the request of an `addUser` whose array was replaced: `users.value.push(await ...)` looks up
the array before it waits. `resetPassword` is the account under whose row the text was typed.

`Ascending` holds the one list of some numbers in order, and `Roster` the one list of some accounts' rows,
oldest first, which is what `ListUsers` returns; the `filter` of `removeUser` keeps the rows of the positions
in `Ascending`. They are sets of one member and not operators on sequences, so that what is true of every
member can be proved of the list.

### Lifecycle

| TLA+ | code |
|---|---|
| `phase` | where `run` of `main.go` is: opening and migrating the store, serving, draining, flushing, closed |
| `version`, `todo`, `tx`, `noted` | the migrations a binary has, those it read as missing, the one in its transaction, and whether the row of it is inserted |
| `schema`, `recorded` | what is committed: the tables in effect and `schema_migrations` |
| `work`, `mails` | a handler on its way through store and notifier, mails in flight |
| `timedOut` | history: the waits that were given up |
| `ReadApplied`, `Apply`, `Record`, `Commit` | `appliedMigrations` and `applyMigration` |
| `BeginDrain`, `Drained`, `DrainTimeout`, `Flushed`, `FlushTimeout`, `Exit` | `Shutdown`, the deferred `WaitTimeout`, the deferred `Close`, the end of `main` |

### Site

A document in a browser is one of the pages and stays it, and a server process is none of them; so `Site`
takes one of the five parts in its initial state and lets it run. The parts share nothing but the count of
mishaps, and what they do to each other through the server is among the mishaps of each (others archive,
add, remove). The behaviours of a product would be the shuffles of these; the properties are each about one
part, so nothing is lost. It is one run because it is one question: does each client, and the process, keep
its promises whatever the other side does.

## 4. The runs

| run | instance | shows |
|---|---|---|
| `threads_safety` | 2 visitors, 2 handlers, 3 messages, no faults | the safety properties over all interleavings |
| `threads_faults` | 2 visitors, 2 handlers, 2 messages, all faults | the inductive invariant, which has the unread mark, the order and the threading in it, with crashes and failures; the refinements of `Desk` and of `Shelf` |
| `threads_liveness` | 1 visitor, 2 handlers, 2 messages, fair | operators told, owner gets the link, mark goes away |
| `users` | 3 addresses, 2 requests, ids to 3 | accounts |
| `rate_limiter` | 2 addresses, burst 2 in 3 ticks, 7 instants | limiter, Retry-After, the refinement of `Quota` |
| `inbox` | 2 conversations, 2 requests in flight and a reply's second load, 2 acts besides typing, 1 event, fair | spinners, what is on screen, drafts, the inductive invariant; the list catches up, the reply box opens again |
| `site` | 2 drafts, 3 threads, 2 operators, 2 accounts, 2 processes with 2 migrations and 2 mails, 2 mishaps | widget, thread page, sign-in, settings, process: their invariants, and each one's promises |
| `threads_archived_race` | 1 visitor, 3 messages | **finding**: a follow-up lands in an archived thread |
| `threads_lost_receipt` | 1 visitor, mails may fail | **finding**: a visitor without a link is answered as if it had one |
| `users_last_admin` | 2 addresses | **finding**: two admins remove each other |
| `users_id_reuse` | 3 addresses | **finding**: a password is written to another person's account |
| `inbox_draft` | as `inbox` | **finding**: a text typed under one conversation is sent to another |

Bounds. Two handlers are every race of the code: each hazard is one handler's gap and another's write.
Three messages are needed for a thread that is archived, its successor, and a third message that has to
choose between them after an unarchiving; two suffice where faults are the subject. Three addresses let
an admin remove a second account and create a third that takes over its id while the second has a request
in progress. In the limiter the window is no multiple of the burst (fractions of a token occur), a second
is two ticks (the cut to whole seconds occurs), and the clock's bound allows two sweeps with buckets full,
partly filled and gone. In the inbox a race is an act of the operator whose request is out while another
act or an answer of the first's opening requests changes the page; two conversations are the selected row
and the other one. Two acts after any opening, with polling and typing free, reach every action and every
fault of the mutants; one event is a failure, a visitor or a colleague at any point. The model with three
acts is out of reach of a run of minutes; the theorems hold for any number. `MaxMessages`, `MaxId`,
`MaxTime`, `MaxCalls`, `MaxActs` and `MaxEvents` are guards of the actions they bound and are named
constants. No run with a liveness property uses symmetry.

In `site`, two drafts are a text on its way and one typed over it; three threads are the one of the link,
its successor and the one after that; two operators, two accounts and two processes are every pair that
can be confused or race (the second account is the one that comes back under the id of the first); two
migrations are one that is in effect and one that is not. Two mishaps are what a second attempt needs: a
failure that makes somebody try again, and another one, or an act of somebody else, in the middle of it.
The settings count one disturbance for each opening of the screen instead, for the properties distinguish
only none and some. `Slot` has two requests of a kind, one more than the code means to have out.

Deadlock is not checked for `Site`, whose pages may be done (thanked, and no mishap left), for `Threads`, which stops when `MaxMessages` is reached and all is quiet, and for
`Users`, which the races can leave without an admin or a usable password. It is checked for `RateLimiter`
and `Inbox`.

Faults (`Faults`): `store` (a call fails, or its context was cancelled), `mail` (a send fails), `client`
(an answer is not delivered), `crash`.

Fairness (`FairSpec`): weak fairness of a handler that can go on and of the goroutines with mails to send,
which Go's scheduler gives; strong fairness of an operator opening a conversation again and again
(`AttentiveOperator`), an assumption on people, without which no mark ever goes away - strong, because the
slots of the model may be taken in between, which connections of a server are not. Nothing is assumed of
visitors. In `Inbox`: weak fairness of the interval's tick, of the server for each request, and of the
code that awaits an answer. Nothing is assumed of the operator; that the list catches up is said of an
operator and of others who have come to rest, which the bounds on acts and events bring about. The
interval goes on for as long as the page is visible (`usePolling.ts`), and `fetch` has no time limit of its
own: a server that never answers is left out, and would stop the polling for good.

In `site` the fairness is the hypothesis of each liveness property, since each needs only its own part's.
`GetsThrough` (`WidgetFairness`): the timer, requests and awaits, and a visitor who solves the challenge
and presses the button again - an assumption on people without which no message ever comes.
`DeadSessionNoticed` (`ConsoleFairness`): the interval of the inbox, requests and awaits; of the operator
nothing. `StopsAtLast` (`LifecycleFairness`): the process goes on and its timers run out; nothing of
handlers, mails or the mail server, which the waits are there for.

## 5. Proofs

| module | theorems |
|---|---|
| `ThreadsProofs` | `Invariance`, `TypeCorrect`, `UnreadSound`, `ActivitySound`, `OneThread`, `LinkConfined`, `OnlyRacing`, `Refinement`, `ShelfRefinement` |
| `UsersProofs` | `Invariance`, `UniqueAccounts`, `LastAdminKept`, `AdminsManage`, `PasswordsKept` |
| `RateLimiterProofs` | `Invariance`, `LimitKept`, `RetryAfterSuffices`, `Refinement` |
| `InboxProofs` | `Invariance`, `TypeCorrect`, `NoLostSpinner`, `ShownSound`, `DraftsKept`, `MixedConfined` |
| `VisitorProofs` (`Widget`, `ThreadPage`) | `WidgetInvariance`, `TokensSpentOnce`, `StoredOnce`, `ThreadPageInvariance`, `ScreenStaysCurrent`, `TextsLeaveStored`, `PageShelfRefinement` |
| `OperatorProofs` (`Console`, `Settings`) | `ConsoleInvariance`, `IdentityIsOne`, `KicksOnlyDead`, `SettingsInvariance`, `ListTrue`, `AccountMeant` |
| `LifecycleProofs` | `LifecycleInvariance`, `MigrationsSound`, `StopSound` |
| `SiteProofs` | `SiteInvariance`, `SitePromises`, `SiteIsItsPart`, `SiteTextsLeaveStored`, `SiteKicksOnlyDead` |

They hold for any sets of visitors, addresses, requests, keys, conversations, operators and processes, any
bounds and any faults; the assumptions are those of the modules (`BoundAssumption`, `FaultAssumption`,
`IdAssumption`, `ParameterAssumption`, `TTLAssumption`, `NoneAssumption`, `NullAssumption`, `InboxBounds`,
`PageBounds`, `ThreadBound`, `TeamBound`, `NobodyAssumption`, `LifecycleBounds`), which TLC evaluates in each
run. Widget, thread page, sign-in, settings and process are proved of their own `...Spec`; `SiteProofs` carries
them over to `Site`.

*Threads.* `UnreadUntilShown` is not inductive: the update of `AnswerOpened` clears a flag because of
something read two steps before. `RequestSound` says what is true of it: the history that was listed holds
every message up to the activity that was read before it. When the update finds `last_message_at` equal to
that instant, `LastActivityIsNewest` says there is no later message, so the history has them all.
`LinkOnlyToOwner` needs the half of `RequestSound` about links: who presented a link owns the thread's
address, so the thread a follow-up goes to, old or new, is that visitor's. The proof has a lemma for each
action and each conjunct the action touches.

*Users.* `UnracedSound`: what a request has read of its caller and target is still so, unless `raced`.
Every write marks all other requests, so it is inductive. The action properties follow for each write: if
the request was not raced, its checks hold in the state it writes in (a delete leaves the caller, an admin;
a demotion leaves one of two admins; a password goes to the row of its own address).

*RateLimiter.* A swept bucket was idle for more than `BucketTTL`, at least a window, and so full
(`SweptIsFull`): a call finds the level an address has anyway (`TokensAreLevel`). `RateBound` needs what is
left to be counted with what was let through (`Accounted`), and Retry-After that the missing tokens come in
by the time named (`EnoughByThen`); the wait is rounded to more than is needed by `RetryIsEnough`.

*Inbox.* The spinners are inductive: each step that starts one starts its request in the same piece of
code, and each that ends the request of the selected row stops it. `DraftKept` needs two facts that are
nowhere written down. `DraftOfShown`: the text in the box is always of the conversation on screen, so an
answer that shows another conversation pushes out only the text of one that was left. `ReplyInOrder`: at
most one reply is out, its two loads start only after it was stored, nothing else waits as they do, and the
text in the box is still the one that was sent (the box takes no keys meanwhile), so emptying it loses
nothing. One lemma for each action; `Quiet` says what every step but those of a reply does to the requests.

*Widget.* `TokenSpentOnce` rests on `CaptchaSound`: a token that was taken is in the form only while its
submission is out or after the thanks, so no new one can carry it; `resetCaptcha` is what makes this
inductive, and `submitting` what keeps a second submission away (`OneSubmission`). `EachStoredOnce` is a
count: each step that stores, answers, loses or thanks moves one copy from one term to another.

*ThreadPage.* `ScreenIsCurrent` needs `OneFollowUp` (the load that is out is for the page's token, and no
load is out beside a follow-up) and `AnswersSound` (what an answer carries was so, and threads only grow):
an acknowledged text is in the thread that the load after it brings. `TextsLeaveStored` follows for each
step from the same two: the answer that empties the box is of the text in it or of one typed over.

*Shelf.* In both refinements the abstract state is a function of the concrete one (the pairs of visitor and
thread by status, the pairs of message and thread, the follow-ups past their look-up), and each concrete step
is one abstract step or none. What `Threads` needs of its invariant is that a follow-up's thread exists and
that its address is the visitor's (`RequestSound`); what `ThreadPage` needs is `LinksLead`: a token the page
follows leads to a thread that was begun, because it came from an answer or was a link of the visitor's.
Neither promise says that a follow-up to an archived thread stays out of it: its status may be stale by the
time of the write, which is the finding of `threads_archived_race`.

*Console.* `OneIdentity` needs `OneForm`: a sign-in that is still awaited was sent from the screen that is
shown, to nobody, and none is out beside it, so the answer sets the name and the cookie together; the start
carries the cookie that the browser has, if it has one. `RefusedRightly` is the half of `KickedOnlyDead`
about what a 401 says; `Founded` is what keeps a first setup from being somebody else's.

*Settings.* `ListIsTrue` says nothing of the time while a request is out. `OnePatchAtATime` does: as long as
all is calm at most one is out, and the list is one patch short of the team, which patch depends on the
request and on how far it has come (`OnePatchShort`: the new row last, the deleted one gone, the rewritten one
replaced). That lists are ascending by account makes the set of rows say which list it is
(`RosterMade`); that the new row comes last is where `created_at` orders the table. With requests
crossing, `NoneTwice` is the invariant: an id means one account in all rows on screen and on their way, so a
patch by id changes the row it means to, and the row still to be pushed is of nobody on the list. It fails
once an id has come back, which is why that is a disturbance. `MeantAccount` needs neither, only `RowsSound`:
an account keeps its id for as long as it lives.

*Site.* Each part's invariant is inductive under its own steps, and none of them minds that the others'
variables stand still while `mishaps` grows. With the part that never changes this gives all invariants at
once (`SiteInvariance`), and that a behaviour of the site is, as it stands, one of the part that runs in it
(`SiteIsItsPart`), so the action properties of the parts carry over.

*Lifecycle.* `TransactionSound`: the one that writes applies the lowest migration it lacks, and nobody else
writes meanwhile, so `schema` and `recorded` grow together and in order, although what is missing was read
outside the transaction. `LostOnlyByTimeout` needs that mails come only from handlers: past the drain either
there is none at work or the wait was given up, and past the flush the same of mails.

Every safety property the runs check is proved. Only model-checked: the liveness properties
(`OperatorsToldOfEach`, `OwnerGetsLink`, `UnreadIsCleared`, `ListCatchesUp`, `ComposerReturns`, `GetsThrough`,
`DeadSessionNoticed`, `StopsAtLast`), for liveness under fairness is out of the prover's reach. The findings are
counterexamples and have nothing to prove. The other way round, `PageKeepsShelf` is a theorem that no run
repeats: its mapping rests on `LinksLead`, which is a conjunct of the `SiteInv` that `site` checks.

## 6. Not modelled

* `internal/auth`, `internal/captcha`, `internal/config`, templates, static files: pure functions or one
  call outside; their outcome (accepted, refused) is a choice of the actions that use it.
* `internal/mail/sender.go`: one SMTP dialogue; sent or not sent is the fault `mail`.
* `clientIP`: which address a request counts for is an input of `RateLimiter`. Rounding of its floats is
  left out.
* In the inbox application: another tab, which shares the cookie with the first; in the settings, who is an
  administrator and the operator's own row (an operator who takes away the own rights keeps the team screen
  until the next start, and each request of it is refused); the forms' messages; and what is only
  presentation (`ConversationList.vue`, `presentation.ts`, the components of `ui`). In `Inbox` the view stays
  mounted and signed in, in `Console` what it shows does not matter.
* In the visitor's pages: styles and sizes of the panel, how a thread becomes bubbles (`thread.ts`), what
  validation says. `handleGetThread` only reads.
* In the process: the server of `Lifecycle` has one handler at a time, and what it stores is `Threads`'s.
* A clock that steps backwards; a `fetch` that is never answered, by which a form would stay busy and a
  polling silent.
* The server inside `Inbox`, which has the part of `Threads` that its page can see, is not shown to implement
  an abstract specification `Threads` implements; that inside `ThreadPage` is (`Shelf`).

Met while modelling, and no disagreement with any text: a failed `fetchConfig` leaves a form that the server
refuses until the page is reloaded (`web/visitor/src/api.ts:87`, the exception `CaptchaMissed` of
`GetsThrough`); the retry that `turnstile.ts:34` allows is never made; after the thanks the form does not
come back before a reload; a sign-out that fails shows the login screen while the cookie stays; a second
browser that has the setup screen open when the first one finishes stays on it until it is reloaded.
