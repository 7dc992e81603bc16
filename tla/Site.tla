-------------------------------- MODULE Site --------------------------------
(***************************************************************************)
(* What runs of FreeSupp besides the handlers: one of the pages in a       *)
(* browser, or the server's processes.                                     *)
(*                                                                         *)
(* A document in a browser is one page and stays it: a host page with the  *)
(* widget, the thread behind a link (route.ts and App.vue of the visitor   *)
(* app), or the operators' application, which is taken apart here into who *)
(* is signed in, and the team in the settings; module Inbox has its inbox. *)
(* They share nothing but the bound on mishaps: what two of them do at     *)
(* the same time to the same server is among the mishaps of each (others   *)
(* archive, add, remove, answer with errors).  So a behaviour is that of   *)
(* one part, and the parts of all behaviours are all there is to check.    *)
(***************************************************************************)
EXTENDS Widget, ThreadPage, Console, Settings, Lifecycle

VARIABLE part   \* what is run

siteVars == <<part, widgetVars, threadVars, consoleVars, settingsVars, lifecycleVars>>

Part == {"widget", "thread", "console", "settings", "server"}

widgetOnly == <<panel, posted, captcha, captchaToken, form, submission, captchaOn, ledger>>
threadOnly == <<page, box, fetching, posting, shelf>>
consoleOnly == <<screen, cookie, accounts, asking>>
settingsOnly == <<users, usersLoading, adding, rowForms, managing, team, calm>>
serverOnly == <<phase, opening, database, signalled, serving, timedOut>>

\* What is not run is in one of its initial states.
SiteInit ==
    /\ mishaps = 0
    /\ part \in Part
    /\ WidgetInit /\ ThreadInit /\ ConsoleInit /\ SettingsInit /\ LifecycleInit
    /\ part # "widget" => ~captchaOn
    /\ part # "thread" => url = 1 /\ threads[1].status = "open"
    /\ part # "console" => cookie = Nobody /\ accounts = {}
    /\ part # "settings" => born = 0

WidgetStep ==
    /\ part = "widget" /\ WidgetNext
    /\ UNCHANGED <<part, threadOnly, consoleOnly, settingsOnly, serverOnly>>
ThreadStep ==
    /\ part = "thread" /\ ThreadNext
    /\ UNCHANGED <<part, widgetOnly, consoleOnly, settingsOnly, serverOnly>>
ConsoleStep ==
    /\ part = "console" /\ ConsoleNext
    /\ UNCHANGED <<part, widgetOnly, threadOnly, settingsOnly, serverOnly>>
SettingsStep ==
    /\ part = "settings" /\ SettingsNext
    /\ UNCHANGED <<part, widgetOnly, threadOnly, consoleOnly, serverOnly>>
ServerStep ==
    /\ part = "server" /\ LifecycleNext
    /\ UNCHANGED <<part, widgetOnly, threadOnly, consoleOnly, settingsOnly>>

SiteNext == WidgetStep \/ ThreadStep \/ ConsoleStep \/ SettingsStep \/ ServerStep

SiteSpec == SiteInit /\ [][SiteNext]_siteVars

SiteInv == WidgetInv /\ ThreadInv /\ ConsoleInv /\ SettingsInv /\ LifecycleInv
=============================================================================
