----------------------------- MODULE SiteProofs -----------------------------
(***************************************************************************)
(* Whatever runs, a page or the server's processes, keeps the invariants   *)
(* of all: a step is one of its own part, for which that part's invariant  *)
(* is inductive, and the parts that are not run see at most a mishap more. *)
(* With the part that never changes, a behaviour of the site is one of its *)
(* part.                                                                   *)
(***************************************************************************)
EXTENDS Site, VisitorProofs, OperatorProofs, LifecycleProofs

-----------------------------------------------------------------------------
(* The bound they share. *)

LEMMA SettingsBlameless == SettingsNext => UNCHANGED mishaps
<1>1. ASSUME NEW r, NEW s \in Slot,
             \/ AskDelete(r) \/ OpenReset(r) \/ TypePassword(r)
             \/ ToggleAdmin(s, r) \/ RemoveUser(s, r) \/ SubmitReset(s, r)
      PROVE  UNCHANGED mishaps
    BY <1>1 DEF AskDelete, OpenReset, TypePassword, ToggleAdmin, RemoveUser, SubmitReset
<1>2. ASSUME NEW s \in Slot,
             \/ AddUser(s) \/ ReceiveTeam(s) \/ ReceiveAdded(s) \/ ReceiveToggled(s)
             \/ ReceiveRemoved(s) \/ ReceiveReset(s) \/ ServeManaging(s) \/ RefuseManaging(s)
             \/ ManagingFails(s)
      PROVE  UNCHANGED mishaps
    BY <1>2 DEF AddUser, ReceiveTeam, ReceiveAdded, ReceiveToggled, ReceiveRemoved, ReceiveReset,
                ServeManaging, RefuseManaging, ManagingFails, Disturb
<1>3. CASE CancelDelete \/ Reopen \/ OthersManage
    BY <1>3 DEF CancelDelete, Reopen, OthersManage, Disturb
<1>4. Slot # {}
    BY DEF Slot
<1> QED BY <1>1, <1>2, <1>3, <1>4 DEF SettingsNext

LEMMA LifecycleCounts == LifecycleNext => Mishap \/ UNCHANGED mishaps
<1>1. ASSUME NEW p \in Process, Start(p) \/ Run(p) \/ Signal(p)
      PROVE  UNCHANGED mishaps
    BY <1>1 DEF Start, Run, Signal, ReadApplied, Apply, Record, Commit, Migrated, Listen, BeginDrain,
                Drained, DrainTimeout, Flushed, FlushTimeout, Exit
<1>2. ASSUME NEW p \in Process,
             Accept(p) \/ HandlerStores(p) \/ HandlerNotifies(p) \/ MailDone(p) \/ OpenFails(p) \/ Crash(p)
      PROVE  Mishap \/ UNCHANGED mishaps
    BY <1>2 DEF Accept, HandlerStores, HandlerNotifies, MailDone, OpenFails, Crash
<1> QED BY <1>1, <1>2 DEF LifecycleNext

-----------------------------------------------------------------------------
(* The invariant. *)

\* Of the settings, the inductive part.
Invs == WidgetInv /\ ThreadInv /\ ConsoleInv /\ SettingsIInv /\ LifecycleInv

LEMMA SiteStart == SiteInit => Invs
BY WidgetStart, ThreadStart, ConsoleStart, SettingsStart, LifecycleStart DEF SiteInit, Invs

LEMMA WidgetStepKeeps == ASSUME Invs, WidgetStep PROVE Invs'
<1>1. WidgetInv'
    BY WidgetInductive DEF Invs, WidgetStep
<1>2. mishaps' \in Nat
    BY <1>1 DEF WidgetInv, WidgetTypeOK
<1> QED BY <1>1, <1>2, ThreadIdles, ConsoleIdles, SettingsIdles, LifecycleIdles
        DEF Invs, WidgetStep, threadOnly, consoleOnly, settingsOnly, serverOnly

LEMMA ThreadStepKeeps == ASSUME Invs, ThreadStep PROVE Invs'
<1>1. ThreadInv'
    BY ThreadInductive DEF Invs, ThreadStep
<1>2. mishaps' \in Nat
    BY <1>1 DEF ThreadInv, PageInv, ThreadTypeOK
<1> QED BY <1>1, <1>2, WidgetIdles, ConsoleIdles, SettingsIdles, LifecycleIdles
        DEF Invs, ThreadStep, widgetOnly, consoleOnly, settingsOnly, serverOnly

LEMMA ConsoleStepKeeps == ASSUME Invs, ConsoleStep PROVE Invs'
<1>1. ConsoleInv'
    BY ConsoleInductive DEF Invs, ConsoleStep
<1>2. mishaps' \in Nat
    BY <1>1 DEF ConsoleInv, ConsoleTypeOK
<1> QED BY <1>1, <1>2, WidgetIdles, ThreadIdles, SettingsIdles, LifecycleIdles
        DEF Invs, ConsoleStep, widgetOnly, threadOnly, settingsOnly, serverOnly

LEMMA SettingsStepKeeps == ASSUME Invs, SettingsStep PROVE Invs'
<1>1. SettingsIInv'
    BY SettingsInductive DEF Invs, SettingsStep
<1>2. mishaps' \in Nat
    BY SettingsBlameless DEF Invs, SettingsStep, WidgetInv, WidgetTypeOK
<1> QED BY <1>1, <1>2, WidgetIdles, ThreadIdles, ConsoleIdles, LifecycleIdles
        DEF Invs, SettingsStep, widgetOnly, threadOnly, consoleOnly, serverOnly

LEMMA ServerStepKeeps == ASSUME Invs, ServerStep PROVE Invs'
<1>1. LifecycleInv'
    BY LifecycleInductive DEF Invs, ServerStep
<1>2. mishaps' \in Nat
    BY LifecycleCounts, MishapCounts DEF Invs, ServerStep, WidgetInv, WidgetTypeOK
<1> QED BY <1>1, <1>2, WidgetIdles, ThreadIdles, ConsoleIdles, SettingsIdles
        DEF Invs, ServerStep, widgetOnly, threadOnly, consoleOnly, settingsOnly

LEMMA SiteInductive == Invs /\ [SiteNext]_siteVars => Invs'
<1> SUFFICES ASSUME Invs, [SiteNext]_siteVars PROVE Invs'
    OBVIOUS
<1>1. CASE SiteNext
    BY <1>1, WidgetStepKeeps, ThreadStepKeeps, ConsoleStepKeeps, SettingsStepKeeps, ServerStepKeeps
       DEF SiteNext
<1>2. CASE UNCHANGED siteVars
    BY <1>2, WidgetInductive, ThreadInductive, ConsoleInductive, SettingsInductive, LifecycleInductive
       DEF Invs, siteVars
<1> QED BY <1>1, <1>2

\* The invariants of all the parts, whichever is run.
THEOREM SiteInvariance == SiteSpec => []SiteInv
<1>1. Invs => SiteInv
    BY ListFollows DEF Invs, SiteInv, SettingsInv
<1> QED BY <1>1, SiteStart, SiteInductive, PTL DEF SiteSpec

\* What is promised of each part, of whatever runs: a token is spent once
\* (WidgetForm.vue 17-18), stored messages are thanked for (49-64), the thread
\* page is current (ThreadPage.vue 48-55), the name on the screen is the
\* cookie's (App.vue 35-46), the list is the team, and requests reach the
\* account they are meant for (SettingsScreen.vue 80-161), and only a wait that
\* was given up loses anything (main.go 47-83).
THEOREM SitePromises ==
    SiteSpec => [](/\ TokenSpentOnce /\ EachStoredOnce /\ ScreenIsCurrent /\ OneIdentity
                   /\ ListIsTrue /\ MeantAccount /\ LostOnlyByTimeout)
<1>1. SiteInv => /\ TokenSpentOnce /\ EachStoredOnce /\ ScreenIsCurrent /\ OneIdentity
                 /\ ListIsTrue /\ MeantAccount /\ LostOnlyByTimeout
    BY DEF SiteInv, WidgetInv, ThreadInv, PageInv, ConsoleInv, SettingsInv, SettingsIInv, LifecycleInv
<1> QED BY <1>1, SiteInvariance, PTL

-----------------------------------------------------------------------------
(* The site is the part that runs. *)

Runs(p) == part = p

LEMMA PartSteps ==
    ASSUME [SiteNext]_siteVars
    PROVE  /\ part' = part
           /\ part = "widget" => [WidgetNext]_widgetVars
           /\ part = "thread" => [ThreadNext]_threadVars
           /\ part = "console" => [ConsoleNext]_consoleVars
           /\ part = "settings" => [SettingsNext]_settingsVars
           /\ part = "server" => [LifecycleNext]_lifecycleVars
<1>1. CASE SiteNext
    BY <1>1 DEF SiteNext, WidgetStep, ThreadStep, ConsoleStep, SettingsStep, ServerStep
<1>2. CASE UNCHANGED siteVars
    BY <1>2 DEF siteVars
<1> QED BY <1>1, <1>2

\* A behaviour of the site is one of the part that runs in it, as that part's
\* module has it.
THEOREM SiteIsItsPart ==
    SiteSpec => /\ part = "widget" => WidgetSpec
                /\ part = "thread" => ThreadSpec
                /\ part = "console" => ConsoleSpec
                /\ part = "settings" => SettingsSpec
                /\ part = "server" => LifecycleSpec
<1>1. SiteInit => /\ mishaps = 0 /\ WidgetInit /\ ThreadInit /\ ConsoleInit /\ SettingsInit
                  /\ LifecycleInit
    BY DEF SiteInit
<1>2. [SiteNext]_siteVars /\ Runs("widget") => Runs("widget")' /\ [WidgetNext]_widgetVars
    BY PartSteps DEF Runs
<1>3. [SiteNext]_siteVars /\ Runs("thread") => Runs("thread")' /\ [ThreadNext]_threadVars
    BY PartSteps DEF Runs
<1>4. [SiteNext]_siteVars /\ Runs("console") => Runs("console")' /\ [ConsoleNext]_consoleVars
    BY PartSteps DEF Runs
<1>5. [SiteNext]_siteVars /\ Runs("settings") => Runs("settings")' /\ [SettingsNext]_settingsVars
    BY PartSteps DEF Runs
<1>6. [SiteNext]_siteVars /\ Runs("server") => Runs("server")' /\ [LifecycleNext]_lifecycleVars
    BY PartSteps DEF Runs
<1>7. SiteSpec => (Runs("widget") => WidgetSpec)
    BY <1>1, <1>2, PTL DEF SiteSpec, WidgetSpec
<1>8. SiteSpec => (Runs("thread") => ThreadSpec)
    BY <1>1, <1>3, PTL DEF SiteSpec, ThreadSpec
<1>9. SiteSpec => (Runs("console") => ConsoleSpec)
    BY <1>1, <1>4, PTL DEF SiteSpec, ConsoleSpec
<1>10. SiteSpec => (Runs("settings") => SettingsSpec)
    BY <1>1, <1>5, PTL DEF SiteSpec, SettingsSpec
<1>11. SiteSpec => (Runs("server") => LifecycleSpec)
    BY <1>1, <1>6, PTL DEF SiteSpec, LifecycleSpec
<1> QED BY <1>7, <1>8, <1>9, <1>10, <1>11 DEF Runs

\* Whatever runs, a text leaves the reply box only when it is stored, by a
\* reload, or typed over (ThreadPage.vue 49).
THEOREM SiteTextsLeaveStored == SiteSpec => TextLeavesStored
<1> DEFINE Leaves == body # NoText /\ body' = NoText => acked'[body] # 0 \/ TypedOver \/ Reloaded
<1>1. [SiteNext]_siteVars /\ ~Runs("thread") => ~Runs("thread")' /\ [Leaves]_threadVars
    <2> SUFFICES ASSUME [SiteNext]_siteVars, ~Runs("thread") PROVE ~Runs("thread")' /\ body' = body
        OBVIOUS
    <2>1. CASE SiteNext
        BY <2>1 DEF SiteNext, WidgetStep, ThreadStep, ConsoleStep, SettingsStep, ServerStep, threadOnly, box, Runs
    <2>2. CASE UNCHANGED siteVars
        BY <2>2 DEF siteVars, threadVars, box, Runs
    <2> QED BY <2>1, <2>2
<1>2. SiteSpec => (Runs("thread") => TextLeavesStored)
    BY SiteIsItsPart, TextsLeaveStored DEF Runs
<1>3. SiteSpec => (~Runs("thread") => [][Leaves]_threadVars)
    BY <1>1, PTL DEF SiteSpec
<1> QED BY <1>2, <1>3, PTL DEF TextLeavesStored

\* Whatever runs, only a dead session or a late answer ends the view of an
\* operator (App.vue 15-21).
THEOREM SiteKicksOnlyDead == SiteSpec => KickedOnlyDead
<1> DEFINE Kick == \A s \in CallSlot : DroppedBy(s) => DeadSession \/ asking[s].stale
<1>1. [SiteNext]_siteVars /\ ~Runs("console") => ~Runs("console")' /\ [Kick]_consoleVars
    <2> SUFFICES ASSUME [SiteNext]_siteVars, ~Runs("console") PROVE ~Runs("console")' /\ me' = me
        BY DEF DroppedBy
    <2>1. CASE SiteNext
        BY <2>1 DEF SiteNext, WidgetStep, ThreadStep, ConsoleStep, SettingsStep, ServerStep, consoleOnly, screen, Runs
    <2>2. CASE UNCHANGED siteVars
        BY <2>2 DEF siteVars, consoleVars, screen, Runs
    <2> QED BY <2>1, <2>2
<1>2. SiteSpec => (Runs("console") => KickedOnlyDead)
    BY SiteIsItsPart, KicksOnlyDead DEF Runs
<1>3. SiteSpec => (~Runs("console") => [][Kick]_consoleVars)
    BY <1>1, PTL DEF SiteSpec
<1> QED BY <1>2, <1>3, PTL DEF KickedOnlyDead
=============================================================================
