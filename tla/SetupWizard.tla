----------------------------- MODULE SetupWizard -----------------------------
(***************************************************************************)
(* The guided set-up of a site: its steps edit one draft of the site's     *)
(* settings, which a step saves or, skipped, drops by loading the settings *)
(* again; and the check of the installation, which opens the site in a     *)
(* small window and polls for its first session.                           *)
(*                                                                         *)
(* The settings are one value for each step that edits some; an edit gives *)
(* its step a value no edit gave before.  A save sends them all.  The      *)
(* creation of the site, services, integrations and the team are left out. *)
(***************************************************************************)
EXTENDS Naturals

CONSTANTS MaxActs,        \* bound of what the operator does
          WINDOW, GIVE_UP \* VERIFY_WINDOW_MS and VERIFY_GIVE_UP_MS, in polls

ASSUME SetupWizardAssumption ==
  /\ MaxActs \in Nat
  /\ WINDOW \in Nat \ {0} /\ GIVE_UP \in Nat /\ GIVE_UP >= WINDOW

Steps == << "install", "recordings", "widget", "done" >>

\* The steps that save the draft.
Fields == {"recordings", "widget"}

VARIABLES site,   \* on the server: settings, the recording switch, whether a session came
          hub,    \* what the page loaded of it, the draft, and the requests in flight
          wizard, \* the step on the page, and what the operator did so far
          check   \* the check of the installation

setupVars == << site, hub, wizard, check >>

LoadSite      == [kind |-> "load", got |-> << >>]
RefreshDetail == [kind |-> "refresh", got |-> << >>]

NoDraftSave == [state |-> "none", settings |-> [f \in Fields |-> 0], step |-> 0]

SetupInit ==
  /\ \E sessions \in BOOLEAN :
       site = [settings |-> [f \in Fields |-> 0], recording |-> TRUE, sessions |-> sessions]
  /\ hub = [loaded |-> FALSE, recording |-> TRUE, draft |-> [f \in Fields |-> 0],
            reads |-> {LoadSite}, save |-> NoDraftSave, toggle |-> FALSE]
  /\ wizard = [mounted |-> TRUE, step |-> 1, acts |-> 0]
  /\ check = [state |-> "idle", popup |-> FALSE, timer |-> FALSE, polling |-> FALSE,
              elapsed |-> 0, first |-> TRUE]

CurrentStep == Steps[wizard.step]
OnPage == wizard.mounted /\ hub.loaded

\* The operator does something, after which the wizard is w.
Acts(w) == wizard.acts < MaxActs /\ wizard' = [w EXCEPT !.acts = wizard.acts + 1]

------------------------------------------------------------------------------
(* The settings                                                            *)

\* patchDraft(), by the controls of a step.
Patch ==
  /\ OnPage /\ CurrentStep \in Fields /\ Acts(wizard)
  /\ hub' = [hub EXCEPT !.draft[CurrentStep] = wizard.acts + 1]
  /\ UNCHANGED << site, check >>

\* toggleRecording(), and with its answer the site is read again.
ToggleRecording ==
  /\ OnPage /\ CurrentStep = "recordings" /\ ~hub.toggle /\ Acts(wizard)
  /\ hub' = [hub EXCEPT !.toggle = TRUE]
  /\ UNCHANGED << site, check >>

Toggled ==
  /\ hub.toggle
  /\ \/ /\ site' = [site EXCEPT !.recording = ~@]
        /\ hub' = [hub EXCEPT !.toggle = FALSE, !.reads = @ \cup {RefreshDetail}]
     \/ /\ hub' = [hub EXCEPT !.toggle = FALSE]
        /\ UNCHANGED site
  /\ UNCHANGED << wizard, check >>

ServeSite(r) ==
  /\ r.got = << >>
  /\ hub' = [hub EXCEPT !.reads = (@ \ {r}) \cup {[r EXCEPT !.got = << site >>]}]
  /\ UNCHANGED << site, wizard, check >>

\* load() renews the draft, refreshDetail() leaves it alone.
SiteArrives(r) ==
  /\ r.got # << >>
  /\ hub' = [hub EXCEPT !.reads = @ \ {r}, !.loaded = TRUE, !.recording = r.got[1].recording,
                        !.draft = IF r.kind = "load" THEN r.got[1].settings ELSE @]
  /\ UNCHANGED << site, wizard, check >>

SiteFails(r) ==
  /\ hub' = [hub EXCEPT !.reads = @ \ {r}]
  /\ UNCHANGED << site, wizard, check >>

\* The step after one, in the wizard as it was when the step was left.
After(step) == IF step = 4 THEN 4 ELSE step + 1

\* goTo(), by the list of the steps.
GoTo(step) ==
  /\ wizard.mounted /\ step # wizard.step /\ Acts([wizard EXCEPT !.step = step])
  /\ UNCHANGED << site, hub, check >>

\* skip(): the unsaved edits of the step are to be dropped.
Skip ==
  /\ OnPage /\ CurrentStep # "done" /\ hub.save = NoDraftSave
  /\ IF CurrentStep \in Fields
     THEN hub' = [hub EXCEPT !.reads = @ \cup {LoadSite}]
     ELSE UNCHANGED hub
  /\ Acts([wizard EXCEPT !.step = After(@)])
  /\ UNCHANGED << site, check >>

Continue ==
  /\ OnPage /\ CurrentStep = "install" /\ check.state = "verified"
  /\ Acts([wizard EXCEPT !.step = After(@)])
  /\ UNCHANGED << site, hub, check >>

\* saveAndContinue(): the draft is sent, stored, and loaded again; then the
\* wizard goes on from the step that was saved.
SaveStep ==
  /\ OnPage /\ CurrentStep \in Fields /\ hub.save = NoDraftSave /\ Acts(wizard)
  /\ hub' = [hub EXCEPT !.save = [state |-> "sent", settings |-> hub.draft, step |-> wizard.step]]
  /\ UNCHANGED << site, check >>

StoreSettings ==
  /\ hub.save.state = "sent"
  /\ site' = [site EXCEPT !.settings = hub.save.settings]
  /\ hub' = [hub EXCEPT !.save.state = "stored"]
  /\ UNCHANGED << wizard, check >>

SaveOver ==
  /\ hub.save.state # "none"
  /\ \/ /\ hub.save.state = "stored"
        /\ hub' = [hub EXCEPT !.save = NoDraftSave, !.reads = @ \cup {LoadSite}]
        /\ wizard' = [wizard EXCEPT !.step = After(hub.save.step)]
     \/ /\ hub' = [hub EXCEPT !.save = NoDraftSave]
        /\ UNCHANGED wizard
  /\ UNCHANGED << site, check >>

------------------------------------------------------------------------------
(* The check of the installation                                           *)

\* A session of the site, which the window brings about if the tracker works.
SessionStarts ==
  /\ ~site.sessions
  /\ site' = [site EXCEPT !.sessions = TRUE]
  /\ UNCHANGED << hub, wizard, check >>

\* The site may be sending already.
FirstLook ==
  /\ check.first
  /\ check' = [check EXCEPT !.first = FALSE,
                            !.state = IF site.sessions /\ wizard.mounted THEN "verified" ELSE @]
  /\ UNCHANGED << site, hub, wizard >>

FirstLookFails ==
  /\ check.first
  /\ check' = [check EXCEPT !.first = FALSE]
  /\ UNCHANGED << site, hub, wizard >>

\* verify(): the browser may block the window.
Verify ==
  /\ OnPage /\ CurrentStep = "install" /\ check.state \notin {"checking", "verified"}
  /\ Acts(wizard)
  /\ \/ check' = [check EXCEPT !.state = "blocked", !.popup = FALSE, !.timer = FALSE]
     \/ check' = [check EXCEPT !.state = "checking", !.popup = TRUE, !.timer = TRUE, !.elapsed = 0]
  /\ UNCHANGED << site, hub >>

PollSite ==
  /\ check.timer
  /\ check' = [check EXCEPT !.timer = FALSE, !.polling = TRUE, !.elapsed = @ + 1]
  /\ UNCHANGED << site, hub, wizard >>

\* The answer of a poll: verified, or a while later the window closes, and a
\* while after it the poll gives up.
Polled(c) ==
  IF site.sessions THEN [c EXCEPT !.popup = FALSE, !.state = "verified"]
  ELSE LET closed == [c EXCEPT !.popup = @ /\ c.elapsed < WINDOW]
       IN IF c.elapsed >= GIVE_UP THEN [closed EXCEPT !.state = "missing"]
          ELSE [closed EXCEPT !.state = "checking", !.timer = TRUE]

PollAnswers ==
  /\ check.polling
  /\ check' = Polled([check EXCEPT !.polling = FALSE])
  /\ UNCHANGED << site, hub, wizard >>

PollFails ==
  /\ check.polling
  /\ check' = [check EXCEPT !.polling = FALSE, !.popup = FALSE, !.state = "error"]
  /\ UNCHANGED << site, hub, wizard >>

\* The page is left.
Exit ==
  /\ wizard.mounted
  /\ wizard' = [wizard EXCEPT !.mounted = FALSE]
  /\ check' = [check EXCEPT !.timer = FALSE, !.popup = FALSE]
  /\ UNCHANGED << site, hub >>

SetupNext ==
  \/ Patch \/ ToggleRecording \/ Toggled \/ Skip \/ Continue \/ SaveStep \/ StoreSettings \/ SaveOver
  \/ \E r \in hub.reads : ServeSite(r) \/ SiteArrives(r) \/ SiteFails(r)
  \/ \E step \in 2..4 : GoTo(step)
  \/ SessionStarts \/ FirstLook \/ FirstLookFails \/ Verify \/ PollSite \/ PollAnswers \/ PollFails \/ Exit

------------------------------------------------------------------------------
(* Properties                                                              *)

\* The window of a check closes by itself: as long as it is open a poll is on its
\* way or will be made, whatever the first look, a failure, another check or
\* another step did meanwhile, and leaving the page closes it
\* (Onboarding.tsx:317-319, 433, 465).
WindowWatched == check.popup => (check.polling \/ check.timer) /\ wizard.mounted
=============================================================================
