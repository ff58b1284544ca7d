----------------------------- MODULE Dashboard -----------------------------
(***************************************************************************)
(* The dashboard's pages (Console has more of them).  One is open at a     *)
(* time, and each works against the server alone; the page that is open is *)
(* chosen at the start, and the others stay as they are.                   *)
(***************************************************************************)
EXTENDS TicketsInbox, SessionsList, LogsList, ExportTab, SetupWizard

VARIABLE page

Pages == {"tickets", "sessions", "logs", "export", "setup"}

vars == << page, inboxVars, sessionVars, logVars, exportVars, setupVars >>

Some(S) == CHOOSE x \in S : TRUE

Init ==
  /\ page \in Pages
  /\ IF page = "tickets" THEN InboxInit ELSE InboxOpens([t \in TicketIds |-> 0], FALSE, {})
  /\ SessionsInit /\ (page # "sessions" => listed.now = {} /\ list.query = Some(Queries))
  /\ LogsInit     /\ (page # "logs" => stored = << >> /\ logs.filter = Some(Filters))
  /\ ExportInit
  /\ SetupInit    /\ (page # "setup" => ~site.sessions)

Next ==
  /\ UNCHANGED page
  /\ \/ /\ page = "tickets"  /\ InboxNext
        /\ UNCHANGED << sessionVars, logVars, exportVars, setupVars >>
     \/ /\ page = "sessions" /\ SessionsNext
        /\ UNCHANGED << inboxVars, logVars, exportVars, setupVars >>
     \/ /\ page = "logs"     /\ LogsNext
        /\ UNCHANGED << inboxVars, sessionVars, exportVars, setupVars >>
     \/ /\ page = "export"   /\ ExportNext
        /\ UNCHANGED << inboxVars, sessionVars, logVars, setupVars >>
     \/ /\ page = "setup"    /\ SetupNext
        /\ UNCHANGED << inboxVars, sessionVars, logVars, exportVars >>

Spec == Init /\ [][Next]_vars

FairSpec == Spec /\ InboxFairness

\* No page leaves work behind that nobody ends: neither a job that prepares an
\* export nor the window of a check outlives what the operator did with it
\* (useSessionExport.ts:102-109, Onboarding.tsx:317-319).
NothingLeftRunning == NoAbandonedJob /\ WindowWatched
=============================================================================
