-------------------------- MODULE AnnouncementsPage --------------------------
(***************************************************************************)
(* The announcements of the sites: the list under a site, the editor, the  *)
(* buttons of a card, and the dialog of who engaged with one, from which a *)
(* ticket is started.                                                      *)
(*                                                                         *)
(* The editor holds what it was opened for, the site and whether there is  *)
(* a title.  Other administrators are left out, and so are the filter by   *)
(* status, the preview and the texts; dialogs close at once.               *)
(***************************************************************************)
EXTENDS Naturals, FiniteSets, DashboardValues

CONSTANTS Announcements, AnnouncementSites, \* that there may be
          Readers,                          \* visitors who may engage with one
          MaxListings, MaxErrands,          \* bounds: lists asked for, writes,
          MaxEngagements, MaxTicketDialogs  \* dialogs opened of who engaged, and of a ticket

ASSUME AnnouncementsAssumption ==
  /\ None \notin Announcements \cup AnnouncementSites \cup Readers \cup {"new"} /\ "new" \notin Announcements
  /\ {MaxListings, MaxErrands, MaxEngagements, MaxTicketDialogs} \subseteq Nat

VARIABLES published, \* on the server: of each announcement its site and status, None without it
          board,     \* the page
          listings,  \* its lists in flight, with their rows once the server has read them
          errand,    \* its write, if any, which the server may have done
          engagings, \* its requests of who engaged
          tickets    \* tickets being created, by the dialog they were sent from

announcementVars == << published, board, listings, errand, engagings, tickets >>

ClosedEditor == [of |-> None, site |-> None, title |-> FALSE]
NoErrand     == [kind |-> None, of |-> None, to |-> None, site |-> None, step |-> "none"]

\* The dialog numbers its openings, and those of the ticket's dialog over it.
Dialog(a, n, started) == [of |-> a, n |-> n, started |-> started, seen |-> None, failed |-> FALSE,
                          ticket |-> None, sending |-> FALSE]

AnnouncementsInit ==
  /\ published \in [Announcements -> {None} \cup [site : AnnouncementSites, status : {"draft"}]]
  /\ board = [site |-> None, items |-> None, sites |-> "asked", editor |-> ClosedEditor, error |-> FALSE, busy |-> FALSE,
              listed |-> 1, errands |-> 0, dialog |-> Dialog(None, 0, 0)]
  /\ listings = {[n |-> 1, site |-> None, awaited |-> FALSE, rows |-> None]}
  /\ errand = NoErrand /\ engagings = {} /\ tickets = {}

------------------------------------------------------------------------------
(* The list                                                                *)

OfSite(site) == {a \in Announcements : published[a] # None /\ site \in {None, published[a].site}}

\* load(): every answer is shown, whatever was asked after it.
Listing(p, site, awaited) ==
  /\ p.listed < MaxListings
  /\ board' = [p EXCEPT !.listed = @ + 1]
  /\ listings' = listings \cup {[n |-> p.listed + 1, site |-> site, awaited |-> awaited, rows |-> None]}

SitesAnswered == /\ board.sites = "asked"
                 /\ \/ board' = [board EXCEPT !.sites = "known"]
                    \/ board' = [board EXCEPT !.sites = "failed", !.error = TRUE]
                 /\ UNCHANGED << published, listings, errand, engagings, tickets >>

\* A dialog covers the page.
Covering == board.editor.of # None \/ board.dialog.of # None

ChooseSite(s) ==
  /\ ~Covering /\ s # board.site /\ (s # None => board.sites = "known")
  /\ Listing([board EXCEPT !.site = s, !.items = None], s, FALSE)
  /\ UNCHANGED << published, errand, engagings, tickets >>

ServeListing(q) ==
  /\ q.rows = None
  /\ listings' = (listings \ {q}) \cup {[q EXCEPT !.rows = [a \in OfSite(q.site) |-> published[a]]]}
  /\ UNCHANGED << published, board, errand, engagings, tickets >>

\* A list that a write waits for ends it.
Released(q, p) == [p EXCEPT !.busy = @ /\ ~q.awaited]

ListingArrives(q) ==
  /\ q.rows # None
  /\ listings' = listings \ {q} /\ board' = Released(q, [board EXCEPT !.items = q.rows])
  /\ UNCHANGED << published, errand, engagings, tickets >>

ListingFails(q) ==
  /\ listings' = listings \ {q} /\ board' = Released(q, [board EXCEPT !.error = TRUE])
  /\ UNCHANGED << published, errand, engagings, tickets >>

------------------------------------------------------------------------------
(* The editor and the cards                                                *)

Shown == IF board.items = None THEN {} ELSE DOMAIN board.items

OpenEditor(a) ==
  /\ ~Covering /\ board.errands < MaxErrands
  /\ \/ a = "new" /\ board.sites = "known"
        /\ board' = [board EXCEPT !.editor = [of |-> a, site |-> board.site, title |-> FALSE]]
     \/ a \in Shown
        /\ board' = [board EXCEPT !.editor = [of |-> a, site |-> board.items[a].site, title |-> TRUE]]
  /\ UNCHANGED << published, listings, errand, engagings, tickets >>

EditAnnouncement(site, title) ==
  /\ board.editor.of # None /\ (site # board.editor.site => board.editor.of = "new")
  /\ board' = [board EXCEPT !.editor.site = site, !.editor.title = title]
  /\ UNCHANGED << published, listings, errand, engagings, tickets >>

CloseEditor == /\ board.editor.of # None
               /\ board' = [board EXCEPT !.editor = ClosedEditor]
               /\ UNCHANGED << published, listings, errand, engagings, tickets >>

\* A write holds the site of the page that it will list again.
Start(kind, of, to, p) ==
  /\ ~board.busy /\ board.errands < MaxErrands
  /\ errand' = [kind |-> kind, of |-> of, to |-> to, site |-> board.site, step |-> "asked"]
  /\ board' = [p EXCEPT !.busy = TRUE, !.errands = @ + 1]
  /\ UNCHANGED << published, listings, engagings, tickets >>

SaveAnnouncement ==
  /\ board.editor.of # None /\ board.editor.site # None /\ board.editor.title
  /\ Start("save", board.editor.of, board.editor.site, [board EXCEPT !.error = FALSE])

CardAction(a, kind) ==
  /\ ~Covering /\ a \in Shown
  /\ CASE kind = "publish" -> board.items[a].status # "published"
       [] kind = "archive" -> board.items[a].status = "published"
       [] OTHER            -> TRUE
  /\ Start(kind, a, None, board)

\* The server: a new announcement is a draft, an edited one keeps its status,
\* one that is gone can be deleted but not changed.
AfterErrand(a, kind, to) ==
  CASE kind = "save"    -> IF published[a] = None THEN [site |-> to, status |-> "draft"] ELSE published[a]
    [] kind = "publish" -> [published[a] EXCEPT !.status = "published"]
    [] kind = "archive" -> [published[a] EXCEPT !.status = "archived"]
    [] OTHER            -> None

WriteAnnouncement ==
  /\ errand.step = "asked"
  /\ \E a \in Announcements :
       /\ IF errand.of = "new" THEN published[a] = None
          ELSE a = errand.of /\ (published[a] # None \/ errand.kind = "delete")
       /\ published' = [published EXCEPT ![a] = AfterErrand(a, errand.kind, errand.to)]
  /\ errand' = [errand EXCEPT !.step = "done"]
  /\ UNCHANGED << board, listings, engagings, tickets >>

\* The editor closes, whatever it was opened for meanwhile.
ErrandDone ==
  /\ errand.step = "done"
  /\ errand' = NoErrand
  /\ Listing([board EXCEPT !.editor = IF errand.kind = "save" THEN ClosedEditor ELSE @], errand.site, TRUE)
  /\ UNCHANGED << published, engagings, tickets >>

ErrandFails ==
  /\ errand.step # "none"
  /\ errand' = NoErrand /\ board' = [board EXCEPT !.error = TRUE, !.busy = FALSE]
  /\ UNCHANGED << published, listings, engagings, tickets >>

------------------------------------------------------------------------------
(* Who engaged                                                             *)

OpenEngagement(a) ==
  /\ ~Covering /\ a \in Shown /\ board.dialog.n < MaxEngagements
  /\ board' = [board EXCEPT !.dialog = Dialog(a, @.n + 1, @.started)]
  /\ engagings' = engagings \cup {[n |-> board.dialog.n + 1, of |-> a]}
  /\ UNCHANGED << published, listings, errand, tickets >>

\* Escape closes the ticket's dialog as well.
CloseEngagement == /\ board.dialog.of # None
                   /\ board' = [board EXCEPT !.dialog = Dialog(None, @.n, @.started)]
                   /\ UNCHANGED << published, listings, errand, engagings, tickets >>

\* The request of a dialog that was closed is cancelled.
Current(q) == board.dialog.of # None /\ q.n = board.dialog.n

EngagementArrives(q) ==
  /\ engagings' = engagings \ {q}
  /\ \E readers \in SUBSET Readers :
       board' = IF Current(q) THEN [board EXCEPT !.dialog.seen = [of |-> q.of, readers |-> readers]] ELSE board
  /\ UNCHANGED << published, listings, errand, tickets >>

EngagementFails(q) ==
  /\ engagings' = engagings \ {q}
  /\ board' = IF Current(q) THEN [board EXCEPT !.dialog.failed = TRUE] ELSE board
  /\ UNCHANGED << published, listings, errand, tickets >>

OpenTicket(r) ==
  /\ board.dialog.seen # None /\ r \in board.dialog.seen.readers
  /\ board.dialog.ticket = None /\ board.dialog.started < MaxTicketDialogs
  /\ board' = [board EXCEPT !.dialog.ticket = r, !.dialog.sending = FALSE, !.dialog.started = @ + 1]
  /\ UNCHANGED << published, listings, errand, engagings, tickets >>

CloseTicket == /\ board.dialog.ticket # None
               /\ board' = [board EXCEPT !.dialog.ticket = None]
               /\ UNCHANGED << published, listings, errand, engagings, tickets >>

SendTicket ==
  /\ board.dialog.ticket # None /\ ~board.dialog.sending
  /\ board' = [board EXCEPT !.dialog.sending = TRUE]
  /\ tickets' = tickets \cup {[n |-> board.dialog.started, reader |-> board.dialog.ticket, of |-> board.dialog.of]}
  /\ UNCHANGED << published, listings, errand, engagings >>

\* The ticket's dialog closes, whatever it was opened for meanwhile.
TicketCreated(q) == /\ tickets' = tickets \ {q} /\ board' = [board EXCEPT !.dialog.ticket = None]
                    /\ UNCHANGED << published, listings, errand, engagings >>

TicketFails(q) ==
  /\ tickets' = tickets \ {q}
  /\ board' = [board EXCEPT !.dialog.sending = @ /\ q.n # board.dialog.started]
  /\ UNCHANGED << published, listings, errand, engagings >>

AnnouncementsNext ==
  \/ SitesAnswered \/ CloseEditor \/ SaveAnnouncement \/ WriteAnnouncement \/ ErrandDone \/ ErrandFails
  \/ \E s \in AnnouncementSites \cup {None} : ChooseSite(s) \/ \E title \in BOOLEAN : EditAnnouncement(s, title)
  \/ \E q \in listings : ServeListing(q) \/ ListingArrives(q) \/ ListingFails(q)
  \/ \E a \in Announcements : \/ OpenEditor(a) \/ OpenEngagement(a)
                              \/ \E kind \in {"publish", "archive", "delete"} : CardAction(a, kind)
  \/ OpenEditor("new") \/ CloseEngagement \/ CloseTicket \/ SendTicket
  \/ \E q \in engagings : EngagementArrives(q) \/ EngagementFails(q)
  \/ \E r \in Readers : OpenTicket(r)
  \/ \E q \in tickets : TicketCreated(q) \/ TicketFails(q)

------------------------------------------------------------------------------
(* Properties                                                              *)

\* Who engaged is shown of the announcement that is open, whatever dialog was
\* opened and closed before it is answered, and a ticket is for one of them
\* (useEngagementModal.ts:16-46, EngagementModal.tsx:155-165).
EngagementOfOpen ==
  /\ board.dialog.seen # None => board.dialog.seen.of = board.dialog.of
  /\ board.dialog.ticket # None => board.dialog.seen # None /\ board.dialog.ticket \in board.dialog.seen.readers

\* A page without its list waits for one or says that something failed, and its
\* buttons are off exactly as long as one write, with the list that follows
\* it, is under way (useAnnouncements.ts:54-60, 82-118).
ListComes ==
  /\ board.items = None => listings # {} \/ errand.step # "none" \/ board.error
  /\ LET waits == {q \in listings : q.awaited} IN
     /\ board.busy <=> errand.step # "none" \/ waits # {}
     /\ errand.step = "none" \/ waits = {}
     /\ \A q, r \in waits : q = r
=============================================================================
