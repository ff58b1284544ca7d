----------------------------- MODULE WidgetPanel -----------------------------
(***************************************************************************)
(* The shell of the visitor widget (tracker/src/widget.ts): one launcher,  *)
(* one panel with the enabled sections, one toast, the unread badges and   *)
(* the feedback form.  The state of a mounted widget is one record, w, and *)
(* each function of the code is an operator from such a record to the      *)
(* next, so that a handler that calls five functions is the composition of *)
(* five operators.  This module holds what every section uses;             *)
(* WidgetUpdates and WidgetTickets add the two sections that talk to the   *)
(* server, Widget the socket, the browser and the next-state relation.     *)
(***************************************************************************)
EXTENDS Integers, Sequences, FiniteSets, Functions

CONSTANTS MaxPosts,    \* announcements are 1 .. MaxPosts
          MaxTickets,  \* tickets are 1 .. MaxTickets
          EDGE,        \* the margin the launcher keeps to the border of the viewport
          THRESHOLD,   \* DRAG_THRESHOLD
          THROW,       \* how far a flick may carry the launcher: MAX_THROW
          Viewports    \* the widths the viewport may have; the page opens in the largest

ASSUME PanelAssumption == MaxPosts \in Nat /\ MaxTickets \in Nat

ASSUME LauncherAssumption ==
  /\ EDGE \in Nat /\ THRESHOLD \in Nat \ {0} /\ THROW \in Nat
  /\ Viewports \subseteq Nat
  /\ \E v \in Viewports : \A u \in Viewports : u <= v

Posts     == 1 .. MaxPosts
TicketIds == 1 .. MaxTickets
None      == 0
NoThread  == [id |-> None]
Nothing   == << >>                     \* a function with an empty domain

\* The first tab of a site that has not changed the order of its sections.
FirstSection(site) ==
  IF "updates" \in site THEN "updates" ELSE IF "tickets" \in site THEN "tickets" ELSE "feedback"

------------------------------------------------------------------------------
(* The launcher: the visitor may drag it anywhere on the screen and never  *)
(* off it.  Its place is remembered as a fraction of the room it has, and  *)
(* derived again whenever the viewport or its own size changes.  One axis  *)
(* is modelled, the other has the same code; the glide after a flick is    *)
(* not.  Lengths are small whole numbers.                                  *)

Smaller(a, b) == IF a < b THEN a ELSE b
Larger(a, b)  == IF a < b THEN b ELSE a

\* clamp(): the lower bound wins when the range is empty.
Clamp(x, min, max) == Smaller(Larger(x, min), Larger(min, max))

NoPress  == [down |-> FALSE, origin |-> 0, x |-> 0, dragging |-> FALSE]
NoPlace  == [num |-> 0, den |-> 0]
Unplaced == -1

LauncherFields ==
  [ vp |-> CHOOSE v \in Viewports : \A u \in Viewports : u <= v,
    icon |-> 0, at |-> Unplaced, placed |-> NoPlace, press |-> NoPress,
    frame |-> FALSE, suppress |-> FALSE, click |-> "none" ]

\* A round mark while the custom icon may still load, a labelled pill after
\* two retries have failed; a badge makes either wider.
Width(w) == (IF w.icon <= 2 THEN 2 ELSE 4) + (IF w.badge = <<0, 0>> THEN 0 ELSE 1)

\* launcherRoom()
Room(w) == Larger(0, w.vp - Width(w) - 2 * EDGE)

\* clampLauncher()
ClampLauncher(w, x) == Clamp(x, EDGE, EDGE + Room(w))

\* rememberPlacement(), which also stores the fraction for the next page.
RememberPlacement(w, x) ==
  [w EXCEPT !.placed = IF Room(w) > 0
                       THEN [num |-> Clamp(x - EDGE, 0, Room(w)), den |-> Room(w)]
                       ELSE [num |-> 0, den |-> 1]]

\* restorePlacement()
RestorePlacement(w) ==
  IF w.placed = NoPlace \/ w.press.dragging \/ w.destroyed THEN w
  ELSE [w EXCEPT !.at = EDGE + (w.placed.num * Room(w)) \div w.placed.den]

\* Where the launcher is before it was ever moved: the right corner.
Seat(w) == IF w.at = Unplaced THEN EDGE + Room(w) ELSE w.at

\* pointerdown
PointerDown(w) ==
  [w EXCEPT !.suppress = FALSE,
            !.press = [down |-> TRUE, origin |-> Seat(w), x |-> Seat(w), dragging |-> FALSE]]

\* pointermove, by dx in all since the press
PointerMove(w, dx) ==
  IF ~w.press.dragging /\ dx \in -THRESHOLD + 1 .. THRESHOLD - 1 THEN w
  ELSE [w EXCEPT !.press.dragging = TRUE, !.frame = TRUE,
                 !.press.x = ClampLauncher(w, w.press.origin + dx)]

\* The frame requested by pointermove.
DragFrame(w) ==
  LET u == [w EXCEPT !.frame = FALSE]
  IN IF ~w.press.down \/ w.destroyed THEN u ELSE [u EXCEPT !.at = w.press.x]

\* Mutant of EndPress: a flick carries the launcher as far as it goes.
EndPressUnclamped(w, throw, click) ==
  LET u == [w EXCEPT !.press = NoPress, !.click = click]
      d == [u EXCEPT !.suppress = TRUE, !.frame = FALSE, !.at = w.press.x + throw]
  IN IF ~w.press.dragging THEN u ELSE RememberPlacement(d, w.press.x + throw)

\* pointerup, pointercancel: the launcher settles, on the screen, and the
\* click that follows the release of a drag will be swallowed.
EndPress(w, throw, click) ==
  LET end == ClampLauncher(w, w.press.x + throw)
      u == [w EXCEPT !.press = NoPress, !.click = click]
  IN IF ~w.press.dragging THEN u
     ELSE RememberPlacement([u EXCEPT !.suppress = TRUE, !.frame = FALSE, !.at = end], end)

\* A request of the custom icon fails: retried twice, then the built-in mark.
IconFails(w) ==
  LET u == [w EXCEPT !.icon = @ + 1] IN IF w.icon < 2 THEN u ELSE RestorePlacement(u)

\* onResize
Resized(w, vp) == LET u == [w EXCEPT !.vp = vp] IN IF w.destroyed THEN u ELSE RestorePlacement(u)

------------------------------------------------------------------------------
(* What counts as unread                                                   *)

\* isAnnouncementUnread: published within three days and not read.
UnreadPosts(w) == {p \in DOMAIN w.feed : ~w.feed[p].read /\ p \notin w.aged}

\* isTicketUnread: the last word is the staff's and it is past the marker.
UnreadTicket(w, t, sum) ==
  /\ sum.status # "archived"
  /\ sum.author = "staff"
  /\ sum.count > w.markers[t]

UnreadTickets(w) == {t \in DOMAIN w.tickets : UnreadTicket(w, t, w.tickets[t])}

\* syncBadges(): the counts on the launcher and the tabs, the launcher kept on
\* the screen, and a timer at the moment the oldest unread announcement stops
\* being unread.
SyncBadges(w) ==
  RestorePlacement(
    [w EXCEPT !.badge  = <<Cardinality(UnreadPosts(w)), Cardinality(UnreadTickets(w))>>,
              !.expiry = UnreadPosts(w)])

------------------------------------------------------------------------------
(* What the body of the panel shows: a view is built from the state of the *)
(* moment and stays as it is until a handler builds the next one.          *)

UpdatesList(w) ==
  <<"updates", None, {<<p, w.feed[p].ver, p \in UnreadPosts(w)>> : p \in DOMAIN w.feed}>>

\* What it says and its likes are left out; so is its comment box, see comment.
DetailView(w) == <<"detail", w.detail.id, {}>>

UpdatesView(w) == IF w.detail.id # None THEN DetailView(w) ELSE UpdatesList(w)

TicketsList(w) ==
  <<"list", None, {<<t, w.tickets[t].status, w.tickets[t].author>> : t \in DOMAIN w.tickets},
    w.error>>

\* The heading of a thread whose messages are not there yet is left out.
ThreadView(w) ==
  IF w.thread.id = None
  THEN <<"loading", w.view.id, {}, w.error>>
  ELSE <<"thread", w.thread.id, w.thread.msgs, w.error, w.thread.sum.status,
         w.drafts[w.thread.id]>>

\* The fields of a new ticket; what was typed is kept outside of the view.
NewTicketView == <<"new", None, {}>>

TicketsView(w) == CASE w.view.kind = "new"    -> NewTicketView
                    [] w.view.kind = "thread" -> ThreadView(w)
                    [] w.view.kind = "list"   -> TicketsList(w)

\* The questions of the survey: the site's own or those of a campaign.
FormView(w) == <<"form", w.token, {}>>
ThanksView  == <<"thanks", None, {}>>

FeedbackView(w) == IF w.submitted THEN ThanksView ELSE FormView(w)

SectionView(w) == CASE w.section = "updates"  -> UpdatesView(w)
                    [] w.section = "tickets"  -> TicketsView(w)
                    [] w.section = "feedback" -> FeedbackView(w)

\* replaceView, swapView: the body shows the view built now; the fields and
\* buttons of the view before, disabled or not, are gone.
SwapView(w) ==
  [w EXCEPT !.body    = SectionView(w),
            !.busy    = FALSE,
            !.replies = {[r EXCEPT !.here = FALSE] : r \in @}]

\* A closed panel shows nothing: the view it keeps is replaced when it opens.
NoView(w) ==
  [w EXCEPT !.body    = <<"empty", None, {}>>,
            !.detail  = [id |-> None, held |-> FALSE],
            !.busy    = FALSE,
            !.replies = {[r EXCEPT !.here = FALSE] : r \in @}]

\* The reply box is part of a loaded thread that is neither closed nor archived.
ComposerOffered(w) ==
  /\ w.open /\ w.section = "tickets" /\ w.body[1] = "thread"
  /\ w.body[5] \notin {"closed", "archived"}

------------------------------------------------------------------------------
(* The toast                                                               *)

\* hideToast(): the toast fades out and is hidden when the animation ends.
HideToast(w) == IF w.toast = Nothing THEN w ELSE [w EXCEPT !.fading = TRUE]

\* showPreviewToast(): never over an open panel.
ShowPreviewToast(w, what) ==
  IF w.open \/ w.destroyed THEN w ELSE [w EXCEPT !.toast = what]

\* The end of a fade hides whatever the toast shows by then.
FadeEnd(w) == [w EXCEPT !.toast = Nothing, !.fading = FALSE]

------------------------------------------------------------------------------
(* The feedback form and the delivery of a campaign                        *)

\* finishActiveDelivery(): at most one outcome is reported for a token.
FinishActiveDelivery(w, action) ==
  IF w.token = None \/ w.done
  THEN w
  ELSE [w EXCEPT !.done = TRUE, !.calls = Append(@, <<w.token, action>>)]

\* closePanel(): an unanswered campaign is dismissed, and the form is the
\* site's own again.
ClosePanel(w, recordDismissal) ==
  LET u == [w EXCEPT !.closing = FALSE]
      d == IF recordDismissal /\ ~u.submitted THEN FinishActiveDelivery(u, "dismissed") ELSE u
      c == NoView([d EXCEPT !.open = FALSE])
  IN IF ~w.open THEN u
     ELSE IF w.token = None THEN c
     ELSE [c EXCEPT !.token = None, !.submitted = FALSE, !.done = FALSE, !.finishing = TRUE]

\* The form is sent: thanks are shown and the panel closes three seconds later.
SubmitFeedback(w) ==
  [w EXCEPT !.calls     = Append(@, <<w.token, "answered">>),
            !.done      = @ \/ w.token # None,
            !.submitted = TRUE,
            !.body      = ThanksView,
            !.closing   = TRUE]

Skip(w) == ClosePanel(FinishActiveDelivery(w, "skipped"), FALSE)

FormShown(w) == w.open /\ w.section = "feedback" /\ w.body[1] = "form"

------------------------------------------------------------------------------
(* The panel as mountUnifiedWidget leaves it                               *)

Mounted(site) ==
  [ sections |-> site, section |-> FirstSection(site), open |-> FALSE,
    destroyed |-> FALSE, visible |-> TRUE, body |-> <<"empty", None, {}>>,
    toast |-> Nothing, fading |-> FALSE, badge |-> <<0, 0>>, expiry |-> {},
    token |-> None, submitted |-> FALSE, done |-> FALSE, closing |-> FALSE,
    finishing |-> FALSE, calls |-> << >>,
    feed |-> Nothing, aged |-> {}, detail |-> [id |-> None, held |-> FALSE],
    tickets |-> Nothing, view |-> [kind |-> "list", id |-> None], thread |-> NoThread,
    error |-> "", markers |-> [t \in TicketIds |-> 0], drafts |-> [t \in TicketIds |-> 0],
    busy |-> FALSE, replies |-> {} ]
=============================================================================
