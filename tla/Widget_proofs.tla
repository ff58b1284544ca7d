---------------------------- MODULE Widget_proofs ----------------------------
(***************************************************************************)
(* Proofs about the visitor widget, for any site and page, any numbers of  *)
(* announcements and tickets, and any widths.                              *)
(*                                                                         *)
(* Each function of the code maps a widget s to the next one.  Base is     *)
(* what all of them keep: the toast yields, the launcher is on the screen, *)
(* and a widget that has left the page is silent.  Sourced, that the       *)
(* announcements have a source, is broken in between by some: a load that  *)
(* ends, a socket that closes.  Kept is the relation of the functions that *)
(* leave alone what Sourced speaks of; Moved is that of a whole handler.   *)
(*                                                                         *)
(* The second half is about what the widget shows.  Good says that the     *)
(* badges count what is unread (Counts) and the body is what its section   *)
(* would show (Shows); Sound says of every list, conversation, cache and   *)
(* answer on its way that the server once said so.  Each function keeps    *)
(* Good; some only if what they are called with is sound, so the server's  *)
(* tickets, which only grow, and the events on the wire are part of it.    *)
(***************************************************************************)
EXTENDS Widget, SequenceTheorems, FiniteSetTheorems, WellFoundedInduction, TLAPS

Names == DOMAIN Mounted({}) \cup DOMAIN LauncherFields \cup DOMAIN UpdatesFields
         \cup DOMAIN TicketsFields \cup DOMAIN SocketFields

LoadNames == {"initial", "then", "got"}

Loads(q) == (\E S : q \in Seq(S)) /\ \A i \in DOMAIN q : DOMAIN q[i] = LoadNames

Shape(s) ==
  /\ DOMAIN s = Names
  /\ Loads(s.loads)
  /\ DOMAIN s.asked = TicketIds

\* ToastYields, of a widget s.
Toasts(s) == s.open => s.toast = Nothing \/ s.fading

Fraction(p) == p.num \in Nat /\ p.den \in Nat \ {0} /\ p.num <= p.den

\* The launcher: a press that drags is a press, a frame is asked for by a
\* drag, and where a drag ended is remembered.
Launcher(s) ==
  /\ s.vp \in Nat /\ s.icon \in Nat /\ s.at \in Int
  /\ DOMAIN s.press = DOMAIN NoPress
  /\ s.press.origin \in Int /\ s.press.x \in Int
  /\ s.press.dragging => s.press.down
  /\ s.frame => s.press.dragging
  /\ s.placed = NoPlace \/ Fraction(s.placed)
  /\ s.at # Unplaced /\ ~s.press.dragging => s.placed # NoPlace

\* LauncherOnScreen, of a widget s.
Inside(s) == s.at # Unplaced /\ ~s.press.dragging /\ ~s.destroyed => s.at \in EDGE..EDGE + Room(s)

Silent(s) ==
  s.destroyed => s.threadCall = NoCall /\ s.socket = "none" /\ ~s.poll /\ ~s.retryTimer

\* Base, while the launcher has not yet been moved for its room.
Loose(s) == Shape(s) /\ Toasts(s) /\ Launcher(s) /\ Silent(s)

Base(s) == Loose(s) /\ Inside(s)

\* FeedSource, of a widget s.
Sourced(s) ==
  ~s.destroyed /\ UpdatesOn(s) =>
    s.socket = "open" \/ s.feedTimer \/ \E i \in DOMAIN s.loads : s.loads[i].then

Inv == Base(w) /\ Sourced(w)

\* No list and no conversation is asked for by a widget that has left the page.
Unasking(s, t) ==
  s.destroyed =>
    /\ t.listCall.sent => s.listCall.sent
    /\ \A n \in TicketIds : t.asked[n].sent => s.asked[n].sent

SameSource(s, t) ==
  /\ t.destroyed = s.destroyed /\ t.sections = s.sections /\ t.socket = s.socket
  /\ t.feedTimer = s.feedTimer /\ t.loads = s.loads

Kept(s, t) == Base(t) /\ SameSource(s, t) /\ Unasking(s, t)

Moved(s, t) ==
  /\ Base(t)
  /\ Sourced(s) => Sourced(t)
  /\ t.destroyed = s.destroyed /\ t.sections = s.sections
  /\ s.destroyed => Len(t.loads) <= Len(s.loads)
  /\ Unasking(s, t)

\* All that Base and Sourced speak of, but what moves the launcher.
Rest(s) ==
  << s.destroyed, s.sections, s.socket, s.feedTimer, s.loads, s.open, s.toast, s.fading,
     s.threadCall, s.poll, s.retryTimer, s.listCall, s.asked >>

Moves(s) == << s.vp, s.icon, s.at, s.press, s.frame, s.placed >>

View(s) == << Rest(s), Moves(s), s.badge >>

\* The names a lookup in an updated record asks for.
LEMMA FieldNames ==
  /\ {"sections", "section", "open", "destroyed", "visible", "body", "toast"} \subseteq Names
  /\ {"fading", "badge", "expiry", "token", "submitted", "done", "closing"} \subseteq Names
  /\ {"finishing", "calls", "feed", "aged", "detail", "tickets", "view"} \subseteq Names
  /\ {"thread", "error", "markers", "drafts", "busy", "replies", "vp"} \subseteq Names
  /\ {"icon", "at", "placed", "press", "frame", "suppress", "click"} \subseteq Names
  /\ {"seen", "loads", "feedTimer", "posts", "comment", "fetched"} \subseteq Names
  /\ {"listCall", "live", "retry", "poll", "threadCall", "loading"} \subseteq Names
  /\ {"loadingTimer", "cache", "toasted", "asked", "history"} \subseteq Names
  /\ {"newDraft", "creating", "sockets", "socket", "retryTimer"} \subseteq Names
BY DEF Names, Mounted, LauncherFields, UpdatesFields, TicketsFields, SocketFields

LEMMA SameRest ==
  ASSUME NEW s, NEW t, Loose(s), DOMAIN t = Names, Rest(t) = Rest(s)
  PROVE  Shape(t) /\ Toasts(t) /\ Silent(t) /\ SameSource(s, t) /\ Unasking(s, t)
<1>1. /\ t.destroyed = s.destroyed /\ t.sections = s.sections /\ t.socket = s.socket
      /\ t.feedTimer = s.feedTimer /\ t.loads = s.loads /\ t.open = s.open /\ t.toast = s.toast
      /\ t.fading = s.fading /\ t.threadCall = s.threadCall /\ t.poll = s.poll
      /\ t.retryTimer = s.retryTimer /\ t.listCall = s.listCall /\ t.asked = s.asked
  BY DEF Rest
<1> QED BY <1>1 DEF Loose, Shape, Toasts, Silent, SameSource, Unasking

LEMMA SameView ==
  ASSUME NEW s, NEW t, Base(s), DOMAIN t = Names, View(t) = View(s)
  PROVE  Kept(s, t)
<1>1. Rest(t) = Rest(s) /\ Moves(t) = Moves(s) /\ t.badge = s.badge BY DEF View
<1>2. /\ t.vp = s.vp /\ t.icon = s.icon /\ t.at = s.at /\ t.press = s.press
      /\ t.frame = s.frame /\ t.placed = s.placed
  BY <1>1 DEF Moves
<1>3. Launcher(t) BY <1>2 DEF Base, Loose, Launcher
<1>4. Room(t) = Room(s) BY <1>1, <1>2 DEF Room, Width
<1>5. Shape(t) /\ Toasts(t) /\ Silent(t) /\ SameSource(s, t) /\ Unasking(s, t)
  BY <1>1, SameRest DEF Base
<1>6. Inside(t) BY <1>2, <1>4, <1>5 DEF Base, Inside, SameSource
<1> QED BY <1>3, <1>5, <1>6 DEF Kept, Base, Loose

LEMMA KeptOnward ==
  ASSUME NEW s, NEW t, NEW u, Kept(s, t), Kept(t, u)
  PROVE  Kept(s, u)
BY DEF Kept, SameSource, Unasking

LEMMA KeptMoves ==
  ASSUME NEW s, NEW t, Base(s), Kept(s, t)
  PROVE  Moved(s, t)
<1>1. Len(s.loads) <= Len(s.loads)
  <2>1. PICK S : s.loads \in Seq(S) BY DEF Base, Loose, Shape, Loads
  <2>2. Len(s.loads) \in Nat BY <2>1
  <2> QED BY <2>2
<1> QED BY <1>1 DEF Kept, Moved, SameSource, Sourced, UpdatesOn

LEMMA MovedOnward ==
  ASSUME NEW s, NEW t, NEW u, Base(s), Moved(s, t), Moved(t, u)
  PROVE  Moved(s, u)
<1>1. PICK S : s.loads \in Seq(S) BY DEF Base, Loose, Shape, Loads
<1>2. PICK T : t.loads \in Seq(T) BY DEF Moved, Base, Loose, Shape, Loads
<1>3. PICK U : u.loads \in Seq(U) BY DEF Moved, Base, Loose, Shape, Loads
<1>4. Len(s.loads) \in Nat /\ Len(t.loads) \in Nat /\ Len(u.loads) \in Nat BY <1>1, <1>2, <1>3
<1> QED BY <1>4 DEF Moved, Unasking

------------------------------------------------------------------------------
(* The launcher                                                            *)

LEMMA ClampBetween ==
  ASSUME NEW x \in Int, NEW a \in Int, NEW b \in Int, a <= b
  PROVE  Clamp(x, a, b) \in a..b
BY DEF Clamp, Smaller, Larger

LEMMA RoomIsNat ==
  ASSUME NEW s, s.vp \in Nat, s.icon \in Nat
  PROVE  Room(s) \in Nat
<1>1. Width(s) \in Int BY DEF Width
<1>2. EDGE \in Nat BY LauncherAssumption
<1>3. s.vp - Width(s) - 2 * EDGE \in Int BY <1>1, <1>2
<1> QED BY <1>3 DEF Room, Larger

\* A fraction of a room is within the room.
LEMMA FractionFits ==
  ASSUME NEW n \in Nat, NEW d \in Nat \ {0}, NEW r \in Nat, n <= d
  PROVE  (n * r) \div d \in 0..r
<1>1. n * r <= d * r BY Z3
<1>2. n * r \in Nat /\ d * r \in Nat BY Z3
<1>3. DEFINE q == (n * r) \div d
<1>4. q \in Int /\ d * q <= n * r /\ n * r < d * (q + 1) BY <1>2, Z3
<1>5. d * q <= d * r BY <1>1, <1>2, <1>4, Z3
<1>6. 0 < d * (q + 1) BY <1>2, <1>4, Z3
<1> HIDE DEF q
<1>7. q <= r BY <1>4, <1>5, Z3
<1>8. 0 <= q BY <1>4, <1>6, Z3
<1> QED BY <1>4, <1>7, <1>8 DEF q

\* restorePlacement() brings the launcher back onto the screen.
LEMMA RestoreKeeps ==
  ASSUME NEW s, Loose(s)
  PROVE  Kept(s, RestorePlacement(s))
<1> USE FieldNames
<1>0. DOMAIN s = Names BY DEF Loose, Shape
<1>1. CASE s.placed = NoPlace \/ s.press.dragging \/ s.destroyed
  <2>1. RestorePlacement(s) = s BY <1>1 DEF RestorePlacement
  <2>2. Inside(s) BY <1>1 DEF Inside, Loose, Launcher
  <2> QED BY <2>1, <2>2 DEF Kept, Base, SameSource, Unasking
<1>2. CASE ~(s.placed = NoPlace \/ s.press.dragging \/ s.destroyed)
  <2> DEFINE x == (s.placed.num * Room(s)) \div s.placed.den
             t == [s EXCEPT !.at = EDGE + x]
  <2>1. RestorePlacement(s) = t BY <1>2 DEF RestorePlacement
  <2>2. DOMAIN t = Names /\ Rest(t) = Rest(s) BY <1>0 DEF Rest
  <2>3. /\ t.at = EDGE + x /\ t.vp = s.vp /\ t.icon = s.icon /\ t.press = s.press
        /\ t.frame = s.frame /\ t.placed = s.placed /\ t.badge = s.badge
    BY <1>0
  <2>4. Fraction(s.placed) BY <1>2 DEF Loose, Launcher
  <2>5. Room(s) \in Nat BY RoomIsNat DEF Loose, Launcher
  <2>6. x \in 0..Room(s) BY <2>4, <2>5, FractionFits DEF Fraction
  <2> HIDE DEF t, x
  <2>7. EDGE \in Nat BY LauncherAssumption
  <2>8. t.at \in Int /\ t.at \in EDGE..EDGE + Room(s) BY <2>3, <2>5, <2>6, <2>7
  <2>9. Room(t) = Room(s) BY <2>3 DEF Room, Width
  <2>10. Inside(t) BY <2>8, <2>9 DEF Inside
  <2>11. Launcher(t) BY <1>2, <2>3, <2>8 DEF Loose, Launcher
  <2>12. Kept(s, t) BY <2>2, <2>10, <2>11, SameRest DEF Kept, Base, Loose
  <2> QED BY <2>1, <2>12
<1> QED BY <1>1, <1>2

\* A function that changes what the launcher shows, and restores its place.
LEMMA RestoredKeeps ==
  ASSUME NEW s, NEW u, Base(s), DOMAIN u = Names, Rest(u) = Rest(s), Launcher(u)
  PROVE  Kept(s, RestorePlacement(u))
<1>1. /\ Loose(u) /\ SameSource(s, u) /\ Unasking(s, u)
  BY SameRest DEF Base, Loose
<1>2. Kept(u, RestorePlacement(u)) BY <1>1, RestoreKeeps
<1> QED BY <1>1, <1>2 DEF Kept, SameSource, Unasking

LEMMA SyncKeeps ==
  ASSUME NEW s, Base(s)
  PROVE  Kept(s, SyncBadges(s))
<1> USE FieldNames
<1> DEFINE b == << Cardinality(UnreadPosts(s)), Cardinality(UnreadTickets(s)) >>
           e == UnreadPosts(s)
<1>0. DOMAIN s = Names BY DEF Base, Loose, Shape
<1> HIDE DEF b, e
<1> DEFINE u == [s EXCEPT !.badge = b, !.expiry = e]
<1>1. DOMAIN u = Names /\ Rest(u) = Rest(s) /\ Moves(u) = Moves(s) BY <1>0 DEF Rest, Moves
<1>2. Launcher(u) BY <1>1 DEF Base, Loose, Launcher, Moves
<1>3. Kept(s, RestorePlacement(u)) BY <1>1, <1>2, RestoredKeeps
<1>4. SyncBadges(s) = RestorePlacement(u) BY DEF SyncBadges, b, e
<1> QED BY <1>3, <1>4

------------------------------------------------------------------------------
(* The panel, the toast, the form                                          *)

LEMMA ViewsKeep ==
  ASSUME NEW s, Base(s)
  PROVE  Kept(s, SwapView(s)) /\ Kept(s, NoView(s)) /\ Kept(s, SubmitFeedback(s))
<1> USE FieldNames
<1>0. DOMAIN s = Names BY DEF Base, Loose, Shape
<1>1. DOMAIN SwapView(s) = Names /\ View(SwapView(s)) = View(s)
  BY <1>0 DEF SwapView, View, Rest, Moves
<1>2. DOMAIN NoView(s) = Names /\ View(NoView(s)) = View(s)
  BY <1>0 DEF NoView, View, Rest, Moves
<1>3. DOMAIN SubmitFeedback(s) = Names /\ View(SubmitFeedback(s)) = View(s)
  BY <1>0 DEF SubmitFeedback, View, Rest, Moves
<1> QED BY <1>1, <1>2, <1>3, SameView

\* Nothing of the launcher changes, nor of what a request depends on.
LEMMA SamePanel ==
  ASSUME NEW s, NEW t, Base(s), DOMAIN t = Names, Moves(t) = Moves(s), t.badge = s.badge,
         Shape(t), Toasts(t), Silent(t), SameSource(s, t), Unasking(s, t)
  PROVE  Kept(s, t)
<1>1. /\ t.vp = s.vp /\ t.icon = s.icon /\ t.at = s.at /\ t.press = s.press
      /\ t.frame = s.frame /\ t.placed = s.placed
  BY DEF Moves
<1>2. Launcher(t) BY <1>1 DEF Base, Loose, Launcher
<1>3. Room(t) = Room(s) BY <1>1 DEF Room, Width
<1>4. Inside(t) BY <1>1, <1>3 DEF Base, Inside, SameSource
<1> QED BY <1>2, <1>4 DEF Kept, Base, Loose

\* The panel opens, closes or shows a toast: nothing else changes.
LEMMA Toasted ==
  ASSUME NEW s, NEW t, Base(s), DOMAIN t = Names, Moves(t) = Moves(s), t.badge = s.badge,
         Toasts(t), SameSource(s, t), t.listCall = s.listCall, t.asked = s.asked,
         t.threadCall = s.threadCall, t.poll = s.poll, t.retryTimer = s.retryTimer
  PROVE  Kept(s, t)
<1>1. Shape(t) /\ Silent(t) /\ Unasking(s, t)
  BY DEF Base, Loose, Shape, Silent, SameSource, Unasking
<1> QED BY <1>1, SamePanel

LEMMA ToastKeeps ==
  ASSUME NEW s, Base(s)
  PROVE  /\ Kept(s, HideToast(s))
         /\ HideToast(s).toast = Nothing \/ HideToast(s).fading
         /\ Kept(s, FadeEnd(s))
         /\ \A x : Kept(s, ShowPreviewToast(s, x))
<1> USE FieldNames
<1>0. DOMAIN s = Names BY DEF Base, Loose, Shape
<1>00. Kept(s, s) BY <1>0, SameView
<1>1. Kept(s, HideToast(s)) /\ (HideToast(s).toast = Nothing \/ HideToast(s).fading)
  <2> DEFINE t == [s EXCEPT !.fading = TRUE]
  <2>1. /\ DOMAIN t = Names /\ Moves(t) = Moves(s) /\ t.badge = s.badge /\ t.fading = TRUE
        /\ SameSource(s, t) /\ t.listCall = s.listCall /\ t.asked = s.asked
        /\ t.threadCall = s.threadCall /\ t.poll = s.poll /\ t.retryTimer = s.retryTimer
    BY <1>0 DEF Moves, SameSource
  <2> HIDE DEF t
  <2>2. Toasts(t) BY <2>1 DEF Toasts
  <2>3. Kept(s, t) BY <2>1, <2>2, Toasted
  <2> QED BY <1>00, <2>1, <2>3 DEF HideToast, t
<1>2. Kept(s, FadeEnd(s))
  <2> DEFINE t == FadeEnd(s)
  <2>1. /\ DOMAIN t = Names /\ Moves(t) = Moves(s) /\ t.badge = s.badge /\ t.toast = Nothing
        /\ SameSource(s, t) /\ t.listCall = s.listCall /\ t.asked = s.asked
        /\ t.threadCall = s.threadCall /\ t.poll = s.poll /\ t.retryTimer = s.retryTimer
    BY <1>0 DEF Moves, SameSource, FadeEnd
  <2> HIDE DEF t
  <2>2. Toasts(t) BY <2>1 DEF Toasts
  <2>3. Kept(s, t) BY <2>1, <2>2, Toasted
  <2> QED BY <2>3 DEF t
<1>3. ASSUME NEW x PROVE Kept(s, ShowPreviewToast(s, x))
  <2> DEFINE t == [s EXCEPT !.toast = x]
  <2>1. /\ DOMAIN t = Names /\ Moves(t) = Moves(s) /\ t.badge = s.badge /\ t.open = s.open
        /\ SameSource(s, t) /\ t.listCall = s.listCall /\ t.asked = s.asked
        /\ t.threadCall = s.threadCall /\ t.poll = s.poll /\ t.retryTimer = s.retryTimer
    BY <1>0 DEF Moves, SameSource
  <2> HIDE DEF t
  <2>2. CASE ~s.open
    <3>1. Toasts(t) BY <2>1, <2>2 DEF Toasts
    <3>2. Kept(s, t) BY <2>1, <3>1, Toasted
    <3> QED BY <1>00, <3>2 DEF ShowPreviewToast, t
  <2>3. CASE s.open BY <1>00, <2>3 DEF ShowPreviewToast
  <2> QED BY <2>2, <2>3
<1> QED BY <1>1, <1>2, <1>3

LEMMA FinishKeeps ==
  ASSUME NEW s, NEW x, Base(s)
  PROVE  Kept(s, FinishActiveDelivery(s, x))
<1> USE FieldNames
<1>0. DOMAIN s = Names BY DEF Base, Loose, Shape
<1>1. /\ DOMAIN FinishActiveDelivery(s, x) = Names
      /\ View(FinishActiveDelivery(s, x)) = View(s)
  BY <1>0 DEF FinishActiveDelivery, View, Rest, Moves
<1> QED BY <1>1, SameView

LEMMA ClosePanelKeeps ==
  ASSUME NEW s, NEW x \in BOOLEAN, Base(s)
  PROVE  Kept(s, ClosePanel(s, x))
<1> USE FieldNames
<1>0. DOMAIN s = Names BY DEF Base, Loose, Shape
<1> DEFINE u == [s EXCEPT !.closing = FALSE]
           d == IF x /\ ~u.submitted THEN FinishActiveDelivery(u, "dismissed") ELSE u
           o == [d EXCEPT !.open = FALSE]
           c == NoView(o)
           e == [c EXCEPT !.token = None, !.submitted = FALSE, !.done = FALSE, !.finishing = TRUE]
<1>1. Kept(s, u)
  <2>1. DOMAIN u = Names /\ View(u) = View(s) BY <1>0 DEF View, Rest, Moves
  <2> QED BY <2>1, SameView
<1>2. Base(u) BY <1>1 DEF Kept
<1> HIDE DEF u
<1>3. Kept(u, d)
  <2>1. DOMAIN u = Names BY <1>2 DEF Base, Loose, Shape
  <2>2. Kept(u, u) BY <1>2, <2>1, SameView
  <2> QED BY <1>2, <2>2, FinishKeeps
<1>4. Base(d) BY <1>3 DEF Kept
<1> HIDE DEF d
<1>5. Kept(d, o)
  <2>0. DOMAIN d = Names BY <1>4 DEF Base, Loose, Shape
  <2>1. /\ DOMAIN o = Names /\ Moves(o) = Moves(d) /\ o.badge = d.badge /\ o.open = FALSE
        /\ SameSource(d, o) /\ o.listCall = d.listCall /\ o.asked = d.asked
        /\ o.threadCall = d.threadCall /\ o.poll = d.poll /\ o.retryTimer = d.retryTimer
    BY <2>0 DEF Moves, SameSource
  <2> HIDE DEF o
  <2>2. Toasts(o) BY <2>1 DEF Toasts
  <2> QED BY <1>4, <2>1, <2>2, Toasted
<1>6. Base(o) BY <1>5 DEF Kept
<1> HIDE DEF o
<1>7. Kept(o, c) BY <1>6, ViewsKeep
<1>8. Base(c) BY <1>7 DEF Kept
<1> HIDE DEF c
<1>9. Kept(c, e)
  <2>0. DOMAIN c = Names BY <1>8 DEF Base, Loose, Shape
  <2>1. DOMAIN e = Names /\ View(e) = View(c) BY <2>0 DEF View, Rest, Moves
  <2> QED BY <1>8, <2>1, SameView
<1> HIDE DEF e
<1>10. Kept(s, c)
  <2>1. Kept(s, d) BY <1>1, <1>3, KeptOnward
  <2>2. Kept(s, o) BY <1>5, <2>1, KeptOnward
  <2> QED BY <1>7, <2>2, KeptOnward
<1>11. Kept(s, e) BY <1>9, <1>10, KeptOnward
<1>12. ClosePanel(s, x) = IF ~s.open THEN u ELSE IF s.token = None THEN c ELSE e
  BY DEF ClosePanel, u, d, o, c, e
<1> QED BY <1>1, <1>10, <1>11, <1>12

------------------------------------------------------------------------------
(* The announcements                                                       *)

LEMMA RepaintUpdatesKeeps ==
  ASSUME NEW s, Base(s)
  PROVE  Kept(s, RepaintUpdates(s))
<1>1. Kept(s, s) BY SameView DEF Base, Loose, Shape
<1> QED BY <1>1, ViewsKeep DEF RepaintUpdates

LEMMA ShowToastKeeps ==
  ASSUME NEW s, NEW p, Base(s)
  PROVE  Kept(s, ShowToast(s, p))
<1>1. Kept(s, s) BY SameView DEF Base, Loose, Shape
<1> QED BY <1>1, ToastKeeps DEF ShowToast

\* A toast stays hidden when its announcement is replaced.
LEMMA DetachedKeeps ==
  ASSUME NEW s, NEW S, Base(s)
  PROVE  Kept(s, Detached(s, S))
<1> USE FieldNames
<1>0. DOMAIN s = Names BY DEF Base, Loose, Shape
<1> DEFINE t == Detached(s, S)
<1>1. /\ DOMAIN t = Names /\ Moves(t) = Moves(s) /\ t.badge = s.badge
      /\ t.open = s.open /\ t.fading = s.fading
      /\ SameSource(s, t) /\ t.listCall = s.listCall /\ t.asked = s.asked
      /\ t.threadCall = s.threadCall /\ t.poll = s.poll /\ t.retryTimer = s.retryTimer
  BY <1>0 DEF Moves, SameSource, Detached
<1>2. s.toast = Nothing => t.toast = Nothing BY <1>0 DEF Detached
<1> HIDE DEF t
<1>3. Toasts(t) BY <1>1, <1>2 DEF Base, Loose, Toasts
<1>4. Kept(s, t) BY <1>1, <1>3, Toasted
<1> QED BY <1>4 DEF t

LEMMA SyncRepaintKeeps ==
  ASSUME NEW s, Base(s)
  PROVE  Kept(s, RepaintUpdates(SyncBadges(s)))
<1> DEFINE t == SyncBadges(s)
<1>1. Kept(s, t) BY SyncKeeps
<1>2. Base(t) BY <1>1 DEF Kept
<1> HIDE DEF t
<1>3. Kept(t, RepaintUpdates(t)) BY <1>2, RepaintUpdatesKeeps
<1>4. Kept(s, RepaintUpdates(t)) BY <1>1, <1>3, KeptOnward
<1> QED BY <1>4 DEF t

LEMMA ApplyFeedKeeps ==
  ASSUME NEW s, NEW initial, NEW next, Base(s)
  PROVE  Kept(s, ApplyFeed(s, initial, next))
<1> USE FieldNames
<1> DEFINE d == Detached(s, Posts)
           f == [d EXCEPT !.feed = next, !.seen = DOMAIN next]
           u == RepaintUpdates(SyncBadges(f))
           fresh == {p \in DOMAIN next : ~next[p].read /\ p \notin s.seen}
           recent == fresh \cap UnreadPosts(u)
           newest == CHOOSE p \in recent : \A q \in recent : p >= q
<1>1. Kept(s, d) BY DetachedKeeps
<1>2. Base(d) BY <1>1 DEF Kept
<1> HIDE DEF d
<1>3. Kept(d, f)
  <2>1. DOMAIN d = Names BY <1>2 DEF Base, Loose, Shape
  <2>2. DOMAIN f = Names /\ View(f) = View(d) BY <2>1 DEF View, Rest, Moves
  <2> QED BY <1>2, <2>2, SameView
<1>4. Base(f) BY <1>3 DEF Kept
<1> HIDE DEF f
<1>5. Kept(f, u) BY <1>4, SyncRepaintKeeps
<1>6. Base(u) BY <1>5 DEF Kept
<1>7. Kept(s, u)
  <2>1. Kept(s, f) BY <1>1, <1>3, KeptOnward
  <2> QED BY <1>5, <2>1, KeptOnward
<1> HIDE DEF u, fresh, recent, newest
<1>8. Kept(u, ShowToast(u, newest)) BY <1>6, ShowToastKeeps
<1>9. Kept(s, ShowToast(u, newest)) BY <1>7, <1>8, KeptOnward
<1>10. ApplyFeed(s, initial, next) = IF initial \/ recent = {} THEN u ELSE ShowToast(u, newest)
  BY DEF ApplyFeed, d, f, u, fresh, recent, newest
<1> QED BY <1>7, <1>9, <1>10

LEMMA PostRemovedKeeps ==
  ASSUME NEW s, NEW p, Base(s)
  PROVE  Kept(s, PostRemoved(s, p))
<1> USE FieldNames
<1> DEFINE d == Detached(s, {p})
           f == [d EXCEPT !.feed = Restrict(@, DOMAIN @ \ {p}), !.seen = @ \ {p}]
           u == RepaintUpdates(SyncBadges(f))
<1>1. Kept(s, d) BY DetachedKeeps
<1>2. Base(d) BY <1>1 DEF Kept
<1> HIDE DEF d
<1>3. Kept(d, f)
  <2>1. DOMAIN d = Names BY <1>2 DEF Base, Loose, Shape
  <2>2. DOMAIN f = Names /\ View(f) = View(d) BY <2>1 DEF View, Rest, Moves
  <2> QED BY <1>2, <2>2, SameView
<1>4. Base(f) BY <1>3 DEF Kept
<1> HIDE DEF f
<1>5. Kept(f, u) BY <1>4, SyncRepaintKeeps
<1>6. Kept(s, f) BY <1>1, <1>3, KeptOnward
<1>7. Kept(s, u) BY <1>5, <1>6, KeptOnward
<1> QED BY <1>7 DEF PostRemoved, d, f, u

LEMMA PostChangedKeeps ==
  ASSUME NEW s, NEW type, NEW p, NEW ver, Base(s)
  PROVE  Kept(s, PostChanged(s, type, p, ver))
<1> USE FieldNames
<1> DEFINE d == Detached(s, {p})
           read == p \in DOMAIN s.feed /\ s.feed[p].read
           merged == [ver |-> ver, read |-> read, commented |-> FALSE]
           f == [d EXCEPT !.seen = @ \cup {p},
                   !.feed = [q \in DOMAIN @ \cup {p} |-> IF q = p THEN merged ELSE @[q]]]
           u == RepaintUpdates(SyncBadges(f))
<1>1. Kept(s, d) BY DetachedKeeps
<1>2. Base(d) BY <1>1 DEF Kept
<1> HIDE DEF d, merged
<1>3. Kept(d, f)
  <2>1. DOMAIN d = Names BY <1>2 DEF Base, Loose, Shape
  <2>2. DOMAIN f = Names /\ View(f) = View(d) BY <2>1 DEF View, Rest, Moves
  <2> QED BY <1>2, <2>2, SameView
<1>4. Base(f) BY <1>3 DEF Kept
<1> HIDE DEF f
<1>5. Kept(f, u) BY <1>4, SyncRepaintKeeps
<1>6. Base(u) BY <1>5 DEF Kept
<1>7. Kept(s, u)
  <2>1. Kept(s, f) BY <1>1, <1>3, KeptOnward
  <2> QED BY <1>5, <2>1, KeptOnward
<1> HIDE DEF u
<1>8. Kept(u, ShowToast(u, p)) BY <1>6, ShowToastKeeps
<1>9. Kept(s, ShowToast(u, p)) BY <1>7, <1>8, KeptOnward
<1>10. PostChanged(s, type, p, ver)
       = IF type = "published" /\ p \notin s.seen /\ ~u.open THEN ShowToast(u, p) ELSE u
  BY DEF PostChanged, d, f, u, merged, read
<1> QED BY <1>7, <1>9, <1>10

LEMMA OpenDetailKeeps ==
  ASSUME NEW s, NEW p, NEW held, Base(s)
  PROVE  Kept(s, OpenDetail(s, p, held))
<1> USE FieldNames
<1> DEFINE first == ~held \/ ~s.feed[p].read
           u == IF held THEN [s EXCEPT !.feed[p].read = TRUE] ELSE s
           v == [u EXCEPT !.posts = @ \cup {Post(p, "read", held)}]
           r == IF first THEN SyncBadges(v) ELSE u
           form == IF held /\ u.feed[p].commented THEN "done" ELSE "ready"
           x == [r EXCEPT !.detail = [id |-> p, held |-> held], !.comment = form]
<1>0. DOMAIN s = Names BY DEF Base, Loose, Shape
<1>1. Kept(s, u)
  <2>1. DOMAIN u = Names /\ View(u) = View(s) BY <1>0 DEF View, Rest, Moves
  <2> QED BY <2>1, SameView
<1>2. Base(u) BY <1>1 DEF Kept
<1> HIDE DEF u, first
<1>3. DOMAIN u = Names BY <1>2 DEF Base, Loose, Shape
<1>4. Kept(u, v)
  <2>1. DOMAIN v = Names /\ View(v) = View(u) BY <1>3 DEF View, Rest, Moves
  <2> QED BY <1>2, <2>1, SameView
<1>5. Base(v) BY <1>4 DEF Kept
<1> HIDE DEF v
<1>6. Kept(u, r)
  <2>1. Kept(v, SyncBadges(v)) BY <1>5, SyncKeeps
  <2>2. Kept(u, SyncBadges(v)) BY <1>4, <2>1, KeptOnward
  <2>3. Kept(u, u) BY <1>2, <1>3, SameView
  <2> QED BY <2>2, <2>3
<1>7. Base(r) BY <1>6 DEF Kept
<1> HIDE DEF r, form
<1>8. Kept(r, x)
  <2>1. DOMAIN r = Names BY <1>7 DEF Base, Loose, Shape
  <2>2. DOMAIN x = Names /\ View(x) = View(r) BY <2>1 DEF View, Rest, Moves
  <2> QED BY <1>7, <2>2, SameView
<1>9. Base(x) BY <1>8 DEF Kept
<1> HIDE DEF x
<1>10. Kept(x, SwapView(x)) BY <1>9, ViewsKeep
<1>11. Kept(s, SwapView(x))
  <2>1. Kept(s, r) BY <1>1, <1>6, KeptOnward
  <2>2. Kept(s, x) BY <1>8, <2>1, KeptOnward
  <2> QED BY <1>10, <2>2, KeptOnward
<1>12. OpenDetail(s, p, held) = SwapView(x) BY DEF OpenDetail, first, u, v, r, form, x
<1> QED BY <1>11, <1>12

LEMMA CommentKeeps ==
  ASSUME NEW s, NEW r, NEW stored, Base(s)
  PROVE  Kept(s, SendComment(s)) /\ Kept(s, CommentAnswered(s, r, stored))
<1> USE FieldNames
<1>0. DOMAIN s = Names BY DEF Base, Loose, Shape
<1>1. DOMAIN SendComment(s) = Names /\ View(SendComment(s)) = View(s)
  BY <1>0 DEF SendComment, View, Rest, Moves
<1> DEFINE here == s.detail.id = r.of /\ s.comment = "sending"
           u == [s EXCEPT !.posts = @ \ {r},
                          !.comment = IF ~here THEN @ ELSE IF stored THEN "done" ELSE "ready"]
           v == [u EXCEPT !.feed[r.of].commented = TRUE]
<1> HIDE DEF here
<1>2. DOMAIN u = Names /\ View(u) = View(s) BY <1>0 DEF View, Rest, Moves
<1>3. DOMAIN v = Names /\ View(v) = View(s) BY <1>0 DEF View, Rest, Moves
<1> HIDE DEF u, v
<1>4. CommentAnswered(s, r, stored) = IF stored /\ r.held THEN v ELSE u
  BY DEF CommentAnswered, here, u, v
<1> QED BY <1>1, <1>2, <1>3, <1>4, SameView

------------------------------------------------------------------------------
(* Sources of news                                                         *)

\* scheduleNext() leaves a source: the socket or the timer.
LEMMA ScheduleNextSources ==
  ASSUME NEW s, Base(s)
  PROVE  LET t == ScheduleNext(s) IN
           /\ Base(t) /\ Sourced(t)
           /\ t.destroyed = s.destroyed /\ t.loads = s.loads /\ t.sections = s.sections
           /\ t.socket = s.socket /\ Unasking(s, t)
<1> USE FieldNames
<1>0. DOMAIN s = Names BY DEF Base, Loose, Shape
<1> DEFINE t == ScheduleNext(s)
<1>1. /\ DOMAIN t = Names /\ Moves(t) = Moves(s) /\ t.badge = s.badge
      /\ t.destroyed = s.destroyed /\ t.loads = s.loads /\ t.sections = s.sections
      /\ t.socket = s.socket /\ t.open = s.open /\ t.toast = s.toast /\ t.fading = s.fading
      /\ t.listCall = s.listCall /\ t.asked = s.asked
      /\ t.threadCall = s.threadCall /\ t.poll = s.poll /\ t.retryTimer = s.retryTimer
      /\ t.feedTimer = (s.socket # "open")
  BY <1>0 DEF ScheduleNext, Moves
<1> HIDE DEF t
<1>2. Shape(t) /\ Toasts(t) /\ Silent(t) /\ Unasking(s, t)
  BY <1>1 DEF Base, Loose, Shape, Toasts, Silent, Unasking
<1>3. /\ t.vp = s.vp /\ t.icon = s.icon /\ t.at = s.at /\ t.press = s.press
      /\ t.frame = s.frame /\ t.placed = s.placed
  BY <1>1 DEF Moves
<1>4. Launcher(t) BY <1>3 DEF Base, Loose, Launcher
<1>5. Room(t) = Room(s) BY <1>1, <1>3 DEF Room, Width
<1>6. Inside(t) BY <1>1, <1>3, <1>5 DEF Base, Inside
<1>7. Sourced(t) BY <1>1 DEF Sourced
<1>8. Base(t) BY <1>2, <1>4, <1>6 DEF Base, Loose
<1> QED BY <1>1, <1>2, <1>7, <1>8 DEF t

\* A change of the requests only, or of the socket.
LEMMA SameScreen ==
  ASSUME NEW s, NEW t, Base(s), DOMAIN t = Names, Moves(t) = Moves(s), t.badge = s.badge,
         t.open = s.open, t.toast = s.toast, t.fading = s.fading, t.destroyed = s.destroyed,
         Loads(t.loads), t.asked = s.asked, Silent(t)
  PROVE  Base(t)
<1>1. /\ t.vp = s.vp /\ t.icon = s.icon /\ t.at = s.at /\ t.press = s.press
      /\ t.frame = s.frame /\ t.placed = s.placed
  BY DEF Moves
<1>2. Launcher(t) BY <1>1 DEF Base, Loose, Launcher
<1>3. Room(t) = Room(s) BY <1>1 DEF Room, Width
<1>4. Inside(t) BY <1>1, <1>3 DEF Base, Inside
<1>5. Shape(t) /\ Toasts(t) BY DEF Base, Loose, Shape, Toasts
<1> QED BY <1>2, <1>4, <1>5 DEF Base, Loose

LEMMA LoadsGrow ==
  ASSUME NEW q, NEW x, Loads(q), DOMAIN x = LoadNames
  PROVE  /\ Loads(Append(q, x))
         /\ \A i \in DOMAIN q : i \in DOMAIN Append(q, x) /\ Append(q, x)[i] = q[i]
         /\ Len(q) + 1 \in DOMAIN Append(q, x) /\ Append(q, x)[Len(q) + 1] = x
<1>1. PICK S : q \in Seq(S) BY DEF Loads
<1> DEFINE T == S \cup {x}
<1>2. q \in Seq(T) BY <1>1
<1>3. Append(q, x) \in Seq(T) /\ Len(Append(q, x)) = Len(q) + 1 /\ Len(q) \in Nat
  BY <1>2
<1>4. /\ \A i \in 1..Len(q) : Append(q, x)[i] = q[i]
      /\ Append(q, x)[Len(q) + 1] = x
  BY <1>2
<1>5. DOMAIN q = 1..Len(q) /\ DOMAIN Append(q, x) = 1..Len(q) + 1 BY <1>2, <1>3
<1>6. \A i \in DOMAIN Append(q, x) : DOMAIN Append(q, x)[i] = LoadNames
  <2> TAKE i \in DOMAIN Append(q, x)
  <2>1. i \in 1..Len(q) \/ i = Len(q) + 1 BY <1>3, <1>5
  <2> QED BY <1>4, <1>5, <2>1 DEF Loads
<1> QED BY <1>3, <1>4, <1>5, <1>6 DEF Loads

\* A load leaves the sequence, the others stay.
LEMMA LoadsShrink ==
  ASSUME NEW q, Loads(q), NEW i \in DOMAIN q
  PROVE  LET t == SubSeq(q, 1, i - 1) \o SubSeq(q, i + 1, Len(q)) IN
           /\ Loads(t) /\ Len(t) <= Len(q)
           /\ \A j \in DOMAIN q \ {i} : \E k \in DOMAIN t : t[k] = q[j]
           /\ \A k \in DOMAIN t : \E j \in DOMAIN q : t[k] = q[j]
<1> DEFINE a == SubSeq(q, 1, i - 1)
           b == SubSeq(q, i + 1, Len(q))
           t == a \o b
<1>1. PICK S : q \in Seq(S) BY DEF Loads
<1>2. Len(q) \in Nat /\ DOMAIN q = 1..Len(q) /\ i \in 1..Len(q) BY <1>1
<1>3. a \in Seq(S) /\ Len(a) = i - 1 /\ \A k \in 1..i - 1 : a[k] = q[k]
  <2>1. \A k \in 1..i - 1 : q[k] \in S BY <1>1, <1>2
  <2>2. 1 \in Int /\ i - 1 \in Int BY <1>2
  <2>3. /\ SubSeq(q, 1, i - 1) \in Seq(S)
        /\ Len(SubSeq(q, 1, i - 1)) = IF 1 <= i - 1 THEN i - 1 - 1 + 1 ELSE 0
        /\ \A k \in 1..i - 1 - 1 + 1 : SubSeq(q, 1, i - 1)[k] = q[1 + k - 1]
    BY <2>1, <2>2, SubSeqProperties
  <2> QED BY <1>2, <2>3
<1>4. b \in Seq(S) /\ Len(b) = Len(q) - i /\ \A k \in 1..Len(q) - i : b[k] = q[i + k]
  <2>1. \A k \in i + 1..Len(q) : q[k] \in S BY <1>1, <1>2
  <2>2. i + 1 \in Int /\ Len(q) \in Int BY <1>2
  <2>3. /\ SubSeq(q, i + 1, Len(q)) \in Seq(S)
        /\ Len(SubSeq(q, i + 1, Len(q))) = IF i + 1 <= Len(q) THEN Len(q) - (i + 1) + 1 ELSE 0
        /\ \A k \in 1..Len(q) - (i + 1) + 1 : SubSeq(q, i + 1, Len(q))[k] = q[i + 1 + k - 1]
    BY <2>1, <2>2, SubSeqProperties
  <2>4. Len(q) - (i + 1) + 1 = Len(q) - i BY <1>2
  <2>5. Len(SubSeq(q, i + 1, Len(q))) = Len(q) - i BY <1>2, <2>3
  <2>6. ASSUME NEW k \in 1..Len(q) - i PROVE SubSeq(q, i + 1, Len(q))[k] = q[i + k]
    <3>1. SubSeq(q, i + 1, Len(q))[k] = q[i + 1 + k - 1] BY <2>3, <2>4
    <3>2. i + 1 + k - 1 = i + k BY <1>2
    <3> QED BY <3>1, <3>2
  <2> QED BY <2>3, <2>5, <2>6
<1> HIDE DEF a, b
<1>5. /\ t \in Seq(S) /\ Len(t) = Len(a) + Len(b)
      /\ \A k \in 1..Len(a) + Len(b) : t[k] = IF k <= Len(a) THEN a[k] ELSE b[k - Len(a)]
  BY <1>3, <1>4, ConcatProperties
<1> HIDE DEF t
<1>6. /\ Len(t) = Len(q) - 1 /\ DOMAIN t = 1..Len(q) - 1
      /\ \A k \in 1..Len(q) - 1 : t[k] = IF k < i THEN q[k] ELSE q[k + 1]
  <2>1. Len(t) = Len(q) - 1 /\ Len(a) + Len(b) = Len(q) - 1 BY <1>2, <1>3, <1>4, <1>5
  <2>2. DOMAIN t = 1..Len(q) - 1 BY <1>5, <2>1
  <2>3. ASSUME NEW k \in 1..Len(q) - 1 PROVE t[k] = IF k < i THEN q[k] ELSE q[k + 1]
    <3>1. t[k] = IF k <= Len(a) THEN a[k] ELSE b[k - Len(a)] BY <1>5, <2>1
    <3>2. CASE k < i
      <4>1. k <= Len(a) /\ k \in 1..i - 1 BY <1>2, <1>3, <3>2
      <4> QED BY <1>3, <3>1, <3>2, <4>1
    <3>3. CASE ~(k < i)
      <4>1. ~(k <= Len(a)) /\ k - Len(a) = k + 1 - i /\ k + 1 - i \in 1..Len(q) - i
        BY <1>2, <1>3, <3>3
      <4>2. i + (k + 1 - i) = k + 1 BY <1>2
      <4> QED BY <1>4, <3>1, <3>3, <4>1, <4>2
    <3> QED BY <3>2, <3>3
  <2> QED BY <2>1, <2>2, <2>3
<1>7. ASSUME NEW j \in DOMAIN q \ {i} PROVE \E k \in DOMAIN t : t[k] = q[j]
  <2>1. CASE j < i
    <3>1. j \in 1..Len(q) - 1 BY <1>2, <2>1
    <3> QED BY <1>6, <2>1, <3>1
  <2>2. CASE ~(j < i)
    <3>1. j - 1 \in 1..Len(q) - 1 /\ ~(j - 1 < i) /\ j - 1 + 1 = j BY <1>2, <2>2
    <3> QED BY <1>6, <3>1
  <2> QED BY <2>1, <2>2
<1>8. \A k \in DOMAIN t : DOMAIN t[k] = LoadNames
  <2> TAKE k \in DOMAIN t
  <2>1. k \in DOMAIN q /\ k + 1 \in DOMAIN q BY <1>2, <1>6
  <2> QED BY <1>6, <2>1 DEF Loads
<1>9. Len(t) <= Len(q) BY <1>2, <1>6
<1>10. \A k \in DOMAIN t : \E j \in DOMAIN q : t[k] = q[j]
  <2> TAKE k \in DOMAIN t
  <2>1. k \in DOMAIN q /\ k + 1 \in DOMAIN q BY <1>2, <1>6
  <2> QED BY <1>6, <2>1
<1> QED BY <1>5, <1>7, <1>8, <1>9, <1>10 DEF Loads, t, a, b

\* A load that will schedule the next is a source.
LEMMA LoadSources ==
  ASSUME NEW s, NEW initial, NEW then \in BOOLEAN, Base(s)
  PROVE  LET t == LoadAnnouncements(s, initial, then) IN
           /\ Base(t)
           /\ Sourced(s) \/ then => Sourced(t)
           /\ t.destroyed = s.destroyed /\ t.socket = s.socket /\ t.sections = s.sections
           /\ s.destroyed => t.loads = s.loads
           /\ Unasking(s, t)
<1> USE FieldNames
<1>0. DOMAIN s = Names BY DEF Base, Loose, Shape
<1> DEFINE x == [initial |-> initial, then |-> then, got |-> << >>]
           t == [s EXCEPT !.loads = Append(@, x)]
<1>1. CASE ~UpdatesOn(s)
  <2>1. LoadAnnouncements(s, initial, then) = s BY <1>1 DEF LoadAnnouncements
  <2>2. Sourced(s) BY <1>1 DEF Sourced
  <2> QED BY <2>1, <2>2 DEF Unasking
<1>2. CASE UpdatesOn(s) /\ s.destroyed
  <2>1. LoadAnnouncements(s, initial, then) = IF then THEN ScheduleNext(s) ELSE s
    BY <1>2 DEF LoadAnnouncements
  <2>2. Sourced(s) BY <1>2 DEF Sourced
  <2> QED BY <2>1, <2>2, ScheduleNextSources DEF Unasking
<1>3. CASE UpdatesOn(s) /\ ~s.destroyed
  <2>1. LoadAnnouncements(s, initial, then) = t BY <1>3 DEF LoadAnnouncements
  <2>2. /\ DOMAIN t = Names /\ Moves(t) = Moves(s) /\ t.badge = s.badge
        /\ t.destroyed = s.destroyed /\ t.sections = s.sections /\ t.feedTimer = s.feedTimer
        /\ t.socket = s.socket /\ t.open = s.open /\ t.toast = s.toast /\ t.fading = s.fading
        /\ t.asked = s.asked /\ t.listCall = s.listCall /\ t.loads = Append(s.loads, x)
    BY <1>0 DEF Moves
  <2>3. DOMAIN x = LoadNames /\ x.then = then BY DEF LoadNames
  <2> HIDE DEF t, x
  <2>4. Loads(s.loads) BY DEF Base, Loose, Shape
  <2>5. /\ Loads(t.loads)
        /\ \A i \in DOMAIN s.loads : i \in DOMAIN t.loads /\ t.loads[i] = s.loads[i]
        /\ Len(s.loads) + 1 \in DOMAIN t.loads /\ t.loads[Len(s.loads) + 1] = x
    BY <2>2, <2>3, <2>4, LoadsGrow
  <2>6. Silent(t) BY <1>3, <2>2 DEF Silent
  <2>7. Base(t) BY <2>2, <2>5, <2>6, SameScreen
  <2>8. Sourced(s) \/ then => Sourced(t)
    BY <2>2, <2>3, <2>5 DEF Sourced, UpdatesOn
  <2>9. Unasking(s, t) BY <2>2 DEF Unasking
  <2> QED BY <1>3, <2>1, <2>2, <2>7, <2>8, <2>9
<1> QED BY <1>1, <1>2, <1>3

LEMMA LoadMoves ==
  ASSUME NEW s, NEW initial, NEW then \in BOOLEAN, Base(s)
  PROVE  Moved(s, LoadAnnouncements(s, initial, then))
<1>1. PICK S : s.loads \in Seq(S) BY DEF Base, Loose, Shape, Loads
<1>2. Len(s.loads) <= Len(s.loads)
  <2>1. Len(s.loads) \in Nat BY <1>1
  <2> QED BY <2>1
<1> QED BY <1>2, LoadSources DEF Moved

\* The end of a load, which schedules the next one if its caller asked for it.
LEMMA LoadDoneMoves ==
  ASSUME NEW s, Base(s), NEW i \in DOMAIN s.loads
  PROVE  Moved(s, LoadDone(s, i))
<1> USE FieldNames
<1>0. DOMAIN s = Names BY DEF Base, Loose, Shape
<1> DEFINE u == [s EXCEPT !.loads = SubSeq(@, 1, i - 1) \o SubSeq(@, i + 1, Len(@))]
<1>1. /\ DOMAIN u = Names /\ Moves(u) = Moves(s) /\ u.badge = s.badge
      /\ u.destroyed = s.destroyed /\ u.sections = s.sections /\ u.feedTimer = s.feedTimer
      /\ u.socket = s.socket /\ u.open = s.open /\ u.toast = s.toast /\ u.fading = s.fading
      /\ u.asked = s.asked /\ u.listCall = s.listCall
      /\ u.threadCall = s.threadCall /\ u.poll = s.poll /\ u.retryTimer = s.retryTimer
      /\ u.loads = SubSeq(s.loads, 1, i - 1) \o SubSeq(s.loads, i + 1, Len(s.loads))
  BY <1>0 DEF Moves
<1>2. LoadDone(s, i) = IF s.loads[i].then THEN ScheduleNext(u) ELSE u BY DEF LoadDone
<1> HIDE DEF u
<1>3. Loads(s.loads) BY DEF Base, Loose, Shape
<1>4. /\ Loads(u.loads) /\ Len(u.loads) <= Len(s.loads)
      /\ \A j \in DOMAIN s.loads \ {i} : \E k \in DOMAIN u.loads : u.loads[k] = s.loads[j]
  <2> DEFINE q == s.loads
             t == SubSeq(q, 1, i - 1) \o SubSeq(q, i + 1, Len(q))
  <2>1. /\ Loads(t) /\ Len(t) <= Len(q)
        /\ \A j \in DOMAIN q \ {i} : \E k \in DOMAIN t : t[k] = q[j]
    BY <1>3, LoadsShrink
  <2>2. u.loads = t BY <1>1
  <2> HIDE DEF t
  <2> QED BY <2>1, <2>2
<1>5. Silent(u) BY <1>1 DEF Base, Loose, Silent
<1>6. Base(u) BY <1>1, <1>4, <1>5, SameScreen
<1>7. CASE s.loads[i].then
  <2> DEFINE t == ScheduleNext(u)
  <2>1. /\ Base(t) /\ Sourced(t) /\ t.destroyed = u.destroyed /\ t.sections = u.sections
        /\ t.loads = u.loads /\ Unasking(u, t)
    BY <1>6, ScheduleNextSources
  <2> HIDE DEF t
  <2>2. Unasking(s, t) BY <1>1, <2>1 DEF Unasking
  <2>3. Moved(s, t) BY <1>1, <1>4, <2>1, <2>2 DEF Moved
  <2> QED BY <1>2, <1>7, <2>3 DEF t
<1>8. CASE ~s.loads[i].then
  <2>1. Sourced(s) => Sourced(u)
    <3>1. SUFFICES ASSUME Sourced(s), ~s.destroyed, UpdatesOn(s), s.socket # "open", ~s.feedTimer
                   PROVE  \E k \in DOMAIN u.loads : u.loads[k].then
      BY <1>1 DEF Sourced, UpdatesOn
    <3>2. PICK j \in DOMAIN s.loads : s.loads[j].then BY <3>1 DEF Sourced
    <3>3. j \in DOMAIN s.loads \ {i} BY <1>8, <3>2
    <3> QED BY <1>4, <3>2, <3>3
  <2>2. Unasking(s, u) BY <1>1 DEF Unasking
  <2>3. Moved(s, u) BY <1>1, <1>4, <1>6, <2>1, <2>2 DEF Moved
  <2> QED BY <1>2, <1>8, <2>3
<1> QED BY <1>7, <1>8

------------------------------------------------------------------------------
(* The tickets                                                             *)

\* A change of the requests for tickets: the screen stays.
LEMMA Requested ==
  ASSUME NEW s, NEW t, Base(s), DOMAIN t = Names, Moves(t) = Moves(s), t.badge = s.badge,
         t.open = s.open, t.toast = s.toast, t.fading = s.fading, SameSource(s, t),
         DOMAIN t.asked = TicketIds, Silent(t), Unasking(s, t)
  PROVE  Kept(s, t)
<1>1. Shape(t) /\ Toasts(t) BY DEF Base, Loose, Shape, Toasts, SameSource
<1> QED BY <1>1, SamePanel

LEMMA RepaintTicketsKeeps ==
  ASSUME NEW s, Base(s)
  PROVE  Kept(s, RepaintTickets(s))
<1>1. Kept(s, s) BY SameView DEF Base, Loose, Shape
<1> QED BY <1>1, ViewsKeep DEF RepaintTickets

LEMMA MarkReadKeeps ==
  ASSUME NEW s, NEW n, NEW sum, Base(s)
  PROVE  Kept(s, MarkTicketRead(s, n, sum))
<1> USE FieldNames
<1>0. DOMAIN s = Names BY DEF Base, Loose, Shape
<1> DEFINE u == [s EXCEPT !.markers[n] = sum.count]
<1>1. Kept(s, s) BY <1>0, SameView
<1>2. Kept(s, u)
  <2>1. DOMAIN u = Names /\ View(u) = View(s) BY <1>0 DEF View, Rest, Moves
  <2> QED BY <2>1, SameView
<1>3. Base(u) BY <1>2 DEF Kept
<1> HIDE DEF u
<1>4. Kept(u, SyncBadges(u)) BY <1>3, SyncKeeps
<1>5. Kept(s, SyncBadges(u)) BY <1>2, <1>4, KeptOnward
<1> QED BY <1>1, <1>5 DEF MarkTicketRead, u

LEMMA RememberKeeps ==
  ASSUME NEW s, NEW th, Base(s)
  PROVE  Kept(s, RememberThread(s, th))
<1> USE FieldNames
<1>0. DOMAIN s = Names BY DEF Base, Loose, Shape
<1>1. DOMAIN RememberThread(s, th) = Names /\ View(RememberThread(s, th)) = View(s)
  BY <1>0 DEF RememberThread, View, Rest, Moves
<1> QED BY <1>1, SameView

LEMMA SchedulePollKeeps ==
  ASSUME NEW s, Base(s)
  PROVE  Kept(s, SchedulePoll(s))
<1> USE FieldNames
<1>0. DOMAIN s = Names BY DEF Base, Loose, Shape
<1> DEFINE t == SchedulePoll(s)
<1>1. /\ DOMAIN t = Names /\ Moves(t) = Moves(s) /\ t.badge = s.badge
      /\ t.open = s.open /\ t.toast = s.toast /\ t.fading = s.fading /\ SameSource(s, t)
      /\ t.asked = s.asked /\ t.listCall = s.listCall
      /\ t.threadCall = s.threadCall /\ t.retryTimer = s.retryTimer
      /\ t.poll => ~s.destroyed
  BY <1>0 DEF SchedulePoll, Moves, SameSource
<1> HIDE DEF t
<1>2. DOMAIN t.asked = TicketIds /\ Silent(t) /\ Unasking(s, t)
  BY <1>1 DEF Base, Loose, Shape, Silent, Unasking, SameSource
<1>3. Kept(s, t) BY <1>1, <1>2, Requested
<1> QED BY <1>3 DEF t

\* A conversation is asked for, or no longer.
LEMMA ThreadCalled ==
  ASSUME NEW s, NEW t, Base(s), DOMAIN t = Names, Moves(t) = Moves(s), t.badge = s.badge,
         t.open = s.open, t.toast = s.toast, t.fading = s.fading, SameSource(s, t),
         t.asked = s.asked, t.listCall = s.listCall, t.poll = s.poll,
         t.retryTimer = s.retryTimer, s.destroyed => t.threadCall = NoCall
  PROVE  Kept(s, t)
<1>1. DOMAIN t.asked = TicketIds /\ Silent(t) /\ Unasking(s, t)
  BY DEF Base, Loose, Shape, Silent, Unasking, SameSource
<1> QED BY <1>1, Requested

LEMMA LoadThreadKeeps ==
  ASSUME NEW s, NEW n, NEW render, Base(s)
  PROVE  Kept(s, LoadThread(s, n, render))
<1> USE FieldNames
<1>0. DOMAIN s = Names BY DEF Base, Loose, Shape
<1> DEFINE call == [id |-> n, attempt |-> 1, got |-> << >>]
           u == [s EXCEPT !.threadCall = call, !.loading = TRUE, !.error = ""]
<1>1. Kept(s, s) BY <1>0, SameView
<1>2. CASE s.destroyed \/ (~render /\ s.threadCall.id = n) BY <1>1, <1>2 DEF LoadThread
<1>3. CASE ~(s.destroyed \/ (~render /\ s.threadCall.id = n))
  <2>1. /\ DOMAIN u = Names /\ Moves(u) = Moves(s) /\ u.badge = s.badge
        /\ u.open = s.open /\ u.toast = s.toast /\ u.fading = s.fading /\ SameSource(s, u)
        /\ u.asked = s.asked /\ u.listCall = s.listCall /\ u.poll = s.poll
        /\ u.retryTimer = s.retryTimer
    BY <1>0 DEF Moves, SameSource
  <2>2. LoadThread(s, n, render) = IF render THEN RepaintTickets(u) ELSE u
    BY <1>3 DEF LoadThread
  <2> HIDE DEF u
  <2>3. Kept(s, u) BY <1>3, <2>1, ThreadCalled
  <2>4. Base(u) BY <2>3 DEF Kept
  <2>5. Kept(u, RepaintTickets(u)) BY <2>4, RepaintTicketsKeeps
  <2>6. Kept(s, RepaintTickets(u)) BY <2>3, <2>5, KeptOnward
  <2> QED BY <2>2, <2>3, <2>6
<1> QED BY <1>2, <1>3

LEMMA ThreadLoadedKeeps ==
  ASSUME NEW s, Base(s)
  PROVE  Kept(s, ThreadLoaded(s))
<1> USE FieldNames
<1>0. DOMAIN s = Names BY DEF Base, Loose, Shape
<1> DEFINE th == s.threadCall.got[1]
           v == [s EXCEPT !.threadCall = NoCall, !.loadingTimer = None,
                          !.loading = FALSE, !.error = ""]
           u == RememberThread(v, th)
           r == IF OnScreen(u, th.id) THEN MarkTicketRead(u, th.id, th.sum) ELSE u
<1>1. Kept(s, v)
  <2>1. /\ DOMAIN v = Names /\ Moves(v) = Moves(s) /\ v.badge = s.badge
        /\ v.open = s.open /\ v.toast = s.toast /\ v.fading = s.fading /\ SameSource(s, v)
        /\ v.asked = s.asked /\ v.listCall = s.listCall /\ v.poll = s.poll
        /\ v.retryTimer = s.retryTimer /\ v.threadCall = NoCall
    BY <1>0 DEF Moves, SameSource
  <2> HIDE DEF v
  <2> QED BY <2>1, ThreadCalled
<1>2. Base(v) BY <1>1 DEF Kept
<1> HIDE DEF v, th
<1>3. Kept(v, u) BY <1>2, RememberKeeps
<1>4. Base(u) BY <1>3 DEF Kept
<1> HIDE DEF u
<1>5. Kept(u, u) BY <1>4, SameView DEF Base, Loose, Shape
<1>6. Kept(u, r) BY <1>4, <1>5, MarkReadKeeps
<1>7. Base(r) BY <1>6 DEF Kept
<1> HIDE DEF r
<1>8. Kept(s, r)
  <2>1. Kept(s, u) BY <1>1, <1>3, KeptOnward
  <2> QED BY <1>6, <2>1, KeptOnward
<1>9. Kept(r, RepaintTickets(r)) BY <1>7, RepaintTicketsKeeps
<1>10. Kept(s, RepaintTickets(r)) BY <1>8, <1>9, KeptOnward
<1>11. ThreadLoaded(s) = IF Viewing(r, th.id) THEN RepaintTickets(r) ELSE r
  BY DEF ThreadLoaded, th, v, u, r
<1> QED BY <1>8, <1>10, <1>11

LEMMA ThreadFailedKeeps ==
  ASSUME NEW s, NEW unavailable \in BOOLEAN, Base(s), ~s.destroyed
  PROVE  Kept(s, ThreadFailed(s, unavailable))
<1> USE FieldNames
<1>0. DOMAIN s = Names BY DEF Base, Loose, Shape
<1> DEFINE call == s.threadCall
           next == [call EXCEPT !.attempt = @ + 1, !.got = << >>]
           a == [s EXCEPT !.threadCall = next]
           e == [s EXCEPT !.threadCall = NoCall, !.loadingTimer = None, !.loading = FALSE,
                          !.error = IF unavailable THEN "unavailable" ELSE "failed"]
           g == IF unavailable
                THEN [e EXCEPT !.cache[call.id] = NoThread, !.thread = NoThread] ELSE e
<1> HIDE DEF call, next
<1>1. Kept(s, a)
  <2>1. /\ DOMAIN a = Names /\ Moves(a) = Moves(s) /\ a.badge = s.badge
        /\ a.open = s.open /\ a.toast = s.toast /\ a.fading = s.fading /\ SameSource(s, a)
        /\ a.asked = s.asked /\ a.listCall = s.listCall /\ a.poll = s.poll
        /\ a.retryTimer = s.retryTimer
    BY <1>0 DEF Moves, SameSource
  <2> HIDE DEF a
  <2> QED BY <2>1, ThreadCalled
<1> HIDE DEF a
<1>2. Kept(s, e)
  <2>1. /\ DOMAIN e = Names /\ Moves(e) = Moves(s) /\ e.badge = s.badge
        /\ e.open = s.open /\ e.toast = s.toast /\ e.fading = s.fading /\ SameSource(s, e)
        /\ e.asked = s.asked /\ e.listCall = s.listCall /\ e.poll = s.poll
        /\ e.retryTimer = s.retryTimer
    BY <1>0 DEF Moves, SameSource
  <2> HIDE DEF e
  <2> QED BY <2>1, ThreadCalled
<1>3. Base(e) BY <1>2 DEF Kept
<1> HIDE DEF e
<1>4. Kept(e, g)
  <2>0. DOMAIN e = Names BY <1>3 DEF Base, Loose, Shape
  <2>1. DOMAIN g = Names /\ View(g) = View(e) BY <2>0 DEF View, Rest, Moves
  <2> QED BY <1>3, <2>1, SameView
<1>5. Base(g) BY <1>4 DEF Kept
<1> HIDE DEF g
<1>6. Kept(g, RepaintTickets(g)) BY <1>5, RepaintTicketsKeeps
<1>7. Kept(s, RepaintTickets(g))
  <2>1. Kept(s, g) BY <1>2, <1>4, KeptOnward
  <2> QED BY <1>6, <2>1, KeptOnward
<1>8. ThreadFailed(s, unavailable) = IF call.attempt < ATTEMPTS THEN a ELSE RepaintTickets(g)
  BY DEF ThreadFailed, call, next, a, e, g
<1> QED BY <1>1, <1>7, <1>8

LEMMA OpenThreadKeeps ==
  ASSUME NEW s, NEW n, Base(s)
  PROVE  Kept(s, OpenThread(s, n))
<1> USE FieldNames
<1> DEFINE known == n \in DOMAIN s.tickets
           m == IF known THEN MarkTicketRead(s, n, s.tickets[n]) ELSE s
           v == [m EXCEPT !.view = [kind |-> "thread", id |-> n], !.thread = m.cache[n],
                          !.error = "", !.loading = TRUE, !.loadingTimer = None]
           l == [v EXCEPT !.loadingTimer = n]
           th == [v.thread EXCEPT !.sum = v.tickets[n]]
           k == IF known THEN RememberThread(v, th) ELSE v
           c == IF v.thread = NoThread THEN l ELSE SwapView(k)
<1>0. Kept(s, s) BY SameView DEF Base, Loose, Shape
<1>1. Kept(s, m) BY <1>0, MarkReadKeeps
<1>2. Base(m) BY <1>1 DEF Kept
<1> HIDE DEF m, known
<1>3. Kept(m, v)
  <2>0. DOMAIN m = Names BY <1>2 DEF Base, Loose, Shape
  <2>1. DOMAIN v = Names /\ View(v) = View(m) BY <2>0 DEF View, Rest, Moves
  <2> QED BY <1>2, <2>1, SameView
<1>4. Base(v) BY <1>3 DEF Kept
<1> HIDE DEF v, th
<1>5. DOMAIN v = Names BY <1>4 DEF Base, Loose, Shape
<1>6. Kept(v, l)
  <2>1. DOMAIN l = Names /\ View(l) = View(v) BY <1>5 DEF View, Rest, Moves
  <2> QED BY <1>4, <2>1, SameView
<1>7. Kept(v, k)
  <2>1. Kept(v, v) BY <1>4, <1>5, SameView
  <2> QED BY <1>4, <2>1, RememberKeeps
<1>8. Base(k) BY <1>7 DEF Kept
<1> HIDE DEF l, k
<1>9. Kept(v, c)
  <2>1. Kept(k, SwapView(k)) BY <1>8, ViewsKeep
  <2>2. Kept(v, SwapView(k)) BY <1>7, <2>1, KeptOnward
  <2> QED BY <1>6, <2>2
<1>10. Base(c) BY <1>9 DEF Kept
<1> HIDE DEF c
<1>11. Kept(c, LoadThread(c, n, FALSE)) BY <1>10, LoadThreadKeeps
<1>12. Kept(s, LoadThread(c, n, FALSE))
  <2>1. Kept(s, v) BY <1>1, <1>3, KeptOnward
  <2>2. Kept(s, c) BY <1>9, <2>1, KeptOnward
  <2> QED BY <1>11, <2>2, KeptOnward
<1>13. OpenThread(s, n) = LoadThread(c, n, FALSE) BY DEF OpenThread, known, m, v, l, th, k, c
<1> QED BY <1>12, <1>13

LEMMA ShowLoaderKeeps ==
  ASSUME NEW s, Base(s)
  PROVE  Kept(s, ShowLoader(s))
<1> USE FieldNames
<1>0. DOMAIN s = Names BY DEF Base, Loose, Shape
<1> DEFINE u == [s EXCEPT !.loadingTimer = None]
<1>1. Kept(s, u)
  <2>1. DOMAIN u = Names /\ View(u) = View(s) BY <1>0 DEF View, Rest, Moves
  <2> QED BY <2>1, SameView
<1>2. Base(u) BY <1>1 DEF Kept
<1> HIDE DEF u
<1>3. Kept(u, SwapView(u)) BY <1>2, ViewsKeep
<1>4. Kept(s, SwapView(u)) BY <1>1, <1>3, KeptOnward
<1> QED BY <1>1, <1>4 DEF ShowLoader, u

\* The visitor leaves a conversation, or begins or leaves a new ticket.
LEMMA PagesKeep ==
  ASSUME NEW s, Base(s), ~s.destroyed
  PROVE  Kept(s, BackToTickets(s)) /\ Kept(s, StartTicket(s)) /\ Kept(s, BackFromNew(s))
<1> USE FieldNames
<1>0. DOMAIN s = Names BY DEF Base, Loose, Shape
<1> DEFINE b == [s EXCEPT !.loadingTimer = None, !.threadCall = NoCall, !.loading = FALSE,
                     !.view = [kind |-> "list", id |-> None], !.thread = NoThread, !.error = ""]
           n == [s EXCEPT !.error = "", !.view = [kind |-> "new", id |-> None]]
           l == [s EXCEPT !.error = "", !.view = [kind |-> "list", id |-> None]]
<1>1. Kept(s, b)
  <2>1. /\ DOMAIN b = Names /\ Moves(b) = Moves(s) /\ b.badge = s.badge
        /\ b.open = s.open /\ b.toast = s.toast /\ b.fading = s.fading /\ SameSource(s, b)
        /\ b.asked = s.asked /\ b.listCall = s.listCall /\ b.poll = s.poll
        /\ b.retryTimer = s.retryTimer
    BY <1>0 DEF Moves, SameSource
  <2> HIDE DEF b
  <2> QED BY <2>1, ThreadCalled
<1>2. Kept(s, n)
  <2>1. DOMAIN n = Names /\ View(n) = View(s) BY <1>0 DEF View, Rest, Moves
  <2> QED BY <2>1, SameView
<1>3. Kept(s, l)
  <2>1. DOMAIN l = Names /\ View(l) = View(s) BY <1>0 DEF View, Rest, Moves
  <2> QED BY <2>1, SameView
<1>4. Base(b) /\ Base(n) /\ Base(l) BY <1>1, <1>2, <1>3 DEF Kept
<1> HIDE DEF b, n, l
<1>5. Kept(b, SwapView(b)) /\ Kept(n, SwapView(n)) /\ Kept(l, SwapView(l)) BY <1>4, ViewsKeep
<1>6. Kept(s, SwapView(b)) BY <1>1, <1>5, KeptOnward
<1>7. Kept(s, SwapView(n)) BY <1>2, <1>5, KeptOnward
<1>8. Kept(s, SwapView(l)) BY <1>3, <1>5, KeptOnward
<1> QED BY <1>6, <1>7, <1>8 DEF BackToTickets, StartTicket, BackFromNew, b, n, l

\* A preview is asked for, or no longer.
LEMMA AskedKeeps ==
  ASSUME NEW s, NEW n, NEW x, Base(s), s.destroyed /\ x.sent => s.asked[n].sent
  PROVE  Kept(s, [s EXCEPT !.asked[n] = x])
<1> USE FieldNames
<1>0. DOMAIN s = Names BY DEF Base, Loose, Shape
<1> DEFINE t == [s EXCEPT !.asked[n] = x]
<1>1. /\ DOMAIN t = Names /\ Moves(t) = Moves(s) /\ t.badge = s.badge
      /\ t.open = s.open /\ t.toast = s.toast /\ t.fading = s.fading /\ SameSource(s, t)
      /\ t.listCall = s.listCall /\ t.poll = s.poll
      /\ t.retryTimer = s.retryTimer /\ t.threadCall = s.threadCall
      /\ t.asked = [s.asked EXCEPT ![n] = x]
  BY <1>0 DEF Moves, SameSource
<1> HIDE DEF t
<1>2. DOMAIN s.asked = TicketIds BY DEF Base, Loose, Shape
<1>3. DOMAIN t.asked = TicketIds BY <1>1, <1>2
<1>4. \A k \in TicketIds : t.asked[k] = IF k = n THEN x ELSE s.asked[k] BY <1>1, <1>2
<1>5. Silent(t) BY <1>1 DEF Base, Loose, Silent, SameSource
<1>6. Unasking(s, t) BY <1>1, <1>4 DEF Unasking
<1>7. Kept(s, t) BY <1>1, <1>3, <1>5, <1>6, Requested
<1> QED BY <1>7 DEF t

LEMMA LoadNotificationKeeps ==
  ASSUME NEW s, NEW n, Base(s)
  PROVE  Kept(s, LoadNotification(s, n))
<1>1. Kept(s, s) BY SameView DEF Base, Loose, Shape
<1>2. ~s.destroyed => Kept(s, [s EXCEPT !.asked[n] = Asked]) BY AskedKeeps
<1> QED BY <1>1, <1>2 DEF LoadNotification

LEMMA NotificationKeeps ==
  ASSUME NEW s, NEW n, Base(s)
  PROVE  Kept(s, NotificationLoaded(s, n)) /\ Kept(s, NotificationFailed(s, n))
<1> USE FieldNames
<1> DEFINE th == s.asked[n].got[1]
           u == [s EXCEPT !.asked[n] = Unasked]
           c == [u EXCEPT !.cache[n] = th]
           x == [c EXCEPT !.toasted[n] = th.sum.count]
<1>0. ~Unasked.sent BY DEF Unasked
<1>1. Kept(s, u) BY <1>0, AskedKeeps
<1>2. Base(u) BY <1>1 DEF Kept
<1>3. NotificationFailed(s, n) = u BY DEF NotificationFailed
<1> HIDE DEF u, th
<1>4. Kept(u, c)
  <2>0. DOMAIN u = Names BY <1>2 DEF Base, Loose, Shape
  <2>1. DOMAIN c = Names /\ View(c) = View(u) BY <2>0 DEF View, Rest, Moves
  <2> QED BY <1>2, <2>1, SameView
<1>5. Base(c) BY <1>4 DEF Kept
<1> HIDE DEF c
<1>6. Kept(c, x)
  <2>0. DOMAIN c = Names BY <1>5 DEF Base, Loose, Shape
  <2>1. DOMAIN x = Names /\ View(x) = View(c) BY <2>0 DEF View, Rest, Moves
  <2> QED BY <1>5, <2>1, SameView
<1>7. Base(x) BY <1>6 DEF Kept
<1> HIDE DEF x
<1>8. Kept(x, ShowPreviewToast(x, << "ticket", n >>)) BY <1>7, ToastKeeps
<1>9. Kept(s, c) BY <1>1, <1>4, KeptOnward
<1>10. Kept(s, ShowPreviewToast(x, << "ticket", n >>))
  <2>1. Kept(s, x) BY <1>6, <1>9, KeptOnward
  <2> QED BY <1>8, <2>1, KeptOnward
<1>11. \/ NotificationLoaded(s, n) = u \/ NotificationLoaded(s, n) = c
       \/ NotificationLoaded(s, n) = ShowPreviewToast(x, << "ticket", n >>)
  BY DEF NotificationLoaded, th, u, c, x
<1> QED BY <1>1, <1>3, <1>9, <1>10, <1>11

\* The list is asked for, or no longer.
LEMMA ListCalled ==
  ASSUME NEW s, NEW t, Base(s), DOMAIN t = Names, Moves(t) = Moves(s), t.badge = s.badge,
         t.open = s.open, t.toast = s.toast, t.fading = s.fading, SameSource(s, t),
         t.asked = s.asked, t.poll => s.poll, t.retryTimer = s.retryTimer,
         t.threadCall = s.threadCall, s.destroyed => (t.listCall.sent => s.listCall.sent)
  PROVE  Kept(s, t)
<1>1. DOMAIN t.asked = TicketIds /\ Silent(t) /\ Unasking(s, t)
  BY DEF Base, Loose, Shape, Silent, Unasking, SameSource
<1> QED BY <1>1, Requested

LEMMA LoadTicketsKeeps ==
  ASSUME NEW s, Base(s)
  PROVE  Kept(s, LoadTickets(s))
<1> USE FieldNames
<1>0. DOMAIN s = Names BY DEF Base, Loose, Shape
<1>1. Kept(s, s) BY <1>0, SameView
<1> DEFINE t == [s EXCEPT !.listCall = Asked]
<1>2. /\ DOMAIN t = Names /\ Moves(t) = Moves(s) /\ t.badge = s.badge
      /\ t.open = s.open /\ t.toast = s.toast /\ t.fading = s.fading /\ SameSource(s, t)
      /\ t.asked = s.asked /\ t.poll = s.poll
      /\ t.retryTimer = s.retryTimer /\ t.threadCall = s.threadCall
  BY <1>0 DEF Moves, SameSource
<1> HIDE DEF t
<1>3. ~s.destroyed => Kept(s, t) BY <1>2, ListCalled
<1> QED BY <1>1, <1>3 DEF LoadTickets, t

LEMMA TicketsFailKeep ==
  ASSUME NEW s, Base(s)
  PROVE  /\ Kept(s, TicketsRefused(s)) /\ Kept(s, TicketsFailed(s))
         /\ Kept(s, [s EXCEPT !.listCall = Unasked])
<1> USE FieldNames
<1>0. DOMAIN s = Names BY DEF Base, Loose, Shape
<1> DEFINE t == [s EXCEPT !.listCall = Unasked]
           u == [s EXCEPT !.listCall = Unasked, !.retry = TRUE]
<1>1. /\ DOMAIN t = Names /\ Moves(t) = Moves(s) /\ t.badge = s.badge
      /\ t.open = s.open /\ t.toast = s.toast /\ t.fading = s.fading /\ SameSource(s, t)
      /\ t.asked = s.asked /\ t.poll = s.poll /\ ~t.listCall.sent
      /\ t.retryTimer = s.retryTimer /\ t.threadCall = s.threadCall
  BY <1>0 DEF Moves, SameSource, Unasked
<1>2. /\ DOMAIN u = Names /\ Moves(u) = Moves(s) /\ u.badge = s.badge
      /\ u.open = s.open /\ u.toast = s.toast /\ u.fading = s.fading /\ SameSource(s, u)
      /\ u.asked = s.asked /\ u.poll = s.poll /\ ~u.listCall.sent
      /\ u.retryTimer = s.retryTimer /\ u.threadCall = s.threadCall
  BY <1>0 DEF Moves, SameSource, Unasked
<1>3. TicketsFailed(s) = t /\ TicketsRefused(s) = SchedulePoll(u)
  BY DEF TicketsFailed, TicketsRefused
<1> HIDE DEF t, u
<1>4. Kept(s, t) /\ Kept(s, u) BY <1>1, <1>2, ListCalled
<1>5. Base(u) BY <1>4 DEF Kept
<1>6. Kept(u, SchedulePoll(u)) BY <1>5, SchedulePollKeeps
<1>7. Kept(s, SchedulePoll(u)) BY <1>4, <1>6, KeptOnward
<1> QED BY <1>3, <1>4, <1>7 DEF t

LEMMA TicketsLoadedKeeps ==
  ASSUME NEW s, Base(s)
  PROVE  Kept(s, TicketsLoaded(s))
<1> USE FieldNames
<1>0. DOMAIN s = Names BY DEF Base, Loose, Shape
<1> DEFINE next == s.listCall.got[1]
           kept == KeepCached(s, next)
           live == \E t \in DOMAIN next : IsLive(next[t])
           o == [s EXCEPT !.listCall = Unasked, !.retry = FALSE, !.tickets = next,
                   !.cache = kept, !.fetched = TRUE, !.live = live]
           u == SyncBadges(o)
           v == CASE Refreshes(u)        -> LoadThread(u, u.view.id, FALSE)
                  [] u.view.kind = "list" -> RepaintTickets(u)
                  [] OTHER                -> u
           news == {t \in UnreadTickets(v) : v.toasted[t] # v.tickets[t].count}
           new == CHOOSE t \in news : \A q \in news : t >= q
           n == IF v.open \/ news = {} THEN v ELSE LoadNotification(v, new)
<1> HIDE DEF next, kept, live
<1>1. Kept(s, o)
  <2>1. /\ DOMAIN o = Names /\ Moves(o) = Moves(s) /\ o.badge = s.badge
        /\ o.open = s.open /\ o.toast = s.toast /\ o.fading = s.fading /\ SameSource(s, o)
        /\ o.asked = s.asked /\ o.poll = s.poll /\ ~o.listCall.sent
        /\ o.retryTimer = s.retryTimer /\ o.threadCall = s.threadCall
    BY <1>0 DEF Moves, SameSource, Unasked
  <2> HIDE DEF o
  <2> QED BY <2>1, ListCalled
<1>2. Base(o) BY <1>1 DEF Kept
<1> HIDE DEF o
<1>3. Kept(o, u) BY <1>2, SyncKeeps
<1>4. Base(u) BY <1>3 DEF Kept
<1> HIDE DEF u
<1>5. Kept(u, v)
  <2>1. Kept(u, u) BY <1>4, SameView DEF Base, Loose, Shape
  <2>2. Kept(u, LoadThread(u, u.view.id, FALSE)) BY <1>4, LoadThreadKeeps
  <2>3. Kept(u, RepaintTickets(u)) BY <1>4, RepaintTicketsKeeps
  <2>4. v = LoadThread(u, u.view.id, FALSE) \/ v = RepaintTickets(u) \/ v = u
    <3> DEFINE x == LoadThread(u, u.view.id, FALSE)
               y == RepaintTickets(u)
    <3>1. CASE Refreshes(u)
      <4>1. u.view.kind # "list" BY <3>1 DEF Refreshes
      <4> HIDE DEF x, y
      <4>2. (CASE Refreshes(u) -> x [] u.view.kind = "list" -> y [] OTHER -> u) = x
        BY <3>1, <4>1
      <4> QED BY <4>2 DEF x, y
    <3>2. CASE ~Refreshes(u)
      <4> HIDE DEF x, y
      <4>1. LET z == CASE Refreshes(u) -> x [] u.view.kind = "list" -> y [] OTHER -> u
            IN z = y \/ z = u
        BY <3>2
      <4> QED BY <4>1 DEF x, y
    <3> QED BY <3>1, <3>2
  <2> HIDE DEF v
  <2> QED BY <2>1, <2>2, <2>3, <2>4
<1>6. Base(v) BY <1>5 DEF Kept
<1> HIDE DEF v, news, new
<1>7. Kept(v, n)
  <2>1. Kept(v, v) BY <1>6, SameView DEF Base, Loose, Shape
  <2>2. Kept(v, LoadNotification(v, new)) BY <1>6, LoadNotificationKeeps
  <2> QED BY <2>1, <2>2
<1>8. Base(n) BY <1>7 DEF Kept
<1> HIDE DEF n
<1>9. Kept(n, SchedulePoll(n)) BY <1>8, SchedulePollKeeps
<1>10. Kept(s, SchedulePoll(n))
  <2>1. Kept(s, u) BY <1>1, <1>3, KeptOnward
  <2>2. Kept(s, v) BY <1>5, <2>1, KeptOnward
  <2>3. Kept(s, n) BY <1>7, <2>2, KeptOnward
  <2> QED BY <1>9, <2>3, KeptOnward
<1>11. Kept(s, [s EXCEPT !.listCall = Unasked]) BY TicketsFailKeep
<1>12. TicketsLoaded(s)
       = IF s.destroyed THEN [s EXCEPT !.listCall = Unasked] ELSE SchedulePoll(n)
  BY DEF TicketsLoaded, next, kept, live, o, u, v, news, new, n
<1> QED BY <1>10, <1>11, <1>12

LEMMA PollTimerKeeps ==
  ASSUME NEW s, Base(s)
  PROVE  Kept(s, PollTimer(s))
<1> USE FieldNames
<1>0. DOMAIN s = Names BY DEF Base, Loose, Shape
<1> DEFINE u == [s EXCEPT !.poll = FALSE]
<1>1. Kept(s, u)
  <2>1. /\ DOMAIN u = Names /\ Moves(u) = Moves(s) /\ u.badge = s.badge
        /\ u.open = s.open /\ u.toast = s.toast /\ u.fading = s.fading /\ SameSource(s, u)
        /\ u.asked = s.asked /\ u.poll = FALSE /\ u.listCall = s.listCall
        /\ u.retryTimer = s.retryTimer /\ u.threadCall = s.threadCall
    BY <1>0 DEF Moves, SameSource
  <2> HIDE DEF u
  <2> QED BY <2>1, ListCalled
<1>2. Base(u) BY <1>1 DEF Kept
<1> HIDE DEF u
<1>3. Kept(u, LoadTickets(u)) /\ Kept(u, SchedulePoll(u))
  BY <1>2, LoadTicketsKeeps, SchedulePollKeeps
<1>4. Kept(s, LoadTickets(u)) /\ Kept(s, SchedulePoll(u)) BY <1>1, <1>3, KeptOnward
<1> QED BY <1>1, <1>4 DEF PollTimer, u

\* A change of what the views are built from.
LEMMA UpsertKeeps ==
  ASSUME NEW s, NEW n, NEW sum, Base(s)
  PROVE  Kept(s, Upsert(s, n, sum))
<1> USE FieldNames
<1>0. DOMAIN s = Names BY DEF Base, Loose, Shape
<1> DEFINE cached == IF s.cache[n] = NoThread THEN NoThread
                     ELSE IF sum.count # Len(s.cache[n].msgs) THEN NoThread
                     ELSE [s.cache[n] EXCEPT !.sum = sum]
           list == [q \in DOMAIN s.tickets \cup {n} |-> IF q = n THEN sum ELSE s.tickets[q]]
           live == \E q \in DOMAIN list : IsLive(list[q])
           o == [s EXCEPT !.cache[n] = cached, !.tickets = list, !.live = live]
           u == SyncBadges(o)
           th == [u.thread EXCEPT !.id = n, !.sum = sum]
           r == RememberThread(u, th)
<1> HIDE DEF cached, list, live
<1>1. Kept(s, o)
  <2>1. DOMAIN o = Names /\ View(o) = View(s) BY <1>0 DEF View, Rest, Moves
  <2> QED BY <2>1, SameView
<1>2. Base(o) BY <1>1 DEF Kept
<1> HIDE DEF o
<1>3. Kept(o, u) BY <1>2, SyncKeeps
<1>4. Base(u) BY <1>3 DEF Kept
<1> HIDE DEF u, th
<1>5. Kept(u, r) BY <1>4, RememberKeeps
<1>6. Base(r) BY <1>5 DEF Kept
<1> HIDE DEF r
<1>7. Kept(u, RepaintTickets(u)) /\ Kept(r, RepaintTickets(r)) BY <1>4, <1>6, RepaintTicketsKeeps
<1>8. Kept(s, u) BY <1>1, <1>3, KeptOnward
<1>9. Kept(s, r) BY <1>5, <1>8, KeptOnward
<1>10. Kept(s, RepaintTickets(u)) /\ Kept(s, RepaintTickets(r)) BY <1>7, <1>8, <1>9, KeptOnward
<1>11. Upsert(s, n, sum)
       = CASE u.open /\ u.section = "tickets" /\ u.view.kind = "list" -> RepaintTickets(u)
           [] OnScreen(u, n) /\ u.thread # NoThread ->
                IF u.thread.sum.status # sum.status THEN RepaintTickets(r) ELSE r
           [] OTHER -> u
  BY DEF Upsert, cached, list, live, o, u, th, r
<1>12. Upsert(s, n, sum) \in {u, r, RepaintTickets(u), RepaintTickets(r)} BY <1>11
<1> QED BY <1>8, <1>9, <1>10, <1>12

LEMMA AppendMessageKeeps ==
  ASSUME NEW s, NEW m, Base(s)
  PROVE  Kept(s, AppendMessage(s, m))
<1> USE FieldNames
<1>0. Kept(s, s) BY SameView DEF Base, Loose, Shape
<1> DEFINE th == [s.thread EXCEPT !.msgs = Append(@, m)]
           u == RememberThread(s, th)
           v == [u EXCEPT !.body[3] = Append(@, m)]
<1> HIDE DEF th
<1>1. Kept(s, u) BY RememberKeeps
<1>2. Base(u) BY <1>1 DEF Kept
<1> HIDE DEF u
<1>3. Kept(u, v)
  <2>0. DOMAIN u = Names BY <1>2 DEF Base, Loose, Shape
  <2>1. DOMAIN v = Names /\ View(v) = View(u) BY <2>0 DEF View, Rest, Moves
  <2> QED BY <1>2, <2>1, SameView
<1> HIDE DEF v
<1>4. Kept(s, v) BY <1>1, <1>3, KeptOnward
<1>5. AppendMessage(s, m) \in {s, u, v} BY DEF AppendMessage, th, u, v
<1> QED BY <1>0, <1>1, <1>4, <1>5

LEMMA TicketEventKeeps ==
  ASSUME NEW s, NEW type, NEW n, NEW sum, Base(s)
  PROVE  Kept(s, TicketEvent(s, type, n, sum))
<1> USE FieldNames
<1>0. DOMAIN s = Names BY DEF Base, Loose, Shape
<1> DEFINE h == [s EXCEPT !.history = @ \/ type = "created"]
           u == Upsert(h, n, sum)
           a == AppendMessage(u, << n, sum.count >>)
           x == [u EXCEPT !.toasted[n] = sum.count]
<1>1. Kept(s, h)
  <2>1. DOMAIN h = Names /\ View(h) = View(s) BY <1>0 DEF View, Rest, Moves
  <2> QED BY <2>1, SameView
<1>2. Base(h) BY <1>1 DEF Kept
<1> HIDE DEF h
<1>3. Kept(h, u) BY <1>2, UpsertKeeps
<1>4. Base(u) BY <1>3 DEF Kept
<1> HIDE DEF u
<1>5. Kept(u, a) BY <1>4, AppendMessageKeeps
<1>6. Base(a) BY <1>5 DEF Kept
<1> HIDE DEF a
<1>7. Kept(u, x)
  <2>0. DOMAIN u = Names BY <1>4 DEF Base, Loose, Shape
  <2>1. DOMAIN x = Names /\ View(x) = View(u) BY <2>0 DEF View, Rest, Moves
  <2> QED BY <1>4, <2>1, SameView
<1>8. Base(x) BY <1>7 DEF Kept
<1> HIDE DEF x
<1>9. Kept(a, MarkTicketRead(a, n, sum)) BY <1>6, MarkReadKeeps
<1>10. Kept(x, ShowPreviewToast(x, << "ticket", n >>)) BY <1>8, ToastKeeps
<1>11. Kept(s, u) BY <1>1, <1>3, KeptOnward
<1>12. Kept(s, a) /\ Kept(s, x) BY <1>5, <1>7, <1>11, KeptOnward
<1>13. Kept(s, MarkTicketRead(a, n, sum)) /\ Kept(s, ShowPreviewToast(x, << "ticket", n >>))
  BY <1>9, <1>10, <1>12, KeptOnward
<1>14. TicketEvent(s, type, n, sum)
       \in {u, a, MarkTicketRead(a, n, sum), ShowPreviewToast(x, << "ticket", n >>)}
  BY DEF TicketEvent, h, u, a, x
<1> QED BY <1>11, <1>12, <1>13, <1>14

\* The reply box and the form of a new ticket.
LEMMA WritingKeeps ==
  ASSUME NEW s, Base(s)
  PROVE  /\ \A text : Kept(s, TypeReply(s, text))
         /\ Kept(s, SendReply(s)) /\ Kept(s, TicketRefused(s))
         /\ \A r : Kept(s, ReplyFailed(s, r))
<1> USE FieldNames
<1>0. DOMAIN s = Names BY DEF Base, Loose, Shape
<1>1. ASSUME NEW text PROVE Kept(s, TypeReply(s, text))
  <2>1. DOMAIN TypeReply(s, text) = Names /\ View(TypeReply(s, text)) = View(s)
    BY <1>0 DEF TypeReply, View, Rest, Moves
  <2> QED BY <2>1, SameView
<1>2. DOMAIN SendReply(s) = Names /\ View(SendReply(s)) = View(s)
  BY <1>0 DEF SendReply, View, Rest, Moves
<1>3. DOMAIN TicketRefused(s) = Names /\ View(TicketRefused(s)) = View(s)
  BY <1>0 DEF TicketRefused, View, Rest, Moves
<1>4. ASSUME NEW r PROVE Kept(s, ReplyFailed(s, r))
  <2>1. DOMAIN ReplyFailed(s, r) = Names /\ View(ReplyFailed(s, r)) = View(s)
    BY <1>0 DEF ReplyFailed, View, Rest, Moves
  <2> QED BY <2>1, SameView
<1> QED BY <1>1, <1>2, <1>3, <1>4, SameView

LEMMA ReplyStoredKeeps ==
  ASSUME NEW s, NEW r, Base(s)
  PROVE  Kept(s, ReplyStored(s, r))
<1> USE FieldNames
<1>0. DOMAIN s = Names BY DEF Base, Loose, Shape
<1> DEFINE th == r.got[1]
           o == [s EXCEPT !.replies = @ \ {r}, !.drafts[r.of] = 0]
           u == RememberThread(o, th)
           list == [t \in DOMAIN u.tickets |-> IF t = r.of THEN th.sum ELSE u.tickets[t]]
           v == [u EXCEPT !.tickets = list]
           b == SyncBadges(v)
           e == [b EXCEPT !.error = ""]
<1>1. Kept(s, o)
  <2>1. DOMAIN o = Names /\ View(o) = View(s) BY <1>0 DEF View, Rest, Moves
  <2> QED BY <2>1, SameView
<1>2. Base(o) BY <1>1 DEF Kept
<1> HIDE DEF o, th
<1>3. Kept(o, u) BY <1>2, RememberKeeps
<1>4. Base(u) BY <1>3 DEF Kept
<1> HIDE DEF u, list
<1>5. Kept(u, v)
  <2>0. DOMAIN u = Names BY <1>4 DEF Base, Loose, Shape
  <2>1. DOMAIN v = Names /\ View(v) = View(u) BY <2>0 DEF View, Rest, Moves
  <2> QED BY <1>4, <2>1, SameView
<1>6. Base(v) BY <1>5 DEF Kept
<1> HIDE DEF v
<1>7. Kept(v, b) BY <1>6, SyncKeeps
<1>8. Base(b) BY <1>7 DEF Kept
<1> HIDE DEF b
<1>9. Kept(b, e)
  <2>0. DOMAIN b = Names BY <1>8 DEF Base, Loose, Shape
  <2>1. DOMAIN e = Names /\ View(e) = View(b) BY <2>0 DEF View, Rest, Moves
  <2> QED BY <1>8, <2>1, SameView
<1>10. Base(e) BY <1>9 DEF Kept
<1> HIDE DEF e
<1>11. Kept(e, RepaintTickets(e)) BY <1>10, RepaintTicketsKeeps
<1>12. Kept(s, RepaintTickets(e))
  <2>1. Kept(s, u) BY <1>1, <1>3, KeptOnward
  <2>2. Kept(s, v) BY <1>5, <2>1, KeptOnward
  <2>3. Kept(s, b) BY <1>7, <2>2, KeptOnward
  <2>4. Kept(s, e) BY <1>9, <2>3, KeptOnward
  <2> QED BY <1>11, <2>4, KeptOnward
<1>13. ReplyStored(s, r) = RepaintTickets(e) BY DEF ReplyStored, th, o, u, list, v, b, e
<1> QED BY <1>12, <1>13

LEMMA TicketCreatedKeeps ==
  ASSUME NEW s, NEW n, NEW sum, Base(s)
  PROVE  Kept(s, TicketCreated(s, n, sum))
<1> USE FieldNames
<1>0. DOMAIN s = Names BY DEF Base, Loose, Shape
<1> DEFINE o == [s EXCEPT !.creating = Unasked, !.newDraft = FALSE, !.history = TRUE,
             !.tickets = [q \in DOMAIN @ \cup {n} |-> IF q = n THEN sum ELSE @[q]],
             !.live = TRUE, !.view = [kind |-> "thread", id |-> n], !.thread = NoThread,
             !.error = ""]
           u == SchedulePoll(o)
           r == RepaintTickets(u)
<1>1. Kept(s, o)
  <2>1. DOMAIN o = Names /\ View(o) = View(s) BY <1>0 DEF View, Rest, Moves
  <2> QED BY <2>1, SameView
<1>2. Base(o) BY <1>1 DEF Kept
<1> HIDE DEF o
<1>3. Kept(o, u) BY <1>2, SchedulePollKeeps
<1>4. Base(u) BY <1>3 DEF Kept
<1> HIDE DEF u
<1>5. Kept(u, r) BY <1>4, RepaintTicketsKeeps
<1>6. Base(r) BY <1>5 DEF Kept
<1> HIDE DEF r
<1>7. Kept(r, LoadThread(r, n, FALSE)) BY <1>6, LoadThreadKeeps
<1>8. Kept(s, LoadThread(r, n, FALSE))
  <2>1. Kept(s, u) BY <1>1, <1>3, KeptOnward
  <2>2. Kept(s, r) BY <1>5, <2>1, KeptOnward
  <2> QED BY <1>7, <2>2, KeptOnward
<1>9. TicketCreated(s, n, sum) = LoadThread(r, n, FALSE) BY DEF TicketCreated, o, u, r
<1> QED BY <1>8, <1>9

------------------------------------------------------------------------------
(* Dragging                                                                *)

\* A change of the launcher only, which stays inside or is being dragged.
LEMMA Dragged ==
  ASSUME NEW s, NEW t, Base(s), DOMAIN t = Names, Rest(t) = Rest(s), Launcher(t), Inside(t)
  PROVE  Kept(s, t)
BY SameRest DEF Kept, Base, Loose

LEMMA PointerDownKeeps ==
  ASSUME NEW s, Base(s), ~s.press.down
  PROVE  Kept(s, PointerDown(s))
<1> USE FieldNames
<1>0. DOMAIN s = Names BY DEF Base, Loose, Shape
<1> DEFINE press == [down |-> TRUE, origin |-> Seat(s), x |-> Seat(s), dragging |-> FALSE]
           t == [s EXCEPT !.suppress = FALSE, !.press = press]
<1>1. Launcher(s) /\ Inside(s) BY DEF Base, Loose
<1>2. Seat(s) \in Int
  <2>1. Room(s) \in Nat BY <1>1, RoomIsNat DEF Launcher
  <2>2. EDGE \in Nat BY LauncherAssumption
  <2> QED BY <1>1, <2>1, <2>2 DEF Seat, Launcher
<1>3. DOMAIN press = DOMAIN NoPress BY DEF NoPress
<1>4. /\ press.down = TRUE /\ press.origin \in Int /\ press.x \in Int /\ press.dragging = FALSE
  BY <1>2
<1> HIDE DEF press
<1>5. /\ DOMAIN t = Names /\ Rest(t) = Rest(s) /\ t.press = press
      /\ t.vp = s.vp /\ t.icon = s.icon /\ t.at = s.at /\ t.frame = s.frame
      /\ t.placed = s.placed /\ t.badge = s.badge /\ t.destroyed = s.destroyed
  BY <1>0 DEF Rest
<1>6. PointerDown(s) = t BY DEF PointerDown, press
<1> HIDE DEF t
<1>7. ~s.press.dragging /\ ~s.frame BY <1>1 DEF Launcher
<1>8. Launcher(t) BY <1>1, <1>3, <1>4, <1>5, <1>7 DEF Launcher
<1>9. Room(t) = Room(s) BY <1>5 DEF Room, Width
<1>10. Inside(t) BY <1>1, <1>5, <1>7, <1>9 DEF Inside
<1> QED BY <1>5, <1>6, <1>8, <1>10, Dragged

LEMMA ClampInside ==
  ASSUME NEW s, Launcher(s), NEW x \in Int
  PROVE  ClampLauncher(s, x) \in EDGE..EDGE + Room(s) /\ ClampLauncher(s, x) \in Int
<1>1. Room(s) \in Nat /\ EDGE \in Nat BY RoomIsNat, LauncherAssumption DEF Launcher
<1>2. EDGE \in Int /\ EDGE + Room(s) \in Int /\ EDGE <= EDGE + Room(s) BY <1>1
<1>3. ClampLauncher(s, x) \in EDGE..EDGE + Room(s) BY <1>2, ClampBetween DEF ClampLauncher
<1> QED BY <1>2, <1>3

LEMMA PointerMoveKeeps ==
  ASSUME NEW s, Base(s), s.press.down, NEW dx \in Int
  PROVE  Kept(s, PointerMove(s, dx))
<1> USE FieldNames
<1>0. DOMAIN s = Names BY DEF Base, Loose, Shape
<1> DEFINE x == ClampLauncher(s, s.press.origin + dx)
           t == [s EXCEPT !.press.dragging = TRUE, !.frame = TRUE, !.press.x = x]
<1>1. Launcher(s) BY DEF Base, Loose
<1>2. x \in Int
  <2>1. s.press.origin + dx \in Int BY <1>1 DEF Launcher
  <2> QED BY <1>1, <2>1, ClampInside
<1> HIDE DEF x
<1>3. DOMAIN s.press = {"down", "origin", "x", "dragging"} BY <1>1 DEF Launcher, NoPress
<1>4. /\ DOMAIN t = Names /\ Rest(t) = Rest(s)
      /\ t.press = [[s.press EXCEPT !.dragging = TRUE] EXCEPT !.x = x]
      /\ t.vp = s.vp /\ t.icon = s.icon /\ t.at = s.at
      /\ t.placed = s.placed
  BY <1>0 DEF Rest
<1> HIDE DEF t
<1>5. /\ DOMAIN t.press = DOMAIN NoPress /\ t.press.dragging = TRUE /\ t.press.x = x
      /\ t.press.down = s.press.down /\ t.press.origin = s.press.origin
  BY <1>3, <1>4 DEF NoPress
<1>6. Launcher(t) BY <1>1, <1>2, <1>4, <1>5 DEF Launcher
<1>7. Inside(t) BY <1>5 DEF Inside
<1>8. Kept(s, t) BY <1>4, <1>6, <1>7, Dragged
<1>9. Kept(s, s) BY <1>0, SameView
<1> QED BY <1>8, <1>9 DEF PointerMove, t, x

LEMMA DragFrameKeeps ==
  ASSUME NEW s, Base(s), s.frame
  PROVE  Kept(s, DragFrame(s))
<1> USE FieldNames
<1>0. DOMAIN s = Names BY DEF Base, Loose, Shape
<1> DEFINE u == [s EXCEPT !.frame = FALSE]
           t == [u EXCEPT !.at = s.press.x]
<1>1. Launcher(s) /\ Inside(s) BY DEF Base, Loose
<1>2. s.press.dragging BY <1>1 DEF Launcher
<1>3. /\ DOMAIN u = Names /\ Rest(u) = Rest(s)
      /\ u.vp = s.vp /\ u.icon = s.icon /\ u.at = s.at /\ u.press = s.press
      /\ u.frame = FALSE /\ u.placed = s.placed
  BY <1>0 DEF Rest
<1>4. /\ DOMAIN t = Names /\ Rest(t) = Rest(s)
      /\ t.vp = s.vp /\ t.icon = s.icon /\ t.at = s.press.x /\ t.press = s.press
      /\ t.frame = FALSE /\ t.placed = s.placed
  BY <1>0 DEF Rest
<1>5. DragFrame(s) \in {u, t} BY DEF DragFrame
<1> HIDE DEF u, t
<1>6. Launcher(u) /\ Launcher(t) BY <1>1, <1>2, <1>3, <1>4 DEF Launcher
<1>7. Inside(u) /\ Inside(t) BY <1>2, <1>3, <1>4 DEF Inside
<1>8. Kept(s, u) /\ Kept(s, t) BY <1>3, <1>4, <1>6, <1>7, Dragged
<1> QED BY <1>5, <1>8

\* A drag ends on the screen, at a place that is remembered.
LEMMA EndPressKeeps ==
  ASSUME NEW s, Base(s), NEW throw \in Int, NEW click
  PROVE  Kept(s, EndPress(s, throw, click))
<1> USE FieldNames
<1>0. DOMAIN s = Names BY DEF Base, Loose, Shape
<1> DEFINE end == ClampLauncher(s, s.press.x + throw)
           u == [s EXCEPT !.press = NoPress, !.click = click]
           d == [u EXCEPT !.suppress = TRUE, !.frame = FALSE, !.at = end]
           place == IF Room(d) > 0
                    THEN [num |-> Clamp(end - EDGE, 0, Room(d)), den |-> Room(d)]
                    ELSE [num |-> 0, den |-> 1]
           t == [d EXCEPT !.placed = place]
<1>1. Launcher(s) /\ Inside(s) BY DEF Base, Loose
<1>2. end \in EDGE..EDGE + Room(s) /\ end \in Int
  <2>1. s.press.x + throw \in Int BY <1>1 DEF Launcher
  <2> QED BY <1>1, <2>1, ClampInside
<1>3. EndPress(s, throw, click) = IF ~s.press.dragging THEN u ELSE t
  BY DEF EndPress, RememberPlacement
<1>4. /\ NoPress.down = FALSE /\ NoPress.dragging = FALSE
      /\ NoPress.origin \in Int /\ NoPress.x \in Int
  BY DEF NoPress
<1> HIDE DEF end
<1>5. /\ DOMAIN u = Names /\ Rest(u) = Rest(s)
      /\ u.vp = s.vp /\ u.icon = s.icon /\ u.at = s.at /\ u.press = NoPress
      /\ u.frame = s.frame /\ u.placed = s.placed /\ u.badge = s.badge
      /\ u.destroyed = s.destroyed
  BY <1>0 DEF Rest
<1>6. ~s.press.dragging => Kept(s, u)
  <2> SUFFICES ASSUME ~s.press.dragging PROVE Kept(s, u) OBVIOUS
  <2> HIDE DEF u
  <2>1. ~s.frame BY <1>1 DEF Launcher
  <2>2. Launcher(u) BY <1>1, <1>4, <1>5, <2>1 DEF Launcher
  <2>3. Room(u) = Room(s) BY <1>5 DEF Room, Width
  <2>4. Inside(u) BY <1>1, <1>5, <2>3 DEF Inside
  <2> QED BY <1>5, <2>2, <2>4, Dragged
<1>7. /\ DOMAIN d = Names /\ d.vp = s.vp /\ d.icon = s.icon /\ d.badge = s.badge
  BY <1>0
<1>8. Room(d) = Room(s) BY <1>7 DEF Room, Width
<1>9. Fraction(place)
  <2>1. Room(s) \in Nat /\ EDGE \in Nat BY <1>1, RoomIsNat, LauncherAssumption DEF Launcher
  <2>2. CASE Room(d) > 0
    <3>1. place.num = Clamp(end - EDGE, 0, Room(s)) /\ place.den = Room(s) BY <1>8, <2>2
    <3>2. Clamp(end - EDGE, 0, Room(s)) \in 0..Room(s)
      <4>1. end - EDGE \in Int /\ 0 <= Room(s) BY <1>2, <2>1
      <4> QED BY <2>1, <4>1, ClampBetween
    <3> QED BY <1>8, <2>1, <2>2, <3>1, <3>2 DEF Fraction
  <2>3. CASE ~(Room(d) > 0)
    <3>1. place.num = 0 /\ place.den = 1 BY <2>3
    <3> QED BY <3>1 DEF Fraction
  <2> QED BY <2>2, <2>3
<1>10. place # NoPlace BY <1>9 DEF Fraction, NoPlace
<1> HIDE DEF place
<1>11. /\ DOMAIN t = Names /\ Rest(t) = Rest(s)
       /\ t.vp = s.vp /\ t.icon = s.icon /\ t.at = end /\ t.press = NoPress
       /\ t.frame = FALSE /\ t.placed = place /\ t.badge = s.badge
  BY <1>0 DEF Rest
<1> HIDE DEF t
<1>12. Launcher(t) BY <1>1, <1>2, <1>4, <1>9, <1>10, <1>11 DEF Launcher
<1>13. Room(t) = Room(s) BY <1>11 DEF Room, Width
<1>14. Inside(t) BY <1>2, <1>11, <1>13 DEF Inside
<1>15. Kept(s, t) BY <1>11, <1>12, <1>14, Dragged
<1> QED BY <1>3, <1>6, <1>15

\* The launcher or the window changes its size.
LEMMA SizesKeep ==
  ASSUME NEW s, Base(s)
  PROVE  Kept(s, IconFails(s)) /\ \A vp \in Viewports : Kept(s, Resized(s, vp))
<1> USE FieldNames
<1>0. DOMAIN s = Names BY DEF Base, Loose, Shape
<1>1. Launcher(s) /\ Inside(s) BY DEF Base, Loose
<1>2. Kept(s, IconFails(s))
  <2> DEFINE u == [s EXCEPT !.icon = @ + 1]
  <2>1. /\ DOMAIN u = Names /\ Rest(u) = Rest(s)
        /\ u.vp = s.vp /\ u.icon = s.icon + 1 /\ u.at = s.at /\ u.press = s.press
        /\ u.frame = s.frame /\ u.placed = s.placed /\ u.badge = s.badge
        /\ u.destroyed = s.destroyed
    BY <1>0 DEF Rest
  <2>2. IconFails(s) = IF s.icon < 2 THEN u ELSE RestorePlacement(u) BY DEF IconFails
  <2> HIDE DEF u
  <2>3. Launcher(u) BY <1>1, <2>1 DEF Launcher
  <2>4. Kept(s, RestorePlacement(u)) BY <2>1, <2>3, RestoredKeeps
  <2>5. s.icon < 2 => Kept(s, u)
    <3> SUFFICES ASSUME s.icon < 2 PROVE Kept(s, u) OBVIOUS
    <3>1. s.icon <= 2 /\ u.icon <= 2 BY <1>1, <2>1 DEF Launcher
    <3>2. Room(u) = Room(s) BY <2>1, <3>1 DEF Room, Width
    <3>3. Inside(u) BY <1>1, <2>1, <3>2 DEF Inside
    <3> QED BY <2>1, <2>3, <3>3, Dragged
  <2> QED BY <2>2, <2>4, <2>5
<1>3. ASSUME NEW vp \in Viewports PROVE Kept(s, Resized(s, vp))
  <2> DEFINE u == [s EXCEPT !.vp = vp]
  <2>1. /\ DOMAIN u = Names /\ Rest(u) = Rest(s)
        /\ u.vp = vp /\ u.icon = s.icon /\ u.at = s.at /\ u.press = s.press
        /\ u.frame = s.frame /\ u.placed = s.placed /\ u.badge = s.badge
        /\ u.destroyed = s.destroyed
    BY <1>0 DEF Rest
  <2>2. Resized(s, vp) = IF s.destroyed THEN u ELSE RestorePlacement(u) BY DEF Resized
  <2> HIDE DEF u
  <2>3. vp \in Nat BY LauncherAssumption
  <2>4. Launcher(u) BY <1>1, <2>1, <2>3 DEF Launcher
  <2>5. Kept(s, RestorePlacement(u)) BY <2>1, <2>4, RestoredKeeps
  <2>6. s.destroyed => Inside(u) BY <2>1 DEF Inside
  <2>7. s.destroyed => Kept(s, u) BY <2>1, <2>4, <2>6, Dragged
  <2> QED BY <2>2, <2>5, <2>7
<1> QED BY <1>2, <1>3

------------------------------------------------------------------------------
(* The socket, the browser and the visitor                                 *)

LEMMA ScheduleRetryKeeps ==
  ASSUME NEW s, Base(s)
  PROVE  Kept(s, ScheduleRetry(s))
<1> USE FieldNames
<1>0. DOMAIN s = Names BY DEF Base, Loose, Shape
<1> DEFINE t == [s EXCEPT !.retryTimer = TRUE]
<1>1. Kept(s, s) BY <1>0, SameView
<1>2. /\ DOMAIN t = Names /\ Moves(t) = Moves(s) /\ t.badge = s.badge
      /\ t.open = s.open /\ t.toast = s.toast /\ t.fading = s.fading /\ SameSource(s, t)
      /\ t.asked = s.asked /\ t.listCall = s.listCall
  BY <1>0 DEF Moves, SameSource
<1> HIDE DEF t
<1>3. ~s.destroyed => Kept(s, t)
  <2> SUFFICES ASSUME ~s.destroyed PROVE Kept(s, t) OBVIOUS
  <2>1. DOMAIN t.asked = TicketIds /\ Silent(t) /\ Unasking(s, t)
    BY <1>2 DEF Base, Loose, Shape, Silent, Unasking, SameSource
  <2> QED BY <1>2, <2>1, Requested
<1> QED BY <1>1, <1>3 DEF ScheduleRetry, t

\* A socket that is tried takes no source away: there was none.
LEMMA ConnectMoves ==
  ASSUME NEW s, Base(s)
  PROVE  Moved(s, Connect(s))
<1> USE FieldNames
<1>0. DOMAIN s = Names BY DEF Base, Loose, Shape
<1> DEFINE t == [s EXCEPT !.socket = "connecting"]
<1>1. Moved(s, s)
  <2>1. Kept(s, s) BY <1>0, SameView
  <2> QED BY <2>1, KeptMoves
<1>2. /\ DOMAIN t = Names /\ Moves(t) = Moves(s) /\ t.badge = s.badge
      /\ t.open = s.open /\ t.toast = s.toast /\ t.fading = s.fading
      /\ t.destroyed = s.destroyed /\ t.sections = s.sections /\ t.feedTimer = s.feedTimer
      /\ t.loads = s.loads /\ t.asked = s.asked /\ t.listCall = s.listCall
  BY <1>0 DEF Moves
<1> HIDE DEF t
<1>3. ASSUME ~s.destroyed, s.socket = "none" PROVE Moved(s, t)
  <2>1. Silent(t) BY <1>2, <1>3 DEF Silent
  <2>2. Loads(t.loads) BY <1>2 DEF Base, Loose, Shape
  <2>3. Base(t) BY <1>2, <2>1, <2>2, SameScreen
  <2>4. Sourced(s) => Sourced(t) BY <1>2, <1>3 DEF Sourced, UpdatesOn
  <2> QED BY <1>2, <1>3, <2>3, <2>4 DEF Moved, Unasking
<1> QED BY <1>1, <1>3 DEF Connect, t

\* The close handler ends with scheduleNext(): there is a source again.
LEMMA DisconnectedMoves ==
  ASSUME NEW s, Base(s), ~s.destroyed
  PROVE  Moved(s, Disconnected(s))
<1> USE FieldNames
<1>0. DOMAIN s = Names BY DEF Base, Loose, Shape
<1> DEFINE n == [s EXCEPT !.socket = "none"]
           l == IF n.visible THEN LoadAnnouncements(n, FALSE, FALSE) ELSE n
           k == IF n.visible /\ n.history THEN LoadTickets(l) ELSE l
           x == ScheduleNext(k)
           p == SchedulePoll(x)
           r == ScheduleRetry(p)
<1>1. Base(n) /\ n.destroyed = s.destroyed /\ n.sections = s.sections
  <2>1. /\ n.sections = s.sections /\ DOMAIN n = Names /\ Moves(n) = Moves(s) /\ n.badge = s.badge
        /\ n.open = s.open /\ n.toast = s.toast /\ n.fading = s.fading
        /\ n.destroyed = s.destroyed /\ n.loads = s.loads /\ n.asked = s.asked
    BY <1>0 DEF Moves
  <2> HIDE DEF n
  <2>2. Silent(n) /\ Loads(n.loads) BY <2>1 DEF Silent, Base, Loose, Shape
  <2> QED BY <2>1, <2>2, SameScreen
<1> HIDE DEF n
<1>2. Base(l) /\ l.destroyed = s.destroyed /\ l.sections = s.sections
  <2> DEFINE m == LoadAnnouncements(n, FALSE, FALSE)
  <2>1. Base(m) /\ m.destroyed = n.destroyed /\ m.sections = n.sections BY <1>1, LoadSources
  <2> HIDE DEF m
  <2> QED BY <1>1, <2>1 DEF m
<1> HIDE DEF l
<1>3. Base(k) /\ k.destroyed = s.destroyed /\ k.sections = s.sections
  <2>1. Kept(l, LoadTickets(l)) BY <1>2, LoadTicketsKeeps
  <2> QED BY <1>2, <2>1 DEF Kept, SameSource
<1> HIDE DEF k
<1>4. Base(x) /\ Sourced(x) /\ x.destroyed = s.destroyed /\ x.sections = s.sections
  BY <1>3, ScheduleNextSources
<1> HIDE DEF x
<1>5. Kept(x, p) BY <1>4, SchedulePollKeeps
<1>6. Base(p) BY <1>5 DEF Kept
<1> HIDE DEF p
<1>7. Kept(p, r) BY <1>6, ScheduleRetryKeeps
<1>8. Kept(x, r) BY <1>5, <1>7, KeptOnward
<1>9. Moved(x, r) BY <1>4, <1>8, KeptMoves
<1> HIDE DEF r
<1>10. Moved(s, r) BY <1>4, <1>9 DEF Moved, Unasking
<1> QED BY <1>10 DEF Disconnected, n, l, k, x, p, r

LEMMA BecomeVisibleMoves ==
  ASSUME NEW s, NEW late \in BOOLEAN, Base(s)
  PROVE  Moved(s, BecomeVisible(s, late))
<1> USE FieldNames
<1>0. DOMAIN s = Names BY DEF Base, Loose, Shape
<1> DEFINE v == [s EXCEPT !.visible = TRUE]
           b == RepaintUpdates(SyncBadges(v))
           u == Connect(b)
           l == LoadAnnouncements(u, FALSE, FALSE)
<1>1. Kept(s, v)
  <2>1. DOMAIN v = Names /\ View(v) = View(s) BY <1>0 DEF View, Rest, Moves
  <2> QED BY <2>1, SameView
<1>2. Base(v) BY <1>1 DEF Kept
<1> HIDE DEF v
<1>3. Kept(v, b) BY <1>2, SyncRepaintKeeps
<1>4. Base(b) BY <1>3 DEF Kept
<1>5. Moved(s, b)
  <2>1. Kept(s, b) BY <1>1, <1>3, KeptOnward
  <2> QED BY <2>1, KeptMoves
<1> HIDE DEF b
<1>6. Moved(b, u) BY <1>4, ConnectMoves
<1>7. Moved(s, u) BY <1>5, <1>6, MovedOnward
<1>8. Base(u) BY <1>6 DEF Moved
<1> HIDE DEF u
<1>9. Moved(u, l) BY <1>8, LoadMoves
<1>10. Moved(s, l) BY <1>7, <1>9, MovedOnward
<1>11. Base(l) BY <1>9 DEF Moved
<1> HIDE DEF l
<1>12. Moved(l, LoadTickets(l)) BY <1>11, LoadTicketsKeeps, KeptMoves
<1>13. Moved(s, LoadTickets(l)) BY <1>10, <1>12, MovedOnward
<1>14. BecomeVisible(s, late) \in {u, l, LoadTickets(l)} BY DEF BecomeVisible, v, b, u, l
<1> QED BY <1>7, <1>10, <1>13, <1>14

LEMMA ShowSectionKeeps ==
  ASSUME NEW s, NEW next, NEW late \in BOOLEAN, Base(s)
  PROVE  Kept(s, ShowSection(s, next, late))
<1> USE FieldNames
<1>0. DOMAIN s = Names BY DEF Base, Loose, Shape
<1> DEFINE v == [s EXCEPT !.section = next, !.detail = [id |-> None, held |-> FALSE]]
           u == SwapView(v)
<1>1. Kept(s, v)
  <2>1. DOMAIN v = Names /\ View(v) = View(s) BY <1>0 DEF View, Rest, Moves
  <2> QED BY <2>1, SameView
<1>2. Base(v) BY <1>1 DEF Kept
<1> HIDE DEF v
<1>3. Kept(v, u) BY <1>2, ViewsKeep
<1>4. Base(u) BY <1>3 DEF Kept
<1>5. Kept(s, u) BY <1>1, <1>3, KeptOnward
<1> HIDE DEF u
<1>6. Kept(u, LoadTickets(u)) BY <1>4, LoadTicketsKeeps
<1>7. Kept(s, LoadTickets(u)) BY <1>5, <1>6, KeptOnward
<1>8. ShowSection(s, next, late) \in {u, LoadTickets(u)} BY DEF ShowSection, v, u
<1> QED BY <1>5, <1>7, <1>8

\* A panel that opens hides the toast first.
LEMMA OpenPanelKeeps ==
  ASSUME NEW s, NEW target, NEW late \in BOOLEAN, Base(s)
  PROVE  Kept(s, OpenPanel(s, target, late))
<1> USE FieldNames
<1> DEFINE h == HideToast(s)
           o == [h EXCEPT !.open = TRUE]
<1>1. Kept(s, h) /\ (h.toast = Nothing \/ h.fading) BY ToastKeeps
<1>2. Base(h) BY <1>1 DEF Kept
<1> HIDE DEF h
<1>3. Kept(h, o)
  <2>0. DOMAIN h = Names BY <1>2 DEF Base, Loose, Shape
  <2>1. /\ DOMAIN o = Names /\ Moves(o) = Moves(h) /\ o.badge = h.badge
        /\ o.toast = h.toast /\ o.fading = h.fading
        /\ SameSource(h, o) /\ o.listCall = h.listCall /\ o.asked = h.asked
        /\ o.threadCall = h.threadCall /\ o.poll = h.poll /\ o.retryTimer = h.retryTimer
    BY <2>0 DEF Moves, SameSource
  <2> HIDE DEF o
  <2>2. Toasts(o) BY <1>1, <2>1 DEF Toasts
  <2> QED BY <1>2, <2>1, <2>2, Toasted
<1>4. Base(o) BY <1>3 DEF Kept
<1> HIDE DEF o
<1>5. Kept(o, ShowSection(o, target, late)) BY <1>4, ShowSectionKeeps
<1>6. Kept(s, ShowSection(o, target, late))
  <2>1. Kept(s, o) BY <1>1, <1>3, KeptOnward
  <2> QED BY <1>5, <2>1, KeptOnward
<1> QED BY <1>6 DEF OpenPanel, h, o

LEMMA ClickedKeeps ==
  ASSUME NEW s, NEW late \in BOOLEAN, Base(s)
  PROVE  Kept(s, LauncherClicked(s, late))
<1> USE FieldNames
<1>0. DOMAIN s = Names BY DEF Base, Loose, Shape
<1> DEFINE t == [s EXCEPT !.suppress = FALSE]
<1>1. Kept(s, t)
  <2>1. DOMAIN t = Names /\ View(t) = View(s) BY <1>0 DEF View, Rest, Moves
  <2> QED BY <2>1, SameView
<1>2. Kept(s, ClosePanel(s, TRUE)) BY ClosePanelKeeps
<1>3. Kept(s, OpenPanel(s, s.section, late)) BY OpenPanelKeeps
<1> QED BY <1>1, <1>2, <1>3 DEF LauncherClicked

LEMMA ExpiredKeeps ==
  ASSUME NEW s, Base(s)
  PROVE  Kept(s, Expired(s))
<1>1. Kept(s, s) BY SameView DEF Base, Loose, Shape
<1> QED BY <1>1, SyncRepaintKeeps DEF Expired

\* destroy() ends the requests for conversations, the socket and the timers.
LEMMA DestroyedKeeps ==
  ASSUME NEW s, Base(s)
  PROVE  LET t == Destroyed(s) IN
           Base(t) /\ Sourced(t) /\ t.destroyed = TRUE
<1> USE FieldNames
<1>0. DOMAIN s = Names BY DEF Base, Loose, Shape
<1> DEFINE t == Destroyed(s)
<1>1. /\ DOMAIN t = Names /\ t.open = s.open /\ t.toast = s.toast /\ t.fading = s.fading
      /\ t.destroyed = TRUE /\ t.loads = s.loads /\ t.asked = s.asked
      /\ t.threadCall = NoCall /\ t.socket = "none" /\ t.poll = FALSE /\ t.retryTimer = FALSE
      /\ t.vp = s.vp /\ t.icon = s.icon /\ t.at = s.at /\ t.press = s.press
      /\ t.frame = s.frame /\ t.placed = s.placed
  BY <1>0 DEF Destroyed
<1> HIDE DEF t
<1>2. Shape(t) /\ Toasts(t) /\ Silent(t) BY <1>1 DEF Base, Loose, Shape, Toasts, Silent
<1>3. Launcher(t) BY <1>1 DEF Base, Loose, Launcher
<1>4. Inside(t) BY <1>1 DEF Inside
<1>5. Sourced(t) BY <1>1 DEF Sourced
<1> QED BY <1>1, <1>2, <1>3, <1>4, <1>5 DEF Base, Loose, t

------------------------------------------------------------------------------
(* The page                                                                *)

LEMMA Joined ==
  ASSUME NEW f, NEW g
  PROVE  /\ DOMAIN Join(f, g) = DOMAIN f \cup DOMAIN g
         /\ \A x \in DOMAIN f : Join(f, g)[x] = f[x]
         /\ \A x \in DOMAIN g \ DOMAIN f : Join(f, g)[x] = g[x]
BY DEF Join

\* The records of the sections have no field in common, so each is found in
\* the record of the widget as it is in its own.
LEMMA MountFields ==
  ASSUME NEW site
  PROVE  LET sections == Join(UpdatesFields, Join(TicketsFields, SocketFields))
             m == Join(Mounted(site), Join(LauncherFields, sections))
         IN /\ DOMAIN m = Names
            /\ m.destroyed = FALSE /\ m.open = FALSE
            /\ m.vp = LauncherFields.vp /\ m.icon = 0 /\ m.at = Unplaced /\ m.press = NoPress
            /\ m.frame = FALSE /\ m.placed = NoPlace
            /\ m.loads = << >> /\ m.asked = [t \in TicketIds |-> Unasked]
<1> DEFINE a == Mounted(site)
           b == LauncherFields
           c == UpdatesFields
           d == TicketsFields
           e == SocketFields
           de == Join(d, e)
           cde == Join(c, de)
           bcde == Join(b, cde)
           m == Join(a, bcde)
<1>1. /\ DOMAIN a = DOMAIN Mounted({})
      /\ {"destroyed", "open"} \subseteq DOMAIN a
      /\ {"vp", "icon", "at", "press", "frame", "placed"} \cap DOMAIN a = {}
      /\ "loads" \notin DOMAIN a /\ "asked" \notin DOMAIN a
      /\ a.destroyed = FALSE /\ a.open = FALSE
  BY DEF Mounted
<1>2. /\ {"vp", "icon", "at", "press", "frame", "placed"} \subseteq DOMAIN b
      /\ "loads" \notin DOMAIN b /\ "asked" \notin DOMAIN b
      /\ b.icon = 0 /\ b.at = Unplaced /\ b.press = NoPress
      /\ b.frame = FALSE /\ b.placed = NoPlace
  BY DEF LauncherFields
<1>3. "loads" \in DOMAIN c /\ "asked" \notin DOMAIN c /\ c.loads = << >> BY DEF UpdatesFields
<1>4. "asked" \in DOMAIN d /\ d.asked = [t \in TicketIds |-> Unasked] BY DEF TicketsFields
<1> HIDE DEF a, b, c, d, e
<1>5. /\ DOMAIN de = DOMAIN d \cup DOMAIN e
      /\ \A x \in DOMAIN d : de[x] = d[x]
  BY Joined
<1> HIDE DEF de
<1>6. /\ DOMAIN cde = DOMAIN c \cup DOMAIN de
      /\ \A x \in DOMAIN c : cde[x] = c[x]
      /\ \A x \in DOMAIN de \ DOMAIN c : cde[x] = de[x]
  BY Joined
<1> HIDE DEF cde
<1>7. /\ DOMAIN bcde = DOMAIN b \cup DOMAIN cde
      /\ \A x \in DOMAIN b : bcde[x] = b[x]
      /\ \A x \in DOMAIN cde \ DOMAIN b : bcde[x] = cde[x]
  BY Joined
<1> HIDE DEF bcde
<1>8. /\ DOMAIN m = DOMAIN a \cup DOMAIN bcde
      /\ \A x \in DOMAIN a : m[x] = a[x]
      /\ \A x \in DOMAIN bcde \ DOMAIN a : m[x] = bcde[x]
  BY Joined
<1> HIDE DEF m
<1>9. DOMAIN m = Names
  <2>1. DOMAIN m = DOMAIN a \cup DOMAIN b \cup DOMAIN c \cup DOMAIN d \cup DOMAIN e
    BY <1>5, <1>6, <1>7, <1>8
  <2> QED BY <1>1, <2>1 DEF Names, b, c, d, e
<1>10. m.destroyed = FALSE /\ m.open = FALSE
  BY <1>1, <1>5, <1>6, <1>7, <1>8
<1>11. \A x \in DOMAIN b \ DOMAIN a : m[x] = b[x] BY <1>5, <1>6, <1>7, <1>8
<1>12. \A x \in DOMAIN c \ (DOMAIN a \cup DOMAIN b) : m[x] = c[x] BY <1>5, <1>6, <1>7, <1>8
<1>13. \A x \in DOMAIN d \ (DOMAIN a \cup DOMAIN b \cup DOMAIN c) : m[x] = d[x]
  BY <1>5, <1>6, <1>7, <1>8
<1>14. /\ m.vp = b.vp /\ m.icon = 0 /\ m.at = Unplaced /\ m.press = NoPress
       /\ m.frame = FALSE /\ m.placed = NoPlace
  BY <1>1, <1>2, <1>11
<1>15. m.loads = << >> BY <1>1, <1>2, <1>3, <1>12
<1>16. m.asked = [t \in TicketIds |-> Unasked] BY <1>1, <1>2, <1>3, <1>4, <1>13
<1> QED BY <1>9, <1>10, <1>14, <1>15, <1>16 DEF m, bcde, cde, de, a, b, c, d, e

\* The widget as it was mounted, the socket tried and the lists asked for.
LEMMA MountKeeps ==
  ASSUME NEW site \in Scenarios
  PROVE  Base(Mount(site)) /\ Sourced(Mount(site))
<1> USE FieldNames
<1> DEFINE sections == Join(UpdatesFields, Join(TicketsFields, SocketFields))
           f == Join(Mounted(site.sections), Join(LauncherFields, sections))
           m == [f EXCEPT !.section = site.first, !.history = site.tickets # Nothing,
                        !.sockets = site.sockets]
           c == Connect(m)
           l == LoadAnnouncements(c, TRUE, TRUE)
<1>1. /\ DOMAIN f = Names
      /\ f.destroyed = FALSE /\ f.open = FALSE
      /\ f.vp = LauncherFields.vp /\ f.icon = 0 /\ f.at = Unplaced /\ f.press = NoPress
      /\ f.frame = FALSE /\ f.placed = NoPlace
      /\ f.loads = << >> /\ f.asked = [t \in TicketIds |-> Unasked]
  BY MountFields
<1> HIDE DEF f
<1>2. /\ DOMAIN m = Names
      /\ m.destroyed = FALSE /\ m.open = FALSE
      /\ m.vp = LauncherFields.vp /\ m.icon = 0 /\ m.at = Unplaced /\ m.press = NoPress
      /\ m.frame = FALSE /\ m.placed = NoPlace
      /\ m.loads = << >> /\ m.asked = [t \in TicketIds |-> Unasked]
  BY <1>1
<1> HIDE DEF m
<1>3. LauncherFields.vp \in Nat
  <2>1. LauncherFields.vp = CHOOSE v \in Viewports : \A u \in Viewports : u <= v
    BY DEF LauncherFields
  <2>2. \E v \in Viewports : \A u \in Viewports : u <= v BY LauncherAssumption
  <2>3. LauncherFields.vp \in Viewports BY <2>1, <2>2
  <2> QED BY <2>3, LauncherAssumption
<1>4. Base(m)
  <2>1. Loads(m.loads)
    <3>1. << >> \in Seq({}) /\ DOMAIN << >> = {} OBVIOUS
    <3> QED BY <1>2, <3>1 DEF Loads
  <2>2. DOMAIN m.asked = TicketIds BY <1>2
  <2>3. Shape(m) BY <1>2, <2>1, <2>2 DEF Shape
  <2>4. Launcher(m) BY <1>2, <1>3 DEF Launcher, NoPress, Unplaced
  <2>5. Inside(m) BY <1>2 DEF Inside
  <2>6. Toasts(m) /\ Silent(m) BY <1>2 DEF Toasts, Silent
  <2> QED BY <2>3, <2>4, <2>5, <2>6 DEF Base, Loose
<1>5. Base(c) BY <1>4, ConnectMoves DEF Moved
<1> HIDE DEF c
<1>6. Base(l) /\ Sourced(l) BY <1>5, LoadSources
<1> HIDE DEF l
<1>7. Kept(l, LoadTickets(l)) BY <1>6, LoadTicketsKeeps
<1>8. Moved(l, LoadTickets(l)) BY <1>6, <1>7, KeptMoves
<1> QED BY <1>6, <1>8 DEF Moved, Mount, sections, f, m, c, l

LEMMA InitInv ==
  ASSUME Init
  PROVE  Inv
<1>1. PICK s \in Scenarios : w = Mount(s) BY DEF Init
<1> QED BY <1>1, MountKeeps DEF Inv

------------------------------------------------------------------------------
(* The steps                                                               *)

\* What the server computes is put in its request.
LEMMA ServedMoves ==
  ASSUME NEW s, NEW x, Base(s), NEW i \in DOMAIN s.loads
  PROVE  Moved(s, [s EXCEPT !.loads[i].got = x])
<1> USE FieldNames
<1>0. DOMAIN s = Names BY DEF Base, Loose, Shape
<1> DEFINE t == [s EXCEPT !.loads[i].got = x]
           y == [s.loads[i] EXCEPT !.got = x]
<1>1. /\ DOMAIN t = Names /\ Moves(t) = Moves(s) /\ t.badge = s.badge
      /\ t.open = s.open /\ t.toast = s.toast /\ t.fading = s.fading
      /\ t.destroyed = s.destroyed /\ t.sections = s.sections /\ t.feedTimer = s.feedTimer
      /\ t.socket = s.socket /\ t.asked = s.asked /\ t.listCall = s.listCall
      /\ t.threadCall = s.threadCall /\ t.poll = s.poll /\ t.retryTimer = s.retryTimer
      /\ t.loads = [s.loads EXCEPT ![i] = y]
  BY <1>0 DEF Moves
<1> HIDE DEF t
<1>2. PICK S : s.loads \in Seq(S) BY DEF Base, Loose, Shape, Loads
<1>3. \A j \in DOMAIN s.loads : DOMAIN s.loads[j] = LoadNames BY DEF Base, Loose, Shape, Loads
<1>4. DOMAIN y = LoadNames /\ y.then = s.loads[i].then BY <1>3 DEF LoadNames
<1> HIDE DEF y
<1>5. /\ Len(s.loads) \in Nat /\ DOMAIN s.loads = 1..Len(s.loads)
      /\ s.loads \in Seq(S \cup {y})
  BY <1>2
<1>6. /\ t.loads \in Seq(S \cup {y}) /\ DOMAIN t.loads = DOMAIN s.loads
      /\ Len(t.loads) = Len(s.loads)
      /\ \A j \in DOMAIN s.loads : t.loads[j] = IF j = i THEN y ELSE s.loads[j]
  BY <1>1, <1>5
<1>7. Loads(t.loads) BY <1>3, <1>4, <1>6 DEF Loads
<1>8. Silent(t) BY <1>1 DEF Base, Loose, Silent
<1>9. Base(t) BY <1>1, <1>7, <1>8, SameScreen
<1>10. Sourced(s) => Sourced(t) BY <1>1, <1>4, <1>6 DEF Sourced, UpdatesOn
<1>11. Unasking(s, t) BY <1>1 DEF Unasking
<1>12. Moved(s, t) BY <1>1, <1>5, <1>6, <1>9, <1>10, <1>11 DEF Moved
<1> QED BY <1>12 DEF t

LEMMA FeedAnsweredMoves ==
  ASSUME NEW s, Base(s), NEW i \in DOMAIN s.loads
  PROVE  Moved(s, FeedAnswered(s, i))
<1> DEFINE u == IF s.destroyed THEN s ELSE ApplyFeed(s, s.loads[i].initial, s.loads[i].got[1])
<1>1. Kept(s, u)
  <2>1. Kept(s, s) BY SameView DEF Base, Loose, Shape
  <2> QED BY <2>1, ApplyFeedKeeps
<1>2. FeedAnswered(s, i) = LoadDone(u, i) BY DEF FeedAnswered
<1> HIDE DEF u
<1>3. Base(u) /\ u.loads = s.loads BY <1>1 DEF Kept, SameSource
<1>4. Moved(u, LoadDone(u, i)) BY <1>3, LoadDoneMoves
<1>5. Moved(s, u) BY <1>1, KeptMoves
<1> QED BY <1>2, <1>4, <1>5, MovedOnward

LEMMA AnsweredMoves ==
  ASSUME Inv, Answered
  PROVE  Moved(w, w')
<1> USE FieldNames
<1>0. Base(w) /\ DOMAIN w = Names BY DEF Inv, Base, Loose, Shape
<1>1. ASSUME NEW i \in 1..MaxLoads, ServeFeed(i) PROVE Moved(w, w')
  BY <1>0, <1>1, ServedMoves DEF ServeFeed
<1>2. ASSUME NEW i \in 1..MaxLoads, FeedArrives(i) PROVE Moved(w, w')
  BY <1>0, <1>2, FeedAnsweredMoves DEF FeedArrives
<1>3. ASSUME ServeTickets PROVE Moved(w, w')
  <2> DEFINE t == [w EXCEPT !.listCall = Replied(Summaries)]
  <2>1. /\ DOMAIN t = Names /\ Moves(t) = Moves(w) /\ t.badge = w.badge
        /\ t.open = w.open /\ t.toast = w.toast /\ t.fading = w.fading /\ SameSource(w, t)
        /\ t.asked = w.asked /\ t.poll = w.poll /\ t.retryTimer = w.retryTimer
        /\ t.threadCall = w.threadCall
    BY <1>0 DEF Moves, SameSource
  <2>2. w' = t BY <1>3 DEF ServeTickets
  <2> HIDE DEF t
  <2>3. w.listCall.sent BY <1>3 DEF ServeTickets, Asked
  <2>4. Kept(w, t) BY <1>0, <2>1, <2>3, ListCalled
  <2> QED BY <1>0, <2>2, <2>4, KeptMoves
<1>4. ASSUME TicketsArrive PROVE Moved(w, w')
  BY <1>0, <1>4, TicketsLoadedKeeps, KeptMoves DEF TicketsArrive
<1>5. ASSUME ServeThread PROVE Moved(w, w')
  <2> DEFINE t == [w EXCEPT !.threadCall.got = << Conversation(w.threadCall.id) >>]
  <2>1. /\ DOMAIN t = Names /\ Moves(t) = Moves(w) /\ t.badge = w.badge
        /\ t.open = w.open /\ t.toast = w.toast /\ t.fading = w.fading /\ SameSource(w, t)
        /\ t.asked = w.asked /\ t.poll = w.poll /\ t.retryTimer = w.retryTimer
        /\ t.listCall = w.listCall
    BY <1>0 DEF Moves, SameSource
  <2>2. w' = t BY <1>5 DEF ServeThread
  <2> HIDE DEF t
  <2>3. ~w.destroyed BY <1>0, <1>5 DEF ServeThread, Base, Loose, Silent
  <2>4. Kept(w, t) BY <1>0, <2>1, <2>3, ThreadCalled
  <2> QED BY <1>0, <2>2, <2>4, KeptMoves
<1>6. ASSUME ThreadArrives PROVE Moved(w, w')
  BY <1>0, <1>6, ThreadLoadedKeeps, KeptMoves DEF ThreadArrives
<1>7. ASSUME NEW n \in TicketIds, ServePreview(n) PROVE Moved(w, w')
  <2> DEFINE x == Replied(Conversation(n))
  <2>1. w.asked[n].sent BY <1>7 DEF ServePreview, Asked
  <2>2. w' = [w EXCEPT !.asked[n] = x] BY <1>7 DEF ServePreview
  <2> HIDE DEF x
  <2>3. Kept(w, w') BY <1>0, <2>1, <2>2, AskedKeeps
  <2> QED BY <1>0, <2>3, KeptMoves
<1>8. ASSUME NEW n \in TicketIds, PreviewArrives(n) PROVE Moved(w, w')
  BY <1>0, <1>8, NotificationKeeps, KeptMoves DEF PreviewArrives
<1>9. ASSUME NEW r \in w.replies, StoreReply(r) PROVE Moved(w, w')
  <2>1. PICK x : w' = [w EXCEPT !.replies = x] BY <1>9 DEF StoreReply
  <2>2. DOMAIN w' = Names /\ View(w') = View(w) BY <1>0, <2>1 DEF View, Rest, Moves
  <2> QED BY <1>0, <2>2, SameView, KeptMoves
<1>10. ASSUME NEW r \in w.replies, ReplyArrives(r) PROVE Moved(w, w')
  BY <1>0, <1>10, ReplyStoredKeeps, KeptMoves DEF ReplyArrives
<1>11. ASSUME CreateTicket PROVE Moved(w, w')
  <2>1. PICK x : w' = [w EXCEPT !.creating = x] BY <1>11 DEF CreateTicket
  <2>2. DOMAIN w' = Names /\ View(w') = View(w) BY <1>0, <2>1 DEF View, Rest, Moves
  <2> QED BY <1>0, <2>2, SameView, KeptMoves
<1>12. ASSUME CreatedArrives PROVE Moved(w, w')
  BY <1>0, <1>12, TicketCreatedKeeps, KeptMoves DEF CreatedArrives
<1>13. ASSUME NEW r \in w.posts, PostStored(r) PROVE Moved(w, w')
  <2>1. w' = [w EXCEPT !.posts = @ \ {r}] \/ \E ok : w' = CommentAnswered(w, r, ok)
    BY <1>13 DEF PostStored
  <2>2. CASE w' = [w EXCEPT !.posts = @ \ {r}]
    <3>1. DOMAIN w' = Names /\ View(w') = View(w) BY <1>0, <2>2 DEF View, Rest, Moves
    <3> QED BY <1>0, <3>1, SameView, KeptMoves
  <2>3. CASE \E ok : w' = CommentAnswered(w, r, ok)
    BY <1>0, <2>3, CommentKeeps, KeptMoves
  <2> QED BY <2>1, <2>2, <2>3
<1> QED BY <1>1, <1>2, <1>3, <1>4, <1>5, <1>6, <1>7, <1>8, <1>9, <1>10, <1>11, <1>12, <1>13
        DEF Answered

LEMMA LostMoves ==
  ASSUME Inv, Lost
  PROVE  Moved(w, w')
<1>0. Base(w) BY DEF Inv
<1>1. ASSUME NEW i \in 1..MaxLoads, FeedLost(i) PROVE Moved(w, w')
  BY <1>0, <1>1, LoadDoneMoves DEF FeedLost, FeedFailed
<1>2. ASSUME TicketsLost PROVE Moved(w, w')
  BY <1>0, <1>2, TicketsFailKeep, KeptMoves DEF TicketsLost
<1>3. ASSUME ThreadLost PROVE Moved(w, w')
  <2>1. ~w.destroyed BY <1>0, <1>3 DEF ThreadLost, Base, Loose, Silent
  <2> QED BY <1>0, <1>3, <2>1, ThreadFailedKeeps, KeptMoves DEF ThreadLost
<1>4. ASSUME CreateLost PROVE Moved(w, w')
  BY <1>0, <1>4, WritingKeeps, KeptMoves DEF CreateLost
<1>5. ASSUME NEW n \in TicketIds, PreviewLost(n) PROVE Moved(w, w')
  BY <1>0, <1>5, NotificationKeeps, KeptMoves DEF PreviewLost
<1>6. ASSUME NEW r \in w.replies, ReplyLost(r) PROVE Moved(w, w')
  BY <1>0, <1>6, WritingKeeps, KeptMoves DEF ReplyLost
<1> QED BY <1>1, <1>2, <1>3, <1>4, <1>5, <1>6 DEF Lost

LEMMA StaysMoves ==
  ASSUME Inv, UNCHANGED w
  PROVE  Moved(w, w')
<1>1. Base(w) /\ DOMAIN w = Names BY DEF Inv, Base, Loose, Shape
<1>2. Moved(w, w) BY <1>1, SameView, KeptMoves
<1> QED BY <1>2

LEMMA ServerMoves ==
  ASSUME Inv, Server
  PROVE  Moved(w, w')
<1>1. UNCHANGED w
  BY DEF Server, PublishPost, EditPost, RemovePost, StaffReplies, StaffCloses
<1> QED BY <1>1, StaysMoves

LEMMA TimersMove ==
  ASSUME Inv, Timers
  PROVE  Moved(w, w')
<1> USE FieldNames
<1>0. Base(w) /\ DOMAIN w = Names BY DEF Inv, Base, Loose, Shape
<1>1. ASSUME FeedTimer PROVE Moved(w, w')
  <2> DEFINE s == [w EXCEPT !.feedTimer = FALSE]
             l == LoadAnnouncements(s, FALSE, TRUE)
             n == ScheduleNext(s)
  <2>1. /\ DOMAIN s = Names /\ Moves(s) = Moves(w) /\ s.badge = w.badge
        /\ s.open = w.open /\ s.toast = w.toast /\ s.fading = w.fading
        /\ s.sections = w.sections
        /\ s.destroyed = w.destroyed /\ s.socket = w.socket /\ s.loads = w.loads
        /\ s.asked = w.asked /\ s.listCall = w.listCall
        /\ s.threadCall = w.threadCall /\ s.poll = w.poll /\ s.retryTimer = w.retryTimer
    BY <1>0 DEF Moves
  <2>2. (w' \in {l, n} /\ ~w.destroyed) \/ (w' = s /\ w.destroyed)
    BY <1>1, <2>1 DEF FeedTimer
  <2> HIDE DEF s
  <2>3. Silent(s) /\ Loads(s.loads) BY <1>0, <2>1 DEF Base, Loose, Silent, Shape
  <2>4. Base(s) BY <1>0, <2>1, <2>3, SameScreen
  <2>5. Base(l) /\ Sourced(l) /\ l.destroyed = s.destroyed /\ l.sections = s.sections
    BY <2>4, LoadSources
  <2>6. Base(n) /\ Sourced(n) /\ n.destroyed = s.destroyed /\ n.sections = s.sections
    BY <2>4, ScheduleNextSources
  <2> HIDE DEF l, n
  <2>7. CASE w' \in {l, n} /\ ~w.destroyed
    BY <2>1, <2>5, <2>6, <2>7 DEF Moved, Unasking
  <2>8. CASE w' = s /\ w.destroyed
    <3>1. Sourced(s) /\ Unasking(w, s) BY <2>1, <2>8 DEF Sourced, Unasking
    <3>2. Len(s.loads) <= Len(w.loads)
      <4>1. PICK S : w.loads \in Seq(S) BY <1>0 DEF Base, Loose, Shape, Loads
      <4>2. Len(w.loads) \in Nat BY <4>1
      <4> QED BY <2>1, <4>2
    <3> QED BY <2>1, <2>4, <2>8, <3>1, <3>2 DEF Moved
  <2> QED BY <2>2, <2>7, <2>8
<1>2. ASSUME PollTickets PROVE Moved(w, w')
  BY <1>0, <1>2, PollTimerKeeps, KeptMoves DEF PollTickets
<1>3. ASSUME Loader PROVE Moved(w, w')
  BY <1>0, <1>3, ShowLoaderKeeps, KeptMoves DEF Loader
<1>4. ASSUME Expire PROVE Moved(w, w')
  <2> DEFINE s == [w EXCEPT !.expiry = {}]
  <2>1. DOMAIN s = Names /\ View(s) = View(w) BY <1>0 DEF View, Rest, Moves
  <2>2. w' = Expired(s) BY <1>4 DEF Expire
  <2> HIDE DEF s
  <2>3. Kept(w, s) BY <1>0, <2>1, SameView
  <2>4. Kept(s, Expired(s)) BY <2>3, ExpiredKeeps DEF Kept
  <2>5. Kept(w, w') BY <2>2, <2>3, <2>4, KeptOnward
  <2> QED BY <1>0, <2>5, KeptMoves
<1>5. ASSUME FadeEnds PROVE Moved(w, w')
  BY <1>0, <1>5, ToastKeeps, KeptMoves DEF FadeEnds
<1>6. ASSUME RetryTimer PROVE Moved(w, w')
  <2> DEFINE s == [w EXCEPT !.retryTimer = FALSE]
  <2>1. /\ DOMAIN s = Names /\ Moves(s) = Moves(w) /\ s.badge = w.badge
        /\ s.open = w.open /\ s.toast = w.toast /\ s.fading = w.fading /\ SameSource(w, s)
        /\ s.asked = w.asked /\ s.poll = w.poll /\ s.retryTimer = FALSE
        /\ s.threadCall = w.threadCall /\ s.listCall = w.listCall
    BY <1>0 DEF Moves, SameSource
  <2>2. w' = Connect(s) BY <1>6 DEF RetryTimer
  <2> HIDE DEF s
  <2>3. DOMAIN s.asked = TicketIds /\ Silent(s) /\ Unasking(w, s)
    BY <1>0, <2>1 DEF Base, Loose, Shape, Silent, Unasking, SameSource
  <2>4. Kept(w, s) BY <1>0, <2>1, <2>3, Requested
  <2>5. Moved(s, Connect(s)) BY <2>4, ConnectMoves DEF Kept
  <2>6. Moved(w, s) BY <1>0, <2>4, KeptMoves
  <2> QED BY <1>0, <2>2, <2>5, <2>6, MovedOnward
<1>7. ASSUME ThanksEnd PROVE Moved(w, w')
  <2> DEFINE s == [w EXCEPT !.closing = FALSE]
  <2>1. DOMAIN s = Names /\ View(s) = View(w) BY <1>0 DEF View, Rest, Moves
  <2>2. w' \in {ClosePanel(w, TRUE), s} BY <1>7 DEF ThanksEnd
  <2> HIDE DEF s
  <2>3. Kept(w, w') BY <1>0, <2>1, <2>2, SameView, ClosePanelKeeps
  <2> QED BY <1>0, <2>3, KeptMoves
<1>8. ASSUME Frame PROVE Moved(w, w')
  BY <1>0, <1>8, DragFrameKeeps, KeptMoves DEF Frame
<1>9. ASSUME SuppressTimer PROVE Moved(w, w')
  <2>1. DOMAIN w' = Names /\ View(w') = View(w)
    BY <1>0, <1>9 DEF SuppressTimer, View, Rest, Moves
  <2> QED BY <1>0, <2>1, SameView, KeptMoves
<1> QED BY <1>1, <1>2, <1>3, <1>4, <1>5, <1>6, <1>7, <1>8, <1>9 DEF Timers

LEMMA VisitorMoves ==
  ASSUME Inv, Visitor
  PROVE  Moved(w, w')
<1> USE FieldNames
<1>0. Base(w) /\ DOMAIN w = Names BY DEF Inv, Base, Loose, Shape
<1>1. ASSUME PressLauncher PROVE Moved(w, w')
  BY <1>0, <1>1, PointerDownKeeps, KeptMoves DEF PressLauncher
<1>2. ASSUME MoveLauncher PROVE Moved(w, w')
  <2>1. PICK dx \in {-w.vp, -THRESHOLD, 0, THRESHOLD, w.vp} : w' = PointerMove(w, dx)
    BY <1>2 DEF MoveLauncher
  <2>2. w.vp \in Int BY <1>0 DEF Base, Loose, Launcher
  <2>3. THRESHOLD \in Int BY LauncherAssumption
  <2>4. dx \in Int BY <2>2, <2>3
  <2> QED BY <1>0, <1>2, <2>1, <2>4, PointerMoveKeeps, KeptMoves DEF MoveLauncher
<1>3. ASSUME ReleaseLauncher PROVE Moved(w, w')
  <2>1. PICK throw \in {-THROW, 0, THROW} :
          w' = EndPress(w, throw, IF w.press.dragging THEN "drag" ELSE "press")
    BY <1>3 DEF ReleaseLauncher
  <2>2. THROW \in Int BY LauncherAssumption
  <2>3. throw \in Int BY <2>2
  <2> QED BY <1>0, <2>1, <2>3, EndPressKeeps, KeptMoves
<1>4. ASSUME CancelPress PROVE Moved(w, w')
  BY <1>0, <1>4, EndPressKeeps, KeptMoves DEF CancelPress
<1>5. ASSUME Click PROVE Moved(w, w')
  <2> DEFINE s == [w EXCEPT !.click = "none"]
  <2>1. DOMAIN s = Names /\ View(s) = View(w) BY <1>0 DEF View, Rest, Moves
  <2>2. PICK late \in BOOLEAN : w' = LauncherClicked(s, late) BY <1>5 DEF Click
  <2> HIDE DEF s
  <2>3. Kept(w, s) BY <1>0, <2>1, SameView
  <2>4. Kept(s, LauncherClicked(s, late)) BY <2>3, ClickedKeeps DEF Kept
  <2>5. Kept(w, w') BY <2>2, <2>3, <2>4, KeptOnward
  <2> QED BY <1>0, <2>5, KeptMoves
<1>6. ASSUME Close PROVE Moved(w, w')
  BY <1>0, <1>6, ClosePanelKeeps, KeptMoves DEF Close
<1>7. ASSUME DismissToast PROVE Moved(w, w')
  BY <1>0, <1>7, ToastKeeps, KeptMoves DEF DismissToast
<1>8. ASSUME OpenToast PROVE Moved(w, w')
  <2>1. PICK late \in BOOLEAN :
          w' \in {OpenDetail(OpenPanel(w, "updates", late), w.toast[2], w.toast[3]),
                  OpenThread(OpenPanel(w, "tickets", late), w.toast[2])}
    BY <1>8 DEF OpenToast
  <2> DEFINE u == OpenPanel(w, "updates", late)
             t == OpenPanel(w, "tickets", late)
             a == OpenDetail(u, w.toast[2], w.toast[3])
             b == OpenThread(t, w.toast[2])
  <2>2. Kept(w, u) /\ Kept(w, t) BY <1>0, OpenPanelKeeps
  <2>3. w' \in {a, b} BY <2>1
  <2> HIDE DEF u, t
  <2>4. Kept(u, a) /\ Kept(t, b) BY <2>2, OpenDetailKeeps, OpenThreadKeeps DEF Kept
  <2> HIDE DEF a, b
  <2>5. Kept(w, a) /\ Kept(w, b) BY <2>2, <2>4, KeptOnward
  <2> QED BY <1>0, <2>3, <2>5, KeptMoves
<1>9. ASSUME BackToUpdates PROVE Moved(w, w')
  BY <1>0, <1>9, ShowSectionKeeps, KeptMoves DEF BackToUpdates
<1>10. ASSUME Comment PROVE Moved(w, w')
  BY <1>0, <1>10, CommentKeeps, KeptMoves DEF Comment
<1>11. ASSUME NEW next \in w.sections, ChooseTab(next) PROVE Moved(w, w')
  BY <1>0, <1>11, ShowSectionKeeps, KeptMoves DEF ChooseTab
<1>12. ASSUME NEW p \in Posts, ReadPost(p) PROVE Moved(w, w')
  BY <1>0, <1>12, OpenDetailKeeps, KeptMoves DEF ReadPost
<1>13. ASSUME NEW n \in TicketIds, ReadTicket(n) PROVE Moved(w, w')
  BY <1>0, <1>13, OpenThreadKeeps, KeptMoves DEF ReadTicket
<1>14. ASSUME Back PROVE Moved(w, w')
  BY <1>0, <1>14, PagesKeep, KeptMoves DEF Back, OnTickets
<1>15. ASSUME RetryThread PROVE Moved(w, w')
  BY <1>0, <1>15, LoadThreadKeeps, KeptMoves DEF RetryThread
<1>16. ASSUME Type PROVE Moved(w, w')
  BY <1>0, <1>16, WritingKeeps, KeptMoves DEF Type
<1>17. ASSUME Reply PROVE Moved(w, w')
  BY <1>0, <1>17, WritingKeeps, KeptMoves DEF Reply
<1>18. ASSUME NewTicket PROVE Moved(w, w')
  BY <1>0, <1>18, PagesKeep, KeptMoves DEF NewTicket, OnTickets
<1>19. ASSUME LeaveNewTicket PROVE Moved(w, w')
  BY <1>0, <1>19, PagesKeep, KeptMoves DEF LeaveNewTicket, OnTickets
<1>20. ASSUME WriteTicket \/ SubmitTicket PROVE Moved(w, w')
  <2>1. DOMAIN w' = Names /\ View(w') = View(w)
    BY <1>0, <1>20 DEF WriteTicket, SubmitTicket, View, Rest, Moves
  <2> QED BY <1>0, <2>1, SameView, KeptMoves
<1>21. ASSUME SendFeedback PROVE Moved(w, w')
  BY <1>0, <1>21, ViewsKeep, KeptMoves DEF SendFeedback
<1> QED BY <1>1, <1>2, <1>3, <1>4, <1>5, <1>6, <1>7, <1>8, <1>9, <1>10, <1>11, <1>12, <1>13,
           <1>14, <1>15, <1>16, <1>17, <1>18, <1>19, <1>20, <1>21
        DEF Visitor

LEMMA BrowserMoves ==
  ASSUME Inv, Browser
  PROVE  Moved(w, w') \/ Destroy
<1> USE FieldNames
<1>0. Base(w) /\ DOMAIN w = Names BY DEF Inv, Base, Loose, Shape
<1>1. ASSUME SocketOpens PROVE Moved(w, w')
  <2> DEFINE s == [w EXCEPT !.socket = "open", !.retryTimer = FALSE, !.feedTimer = FALSE,
                            !.poll = FALSE]
             l == LoadAnnouncements(s, TRUE, FALSE)
  <2>1. /\ DOMAIN s = Names /\ Moves(s) = Moves(w) /\ s.badge = w.badge
        /\ s.open = w.open /\ s.toast = w.toast /\ s.fading = w.fading
        /\ s.destroyed = w.destroyed /\ s.socket = "open" /\ s.loads = w.loads
        /\ s.asked = w.asked /\ s.sections = w.sections
    BY <1>0 DEF Moves
  <2>2. w' = LoadTickets(l) BY <1>1 DEF SocketOpens
  <2> HIDE DEF s
  <2>3. ~w.destroyed BY <1>0, <1>1 DEF SocketOpens, Base, Loose, Silent
  <2>4. Silent(s) /\ Loads(s.loads) BY <1>0, <2>1, <2>3 DEF Base, Loose, Silent, Shape
  <2>5. Base(s) BY <1>0, <2>1, <2>4, SameScreen
  <2>6. Sourced(s) BY <2>1 DEF Sourced
  <2>7. Moved(s, l) BY <2>5, LoadMoves
  <2>8. Base(l) /\ Sourced(l) BY <2>6, <2>7 DEF Moved
  <2> HIDE DEF l
  <2>9. Moved(l, w') BY <2>2, <2>8, LoadTicketsKeeps, KeptMoves
  <2>10. /\ w'.destroyed = w.destroyed /\ w'.sections = w.sections
         /\ Base(w') /\ Sourced(w')
    BY <2>1, <2>7, <2>8, <2>9 DEF Moved
  <2> QED BY <2>3, <2>10 DEF Moved, Unasking
<1>2. ASSUME SocketCloses PROVE Moved(w, w')
  <2>1. ~w.destroyed BY <1>0, <1>2 DEF SocketCloses, Base, Loose, Silent
  <2> QED BY <1>0, <1>2, <2>1, DisconnectedMoves DEF SocketCloses
<1>3. ASSUME Deliver PROVE Moved(w, w')
  <2>1. \/ \E p : w' = PostRemoved(w, p)
        \/ \E type, p, ver : w' = PostChanged(w, type, p, ver)
        \/ \E type, n, sum : w' = TicketEvent(w, type, n, sum)
    <3> DEFINE e == Head(wire)
               a == PostRemoved(w, e.of)
               b == PostChanged(w, e.type, e.of, e.ver)
               c == TicketEvent(w, e.type, e.of, e.sum)
    <3>1. w' = CASE e.type = "removed" -> a
                 [] e.type \in {"published", "updated"} /\ "ver" \in DOMAIN e -> b
                 [] OTHER -> c
      BY <1>3 DEF Deliver
    <3> HIDE DEF e
    <3>2. w' \in {a, b, c}
      <4> HIDE DEF a, b, c
      <4> QED BY <3>1
    <3> QED BY <3>2
  <2> QED BY <1>0, <2>1, PostRemovedKeeps, PostChangedKeeps, TicketEventKeeps, KeptMoves
<1>4. ASSUME Hide PROVE Moved(w, w')
  <2>1. DOMAIN w' = Names /\ View(w') = View(w) BY <1>0, <1>4 DEF Hide, View, Rest, Moves
  <2> QED BY <1>0, <2>1, SameView, KeptMoves
<1>5. ASSUME Show PROVE Moved(w, w')
  BY <1>0, <1>5, BecomeVisibleMoves DEF Show
<1>6. ASSUME IconError PROVE Moved(w, w')
  BY <1>0, <1>6, SizesKeep, KeptMoves DEF IconError
<1>7. ASSUME Resize PROVE Moved(w, w')
  BY <1>0, <1>7, SizesKeep, KeptMoves DEF Resize
<1>8. ASSUME NEW p \in Posts, Ages(p) PROVE Moved(w, w')
  <2>1. DOMAIN w' = Names /\ View(w') = View(w) BY <1>0, <1>8 DEF Ages, View, Rest, Moves
  <2> QED BY <1>0, <2>1, SameView, KeptMoves
<1> QED BY <1>1, <1>2, <1>3, <1>4, <1>5, <1>6, <1>7, <1>8 DEF Browser

\* A step keeps Base and Sourced; only destroy() ends the widget.
LEMMA StepMoves ==
  ASSUME Inv, [Next]_vars
  PROVE  Moved(w, w') \/ Destroy
BY AnsweredMoves, LostMoves, ServerMoves, TimersMove, VisitorMoves, BrowserMoves, StaysMoves
   DEF Next, vars

LEMMA NextInv ==
  ASSUME Inv, [Next]_vars
  PROVE  Inv'
<1>1. CASE Moved(w, w') BY <1>1 DEF Inv, Moved
<1>2. CASE Destroy
  <2>1. w' = Destroyed(w) BY <1>2 DEF Destroy
  <2>2. Base(w') /\ Sourced(w') BY <2>1, DestroyedKeeps DEF Inv
  <2> QED BY <2>2 DEF Inv
<1> QED BY <1>1, <1>2, StepMoves

LEMMA Invariance == Spec => []Inv
<1>1. Init => Inv BY InitInv
<1>2. Inv /\ [Next]_vars => Inv' BY NextInv
<1> QED BY <1>1, <1>2, PTL DEF Spec

------------------------------------------------------------------------------

\* openPanel hides the toast before it opens the panel, and showPreviewToast
\* shows none while it is open: a preview never covers an open panel
\* (widget.ts:2074-2098, 2146-2198).
THEOREM PreviewYields == Spec => []ToastYields
<1>1. Inv => ToastYields BY DEF Inv, Base, Loose, Toasts, ToastYields
<1> QED BY <1>1, Invariance, PTL

\* Every end of a load, of a socket and of the poll timer leaves another
\* source of announcements behind, unless the widget is destroyed
\* (widget.ts:2435-2536).
THEOREM NewsGoOn == Spec => []FeedSource
<1>1. Inv => FeedSource BY DEF Inv, Sourced, FeedSource
<1> QED BY <1>1, Invariance, PTL

\* A launcher that was dragged is within the room it has, from the margin on,
\* for all widths of the window: where it was put is a fraction of that room
\* (widget.ts:658-784, 805-926).
THEOREM LauncherStays == Spec => []LauncherOnScreen
<1>1. Inv => LauncherOnScreen BY DEF Inv, Base, Inside, LauncherOnScreen
<1> QED BY <1>1, Invariance, PTL

\* A widget that was destroyed starts no request, whichever answers and
\* timers still come (widget.ts:2575-2598).
THEOREM DestroyedIsSilent == Spec => SilentAfterDestroy
<1> DEFINE S == w.destroyed =>
                  /\ Len(w'.loads) <= Len(w.loads)
                  /\ w'.listCall.sent => w.listCall.sent
                  /\ w'.threadCall = NoCall /\ w'.socket = "none" /\ ~w'.poll /\ ~w'.retryTimer
                  /\ \A t \in TicketIds : w'.asked[t].sent => w.asked[t].sent
<1>1. ASSUME Inv, [Next]_vars PROVE S
  <2> SUFFICES ASSUME w.destroyed PROVE S OBVIOUS
  <2>1. ~Destroy BY DEF Destroy
  <2>2. Moved(w, w') BY <1>1, <2>1, StepMoves
  <2>3. Silent(w') /\ w'.destroyed BY <2>2 DEF Moved, Base, Loose
  <2> QED BY <2>2, <2>3 DEF Moved, Unasking, Silent
<1>2. Inv /\ [Next]_vars => [S]_vars BY <1>1
<1>3. [][Next]_vars /\ []Inv => [][S]_vars BY <1>2, PTL
<1> QED BY <1>3, Invariance, PTL DEF Spec, SilentAfterDestroy

------------------------------------------------------------------------------
(* What the widget shows: the parts of the invariant                       *)
\* t is s but for the fields F.
Differ(s, t, F) == DOMAIN t = Names /\ \A x \in Names \ F : t[x] = s[x]

\* What the server said of ticket n at some time; k are its tickets now.
Said(k, n, sum) ==
  /\ n \in DOMAIN k
  /\ sum.count \in 1..Len(k[n].authors) /\ sum.author = k[n].authors[sum.count]

\* A conversation, as the server tells it, or as the widget has put it together.
Talk(k, th) ==
  /\ DOMAIN th = {"id", "sum", "msgs"} /\ th.id \in DOMAIN k /\ \E S : th.msgs \in Seq(S)

Pure(th) == Len(th.msgs) > 0 /\ \A i \in DOMAIN th.msgs : th.msgs[i][1] = th.id

\* Each part of the widget that the views are built from, or will be.
Posted(feed)  == \A p \in DOMAIN feed : DOMAIN feed[p] = {"ver", "read", "commented"}
Fetched(q)    == \A i \in DOMAIN q : q[i].got = << >> \/ Posted(q[i].got[1])
Told(k, list) == \A n \in DOMAIN list : Said(k, n, list[n])
Asides(k, c)  == /\ DOMAIN c = TicketIds
                 /\ \A n \in TicketIds : c[n] = NoThread \/ (Talk(k, c[n]) /\ c[n].id = n)
Stray(th, n)  == \E i \in DOMAIN th.msgs : th.msgs[i][1] # n
Chosen(k, th, v) ==
  th = NoThread \/ (Talk(k, th) /\ (v.kind = "thread" => th.id = v.id \/ Stray(th, v.id)))
Called(k, c, error) ==
  c = NoCall \/ /\ error = "" /\ DOMAIN c = DOMAIN NoCall
                /\ c.got = << >> \/ (Talk(k, c.got[1]) /\ Pure(c.got[1]))
Peeked(k, a) ==
  /\ DOMAIN a = TicketIds
  /\ \A n \in TicketIds :
       \/ a[n] = Unasked
       \/ /\ n \in DOMAIN k
          /\ a[n].got = << >> \/ (Talk(k, a[n].got[1]) /\ a[n].got[1].id = n)
Listed(k, c)  == c.got = << >> \/ Told(k, c.got[1])
Sending(k, r) ==
  /\ DOMAIN r = {"of", "text", "here", "got"} /\ r.of \in DOMAIN k
  /\ r.got = << >> \/ (Talk(k, r.got[1]) /\ Pure(r.got[1]) /\ Said(k, r.of, r.got[1].sum))
Replying(k, R) == \A r \in R : Sending(k, r)
Making(k, c) ==
  c.got = << >> \/ (c.got[1][2] = NewSummary /\ Said(k, c.got[1][1], NewSummary))
Page(k, body) == body[1] = "thread" => DOMAIN body = 1..6 /\ body[2] \in DOMAIN k
Toast(toast)  == toast = Nothing \/ toast[1] = "post" \/ toast[2] \in TicketIds

\* A site without tickets asks for none and hears of none.
NoTickets(s) ==
  /\ s.section # "tickets" /\ s.tickets = Nothing /\ s.listCall = Unasked /\ s.threadCall = NoCall
  /\ s.replies = {} /\ s.creating = Unasked /\ \A n \in TicketIds : s.asked[n] = Unasked
  /\ s.toast = Nothing \/ s.toast[1] = "post"

Sound(s, k) ==
  /\ DOMAIN s = Names /\ DOMAIN k \subseteq TicketIds
  /\ s.sections \subseteq {"updates", "tickets", "feedback"}
  /\ s.section \in {"updates", "tickets", "feedback"}
  /\ s.view.kind \in {"list", "new", "thread"}
  /\ Posted(s.feed) /\ Fetched(s.loads) /\ DOMAIN s.detail = {"id", "held"}
  /\ Told(k, s.tickets) /\ Asides(k, s.cache) /\ Chosen(k, s.thread, s.view)
  /\ DOMAIN s.drafts = TicketIds /\ Called(k, s.threadCall, s.error) /\ Peeked(k, s.asked)
  /\ Listed(k, s.listCall) /\ Replying(k, s.replies) /\ Making(k, s.creating)
  /\ Page(k, s.body) /\ Toast(s.toast)
  /\ s.loadingTimer = None \/ s.loading
  /\ TicketsOn(s) \/ NoTickets(s)

\* BadgeCurrent, of a widget s, and what the timer of syncBadges is set for.
OutrunIn(s, k) == {n \in DOMAIN s.tickets : s.tickets[n] = NewSummary /\ Len(k[n].authors) > 1}

Counts(s, k) ==
  ~s.destroyed =>
    /\ UnreadPosts(s) = s.expiry \ s.aged /\ s.badge[1] = Cardinality(s.expiry)
    /\ \E S \in SUBSET OutrunIn(s, k) : s.badge[2] = Cardinality(UnreadTickets(s) \cup S)

\* ScreenCurrent, of a widget s.
MarkedIn(s, U) == <<"updates", None, {<<p, s.feed[p].ver, p \in U>> : p \in DOMAIN s.feed}>>

Formed(s) == s.body = FeedbackView(s)

Chatted(s) ==
  \/ s.view.kind = "thread" /\ s.loadingTimer = s.view.id
  \/ s.view.kind = "thread" /\ s.thread # NoThread /\ Stray(s.thread, s.view.id)
  \/ s.body = TicketsView(s)

Announced(s) ==
  IF s.detail.id # None THEN s.body = DetailView(s)
  ELSE \E S \in SUBSET s.aged :
         /\ s.body = MarkedIn(s, UnreadPosts(s) \cup S)
         /\ TicketsOn(s) \/ S \subseteq s.expiry

Shows(s) ==
  s.open /\ ~s.destroyed =>
    /\ s.section = "feedback" => Formed(s)
    /\ s.section = "tickets" => Chatted(s)
    /\ s.section = "updates" => Announced(s)

Good(s, k) == Sound(s, k) /\ Counts(s, k) /\ Shows(s)

\* The fields nothing of this speaks of.
Plain == {"seen", "feedTimer", "posts", "comment", "fetched", "live", "retry", "poll", "toasted",
          "history", "newDraft", "sockets", "socket", "retryTimer", "vp", "icon", "at", "placed",
          "press", "frame", "suppress", "click", "visible", "fading", "done", "closing",
          "finishing", "calls", "busy"}

LEMMA Onward ==
  ASSUME NEW s, NEW t, NEW u, NEW F, NEW G, Differ(s, t, F), Differ(t, u, G)
  PROVE  Differ(s, u, F \cup G)
BY DEF Differ

LEMMA RestoreFrame ==
  ASSUME NEW s, DOMAIN s = Names
  PROVE  Differ(s, RestorePlacement(s), {"at"})
<1> USE FieldNames
<1>1. Differ(s, s, {"at"}) BY DEF Differ
<1> DEFINE x == EDGE + (s.placed.num * Room(s)) \div s.placed.den
           t == [s EXCEPT !.at = x]
<1> HIDE DEF x
<1>2. Differ(s, t, {"at"}) BY DEF Differ
<1> HIDE DEF t
<1>3. RestorePlacement(s) \in {s, t} BY DEF RestorePlacement, t, x
<1> QED BY <1>1, <1>2, <1>3

\* syncBadges() establishes what the badges show.
LEMMA SyncFrame ==
  ASSUME NEW s, DOMAIN s = Names
  PROVE  LET t == SyncBadges(s) IN
           /\ Differ(s, t, {"at", "badge", "expiry"})
           /\ t.expiry = UnreadPosts(s)
           /\ t.badge = << Cardinality(UnreadPosts(s)), Cardinality(UnreadTickets(s)) >>
<1> USE FieldNames
<1> DEFINE b == << Cardinality(UnreadPosts(s)), Cardinality(UnreadTickets(s)) >>
           e == UnreadPosts(s)
           u == [s EXCEPT !.badge = b, !.expiry = e]
           t == RestorePlacement(u)
<1> HIDE DEF b, e
<1>1. DOMAIN u = Names /\ Differ(s, u, {"badge", "expiry"}) /\ u.badge = b /\ u.expiry = e
  BY DEF Differ
<1>2. SyncBadges(s) = t BY DEF SyncBadges, b, e
<1> HIDE DEF u
<1>3. Differ(u, t, {"at"}) BY <1>1, RestoreFrame
<1> HIDE DEF t
<1>4. t.badge = b /\ t.expiry = e BY <1>1, <1>3 DEF Differ
<1>5. Differ(s, t, {"badge", "expiry"} \cup {"at"}) BY <1>1, <1>3, Onward
<1>6. {"badge", "expiry"} \cup {"at"} = {"at", "badge", "expiry"} OBVIOUS
<1>7. Differ(s, t, {"at", "badge", "expiry"}) BY <1>5, <1>6
<1> QED BY <1>2, <1>4, <1>7 DEF b, e

LEMMA SwapFrame ==
  ASSUME NEW s, DOMAIN s = Names
  PROVE  LET t == SwapView(s) IN
           /\ Differ(s, t, {"body", "busy", "replies"})
           /\ t.body = SectionView(s) /\ t.replies = {[r EXCEPT !.here = FALSE] : r \in s.replies}
<1> USE FieldNames
<1> DEFINE b == SectionView(s)
           R == {[r EXCEPT !.here = FALSE] : r \in s.replies}
           t == [s EXCEPT !.body = b, !.busy = FALSE, !.replies = R]
<1>0. SwapView(s) = t BY DEF SwapView
<1> HIDE DEF b, R
<1>1. Differ(s, t, {"body", "busy", "replies"}) /\ t.body = b /\ t.replies = R BY DEF Differ
<1> QED BY <1>0, <1>1 DEF b, R

\* What a widget shows depends on what the others are not.
LEMMA SameGood ==
  ASSUME NEW s, NEW t, NEW k, Differ(s, t, Plain)
  PROVE  /\ Sound(s, k) => Sound(t, k)
         /\ Counts(s, k) => Counts(t, k)
         /\ Shows(s) => Shows(t)
<1> USE FieldNames
<1>1. /\ t.sections = s.sections /\ t.section = s.section /\ t.open = s.open
      /\ t.destroyed = s.destroyed /\ t.body = s.body /\ t.toast = s.toast /\ t.badge = s.badge
      /\ t.expiry = s.expiry /\ t.token = s.token /\ t.submitted = s.submitted
      /\ t.feed = s.feed /\ t.aged = s.aged /\ t.detail = s.detail /\ t.tickets = s.tickets
      /\ t.view = s.view /\ t.thread = s.thread /\ t.error = s.error /\ t.markers = s.markers
      /\ t.drafts = s.drafts /\ t.replies = s.replies /\ t.loads = s.loads
      /\ t.listCall = s.listCall /\ t.threadCall = s.threadCall /\ t.loading = s.loading
      /\ t.loadingTimer = s.loadingTimer /\ t.cache = s.cache /\ t.asked = s.asked
      /\ t.creating = s.creating
  BY DEF Differ, Plain
<1>2. Sound(s, k) => Sound(t, k) BY <1>1 DEF Sound, NoTickets, TicketsOn, Differ
<1>3. UnreadPosts(t) = UnreadPosts(s) /\ UnreadTickets(t) = UnreadTickets(s)
  BY <1>1 DEF UnreadPosts, UnreadTickets, UnreadTicket
<1>4. Counts(s, k) => Counts(t, k) BY <1>1, <1>3, SMTT(30) DEF Counts, OutrunIn
<1>5. /\ FeedbackView(t) = FeedbackView(s) /\ TicketsView(t) = TicketsView(s)
      /\ DetailView(t) = DetailView(s) /\ \A U : MarkedIn(t, U) = MarkedIn(s, U)
  BY <1>1 DEF FeedbackView, FormView, TicketsView, ThreadView, TicketsList, DetailView, MarkedIn
<1>6. Shows(s) => Shows(t)
  BY <1>1, <1>3, <1>5 DEF Shows, Formed, Chatted, Announced, TicketsOn
<1> QED BY <1>2, <1>4, <1>6

------------------------------------------------------------------------------
(* Sound, Counts and Shows by what they do not depend on                   *)

\* Sound does not speak of these.
Unsaid ==
  Plain \cup {"open", "destroyed", "aged", "badge", "expiry", "markers", "token", "submitted"}

\* Counts speaks of these only.
Counted(s) == << s.destroyed, s.feed, s.aged, s.expiry, s.badge, s.tickets, s.markers >>

\* What tickets change outside of the body of the panel; where there are
\* tickets, the timer of the announcements is of no concern for Shows.
Ticketed == Plain \cup {"tickets", "view", "thread", "error", "markers", "drafts", "replies",
                        "listCall", "threadCall", "loading", "loadingTimer", "cache", "asked",
                        "creating", "toast", "badge", "expiry", "loads"}

\* What announcements change.
Newsy == Plain \cup {"feed", "aged", "detail", "loads", "toast", "badge", "expiry"}

\* What is shown outside of the section of the tickets, of the announcements.
OffTickets(s) == s.section # "tickets" => Shows(s)
OffNews(s)    == s.section # "updates" => Shows(s)

\* The panel shows a list of announcements, or the detail it should.
Detailed(s) ==
  s.open /\ ~s.destroyed /\ s.section = "updates" =>
    s.body[1] = "updates" \/ (s.detail.id # None /\ s.body = DetailView(s))

LEMMA Wider ==
  ASSUME NEW s, NEW t, NEW F, NEW G, Differ(s, t, F), F \subseteq G
  PROVE  Differ(s, t, G)
BY DEF Differ

LEMMA NewsSound ==
  ASSUME NEW s, NEW t, NEW k, Sound(s, k),
         Differ(s, t, Unsaid \cup {"feed", "loads", "detail", "toast"}),
         Posted(t.feed), Fetched(t.loads), DOMAIN t.detail = {"id", "held"}, Toast(t.toast),
         TicketsOn(s) \/ t.toast = Nothing \/ t.toast[1] = "post"
  PROVE  Sound(t, k)
<1> USE FieldNames
<1>1. /\ t.sections = s.sections /\ t.section = s.section /\ t.body = s.body
      /\ t.tickets = s.tickets /\ t.view = s.view /\ t.thread = s.thread /\ t.error = s.error
      /\ t.drafts = s.drafts /\ t.replies = s.replies /\ t.listCall = s.listCall
      /\ t.threadCall = s.threadCall /\ t.loading = s.loading
      /\ t.loadingTimer = s.loadingTimer /\ t.cache = s.cache /\ t.asked = s.asked
      /\ t.creating = s.creating /\ DOMAIN t = Names
  BY DEF Differ, Unsaid, Plain
<1> QED BY <1>1 DEF Sound, NoTickets, TicketsOn

LEMMA SameSound ==
  ASSUME NEW s, NEW t, NEW k, Sound(s, k), Differ(s, t, Unsaid)
  PROVE  Sound(t, k)
<1> USE FieldNames
<1>1. t.feed = s.feed /\ t.loads = s.loads /\ t.detail = s.detail /\ t.toast = s.toast
  BY DEF Differ, Unsaid, Plain
<1>2. Differ(s, t, Unsaid \cup {"feed", "loads", "detail", "toast"}) BY Wider
<1>3. TicketsOn(s) \/ t.toast = Nothing \/ t.toast[1] = "post" BY <1>1 DEF Sound, NoTickets
<1> QED BY <1>1, <1>2, <1>3, NewsSound DEF Sound

LEMMA SameCounts ==
  ASSUME NEW s, NEW t, NEW k, Counts(s, k), Counted(t) = Counted(s)
  PROVE  Counts(t, k)
<1>1. /\ t.destroyed = s.destroyed /\ t.feed = s.feed /\ t.aged = s.aged
      /\ t.expiry = s.expiry /\ t.badge = s.badge /\ t.tickets = s.tickets
      /\ t.markers = s.markers
  BY DEF Counted
<1>2. UnreadPosts(t) = UnreadPosts(s) /\ UnreadTickets(t) = UnreadTickets(s)
  BY <1>1 DEF UnreadPosts, UnreadTickets, UnreadTicket
<1> QED BY <1>1, <1>2 DEF Counts, OutrunIn

LEMMA OffTicketsSame ==
  ASSUME NEW s, NEW t, Differ(s, t, Ticketed), TicketsOn(s), OffTickets(s)
  PROVE  OffTickets(t) /\ TicketsOn(t)
<1> USE FieldNames
<1>1. /\ t.sections = s.sections /\ t.section = s.section /\ t.open = s.open
      /\ t.destroyed = s.destroyed /\ t.body = s.body /\ t.token = s.token
      /\ t.submitted = s.submitted /\ t.feed = s.feed /\ t.aged = s.aged
      /\ t.detail = s.detail
  BY DEF Differ, Ticketed, Plain
<1>2. UnreadPosts(t) = UnreadPosts(s) BY <1>1 DEF UnreadPosts
<1>3. /\ FeedbackView(t) = FeedbackView(s) /\ DetailView(t) = DetailView(s)
      /\ \A U : MarkedIn(t, U) = MarkedIn(s, U)
  BY <1>1 DEF FeedbackView, FormView, DetailView, MarkedIn
<1> QED BY <1>1, <1>2, <1>3 DEF OffTickets, Shows, Formed, Announced, TicketsOn

LEMMA OffNewsSame ==
  ASSUME NEW s, NEW t, Differ(s, t, Newsy), OffNews(s)
  PROVE  OffNews(t)
<1> USE FieldNames
<1>1. /\ t.section = s.section /\ t.open = s.open
      /\ t.destroyed = s.destroyed /\ t.body = s.body /\ t.token = s.token
      /\ t.submitted = s.submitted /\ t.tickets = s.tickets
      /\ t.view = s.view /\ t.thread = s.thread /\ t.error = s.error
      /\ t.drafts = s.drafts /\ t.loadingTimer = s.loadingTimer
  BY DEF Differ, Newsy, Plain
<1>2. FeedbackView(t) = FeedbackView(s) /\ TicketsView(t) = TicketsView(s)
  BY <1>1 DEF FeedbackView, FormView, TicketsView, ThreadView, TicketsList
<1> QED BY <1>1, <1>2 DEF OffNews, Shows, Formed, Chatted

\* A view that is replaced has replies on their way all the same.
LEMMA NotHere ==
  ASSUME NEW k, NEW R, Replying(k, R)
  PROVE  Replying(k, {[r EXCEPT !.here = FALSE] : r \in R})
<1> SUFFICES ASSUME NEW q \in R PROVE Sending(k, [q EXCEPT !.here = FALSE]) BY DEF Replying
<1> DEFINE r == [q EXCEPT !.here = FALSE]
<1>1. Sending(k, q) BY DEF Replying
<1>2. r.of = q.of /\ r.got = q.got /\ DOMAIN r = DOMAIN q BY <1>1 DEF Sending
<1> HIDE DEF r
<1>3. Sending(k, r) BY <1>1, <1>2 DEF Sending
<1> QED BY <1>3 DEF r

\* The body shows what its section would: SwapView keeps and makes it so.
LEMMA SwapGood ==
  ASSUME NEW s, NEW k, Sound(s, k)
  PROVE  LET t == SwapView(s) IN
           /\ Sound(t, k) /\ Shows(t)
           /\ Counts(s, k) => Counts(t, k)
           /\ Differ(s, t, {"body", "busy", "replies"})
<1> USE FieldNames
<1> DEFINE t == SwapView(s)
<1>0. DOMAIN s = Names BY DEF Sound
<1>1. /\ Differ(s, t, {"body", "busy", "replies"})
      /\ t.body = SectionView(s) /\ t.replies = {[r EXCEPT !.here = FALSE] : r \in s.replies}
  BY <1>0, SwapFrame
<1> HIDE DEF t
<1>2. /\ t.sections = s.sections /\ t.section = s.section /\ t.open = s.open
      /\ t.destroyed = s.destroyed /\ t.toast = s.toast /\ t.badge = s.badge
      /\ t.expiry = s.expiry /\ t.token = s.token /\ t.submitted = s.submitted
      /\ t.feed = s.feed /\ t.aged = s.aged /\ t.detail = s.detail /\ t.tickets = s.tickets
      /\ t.view = s.view /\ t.thread = s.thread /\ t.error = s.error /\ t.markers = s.markers
      /\ t.drafts = s.drafts /\ t.loads = s.loads
      /\ t.listCall = s.listCall /\ t.threadCall = s.threadCall /\ t.loading = s.loading
      /\ t.loadingTimer = s.loadingTimer /\ t.cache = s.cache /\ t.asked = s.asked
      /\ t.creating = s.creating /\ DOMAIN t = Names
  BY <1>1 DEF Differ
<1>3. Replying(k, t.replies) BY <1>1, NotHere DEF Sound
<1>4. s.replies = {} => t.replies = {} BY <1>1
<1>5. Page(k, t.body)
  <2>1. s.thread = NoThread \/ s.thread.id \in DOMAIN k BY DEF Sound, Chosen, Talk
  <2>2. s.thread = NoThread => s.thread.id = None BY DEF NoThread
  <2>3. Page(k, ThreadView(s)) BY <2>1, <2>2 DEF Page, ThreadView
  <2>4. Page(k, TicketsView(s))
    BY <2>3 DEF TicketsView, Page, NewTicketView, TicketsList, Sound
  <2>5. Page(k, FeedbackView(s)) BY DEF FeedbackView, FormView, ThanksView, Page
  <2>6. Page(k, UpdatesView(s)) BY DEF UpdatesView, UpdatesList, DetailView, Page
  <2>7. SectionView(s) \in {UpdatesView(s), TicketsView(s), FeedbackView(s)}
    BY DEF SectionView, Sound
  <2> QED BY <1>1, <2>4, <2>5, <2>6, <2>7
<1>6. Sound(t, k) BY <1>2, <1>3, <1>4, <1>5 DEF Sound, NoTickets, TicketsOn
<1>7. Counts(s, k) => Counts(t, k) BY <1>2, SameCounts DEF Counted
<1>8. UnreadPosts(t) = UnreadPosts(s) BY <1>2 DEF UnreadPosts
<1>9. /\ FeedbackView(t) = FeedbackView(s) /\ TicketsView(t) = TicketsView(s)
      /\ DetailView(t) = DetailView(s) /\ \A U : MarkedIn(t, U) = MarkedIn(s, U)
  BY <1>2 DEF FeedbackView, FormView, TicketsView, ThreadView, TicketsList, DetailView, MarkedIn
<1>10. Shows(t)
  <2>1. s.section = "feedback" => Formed(t) BY <1>1, <1>9 DEF Formed, SectionView
  <2>2. s.section = "tickets" => Chatted(t) BY <1>1, <1>9 DEF Chatted, SectionView
  <2>3. s.section = "updates" => Announced(t)
    <3>1. UpdatesList(s) = MarkedIn(s, UnreadPosts(s) \cup {}) BY DEF UpdatesList, MarkedIn
    <3>2. s.section = "updates" => t.body = UpdatesView(s) BY <1>1 DEF SectionView
    <3>3. {} \in SUBSET t.aged /\ {} \subseteq t.expiry OBVIOUS
    <3> QED BY <1>2, <1>8, <1>9, <3>1, <3>2, <3>3 DEF Announced, UpdatesView
  <2> QED BY <1>2, <2>1, <2>2, <2>3 DEF Shows
<1> QED BY <1>1, <1>6, <1>7, <1>10 DEF t

\* What no view is built from, but for the timer where there are no tickets.
Unshown == Plain \cup {"badge", "expiry", "markers", "replies", "loads", "listCall", "threadCall",
                       "loading", "cache", "asked", "creating", "toast"}

LEMMA SameShows ==
  ASSUME NEW s, NEW t, Differ(s, t, Unshown), TicketsOn(s) \/ t.expiry = s.expiry, Shows(s)
  PROVE  Shows(t)
<1> USE FieldNames
<1>1. /\ t.sections = s.sections /\ t.section = s.section /\ t.open = s.open
      /\ t.destroyed = s.destroyed /\ t.body = s.body /\ t.token = s.token
      /\ t.submitted = s.submitted /\ t.feed = s.feed /\ t.aged = s.aged
      /\ t.detail = s.detail /\ t.tickets = s.tickets /\ t.view = s.view
      /\ t.thread = s.thread /\ t.error = s.error /\ t.drafts = s.drafts
      /\ t.loadingTimer = s.loadingTimer
  BY DEF Differ, Unshown, Plain
<1>2. UnreadPosts(t) = UnreadPosts(s) BY <1>1 DEF UnreadPosts
<1>3. /\ FeedbackView(t) = FeedbackView(s) /\ TicketsView(t) = TicketsView(s)
      /\ DetailView(t) = DetailView(s) /\ \A U : MarkedIn(t, U) = MarkedIn(s, U)
  BY <1>1 DEF FeedbackView, FormView, TicketsView, ThreadView, TicketsList, DetailView, MarkedIn
<1>4. s.section = "feedback" => (Formed(s) => Formed(t)) BY <1>3, <1>1 DEF Formed
<1>5. Chatted(s) => Chatted(t) BY <1>3, <1>1 DEF Chatted
<1>6. Announced(s) => Announced(t)
  <2>1. CASE s.detail.id # None BY <2>1, <1>1, <1>3 DEF Announced
  <2>2. CASE s.detail.id = None BY <2>2, <1>1, <1>2, <1>3 DEF Announced, TicketsOn
  <2> QED BY <2>1, <2>2
<1> QED BY <1>1, <1>4, <1>5, <1>6 DEF Shows

LEMMA UnchangedGood ==
  ASSUME NEW s, NEW k, Sound(s, k)
  PROVE  \A F : Differ(s, s, F)
BY DEF Differ, Sound

LEMMA SyncGood ==
  ASSUME NEW s, NEW k, Sound(s, k)
  PROVE  LET t == SyncBadges(s) IN
           /\ Sound(t, k) /\ Counts(t, k) /\ Differ(s, t, {"at", "badge", "expiry"})
           /\ TicketsOn(s) /\ Shows(s) => Shows(t)
<1> USE FieldNames
<1> DEFINE t == SyncBadges(s)
<1>0. DOMAIN s = Names BY DEF Sound
<1>1. /\ Differ(s, t, {"at", "badge", "expiry"}) /\ t.expiry = UnreadPosts(s)
      /\ t.badge = << Cardinality(UnreadPosts(s)), Cardinality(UnreadTickets(s)) >>
  BY <1>0, SyncFrame
<1> HIDE DEF t
<1>2. Differ(s, t, Unsaid) BY <1>1, Wider DEF Unsaid, Plain
<1>3. Sound(t, k) BY <1>2, SameSound
<1>4. t.feed = s.feed /\ t.aged = s.aged /\ t.tickets = s.tickets /\ t.markers = s.markers
  BY <1>1 DEF Differ
<1>5. UnreadPosts(t) = UnreadPosts(s) /\ UnreadTickets(t) = UnreadTickets(s)
  BY <1>4 DEF UnreadPosts, UnreadTickets, UnreadTicket
<1>6. UnreadPosts(t) = t.expiry \ t.aged BY <1>1, <1>4, <1>5 DEF UnreadPosts
<1>7. Counts(t, k)
  <2>1. UnreadTickets(t) \cup {} = UnreadTickets(t) OBVIOUS
  <2>2. t.badge[2] = Cardinality(UnreadTickets(t) \cup {}) BY <1>1, <1>5, <2>1
  <2>3. \E S \in SUBSET OutrunIn(t, k) : t.badge[2] = Cardinality(UnreadTickets(t) \cup S)
    BY <2>2
  <2>4. t.badge[1] = Cardinality(t.expiry) BY <1>1
  <2> QED BY <1>6, <2>3, <2>4 DEF Counts
<1>8. Differ(s, t, Unshown) BY <1>1, Wider DEF Unshown, Plain
<1>9. TicketsOn(s) /\ Shows(s) => Shows(t) BY <1>8, SameShows
<1> QED BY <1>1, <1>3, <1>7, <1>9 DEF t

\* repaintTicketView(): what other sections show stays, the tickets are shown as they are.
LEMMA RepaintTicketsGood ==
  ASSUME NEW s, NEW k, Sound(s, k), OffTickets(s)
  PROVE  LET t == RepaintTickets(s) IN
           /\ Sound(t, k) /\ Shows(t)
           /\ Counts(s, k) => Counts(t, k)
           /\ Differ(s, t, {"body", "busy", "replies"})
<1>1. CASE s.destroyed \/ ~s.open \/ s.section # "tickets"
  <2>1. RepaintTickets(s) = s BY <1>1 DEF RepaintTickets
  <2>2. Shows(s) BY <1>1 DEF OffTickets, Shows
  <2> QED BY <2>1, <2>2, UnchangedGood
<1>2. CASE ~(s.destroyed \/ ~s.open \/ s.section # "tickets")
  <2>1. RepaintTickets(s) = SwapView(s) BY <1>2 DEF RepaintTickets
  <2> QED BY <2>1, SwapGood
<1> QED BY <1>1, <1>2

LEMMA ShownDetail ==
  ASSUME NEW s, Shows(s)
  PROVE  Detailed(s) /\ OffNews(s) /\ OffTickets(s)
<1>1. ASSUME s.open, ~s.destroyed, s.section = "updates", s.detail.id = None
      PROVE  s.body[1] = "updates"
  <2>1. PICK U : s.body = MarkedIn(s, U) BY <1>1 DEF Shows, Announced
  <2> QED BY <2>1 DEF MarkedIn
<1>2. Detailed(s) BY <1>1 DEF Detailed, Shows, Announced
<1> QED BY <1>2 DEF OffNews, OffTickets

\* syncBadges(), then repaintUpdatesListIfVisible().
LEMMA SyncRepaintGood ==
  ASSUME NEW s, NEW k, Sound(s, k), OffNews(s), Detailed(s)
  PROVE  LET t == RepaintUpdates(SyncBadges(s)) IN
           /\ Good(t, k)
           /\ Differ(s, t, {"at", "badge", "expiry", "body", "busy", "replies"})
<1> USE FieldNames
<1> DEFINE u == SyncBadges(s)
           t == RepaintUpdates(u)
<1> SUFFICES /\ Good(t, k)
             /\ Differ(s, t, {"at", "badge", "expiry", "body", "busy", "replies"})
  OBVIOUS
<1>1. /\ Sound(u, k) /\ Counts(u, k) /\ Differ(s, u, {"at", "badge", "expiry"})
  BY SyncGood
<1> HIDE DEF u, t
<1>2. Differ(s, u, Newsy) BY <1>1, Wider DEF Newsy, Plain
<1>3. OffNews(u) BY <1>2, OffNewsSame
<1>4. u.open = s.open /\ u.destroyed = s.destroyed /\ u.section = s.section /\ u.body = s.body
      /\ u.detail = s.detail
  BY <1>1 DEF Differ
<1>5. CASE u.open /\ u.section = "updates" /\ u.body[1] = "updates"
  <2>1. t = SwapView(u) BY <1>5 DEF t, RepaintUpdates
  <2>2. Good(t, k) /\ Differ(u, t, {"body", "busy", "replies"})
    BY <1>1, <2>1, SwapGood DEF Good
  <2>3. Differ(s, t, {"at", "badge", "expiry"} \cup {"body", "busy", "replies"})
    BY <1>1, <2>2, Onward
  <2>4. Differ(s, t, {"at", "badge", "expiry", "body", "busy", "replies"}) BY <2>3, Wider
  <2> QED BY <2>2, <2>4
<1>6. CASE ~(u.open /\ u.section = "updates" /\ u.body[1] = "updates")
  <2>1. t = u BY <1>6 DEF t, RepaintUpdates
  <2>2. Shows(u)
    <3>1. ASSUME u.open, ~u.destroyed, u.section = "updates" PROVE Announced(u)
      <4>1. s.detail.id # None /\ s.body = DetailView(s) BY <1>4, <1>6, <3>1 DEF Detailed
      <4> QED BY <4>1, <1>4 DEF Announced, DetailView
    <3> QED BY <1>3, <3>1 DEF Shows, OffNews
  <2>3. Differ(s, t, {"at", "badge", "expiry", "body", "busy", "replies"}) BY <1>1, <2>1, Wider
  <2> QED BY <1>1, <2>1, <2>2, <2>3 DEF Good
<1> QED BY <1>5, <1>6

------------------------------------------------------------------------------
(* The panel, the toast, the form: what is shown                           *)

LEMMA QuietGood ==
  ASSUME NEW s, NEW t, NEW k, Good(s, k), Differ(s, t, Plain)
  PROVE  Good(t, k)
BY SameGood DEF Good

LEMMA ToastGood ==
  ASSUME NEW s, NEW t, NEW k, Good(s, k), Differ(s, t, Plain \cup {"toast"}),
         Toast(t.toast), TicketsOn(s) \/ t.toast = Nothing \/ t.toast[1] = "post"
  PROVE  Good(t, k)
<1> USE FieldNames
<1>1. /\ Differ(s, t, Unsaid \cup {"feed", "loads", "detail", "toast"})
      /\ Differ(s, t, Unshown)
  BY Wider DEF Unsaid, Unshown
<1>2. /\ t.feed = s.feed /\ t.loads = s.loads /\ t.detail = s.detail /\ t.expiry = s.expiry
      /\ Counted(t) = Counted(s)
  BY DEF Differ, Plain, Counted
<1>3. Sound(t, k) BY <1>1, <1>2, NewsSound DEF Good, Sound
<1>4. Counts(t, k) /\ Shows(t) BY <1>1, <1>2, SameCounts, SameShows DEF Good
<1> QED BY <1>3, <1>4 DEF Good

LEMMA HideToastGood ==
  ASSUME NEW s, NEW k, Sound(s, k)
  PROVE  Differ(s, HideToast(s), {"fading"})
<1> USE FieldNames
<1>1. Differ(s, [s EXCEPT !.fading = TRUE], {"fading"}) BY DEF Differ, Sound
<1> QED BY <1>1, UnchangedGood DEF HideToast

LEMMA FadeEndGood ==
  ASSUME NEW s, NEW k, Good(s, k)
  PROVE  Good(FadeEnd(s), k)
<1> USE FieldNames
<1> DEFINE t == FadeEnd(s)
<1>1. Differ(s, t, {"toast", "fading"}) /\ t.toast = Nothing
  BY DEF FadeEnd, Differ, Good, Sound
<1> HIDE DEF t
<1>2. Differ(s, t, Plain \cup {"toast"}) BY <1>1, Wider DEF Plain
<1>3. Toast(t.toast) BY <1>1 DEF Toast
<1>4. Good(t, k) BY <1>1, <1>2, <1>3, ToastGood
<1> QED BY <1>4 DEF t

LEMMA PreviewGood ==
  ASSUME NEW s, NEW k, NEW x, Good(s, k), Toast(x), TicketsOn(s) \/ x[1] = "post"
  PROVE  Good(ShowPreviewToast(s, x), k)
<1> USE FieldNames
<1> DEFINE t == [s EXCEPT !.toast = x]
<1>1. Differ(s, t, {"toast"}) /\ t.toast = x BY DEF Differ, Good, Sound
<1>2. ShowPreviewToast(s, x) \in {s, t} BY DEF ShowPreviewToast
<1> HIDE DEF t
<1>3. Differ(s, t, Plain \cup {"toast"}) BY <1>1, Wider
<1>4. Good(t, k) BY <1>1, <1>3, ToastGood
<1> QED BY <1>2, <1>4

LEMMA ShowToastGood ==
  ASSUME NEW s, NEW k, NEW p, Good(s, k)
  PROVE  Good(ShowToast(s, p), k)
<1> DEFINE x == <<"post", p, TRUE>>
<1>1. Toast(x) /\ x[1] = "post" BY DEF Toast
<1> HIDE DEF x
<1>2. Good(ShowPreviewToast(s, x), k) BY <1>1, PreviewGood
<1> QED BY <1>2 DEF ShowToast, x

LEMMA BodySound ==
  ASSUME NEW s, NEW t, NEW k, Sound(s, k),
         Differ(s, t, Unsaid \cup {"body", "detail", "replies", "section"}),
         Page(k, t.body), DOMAIN t.detail = {"id", "held"}, Replying(k, t.replies),
         s.replies = {} => t.replies = {}, t.section \in {"updates", "tickets", "feedback"},
         TicketsOn(s) \/ t.section # "tickets"
  PROVE  Sound(t, k)
<1> USE FieldNames
<1>1. /\ t.sections = s.sections /\ t.toast = s.toast /\ t.feed = s.feed /\ t.loads = s.loads
      /\ t.tickets = s.tickets /\ t.view = s.view /\ t.thread = s.thread /\ t.error = s.error
      /\ t.drafts = s.drafts /\ t.listCall = s.listCall
      /\ t.threadCall = s.threadCall /\ t.loading = s.loading
      /\ t.loadingTimer = s.loadingTimer /\ t.cache = s.cache /\ t.asked = s.asked
      /\ t.creating = s.creating /\ DOMAIN t = Names
  BY DEF Differ, Unsaid, Plain
<1> QED BY <1>1 DEF Sound, NoTickets, TicketsOn

LEMMA ClosePanelGood ==
  ASSUME NEW s, NEW k, NEW x, Good(s, k)
  PROVE  Good(ClosePanel(s, x), k)
<1> USE FieldNames
<1> DEFINE u == [s EXCEPT !.closing = FALSE]
           y == FinishActiveDelivery(u, "dismissed")
           d == IF x /\ ~u.submitted THEN y ELSE u
           o == [d EXCEPT !.open = FALSE]
           c == NoView(o)
           e == [c EXCEPT !.token = None, !.submitted = FALSE, !.done = FALSE,
                          !.finishing = TRUE]
<1>1. ClosePanel(s, x) = IF ~s.open THEN u ELSE IF s.token = None THEN c ELSE e
  BY DEF ClosePanel
<1>2. DOMAIN s = Names BY DEF Good, Sound
<1>3. Differ(s, u, {"closing"}) BY <1>2 DEF Differ
<1> HIDE DEF u
<1>4. Differ(u, y, {"done", "calls"}) BY <1>3 DEF Differ, FinishActiveDelivery
<1>5. Differ(u, d, {"done", "calls"}) BY <1>3, <1>4 DEF Differ
<1> HIDE DEF y, d
<1>6. Differ(s, d, {"closing"} \cup {"done", "calls"}) BY <1>3, <1>5, Onward
<1>7. Differ(s, u, Plain) /\ Differ(s, d, Plain) BY <1>3, <1>6, Wider DEF Plain
<1>8. Good(u, k) /\ Good(d, k) BY <1>7, QuietGood
<1>9. Differ(d, o, {"open"}) /\ o.open = FALSE BY <1>7 DEF Differ
<1> HIDE DEF o
<1>10. /\ Differ(o, c, {"body", "detail", "busy", "replies"})
       /\ c.body = <<"empty", None, {}>> /\ c.detail = [id |-> None, held |-> FALSE]
       /\ c.replies = {[r EXCEPT !.here = FALSE] : r \in o.replies}
  BY <1>9 DEF NoView, Differ
<1> HIDE DEF c
<1>11. /\ Differ(c, e, {"token", "submitted", "done", "finishing"})
  BY <1>10 DEF Differ
<1> HIDE DEF e
<1>12. Differ(d, c, Unsaid \cup {"body", "detail", "replies", "section"})
  <2>1. Differ(d, c, {"open"} \cup {"body", "detail", "busy", "replies"})
    BY <1>9, <1>10, Onward
  <2> QED BY <2>1, Wider DEF Unsaid, Plain
<1>13. Sound(c, k)
  <2>1. o.replies = d.replies /\ o.section = d.section BY <1>9 DEF Differ
  <2>2. Replying(k, c.replies)
    <3>1. Replying(k, o.replies) BY <1>8, <2>1 DEF Good, Sound
    <3> QED BY <1>10, <3>1, NotHere
  <2>3. d.replies = {} => c.replies = {} BY <1>10, <2>1
  <2>4. Page(k, c.body) BY <1>10 DEF Page
  <2>5. DOMAIN c.detail = {"id", "held"} BY <1>10
  <2>6. /\ c.section \in {"updates", "tickets", "feedback"}
        /\ TicketsOn(d) \/ c.section # "tickets"
    BY <1>8, <1>10, <2>1 DEF Differ, Good, Sound, NoTickets
  <2> QED BY <1>8, <1>12, <2>2, <2>3, <2>4, <2>5, <2>6, BodySound DEF Good
<1>14. Sound(e, k)
  <2>1. Differ(c, e, Unsaid) BY <1>11, Wider DEF Unsaid, Plain
  <2> QED BY <1>13, <2>1, SameSound
<1>15. Counted(o) = Counted(d) /\ Counted(c) = Counted(o) /\ Counted(e) = Counted(c)
  BY <1>9, <1>10, <1>11 DEF Differ, Counted
<1>16. Counts(c, k) /\ Counts(e, k)
  <2>1. Counted(c) = Counted(d) /\ Counted(e) = Counted(d) BY <1>15
  <2> QED BY <1>8, <2>1, SameCounts DEF Good
<1>17. c.open = FALSE /\ e.open = FALSE BY <1>9, <1>10, <1>11 DEF Differ
<1>18. Shows(c) /\ Shows(e) BY <1>17 DEF Shows
<1> QED BY <1>1, <1>8, <1>13, <1>14, <1>16, <1>18 DEF Good

\* The form is sent, thanks are in its place.
LEMMA SubmitGood ==
  ASSUME NEW s, NEW k, Good(s, k), s.section = "feedback"
  PROVE  Good(SubmitFeedback(s), k)
<1> USE FieldNames
<1> DEFINE t == SubmitFeedback(s)
<1>1. /\ Differ(s, t, {"calls", "done", "submitted", "body", "closing"})
      /\ t.submitted = TRUE /\ t.body = ThanksView
  BY DEF SubmitFeedback, Differ, Good, Sound
<1> HIDE DEF t
<1>2. Differ(s, t, Unsaid \cup {"body", "detail", "replies", "section"})
  BY <1>1, Wider DEF Unsaid, Plain
<1>3. t.section = s.section /\ t.replies = s.replies /\ t.detail = s.detail
  BY <1>1 DEF Differ
<1>4. Page(k, t.body) BY <1>1 DEF Page, ThanksView
<1>5. Sound(t, k) BY <1>2, <1>3, <1>4, BodySound DEF Good, Sound
<1>6. Counted(t) = Counted(s) BY <1>1 DEF Differ, Counted
<1>7. Counts(t, k) BY <1>6, SameCounts DEF Good
<1>8. Shows(t) BY <1>1, <1>3 DEF Shows, Formed, FeedbackView
<1>9. Good(t, k) BY <1>5, <1>7, <1>8 DEF Good
<1> QED BY <1>9 DEF t

\* loadTickets() and what else is no more than asked for.
LEMMA ListAskedGood ==
  ASSUME NEW s, NEW t, NEW k, Good(s, k), TicketsOn(s), Differ(s, t, Plain \cup {"listCall"}),
         t.listCall.got = << >>
  PROVE  Good(t, k)
<1> USE FieldNames
<1>1. Differ(s, t, Unshown) BY Wider DEF Unshown
<1>2. Counted(t) = Counted(s) BY DEF Differ, Plain, Counted
<1>3. /\ t.sections = s.sections /\ t.section = s.section /\ t.body = s.body
      /\ t.tickets = s.tickets /\ t.view = s.view /\ t.thread = s.thread /\ t.error = s.error
      /\ t.drafts = s.drafts /\ t.replies = s.replies /\ t.feed = s.feed /\ t.loads = s.loads
      /\ t.threadCall = s.threadCall /\ t.loading = s.loading /\ t.detail = s.detail
      /\ t.loadingTimer = s.loadingTimer /\ t.cache = s.cache /\ t.asked = s.asked
      /\ t.creating = s.creating /\ t.toast = s.toast /\ DOMAIN t = Names
  BY DEF Differ, Plain
<1>4. Sound(t, k) BY <1>3 DEF Good, Sound, TicketsOn, Listed
<1> QED BY <1>1, <1>2, <1>4, SameCounts, SameShows DEF Good

LEMMA LoadTicketsGood ==
  ASSUME NEW s, NEW k, Good(s, k)
  PROVE  /\ Good(LoadTickets(s), k) /\ Differ(s, LoadTickets(s), {"listCall"})
<1> USE FieldNames
<1> DEFINE t == [s EXCEPT !.listCall = Asked]
<1>1. LoadTickets(s) = IF s.listCall # Unasked \/ ~TicketsOn(s) \/ s.destroyed THEN s ELSE t
  BY DEF LoadTickets
<1>2. Differ(s, t, {"listCall"}) /\ t.listCall.got = << >>
  BY DEF Differ, Good, Sound, Asked
<1> HIDE DEF t
<1>3. Differ(s, t, Plain \cup {"listCall"}) BY <1>2, Wider
<1>4. TicketsOn(s) => Good(t, k) BY <1>2, <1>3, ListAskedGood
<1>5. Differ(s, s, {"listCall"}) BY UnchangedGood DEF Good
<1> QED BY <1>1, <1>2, <1>4, <1>5

LEMMA ShowSectionGood ==
  ASSUME NEW s, NEW k, NEW next, NEW late, Sound(s, k), Counts(s, k),
         next \in {"updates", "tickets", "feedback"}, TicketsOn(s) \/ next # "tickets"
  PROVE  LET t == ShowSection(s, next, late) IN
           /\ Good(t, k)
           /\ Differ(s, t, {"section", "detail", "body", "busy", "replies", "listCall"})
           /\ t.section = next
<1> USE FieldNames
<1> DEFINE a == [s EXCEPT !.section = next, !.detail = [id |-> None, held |-> FALSE]]
           u == SwapView(a)
           l == LoadTickets(u)
           t == ShowSection(s, next, late)
<1> SUFFICES /\ Good(t, k)
             /\ Differ(s, t, {"section", "detail", "body", "busy", "replies", "listCall"})
             /\ t.section = next
  OBVIOUS
<1>1. t \in {u, l} BY DEF ShowSection
<1> HIDE DEF t
<1>2. /\ Differ(s, a, {"section", "detail"}) /\ a.section = next
      /\ a.detail = [id |-> None, held |-> FALSE]
  BY DEF Differ, Sound
<1> HIDE DEF a
<1>3. Differ(s, a, Unsaid \cup {"body", "detail", "replies", "section"}) BY <1>2, Wider
<1>4. Page(k, a.body) /\ Replying(k, a.replies) /\ a.replies = s.replies
  BY <1>2 DEF Differ, Sound
<1>5. Sound(a, k) BY <1>2, <1>3, <1>4, BodySound
<1>6. Counts(a, k)
  <2>1. Counted(a) = Counted(s) BY <1>2 DEF Differ, Counted
  <2> QED BY <2>1, SameCounts
<1>7. Good(u, k) /\ Differ(a, u, {"body", "busy", "replies"}) BY <1>5, <1>6, SwapGood DEF Good
<1>8. Good(l, k) /\ Differ(u, l, {"listCall"}) BY <1>7, LoadTicketsGood
<1> HIDE DEF u, l
<1>9. Differ(s, u, {"section", "detail"} \cup {"body", "busy", "replies"}) BY <1>2, <1>7, Onward
<1>10. Differ(s, l, ({"section", "detail"} \cup {"body", "busy", "replies"}) \cup {"listCall"})
  BY <1>8, <1>9, Onward
<1> DEFINE F == {"section", "detail", "body", "busy", "replies", "listCall"}
<1>11. Differ(s, u, F) /\ Differ(s, l, F) BY <1>9, <1>10, Wider
<1>12. u.section = next /\ l.section = next BY <1>2, <1>7, <1>8 DEF Differ
<1> QED BY <1>1, <1>7, <1>8, <1>11, <1>12

LEMMA OpenPanelGood ==
  ASSUME NEW s, NEW k, NEW target, NEW late, Good(s, k),
         target \in {"updates", "tickets", "feedback"}, TicketsOn(s) \/ target # "tickets"
  PROVE  LET t == OpenPanel(s, target, late) IN
           /\ Good(t, k) /\ t.open /\ t.section = target
           /\ Differ(s, t, {"fading", "open", "section", "detail", "body", "busy", "replies",
                           "listCall"})
<1> USE FieldNames
<1> DEFINE h == HideToast(s)
           o == [h EXCEPT !.open = TRUE]
           t == ShowSection(o, target, late)
<1>1. Differ(s, h, {"fading"}) BY HideToastGood DEF Good
<1> HIDE DEF h
<1>2. Differ(h, o, {"open"}) /\ o.open = TRUE BY <1>1 DEF Differ
<1> HIDE DEF o
<1>3. Differ(s, o, {"fading"} \cup {"open"}) BY <1>1, <1>2, Onward
<1>4. Sound(o, k) /\ Counts(o, k)
  <2>1. Differ(s, o, Unsaid) BY <1>3, Wider DEF Unsaid, Plain
  <2>2. Counted(o) = Counted(s) BY <1>3 DEF Differ, Counted
  <2> QED BY <2>1, <2>2, SameSound, SameCounts DEF Good
<1>5. TicketsOn(o) = TicketsOn(s) BY <1>3 DEF Differ, TicketsOn
<1>6. /\ Good(t, k) /\ t.section = target
      /\ Differ(o, t, {"section", "detail", "body", "busy", "replies", "listCall"})
  BY <1>4, <1>5, ShowSectionGood
<1>7. OpenPanel(s, target, late) = t BY DEF OpenPanel, o, h
<1> HIDE DEF t
<1>8. t.open = TRUE BY <1>2, <1>6 DEF Differ
<1>9. Differ(s, t, ({"fading"} \cup {"open"})
                   \cup {"section", "detail", "body", "busy", "replies", "listCall"})
  BY <1>3, <1>6, Onward
<1>10. Differ(s, t, {"fading", "open", "section", "detail", "body", "busy", "replies",
                     "listCall"})
  BY <1>9, Wider
<1> QED BY <1>6, <1>7, <1>8, <1>10

LEMMA ClickedGood ==
  ASSUME NEW s, NEW k, NEW late, Good(s, k)
  PROVE  Good(LauncherClicked(s, late), k)
<1> USE FieldNames
<1> DEFINE t == [s EXCEPT !.suppress = FALSE]
<1>1. Differ(s, t, Plain) BY DEF Differ, Good, Sound, Plain
<1> HIDE DEF t
<1>2. Good(t, k) BY <1>1, QuietGood
<1>3. s.section \in {"updates", "tickets", "feedback"} /\ (TicketsOn(s) \/ s.section # "tickets")
  BY DEF Good, Sound, NoTickets
<1>4. Good(OpenPanel(s, s.section, late), k) BY <1>3, OpenPanelGood
<1>5. Good(ClosePanel(s, TRUE), k) BY ClosePanelGood
<1> QED BY <1>2, <1>4, <1>5 DEF LauncherClicked, t

------------------------------------------------------------------------------
(* The announcements: what is shown                                        *)

LEMMA LoadsGood ==
  ASSUME NEW s, NEW t, NEW k, Good(s, k), Differ(s, t, Plain \cup {"loads"}), Fetched(t.loads)
  PROVE  Good(t, k)
<1> USE FieldNames
<1>1. /\ Differ(s, t, Unsaid \cup {"feed", "loads", "detail", "toast"})
      /\ Differ(s, t, Unshown)
  BY Wider DEF Unsaid, Unshown
<1>2. /\ t.feed = s.feed /\ t.detail = s.detail /\ t.toast = s.toast /\ t.expiry = s.expiry
      /\ Counted(t) = Counted(s)
  BY DEF Differ, Plain, Counted
<1>3. TicketsOn(s) \/ t.toast = Nothing \/ t.toast[1] = "post"
  BY <1>2 DEF Good, Sound, NoTickets
<1>4. Sound(t, k) BY <1>1, <1>2, <1>3, NewsSound DEF Good, Sound
<1>5. Counts(t, k) /\ Shows(t) BY <1>1, <1>2, SameCounts, SameShows DEF Good
<1> QED BY <1>4, <1>5 DEF Good

LEMMA ScheduleNextGood ==
  ASSUME NEW s, NEW k, Good(s, k)
  PROVE  Good(ScheduleNext(s), k) /\ Differ(s, ScheduleNext(s), {"feedTimer"})
<1> USE FieldNames
<1>1. Differ(s, ScheduleNext(s), {"feedTimer"}) BY DEF ScheduleNext, Differ, Good, Sound
<1>2. Differ(s, ScheduleNext(s), Plain) BY <1>1, Wider DEF Plain
<1> QED BY <1>1, <1>2, QuietGood

LEMMA LoadGood ==
  ASSUME NEW s, NEW k, NEW initial, NEW then, Good(s, k), Loads(s.loads)
  PROVE  LET t == LoadAnnouncements(s, initial, then) IN
           Good(t, k) /\ Differ(s, t, {"loads", "feedTimer"})
<1> USE FieldNames
<1> DEFINE x == [initial |-> initial, then |-> then, got |-> << >>]
           u == [s EXCEPT !.loads = Append(@, x)]
           n == ScheduleNext(s)
<1>1. LoadAnnouncements(s, initial, then) \in {s, n, u} BY DEF LoadAnnouncements
<1>2. x.got = << >> OBVIOUS
<1> HIDE DEF x
<1>3. Differ(s, u, {"loads"}) /\ u.loads = Append(s.loads, x) BY DEF Differ, Good, Sound
<1> HIDE DEF u
<1>4. Fetched(u.loads)
  <2>1. PICK S : s.loads \in Seq(S) BY DEF Loads
  <2>2. /\ DOMAIN u.loads = 1..Len(s.loads) + 1 /\ DOMAIN s.loads = 1..Len(s.loads)
        /\ Len(s.loads) \in Nat /\ u.loads[Len(s.loads) + 1] = x
        /\ \A i \in 1..Len(s.loads) : u.loads[i] = s.loads[i]
    BY <1>3, <2>1
  <2>3. ASSUME NEW i \in DOMAIN u.loads PROVE u.loads[i].got = << >> \/ Posted(u.loads[i].got[1])
    <3>1. i \in 1..Len(s.loads) \/ i = Len(s.loads) + 1 BY <2>2
    <3> QED BY <1>2, <2>2, <3>1 DEF Good, Sound, Fetched
  <2> QED BY <2>3 DEF Fetched
<1>5. Differ(s, u, Plain \cup {"loads"}) BY <1>3, Wider
<1>6. Good(u, k) BY <1>4, <1>5, LoadsGood
<1>7. Good(n, k) /\ Differ(s, n, {"feedTimer"}) BY ScheduleNextGood
<1> HIDE DEF n
<1>8. \A t \in {s, n, u} : Differ(s, t, {"loads", "feedTimer"})
  BY <1>3, <1>7, Wider, UnchangedGood DEF Good
<1> QED BY <1>1, <1>6, <1>7, <1>8

LEMMA LoadDoneGood ==
  ASSUME NEW s, NEW k, Good(s, k), Loads(s.loads), NEW i \in DOMAIN s.loads
  PROVE  Good(LoadDone(s, i), k)
<1> USE FieldNames
<1> DEFINE q == s.loads
           r == SubSeq(q, 1, i - 1) \o SubSeq(q, i + 1, Len(q))
           u == [s EXCEPT !.loads = r]
           n == ScheduleNext(u)
<1>1. LoadDone(s, i) \in {u, n} BY DEF LoadDone
<1>2. \A j \in DOMAIN r : \E m \in DOMAIN q : r[j] = q[m] BY LoadsShrink
<1> HIDE DEF r
<1>3. Differ(s, u, Plain \cup {"loads"}) /\ u.loads = r BY DEF Differ, Good, Sound
<1> HIDE DEF u
<1>4. Fetched(u.loads) BY <1>2, <1>3 DEF Good, Sound, Fetched
<1>5. Good(u, k) BY <1>3, <1>4, LoadsGood
<1>6. Good(n, k) BY <1>5, ScheduleNextGood
<1> QED BY <1>1, <1>5, <1>6

\* What a load, an event or the visitor does to the list, then shown by
\* syncBadges() and repaintUpdatesListIfVisible().
LEMMA FeedGood ==
  ASSUME NEW s, NEW f, NEW k, Good(s, k), Differ(s, f, Plain \cup {"feed", "detail", "toast"}),
         Posted(f.feed), DOMAIN f.detail = {"id", "held"}, f.detail.id = s.detail.id,
         Toast(f.toast), TicketsOn(s) \/ f.toast = Nothing \/ f.toast[1] = "post"
  PROVE  Good(RepaintUpdates(SyncBadges(f)), k)
<1> USE FieldNames
<1>1. /\ Differ(s, f, Unsaid \cup {"feed", "loads", "detail", "toast"})
      /\ Differ(s, f, Newsy)
  BY Wider DEF Unsaid, Newsy
<1>2. /\ f.loads = s.loads /\ f.open = s.open /\ f.destroyed = s.destroyed
      /\ f.section = s.section /\ f.body = s.body
  BY DEF Differ, Plain
<1>3. Sound(f, k) BY <1>1, <1>2, NewsSound DEF Good, Sound
<1>4. OffNews(f) BY <1>1, OffNewsSame, ShownDetail DEF Good
<1>5. Detailed(s) BY ShownDetail DEF Good
<1>6. Detailed(f) BY <1>2, <1>5 DEF Detailed, DetailView
<1> QED BY <1>3, <1>4, <1>6, SyncRepaintGood

LEMMA DetachedFrame ==
  ASSUME NEW s, NEW S, NEW k, Sound(s, k)
  PROVE  LET t == Detached(s, S) IN
           /\ Differ(s, t, {"detail", "posts", "toast"})
           /\ DOMAIN t.detail = {"id", "held"} /\ t.detail.id = s.detail.id
           /\ Toast(t.toast) /\ (TicketsOn(s) \/ t.toast = Nothing \/ t.toast[1] = "post")
<1> USE FieldNames
<1> DEFINE t == Detached(s, S)
           h == s.detail.held /\ s.detail.id \notin S
           q == {[r EXCEPT !.held = @ /\ r.of \notin S] : r \in s.posts}
           x == IF s.toast # Nothing /\ s.toast[1] = "post" /\ s.toast[2] \in S
                THEN <<"post", s.toast[2], FALSE>> ELSE s.toast
<1>1. t = [s EXCEPT !.detail.held = h, !.posts = q, !.toast = x] BY DEF Detached, Sound
<1>2. Toast(x) /\ (TicketsOn(s) \/ x = Nothing \/ x[1] = "post")
  BY DEF Sound, Toast, NoTickets
<1> HIDE DEF t, h, q, x
<1>3. /\ Differ(s, t, {"detail", "posts", "toast"}) /\ t.toast = x
      /\ t.detail = [s.detail EXCEPT !.held = h]
  BY <1>1 DEF Sound, Differ
<1>4. DOMAIN s.detail = {"id", "held"} BY DEF Sound
<1>5. DOMAIN t.detail = {"id", "held"} /\ t.detail.id = s.detail.id BY <1>3, <1>4
<1> QED BY <1>2, <1>3, <1>5 DEF t

LEMMA ApplyFeedGood ==
  ASSUME NEW s, NEW k, NEW initial, NEW next, Good(s, k), Posted(next)
  PROVE  Good(ApplyFeed(s, initial, next), k)
<1> USE FieldNames
<1> DEFINE d == Detached(s, Posts)
           f == [d EXCEPT !.feed = next, !.seen = DOMAIN next]
           u == RepaintUpdates(SyncBadges(f))
           fresh == {p \in DOMAIN next : ~next[p].read /\ p \notin s.seen}
           recent == fresh \cap UnreadPosts(u)
           newest == CHOOSE p \in recent : \A q \in recent : p >= q
<1>1. ApplyFeed(s, initial, next) = IF initial \/ recent = {} THEN u ELSE ShowToast(u, newest)
  BY DEF ApplyFeed
<1>2. /\ Differ(s, d, {"detail", "posts", "toast"})
      /\ DOMAIN d.detail = {"id", "held"} /\ d.detail.id = s.detail.id
      /\ Toast(d.toast) /\ (TicketsOn(s) \/ d.toast = Nothing \/ d.toast[1] = "post")
  BY DetachedFrame DEF Good
<1> HIDE DEF d
<1>3. Differ(d, f, {"feed", "seen"}) /\ f.feed = next BY <1>2 DEF Differ
<1> HIDE DEF f
<1>4. Differ(s, f, {"detail", "posts", "toast"} \cup {"feed", "seen"}) BY <1>2, <1>3, Onward
<1>5. Differ(s, f, Plain \cup {"feed", "detail", "toast"}) BY <1>4, Wider DEF Plain
<1>6. f.detail = d.detail /\ f.toast = d.toast BY <1>3 DEF Differ
<1>7. Good(u, k) BY <1>2, <1>3, <1>5, <1>6, FeedGood
<1> HIDE DEF u, fresh, recent, newest
<1>8. Good(ShowToast(u, newest), k) BY <1>7, ShowToastGood
<1> QED BY <1>1, <1>7, <1>8

LEMMA FeedAnsweredGood ==
  ASSUME NEW s, NEW k, Good(s, k), Base(s), NEW i \in DOMAIN s.loads, s.loads[i].got # << >>
  PROVE  Good(FeedAnswered(s, i), k)
<1> DEFINE a == ApplyFeed(s, s.loads[i].initial, s.loads[i].got[1])
           u == IF s.destroyed THEN s ELSE a
<1>1. FeedAnswered(s, i) = LoadDone(u, i) BY DEF FeedAnswered
<1>2. Posted(s.loads[i].got[1]) BY DEF Good, Sound, Fetched
<1>3. Good(a, k) BY <1>2, ApplyFeedGood
<1>4. a.loads = s.loads /\ Base(a) BY ApplyFeedKeeps DEF Kept, SameSource
<1> HIDE DEF a
<1>5. Good(u, k) /\ u.loads = s.loads /\ Loads(u.loads) BY <1>3, <1>4 DEF Base, Loose, Shape
<1> HIDE DEF u
<1>6. Good(LoadDone(u, i), k) BY <1>5, LoadDoneGood
<1> QED BY <1>1, <1>6

LEMMA PostRemovedGood ==
  ASSUME NEW s, NEW k, NEW p, Good(s, k)
  PROVE  Good(PostRemoved(s, p), k)
<1> USE FieldNames
<1> DEFINE d == Detached(s, {p})
           g == Restrict(d.feed, DOMAIN d.feed \ {p})
           f == [d EXCEPT !.feed = g, !.seen = @ \ {p}]
<1>1. PostRemoved(s, p) = RepaintUpdates(SyncBadges(f)) BY DEF PostRemoved
<1>2. /\ Differ(s, d, {"detail", "posts", "toast"})
      /\ DOMAIN d.detail = {"id", "held"} /\ d.detail.id = s.detail.id
      /\ Toast(d.toast) /\ (TicketsOn(s) \/ d.toast = Nothing \/ d.toast[1] = "post")
  BY DetachedFrame DEF Good
<1> HIDE DEF d
<1>3. Posted(g)
  <2>1. Posted(d.feed) BY <1>2 DEF Differ, Good, Sound
  <2> QED BY <2>1 DEF Posted, Restrict
<1> HIDE DEF g
<1>4. Differ(d, f, {"feed", "seen"}) /\ f.feed = g BY <1>2 DEF Differ
<1> HIDE DEF f
<1>5. Differ(s, f, {"detail", "posts", "toast"} \cup {"feed", "seen"}) BY <1>2, <1>4, Onward
<1>6. Differ(s, f, Plain \cup {"feed", "detail", "toast"}) BY <1>5, Wider DEF Plain
<1>7. f.detail = d.detail /\ f.toast = d.toast BY <1>4 DEF Differ
<1> QED BY <1>1, <1>2, <1>3, <1>4, <1>6, <1>7, FeedGood

LEMMA PostChangedGood ==
  ASSUME NEW s, NEW k, NEW type, NEW p, NEW ver, Good(s, k)
  PROVE  Good(PostChanged(s, type, p, ver), k)
<1> USE FieldNames
<1> DEFINE d == Detached(s, {p})
           read == p \in DOMAIN s.feed /\ s.feed[p].read
           merged == [ver |-> ver, read |-> read, commented |-> FALSE]
           g == [q \in DOMAIN d.feed \cup {p} |-> IF q = p THEN merged ELSE d.feed[q]]
           f == [d EXCEPT !.seen = @ \cup {p}, !.feed = g]
           u == RepaintUpdates(SyncBadges(f))
<1>1. PostChanged(s, type, p, ver)
      = IF type = "published" /\ p \notin s.seen /\ ~u.open THEN ShowToast(u, p) ELSE u
  BY DEF PostChanged
<1>2. /\ Differ(s, d, {"detail", "posts", "toast"})
      /\ DOMAIN d.detail = {"id", "held"} /\ d.detail.id = s.detail.id
      /\ Toast(d.toast) /\ (TicketsOn(s) \/ d.toast = Nothing \/ d.toast[1] = "post")
  BY DetachedFrame DEF Good
<1>3. DOMAIN merged = {"ver", "read", "commented"} OBVIOUS
<1> HIDE DEF d, merged
<1>4. Posted(g)
  <2>1. Posted(d.feed) BY <1>2 DEF Differ, Good, Sound
  <2> QED BY <1>3, <2>1 DEF Posted
<1> HIDE DEF g
<1>5. Differ(d, f, {"feed", "seen"}) /\ f.feed = g BY <1>2 DEF Differ
<1> HIDE DEF f
<1>6. Differ(s, f, {"detail", "posts", "toast"} \cup {"feed", "seen"}) BY <1>2, <1>5, Onward
<1>7. Differ(s, f, Plain \cup {"feed", "detail", "toast"}) BY <1>6, Wider DEF Plain
<1>8. f.detail = d.detail /\ f.toast = d.toast BY <1>5 DEF Differ
<1>9. Good(u, k) BY <1>2, <1>4, <1>5, <1>7, <1>8, FeedGood
<1> HIDE DEF u
<1>10. Good(ShowToast(u, p), k) BY <1>9, ShowToastGood
<1> QED BY <1>1, <1>9, <1>10

\* An announcement is marked as commented: no view says so.
LEMMA CommentedGood ==
  ASSUME NEW s, NEW k, NEW p, Good(s, k)
  PROVE  Good([s EXCEPT !.feed[p].commented = TRUE], k)
<1> USE FieldNames
<1> DEFINE g == [s.feed EXCEPT ![p].commented = TRUE]
           t == [s EXCEPT !.feed = g]
<1>1. [s EXCEPT !.feed[p].commented = TRUE] = t OBVIOUS
<1>2. /\ DOMAIN g = DOMAIN s.feed
      /\ \A q \in DOMAIN g : /\ DOMAIN g[q] = {"ver", "read", "commented"}
                             /\ g[q].read = s.feed[q].read /\ g[q].ver = s.feed[q].ver
  <2>1. Posted(s.feed) BY DEF Good, Sound
  <2> QED BY <2>1 DEF Posted
<1> HIDE DEF g
<1>3. Differ(s, t, {"feed"}) /\ t.feed = g BY DEF Differ, Good, Sound
<1> HIDE DEF t
<1>4. /\ t.destroyed = s.destroyed /\ t.aged = s.aged /\ t.expiry = s.expiry
      /\ t.badge = s.badge /\ t.tickets = s.tickets /\ t.markers = s.markers
      /\ t.open = s.open /\ t.section = s.section /\ t.sections = s.sections
      /\ t.body = s.body /\ t.detail = s.detail /\ t.loads = s.loads /\ t.toast = s.toast
  BY <1>3 DEF Differ
<1>5. UnreadPosts(t) = UnreadPosts(s) BY <1>2, <1>3, <1>4 DEF UnreadPosts
<1>6. UnreadTickets(t) = UnreadTickets(s) BY <1>4 DEF UnreadTickets, UnreadTicket
<1>7. Counts(t, k) BY <1>4, <1>5, <1>6 DEF Good, Counts, OutrunIn
<1>8. Sound(t, k)
  <2>1. Differ(s, t, Unsaid \cup {"feed", "loads", "detail", "toast"}) BY <1>3, Wider
  <2>2. Posted(t.feed) BY <1>2, <1>3 DEF Posted
  <2> QED BY <1>4, <2>1, <2>2, NewsSound, SMTT(30) DEF Good, Sound, NoTickets
<1>9. OffNews(t)
  <2>1. Differ(s, t, Newsy) BY <1>3, Wider DEF Newsy
  <2> QED BY <2>1, OffNewsSame, ShownDetail DEF Good
<1>10. ASSUME Announced(s) PROVE Announced(t)
  <2>1. \A U : MarkedIn(t, U) = MarkedIn(s, U) BY <1>2, <1>3 DEF MarkedIn
  <2>2. DetailView(t) = DetailView(s) BY <1>4 DEF DetailView
  <2>3. CASE s.detail.id # None BY <1>10, <2>3, <1>4, <2>2 DEF Announced
  <2>4. CASE s.detail.id = None
    BY <1>10, <2>4, <1>4, <1>5, <2>1 DEF Announced, TicketsOn
  <2> QED BY <2>3, <2>4
<1>11. Shows(t) BY <1>4, <1>9, <1>10 DEF Good, Shows, OffNews
<1> QED BY <1>1, <1>7, <1>8, <1>11 DEF Good

LEMMA CommentGood ==
  ASSUME NEW s, NEW k, NEW r, NEW stored, Good(s, k)
  PROVE  Good(SendComment(s), k) /\ Good(CommentAnswered(s, r, stored), k)
<1> USE FieldNames
<1>1. Differ(s, SendComment(s), Plain) BY DEF SendComment, Differ, Good, Sound, Plain
<1> DEFINE here == s.detail.id = r.of /\ s.comment = "sending"
           u == [s EXCEPT !.posts = @ \ {r},
                          !.comment = IF ~here THEN @ ELSE IF stored THEN "done" ELSE "ready"]
           v == [u EXCEPT !.feed[r.of].commented = TRUE]
<1>2. CommentAnswered(s, r, stored) = IF stored /\ r.held THEN v ELSE u
  BY DEF CommentAnswered
<1> HIDE DEF here
<1>3. Differ(s, u, Plain) BY DEF Differ, Good, Sound, Plain
<1> HIDE DEF u
<1>4. Good(SendComment(s), k) /\ Good(u, k) BY <1>1, <1>3, QuietGood
<1>5. Good(v, k) BY <1>4, CommentedGood
<1> HIDE DEF v
<1> QED BY <1>2, <1>4, <1>5

\* openDetail(a): the announcement is read, the badges know, its detail is shown.
LEMMA OpenDetailGood ==
  ASSUME NEW s, NEW k, NEW p, NEW held, Good(s, k)
  PROVE  Good(OpenDetail(s, p, held), k)
<1> USE FieldNames
<1> DEFINE first == ~held \/ ~s.feed[p].read
           g == [s.feed EXCEPT ![p].read = TRUE]
           m == [s EXCEPT !.feed = g]
           u == IF held THEN m ELSE s
           v == [u EXCEPT !.posts = @ \cup {Post(p, "read", held)}]
           y == SyncBadges(v)
           r == IF first THEN y ELSE u
           form == IF held /\ u.feed[p].commented THEN "done" ELSE "ready"
           x == [r EXCEPT !.detail = [id |-> p, held |-> held], !.comment = form]
<1>1. OpenDetail(s, p, held) = SwapView(x) BY DEF OpenDetail
<1>2. /\ DOMAIN g = DOMAIN s.feed
      /\ \A q \in DOMAIN g : /\ DOMAIN g[q] = {"ver", "read", "commented"}
                             /\ g[q].read = IF q = p THEN TRUE ELSE s.feed[q].read
  <2>1. Posted(s.feed) BY DEF Good, Sound
  <2> QED BY <2>1 DEF Posted
<1> HIDE DEF g
<1>3. Differ(s, m, {"feed"}) /\ m.feed = g BY DEF Differ, Good, Sound
<1> HIDE DEF m
<1>4. Sound(m, k)
  <2>1. Differ(s, m, Unsaid \cup {"feed", "loads", "detail", "toast"}) BY <1>3, Wider
  <2>2. Posted(m.feed) BY <1>2, <1>3 DEF Posted
  <2>3. m.loads = s.loads /\ m.detail = s.detail /\ m.toast = s.toast BY <1>3 DEF Differ
  <2> QED BY <2>1, <2>2, <2>3, NewsSound, SMTT(30) DEF Good, Sound, NoTickets
<1>5. Sound(u, k) BY <1>4 DEF Good
<1>6. ~first => Counts(u, k)
  <2> SUFFICES ASSUME ~first PROVE Counts(m, k) OBVIOUS
  <2>1. /\ m.destroyed = s.destroyed /\ m.aged = s.aged /\ m.expiry = s.expiry
        /\ m.badge = s.badge /\ m.tickets = s.tickets /\ m.markers = s.markers
    BY <1>3 DEF Differ
  <2>2. UnreadPosts(m) = UnreadPosts(s) BY <1>2, <1>3, <2>1 DEF UnreadPosts
  <2>3. UnreadTickets(m) = UnreadTickets(s) BY <2>1 DEF UnreadTickets, UnreadTicket
  <2> QED BY <2>1, <2>2, <2>3 DEF Good, Counts, OutrunIn
<1> HIDE DEF u, first
<1>7. Differ(u, v, Plain) BY <1>5 DEF Differ, Sound, Plain
<1>8. Sound(v, k) BY <1>5, <1>7, SameGood
<1> HIDE DEF v
<1>9. Sound(y, k) /\ Counts(y, k) BY <1>8, SyncGood
<1> HIDE DEF y
<1>10. Sound(r, k) /\ Counts(r, k) BY <1>5, <1>6, <1>9
<1> HIDE DEF r, form
<1>11. Differ(r, x, {"detail", "comment"}) /\ x.detail = [id |-> p, held |-> held]
  BY <1>10 DEF Differ, Sound
<1> HIDE DEF x
<1>12. Sound(x, k)
  <2>1. Differ(r, x, Unsaid \cup {"feed", "loads", "detail", "toast"})
    BY <1>11, Wider DEF Unsaid, Plain
  <2>2. x.feed = r.feed /\ x.loads = r.loads /\ x.toast = r.toast BY <1>11 DEF Differ
  <2>3. DOMAIN x.detail = {"id", "held"} BY <1>11
  <2> QED BY <1>10, <2>1, <2>2, <2>3, NewsSound, SMTT(30) DEF Sound, NoTickets
<1>13. Counts(x, k)
  <2>1. Counted(x) = Counted(r) BY <1>11 DEF Differ, Counted
  <2> QED BY <1>10, <2>1, SameCounts
<1> QED BY <1>1, <1>12, <1>13, SwapGood DEF Good

\* Three days have passed: the announcement stays in the list as it was marked.
LEMMA AgedGood ==
  ASSUME NEW s, NEW k, NEW p, Good(s, k)
  PROVE  Good([s EXCEPT !.aged = @ \cup {p}], k)
<1> USE FieldNames
<1> DEFINE t == [s EXCEPT !.aged = @ \cup {p}]
<1>1. Differ(s, t, {"aged"}) /\ t.aged = s.aged \cup {p} BY DEF Differ, Good, Sound
<1> HIDE DEF t
<1>2. /\ t.destroyed = s.destroyed /\ t.feed = s.feed /\ t.expiry = s.expiry
      /\ t.badge = s.badge /\ t.tickets = s.tickets /\ t.markers = s.markers
      /\ t.open = s.open /\ t.section = s.section /\ t.sections = s.sections
      /\ t.body = s.body /\ t.detail = s.detail
  BY <1>1 DEF Differ
<1>3. UnreadPosts(t) = UnreadPosts(s) \ {p} BY <1>1, <1>2 DEF UnreadPosts
<1>4. UnreadTickets(t) = UnreadTickets(s) BY <1>2 DEF UnreadTickets, UnreadTicket
<1>5. Counts(t, k)
  <2>1. s.expiry \ t.aged = (s.expiry \ s.aged) \ {p} BY <1>1
  <2>2. OutrunIn(t, k) = OutrunIn(s, k) BY <1>2 DEF OutrunIn
  <2> QED BY <1>2, <1>3, <1>4, <2>1, <2>2 DEF Good, Counts
<1>6. Sound(t, k)
  <2>1. Differ(s, t, Unsaid) BY <1>1, Wider DEF Unsaid
  <2> QED BY <2>1, SameSound DEF Good
<1>7. OffNews(t)
  <2>1. Differ(s, t, Newsy) BY <1>1, Wider DEF Newsy
  <2> QED BY <2>1, OffNewsSame, ShownDetail DEF Good
<1>8. ASSUME Announced(s), ~s.destroyed PROVE Announced(t)
  <2>1. \A U : MarkedIn(t, U) = MarkedIn(s, U) BY <1>2 DEF MarkedIn
  <2>2. DetailView(t) = DetailView(s) BY <1>2 DEF DetailView
  <2>3. CASE s.detail.id # None BY <1>8, <2>3, <1>2, <2>2 DEF Announced
  <2>4. CASE s.detail.id = None
    <3>1. PICK S \in SUBSET s.aged : /\ s.body = MarkedIn(s, UnreadPosts(s) \cup S)
                                     /\ TicketsOn(s) \/ S \subseteq s.expiry
      BY <1>8, <2>4 DEF Announced
    <3> DEFINE T == S \cup ({p} \cap UnreadPosts(s))
    <3>2. T \in SUBSET t.aged /\ UnreadPosts(t) \cup T = UnreadPosts(s) \cup S BY <1>1, <1>3
    <3>3. UnreadPosts(s) \subseteq s.expiry BY <1>8 DEF Good, Counts
    <3>4. TicketsOn(t) \/ T \subseteq t.expiry BY <1>2, <3>1, <3>3 DEF TicketsOn
    <3>5. t.body = MarkedIn(t, UnreadPosts(t) \cup T) BY <1>2, <2>1, <3>1, <3>2
    <3> HIDE DEF T
    <3> QED BY <1>2, <2>4, <3>2, <3>4, <3>5 DEF Announced
  <2> QED BY <2>3, <2>4
<1>9. Shows(t) BY <1>2, <1>7, <1>8 DEF Good, Shows, OffNews
<1>10. Good(t, k) BY <1>5, <1>6, <1>9 DEF Good
<1> QED BY <1>10 DEF t

LEMMA ExpiredGood ==
  ASSUME NEW s, NEW k, Good(s, k)
  PROVE  Good(Expired([s EXCEPT !.expiry = {}]), k)
<1> USE FieldNames
<1> DEFINE t == [s EXCEPT !.expiry = {}]
<1>1. Differ(s, t, {"expiry"}) BY DEF Differ, Good, Sound
<1> HIDE DEF t
<1>2. Sound(t, k)
  <2>1. Differ(s, t, Unsaid) BY <1>1, Wider DEF Unsaid
  <2> QED BY <2>1, SameSound DEF Good
<1>3. CASE t.destroyed
  <2>1. Expired(t) = t BY <1>3 DEF Expired
  <2>2. Counts(t, k) /\ Shows(t) BY <1>3 DEF Counts, Shows
  <2> QED BY <1>2, <2>1, <2>2 DEF Good, t
<1>4. CASE ~t.destroyed
  <2>1. Expired(t) = RepaintUpdates(SyncBadges(t)) BY <1>4 DEF Expired
  <2>2. Differ(s, t, Newsy) BY <1>1, Wider DEF Newsy
  <2>3. OffNews(t) BY <2>2, OffNewsSame, ShownDetail DEF Good
  <2>4. /\ t.open = s.open /\ t.destroyed = s.destroyed /\ t.section = s.section
        /\ t.body = s.body /\ t.detail = s.detail
    BY <1>1 DEF Differ
  <2>5. Detailed(t) BY <2>4, ShownDetail DEF Good, Detailed, DetailView
  <2> QED BY <1>2, <2>1, <2>3, <2>5, SyncRepaintGood DEF t
<1> QED BY <1>3, <1>4

------------------------------------------------------------------------------
(* The tickets: what is shown                                              *)

\* What the functions of the tickets find, before they repaint.
Half(s, k) == Sound(s, k) /\ TicketsOn(s) /\ OffTickets(s)

LEMMA GoodHalf ==
  ASSUME NEW s, NEW k, Good(s, k), TicketsOn(s)
  PROVE  Half(s, k)
BY ShownDetail DEF Good, Half

LEMMA HalfSame ==
  ASSUME NEW s, NEW t, NEW k, Half(s, k), Differ(s, t, Ticketed), Sound(t, k)
  PROVE  Half(t, k)
BY OffTicketsSame DEF Half

LEMMA HalfRepainted ==
  ASSUME NEW s, NEW k, Half(s, k), Counts(s, k)
  PROVE  Good(RepaintTickets(s), k)
BY RepaintTicketsGood DEF Half, Good

LEMMA SchedulePollGood ==
  ASSUME NEW s, NEW k, Good(s, k)
  PROVE  Good(SchedulePoll(s), k) /\ Differ(s, SchedulePoll(s), {"poll"})
<1> USE FieldNames
<1> DEFINE x == s.socket # "open" /\ ~s.destroyed /\ (s.live \/ s.retry)
<1>1. SchedulePoll(s) = [s EXCEPT !.poll = x] BY DEF SchedulePoll
<1> HIDE DEF x
<1>2. Differ(s, SchedulePoll(s), {"poll"}) BY <1>1 DEF Differ, Good, Sound
<1>3. Differ(s, SchedulePoll(s), Plain) BY <1>2, Wider DEF Plain
<1> QED BY <1>2, <1>3, QuietGood

\* markTicketRead(): the views do not tell which tickets are unread.
LEMMA MarkReadGood ==
  ASSUME NEW s, NEW k, NEW n, NEW sum, Half(s, k)
  PROVE  LET t == MarkTicketRead(s, n, sum) IN
           /\ Half(t, k) /\ Differ(s, t, {"markers", "at", "badge", "expiry"})
           /\ Counts(s, k) => Counts(t, k)
           /\ Shows(s) => Shows(t)
<1> USE FieldNames
<1> DEFINE u == [s EXCEPT !.markers[n] = sum.count]
           t == SyncBadges(u)
<1>1. MarkTicketRead(s, n, sum) \in {s, t} BY DEF MarkTicketRead
<1>2. Differ(s, u, {"markers"}) BY DEF Differ, Half, Sound
<1> HIDE DEF u
<1>3. Sound(u, k)
  <2>1. Differ(s, u, Unsaid) BY <1>2, Wider DEF Unsaid
  <2> QED BY <2>1, SameSound DEF Half
<1>4. Sound(t, k) /\ Counts(t, k) /\ Differ(u, t, {"at", "badge", "expiry"})
  BY <1>3, SyncGood
<1> HIDE DEF t
<1>5. Differ(s, t, {"markers"} \cup {"at", "badge", "expiry"}) BY <1>2, <1>4, Onward
<1>6. /\ Differ(s, t, {"markers", "at", "badge", "expiry"})
      /\ Differ(s, t, Ticketed) /\ Differ(s, t, Unshown)
  BY <1>5, Wider DEF Ticketed, Unshown, Plain
<1>7. Half(t, k) BY <1>4, <1>6, HalfSame
<1>8. Shows(s) => Shows(t) BY <1>6, SameShows DEF Half
<1>9. Differ(s, s, {"markers", "at", "badge", "expiry"}) BY UnchangedGood DEF Half
<1> QED BY <1>1, <1>4, <1>6, <1>7, <1>8, <1>9

\* rememberTicketThread(): on the screen and among those kept.
LEMMA RememberGood ==
  ASSUME NEW s, NEW k, NEW th, Half(s, k), Talk(k, th), Chosen(k, th, s.view)
  PROVE  LET t == RememberThread(s, th) IN
           /\ Half(t, k) /\ Differ(s, t, {"thread", "cache"}) /\ t.thread = th
           /\ Counts(s, k) => Counts(t, k)
<1> USE FieldNames
<1> DEFINE t == RememberThread(s, th)
<1>1. /\ Differ(s, t, {"thread", "cache"}) /\ t.thread = th
      /\ t.cache = [s.cache EXCEPT ![th.id] = th]
  BY DEF RememberThread, Differ, Half, Sound
<1> HIDE DEF t
<1>2. /\ /\ t.sections = s.sections /\ t.section = s.section /\ t.body = s.body
         /\ t.feed = s.feed /\ t.loads = s.loads /\ t.detail = s.detail /\ t.toast = s.toast
         /\ t.tickets = s.tickets /\ t.view = s.view /\ t.error = s.error /\ t.drafts = s.drafts
         /\ t.replies = s.replies /\ t.listCall = s.listCall /\ t.threadCall = s.threadCall
         /\ t.loading = s.loading /\ t.loadingTimer = s.loadingTimer /\ t.asked = s.asked
         /\ t.creating = s.creating
      /\ DOMAIN t = Names
  BY <1>1 DEF Differ
<1>3. Asides(k, t.cache)
  <2>1. Asides(k, s.cache) BY DEF Half, Sound
  <2>2. DOMAIN t.cache = TicketIds BY <1>1, <2>1 DEF Asides
  <2>3. ASSUME NEW n \in TicketIds
        PROVE  t.cache[n] = NoThread \/ (Talk(k, t.cache[n]) /\ t.cache[n].id = n)
    <3>1. t.cache[n] = IF n = th.id THEN th ELSE s.cache[n] BY <1>1, <2>1 DEF Asides
    <3> QED BY <2>1, <3>1 DEF Asides
  <2> QED BY <2>2, <2>3 DEF Asides
<1>4. Sound(t, k) BY <1>1, <1>2, <1>3 DEF Half, Sound, TicketsOn
<1>5. Differ(s, t, Ticketed) BY <1>1, Wider DEF Ticketed
<1>6. Half(t, k) BY <1>4, <1>5, HalfSame
<1>7. Counted(t) = Counted(s) BY <1>1 DEF Differ, Counted
<1>8. Counts(s, k) => Counts(t, k) BY <1>7, SameCounts
<1> QED BY <1>1, <1>6, <1>8 DEF t

\* loadTicketThread(): where nothing is repainted the error was gone before.
LEMMA LoadThreadGood ==
  ASSUME NEW s, NEW k, NEW n, NEW render \in BOOLEAN, Half(s, k), Counts(s, k),
         (render /\ ~s.destroyed) \/ Shows(s), render \/ s.error = ""
  PROVE  LET t == LoadThread(s, n, render) IN
           /\ Good(t, k)
           /\ ~render => Differ(s, t, {"threadCall", "loading", "error"})
<1> USE FieldNames
<1> DEFINE u == [s EXCEPT !.threadCall = [id |-> n, attempt |-> 1, got |-> << >>],
                          !.loading = TRUE, !.error = ""]
           r == RepaintTickets(u)
<1>1. LoadThread(s, n, render) = IF s.destroyed \/ (~render /\ s.threadCall.id = n) THEN s
                                 ELSE IF render THEN r ELSE u
  BY DEF LoadThread
<1>2. /\ Differ(s, u, {"threadCall", "loading", "error"})
      /\ u.threadCall = [id |-> n, attempt |-> 1, got |-> << >>]
      /\ u.loading = TRUE /\ u.error = ""
  BY DEF Differ, Half, Sound
<1> HIDE DEF u
<1>3. /\ /\ u.sections = s.sections /\ u.section = s.section /\ u.body = s.body
         /\ u.feed = s.feed /\ u.loads = s.loads /\ u.detail = s.detail /\ u.toast = s.toast
         /\ u.tickets = s.tickets /\ u.view = s.view /\ u.thread = s.thread
         /\ u.drafts = s.drafts /\ u.replies = s.replies /\ u.listCall = s.listCall
         /\ u.loadingTimer = s.loadingTimer /\ u.cache = s.cache /\ u.asked = s.asked
         /\ u.creating = s.creating
      /\ DOMAIN u = Names
  BY <1>2 DEF Differ
<1>4. Called(k, u.threadCall, u.error)
  <2> DEFINE y == [id |-> n, attempt |-> 1, got |-> << >>]
  <2>0. DOMAIN y = {"id", "attempt", "got"} /\ y.got = << >> OBVIOUS
  <2> HIDE DEF y
  <2>1. DOMAIN u.threadCall = {"id", "attempt", "got"} /\ u.threadCall.got = << >>
    BY <1>2, <2>0 DEF y
  <2>2. DOMAIN NoCall = {"id", "attempt", "got"} BY DEF NoCall
  <2> QED BY <1>2, <2>1, <2>2 DEF Called
<1>5. Sound(u, k) BY <1>2, <1>3, <1>4 DEF Half, Sound, TicketsOn
<1>6. Half(u, k)
  <2>1. Differ(s, u, Ticketed) BY <1>2, Wider DEF Ticketed
  <2> QED BY <1>5, <2>1, HalfSame
<1>7. Counted(u) = Counted(s) BY <1>2 DEF Differ, Counted
<1>8. Counts(u, k) BY <1>7, SameCounts
<1>9. Good(r, k) BY <1>6, <1>8, HalfRepainted
<1>10. ASSUME ~render PROVE Good(u, k)
  <2>1. Differ(s, u, {"threadCall", "loading"}) BY <1>2, <1>10 DEF Differ
  <2>2. Differ(s, u, Unshown) BY <2>1, Wider DEF Unshown
  <2>3. Shows(u) BY <1>10, <2>2, SameShows DEF Half
  <2> QED BY <1>5, <1>8, <2>3 DEF Good
<1>11. s.destroyed \/ ~render => Good(s, k) BY DEF Good, Half
<1>12. Differ(s, s, {"threadCall", "loading", "error"}) BY UnchangedGood DEF Half
<1> QED BY <1>1, <1>2, <1>9, <1>10, <1>11, <1>12

LEMMA ThreadLoadedGood ==
  ASSUME NEW s, NEW k, Good(s, k), TicketsOn(s), s.threadCall # NoCall, s.threadCall.got # << >>
  PROVE  Good(ThreadLoaded(s), k)
<1> USE FieldNames
<1> DEFINE th == s.threadCall.got[1]
           c == [s EXCEPT !.threadCall = NoCall, !.loadingTimer = None,
                          !.loading = FALSE, !.error = ""]
           u == RememberThread(c, th)
           m == MarkTicketRead(u, th.id, th.sum)
           r == IF OnScreen(u, th.id) THEN m ELSE u
           p == RepaintTickets(r)
<1>1. ThreadLoaded(s) = IF Viewing(r, th.id) THEN p ELSE r BY DEF ThreadLoaded
<1>2. Talk(k, th) /\ Pure(th) /\ s.error = "" BY DEF Good, Sound, Called
<1> HIDE DEF th
<1>3. /\ Differ(s, c, {"threadCall", "loadingTimer", "loading", "error"})
      /\ c.threadCall = NoCall /\ c.loadingTimer = None /\ c.loading = FALSE /\ c.error = ""
  BY DEF Differ, Good, Sound
<1> HIDE DEF c
<1>4. /\ /\ c.sections = s.sections /\ c.section = s.section /\ c.body = s.body
         /\ c.feed = s.feed /\ c.loads = s.loads /\ c.detail = s.detail /\ c.toast = s.toast
         /\ c.tickets = s.tickets /\ c.view = s.view /\ c.thread = s.thread
         /\ c.drafts = s.drafts /\ c.replies = s.replies /\ c.listCall = s.listCall
         /\ c.cache = s.cache /\ c.asked = s.asked /\ c.creating = s.creating
      /\ DOMAIN c = Names
  BY <1>3 DEF Differ
<1>5. Sound(c, k) BY <1>3, <1>4 DEF Good, Sound, TicketsOn, Called
<1>6. Half(c, k)
  <2>1. Differ(s, c, Ticketed) BY <1>3, Wider DEF Ticketed
  <2> QED BY <1>5, <2>1, GoodHalf, HalfSame
<1>7. Counts(c, k)
  <2>1. Counted(c) = Counted(s) BY <1>3 DEF Differ, Counted
  <2> QED BY <2>1, SameCounts DEF Good
<1>8. Chosen(k, th, c.view)
  <2>1. ASSUME th.id # c.view.id PROVE Stray(th, c.view.id)
    <3>1. 1 \in DOMAIN th.msgs
      <4>1. PICK S : th.msgs \in Seq(S) BY <1>2 DEF Talk
      <4>2. DOMAIN th.msgs = 1..Len(th.msgs) /\ Len(th.msgs) \in Nat BY <4>1
      <4>3. Len(th.msgs) > 0 BY <1>2 DEF Pure
      <4> QED BY <4>2, <4>3
    <3> QED BY <1>2, <2>1, <3>1 DEF Pure, Stray
  <2> QED BY <1>2, <2>1 DEF Chosen
<1>9. /\ Half(u, k) /\ Counts(u, k) /\ Differ(c, u, {"thread", "cache"}) /\ u.thread = th
  BY <1>2, <1>6, <1>7, <1>8, RememberGood
<1> HIDE DEF u
<1>10. /\ Half(m, k) /\ Counts(m, k) /\ Differ(u, m, {"markers", "at", "badge", "expiry"})
  BY <1>9, MarkReadGood
<1>11. Half(r, k) /\ Counts(r, k) /\ Differ(u, r, {"markers", "at", "badge", "expiry"})
  BY <1>9, <1>10, UnchangedGood DEF Half
<1> HIDE DEF m, r
<1>12. Good(p, k) BY <1>11, HalfRepainted
<1>13. ASSUME ~Viewing(r, th.id) PROVE Shows(r)
  <2>1. /\ r.view = s.view /\ r.thread = th /\ r.open = s.open /\ r.destroyed = s.destroyed
        /\ r.section = s.section /\ r.body = s.body /\ r.tickets = s.tickets
        /\ r.error = s.error /\ r.loadingTimer = None
    BY <1>2, <1>3, <1>9, <1>11 DEF Differ
  <2>2. ASSUME r.open, ~r.destroyed, r.section = "tickets" PROVE Chatted(r)
    <3>1. Chatted(s) BY <2>1, <2>2 DEF Good, Shows
    <3>2. CASE s.view.kind = "thread"
      <4>1. th.id # s.view.id BY <1>13, <2>1, <3>2 DEF Viewing
      <4>2. th # NoThread
        <5>1. DOMAIN th = {"id", "sum", "msgs"} /\ DOMAIN NoThread = {"id"}
          BY <1>2 DEF Talk, NoThread
        <5> QED BY <5>1
      <4>3. Stray(th, s.view.id)
        <5>1. c.view = s.view BY <1>4
        <5> QED BY <1>8, <3>2, <4>1, <4>2, <5>1 DEF Chosen
      <4> QED BY <2>1, <3>2, <4>2, <4>3 DEF Chatted
    <3>3. CASE s.view.kind # "thread"
      <4>1. s.body = TicketsView(s) BY <3>1, <3>3 DEF Chatted
      <4>2. TicketsView(r) = TicketsView(s)
        <5>1. s.view.kind \in {"list", "new"} BY <3>3 DEF Good, Sound
        <5> QED BY <2>1, <5>1 DEF TicketsView, TicketsList
      <4> QED BY <2>1, <4>1, <4>2 DEF Chatted
    <3> QED BY <3>2, <3>3
  <2> QED BY <1>11, <2>2 DEF Half, OffTickets, Shows
<1> QED BY <1>1, <1>11, <1>12, <1>13 DEF Good, Half

LEMMA ThreadFailedGood ==
  ASSUME NEW s, NEW k, NEW unavailable \in BOOLEAN, Good(s, k), TicketsOn(s),
         s.threadCall # NoCall
  PROVE  Good(ThreadFailed(s, unavailable), k)
<1> USE FieldNames
<1> DEFINE call == s.threadCall
           x == IF unavailable THEN "unavailable" ELSE "failed"
           e == [s EXCEPT !.threadCall = NoCall, !.loadingTimer = None, !.loading = FALSE,
                          !.error = x]
           h == [e.cache EXCEPT ![call.id] = NoThread]
           f == [e EXCEPT !.cache = h, !.thread = NoThread]
           g == IF unavailable THEN f ELSE e
           y == [call EXCEPT !.attempt = @ + 1, !.got = << >>]
           a == [s EXCEPT !.threadCall = y]
           p == RepaintTickets(g)
<1>1. ThreadFailed(s, unavailable) \in {a, p} BY DEF ThreadFailed
<1>2. Half(s, k) BY GoodHalf
<1>3. Called(k, y, s.error)
  <2>1. s.error = "" /\ DOMAIN call = DOMAIN NoCall BY DEF Good, Sound, Called
  <2>2. y.got = << >> /\ DOMAIN y = DOMAIN NoCall BY <2>1 DEF NoCall
  <2> QED BY <2>1, <2>2 DEF Called
<1> HIDE DEF y, x
<1>4. Differ(s, a, {"threadCall"}) /\ a.threadCall = y BY DEF Differ, Good, Sound
<1>5. /\ Differ(s, e, {"threadCall", "loadingTimer", "loading", "error"})
      /\ e.threadCall = NoCall /\ e.loadingTimer = None /\ e.loading = FALSE
  BY DEF Differ, Good, Sound
<1> HIDE DEF a, e
<1>6. Good(a, k)
  <2>1. /\ /\ a.sections = s.sections /\ a.section = s.section /\ a.body = s.body
           /\ a.feed = s.feed /\ a.loads = s.loads /\ a.detail = s.detail /\ a.toast = s.toast
           /\ a.tickets = s.tickets /\ a.view = s.view /\ a.thread = s.thread
           /\ a.error = s.error /\ a.drafts = s.drafts /\ a.replies = s.replies
           /\ a.listCall = s.listCall /\ a.loading = s.loading
           /\ a.loadingTimer = s.loadingTimer /\ a.cache = s.cache /\ a.asked = s.asked
           /\ a.creating = s.creating
        /\ DOMAIN a = Names
    BY <1>4 DEF Differ
  <2>2. Sound(a, k) BY <1>3, <1>4, <2>1 DEF Good, Sound, TicketsOn
  <2>3. Counted(a) = Counted(s) BY <1>4 DEF Differ, Counted
  <2>4. Differ(s, a, Unshown) BY <1>4, Wider DEF Unshown
  <2> QED BY <2>2, <2>3, <2>4, SameCounts, SameShows DEF Good
<1>7. Half(e, k)
  <2>1. /\ /\ e.sections = s.sections /\ e.section = s.section /\ e.body = s.body
           /\ e.feed = s.feed /\ e.loads = s.loads /\ e.detail = s.detail /\ e.toast = s.toast
           /\ e.tickets = s.tickets /\ e.view = s.view /\ e.thread = s.thread
           /\ e.drafts = s.drafts /\ e.replies = s.replies /\ e.listCall = s.listCall
           /\ e.cache = s.cache /\ e.asked = s.asked /\ e.creating = s.creating
        /\ DOMAIN e = Names
    BY <1>5 DEF Differ
  <2>2. Sound(e, k) BY <1>5, <2>1 DEF Good, Sound, TicketsOn, Called
  <2>3. Differ(s, e, Ticketed) BY <1>5, Wider DEF Ticketed
  <2> QED BY <1>2, <2>2, <2>3, HalfSame
<1>8. Asides(k, h)
  <2>1. Asides(k, e.cache) BY <1>7 DEF Half, Sound
  <2>2. DOMAIN h = TicketIds /\ \A n \in TicketIds : h[n] \in {NoThread, e.cache[n]}
    BY <2>1 DEF Asides
  <2> HIDE DEF h
  <2> QED BY <2>1, <2>2 DEF Asides
<1> HIDE DEF h
<1>9. Differ(e, f, {"cache", "thread"}) /\ f.cache = h /\ f.thread = NoThread
  BY <1>7 DEF Differ, Half, Sound
<1> HIDE DEF f
<1>10. Half(f, k)
  <2>1. /\ /\ f.sections = e.sections /\ f.section = e.section /\ f.body = e.body
           /\ f.feed = e.feed /\ f.loads = e.loads /\ f.detail = e.detail /\ f.toast = e.toast
           /\ f.tickets = e.tickets /\ f.view = e.view /\ f.error = e.error
           /\ f.drafts = e.drafts /\ f.replies = e.replies /\ f.listCall = e.listCall
           /\ f.threadCall = e.threadCall /\ f.loading = e.loading
           /\ f.loadingTimer = e.loadingTimer /\ f.asked = e.asked /\ f.creating = e.creating
        /\ DOMAIN f = Names
    BY <1>9 DEF Differ
  <2>2. Sound(f, k) BY <1>7, <1>8, <1>9, <2>1 DEF Half, Sound, TicketsOn, Chosen
  <2>3. Differ(e, f, Ticketed) BY <1>9, Wider DEF Ticketed
  <2> QED BY <1>7, <2>2, <2>3, HalfSame
<1>11. Counts(e, k) /\ Counts(f, k)
  <2>1. Counted(e) = Counted(s) /\ Counted(f) = Counted(e)
    BY <1>5, <1>9 DEF Differ, Counted
  <2> QED BY <2>1, SameCounts DEF Good
<1>12. Half(g, k) /\ Counts(g, k) BY <1>7, <1>10, <1>11
<1> HIDE DEF g
<1>13. Good(p, k) BY <1>12, HalfRepainted
<1> QED BY <1>1, <1>6, <1>13

LEMMA TalkIsThread ==
  ASSUME NEW k, NEW th, Talk(k, th), DOMAIN k \subseteq TicketIds
  PROVE  th # NoThread /\ th.id # None
<1>1. DOMAIN th = {"id", "sum", "msgs"} BY DEF Talk
<1>2. DOMAIN NoThread = {"id"} BY DEF NoThread
<1>3. th.id \in TicketIds BY DEF Talk
<1> QED BY <1>1, <1>2, <1>3, PanelAssumption DEF TicketIds, None

\* openTicketThread(): a conversation that was kept is shown, or a loader will be.
LEMMA OpenThreadGood ==
  ASSUME NEW s, NEW k, NEW n \in TicketIds, Good(s, k), TicketsOn(s)
  PROVE  Good(OpenThread(s, n), k)
<1> USE FieldNames
<1> DEFINE known == n \in DOMAIN s.tickets
           r == MarkTicketRead(s, n, s.tickets[n])
           m == IF known THEN r ELSE s
           y == [kind |-> "thread", id |-> n]
           v == [m EXCEPT !.view = y, !.thread = m.cache[n],
                          !.error = "", !.loading = TRUE, !.loadingTimer = None]
           a == [v EXCEPT !.loadingTimer = n]
           th == [v.thread EXCEPT !.sum = v.tickets[n]]
           b == RememberThread(v, th)
           d == IF known THEN b ELSE v
           e == SwapView(d)
           c == IF v.thread = NoThread THEN a ELSE e
<1>1. OpenThread(s, n) = LoadThread(c, n, FALSE) BY DEF OpenThread
<1>2. Half(s, k) BY GoodHalf
<1>3. Half(r, k) /\ Counts(r, k) BY <1>2, MarkReadGood DEF Good
<1>4. Half(m, k) /\ Counts(m, k) BY <1>2, <1>3 DEF Good
<1> HIDE DEF r, m, known
<1>5. y.kind = "thread" /\ y.id = n OBVIOUS
<1> HIDE DEF y
<1>6. /\ Differ(m, v, {"view", "thread", "error", "loading", "loadingTimer"})
      /\ v.view = y /\ v.thread = m.cache[n] /\ v.error = "" /\ v.loading = TRUE
      /\ v.loadingTimer = None
  BY <1>4 DEF Differ, Half, Sound
<1> HIDE DEF v
<1>7. /\ /\ v.sections = m.sections /\ v.section = m.section /\ v.body = m.body
         /\ v.feed = m.feed /\ v.loads = m.loads /\ v.detail = m.detail /\ v.toast = m.toast
         /\ v.tickets = m.tickets /\ v.drafts = m.drafts /\ v.replies = m.replies
         /\ v.listCall = m.listCall /\ v.threadCall = m.threadCall /\ v.cache = m.cache
         /\ v.asked = m.asked /\ v.creating = m.creating
      /\ DOMAIN v = Names
  BY <1>6 DEF Differ
<1>8. v.thread = NoThread \/ (Talk(k, v.thread) /\ v.thread.id = n)
  BY <1>4, <1>6 DEF Half, Sound, Asides
<1>9. Sound(v, k)
  <2>1. Chosen(k, v.thread, v.view) BY <1>5, <1>6, <1>8 DEF Chosen
  <2>2. Called(k, v.threadCall, v.error) BY <1>4, <1>6, <1>7 DEF Half, Sound, Called
  <2> QED BY <1>4, <1>5, <1>6, <1>7, <2>1, <2>2 DEF Half, Sound, TicketsOn
<1>10. Half(v, k)
  <2>1. Differ(m, v, Ticketed) BY <1>6, Wider DEF Ticketed
  <2> QED BY <1>4, <1>9, <2>1, HalfSame
<1>11. Counts(v, k)
  <2>1. Counted(v) = Counted(m) BY <1>6 DEF Differ, Counted
  <2> QED BY <1>4, <2>1, SameCounts
<1>12. Differ(v, a, {"loadingTimer"}) /\ a.loadingTimer = n BY <1>7 DEF Differ
<1> HIDE DEF a
<1>13. Half(a, k) /\ Good(a, k) /\ a.error = ""
  <2>1. /\ /\ a.sections = v.sections /\ a.section = v.section /\ a.body = v.body
           /\ a.feed = v.feed /\ a.loads = v.loads /\ a.detail = v.detail /\ a.toast = v.toast
           /\ a.tickets = v.tickets /\ a.view = v.view /\ a.thread = v.thread
           /\ a.error = v.error /\ a.drafts = v.drafts /\ a.replies = v.replies
           /\ a.listCall = v.listCall /\ a.threadCall = v.threadCall /\ a.loading = v.loading
           /\ a.cache = v.cache /\ a.asked = v.asked /\ a.creating = v.creating
        /\ a.open = v.open /\ a.destroyed = v.destroyed /\ DOMAIN a = Names
    BY <1>12 DEF Differ
  <2>2. Sound(a, k) BY <1>6, <1>9, <1>10, <2>1 DEF Half, Sound, TicketsOn
  <2>3. Differ(v, a, Ticketed) BY <1>12, Wider DEF Ticketed
  <2>4. Half(a, k) BY <1>10, <2>2, <2>3, HalfSame
  <2>5. Counted(a) = Counted(v) BY <1>12 DEF Differ, Counted
  <2>6. Counts(a, k) BY <1>11, <2>5, SameCounts
  <2>7. Chatted(a) BY <1>5, <1>6, <1>12, <2>1 DEF Chatted
  <2>8. Shows(a) BY <2>4, <2>7 DEF Half, OffTickets, Shows
  <2> QED BY <1>6, <2>1, <2>2, <2>4, <2>6, <2>8 DEF Good
<1>14. ASSUME v.thread # NoThread PROVE Half(b, k) /\ Counts(b, k) /\ b.error = ""
  <2>1. Talk(k, th) /\ th.id = n
    <3>1. Talk(k, v.thread) /\ v.thread.id = n BY <1>8, <1>14
    <3>2. DOMAIN th = DOMAIN v.thread /\ th.id = v.thread.id /\ th.msgs = v.thread.msgs
      BY <3>1 DEF Talk
    <3> HIDE DEF th
    <3> QED BY <3>1, <3>2 DEF Talk
  <2> HIDE DEF th
  <2>2. Chosen(k, th, v.view) BY <1>5, <1>6, <2>1 DEF Chosen
  <2>3. Half(b, k) /\ Counts(b, k) /\ Differ(v, b, {"thread", "cache"})
    BY <1>10, <1>11, <2>1, <2>2, RememberGood
  <2> QED BY <1>6, <2>3 DEF Differ
<1> HIDE DEF b, th
<1>15. ASSUME v.thread # NoThread PROVE Half(e, k) /\ Good(e, k) /\ e.error = ""
  <2>1. Half(d, k) /\ Counts(d, k) /\ d.error = "" BY <1>6, <1>10, <1>11, <1>14, <1>15
  <2> HIDE DEF d
  <2>2. Good(e, k) /\ Differ(d, e, {"body", "busy", "replies"})
    BY <2>1, SwapGood DEF Half, Good
  <2> HIDE DEF e
  <2>3. TicketsOn(e) /\ e.error = "" BY <2>1, <2>2 DEF Differ, Half, TicketsOn
  <2> QED BY <2>2, <2>3, GoodHalf
<1>16. Half(c, k) /\ Good(c, k) /\ c.error = "" BY <1>13, <1>15
<1> HIDE DEF c
<1> QED BY <1>1, <1>16, LoadThreadGood DEF Good

\* The loader of a slow conversation.
LEMMA ShowLoaderGood ==
  ASSUME NEW s, NEW k, Good(s, k), s.loadingTimer # None
  PROVE  Good(ShowLoader(s), k)
<1> USE FieldNames
<1> DEFINE u == [s EXCEPT !.loadingTimer = None]
           shown == u.loading /\ OnScreen(u, s.loadingTimer)
           v == SwapView(u)
<1>1. ShowLoader(s) = IF shown THEN v ELSE u BY DEF ShowLoader
<1>2. Differ(s, u, {"loadingTimer"}) /\ u.loadingTimer = None BY DEF Differ, Good, Sound
<1> HIDE DEF u
<1>3. /\ /\ u.sections = s.sections /\ u.section = s.section /\ u.body = s.body
         /\ u.feed = s.feed /\ u.loads = s.loads /\ u.detail = s.detail /\ u.toast = s.toast
         /\ u.tickets = s.tickets /\ u.view = s.view /\ u.thread = s.thread /\ u.error = s.error
         /\ u.drafts = s.drafts /\ u.replies = s.replies /\ u.listCall = s.listCall
         /\ u.threadCall = s.threadCall /\ u.loading = s.loading /\ u.cache = s.cache
         /\ u.asked = s.asked /\ u.creating = s.creating
      /\ u.open = s.open /\ u.destroyed = s.destroyed /\ DOMAIN u = Names
  BY <1>2 DEF Differ
<1>4. Sound(u, k) BY <1>2, <1>3 DEF Good, Sound, TicketsOn, NoTickets
<1>5. Counts(u, k)
  <2>1. Counted(u) = Counted(s) BY <1>2 DEF Differ, Counted
  <2> QED BY <2>1, SameCounts DEF Good
<1>6. Good(v, k) BY <1>4, <1>5, SwapGood DEF Good
<1>7. ASSUME ~shown PROVE Shows(u)
  <2>1. u.loading BY <1>3 DEF Good, Sound
  <2>2. ASSUME u.open, ~u.destroyed, u.section = "tickets" PROVE Chatted(u)
    <3>1. Chatted(s) BY <1>3, <2>2 DEF Good, Shows
    <3>2. ~(s.view.kind = "thread" /\ s.view.id = s.loadingTimer)
      BY <1>3, <1>7, <2>1, <2>2 DEF OnScreen, Viewing
    <3>3. TicketsView(u) = TicketsView(s)
      BY <1>3 DEF TicketsView, ThreadView, TicketsList
    <3> QED BY <1>3, <3>1, <3>2, <3>3 DEF Chatted
  <2>3. Announced(u) = Announced(s) /\ Formed(u) = Formed(s)
    <3>1. u.aged = s.aged /\ u.expiry = s.expiry /\ u.submitted = s.submitted /\ u.token = s.token
      BY <1>2 DEF Differ
    <3>2. UnreadPosts(u) = UnreadPosts(s) BY <1>3, <3>1 DEF UnreadPosts
    <3>3. /\ FeedbackView(u) = FeedbackView(s) /\ DetailView(u) = DetailView(s)
          /\ \A U : MarkedIn(u, U) = MarkedIn(s, U)
      BY <1>3, <3>1 DEF FeedbackView, FormView, DetailView, MarkedIn
    <3> QED BY <1>3, <3>1, <3>2, <3>3, ZenonT(60) DEF Announced, Formed, TicketsOn
  <2> QED BY <1>3, <2>2, <2>3 DEF Good, Shows
<1> QED BY <1>1, <1>4, <1>5, <1>6, <1>7 DEF Good

\* "All tickets", "Start a ticket", "New ticket": the view is chosen and shown.
LEMMA PagesGood ==
  ASSUME NEW s, NEW k, Good(s, k), TicketsOn(s)
  PROVE  Good(BackToTickets(s), k) /\ Good(StartTicket(s), k) /\ Good(BackFromNew(s), k)
<1> USE FieldNames
<1>1. ASSUME NEW t,
             Differ(s, t, {"loadingTimer", "threadCall", "loading", "view", "thread", "error"}),
             t.view.kind \in {"list", "new"}, t.thread \in {s.thread, NoThread}, t.error = "",
             t.threadCall \in {s.threadCall, NoCall}, t.loadingTimer = None \/ t.loading
      PROVE  Good(SwapView(t), k)
  <2>1. /\ /\ t.sections = s.sections /\ t.section = s.section /\ t.body = s.body
           /\ t.feed = s.feed /\ t.loads = s.loads /\ t.detail = s.detail /\ t.toast = s.toast
           /\ t.tickets = s.tickets /\ t.drafts = s.drafts /\ t.replies = s.replies
           /\ t.listCall = s.listCall /\ t.cache = s.cache /\ t.asked = s.asked
           /\ t.creating = s.creating
        /\ DOMAIN t = Names
    BY <1>1 DEF Differ
  <2>2. Called(k, t.threadCall, t.error) BY <1>1 DEF Good, Sound, Called
  <2>3. Chosen(k, t.thread, t.view) BY <1>1 DEF Good, Sound, Chosen
  <2>4. Sound(t, k) BY <1>1, <2>1, <2>2, <2>3 DEF Good, Sound, TicketsOn
  <2>5. Counted(t) = Counted(s) BY <1>1 DEF Differ, Counted
  <2>6. Counts(t, k) BY <2>5, SameCounts DEF Good
  <2> QED BY <2>4, <2>6, SwapGood DEF Good
<1> DEFINE l == [kind |-> "list", id |-> None]
           n == [kind |-> "new", id |-> None]
           a == [s EXCEPT !.loadingTimer = None, !.threadCall = NoCall, !.loading = FALSE,
                          !.view = l, !.thread = NoThread, !.error = ""]
           b == [s EXCEPT !.error = "", !.view = n]
           c == [s EXCEPT !.error = "", !.view = l]
<1> DEFINE F == {"loadingTimer", "threadCall", "loading", "view", "thread", "error"}
<1>2. l.kind = "list" /\ n.kind = "new" OBVIOUS
<1> HIDE DEF l, n
<1>3. /\ Differ(s, a, F) /\ a.view = l /\ a.thread = NoThread /\ a.error = ""
      /\ a.threadCall = NoCall /\ a.loadingTimer = None
  BY DEF Differ, Good, Sound
<1>4. /\ Differ(s, b, F) /\ b.view = n /\ b.thread = s.thread /\ b.error = ""
      /\ b.threadCall = s.threadCall /\ b.loadingTimer = s.loadingTimer
      /\ b.loading = s.loading
  BY DEF Differ, Good, Sound
<1>5. /\ Differ(s, c, F) /\ c.view = l /\ c.thread = s.thread /\ c.error = ""
      /\ c.threadCall = s.threadCall /\ c.loadingTimer = s.loadingTimer
      /\ c.loading = s.loading
  BY DEF Differ, Good, Sound
<1>6. BackToTickets(s) = SwapView(a) /\ StartTicket(s) = SwapView(b) /\ BackFromNew(s) = SwapView(c)
  BY DEF BackToTickets, StartTicket, BackFromNew, l, n
<1> HIDE DEF a, b, c
<1>7. s.loadingTimer = None \/ s.loading BY DEF Good, Sound
<1>8. Good(SwapView(a), k) BY <1>1, <1>2, <1>3
<1>9. Good(SwapView(b), k) BY <1>1, <1>2, <1>4, <1>7
<1>10. Good(SwapView(c), k) BY <1>1, <1>2, <1>5, <1>7
<1> QED BY <1>6, <1>8, <1>9, <1>10

LEMMA SmallestNat ==
  ASSUME NEW T \in SUBSET Nat, T # {}
  PROVE  \E m \in T : \A x \in T : m <= x
<1> DEFINE R == OpToRel(<, Nat)
<1>1. \A x, m \in Nat : x < m => << x, m >> \in R
  <2> TAKE x \in Nat, m \in Nat
  <2>1. << x, m >> \in Nat \X Nat /\ << x, m >>[1] = x /\ << x, m >>[2] = m OBVIOUS
  <2> QED BY <2>1 DEF OpToRel
<1>2. IsWellFoundedOn(R, Nat) BY NatLessThanWellFounded
<1> HIDE DEF R
<1>3. PICK m \in T : \A x \in T : ~ (<< x, m >> \in R) BY <1>2, WFMin
<1>4. ASSUME NEW x \in T PROVE m <= x
  <2>1. x \in Nat /\ m \in Nat /\ ~ (x < m) BY <1>1, <1>3
  <2> QED BY <2>1
<1> QED BY <1>4

LEMMA LatestTicket ==
  ASSUME NEW S \in SUBSET TicketIds, S # {}
  PROVE  (CHOOSE n \in S : \A q \in S : n >= q) \in S
<1> DEFINE T == {MaxTickets - n : n \in S}
<1>1. MaxTickets \in Nat /\ \A n \in S : n \in Nat /\ n <= MaxTickets
  BY PanelAssumption DEF TicketIds
<1>2. T \in SUBSET Nat /\ T # {} BY <1>1
<1>3. PICK m \in T : \A x \in T : m <= x BY <1>2, SmallestNat
<1>4. PICK n \in S : m = MaxTickets - n OBVIOUS
<1>5. ASSUME NEW q \in S PROVE n >= q
  <2>1. MaxTickets - q \in T OBVIOUS
  <2>2. m <= MaxTickets - q BY <1>3, <2>1
  <2> HIDE DEF T
  <2> QED BY <1>1, <1>4, <2>2
<1> HIDE DEF T
<1> QED BY <1>5

\* What is asked for previews, and the conversations kept for the next time.
LEMMA AskedGood ==
  ASSUME NEW s, NEW t, NEW k, Good(s, k), TicketsOn(s),
         Differ(s, t, Plain \cup {"asked", "cache"}), Peeked(k, t.asked), Asides(k, t.cache)
  PROVE  Good(t, k)
<1> USE FieldNames
<1>1. Differ(s, t, Unshown) BY Wider DEF Unshown
<1>2. Counted(t) = Counted(s) BY DEF Differ, Plain, Counted
<1>3. /\ /\ t.sections = s.sections /\ t.section = s.section /\ t.body = s.body
         /\ t.feed = s.feed /\ t.loads = s.loads /\ t.detail = s.detail /\ t.toast = s.toast
         /\ t.tickets = s.tickets /\ t.view = s.view /\ t.thread = s.thread /\ t.error = s.error
         /\ t.drafts = s.drafts /\ t.replies = s.replies /\ t.listCall = s.listCall
         /\ t.threadCall = s.threadCall /\ t.loading = s.loading
         /\ t.loadingTimer = s.loadingTimer /\ t.creating = s.creating
      /\ DOMAIN t = Names
  BY DEF Differ, Plain
<1>4. Sound(t, k) BY <1>3 DEF Good, Sound, TicketsOn
<1> QED BY <1>1, <1>2, <1>4, SameCounts, SameShows DEF Good

LEMMA LoadNotificationGood ==
  ASSUME NEW s, NEW k, NEW n \in DOMAIN s.tickets, Good(s, k), TicketsOn(s)
  PROVE  Good(LoadNotification(s, n), k)
<1> USE FieldNames
<1> DEFINE a == [s.asked EXCEPT ![n] = Asked]
           t == [s EXCEPT !.asked = a]
<1>1. LoadNotification(s, n) \in {s, t} BY DEF LoadNotification
<1>2. Peeked(k, a)
  <2>1. Peeked(k, s.asked) /\ n \in DOMAIN k BY DEF Good, Sound, Told, Said
  <2>2. DOMAIN a = TicketIds BY <2>1 DEF Peeked
  <2>3. ASSUME NEW m \in TicketIds
        PROVE  \/ a[m] = Unasked
               \/ /\ m \in DOMAIN k
                  /\ a[m].got = << >> \/ (Talk(k, a[m].got[1]) /\ a[m].got[1].id = m)
    <3>1. CASE m = n
      <4>1. a[m] = Asked BY <2>1, <3>1 DEF Peeked
      <4> HIDE DEF a
      <4> QED BY <2>1, <3>1, <4>1 DEF Asked
    <3>2. CASE m # n
      <4>1. a[m] = s.asked[m] BY <2>1, <3>2 DEF Peeked
      <4> HIDE DEF a
      <4> QED BY <2>1, <4>1 DEF Peeked
    <3> QED BY <3>1, <3>2
  <2> HIDE DEF a
  <2> QED BY <2>2, <2>3 DEF Peeked
<1> HIDE DEF a
<1>3. Differ(s, t, {"asked"}) /\ t.asked = a BY DEF Differ, Good, Sound
<1> HIDE DEF t
<1>4. Differ(s, t, Plain \cup {"asked", "cache"}) /\ t.cache = s.cache
  BY <1>3 DEF Differ
<1>5. Good(t, k) BY <1>2, <1>3, <1>4, AskedGood DEF Good, Sound
<1> QED BY <1>1, <1>5

LEMMA NotificationGood ==
  ASSUME NEW s, NEW k, NEW n \in TicketIds, Good(s, k), TicketsOn(s)
  PROVE  /\ Good(NotificationFailed(s, n), k)
         /\ s.asked[n].got # << >> => Good(NotificationLoaded(s, n), k)
<1> USE FieldNames
<1> DEFINE a == [s.asked EXCEPT ![n] = Unasked]
           th == s.asked[n].got[1]
           h == [s.cache EXCEPT ![n] = th]
           u == [s EXCEPT !.asked = a]
           c == [u EXCEPT !.cache = h]
           o == [c.toasted EXCEPT ![n] = th.sum.count]
           d == [c EXCEPT !.toasted = o]
           p == ShowPreviewToast(d, <<"ticket", n>>)
<1>1. NotificationFailed(s, n) = u BY DEF NotificationFailed
<1>2. NotificationLoaded(s, n) \in {u, c, p} BY DEF NotificationLoaded
<1>3. Peeked(k, a)
  <2>1. Peeked(k, s.asked) BY DEF Good, Sound
  <2>2. /\ DOMAIN a = TicketIds
        /\ \A m \in TicketIds : a[m] = Unasked \/ a[m] = s.asked[m]
    BY <2>1 DEF Peeked
  <2> HIDE DEF a
  <2> QED BY <2>1, <2>2 DEF Peeked
<1>4. ASSUME s.asked[n].got # << >> PROVE Asides(k, h)
  <2>1. Peeked(k, s.asked) /\ Asides(k, s.cache) BY DEF Good, Sound
  <2>2. s.asked[n] # Unasked BY <1>4 DEF Unasked
  <2>3. Talk(k, th) /\ th.id = n BY <1>4, <2>1, <2>2 DEF Peeked
  <2>4. /\ DOMAIN h = TicketIds
        /\ \A m \in TicketIds : h[m] = IF m = n THEN th ELSE s.cache[m]
    BY <2>1 DEF Asides
  <2> HIDE DEF h, th
  <2> QED BY <2>1, <2>3, <2>4 DEF Asides
<1> HIDE DEF a, h, th
<1>5. Differ(s, u, {"asked"}) /\ u.asked = a BY DEF Differ, Good, Sound
<1> HIDE DEF u
<1>6. Differ(u, c, {"cache"}) /\ c.cache = h BY <1>5 DEF Differ
<1> HIDE DEF c, o
<1>7. Differ(c, d, {"toasted"}) BY <1>6 DEF Differ
<1> HIDE DEF d
<1>8. Good(u, k)
  <2>1. Differ(s, u, Plain \cup {"asked", "cache"}) /\ u.cache = s.cache BY <1>5 DEF Differ
  <2> QED BY <1>3, <1>5, <2>1, AskedGood DEF Good, Sound
<1>9. ASSUME s.asked[n].got # << >> PROVE Good(c, k) /\ Good(p, k)
  <2>1. Differ(u, c, Plain \cup {"asked", "cache"}) /\ c.asked = u.asked
        /\ TicketsOn(u) /\ TicketsOn(c)
    BY <1>5, <1>6 DEF Differ, TicketsOn
  <2>2. Good(c, k) BY <1>4, <1>6, <1>8, <1>9, <2>1, AskedGood DEF Good, Sound
  <2>3. Differ(c, d, Plain) BY <1>7, Wider DEF Plain
  <2>4. Good(d, k) BY <2>2, <2>3, QuietGood
  <2>5. TicketsOn(d) BY <1>7, <2>1 DEF Differ, TicketsOn
  <2>6. Toast(<<"ticket", n>>) BY DEF Toast
  <2>7. Good(p, k) BY <2>4, <2>5, <2>6, PreviewGood
  <2> QED BY <2>2, <2>7
<1> QED BY <1>1, <1>2, <1>8, <1>9

\* The views of a conversation and of a new ticket are not built from the list.
LEMMA NotListShows ==
  ASSUME NEW s, NEW t, Differ(s, t, Unshown \cup {"tickets"}), TicketsOn(s), Shows(s),
         s.view.kind \in {"new", "thread"}
  PROVE  Shows(t)
<1> USE FieldNames
<1>1. Differ(s, t, Ticketed) BY Wider DEF Ticketed, Unshown
<1>2. OffTickets(t) BY <1>1, OffTicketsSame, ShownDetail
<1>3. /\ t.section = s.section /\ t.open = s.open /\ t.destroyed = s.destroyed
      /\ t.body = s.body /\ t.view = s.view /\ t.thread = s.thread /\ t.error = s.error
      /\ t.drafts = s.drafts /\ t.loadingTimer = s.loadingTimer
  BY DEF Differ, Unshown, Plain
<1>4. TicketsView(t) = TicketsView(s) BY <1>3 DEF TicketsView, ThreadView
<1>5. Chatted(s) => Chatted(t) BY <1>3, <1>4 DEF Chatted
<1> QED BY <1>2, <1>3, <1>5 DEF Shows, OffTickets

LEMMA TicketsFailGood ==
  ASSUME NEW s, NEW k, Good(s, k), TicketsOn(s)
  PROVE  /\ Good([s EXCEPT !.listCall = Unasked], k)
         /\ Good(TicketsRefused(s), k) /\ Good(TicketsFailed(s), k)
<1> USE FieldNames
<1> DEFINE t == [s EXCEPT !.listCall = Unasked]
           r == [s EXCEPT !.listCall = Unasked, !.retry = TRUE]
<1>1. /\ Differ(s, t, Plain \cup {"listCall"}) /\ Differ(s, r, Plain \cup {"listCall"})
      /\ t.listCall.got = << >> /\ r.listCall.got = << >>
  BY DEF Differ, Good, Sound, Unasked, Plain
<1>2. TicketsRefused(s) = SchedulePoll(r) /\ TicketsFailed(s) = t
  BY DEF TicketsRefused, TicketsFailed
<1> HIDE DEF t, r
<1>3. Good(t, k) /\ Good(r, k) BY <1>1, ListAskedGood
<1>4. Good(SchedulePoll(r), k) BY <1>3, SchedulePollGood
<1> QED BY <1>2, <1>3, <1>4 DEF t

LEMMA PollTimerGood ==
  ASSUME NEW s, NEW k, Good(s, k)
  PROVE  Good(PollTimer(s), k)
<1> USE FieldNames
<1> DEFINE u == [s EXCEPT !.poll = FALSE]
           l == LoadTickets(u)
           p == SchedulePoll(u)
<1>1. PollTimer(s) \in {u, l, p} BY DEF PollTimer
<1>2. Differ(s, u, Plain) BY DEF Differ, Good, Sound, Plain
<1> HIDE DEF u
<1>3. Good(u, k) BY <1>2, QuietGood
<1>4. Good(l, k) /\ Good(p, k) BY <1>3, LoadTicketsGood, SchedulePollGood
<1> QED BY <1>1, <1>3, <1>4

\* What is kept of the conversations is still what the server said.
LEMMA KeepCachedTold ==
  ASSUME NEW s, NEW k, NEW next, Asides(k, s.cache)
  PROVE  Asides(k, KeepCached(s, next))
<1> DEFINE c == KeepCached(s, next)
<1>1. DOMAIN c = TicketIds BY DEF KeepCached
<1>2. ASSUME NEW n \in TicketIds
      PROVE  c[n] = NoThread \/ (Talk(k, c[n]) /\ c[n].id = n)
  <2> DEFINE x == [s.cache[n] EXCEPT !.sum = next[n]]
  <2>1. c[n] = NoThread \/ (s.cache[n] # NoThread /\ c[n] = x) BY DEF KeepCached
  <2>2. ASSUME s.cache[n] # NoThread PROVE Talk(k, x) /\ x.id = n
    <3>1. Talk(k, s.cache[n]) /\ s.cache[n].id = n BY <2>2 DEF Asides
    <3>2. DOMAIN x = DOMAIN s.cache[n] /\ x.id = s.cache[n].id /\ x.msgs = s.cache[n].msgs
      BY <3>1 DEF Talk
    <3> HIDE DEF x
    <3> QED BY <3>1, <3>2 DEF Talk
  <2> HIDE DEF x, c
  <2> QED BY <2>1, <2>2
<1> HIDE DEF c
<1>3. Asides(k, c) BY <1>1, <1>2 DEF Asides
<1> QED BY <1>3 DEF c

\* The answer of a poll: the list, the conversations kept, the badges, and the
\* conversation on the screen, which is loaded again.
LEMMA TicketsLoadedGood ==
  ASSUME NEW s, NEW k, Good(s, k), TicketsOn(s), s.listCall.got # << >>
  PROVE  Good(TicketsLoaded(s), k)
<1> USE FieldNames
<1> DEFINE next == s.listCall.got[1]
           kept == KeepCached(s, next)
           live == \E t \in DOMAIN next : IsLive(next[t])
           o == [s EXCEPT !.listCall = Unasked, !.retry = FALSE, !.tickets = next,
                   !.cache = kept, !.fetched = TRUE, !.live = live]
           u == SyncBadges(o)
           x == LoadThread(u, u.view.id, FALSE)
           y == RepaintTickets(u)
           v == CASE Refreshes(u)            -> x
                  [] u.view.kind = "list" -> y
                  [] OTHER                -> u
           news == {t \in UnreadTickets(v) : v.toasted[t] # v.tickets[t].count}
           new == CHOOSE t \in news : \A q \in news : t >= q
           n == IF v.open \/ news = {} THEN v ELSE LoadNotification(v, new)
           a == [s EXCEPT !.listCall = Unasked]
<1>1. TicketsLoaded(s) = IF s.destroyed THEN a ELSE SchedulePoll(n)
  BY DEF TicketsLoaded
<1>2. Told(k, next) BY DEF Good, Sound, Listed
<1>3. Asides(k, kept) BY KeepCachedTold DEF Good, Sound
<1> HIDE DEF next, kept, live
<1>4. /\ Differ(s, o, {"listCall", "retry", "tickets", "cache", "fetched", "live"})
      /\ o.listCall = Unasked /\ o.tickets = next /\ o.cache = kept
  BY DEF Differ, Good, Sound
<1> HIDE DEF o
<1>5. /\ /\ o.sections = s.sections /\ o.section = s.section /\ o.body = s.body
         /\ o.feed = s.feed /\ o.loads = s.loads /\ o.detail = s.detail /\ o.toast = s.toast
         /\ o.view = s.view /\ o.thread = s.thread /\ o.error = s.error /\ o.drafts = s.drafts
         /\ o.replies = s.replies /\ o.threadCall = s.threadCall /\ o.loading = s.loading
         /\ o.loadingTimer = s.loadingTimer /\ o.asked = s.asked /\ o.creating = s.creating
      /\ DOMAIN o = Names
  BY <1>4 DEF Differ
<1>6. Sound(o, k)
  <2>1. Listed(k, o.listCall) BY <1>4 DEF Listed, Unasked
  <2> QED BY <1>2, <1>3, <1>4, <1>5, <2>1 DEF Good, Sound, TicketsOn
<1>7. Half(o, k)
  <2>1. Differ(s, o, Ticketed) BY <1>4, Wider DEF Ticketed, Plain
  <2> QED BY <1>6, <2>1, GoodHalf, HalfSame
<1>8. Sound(u, k) /\ Counts(u, k) /\ Differ(o, u, {"at", "badge", "expiry"})
  BY <1>6, SyncGood
<1> HIDE DEF u
<1>9. Half(u, k)
  <2>1. Differ(o, u, Ticketed) BY <1>8, Wider DEF Ticketed, Plain
  <2> QED BY <1>7, <1>8, <2>1, HalfSame
<1>10. u.view.kind \in {"new", "thread"} => Shows(u)
  <2>1. Differ(s, u, {"listCall", "retry", "tickets", "cache", "fetched", "live"}
                     \cup {"at", "badge", "expiry"})
    BY <1>4, <1>8, Onward
  <2>2. Differ(s, u, Unshown \cup {"tickets"}) BY <2>1, Wider DEF Unshown, Plain
  <2>3. u.view = s.view BY <2>1 DEF Differ
  <2> QED BY <2>2, <2>3, NotListShows DEF Good
<1>11. Refreshes(u) => Good(x, k) /\ TicketsOn(x)
  <2> SUFFICES ASSUME Refreshes(u) PROVE Good(x, k) /\ TicketsOn(x) OBVIOUS
  <2>1. u.view.kind = "thread" /\ u.error = "" BY DEF Refreshes
  <2>2. Good(x, k) /\ Differ(u, x, {"threadCall", "loading", "error"})
    BY <1>8, <1>9, <1>10, <2>1, LoadThreadGood
  <2> HIDE DEF x
  <2> QED BY <1>9, <2>2 DEF Differ, Half, TicketsOn
<1>12. Good(y, k) /\ TicketsOn(y)
  <2>1. Good(y, k) /\ Differ(u, y, {"body", "busy", "replies"})
    BY <1>8, <1>9, RepaintTicketsGood DEF Half, Good
  <2> HIDE DEF y
  <2> QED BY <1>9, <2>1 DEF Differ, Half, TicketsOn
<1>13. Good(v, k) /\ TicketsOn(v)
  <2> HIDE DEF x, y
  <2>1. CASE Refreshes(u)
    <3>1. u.view.kind # "list" BY <2>1 DEF Refreshes
    <3>2. v = x BY <2>1, <3>1
    <3> QED BY <1>11, <2>1, <3>2
  <2>2. CASE ~Refreshes(u) /\ u.view.kind = "list"
    <3>1. v = y BY <2>2
    <3> QED BY <1>12, <3>1
  <2>3. CASE ~Refreshes(u) /\ u.view.kind # "list"
    <3>1. v = u BY <2>3
    <3>2. Shows(u) BY <1>8, <1>10, <2>3 DEF Sound
    <3> QED BY <1>8, <1>9, <3>1, <3>2 DEF Good, Half
  <2> QED BY <2>1, <2>2, <2>3
<1> HIDE DEF v
<1>14. Good(n, k)
  <2> SUFFICES ASSUME ~v.open, news # {} PROVE Good(LoadNotification(v, new), k) BY <1>13
  <2>1. news \in SUBSET DOMAIN v.tickets BY DEF UnreadTickets
  <2>2. DOMAIN v.tickets \subseteq TicketIds BY <1>13 DEF Good, Sound, Told, Said
  <2> HIDE DEF news
  <2>3. new \in news BY <2>1, <2>2, LatestTicket
  <2> HIDE DEF new
  <2> QED BY <1>13, <2>1, <2>3, LoadNotificationGood
<1> HIDE DEF n
<1>15. Good(SchedulePoll(n), k) BY <1>14, SchedulePollGood
<1>16. Good(a, k) BY TicketsFailGood
<1> QED BY <1>1, <1>15, <1>16

\* upsertTicketFromSocket(): a view that is not repainted shows nothing of what changed.
LEMMA UpsertGood ==
  ASSUME NEW s, NEW k, NEW n, NEW sum, Good(s, k), TicketsOn(s), Said(k, n, sum)
  PROVE  Good(Upsert(s, n, sum), k) /\ TicketsOn(Upsert(s, n, sum))
<1> USE FieldNames
<1> DEFINE c == [s.cache[n] EXCEPT !.sum = sum]
           cached == IF s.cache[n] = NoThread THEN NoThread
                     ELSE IF sum.count # Len(s.cache[n].msgs) THEN NoThread ELSE c
           h == [s.cache EXCEPT ![n] = cached]
           list == [q \in DOMAIN s.tickets \cup {n} |-> IF q = n THEN sum ELSE s.tickets[q]]
           live == \E q \in DOMAIN list : IsLive(list[q])
           o == [s EXCEPT !.cache = h, !.tickets = list, !.live = live]
           u == SyncBadges(o)
           th == [u.thread EXCEPT !.id = n, !.sum = sum]
           r == RememberThread(u, th)
           p == RepaintTickets(u)
           q == RepaintTickets(r)
<1> DEFINE x == IF u.thread.sum.status # sum.status THEN q ELSE r
<1>1. Upsert(s, n, sum) = CASE u.open /\ u.section = "tickets" /\ u.view.kind = "list" -> p
                            [] OnScreen(u, n) /\ u.thread # NoThread -> x
                            [] OTHER -> u
  BY DEF Upsert
<1>2. n \in TicketIds /\ n \in DOMAIN k BY DEF Good, Sound, Said
<1>3. Asides(k, h)
  <2>1. Asides(k, s.cache) BY DEF Good, Sound
  <2>2. ASSUME s.cache[n] # NoThread PROVE Talk(k, c) /\ c.id = n
    <3>1. Talk(k, s.cache[n]) /\ s.cache[n].id = n BY <1>2, <2>1, <2>2 DEF Asides
    <3>2. DOMAIN c = DOMAIN s.cache[n] /\ c.id = s.cache[n].id /\ c.msgs = s.cache[n].msgs
      BY <3>1 DEF Talk
    <3> HIDE DEF c
    <3> QED BY <3>1, <3>2 DEF Talk
  <2>3. cached = NoThread \/ (Talk(k, cached) /\ cached.id = n) BY <2>2
  <2> HIDE DEF c, cached
  <2>4. /\ DOMAIN h = TicketIds
        /\ \A m \in TicketIds : h[m] = IF m = n THEN cached ELSE s.cache[m]
    BY <2>1 DEF Asides
  <2> HIDE DEF h
  <2> QED BY <2>1, <2>3, <2>4 DEF Asides
<1>4. Told(k, list)
  <2>1. Told(k, s.tickets) BY DEF Good, Sound
  <2>2. ASSUME NEW m \in DOMAIN list PROVE Said(k, m, list[m])
    <3>1. m = n \/ m \in DOMAIN s.tickets OBVIOUS
    <3>2. CASE m = n BY <3>2
    <3>3. CASE m # n BY <2>1, <3>1, <3>3 DEF Told
    <3> QED BY <3>2, <3>3
  <2> QED BY <2>2 DEF Told
<1> HIDE DEF h, list, live
<1>5. /\ Differ(s, o, {"cache", "tickets", "live"}) /\ o.tickets = list /\ o.cache = h
  BY DEF Differ, Good, Sound
<1> HIDE DEF o
<1>6. /\ /\ o.sections = s.sections /\ o.section = s.section /\ o.body = s.body
         /\ o.feed = s.feed /\ o.loads = s.loads /\ o.detail = s.detail /\ o.toast = s.toast
         /\ o.view = s.view /\ o.thread = s.thread /\ o.error = s.error /\ o.drafts = s.drafts
         /\ o.replies = s.replies /\ o.listCall = s.listCall /\ o.threadCall = s.threadCall
         /\ o.loading = s.loading /\ o.loadingTimer = s.loadingTimer /\ o.asked = s.asked
         /\ o.creating = s.creating
      /\ DOMAIN o = Names
  BY <1>5 DEF Differ
<1>7. Sound(o, k) BY <1>3, <1>4, <1>5, <1>6 DEF Good, Sound, TicketsOn
<1>8. Half(o, k)
  <2>1. Differ(s, o, Ticketed) BY <1>5, Wider DEF Ticketed, Plain
  <2> QED BY <1>7, <2>1, GoodHalf, HalfSame
<1>9. Sound(u, k) /\ Counts(u, k) /\ Differ(o, u, {"at", "badge", "expiry"})
  BY <1>7, SyncGood
<1> HIDE DEF u
<1>10. Half(u, k)
  <2>1. Differ(o, u, Ticketed) BY <1>9, Wider DEF Ticketed, Plain
  <2> QED BY <1>8, <1>9, <2>1, HalfSame
<1>11. Differ(s, u, {"cache", "tickets", "live"} \cup {"at", "badge", "expiry"})
  BY <1>5, <1>9, Onward
<1>12. u.view.kind \in {"new", "thread"} => Shows(u)
  <2>1. Differ(s, u, Unshown \cup {"tickets"}) BY <1>11, Wider DEF Unshown, Plain
  <2>2. u.view = s.view BY <1>11 DEF Differ
  <2> QED BY <2>1, <2>2, NotListShows DEF Good
<1>13. Good(p, k) /\ Differ(u, p, {"body", "busy", "replies"})
  BY <1>9, <1>10, RepaintTicketsGood DEF Half, Good
<1> HIDE DEF p
<1>14. ASSUME OnScreen(u, n), u.thread # NoThread PROVE Good(x, k) /\ TicketsOn(x)
  <2>1. /\ Talk(k, u.thread) /\ u.view.kind = "thread" /\ u.view.id = n
        /\ u.thread.id = n \/ Stray(u.thread, n)
    BY <1>9, <1>14 DEF Sound, Chosen, OnScreen, Viewing
  <2>2. th.id = n /\ th.msgs = u.thread.msgs /\ th.sum = sum /\ DOMAIN th = DOMAIN u.thread
    BY <2>1 DEF Talk
  <2> HIDE DEF th
  <2>3. Talk(k, th) /\ Chosen(k, th, u.view) BY <1>2, <2>1, <2>2 DEF Talk, Chosen
  <2>4. /\ Half(r, k) /\ Counts(r, k) /\ Differ(u, r, {"thread", "cache"}) /\ r.thread = th
    BY <1>9, <1>10, <2>3, RememberGood
  <2> HIDE DEF r
  <2>5. Good(q, k) /\ Differ(r, q, {"body", "busy", "replies"})
    BY <2>4, RepaintTicketsGood DEF Half, Good
  <2> HIDE DEF q
  <2>6. ASSUME u.thread.sum.status = sum.status PROVE Shows(r)
    <3>1. /\ r.open = u.open /\ r.destroyed = u.destroyed /\ r.section = u.section
          /\ r.view = u.view /\ r.body = u.body /\ r.error = u.error /\ r.drafts = u.drafts
          /\ r.loadingTimer = u.loadingTimer
      BY <2>4 DEF Differ
    <3>2. u.section = "tickets" BY <1>14 DEF OnScreen
    <3>3. th # NoThread /\ th.id # None /\ u.thread.id # None
      BY <1>9, <2>1, <2>3, TalkIsThread DEF Sound
    <3>4. ASSUME Chatted(u) PROVE Chatted(r)
      <4>1. CASE Stray(u.thread, n)
        <5>1. Stray(th, n) BY <2>2, <4>1 DEF Stray
        <5> QED BY <2>1, <2>4, <3>1, <3>3, <5>1 DEF Chatted
      <4>2. CASE u.thread.id = n /\ u.body = TicketsView(u)
        <5>1. TicketsView(r) = TicketsView(u)
          BY <2>1, <2>2, <2>4, <2>6, <3>1, <3>3, <4>2 DEF TicketsView, ThreadView
        <5> QED BY <3>1, <4>2, <5>1 DEF Chatted
      <4>3. CASE u.loadingTimer = u.view.id BY <2>1, <3>1, <4>3 DEF Chatted
      <4> QED BY <2>1, <3>4, <4>1, <4>2, <4>3 DEF Chatted
    <3>5. Shows(u) BY <1>12, <2>1
    <3> QED BY <3>1, <3>2, <3>4, <3>5 DEF Shows
  <2>7. TicketsOn(r) /\ TicketsOn(q) BY <1>10, <2>4, <2>5 DEF Differ, Half, TicketsOn
  <2> QED BY <2>4, <2>5, <2>6, <2>7 DEF Good, Half
<1> HIDE DEF x
<1>15. TicketsOn(u) /\ TicketsOn(p) BY <1>10, <1>13 DEF Differ, Half, TicketsOn
<1>16. CASE u.open /\ u.section = "tickets" /\ u.view.kind = "list"
  <2>1. ~OnScreen(u, n) BY <1>16 DEF OnScreen, Viewing
  <2>2. Upsert(s, n, sum) = p BY <1>1, <1>16, <2>1
  <2> QED BY <1>13, <1>15, <2>2
<1>17. CASE OnScreen(u, n) /\ u.thread # NoThread
  <2>1. u.view.kind # "list" BY <1>17 DEF OnScreen, Viewing
  <2>2. Upsert(s, n, sum) = x BY <1>1, <1>17, <2>1
  <2> QED BY <1>14, <1>17, <2>2
<1>18. CASE /\ ~(u.open /\ u.section = "tickets" /\ u.view.kind = "list")
            /\ ~(OnScreen(u, n) /\ u.thread # NoThread)
  <2>1. Upsert(s, n, sum) = u BY <1>1, <1>18
  <2>2. Shows(u)
    <3>1. CASE u.open /\ u.section = "tickets" BY <1>9, <1>12, <1>18, <3>1 DEF Sound
    <3>2. CASE ~(u.open /\ u.section = "tickets")
      BY <1>10, <3>2 DEF Half, OffTickets, Shows
    <3> QED BY <3>1, <3>2
  <2> QED BY <1>9, <1>15, <2>1, <2>2 DEF Good
<1> QED BY <1>16, <1>17, <1>18

\* appendTicketMessageToView(): the message is in the conversation and on the screen.
LEMMA AppendMessageGood ==
  ASSUME NEW s, NEW k, NEW n, NEW m, Good(s, k), TicketsOn(s), OnScreen(s, n), s.thread # NoThread
  PROVE  Good(AppendMessage(s, m), k) /\ TicketsOn(AppendMessage(s, m))
<1> USE FieldNames
<1> DEFINE th == [s.thread EXCEPT !.msgs = Append(@, m)]
           u == RememberThread(s, th)
           b == [u.body EXCEPT ![3] = Append(@, m)]
           v == [u EXCEPT !.body = b]
<1>1. AppendMessage(s, m) = IF m \in Range(s.thread.msgs) THEN s
                            ELSE IF u.body[1] = "thread" THEN v ELSE u
  BY DEF AppendMessage
<1>2. Talk(k, s.thread) /\ s.view.kind = "thread" /\ s.section = "tickets"
  BY DEF Good, Sound, Chosen, OnScreen, Viewing
<1>3. /\ DOMAIN th = DOMAIN s.thread /\ th.id = s.thread.id /\ th.sum = s.thread.sum
      /\ th.msgs = Append(s.thread.msgs, m)
  BY <1>2 DEF Talk
<1> HIDE DEF th
<1>4. PICK S : s.thread.msgs \in Seq(S) BY <1>2 DEF Talk
<1>5. th.msgs \in Seq(S \cup {m})
  <2>1. s.thread.msgs \in Seq(S \cup {m}) BY <1>4, SeqMonotonic
  <2> QED BY <1>3, <2>1
<1>6. Talk(k, th) BY <1>2, <1>3, <1>5 DEF Talk
<1>7. \A x : Stray(s.thread, x) => Stray(th, x)
  <2>1. \A i \in DOMAIN s.thread.msgs : i \in DOMAIN th.msgs /\ th.msgs[i] = s.thread.msgs[i]
    BY <1>3, <1>4
  <2> QED BY <2>1 DEF Stray
<1>8. Chosen(k, th, s.view)
  <2>1. s.thread.id = s.view.id \/ Stray(s.thread, s.view.id)
    BY <1>2 DEF Good, Sound, Chosen
  <2> QED BY <1>3, <1>6, <1>7, <2>1 DEF Chosen
<1>9. Half(u, k) /\ Counts(u, k) /\ Differ(s, u, {"thread", "cache"}) /\ u.thread = th
  <2>1. Half(s, k) /\ Counts(s, k) BY GoodHalf DEF Good
  <2> QED BY <1>6, <1>8, <2>1, RememberGood
<1> HIDE DEF u
<1>10. /\ u.open = s.open /\ u.destroyed = s.destroyed /\ u.section = s.section
       /\ u.view = s.view /\ u.body = s.body /\ u.error = s.error /\ u.drafts = s.drafts
       /\ u.loadingTimer = s.loadingTimer
  BY <1>9 DEF Differ
<1>11. s.thread # NoThread /\ s.thread.id # None /\ th # NoThread /\ th.id # None
  BY <1>2, <1>6, TalkIsThread DEF Good, Sound
<1>12. TicketsView(s) = <<"thread", s.thread.id, s.thread.msgs, s.error, s.thread.sum.status,
                          s.drafts[s.thread.id]>>
  BY <1>2, <1>11 DEF TicketsView, ThreadView
<1>13. ASSUME NEW t, t.view = s.view, t.thread = th, t.loadingTimer = s.loadingTimer,
              ~s.destroyed, s.body = TicketsView(s) => t.body = TicketsView(t)
       PROVE  Chatted(t)
  <2>1. Chatted(s) BY <1>2, <1>13 DEF Good, Shows, OnScreen
  <2>2. CASE Stray(s.thread, s.view.id) BY <1>2, <1>7, <1>11, <1>13, <2>2 DEF Chatted
  <2>3. CASE ~Stray(s.thread, s.view.id) BY <1>2, <1>13, <2>1, <2>3 DEF Chatted
  <2> QED BY <2>2, <2>3
<1>14. ASSUME u.body[1] # "thread" PROVE Good(u, k)
  <2>1. s.body # TicketsView(s)
    <3> DEFINE x == <<"thread", s.thread.id, s.thread.msgs, s.error, s.thread.sum.status,
                      s.drafts[s.thread.id]>>
    <3>1. x[1] = "thread" OBVIOUS
    <3> HIDE DEF x
    <3> QED BY <1>10, <1>12, <1>14, <3>1 DEF x
  <2>2. ~s.destroyed => Chatted(u) BY <1>9, <1>10, <1>13, <2>1
  <2>3. Shows(u) BY <1>2, <1>10, <2>2 DEF Shows
  <2> QED BY <1>9, <2>3 DEF Good, Half
<1>15. ASSUME u.body[1] = "thread" PROVE Good(v, k) /\ TicketsOn(v)
  <2>1. Page(k, u.body) BY <1>9 DEF Half, Sound
  <2>2. DOMAIN u.body = 1..6 /\ u.body[2] \in DOMAIN k BY <1>15, <2>1 DEF Page
  <2>3. /\ DOMAIN b = 1..6 /\ b[1] = "thread" /\ b[2] = u.body[2]
        /\ b[3] = Append(u.body[3], m) /\ b[4] = u.body[4] /\ b[5] = u.body[5]
        /\ b[6] = u.body[6]
    BY <1>15, <2>2
  <2>4. ASSUME s.body = TicketsView(s)
        PROVE  b = <<"thread", th.id, th.msgs, s.error, th.sum.status, s.drafts[th.id]>>
    <3> DEFINE x == <<"thread", th.id, th.msgs, s.error, th.sum.status, s.drafts[th.id]>>
               y == TicketsView(s)
    <3>1. y[2] = s.thread.id /\ y[3] = s.thread.msgs /\ y[4] = s.error
          /\ y[5] = s.thread.sum.status /\ y[6] = s.drafts[s.thread.id]
      BY <1>12
    <3> HIDE DEF y
    <3>2. u.body = y BY <1>10, <2>4 DEF y
    <3>3. /\ x[1] = "thread" /\ x[2] = th.id /\ x[3] = th.msgs /\ x[4] = s.error
          /\ x[5] = th.sum.status /\ x[6] = s.drafts[th.id]
      OBVIOUS
    <3>4. \A i \in 1..6 : b[i] = x[i]
      <4> HIDE DEF b, x
      <4>1. /\ b[1] = x[1] /\ b[2] = x[2] /\ b[3] = x[3] /\ b[4] = x[4] /\ b[5] = x[5]
            /\ b[6] = x[6]
        BY <1>3, <2>3, <3>1, <3>2, <3>3
      <4> QED BY <4>1
    <3>5. x = [i \in 1..6 |-> x[i]] OBVIOUS
    <3>6. b = [i \in 1..6 |-> b[i]] BY <2>3
    <3> HIDE DEF b, x
    <3>7. b = x BY <3>4, <3>5, <3>6
    <3> QED BY <3>7 DEF x
  <2> HIDE DEF b
  <2>5. Differ(u, v, {"body"}) /\ v.body = b BY <1>9 DEF Differ, Half, Sound
  <2> HIDE DEF v
  <2>6. Sound(v, k)
    <3>1. Differ(u, v, Unsaid \cup {"body", "detail", "replies", "section"}) BY <2>5, Wider
    <3>2. Page(k, v.body) BY <2>2, <2>3, <2>5 DEF Page
    <3>3. v.detail = u.detail /\ v.replies = u.replies /\ v.section = u.section
      BY <2>5 DEF Differ
    <3>4. /\ Sound(u, k) /\ TicketsOn(u) /\ DOMAIN u.detail = {"id", "held"}
          /\ Replying(k, u.replies) /\ u.section \in {"updates", "tickets", "feedback"}
      BY <1>9 DEF Half, Sound
    <3> QED BY <3>1, <3>2, <3>3, <3>4, BodySound
  <2>7. Counted(v) = Counted(u) BY <2>5 DEF Differ, Counted
  <2>8. Counts(v, k) BY <1>9, <2>7, SameCounts
  <2>9. /\ v.open = u.open /\ v.destroyed = u.destroyed /\ v.section = u.section
        /\ v.view = u.view /\ v.error = u.error /\ v.drafts = u.drafts
        /\ v.thread = th /\ v.loadingTimer = u.loadingTimer /\ v.sections = u.sections
    BY <1>9, <2>5 DEF Differ
  <2>10. TicketsView(v) = <<"thread", th.id, th.msgs, s.error, th.sum.status, s.drafts[th.id]>>
    BY <1>2, <1>10, <1>11, <2>9 DEF TicketsView, ThreadView
  <2>11. ~s.destroyed => Chatted(v) BY <1>10, <1>13, <2>4, <2>5, <2>9, <2>10
  <2>12. Shows(v) BY <1>2, <1>10, <2>9, <2>11 DEF Shows
  <2> QED BY <1>9, <2>6, <2>8, <2>9, <2>12 DEF Good, Half, TicketsOn
<1>16. TicketsOn(u) BY <1>9 DEF Half
<1> QED BY <1>1, <1>14, <1>15, <1>16

\* ticket.created, ticket.updated, ticket.message
LEMMA TicketEventGood ==
  ASSUME NEW s, NEW k, NEW type, NEW n, NEW sum, Good(s, k), TicketsOn(s), Said(k, n, sum)
  PROVE  Good(TicketEvent(s, type, n, sum), k)
<1> USE FieldNames
<1> DEFINE h == [s EXCEPT !.history = @ \/ type = "created"]
           u == Upsert(h, n, sum)
           a == AppendMessage(u, <<n, sum.count>>)
           m == MarkTicketRead(a, n, sum)
           o == [u.toasted EXCEPT ![n] = sum.count]
           d == [u EXCEPT !.toasted = o]
           p == ShowPreviewToast(d, <<"ticket", n>>)
           here == OnScreen(u, n) /\ u.thread # NoThread
<1>1. TicketEvent(s, type, n, sum)
      = IF type # "message" THEN u
        ELSE IF here THEN IF sum.author = "staff" THEN m ELSE a
        ELSE IF /\ sum.author = "staff" /\ ~u.open /\ UnreadTicket(u, n, sum)
                /\ u.toasted[n] # sum.count
        THEN p ELSE u
  BY DEF TicketEvent
<1>2. Differ(s, h, {"history"}) BY DEF Differ, Good, Sound
<1> HIDE DEF h
<1>3. Differ(s, h, Plain) /\ TicketsOn(h) BY <1>2 DEF Differ, Plain, TicketsOn
<1>4. Good(h, k) BY <1>3, QuietGood
<1>5. Good(u, k) /\ TicketsOn(u) BY <1>3, <1>4, UpsertGood
<1> HIDE DEF u
<1>6. ASSUME here PROVE Good(a, k) /\ Good(m, k)
  <2>1. Good(a, k) /\ TicketsOn(a) BY <1>5, <1>6, AppendMessageGood
  <2> HIDE DEF a
  <2>2. Half(a, k) BY <2>1, GoodHalf
  <2>3. Half(m, k) /\ Counts(m, k) /\ Shows(m) BY <2>1, <2>2, MarkReadGood DEF Good
  <2> QED BY <2>1, <2>3 DEF Good, Half
<1> HIDE DEF a, m, here, o
<1>7. Differ(u, d, {"toasted"}) BY <1>5 DEF Differ, Good, Sound
<1> HIDE DEF d
<1>8. Differ(u, d, Plain) /\ TicketsOn(d) BY <1>5, <1>7 DEF Differ, Plain, TicketsOn
<1>9. Good(d, k) BY <1>5, <1>8, QuietGood
<1>10. Toast(<<"ticket", n>>)
  <2>1. n \in TicketIds BY DEF Good, Sound, Said
  <2> QED BY <2>1 DEF Toast
<1>11. Good(p, k) BY <1>8, <1>9, <1>10, PreviewGood
<1> HIDE DEF p
<1> QED BY <1>1, <1>5, <1>6, <1>11

------------------------------------------------------------------------------
(* Replies and new tickets: what is shown                                  *)

\* What the server owes an answer to is shown by no view.
LEMMA OwedGood ==
  ASSUME NEW s, NEW t, NEW k, Good(s, k), TicketsOn(s),
         Differ(s, t, Plain \cup {"threadCall", "replies", "creating", "listCall"}),
         Called(k, t.threadCall, s.error), Replying(k, t.replies), Making(k, t.creating),
         Listed(k, t.listCall)
  PROVE  Good(t, k)
<1> USE FieldNames
<1>1. Differ(s, t, Unshown) BY Wider DEF Unshown
<1>2. Counted(t) = Counted(s) BY DEF Differ, Plain, Counted
<1>3. /\ /\ t.sections = s.sections /\ t.section = s.section /\ t.body = s.body
         /\ t.feed = s.feed /\ t.loads = s.loads /\ t.detail = s.detail /\ t.toast = s.toast
         /\ t.tickets = s.tickets /\ t.view = s.view /\ t.thread = s.thread /\ t.error = s.error
         /\ t.drafts = s.drafts /\ t.loading = s.loading /\ t.loadingTimer = s.loadingTimer
         /\ t.cache = s.cache /\ t.asked = s.asked
      /\ DOMAIN t = Names
  BY DEF Differ, Plain
<1>4. Sound(t, k) BY <1>3 DEF Good, Sound, TicketsOn
<1> QED BY <1>1, <1>2, <1>4, SameCounts, SameShows DEF Good

LEMMA ComposerOnScreen ==
  ASSUME NEW s, NEW k, Good(s, k), ComposerOffered(s)
  PROVE  /\ s.section = "tickets" /\ TicketsOn(s) /\ s.body[1] = "thread"
         /\ DOMAIN s.body = 1..6 /\ s.body[2] \in DOMAIN k /\ s.body[2] \in TicketIds
<1>1. s.section = "tickets" /\ s.body[1] = "thread" BY DEF ComposerOffered
<1> QED BY <1>1 DEF Good, Sound, NoTickets, Page

\* What is typed is in the box and in the draft the box is built from.
LEMMA TypeReplyGood ==
  ASSUME NEW s, NEW k, NEW text, Good(s, k), ComposerOffered(s)
  PROVE  Good(TypeReply(s, text), k)
<1> USE FieldNames
<1> DEFINE d == [s.drafts EXCEPT ![s.body[2]] = text]
           b == [s.body EXCEPT ![6] = text]
           t == [s EXCEPT !.drafts = d, !.body = b]
<1>0. TypeReply(s, text) = t BY DEF TypeReply
<1>1. /\ s.section = "tickets" /\ TicketsOn(s) /\ s.body[1] = "thread"
      /\ DOMAIN s.body = 1..6 /\ s.body[2] \in DOMAIN k /\ s.body[2] \in TicketIds
  BY ComposerOnScreen
<1>2. /\ DOMAIN b = 1..6 /\ b[6] = text /\ b = [i \in 1..6 |-> b[i]]
      /\ \A i \in 1..5 : b[i] = s.body[i]
  BY <1>1
<1>3. DOMAIN d = TicketIds /\ d[s.body[2]] = text BY <1>1 DEF Good, Sound
<1> HIDE DEF d, b
<1>4. Differ(s, t, {"drafts", "body"}) /\ t.drafts = d /\ t.body = b
  BY DEF Differ, Good, Sound
<1> HIDE DEF t
<1>5. /\ /\ t.sections = s.sections /\ t.section = s.section /\ t.feed = s.feed
         /\ t.loads = s.loads /\ t.detail = s.detail /\ t.toast = s.toast
         /\ t.tickets = s.tickets /\ t.view = s.view /\ t.thread = s.thread /\ t.error = s.error
         /\ t.replies = s.replies /\ t.listCall = s.listCall /\ t.threadCall = s.threadCall
         /\ t.loading = s.loading /\ t.loadingTimer = s.loadingTimer /\ t.cache = s.cache
         /\ t.asked = s.asked /\ t.creating = s.creating
      /\ DOMAIN t = Names /\ t.open = s.open /\ t.destroyed = s.destroyed
  BY <1>4 DEF Differ
<1>6. Page(k, t.body) BY <1>1, <1>2, <1>4 DEF Page
<1>7. Sound(t, k) BY <1>1, <1>3, <1>4, <1>5, <1>6 DEF Good, Sound, TicketsOn
<1>8. Counted(t) = Counted(s) BY <1>4 DEF Differ, Counted
<1>9. Counts(t, k) BY <1>8, SameCounts DEF Good
<1>10. ASSUME s.body = TicketsView(s) PROVE t.body = TicketsView(t)
  <2>1. s.view.kind = "thread" /\ s.thread.id # None
    <3>1. TicketsList(s)[1] = "list" /\ NewTicketView[1] = "new" BY DEF TicketsList, NewTicketView
    <3>2. s.thread.id = None => ThreadView(s)[1] = "loading" BY DEF ThreadView
    <3>3. s.view.kind \in {"list", "new", "thread"} BY DEF Good, Sound
    <3>4. CASE s.view.kind = "list"
      <4>1. TicketsView(s) = TicketsList(s) BY <3>4 DEF TicketsView
      <4> QED BY <1>1, <1>10, <3>1, <4>1
    <3>5. CASE s.view.kind = "new"
      <4>1. TicketsView(s) = NewTicketView BY <3>5 DEF TicketsView
      <4> QED BY <1>1, <1>10, <3>1, <4>1
    <3>6. CASE s.view.kind = "thread"
      <4>1. TicketsView(s) = ThreadView(s) BY <3>6 DEF TicketsView
      <4> QED BY <1>1, <1>10, <3>2, <3>6, <4>1
    <3> QED BY <3>3, <3>4, <3>5, <3>6
  <2> DEFINE x == <<"thread", s.thread.id, s.thread.msgs, s.error, s.thread.sum.status,
                    s.drafts[s.thread.id]>>
             y == <<"thread", s.thread.id, s.thread.msgs, s.error, s.thread.sum.status,
                    d[s.thread.id]>>
  <2>2. TicketsView(s) = x BY <2>1 DEF TicketsView, ThreadView
  <2>3. TicketsView(t) = y BY <1>4, <1>5, <2>1 DEF TicketsView, ThreadView
  <2>4. /\ \A i \in 1..5 : x[i] = y[i]
        /\ x[2] = s.thread.id /\ y[6] = d[s.thread.id]
    OBVIOUS
  <2>5. y = [i \in 1..6 |-> y[i]] OBVIOUS
  <2> HIDE DEF x, y
  <2>6. s.body = x BY <1>10, <2>2
  <2>7. b[6] = y[6] /\ \A i \in 1..5 : b[i] = y[i] BY <1>2, <1>3, <2>4, <2>6
  <2>8. \A i \in 1..6 : b[i] = y[i] BY <2>7
  <2>9. b = y BY <1>2, <2>5, <2>8
  <2> QED BY <1>4, <2>3, <2>9
<1>11. Shows(t)
  <2>1. Chatted(s) => Chatted(t) BY <1>5, <1>10 DEF Chatted
  <2> QED BY <1>1, <1>5, <2>1 DEF Good, Shows
<1> QED BY <1>0, <1>7, <1>9, <1>11 DEF Good

LEMMA SendReplyGood ==
  ASSUME NEW s, NEW k, Good(s, k), ComposerOffered(s)
  PROVE  Good(SendReply(s), k)
<1> USE FieldNames
<1> DEFINE r == [of |-> s.body[2], text |-> s.body[6], here |-> TRUE, got |-> << >>]
           t == [s EXCEPT !.busy = TRUE, !.replies = @ \cup {r}]
<1>0. SendReply(s) = t BY DEF SendReply
<1>1. TicketsOn(s) /\ s.body[2] \in DOMAIN k BY ComposerOnScreen
<1>2. Sending(k, r) BY <1>1 DEF Sending
<1> HIDE DEF r
<1>3. Differ(s, t, {"busy", "replies"}) /\ t.replies = s.replies \cup {r}
  BY DEF Differ, Good, Sound
<1> HIDE DEF t
<1>4. Differ(s, t, Plain \cup {"threadCall", "replies", "creating", "listCall"})
  BY <1>3, Wider DEF Plain
<1>5. Replying(k, t.replies) BY <1>2, <1>3 DEF Good, Sound, Replying
<1>6. t.threadCall = s.threadCall /\ t.creating = s.creating /\ t.listCall = s.listCall
  BY <1>3 DEF Differ
<1>7. Good(t, k) BY <1>1, <1>4, <1>5, <1>6, OwedGood DEF Good, Sound
<1> QED BY <1>0, <1>7

LEMMA ReplyFailedGood ==
  ASSUME NEW s, NEW k, NEW r, Good(s, k), TicketsOn(s)
  PROVE  Good(ReplyFailed(s, r), k)
<1> USE FieldNames
<1> DEFINE t == ReplyFailed(s, r)
<1>1. Differ(s, t, {"busy", "replies"}) /\ t.replies = s.replies \ {r}
  BY DEF ReplyFailed, Differ, Good, Sound
<1> HIDE DEF t
<1>2. Differ(s, t, Plain \cup {"threadCall", "replies", "creating", "listCall"})
  BY <1>1, Wider DEF Plain
<1>3. Replying(k, t.replies) BY <1>1 DEF Good, Sound, Replying
<1>4. t.threadCall = s.threadCall /\ t.creating = s.creating /\ t.listCall = s.listCall
  BY <1>1 DEF Differ
<1>5. Good(t, k) BY <1>2, <1>3, <1>4, OwedGood DEF Good, Sound
<1> QED BY <1>5 DEF t

\* A conversation as the server tells it may take the place of any other.
LEMMA PureChosen ==
  ASSUME NEW k, NEW th, NEW v, Talk(k, th), Pure(th)
  PROVE  Chosen(k, th, v)
<1>1. PICK S : th.msgs \in Seq(S) BY DEF Talk
<1>2. DOMAIN th.msgs = 1..Len(th.msgs) /\ Len(th.msgs) \in Nat BY <1>1
<1>3. 1 \in DOMAIN th.msgs BY <1>2 DEF Pure
<1>4. th.id # v.id => Stray(th, v.id) BY <1>3 DEF Pure, Stray
<1> QED BY <1>4 DEF Chosen

\* The answer to a reply: the conversation it tells is the one that is shown.
LEMMA ReplyStoredGood ==
  ASSUME NEW s, NEW k, NEW r \in s.replies, Good(s, k), TicketsOn(s), r.got # << >>
  PROVE  Good(ReplyStored(s, r), k)
<1> USE FieldNames
<1> DEFINE th == r.got[1]
           d == [s.drafts EXCEPT ![r.of] = 0]
           c == [s EXCEPT !.replies = @ \ {r}, !.drafts = d]
           u == RememberThread(c, th)
           list == [t \in DOMAIN u.tickets |-> IF t = r.of THEN th.sum ELSE u.tickets[t]]
           l == [u EXCEPT !.tickets = list]
           y == SyncBadges(l)
           z == [y EXCEPT !.error = ""]
<1>1. ReplyStored(s, r) = RepaintTickets(z) BY DEF ReplyStored
<1>2. Talk(k, th) /\ Pure(th) /\ Said(k, r.of, th.sum)
  BY DEF Good, Sound, Replying, Sending
<1>3. DOMAIN d = TicketIds BY DEF Good, Sound
<1> HIDE DEF th, d
<1>4. Differ(s, c, {"replies", "drafts"}) /\ c.replies = s.replies \ {r} /\ c.drafts = d
  BY DEF Differ, Good, Sound
<1> HIDE DEF c
<1>5. Half(c, k)
  <2>1. /\ /\ c.sections = s.sections /\ c.section = s.section /\ c.body = s.body
           /\ c.feed = s.feed /\ c.loads = s.loads /\ c.detail = s.detail /\ c.toast = s.toast
           /\ c.tickets = s.tickets /\ c.view = s.view /\ c.thread = s.thread
           /\ c.error = s.error /\ c.listCall = s.listCall /\ c.threadCall = s.threadCall
           /\ c.loading = s.loading /\ c.loadingTimer = s.loadingTimer /\ c.cache = s.cache
           /\ c.asked = s.asked /\ c.creating = s.creating
        /\ DOMAIN c = Names
    BY <1>4 DEF Differ
  <2>2. Replying(k, c.replies) BY <1>4 DEF Good, Sound, Replying
  <2>3. Sound(c, k) BY <1>3, <1>4, <2>1, <2>2 DEF Good, Sound, TicketsOn
  <2>4. Differ(s, c, Ticketed) BY <1>4, Wider DEF Ticketed
  <2> QED BY <2>3, <2>4, GoodHalf, HalfSame
<1>6. Half(u, k) BY <1>2, <1>5, PureChosen, RememberGood
<1> HIDE DEF u
<1>7. Told(k, list)
  <2>1. Told(k, u.tickets) BY <1>6 DEF Half, Sound
  <2>2. ASSUME NEW m \in DOMAIN list PROVE Said(k, m, list[m])
    <3>1. CASE m = r.of BY <1>2, <3>1
    <3>2. CASE m # r.of BY <2>1, <3>2 DEF Told
    <3> QED BY <3>1, <3>2
  <2> QED BY <2>2 DEF Told
<1> HIDE DEF list
<1>8. Differ(u, l, {"tickets"}) /\ l.tickets = list BY <1>6 DEF Differ, Half, Sound
<1> HIDE DEF l
<1>9. Half(l, k)
  <2>1. /\ /\ l.sections = u.sections /\ l.section = u.section /\ l.body = u.body
           /\ l.feed = u.feed /\ l.loads = u.loads /\ l.detail = u.detail /\ l.toast = u.toast
           /\ l.view = u.view /\ l.thread = u.thread /\ l.error = u.error /\ l.drafts = u.drafts
           /\ l.replies = u.replies /\ l.listCall = u.listCall /\ l.threadCall = u.threadCall
           /\ l.loading = u.loading /\ l.loadingTimer = u.loadingTimer /\ l.cache = u.cache
           /\ l.asked = u.asked /\ l.creating = u.creating
        /\ DOMAIN l = Names
    BY <1>8 DEF Differ
  <2>2. Sound(l, k) BY <1>6, <1>7, <1>8, <2>1 DEF Half, Sound, TicketsOn
  <2>3. Differ(u, l, Ticketed) BY <1>8, Wider DEF Ticketed
  <2> QED BY <1>6, <2>2, <2>3, HalfSame
<1>10. Sound(y, k) /\ Counts(y, k) /\ Differ(l, y, {"at", "badge", "expiry"})
  BY <1>9, SyncGood DEF Half
<1> HIDE DEF y
<1>11. Half(y, k)
  <2>1. Differ(l, y, Ticketed) BY <1>10, Wider DEF Ticketed, Plain
  <2> QED BY <1>9, <1>10, <2>1, HalfSame
<1>12. Differ(y, z, {"error"}) /\ z.error = "" BY <1>11 DEF Differ, Half, Sound
<1> HIDE DEF z
<1>13. Half(z, k)
  <2>1. /\ /\ z.sections = y.sections /\ z.section = y.section /\ z.body = y.body
           /\ z.feed = y.feed /\ z.loads = y.loads /\ z.detail = y.detail /\ z.toast = y.toast
           /\ z.tickets = y.tickets /\ z.view = y.view /\ z.thread = y.thread
           /\ z.drafts = y.drafts /\ z.replies = y.replies /\ z.listCall = y.listCall
           /\ z.threadCall = y.threadCall /\ z.loading = y.loading
           /\ z.loadingTimer = y.loadingTimer /\ z.cache = y.cache /\ z.asked = y.asked
           /\ z.creating = y.creating
        /\ DOMAIN z = Names
    BY <1>12 DEF Differ
  <2>2. Called(k, z.threadCall, z.error) BY <1>11, <1>12, <2>1 DEF Half, Sound, Called
  <2>3. Sound(z, k) BY <1>11, <2>1, <2>2 DEF Half, Sound, TicketsOn
  <2>4. Differ(y, z, Ticketed) BY <1>12, Wider DEF Ticketed
  <2> QED BY <1>11, <2>3, <2>4, HalfSame
<1>14. Counts(z, k)
  <2>1. Counted(z) = Counted(y) BY <1>12 DEF Differ, Counted
  <2> QED BY <1>10, <2>1, SameCounts
<1> QED BY <1>1, <1>13, <1>14, HalfRepainted

LEMMA MakingGood ==
  ASSUME NEW s, NEW t, NEW k, Good(s, k), TicketsOn(s), Differ(s, t, {"creating"}),
         t.creating.got = << >>
  PROVE  Good(t, k)
<1> USE FieldNames
<1>1. Differ(s, t, Plain \cup {"threadCall", "replies", "creating", "listCall"}) BY Wider
<1>2. t.threadCall = s.threadCall /\ t.replies = s.replies /\ t.listCall = s.listCall
  BY DEF Differ
<1>3. Making(k, t.creating) BY DEF Making
<1> QED BY <1>1, <1>2, <1>3, OwedGood DEF Good, Sound

\* The answer to a new ticket: its summary takes the place of whichever was
\* there, and where that one was unread the badge goes on counting it.
LEMMA TicketCreatedGood ==
  ASSUME NEW s, NEW k, NEW n, NEW sum, Good(s, k), TicketsOn(s), sum = NewSummary,
         Said(k, n, NewSummary)
  PROVE  Good(TicketCreated(s, n, sum), k)
<1> USE FieldNames
<1> DEFINE list == [q \in DOMAIN s.tickets \cup {n} |-> IF q = n THEN sum ELSE s.tickets[q]]
           v == [kind |-> "thread", id |-> n]
           o == [s EXCEPT !.creating = Unasked, !.newDraft = FALSE, !.history = TRUE,
                   !.tickets = list, !.live = TRUE, !.view = v, !.thread = NoThread,
                   !.error = ""]
           u == SchedulePoll(o)
           p == RepaintTickets(u)
<1>1. TicketCreated(s, n, sum) = LoadThread(p, n, FALSE) BY DEF TicketCreated
<1>2. Told(k, list)
  <2>1. Told(k, s.tickets) BY DEF Good, Sound
  <2>2. ASSUME NEW m \in DOMAIN list PROVE Said(k, m, list[m])
    <3>1. m = n \/ m \in DOMAIN s.tickets OBVIOUS
    <3>2. CASE m = n BY <3>2
    <3>3. CASE m # n BY <2>1, <3>1, <3>3 DEF Told
    <3> QED BY <3>2, <3>3
  <2> QED BY <2>2 DEF Told
<1>3. /\ DOMAIN list = DOMAIN s.tickets \cup {n} /\ list[n] = NewSummary
      /\ \A q \in DOMAIN s.tickets \ {n} : list[q] = s.tickets[q]
  OBVIOUS
<1>4. v.kind = "thread" OBVIOUS
<1> HIDE DEF list, v
<1>5. /\ Differ(s, o, {"creating", "newDraft", "history", "tickets", "live", "view", "thread",
                       "error"})
      /\ o.creating = Unasked /\ o.tickets = list /\ o.view = v /\ o.thread = NoThread
      /\ o.error = ""
  BY DEF Differ, Good, Sound
<1> HIDE DEF o
<1>6. Half(o, k)
  <2>1. /\ /\ o.sections = s.sections /\ o.section = s.section /\ o.body = s.body
           /\ o.feed = s.feed /\ o.loads = s.loads /\ o.detail = s.detail /\ o.toast = s.toast
           /\ o.drafts = s.drafts /\ o.replies = s.replies /\ o.listCall = s.listCall
           /\ o.threadCall = s.threadCall /\ o.loading = s.loading
           /\ o.loadingTimer = s.loadingTimer /\ o.cache = s.cache /\ o.asked = s.asked
        /\ DOMAIN o = Names
    BY <1>5 DEF Differ
  <2>2. Called(k, o.threadCall, o.error) BY <1>5, <2>1 DEF Good, Sound, Called
  <2>3. Making(k, o.creating)
    <3>1. Unasked.got = << >> BY DEF Unasked
    <3> QED BY <1>5, <3>1 DEF Making
  <2>4. Chosen(k, o.thread, o.view) BY <1>5 DEF Chosen
  <2>5. Sound(o, k) BY <1>2, <1>4, <1>5, <2>1, <2>2, <2>3, <2>4 DEF Good, Sound, TicketsOn
  <2>6. Differ(s, o, Ticketed) BY <1>5, Wider DEF Ticketed, Plain
  <2> QED BY <2>5, <2>6, GoodHalf, HalfSame
<1>7. Counts(o, k)
  <2>1. /\ o.destroyed = s.destroyed /\ o.feed = s.feed /\ o.aged = s.aged
        /\ o.expiry = s.expiry /\ o.badge = s.badge /\ o.markers = s.markers
    BY <1>5 DEF Differ
  <2>2. UnreadPosts(o) = UnreadPosts(s) BY <2>1 DEF UnreadPosts
  <2>3. UnreadTickets(o) = UnreadTickets(s) \ {n}
    <3>1. n \notin UnreadTickets(o)
      <4>1. NewSummary.author = "visitor" BY DEF NewSummary, Summary, Last
      <4> QED BY <1>3, <1>5, <4>1 DEF UnreadTickets, UnreadTicket
    <3>2. \A q \in DOMAIN s.tickets \ {n} :
            UnreadTicket(o, q, o.tickets[q]) = UnreadTicket(s, q, s.tickets[q])
      BY <1>3, <1>5, <2>1 DEF UnreadTicket
    <3> QED BY <1>3, <1>5, <3>1, <3>2 DEF UnreadTickets
  <2>4. n \in UnreadTickets(s) => Len(k[n].authors) > 1
    <3> SUFFICES ASSUME n \in UnreadTickets(s) PROVE Len(k[n].authors) > 1 OBVIOUS
    <3>1. s.tickets[n].author = "staff" /\ Said(k, n, s.tickets[n])
      BY DEF UnreadTickets, UnreadTicket, Good, Sound, Told
    <3>2. NewSummary.author = "visitor" /\ NewSummary.count = 1
      BY DEF NewSummary, Summary, Last
    <3>3. k[n].authors[1] = "visitor" BY <3>2 DEF Said
    <3>4. /\ s.tickets[n].count \in 1..Len(k[n].authors) /\ s.tickets[n].count # 1
      BY <3>1, <3>3 DEF Said
    <3> QED BY <3>4
  <2>5. ASSUME ~s.destroyed
        PROVE  \E T \in SUBSET OutrunIn(o, k) :
                 o.badge[2] = Cardinality(UnreadTickets(o) \cup T)
    <3>1. PICK S \in SUBSET OutrunIn(s, k) :
            s.badge[2] = Cardinality(UnreadTickets(s) \cup S)
      BY <2>5 DEF Good, Counts
    <3> DEFINE T == S \cup ({n} \cap UnreadTickets(s))
    <3>2. T \subseteq OutrunIn(o, k)
      <4>1. \A q \in S : q \in OutrunIn(o, k) BY <1>3, <1>5, <3>1 DEF OutrunIn
      <4>2. n \in UnreadTickets(s) => n \in OutrunIn(o, k)
        BY <1>3, <1>5, <2>4 DEF OutrunIn
      <4> QED BY <4>1, <4>2
    <3>3. UnreadTickets(o) \cup T = UnreadTickets(s) \cup S BY <2>3
    <3> HIDE DEF T
    <3> QED BY <2>1, <3>1, <3>2, <3>3
  <2> QED BY <2>1, <2>2, <2>5 DEF Good, Counts
<1>8. Half(u, k) /\ Counts(u, k) /\ Differ(o, u, {"poll"})
  <2>1. Differ(o, u, {"poll"})
    <3> DEFINE x == o.socket # "open" /\ ~o.destroyed /\ (o.live \/ o.retry)
    <3>1. u = [o EXCEPT !.poll = x] BY DEF SchedulePoll
    <3> HIDE DEF x, u
    <3> QED BY <1>5, <3>1 DEF Differ
  <2> HIDE DEF u
  <2>2. Differ(o, u, Ticketed) /\ Differ(o, u, Unsaid) BY <2>1, Wider DEF Ticketed, Plain, Unsaid
  <2>3. Sound(u, k) BY <1>6, <2>2, SameSound DEF Half
  <2>4. Half(u, k) BY <1>6, <2>2, <2>3, HalfSame
  <2>5. Counted(u) = Counted(o) BY <2>1 DEF Differ, Counted
  <2> QED BY <1>7, <2>1, <2>4, <2>5, SameCounts
<1> HIDE DEF u
<1>9. Good(p, k) /\ Differ(u, p, {"body", "busy", "replies"})
  BY <1>8, RepaintTicketsGood DEF Half, Good
<1> HIDE DEF p
<1>10. p.error = "" /\ TicketsOn(p) BY <1>5, <1>8, <1>9 DEF Differ, Half, TicketsOn
<1>11. Half(p, k) BY <1>9, <1>10, GoodHalf
<1> QED BY <1>1, <1>9, <1>10, <1>11, LoadThreadGood DEF Good

------------------------------------------------------------------------------
(* The socket, the timers, the launcher, destroy(): what is shown          *)

LEMMA ConnectGood ==
  ASSUME NEW s, NEW k, Good(s, k)
  PROVE  Good(Connect(s), k) /\ Differ(s, Connect(s), {"socket"})
<1> USE FieldNames
<1> DEFINE t == [s EXCEPT !.socket = "connecting"]
<1>1. Connect(s) \in {s, t} BY DEF Connect
<1>2. Differ(s, t, {"socket"}) /\ Differ(s, s, {"socket"}) BY DEF Differ, Good, Sound
<1> HIDE DEF t
<1>3. Differ(s, t, Plain) BY <1>2, Wider DEF Plain
<1>4. Good(t, k) BY <1>3, QuietGood
<1> QED BY <1>1, <1>2, <1>4

LEMMA ScheduleRetryGood ==
  ASSUME NEW s, NEW k, Good(s, k)
  PROVE  Good(ScheduleRetry(s), k)
<1> USE FieldNames
<1> DEFINE t == [s EXCEPT !.retryTimer = TRUE]
<1>1. ScheduleRetry(s) \in {s, t} BY DEF ScheduleRetry
<1>2. Differ(s, t, Plain) BY DEF Differ, Good, Sound, Plain
<1> HIDE DEF t
<1>3. Good(t, k) BY <1>2, QuietGood
<1> QED BY <1>1, <1>3

LEMMA DisconnectedGood ==
  ASSUME NEW s, NEW k, Good(s, k), Loads(s.loads)
  PROVE  Good(Disconnected(s), k)
<1> USE FieldNames
<1> DEFINE n == [s EXCEPT !.socket = "none"]
           a == LoadAnnouncements(n, FALSE, FALSE)
           l == IF n.visible THEN a ELSE n
           j == IF n.visible /\ n.history THEN LoadTickets(l) ELSE l
           x == ScheduleNext(j)
           p == SchedulePoll(x)
<1>1. Disconnected(s) = ScheduleRetry(p) BY DEF Disconnected
<1>2. Differ(s, n, {"socket"}) BY DEF Differ, Good, Sound
<1> HIDE DEF n
<1>3. Differ(s, n, Plain) /\ n.loads = s.loads BY <1>2 DEF Differ, Plain
<1>4. Good(n, k) BY <1>3, QuietGood
<1>5. Good(a, k) BY <1>3, <1>4, LoadGood
<1> HIDE DEF a
<1>6. Good(l, k) BY <1>4, <1>5
<1> HIDE DEF l
<1>7. Good(LoadTickets(l), k) BY <1>6, LoadTicketsGood
<1>8. Good(j, k) BY <1>6, <1>7
<1> HIDE DEF j
<1>9. Good(x, k) BY <1>8, ScheduleNextGood
<1> HIDE DEF x
<1>10. Good(p, k) BY <1>9, SchedulePollGood
<1> HIDE DEF p
<1> QED BY <1>1, <1>10, ScheduleRetryGood

LEMMA BecomeVisibleGood ==
  ASSUME NEW s, NEW k, NEW late, Good(s, k), Loads(s.loads)
  PROVE  Good(BecomeVisible(s, late), k)
<1> USE FieldNames
<1> DEFINE n == [s EXCEPT !.visible = TRUE]
           r == RepaintUpdates(SyncBadges(n))
           u == Connect(r)
           l == LoadAnnouncements(u, FALSE, FALSE)
           t == LoadTickets(l)
<1>1. BecomeVisible(s, late) \in {u, l, t} BY DEF BecomeVisible
<1>2. Differ(s, n, {"visible"}) BY DEF Differ, Good, Sound
<1> HIDE DEF n
<1>3. Differ(s, n, Plain) /\ n.loads = s.loads BY <1>2 DEF Differ, Plain
<1>4. Good(n, k) BY <1>3, QuietGood
<1>5. Good(r, k) /\ Differ(n, r, {"at", "badge", "expiry", "body", "busy", "replies"})
  BY <1>4, ShownDetail, SyncRepaintGood DEF Good
<1> HIDE DEF r
<1>6. Good(u, k) /\ Differ(r, u, {"socket"}) BY <1>5, ConnectGood
<1> HIDE DEF u
<1>7. Loads(u.loads) BY <1>3, <1>5, <1>6 DEF Differ
<1>8. Good(l, k) BY <1>6, <1>7, LoadGood
<1> HIDE DEF l
<1>9. Good(t, k) BY <1>8, LoadTicketsGood
<1> QED BY <1>1, <1>6, <1>8, <1>9

LEMMA RestoreGood ==
  ASSUME NEW s, NEW k, Good(s, k)
  PROVE  Good(RestorePlacement(s), k)
<1>1. Differ(s, RestorePlacement(s), {"at"}) BY RestoreFrame DEF Good, Sound
<1>2. Differ(s, RestorePlacement(s), Plain) BY <1>1, Wider DEF Plain
<1> QED BY <1>2, QuietGood

LEMMA SizesGood ==
  ASSUME NEW s, NEW k, NEW vp, Good(s, k)
  PROVE  Good(IconFails(s), k) /\ Good(Resized(s, vp), k)
<1> USE FieldNames
<1> DEFINE u == [s EXCEPT !.icon = @ + 1]
           v == [s EXCEPT !.vp = vp]
<1>1. IconFails(s) \in {u, RestorePlacement(u)} /\ Resized(s, vp) \in {v, RestorePlacement(v)}
  BY DEF IconFails, Resized
<1>2. Differ(s, u, Plain) /\ Differ(s, v, Plain) BY DEF Differ, Good, Sound, Plain
<1> HIDE DEF u, v
<1>3. Good(u, k) /\ Good(v, k) BY <1>2, QuietGood
<1> QED BY <1>1, <1>3, RestoreGood

LEMMA PointerGood ==
  ASSUME NEW s, NEW k, NEW dx, NEW throw, NEW click, Good(s, k)
  PROVE  /\ Good(PointerDown(s), k) /\ Good(PointerMove(s, dx), k)
         /\ Good(DragFrame(s), k) /\ Good(EndPress(s, throw, click), k)
<1> USE FieldNames
<1>1. ASSUME NEW t, Differ(s, t, {"suppress", "press", "frame", "at", "placed", "click"})
      PROVE  Good(t, k)
  <2>1. Differ(s, t, Plain) BY <1>1, Wider DEF Plain
  <2> QED BY <2>1, QuietGood
<1> DEFINE F == {"suppress", "press", "frame", "at", "placed", "click"}
<1>2. DOMAIN s = Names /\ Differ(s, s, F) BY DEF Differ, Good, Sound
<1>3. Differ(s, PointerDown(s), F)
  <2> DEFINE p == [down |-> TRUE, origin |-> Seat(s), x |-> Seat(s), dragging |-> FALSE]
  <2>1. PointerDown(s) = [s EXCEPT !.suppress = FALSE, !.press = p] BY DEF PointerDown
  <2> HIDE DEF p
  <2> QED BY <1>2, <2>1 DEF Differ
<1>4. Differ(s, PointerMove(s, dx), F)
  <2> DEFINE p == [[s.press EXCEPT !.dragging = TRUE]
                     EXCEPT !.x = ClampLauncher(s, s.press.origin + dx)]
             t == [s EXCEPT !.press = p, !.frame = TRUE]
  <2>1. PointerMove(s, dx) \in {s, t}
    <3>1. [s EXCEPT !.press.dragging = TRUE, !.frame = TRUE,
                    !.press.x = ClampLauncher(s, s.press.origin + dx)] = t
      BY <1>2
    <3> HIDE DEF t
    <3> QED BY <3>1 DEF PointerMove
  <2> HIDE DEF p
  <2>2. Differ(s, t, F) BY <1>2 DEF Differ
  <2> QED BY <1>2, <2>1, <2>2
<1>5. Differ(s, DragFrame(s), F)
  <2> DEFINE u == [s EXCEPT !.frame = FALSE]
             t == [u EXCEPT !.at = s.press.x]
  <2>1. DragFrame(s) \in {u, t} BY DEF DragFrame
  <2>2. Differ(s, u, F) /\ Differ(s, t, F) BY <1>2 DEF Differ
  <2> HIDE DEF u, t
  <2> QED BY <2>1, <2>2
<1>6. Differ(s, EndPress(s, throw, click), F)
  <2> DEFINE end == ClampLauncher(s, s.press.x + throw)
             u == [s EXCEPT !.press = NoPress, !.click = click]
             d == [u EXCEPT !.suppress = TRUE, !.frame = FALSE, !.at = end]
             x == IF Room(d) > 0
                  THEN [num |-> Clamp(end - EDGE, 0, Room(d)), den |-> Room(d)]
                  ELSE [num |-> 0, den |-> 1]
             t == [d EXCEPT !.placed = x]
  <2>1. EndPress(s, throw, click) = IF ~s.press.dragging THEN u ELSE t
    BY DEF EndPress, RememberPlacement
  <2> HIDE DEF end, x
  <2>2. Differ(s, u, F) /\ Differ(s, t, F) BY <1>2 DEF Differ
  <2> HIDE DEF u, t
  <2> QED BY <2>1, <2>2
<1> HIDE DEF F
<1> QED BY <1>1, <1>3, <1>4, <1>5, <1>6 DEF F

LEMMA DestroyedGood ==
  ASSUME NEW s, NEW k, Good(s, k)
  PROVE  Good(Destroyed(s), k)
<1> USE FieldNames
<1> DEFINE t == Destroyed(s)
<1>1. /\ Differ(s, t, {"destroyed", "feedTimer", "expiry", "poll", "loadingTimer", "threadCall",
                       "closing", "retryTimer", "socket"})
      /\ t.destroyed = TRUE /\ t.loadingTimer = None /\ t.threadCall = NoCall
  BY DEF Destroyed, Differ, Good, Sound
<1> HIDE DEF t
<1>2. /\ /\ t.sections = s.sections /\ t.section = s.section /\ t.body = s.body
         /\ t.feed = s.feed /\ t.loads = s.loads /\ t.detail = s.detail /\ t.toast = s.toast
         /\ t.tickets = s.tickets /\ t.view = s.view /\ t.thread = s.thread /\ t.error = s.error
         /\ t.drafts = s.drafts /\ t.replies = s.replies /\ t.listCall = s.listCall
         /\ t.loading = s.loading /\ t.cache = s.cache /\ t.asked = s.asked
         /\ t.creating = s.creating
      /\ DOMAIN t = Names
  BY <1>1 DEF Differ
<1>3. Called(k, t.threadCall, t.error) BY <1>1 DEF Called
<1>4. Sound(t, k) BY <1>1, <1>2, <1>3 DEF Good, Sound, TicketsOn, NoTickets
<1>5. Counts(t, k) /\ Shows(t) BY <1>1 DEF Counts, Shows
<1>6. Good(t, k) BY <1>4, <1>5 DEF Good
<1> QED BY <1>6 DEF t

------------------------------------------------------------------------------
(* The server and the wire: what the widget may be told                    *)

\* The server's tickets, each begun with a message.
Begun(k) ==
  /\ DOMAIN k \subseteq TicketIds
  /\ \A n \in DOMAIN k : DOMAIN k[n] = {"status", "authors"} /\ Written(k[n].authors)

Stored(v) == DOMAIN v = {"posts", "tickets", "left"} /\ Posted(v.posts) /\ Begun(v.tickets)

\* k2 is k some time later: messages are added, none is taken away.
Grown(k, k2) ==
  /\ DOMAIN k \subseteq DOMAIN k2 /\ DOMAIN k2 \subseteq TicketIds
  /\ \A n \in DOMAIN k :
       /\ Len(k[n].authors) \in Nat /\ Len(k2[n].authors) \in Nat
       /\ Len(k[n].authors) <= Len(k2[n].authors)
       /\ \A i \in 1..Len(k[n].authors) : k2[n].authors[i] = k[n].authors[i]

Heard(s, k, e) ==
  \/ e.type = "removed"
  \/ e.type \in {"published", "updated"} /\ "ver" \in DOMAIN e
  \/ e.type # "removed" /\ "ver" \notin DOMAIN e /\ TicketsOn(s) /\ Said(k, e.of, e.sum)

Wired(s, k, q) == (\E S : q \in Seq(S)) /\ \A i \in DOMAIN q : Heard(s, k, q[i])

\* What the server said once it may say again.
LEMMA GrownSaid ==
  ASSUME NEW k, NEW k2, Grown(k, k2)
  PROVE  /\ \A n, sum : Said(k, n, sum) => Said(k2, n, sum)
         /\ \A th : Talk(k, th) => Talk(k2, th)
<1>1. ASSUME NEW n, NEW sum, Said(k, n, sum) PROVE Said(k2, n, sum)
  <2>1. /\ n \in DOMAIN k /\ sum.count \in 1..Len(k[n].authors)
        /\ sum.author = k[n].authors[sum.count]
    BY <1>1 DEF Said
  <2>2. sum.count \in 1..Len(k2[n].authors) BY <2>1 DEF Grown
  <2> QED BY <2>1, <2>2 DEF Grown, Said
<1>2. \A th : Talk(k, th) => Talk(k2, th) BY DEF Talk, Grown
<1> QED BY <1>1, <1>2

LEMMA GrownSound ==
  ASSUME NEW s, NEW k, NEW k2, Sound(s, k), Grown(k, k2)
  PROVE  Sound(s, k2)
<1>1. /\ \A n, sum : Said(k, n, sum) => Said(k2, n, sum)
      /\ \A th : Talk(k, th) => Talk(k2, th)
  BY GrownSaid
<1>2. DOMAIN k \subseteq DOMAIN k2 /\ DOMAIN k2 \subseteq TicketIds BY DEF Grown
<1>3. Told(k2, s.tickets) /\ Listed(k2, s.listCall) BY <1>1 DEF Sound, Told, Listed
<1>4. Asides(k2, s.cache)
  <2>1. Asides(k, s.cache) BY DEF Sound
  <2> QED BY <1>1, <2>1 DEF Asides
<1>5. Chosen(k2, s.thread, s.view)
  <2>1. Chosen(k, s.thread, s.view) BY DEF Sound
  <2> QED BY <1>1, <2>1 DEF Chosen
<1>6. Called(k2, s.threadCall, s.error)
  <2>1. Called(k, s.threadCall, s.error) BY DEF Sound
  <2> QED BY <1>1, <2>1 DEF Called
<1>7. Peeked(k2, s.asked)
  <2>1. Peeked(k, s.asked) BY DEF Sound
  <2> QED BY <1>1, <1>2, <2>1 DEF Peeked
<1>8. Replying(k2, s.replies)
  <2>1. Replying(k, s.replies) BY DEF Sound
  <2>2. \A r : Sending(k, r) => Sending(k2, r) BY <1>1, <1>2 DEF Sending
  <2> QED BY <2>1, <2>2 DEF Replying
<1>9. Making(k2, s.creating)
  <2>1. Making(k, s.creating) BY DEF Sound
  <2> QED BY <1>1, <2>1 DEF Making
<1>10. Page(k2, s.body)
  <2>1. Page(k, s.body) BY DEF Sound
  <2> QED BY <1>2, <2>1 DEF Page
<1> QED BY <1>2, <1>3, <1>4, <1>5, <1>6, <1>7, <1>8, <1>9, <1>10 DEF Sound

LEMMA GrownGood ==
  ASSUME NEW s, NEW k, NEW k2, Good(s, k), Grown(k, k2)
  PROVE  Good(s, k2)
<1>1. Sound(s, k2) BY GrownSound DEF Good
<1>2. OutrunIn(s, k) \subseteq OutrunIn(s, k2)
  <2>1. ASSUME NEW n \in OutrunIn(s, k) PROVE n \in OutrunIn(s, k2)
    <3>1. n \in DOMAIN s.tickets /\ s.tickets[n] = NewSummary /\ Len(k[n].authors) > 1
      BY DEF OutrunIn
    <3>2. n \in DOMAIN k BY <3>1 DEF Good, Sound, Told, Said
    <3>3. Len(k2[n].authors) > 1 BY <3>1, <3>2 DEF Grown
    <3> QED BY <3>1, <3>3 DEF OutrunIn
  <2> QED BY <2>1
<1>3. Counts(s, k2)
  <2>1. ASSUME ~s.destroyed
        PROVE  \E S \in SUBSET OutrunIn(s, k2) :
                 s.badge[2] = Cardinality(UnreadTickets(s) \cup S)
    <3>1. PICK S \in SUBSET OutrunIn(s, k) :
            s.badge[2] = Cardinality(UnreadTickets(s) \cup S)
      BY <2>1 DEF Good, Counts
    <3>2. S \in SUBSET OutrunIn(s, k2) BY <1>2
    <3> QED BY <3>1, <3>2
  <2> QED BY <2>1 DEF Good, Counts
<1> QED BY <1>1, <1>3 DEF Good

LEMMA GrownWired ==
  ASSUME NEW s, NEW k, NEW k2, NEW q, Wired(s, k, q), Grown(k, k2)
  PROVE  Wired(s, k2, q)
<1>1. \A n, sum : Said(k, n, sum) => Said(k2, n, sum) BY GrownSaid
<1>2. \A e : Heard(s, k, e) => Heard(s, k2, e) BY <1>1 DEF Heard
<1> QED BY <1>2 DEF Wired

LEMMA AppendWired ==
  ASSUME NEW s, NEW k, NEW q, NEW e, Wired(s, k, q), Heard(s, k, e)
  PROVE  Wired(s, k, Append(q, e))
<1>1. PICK S : q \in Seq(S) BY DEF Wired
<1>2. q \in Seq(S \cup {e}) BY <1>1, SeqMonotonic
<1> DEFINE r == Append(q, e)
<1>3. r \in Seq(S \cup {e}) BY <1>2
<1>4. ASSUME NEW i \in DOMAIN r PROVE Heard(s, k, r[i])
  <2>1. (i \in DOMAIN q /\ r[i] = q[i]) \/ r[i] = e BY <1>1
  <2> HIDE DEF r
  <2> QED BY <2>1 DEF Wired
<1> HIDE DEF r
<1>5. Wired(s, k, r) BY <1>3, <1>4 DEF Wired
<1> QED BY <1>5 DEF r

LEMMA TailWired ==
  ASSUME NEW s, NEW k, NEW q, Wired(s, k, q), q # << >>
  PROVE  Heard(s, k, Head(q)) /\ Wired(s, k, Tail(q))
<1>1. PICK S : q \in Seq(S) BY DEF Wired
<1> DEFINE r == Tail(q)
<1>2. /\ r \in Seq(S) /\ Head(q) = q[1] /\ 1 \in DOMAIN q
      /\ \A i \in DOMAIN r : i + 1 \in DOMAIN q /\ r[i] = q[i + 1]
  BY <1>1
<1> HIDE DEF r
<1>3. Wired(s, k, r) BY <1>2 DEF Wired
<1> QED BY <1>2, <1>3 DEF Wired, r

LEMMA SameWired ==
  ASSUME NEW s, NEW t, NEW k, NEW q, Wired(s, k, q), t.sections = s.sections
  PROVE  Wired(t, k, q)
<1>1. TicketsOn(t) = TicketsOn(s) BY DEF TicketsOn
<1>2. \A e : Heard(s, k, e) => Heard(t, k, e) BY <1>1 DEF Heard
<1> QED BY <1>2 DEF Wired

\* A summary, and a conversation, of the server's.
LEMMA SummarySaid ==
  ASSUME NEW k, NEW n \in DOMAIN k, Begun(k)
  PROVE  LET th == [id |-> n, sum |-> Summary(k[n]),
                    msgs |-> [i \in 1..Len(k[n].authors) |-> << n, i >>]]
         IN /\ Said(k, n, Summary(k[n]))
            /\ Talk(k, th) /\ Pure(th) /\ th.id = n /\ th.sum = Summary(k[n])
<1> DEFINE q == k[n].authors
           sum == Summary(k[n])
           msgs == [i \in 1..Len(q) |-> << n, i >>]
           th == [id |-> n, sum |-> sum, msgs |-> msgs]
<1>1. q \in Seq({"visitor", "staff"}) /\ q # << >> BY DEF Begun, Written
<1> HIDE DEF q
<1>2. Len(q) \in Nat /\ Len(q) > 0 BY <1>1
<1>3. sum.count = Len(q) /\ sum.author = q[Len(q)] BY DEF Summary, Last, q
<1> HIDE DEF sum
<1>4. Said(k, n, sum) BY <1>2, <1>3 DEF Said, q
<1>5. msgs \in Seq({n} \X Nat) /\ Len(msgs) = Len(q) /\ DOMAIN msgs = 1..Len(q) BY <1>2
<1>6. \A i \in DOMAIN msgs : msgs[i][1] = n OBVIOUS
<1> HIDE DEF msgs
<1>7. DOMAIN th = {"id", "sum", "msgs"} /\ th.id = n /\ th.sum = sum /\ th.msgs = msgs OBVIOUS
<1> HIDE DEF th
<1>8. Talk(k, th) BY <1>5, <1>7 DEF Talk
<1>9. Pure(th) BY <1>2, <1>5, <1>6, <1>7 DEF Pure
<1> QED BY <1>4, <1>7, <1>8, <1>9 DEF th, msgs, sum, q

\* A message more, or another status.
LEMMA TicketGrows ==
  ASSUME NEW k, NEW n \in DOMAIN k, Begun(k), NEW tk, DOMAIN tk = {"status", "authors"},
         tk.authors = k[n].authors \/ \E a \in {"visitor", "staff"} :
                                        tk.authors = Append(k[n].authors, a)
  PROVE  LET k2 == [k EXCEPT ![n] = tk] IN Begun(k2) /\ Grown(k, k2)
<1> DEFINE k2 == [k EXCEPT ![n] = tk]
<1>1. /\ DOMAIN k2 = DOMAIN k /\ k2[n] = tk
      /\ \A m \in DOMAIN k \ {n} : k2[m] = k[m]
  OBVIOUS
<1> HIDE DEF k2
<1>2. Written(k[n].authors) BY DEF Begun
<1>3. /\ Written(tk.authors) /\ Len(k[n].authors) \in Nat /\ Len(tk.authors) \in Nat
      /\ Len(k[n].authors) <= Len(tk.authors)
      /\ \A i \in 1..Len(k[n].authors) : tk.authors[i] = k[n].authors[i]
  <2> DEFINE q == k[n].authors
  <2>1. q \in Seq({"visitor", "staff"}) /\ q # << >> BY <1>2 DEF Written
  <2> HIDE DEF q
  <2>2. CASE tk.authors = q BY <2>1, <2>2 DEF Written, q
  <2>3. ASSUME NEW a \in {"visitor", "staff"}, tk.authors = Append(q, a)
        PROVE  /\ Written(tk.authors) /\ Len(q) \in Nat /\ Len(tk.authors) \in Nat
               /\ Len(q) <= Len(tk.authors)
               /\ \A i \in 1..Len(q) : tk.authors[i] = q[i]
    <3>1. /\ Append(q, a) \in Seq({"visitor", "staff"}) /\ Append(q, a) # << >>
          /\ Len(q) \in Nat /\ Len(Append(q, a)) = Len(q) + 1
          /\ \A i \in 1..Len(q) : Append(q, a)[i] = q[i]
      BY <2>1
    <3> QED BY <2>3, <3>1 DEF Written
  <2> QED BY <2>2, <2>3 DEF q
<1>4. Begun(k2)
  <2>1. ASSUME NEW m \in DOMAIN k2
        PROVE  DOMAIN k2[m] = {"status", "authors"} /\ Written(k2[m].authors)
    BY <1>1, <1>3 DEF Begun
  <2> QED BY <1>1, <2>1 DEF Begun
<1>5. Grown(k, k2)
  <2>1. ASSUME NEW m \in DOMAIN k
        PROVE  /\ Len(k[m].authors) \in Nat /\ Len(k2[m].authors) \in Nat
               /\ Len(k[m].authors) <= Len(k2[m].authors)
               /\ \A i \in 1..Len(k[m].authors) : k2[m].authors[i] = k[m].authors[i]
    <3>1. CASE m = n BY <1>1, <1>3, <3>1
    <3>2. CASE m # n
      <4>1. k2[m] = k[m] BY <1>1, <3>2
      <4>2. Len(k[m].authors) \in Nat
        <5>1. k[m].authors \in Seq({"visitor", "staff"}) BY DEF Begun, Written
        <5> QED BY <5>1
      <4> QED BY <4>1, <4>2
    <3> QED BY <3>1, <3>2
  <2> QED BY <1>1, <2>1 DEF Grown, Begun
<1> QED BY <1>4, <1>5 DEF k2

LEMMA TicketBegins ==
  ASSUME NEW k, NEW n \in TicketIds \ DOMAIN k, Begun(k), NEW tk,
         tk = [status |-> "open", authors |-> <<"visitor">>]
  PROVE  LET k2 == [q \in DOMAIN k \cup {n} |-> IF q = n THEN tk ELSE k[q]] IN
           Begun(k2) /\ Grown(k, k2) /\ k2[n] = tk
<1> DEFINE k2 == [q \in DOMAIN k \cup {n} |-> IF q = n THEN tk ELSE k[q]]
<1>1. /\ DOMAIN k2 = DOMAIN k \cup {n} /\ k2[n] = tk
      /\ \A m \in DOMAIN k : k2[m] = k[m]
  OBVIOUS
<1> HIDE DEF k2
<1>2. DOMAIN tk = {"status", "authors"} /\ Written(tk.authors)
  <2>1. <<"visitor">> \in Seq({"visitor", "staff"}) /\ <<"visitor">> # << >> OBVIOUS
  <2> QED BY <2>1 DEF Written
<1>3. Begun(k2) BY <1>1, <1>2 DEF Begun
<1>4. Grown(k, k2)
  <2>1. ASSUME NEW m \in DOMAIN k PROVE Len(k[m].authors) \in Nat
    <3>1. k[m].authors \in Seq({"visitor", "staff"}) BY DEF Begun, Written
    <3> QED BY <3>1
  <2> QED BY <1>1, <2>1 DEF Grown, Begun
<1> QED BY <1>1, <1>3, <1>4 DEF k2

------------------------------------------------------------------------------
(* The steps: what the widget shows                                        *)

\* The widget shows its state, and is told of what the server has.
Telling == Good(w, srv.tickets) /\ Stored(srv) /\ Wired(w, srv.tickets, wire)

LEMMA SpentStored ==
  ASSUME NEW v, NEW e, Stored(v)
  PROVE  /\ Stored(Spent(v, e))
         /\ Spent(v, e).tickets = v.tickets /\ Spent(v, e).posts = v.posts
<1> DEFINE u == Spent(v, e)
<1>1. DOMAIN u = DOMAIN v /\ u.tickets = v.tickets /\ u.posts = v.posts BY DEF Stored, Spent
<1> HIDE DEF u
<1>2. Stored(u) BY <1>1 DEF Stored
<1> QED BY <1>1, <1>2 DEF u

\* The sections of a site stay as they are.
LEMMA SameSections ==
  ASSUME Inv, [Next]_vars
  PROVE  w'.sections = w.sections
<1>1. CASE Moved(w, w') BY <1>1 DEF Moved
<1>2. CASE Destroy
  <2> USE FieldNames
  <2>1. DOMAIN w = Names BY DEF Inv, Base, Loose, Shape
  <2> QED BY <1>2, <2>1 DEF Destroy, Destroyed
<1> QED BY <1>1, <1>2, StepMoves

LEMMA Published ==
  ASSUME NEW channel, NEW e, NEW k, Publish(channel, e), Wired(w, k, wire),
         channel \in w.sections => Heard(w, k, e)
  PROVE  Wired(w, k, wire')
<1>1. wire' = wire \/ (channel \in w.sections /\ wire' = Append(wire, e)) BY DEF Publish
<1> QED BY <1>1, AppendWired

\* The steps of the widget on its own.
LEMMA WidgetStep ==
  ASSUME Inv, Telling, [Next]_vars, Good(w', srv.tickets),
         srv' = srv \/ \E e : srv' = Spent(srv, e), wire' = wire
  PROVE  Telling'
<1>1. Stored(srv') /\ srv'.tickets = srv.tickets BY SpentStored DEF Telling
<1>2. Wired(w', srv.tickets, wire) BY SameSections, SameWired DEF Telling
<1> QED BY <1>1, <1>2 DEF Telling

\* News of a ticket is what the server has of it.
LEMMA NewsHeard ==
  ASSUME NEW s, NEW k, NEW n \in DOMAIN k, Begun(k), NEW type \in {"message", "updated", "created"},
         TicketsOn(s)
  PROVE  Heard(s, k, TicketNews(type, n, k[n]))
<1> DEFINE sum == Summary(k[n])
           e == [type |-> type, of |-> n, sum |-> sum]
<1>1. Said(k, n, sum) BY SummarySaid
<1> HIDE DEF sum
<1>2. e.type = type /\ e.of = n /\ e.sum = sum /\ "ver" \notin DOMAIN e OBVIOUS
<1>3. e.type # "removed" BY <1>2
<1> HIDE DEF e
<1>4. Heard(s, k, e) BY <1>1, <1>2, <1>3 DEF Heard
<1> QED BY <1>4 DEF TicketNews, e, sum

\* Where the tickets are not shown, none is asked for.
LEMMA TicketsAsked ==
  ASSUME NEW s, NEW k, Sound(s, k),
         \/ s.listCall # Unasked \/ s.threadCall # NoCall \/ s.replies # {}
         \/ s.creating # Unasked \/ \E n \in TicketIds : s.asked[n] # Unasked
  PROVE  TicketsOn(s)
BY DEF Sound, NoTickets

\* The tickets that grow on the server, by a message or a new one.
LEMMA GrownStep ==
  ASSUME Inv, Telling, [Next]_vars, NEW k2, NEW type \in {"message", "updated", "created"},
         NEW n \in DOMAIN k2,
         srv'.tickets = k2, DOMAIN srv' = DOMAIN srv, srv'.posts = srv.posts,
         Begun(k2), Grown(srv.tickets, k2), Good(w', k2),
         Publish("tickets", TicketNews(type, n, k2[n]))
  PROVE  Telling'
<1>1. Stored(srv') BY DEF Telling, Stored
<1>2. Wired(w, k2, wire) BY GrownWired DEF Telling
<1> DEFINE e == TicketNews(type, n, k2[n])
<1>3. "tickets" \in w.sections => Heard(w, k2, e) BY NewsHeard DEF TicketsOn
<1> HIDE DEF e
<1>4. Wired(w, k2, wire') BY <1>2, <1>3, Published DEF e
<1>5. Wired(w', k2, wire') BY <1>4, SameSections, SameWired
<1> QED BY <1>1, <1>5 DEF Telling

LEMMA FeedServedGood ==
  ASSUME NEW s, NEW k, NEW posts, Good(s, k), Posted(posts), NEW i \in DOMAIN s.loads,
         Loads(s.loads)
  PROVE  Good([s EXCEPT !.loads[i].got = << posts >>], k)
<1> USE FieldNames
<1> DEFINE t == [s EXCEPT !.loads[i].got = << posts >>]
           y == [s.loads[i] EXCEPT !.got = << posts >>]
<1>1. DOMAIN s = Names BY DEF Good, Sound
<1>2. DOMAIN s.loads[i] = LoadNames BY DEF Loads
<1>3. t.loads = [s.loads EXCEPT ![i] = y] /\ Differ(s, t, {"loads"}) BY <1>1 DEF Differ
<1>4. y.got = << posts >> BY <1>2 DEF LoadNames
<1> HIDE DEF t, y
<1>5. /\ DOMAIN t.loads = DOMAIN s.loads /\ t.loads[i] = y
      /\ \A j \in DOMAIN s.loads : j # i => t.loads[j] = s.loads[j]
  BY <1>3
<1>6. y.got[1] = posts BY <1>4
<1>7. Fetched(s.loads) BY DEF Good, Sound
<1>8. Fetched(t.loads)
  <2>1. ASSUME NEW j \in DOMAIN t.loads
        PROVE  t.loads[j].got = << >> \/ Posted(t.loads[j].got[1])
    <3>1. CASE j = i BY <1>5, <1>6, <3>1
    <3>2. CASE j # i BY <1>5, <1>7, <3>2 DEF Fetched
    <3> QED BY <3>1, <3>2
  <2> QED BY <2>1 DEF Fetched
<1>9. Differ(s, t, Plain \cup {"loads"}) BY <1>3, Wider
<1>10. Good(t, k) BY <1>8, <1>9, LoadsGood
<1> QED BY <1>10 DEF t

\* A reply that is stored, and its answer.
LEMMA StoreReplyStep ==
  ASSUME Inv, Telling, [Next]_vars, NEW r \in w.replies, StoreReply(r)
  PROVE  Telling'
<1> USE FieldNames
<1> DEFINE k == srv.tickets
           n == r.of
           tk == [k[n] EXCEPT !.authors = Append(@, "visitor")]
           k2 == [k EXCEPT ![n] = tk]
           th == [id |-> n, sum |-> Summary(tk), msgs |-> [i \in 1..Len(tk.authors) |-> << n, i >>]]
           a == [r EXCEPT !.got = << th >>]
           R == (w.replies \ {r}) \cup {a}
<1>1. /\ Good(w, k) /\ Begun(k) /\ DOMAIN srv = {"posts", "tickets", "left"} /\ DOMAIN w = Names
      /\ Replying(k, w.replies) /\ TicketsOn(w)
  <2>1. Sound(w, k) BY DEF Telling, Good
  <2>2. TicketsOn(w) BY <2>1, TicketsAsked
  <2> QED BY <2>1, <2>2 DEF Telling, Stored, Sound
<1>2. n \in DOMAIN k /\ DOMAIN r = {"of", "text", "here", "got"}
  BY <1>1 DEF Replying, Sending
<1>3. /\ srv'.tickets = k2 /\ DOMAIN srv' = DOMAIN srv /\ srv'.posts = srv.posts
      /\ Publish("tickets", TicketNews("message", n, tk))
      /\ w' = [w EXCEPT !.replies = R]
  BY <1>1 DEF StoreReply
<1>4. DOMAIN tk = {"status", "authors"} /\ tk.authors = Append(k[n].authors, "visitor")
  BY <1>1, <1>2 DEF Begun
<1>5. n \in DOMAIN k2 /\ k2[n] = tk BY <1>2
<1> HIDE DEF tk
<1>6. Begun(k2) /\ Grown(k, k2) BY <1>1, <1>2, <1>4, TicketGrows
<1> HIDE DEF k2
<1>7. Said(k2, n, Summary(tk)) /\ Talk(k2, th) /\ Pure(th) /\ th.sum = Summary(tk)
  BY <1>5, <1>6, SummarySaid
<1> HIDE DEF th
<1>8. a.of = n /\ a.got = << th >> /\ DOMAIN a = {"of", "text", "here", "got"} BY <1>2
<1> HIDE DEF a
<1>9. a.got[1] = th BY <1>8
<1>10. Sending(k2, a) BY <1>5, <1>7, <1>8, <1>9 DEF Sending
<1>11. Good(w, k2) /\ Replying(k2, w.replies)
  <2>1. Good(w, k2) BY <1>1, <1>6, GrownGood
  <2> QED BY <2>1 DEF Good, Sound
<1>12. Replying(k2, R) BY <1>10, <1>11 DEF Replying
<1> HIDE DEF R
<1>13. Good(w', k2)
  <2>1. /\ Differ(w, w', {"replies"}) /\ w'.replies = R /\ w'.threadCall = w.threadCall
        /\ w'.creating = w.creating /\ w'.listCall = w.listCall
    BY <1>1, <1>3 DEF Differ
  <2>2. Differ(w, w', Plain \cup {"threadCall", "replies", "creating", "listCall"})
    BY <2>1, Wider
  <2>3. /\ Called(k2, w'.threadCall, w.error) /\ Making(k2, w'.creating)
        /\ Listed(k2, w'.listCall) /\ Replying(k2, w'.replies)
    BY <1>11, <1>12, <2>1 DEF Good, Sound
  <2> QED BY <1>1, <1>11, <2>2, <2>3, OwedGood
<1> HIDE DEF k, n
<1> QED BY <1>1, <1>3, <1>5, <1>6, <1>13, GrownStep DEF k

\* A ticket that is created, and its answer.
LEMMA CreateTicketStep ==
  ASSUME Inv, Telling, [Next]_vars, CreateTicket
  PROVE  Telling'
<1> USE FieldNames
<1> DEFINE k == srv.tickets
           tk == [status |-> "open", authors |-> <<"visitor">>]
           k2(n) == [q \in DOMAIN k \cup {n} |-> IF q = n THEN tk ELSE k[q]]
<1>1. /\ Good(w, k) /\ Begun(k) /\ DOMAIN srv = {"posts", "tickets", "left"} /\ DOMAIN w = Names
      /\ TicketsOn(w)
  <2>1. Sound(w, k) BY DEF Telling, Good
  <2>2. w.creating # Unasked BY DEF CreateTicket, Asked, Unasked
  <2>3. TicketsOn(w) BY <2>1, <2>2, TicketsAsked
  <2> QED BY <2>1, <2>3 DEF Telling, Stored, Sound
<1>2. PICK n \in TicketIds \ DOMAIN k :
        /\ srv' = [srv EXCEPT !.tickets = k2(n)]
        /\ Publish("tickets", TicketNews("created", n, tk))
        /\ w' = [w EXCEPT !.creating = Replied(<< n, Summary(tk) >>)]
  BY <1>1 DEF CreateTicket
<1> DEFINE m == k2(n)
<1>3. srv'.tickets = m /\ DOMAIN srv' = DOMAIN srv /\ srv'.posts = srv.posts BY <1>1, <1>2
<1>4. Begun(m) /\ Grown(k, m) /\ m[n] = tk /\ n \in DOMAIN m
  <2>1. Begun(m) /\ Grown(k, m) /\ m[n] = tk BY <1>1, TicketBegins
  <2> QED BY <2>1
<1> HIDE DEF m
<1>5. Summary(tk) = NewSummary BY DEF NewSummary
<1> HIDE DEF tk
<1>6. Said(m, n, NewSummary) BY <1>4, <1>5, SummarySaid
<1>7. Good(w, m) BY <1>1, <1>4, GrownGood
<1>8. Good(w', m)
  <2> DEFINE c == Replied(<< n, NewSummary >>)
  <2>1. c.got[1][1] = n /\ c.got[1][2] = NewSummary BY DEF Replied
  <2>2. Making(m, c) BY <1>6, <2>1 DEF Making
  <2> HIDE DEF c
  <2>3. /\ Differ(w, w', {"creating"}) /\ w'.creating = c /\ w'.threadCall = w.threadCall
        /\ w'.replies = w.replies /\ w'.listCall = w.listCall
    BY <1>1, <1>2, <1>5 DEF Differ, c
  <2>4. Differ(w, w', Plain \cup {"threadCall", "replies", "creating", "listCall"})
    BY <2>3, Wider
  <2>5. /\ Called(m, w'.threadCall, w.error) /\ Making(m, w'.creating)
        /\ Listed(m, w'.listCall) /\ Replying(m, w'.replies)
    BY <1>7, <2>2, <2>3 DEF Good, Sound
  <2> QED BY <1>1, <1>7, <2>4, <2>5, OwedGood
<1> HIDE DEF k
<1> QED BY <1>1, <1>2, <1>3, <1>4, <1>8, GrownStep DEF k

\* What the server answers to a request for tickets.
LEMMA ListServedGood ==
  ASSUME Telling, ServeTickets
  PROVE  Good(w', srv.tickets)
<1> USE FieldNames
<1> DEFINE k == srv.tickets
           c == Replied(Summaries)
<1>1. /\ Good(w, k) /\ Begun(k) /\ DOMAIN w = Names /\ TicketsOn(w)
      /\ Called(k, w.threadCall, w.error) /\ Making(k, w.creating) /\ Replying(k, w.replies)
  <2>1. Sound(w, k) BY DEF Telling, Good
  <2>2. w.listCall # Unasked BY DEF ServeTickets, Asked, Unasked
  <2>3. TicketsOn(w) BY <2>1, <2>2, TicketsAsked
  <2> QED BY <2>1, <2>3 DEF Telling, Stored, Sound
<1>2. c.got[1] = Summaries BY DEF Replied
<1>3. Told(k, Summaries)
  <2>1. DOMAIN Summaries = DOMAIN k /\ \A n \in DOMAIN k : Summaries[n] = Summary(k[n])
    BY DEF Summaries
  <2>2. \A n \in DOMAIN k : Said(k, n, Summary(k[n])) BY <1>1, SummarySaid
  <2> HIDE DEF k
  <2> QED BY <2>1, <2>2 DEF Told
<1>4. Listed(k, c) BY <1>2, <1>3 DEF Listed
<1> HIDE DEF c
<1>5. /\ Differ(w, w', {"listCall"}) /\ w'.listCall = c /\ w'.threadCall = w.threadCall
      /\ w'.replies = w.replies /\ w'.creating = w.creating
  BY <1>1 DEF ServeTickets, Differ, c
<1>6. Differ(w, w', Plain \cup {"threadCall", "replies", "creating", "listCall"})
  BY <1>5, Wider
<1> HIDE DEF k
<1>7. Good(w', k) BY <1>1, <1>4, <1>5, <1>6, OwedGood
<1> QED BY <1>7 DEF k

LEMMA ThreadServedGood ==
  ASSUME Telling, ServeThread
  PROVE  Good(w', srv.tickets)
<1> USE FieldNames
<1> DEFINE k == srv.tickets
           n == w.threadCall.id
           th == Conversation(n)
           y == [w.threadCall EXCEPT !.got = << th >>]
<1>1. /\ Good(w, k) /\ Begun(k) /\ DOMAIN w = Names /\ TicketsOn(w)
      /\ Called(k, w.threadCall, w.error) /\ Making(k, w.creating) /\ Replying(k, w.replies)
      /\ Listed(k, w.listCall)
  <2>1. Sound(w, k) BY DEF Telling, Good
  <2>2. w.threadCall # NoCall BY DEF ServeThread
  <2>3. TicketsOn(w) BY <2>1, <2>2, TicketsAsked
  <2> QED BY <2>1, <2>3 DEF Telling, Stored, Sound
<1>2. n \in DOMAIN k BY DEF ServeThread
<1>3. Talk(k, th) /\ Pure(th)
  <2> DEFINE x == [id |-> n, sum |-> Summary(k[n]),
                   msgs |-> [i \in 1..Len(k[n].authors) |-> << n, i >>]]
  <2>1. Talk(k, x) /\ Pure(x) BY <1>1, <1>2, SummarySaid
  <2>2. th = x BY DEF Conversation
  <2> QED BY <2>1, <2>2
<1>4. w.error = "" /\ DOMAIN w.threadCall = DOMAIN NoCall BY <1>1 DEF ServeThread, Called
<1>5. DOMAIN y = DOMAIN NoCall /\ y.got = << th >> BY <1>4 DEF NoCall
<1>6. y.got[1] = th BY <1>5
<1>7. Called(k, y, w.error) BY <1>3, <1>4, <1>5, <1>6 DEF Called
<1>8. w' = [w EXCEPT !.threadCall = y] BY <1>1 DEF ServeThread
<1> HIDE DEF y
<1>9. /\ Differ(w, w', {"threadCall"}) /\ w'.threadCall = y /\ w'.listCall = w.listCall
      /\ w'.replies = w.replies /\ w'.creating = w.creating
  BY <1>1, <1>8 DEF Differ
<1>10. Differ(w, w', Plain \cup {"threadCall", "replies", "creating", "listCall"})
  BY <1>9, Wider
<1> HIDE DEF k
<1>11. Good(w', k) BY <1>1, <1>7, <1>9, <1>10, OwedGood
<1> QED BY <1>11 DEF k

LEMMA PreviewServedGood ==
  ASSUME Telling, NEW n \in TicketIds, ServePreview(n)
  PROVE  Good(w', srv.tickets)
<1> USE FieldNames
<1> DEFINE k == srv.tickets
           th == Conversation(n)
           a == [w.asked EXCEPT ![n] = Replied(th)]
<1>1. w.asked[n] # Unasked BY DEF ServePreview, Asked, Unasked
<1>2. /\ Good(w, k) /\ Begun(k) /\ DOMAIN w = Names /\ TicketsOn(w)
      /\ Peeked(k, w.asked) /\ Asides(k, w.cache)
  <2>1. Sound(w, k) BY DEF Telling, Good
  <2>3. TicketsOn(w) BY <1>1, <2>1, TicketsAsked
  <2> QED BY <2>1, <2>3 DEF Telling, Stored, Sound
<1>3. n \in DOMAIN k /\ DOMAIN w.asked = TicketIds BY <1>1, <1>2 DEF Peeked
<1>4. Talk(k, th) /\ th.id = n
  <2> DEFINE x == [id |-> n, sum |-> Summary(k[n]),
                   msgs |-> [i \in 1..Len(k[n].authors) |-> << n, i >>]]
  <2>1. Talk(k, x) /\ x.id = n BY <1>2, <1>3, SummarySaid
  <2>2. th = x BY DEF Conversation
  <2> QED BY <2>1, <2>2
<1> HIDE DEF th
<1>5. Replied(th).got[1] = th BY DEF Replied
<1>6. DOMAIN a = TicketIds /\ a[n] = Replied(th) /\ \A m \in TicketIds \ {n} : a[m] = w.asked[m]
  BY <1>3
<1>7. w' = [w EXCEPT !.asked = a] BY <1>2 DEF ServePreview, th
<1> HIDE DEF a
<1>8. Peeked(k, a) BY <1>2, <1>3, <1>4, <1>5, <1>6 DEF Peeked
<1>9. Differ(w, w', {"asked"}) /\ w'.asked = a /\ w'.cache = w.cache
  BY <1>2, <1>7 DEF Differ
<1>10. Differ(w, w', Plain \cup {"asked", "cache"}) BY <1>9, Wider
<1> HIDE DEF k
<1>11. Good(w', k) BY <1>2, <1>8, <1>9, <1>10, AskedGood
<1> QED BY <1>11 DEF k

\* An announcement that is marked on the server.
LEMMA MarkedStored ==
  ASSUME NEW v, Stored(v), NEW p \in DOMAIN v.posts
  PROVE  LET a == [v EXCEPT !.posts[p].read = TRUE]
             b == [v EXCEPT !.posts[p].commented = TRUE]
         IN /\ Stored(a) /\ a.tickets = v.tickets
            /\ Stored(b) /\ b.tickets = v.tickets
<1> DEFINE a == [v EXCEPT !.posts[p].read = TRUE]
           b == [v EXCEPT !.posts[p].commented = TRUE]
<1>1. ASSUME NEW x, x \in {a, b} PROVE Stored(x) /\ x.tickets = v.tickets
  <2>1. PICK y : DOMAIN y = DOMAIN v.posts[p] /\ x.posts = [v.posts EXCEPT ![p] = y]
    BY <1>1 DEF Stored
  <2>2. DOMAIN x = DOMAIN v /\ x.tickets = v.tickets BY <1>1 DEF Stored
  <2>3. Posted(v.posts) BY DEF Stored
  <2>4. Posted(x.posts) BY <2>1, <2>3 DEF Posted
  <2> QED BY <2>2, <2>4 DEF Stored
<1> QED BY <1>1

LEMMA PostStoredStep ==
  ASSUME Inv, Telling, [Next]_vars, NEW r \in w.posts, PostStored(r)
  PROVE  Telling'
<1> USE FieldNames
<1> DEFINE k == srv.tickets
           a == [srv EXCEPT !.posts[r.of].read = TRUE]
           b == [srv EXCEPT !.posts[r.of].commented = TRUE]
           t == [w EXCEPT !.posts = @ \ {r}]
<1>1. /\ srv' = srv \/ (r.of \in DOMAIN srv.posts /\ srv' \in {a, b})
      /\ w' = t \/ \E ok : w' = CommentAnswered(w, r, ok)
      /\ wire' = wire
  BY DEF PostStored
<1>2. Stored(srv') /\ srv'.tickets = k
  <2>1. Stored(srv) BY DEF Telling
  <2>2. ASSUME r.of \in DOMAIN srv.posts
        PROVE  Stored(a) /\ a.tickets = k /\ Stored(b) /\ b.tickets = k
    BY <2>1, <2>2, MarkedStored
  <2> HIDE DEF a, b
  <2> QED BY <1>1, <2>1, <2>2
<1>3. Good(w, k) /\ DOMAIN w = Names BY DEF Telling, Good, Sound
<1>4. Differ(w, t, Plain) BY <1>3 DEF Differ, Plain
<1> HIDE DEF k, t, a, b
<1>5. Good(t, k) BY <1>3, <1>4, QuietGood
<1>6. Good(w', k) BY <1>1, <1>3, <1>5, CommentGood
<1>7. Wired(w', k, wire) BY SameSections, SameWired DEF Telling, k
<1> QED BY <1>1, <1>2, <1>6, <1>7 DEF Telling

LEMMA AnsweredTells ==
  ASSUME Inv, Telling, Answered
  PROVE  Telling'
<1>0. [Next]_vars BY DEF Next
<1> DEFINE k == srv.tickets
<1>1. /\ Good(w, k) /\ Sound(w, k) /\ Base(w) /\ Loads(w.loads) /\ Posted(srv.posts)
  BY DEF Telling, Good, Inv, Base, Loose, Shape, Stored
<1>2. ASSUME Good(w', k), UNCHANGED << srv, wire >> PROVE Telling'
  BY <1>0, <1>2, WidgetStep DEF k
<1> HIDE DEF k
<1>3. ASSUME NEW i \in 1..MaxLoads, ServeFeed(i) PROVE Telling'
  <2>1. Good(w', k) BY <1>1, <1>3, FeedServedGood DEF ServeFeed
  <2> QED BY <1>2, <1>3, <2>1 DEF ServeFeed
<1>4. ASSUME NEW i \in 1..MaxLoads, FeedArrives(i) PROVE Telling'
  <2>1. Good(w', k) BY <1>1, <1>4, FeedAnsweredGood DEF FeedArrives
  <2> QED BY <1>2, <1>4, <2>1 DEF FeedArrives
<1>5. ASSUME ServeTickets PROVE Telling'
  <2>1. Good(w', k) BY <1>5, ListServedGood DEF k
  <2> QED BY <1>2, <1>5, <2>1 DEF ServeTickets
<1>6. ASSUME TicketsArrive PROVE Telling'
  <2>1. w.listCall.got # << >> /\ w' = TicketsLoaded(w) BY <1>6 DEF TicketsArrive
  <2>2. TicketsOn(w) BY <1>1, <2>1, TicketsAsked DEF Unasked
  <2>3. Good(w', k) BY <1>1, <2>1, <2>2, TicketsLoadedGood
  <2> QED BY <1>2, <1>6, <2>3 DEF TicketsArrive
<1>7. ASSUME ServeThread PROVE Telling'
  <2>1. Good(w', k) BY <1>7, ThreadServedGood DEF k
  <2> QED BY <1>2, <1>7, <2>1 DEF ServeThread
<1>8. ASSUME ThreadArrives PROVE Telling'
  <2>1. w.threadCall # NoCall /\ w.threadCall.got # << >> /\ w' = ThreadLoaded(w)
    BY <1>8 DEF ThreadArrives
  <2>2. TicketsOn(w) BY <1>1, <2>1, TicketsAsked
  <2>3. Good(w', k) BY <1>1, <2>1, <2>2, ThreadLoadedGood
  <2> QED BY <1>2, <1>8, <2>3 DEF ThreadArrives
<1>9. ASSUME NEW n \in TicketIds, ServePreview(n) PROVE Telling'
  <2>1. Good(w', k) BY <1>9, PreviewServedGood DEF k
  <2> QED BY <1>2, <1>9, <2>1 DEF ServePreview
<1>10. ASSUME NEW n \in TicketIds, PreviewArrives(n) PROVE Telling'
  <2>1. w.asked[n].got # << >> /\ w' = NotificationLoaded(w, n) BY <1>10 DEF PreviewArrives
  <2>2. TicketsOn(w) BY <1>1, <2>1, TicketsAsked DEF Unasked
  <2>3. Good(w', k) BY <1>1, <2>1, <2>2, NotificationGood
  <2> QED BY <1>2, <1>10, <2>3 DEF PreviewArrives
<1>11. ASSUME NEW r \in w.replies, StoreReply(r) PROVE Telling'
  BY <1>0, <1>11, StoreReplyStep
<1>12. ASSUME NEW r \in w.replies, ReplyArrives(r) PROVE Telling'
  <2>1. r.got # << >> /\ w' = ReplyStored(w, r) BY <1>12 DEF ReplyArrives
  <2>2. TicketsOn(w) BY <1>1, TicketsAsked
  <2>3. Good(w', k) BY <1>1, <2>1, <2>2, ReplyStoredGood
  <2> QED BY <1>2, <1>12, <2>3 DEF ReplyArrives
<1>13. ASSUME CreateTicket PROVE Telling'
  BY <1>0, <1>13, CreateTicketStep
<1>14. ASSUME CreatedArrives PROVE Telling'
  <2> DEFINE n == w.creating.got[1][1]
             sum == w.creating.got[1][2]
  <2>1. w.creating.got # << >> /\ w' = TicketCreated(w, n, sum) BY <1>14 DEF CreatedArrives
  <2>2. TicketsOn(w) BY <1>1, <2>1, TicketsAsked DEF Unasked
  <2>3. sum = NewSummary /\ Said(k, n, NewSummary) BY <1>1, <2>1 DEF Sound, Making
  <2> HIDE DEF n, sum
  <2>4. Good(w', k) BY <1>1, <2>1, <2>2, <2>3, TicketCreatedGood
  <2> QED BY <1>2, <1>14, <2>4 DEF CreatedArrives
<1>15. ASSUME NEW r \in w.posts, PostStored(r) PROVE Telling'
  BY <1>0, <1>15, PostStoredStep
<1> QED BY <1>3, <1>4, <1>5, <1>6, <1>7, <1>8, <1>9, <1>10, <1>11, <1>12, <1>13, <1>14, <1>15
        DEF Answered

LEMMA LostTells ==
  ASSUME Inv, Telling, Lost
  PROVE  Telling'
<1>0. [Next]_vars BY DEF Next
<1> DEFINE k == srv.tickets
<1>1. Good(w, k) /\ Sound(w, k) /\ Base(w) /\ Loads(w.loads) /\ DOMAIN w = Names
  BY DEF Telling, Good, Inv, Base, Loose, Shape
<1>2. ASSUME Good(w', k), srv' = Spent(srv, "lose"), UNCHANGED wire PROVE Telling'
  BY <1>0, <1>2, WidgetStep DEF k
<1> HIDE DEF k
<1>3. ASSUME NEW i \in 1..MaxLoads, FeedLost(i) PROVE Telling'
  <2>1. Good(w', k) BY <1>1, <1>3, LoadDoneGood DEF FeedLost, FeedFailed
  <2> QED BY <1>2, <1>3, <2>1 DEF FeedLost
<1>4. ASSUME TicketsLost PROVE Telling'
  <2>1. TicketsOn(w) BY <1>1, <1>4, TicketsAsked DEF TicketsLost, Asked, Unasked
  <2>2. Good(w', k) BY <1>1, <1>4, <2>1, TicketsFailGood DEF TicketsLost
  <2> QED BY <1>2, <1>4, <2>2 DEF TicketsLost
<1>5. ASSUME ThreadLost PROVE Telling'
  <2>1. w.threadCall # NoCall BY <1>5 DEF ThreadLost
  <2>2. TicketsOn(w) BY <1>1, <2>1, TicketsAsked
  <2>3. Good(ThreadFailed(w, FALSE), k) /\ Good(ThreadFailed(w, TRUE), k)
    BY <1>1, <2>1, <2>2, ThreadFailedGood
  <2>4. Good(w', k) BY <1>5, <2>3 DEF ThreadLost
  <2> QED BY <1>2, <1>5, <2>4 DEF ThreadLost
<1>6. ASSUME CreateLost PROVE Telling'
  <2> USE FieldNames
  <2>1. w.creating # Unasked BY <1>6 DEF CreateLost
  <2>2. TicketsOn(w) BY <1>1, <2>1, TicketsAsked
  <2>3. Differ(w, w', {"creating"}) /\ w'.creating = Unasked
    BY <1>1, <1>6 DEF CreateLost, TicketRefused, Differ
  <2>4. w'.creating.got = << >> BY <2>3 DEF Unasked
  <2>5. Good(w', k) BY <1>1, <2>2, <2>3, <2>4, MakingGood
  <2> QED BY <1>2, <1>6, <2>5 DEF CreateLost
<1>7. ASSUME NEW n \in TicketIds, PreviewLost(n) PROVE Telling'
  <2>1. w.asked[n] # Unasked BY <1>7 DEF PreviewLost, Asked, Unasked
  <2>2. TicketsOn(w) BY <1>1, <2>1, TicketsAsked
  <2>3. Good(w', k) BY <1>1, <1>7, <2>2, NotificationGood DEF PreviewLost
  <2> QED BY <1>2, <1>7, <2>3 DEF PreviewLost
<1>8. ASSUME NEW r \in w.replies, ReplyLost(r) PROVE Telling'
  <2>1. TicketsOn(w) BY <1>1, TicketsAsked
  <2>2. Good(w', k) BY <1>1, <1>8, <2>1, ReplyFailedGood DEF ReplyLost
  <2> QED BY <1>2, <1>8, <2>2 DEF ReplyLost
<1> QED BY <1>3, <1>4, <1>5, <1>6, <1>7, <1>8 DEF Lost

\* What changes on the server changes nothing on the page before it is told.
LEMMA PostsTell ==
  ASSUME Inv, Telling, [Next]_vars, NEW p \in Posts, PublishPost(p) \/ EditPost(p) \/ RemovePost(p)
  PROVE  Telling'
<1> DEFINE k == srv.tickets
           x == [ver |-> 1, read |-> FALSE, commented |-> FALSE]
           a == [srv EXCEPT !.posts = [q \in DOMAIN @ \cup {p} |-> IF q = p THEN x ELSE @[q]]]
           b == [srv EXCEPT !.posts[p].ver = @ + 1]
           c == [srv EXCEPT !.posts = Restrict(@, DOMAIN @ \ {p})]
           e == [type |-> "published", of |-> p, ver |-> 1]
           f == [type |-> "updated", of |-> p, ver |-> srv.posts[p].ver + 1]
           g == [type |-> "removed", of |-> p, ver |-> 0]
<1>0. Stored(srv) /\ DOMAIN srv = {"posts", "tickets", "left"} /\ Posted(srv.posts)
  BY DEF Telling, Stored
<1>1. Stored(a) /\ a.tickets = k
  <2>1. /\ DOMAIN a = DOMAIN srv /\ a.tickets = k
        /\ a.posts = [q \in DOMAIN srv.posts \cup {p} |-> IF q = p THEN x ELSE srv.posts[q]]
    BY <1>0
  <2> HIDE DEF a
  <2>2. Posted(a.posts) BY <1>0, <2>1 DEF Posted
  <2> QED BY <1>0, <2>1, <2>2 DEF Stored
<1>2. p \in DOMAIN srv.posts => Stored(b) /\ b.tickets = k
  <2> SUFFICES ASSUME p \in DOMAIN srv.posts PROVE Stored(b) /\ b.tickets = k OBVIOUS
  <2>1. PICK y : DOMAIN y = DOMAIN srv.posts[p] /\ b.posts = [srv.posts EXCEPT ![p] = y]
    BY <1>0
  <2>2. DOMAIN b = DOMAIN srv /\ b.tickets = k BY <1>0
  <2> HIDE DEF b
  <2>3. Posted(b.posts) BY <1>0, <2>1 DEF Posted
  <2> QED BY <1>0, <2>2, <2>3 DEF Stored
<1>3. Stored(c) /\ c.tickets = k
  <2>1. DOMAIN c = DOMAIN srv /\ c.tickets = k
        /\ c.posts = Restrict(srv.posts, DOMAIN srv.posts \ {p})
    BY <1>0
  <2> HIDE DEF c
  <2>2. Posted(c.posts) BY <1>0, <2>1 DEF Posted, Restrict
  <2> QED BY <1>0, <2>1, <2>2 DEF Stored
<1>4. Heard(w, k, e) /\ Heard(w, k, f) /\ Heard(w, k, g)
  <2>1. e.type = "published" /\ "ver" \in DOMAIN e OBVIOUS
  <2>2. f.type = "updated" /\ "ver" \in DOMAIN f OBVIOUS
  <2>3. g.type = "removed" OBVIOUS
  <2> HIDE DEF e, f, g
  <2> QED BY <2>1, <2>2, <2>3 DEF Heard
<1>5. \/ srv' = Spent(a, "change") /\ Publish("updates", e)
      \/ p \in DOMAIN srv.posts /\ srv' = Spent(b, "change") /\ Publish("updates", f)
      \/ srv' = Spent(c, "change") /\ Publish("updates", g)
  BY DEF PublishPost, EditPost, RemovePost
<1>6. w' = w BY DEF PublishPost, EditPost, RemovePost
<1> HIDE DEF a, b, c, e, f, g
<1>7. Stored(srv') /\ srv'.tickets = k BY <1>1, <1>2, <1>3, <1>5, SpentStored
<1>8. Good(w, k) /\ Wired(w, k, wire) BY DEF Telling
<1>9. Wired(w, k, wire') BY <1>4, <1>5, <1>8, Published
<1> HIDE DEF k
<1> QED BY <1>6, <1>7, <1>8, <1>9 DEF Telling

LEMMA TicketsTell ==
  ASSUME Inv, Telling, [Next]_vars, NEW n \in TicketIds, StaffReplies(n) \/ StaffCloses(n)
  PROVE  Telling'
<1> DEFINE k == srv.tickets
           a == [k[n] EXCEPT !.authors = Append(@, "staff")]
           b == [k[n] EXCEPT !.status = "closed"]
<1>1. Good(w, k) /\ Begun(k) /\ DOMAIN srv = {"posts", "tickets", "left"} /\ Stored(srv)
  BY DEF Telling, Stored
<1>2. n \in DOMAIN k /\ w' = w BY DEF StaffReplies, StaffCloses
<1>3. ASSUME NEW tk \in {a, b}, NEW type \in {"message", "updated"},
             srv' = Spent([srv EXCEPT !.tickets[n] = tk], "change"),
             Publish("tickets", TicketNews(type, n, tk))
      PROVE  Telling'
  <2> DEFINE v == [srv EXCEPT !.tickets[n] = tk]
             k2 == [k EXCEPT ![n] = tk]
  <2>1. /\ DOMAIN tk = {"status", "authors"}
        /\ tk.authors = k[n].authors \/ \E x \in {"visitor", "staff"} :
                                          tk.authors = Append(k[n].authors, x)
    BY <1>1, <1>2 DEF Begun
  <2>2. Begun(k2) /\ Grown(k, k2) BY <1>1, <1>2, <2>1, TicketGrows
  <2>3. k2[n] = tk /\ n \in DOMAIN k2 BY <1>2
  <2>4. v.tickets = k2 /\ DOMAIN v = DOMAIN srv /\ v.posts = srv.posts BY <1>1
  <2> HIDE DEF v, k2
  <2>5. Stored(v) BY <1>1, <2>2, <2>4 DEF Stored
  <2>6. srv'.tickets = k2 /\ DOMAIN srv' = DOMAIN srv /\ srv'.posts = srv.posts
    BY <1>1, <1>3, <2>4, <2>5, SpentStored DEF v, Stored
  <2>7. Good(w', k2) BY <1>1, <1>2, <2>2, GrownGood
  <2> HIDE DEF a, b
  <2>8. Publish("tickets", TicketNews(type, n, k2[n])) BY <1>3, <2>3
  <2>9. type \in {"message", "updated", "created"} OBVIOUS
  <2> QED BY <2>2, <2>3, <2>6, <2>7, <2>8, <2>9, GrownStep DEF k
<1>4. \/ /\ srv' = Spent([srv EXCEPT !.tickets[n] = a], "change")
         /\ Publish("tickets", TicketNews("message", n, a))
      \/ /\ srv' = Spent([srv EXCEPT !.tickets[n] = b], "change")
         /\ Publish("tickets", TicketNews("updated", n, b))
  BY DEF StaffReplies, StaffCloses
<1> HIDE DEF a, b, k
<1> QED BY <1>3, <1>4

LEMMA ServerTells ==
  ASSUME Inv, Telling, Server
  PROVE  Telling'
<1>1. [Next]_vars BY DEF Next
<1> QED BY <1>1, PostsTell, TicketsTell DEF Server

LEMMA TimersTell ==
  ASSUME Inv, Telling, Timers
  PROVE  Telling'
<1> USE FieldNames
<1>0. [Next]_vars BY DEF Next
<1> DEFINE k == srv.tickets
<1>1. Good(w, k) /\ Sound(w, k) /\ Base(w) /\ Loads(w.loads) /\ DOMAIN w = Names
  BY DEF Telling, Good, Inv, Base, Loose, Shape, Sound
<1>2. ASSUME Good(w', k), UNCHANGED << srv, wire >> PROVE Telling'
  BY <1>0, <1>2, WidgetStep DEF k
<1> HIDE DEF k
<1>3. ASSUME NEW t, Differ(w, t, Plain) PROVE Good(t, k) BY <1>1, <1>3, QuietGood
<1>4. ASSUME FeedTimer PROVE Telling'
  <2> DEFINE s == [w EXCEPT !.feedTimer = FALSE]
  <2>1. Differ(w, s, Plain) /\ s.loads = w.loads BY <1>1 DEF Differ, Plain
  <2>2. w' \in {s, LoadAnnouncements(s, FALSE, TRUE), ScheduleNext(s)} BY <1>4 DEF FeedTimer
  <2> HIDE DEF s
  <2>3. Good(s, k) BY <1>3, <2>1
  <2>4. Good(w', k) BY <1>1, <2>1, <2>2, <2>3, LoadGood, ScheduleNextGood
  <2> QED BY <1>2, <1>4, <2>4 DEF FeedTimer
<1>5. ASSUME PollTickets PROVE Telling'
  <2>1. Good(w', k) BY <1>1, <1>5, PollTimerGood DEF PollTickets
  <2> QED BY <1>2, <1>5, <2>1 DEF PollTickets
<1>6. ASSUME Loader PROVE Telling'
  <2>1. Good(w', k) BY <1>1, <1>6, ShowLoaderGood DEF Loader
  <2> QED BY <1>2, <1>6, <2>1 DEF Loader
<1>7. ASSUME Expire PROVE Telling'
  <2>1. Good(w', k) BY <1>1, <1>7, ExpiredGood DEF Expire
  <2> QED BY <1>2, <1>7, <2>1 DEF Expire
<1>8. ASSUME FadeEnds PROVE Telling'
  <2>1. Good(w', k) BY <1>1, <1>8, FadeEndGood DEF FadeEnds
  <2> QED BY <1>2, <1>8, <2>1 DEF FadeEnds
<1>9. ASSUME RetryTimer PROVE Telling'
  <2> DEFINE s == [w EXCEPT !.retryTimer = FALSE]
  <2>1. Differ(w, s, Plain) BY <1>1 DEF Differ, Plain
  <2>2. w' = Connect(s) BY <1>9 DEF RetryTimer
  <2> HIDE DEF s
  <2>3. Good(w', k) BY <1>3, <2>1, <2>2, ConnectGood
  <2> QED BY <1>2, <1>9, <2>3 DEF RetryTimer
<1>10. ASSUME ThanksEnd PROVE Telling'
  <2> DEFINE s == [w EXCEPT !.closing = FALSE]
  <2>1. Differ(w, s, Plain) BY <1>1 DEF Differ, Plain
  <2>2. w' \in {ClosePanel(w, TRUE), s} BY <1>10 DEF ThanksEnd
  <2> HIDE DEF s
  <2>3. Good(w', k) BY <1>1, <1>3, <2>1, <2>2, ClosePanelGood
  <2> QED BY <1>2, <1>10, <2>3 DEF ThanksEnd
<1>11. ASSUME Frame PROVE Telling'
  <2>1. Good(w', k) BY <1>1, <1>11, PointerGood DEF Frame
  <2> QED BY <1>2, <1>11, <2>1 DEF Frame
<1>12. ASSUME SuppressTimer PROVE Telling'
  <2>1. Differ(w, w', Plain) BY <1>1, <1>12 DEF SuppressTimer, Differ, Plain
  <2>2. Good(w', k) BY <1>3, <2>1
  <2> QED BY <1>2, <1>12, <2>2 DEF SuppressTimer
<1> QED BY <1>4, <1>5, <1>6, <1>7, <1>8, <1>9, <1>10, <1>11, <1>12 DEF Timers

\* A click on the preview opens what it is of.
LEMMA ToastOpenedGood ==
  ASSUME NEW k, Good(w, k), OpenToast
  PROVE  Good(w', k)
<1> USE FieldNames
<1>1. w.toast # Nothing /\ Sound(w, k) BY DEF OpenToast, Good
<1>2. PICK late \in BOOLEAN :
        w' = IF w.toast[1] = "post"
             THEN OpenDetail(OpenPanel(w, "updates", late), w.toast[2], w.toast[3])
             ELSE OpenThread(OpenPanel(w, "tickets", late), w.toast[2])
  BY DEF OpenToast
<1>3. CASE w.toast[1] = "post"
  <2> DEFINE u == OpenPanel(w, "updates", late)
  <2>1. Good(u, k) BY OpenPanelGood
  <2> HIDE DEF u
  <2> QED BY <1>2, <1>3, <2>1, OpenDetailGood DEF u
<1>4. CASE w.toast[1] # "post"
  <2> DEFINE u == OpenPanel(w, "tickets", late)
  <2>1. TicketsOn(w) /\ w.toast[2] \in TicketIds BY <1>1, <1>4 DEF Sound, NoTickets, Toast
  <2>2. /\ Good(u, k)
        /\ Differ(w, u, {"fading", "open", "section", "detail", "body", "busy", "replies",
                         "listCall"})
    BY <2>1, OpenPanelGood
  <2> HIDE DEF u
  <2>3. TicketsOn(u) BY <2>1, <2>2 DEF Differ, TicketsOn
  <2>4. Good(OpenThread(u, w.toast[2]), k) BY <2>1, <2>2, <2>3, OpenThreadGood
  <2> QED BY <1>2, <1>4, <2>4 DEF u
<1> QED BY <1>3, <1>4

LEMMA VisitorTells ==
  ASSUME Inv, Telling, Visitor
  PROVE  Telling'
<1> USE FieldNames
<1>0. [Next]_vars BY DEF Next
<1> DEFINE k == srv.tickets
<1>1. Good(w, k) /\ Sound(w, k) /\ Counts(w, k) /\ DOMAIN w = Names
  BY DEF Telling, Good, Sound
<1>2. ASSUME Good(w', k), srv' = srv \/ \E e : srv' = Spent(srv, e), UNCHANGED wire PROVE Telling'
  BY <1>0, <1>2, WidgetStep DEF k
<1> HIDE DEF k
<1>3. ASSUME NEW t, Differ(w, t, Plain) PROVE Good(t, k) BY <1>1, <1>3, QuietGood
<1>4. w.section = "tickets" => TicketsOn(w) BY <1>1 DEF Sound, NoTickets
<1>5. ASSUME PressLauncher \/ MoveLauncher \/ ReleaseLauncher \/ CancelPress PROVE Telling'
  <2>1. Good(w', k)
    BY <1>1, <1>5, PointerGood DEF PressLauncher, MoveLauncher, ReleaseLauncher, CancelPress
  <2> QED BY <1>2, <1>5, <2>1 DEF PressLauncher, MoveLauncher, ReleaseLauncher, CancelPress
<1>6. ASSUME Click PROVE Telling'
  <2> DEFINE s == [w EXCEPT !.click = "none"]
  <2>1. Differ(w, s, Plain) BY <1>1 DEF Differ, Plain
  <2>2. PICK late \in BOOLEAN : w' = LauncherClicked(s, late) BY <1>6 DEF Click
  <2> HIDE DEF s
  <2>3. Good(w', k) BY <1>3, <2>1, <2>2, ClickedGood
  <2> QED BY <1>2, <1>6, <2>3 DEF Click
<1>7. ASSUME Close PROVE Telling'
  <2>1. Good(w', k) BY <1>1, <1>7, ClosePanelGood DEF Close
  <2> QED BY <1>2, <1>7, <2>1 DEF Close
<1>8. ASSUME DismissToast PROVE Telling'
  <2>1. Differ(w, w', Plain) BY <1>1, <1>8, HideToastGood, Wider DEF DismissToast, Plain
  <2>2. Good(w', k) BY <1>3, <2>1
  <2> QED BY <1>2, <1>8, <2>2 DEF DismissToast
<1>9. ASSUME OpenToast PROVE Telling'
  <2>1. Good(w', k) BY <1>1, <1>9, ToastOpenedGood
  <2> QED BY <1>2, <1>9, <2>1 DEF OpenToast
<1>10. ASSUME BackToUpdates PROVE Telling'
  <2>1. Good(w', k) BY <1>1, <1>10, ShowSectionGood DEF BackToUpdates
  <2> QED BY <1>2, <1>10, <2>1 DEF BackToUpdates
<1>11. ASSUME Comment PROVE Telling'
  <2>1. Good(w', k) BY <1>1, <1>11, CommentGood DEF Comment
  <2> QED BY <1>2, <1>11, <2>1 DEF Comment
<1>12. ASSUME NEW next \in w.sections, ChooseTab(next) PROVE Telling'
  <2>1. /\ next \in {"updates", "tickets", "feedback"}
        /\ TicketsOn(w) \/ next # "tickets"
    BY <1>1, <1>12 DEF Sound, TicketsOn
  <2>2. Good(w', k) BY <1>1, <1>12, <2>1, ShowSectionGood DEF ChooseTab
  <2> QED BY <1>2, <1>12, <2>2 DEF ChooseTab
<1>13. ASSUME NEW p \in Posts, ReadPost(p) PROVE Telling'
  <2>1. Good(w', k) BY <1>1, <1>13, OpenDetailGood DEF ReadPost
  <2> QED BY <1>2, <1>13, <2>1 DEF ReadPost
<1>14. ASSUME NEW n \in TicketIds, ReadTicket(n) PROVE Telling'
  <2>1. TicketsOn(w) BY <1>4, <1>14 DEF ReadTicket, OnTickets
  <2>2. Good(w', k) BY <1>1, <1>14, <2>1, OpenThreadGood DEF ReadTicket
  <2> QED BY <1>2, <1>14, <2>2 DEF ReadTicket
<1>15. ASSUME Back \/ NewTicket \/ LeaveNewTicket PROVE Telling'
  <2>1. TicketsOn(w) BY <1>4, <1>15 DEF Back, NewTicket, LeaveNewTicket, OnTickets
  <2>2. Good(w', k) BY <1>1, <1>15, <2>1, PagesGood DEF Back, NewTicket, LeaveNewTicket
  <2> QED BY <1>2, <1>15, <2>2 DEF Back, NewTicket, LeaveNewTicket
<1>16. ASSUME RetryThread PROVE Telling'
  <2>1. TicketsOn(w) /\ ~w.destroyed BY <1>4, <1>16 DEF RetryThread, OnTickets
  <2>2. Half(w, k) BY <1>1, <2>1, GoodHalf
  <2>3. Good(LoadThread(w, w.body[2], TRUE), k) BY <1>1, <2>1, <2>2, LoadThreadGood
  <2> QED BY <1>2, <1>16, <2>3 DEF RetryThread
<1>17. ASSUME Type PROVE Telling'
  <2>1. Good(w', k) BY <1>1, <1>17, TypeReplyGood DEF Type
  <2> QED BY <1>2, <1>17, <2>1 DEF Type
<1>18. ASSUME Reply PROVE Telling'
  <2>1. Good(w', k) BY <1>1, <1>18, SendReplyGood DEF Reply
  <2> QED BY <1>2, <1>18, <2>1 DEF Reply
<1>19. ASSUME WriteTicket PROVE Telling'
  <2>1. Differ(w, w', Plain) BY <1>1, <1>19 DEF WriteTicket, Differ, Plain
  <2>2. Good(w', k) BY <1>3, <2>1
  <2> QED BY <1>2, <1>19, <2>2 DEF WriteTicket
<1>20. ASSUME SubmitTicket PROVE Telling'
  <2>1. TicketsOn(w) BY <1>4, <1>20 DEF SubmitTicket, OnTickets
  <2>2. Differ(w, w', {"creating"}) /\ w'.creating = Asked
    BY <1>1, <1>20 DEF SubmitTicket, Differ
  <2>3. w'.creating.got = << >> BY <2>2 DEF Asked
  <2>4. Good(w', k) BY <1>1, <2>1, <2>2, <2>3, MakingGood
  <2> QED BY <1>2, <1>20, <2>4 DEF SubmitTicket
<1>21. ASSUME SendFeedback PROVE Telling'
  <2>1. w.section = "feedback" BY <1>21 DEF SendFeedback, FormShown
  <2>2. Good(w', k) BY <1>1, <1>21, <2>1, SubmitGood DEF SendFeedback
  <2> QED BY <1>2, <1>21, <2>2 DEF SendFeedback
<1> QED BY <1>5, <1>6, <1>7, <1>8, <1>9, <1>10, <1>11, <1>12, <1>13, <1>14, <1>15, <1>16, <1>17,
           <1>18, <1>19, <1>20, <1>21
        DEF Visitor

LEMMA NothingWired ==
  ASSUME NEW s, NEW k
  PROVE  Wired(s, k, << >>)
<1>1. << >> \in Seq({}) /\ DOMAIN << >> = {} OBVIOUS
<1> QED BY <1>1 DEF Wired

\* The head of the wire is heard.
LEMMA DeliverGood ==
  ASSUME NEW k, Good(w, k), Wired(w, k, wire), Deliver
  PROVE  Good(w', k) /\ Wired(w, k, wire')
<1> DEFINE e == Head(wire)
           a == PostRemoved(w, e.of)
           b == PostChanged(w, e.type, e.of, e.ver)
           c == TicketEvent(w, e.type, e.of, e.sum)
<1>1. w' = CASE e.type = "removed" -> a
             [] e.type \in {"published", "updated"} /\ "ver" \in DOMAIN e -> b
             [] OTHER -> c
  BY DEF Deliver
<1>2. wire # << >> /\ wire' = Tail(wire) BY DEF Deliver
<1>3. Heard(w, k, e) /\ Wired(w, k, wire') BY <1>2, TailWired
<1> HIDE DEF e
<1>4. CASE e.type = "removed"
  <2>1. w' = a
    <3> HIDE DEF a, b, c
    <3>1. ~(e.type \in {"published", "updated"} /\ "ver" \in DOMAIN e) BY <1>4
    <3> QED BY <1>1, <1>4, <3>1
  <2> QED BY <1>3, <2>1, PostRemovedGood
<1>5. CASE e.type \in {"published", "updated"} /\ "ver" \in DOMAIN e
  <2>1. w' = b
    <3> HIDE DEF a, b, c
    <3>1. e.type # "removed" BY <1>5
    <3> QED BY <1>1, <1>5, <3>1
  <2> QED BY <1>3, <2>1, PostChangedGood
<1>6. CASE e.type # "removed" /\ ~(e.type \in {"published", "updated"} /\ "ver" \in DOMAIN e)
  <2>1. w' = c
    <3> HIDE DEF a, b, c
    <3> QED BY <1>1, <1>6
  <2>2. TicketsOn(w) /\ Said(k, e.of, e.sum) BY <1>3, <1>6 DEF Heard
  <2> QED BY <1>3, <2>1, <2>2, TicketEventGood
<1> QED BY <1>4, <1>5, <1>6

LEMMA BrowserTells ==
  ASSUME Inv, Telling, Browser
  PROVE  Telling'
<1> USE FieldNames
<1>0. [Next]_vars BY DEF Next
<1> DEFINE k == srv.tickets
<1>1. /\ Good(w, k) /\ Loads(w.loads) /\ DOMAIN w = Names /\ Stored(srv) /\ Wired(w, k, wire)
      /\ w'.sections = w.sections
  BY <1>0, SameSections DEF Telling, Good, Inv, Base, Loose, Shape
<1>2. ASSUME Good(w', k), srv' = srv \/ \E e : srv' = Spent(srv, e), Wired(w', k, wire')
      PROVE  Telling'
  <2>1. Stored(srv') /\ srv'.tickets = k BY <1>1, <1>2, SpentStored
  <2> QED BY <1>2, <2>1 DEF Telling
<1>3. ASSUME UNCHANGED wire PROVE Wired(w', k, wire')
  <2>1. Wired(w', k, wire) BY <1>1, SameWired
  <2> QED BY <1>3, <2>1
<1> HIDE DEF k
<1>4. ASSUME NEW t, Differ(w, t, Plain) PROVE Good(t, k) BY <1>1, <1>4, QuietGood
<1>5. ASSUME SocketOpens PROVE Telling'
  <2> DEFINE s == [w EXCEPT !.socket = "open", !.retryTimer = FALSE, !.feedTimer = FALSE,
                            !.poll = FALSE]
             l == LoadAnnouncements(s, TRUE, FALSE)
  <2>1. Differ(w, s, Plain) /\ s.loads = w.loads BY <1>1 DEF Differ, Plain
  <2>2. w' = LoadTickets(l) BY <1>5 DEF SocketOpens
  <2> HIDE DEF s
  <2>3. Good(s, k) BY <1>4, <2>1
  <2>4. Good(l, k) BY <1>1, <2>1, <2>3, LoadGood
  <2> HIDE DEF l
  <2>5. Good(w', k) BY <2>2, <2>4, LoadTicketsGood
  <2> QED BY <1>2, <1>3, <1>5, <2>5 DEF SocketOpens
<1>6. ASSUME SocketCloses PROVE Telling'
  <2>1. Good(w', k) BY <1>1, <1>6, DisconnectedGood DEF SocketCloses
  <2>2. Wired(w', k, wire') BY <1>6, NothingWired DEF SocketCloses
  <2> QED BY <1>2, <1>6, <2>1, <2>2 DEF SocketCloses
<1>7. ASSUME Deliver PROVE Telling'
  <2>1. Good(w', k) /\ Wired(w, k, wire') BY <1>1, <1>7, DeliverGood
  <2>2. Wired(w', k, wire') BY <1>1, <2>1, SameWired
  <2> QED BY <1>2, <1>7, <2>1, <2>2 DEF Deliver
<1>8. ASSUME Hide PROVE Telling'
  <2>1. Differ(w, w', Plain) BY <1>1, <1>8 DEF Hide, Differ, Plain
  <2>2. Good(w', k) BY <1>4, <2>1
  <2> QED BY <1>2, <1>3, <1>8, <2>2 DEF Hide
<1>9. ASSUME Show PROVE Telling'
  <2>1. Good(w', k) BY <1>1, <1>9, BecomeVisibleGood DEF Show
  <2> QED BY <1>2, <1>3, <1>9, <2>1 DEF Show
<1>10. ASSUME Destroy PROVE Telling'
  <2>1. Good(w', k) BY <1>1, <1>10, DestroyedGood DEF Destroy
  <2>2. Wired(w', k, wire') BY <1>10, NothingWired DEF Destroy
  <2> QED BY <1>2, <1>10, <2>1, <2>2 DEF Destroy
<1>11. ASSUME IconError \/ Resize PROVE Telling'
  <2>1. Good(w', k) BY <1>1, <1>11, SizesGood DEF IconError, Resize
  <2> QED BY <1>2, <1>3, <1>11, <2>1 DEF IconError, Resize
<1>12. ASSUME NEW p \in Posts, Ages(p) PROVE Telling'
  <2>1. Good(w', k) BY <1>1, <1>12, AgedGood DEF Ages
  <2> QED BY <1>2, <1>3, <1>12, <2>1 DEF Ages
<1> QED BY <1>5, <1>6, <1>7, <1>8, <1>9, <1>10, <1>11, <1>12 DEF Browser

------------------------------------------------------------------------------
(* A widget that was just mounted shows its state                          *)

\* The fields of a record that is joined are found in it.
LEMMA MountedFields ==
  ASSUME NEW site
  PROVE  LET sections == Join(UpdatesFields, Join(TicketsFields, SocketFields))
             m == Join(Mounted(site), Join(LauncherFields, sections))
         IN /\ DOMAIN m = Names
            /\ \A x \in DOMAIN Mounted(site) : m[x] = Mounted(site)[x]
            /\ \A x \in DOMAIN TicketsFields : m[x] = TicketsFields[x]
            /\ m.loads = << >>
<1> DEFINE a == Mounted(site)
           b == LauncherFields
           c == UpdatesFields
           d == TicketsFields
           e == SocketFields
           de == Join(d, e)
           cde == Join(c, de)
           bcde == Join(b, cde)
           m == Join(a, bcde)
<1>1. DOMAIN m = Names /\ m.loads = << >> BY MountFields
<1>2. DOMAIN d \cap DOMAIN a = {} /\ DOMAIN d \cap DOMAIN b = {} /\ DOMAIN d \cap DOMAIN c = {}
  BY DEF Mounted, LauncherFields, UpdatesFields, TicketsFields
<1> HIDE DEF a, b, c, d, e
<1>3. DOMAIN d \subseteq DOMAIN de /\ \A x \in DOMAIN d : de[x] = d[x] BY Joined
<1> HIDE DEF de
<1>4. DOMAIN d \subseteq DOMAIN cde /\ \A x \in DOMAIN d : cde[x] = d[x]
  <2>1. DOMAIN cde = DOMAIN c \cup DOMAIN de /\ \A x \in DOMAIN de \ DOMAIN c : cde[x] = de[x]
    BY Joined
  <2> HIDE DEF cde
  <2> QED BY <1>2, <1>3, <2>1
<1> HIDE DEF cde
<1>5. DOMAIN d \subseteq DOMAIN bcde /\ \A x \in DOMAIN d : bcde[x] = d[x]
  <2>1. /\ DOMAIN bcde = DOMAIN b \cup DOMAIN cde
        /\ \A x \in DOMAIN cde \ DOMAIN b : bcde[x] = cde[x]
    BY Joined
  <2> HIDE DEF bcde
  <2> QED BY <1>2, <1>4, <2>1
<1> HIDE DEF bcde
<1>6. /\ \A x \in DOMAIN a : m[x] = a[x]
      /\ \A x \in DOMAIN bcde \ DOMAIN a : m[x] = bcde[x]
  BY Joined
<1> HIDE DEF m
<1>7. \A x \in DOMAIN d : m[x] = d[x] BY <1>2, <1>5, <1>6
<1> QED BY <1>1, <1>6, <1>7 DEF m, bcde, cde, de, a, b, c, d, e

LEMMA MountGood ==
  ASSUME NEW site \in Scenarios, NEW k, DOMAIN k \subseteq TicketIds
  PROVE  Good(Mount(site), k)
<1> USE FieldNames
<1> DEFINE sections == Join(UpdatesFields, Join(TicketsFields, SocketFields))
           f == Join(Mounted(site.sections), Join(LauncherFields, sections))
           m == [f EXCEPT !.section = site.first, !.history = site.tickets # Nothing,
                          !.sockets = site.sockets]
           c == Connect(m)
           l == LoadAnnouncements(c, TRUE, TRUE)
<1>1. site.sections \subseteq {"updates", "tickets", "feedback"} /\ site.first \in site.sections
  <2>1. Scenario(site) BY WidgetAssumption
  <2> QED BY <2>1 DEF Scenario
<1>2. /\ DOMAIN f = Names /\ f.sections = site.sections /\ f.open = FALSE
      /\ f.destroyed = FALSE /\ f.body = << "empty", None, {} >> /\ f.toast = Nothing
      /\ f.badge = << 0, 0 >> /\ f.expiry = {} /\ f.feed = Nothing
      /\ f.detail = [id |-> None, held |-> FALSE] /\ f.tickets = Nothing
      /\ f.view = [kind |-> "list", id |-> None] /\ f.thread = NoThread /\ f.error = ""
      /\ f.drafts = [n \in TicketIds |-> 0] /\ f.replies = {} /\ f.loads = << >>
      /\ f.listCall = Unasked /\ f.threadCall = NoCall /\ f.loading = FALSE
      /\ f.loadingTimer = None /\ f.cache = [n \in TicketIds |-> NoThread]
      /\ f.asked = [n \in TicketIds |-> Unasked] /\ f.creating = Unasked
  <2> DEFINE a == Mounted(site.sections)
             d == TicketsFields
  <2>1. DOMAIN f = Names /\ f.loads = << >> BY MountedFields
  <2>2. \A x \in DOMAIN a : f[x] = a[x] BY MountedFields
  <2>3. \A x \in DOMAIN d : f[x] = d[x] BY MountedFields
  <2> HIDE DEF f
  <2>4. /\ f.sections = site.sections /\ f.open = FALSE
        /\ f.destroyed = FALSE /\ f.body = << "empty", None, {} >> /\ f.toast = Nothing
        /\ f.badge = << 0, 0 >> /\ f.expiry = {} /\ f.feed = Nothing
        /\ f.detail = [id |-> None, held |-> FALSE] /\ f.tickets = Nothing
        /\ f.view = [kind |-> "list", id |-> None] /\ f.thread = NoThread /\ f.error = ""
        /\ f.drafts = [n \in TicketIds |-> 0] /\ f.replies = {}
    BY <2>2 DEF Mounted
  <2>5. /\ f.listCall = Unasked /\ f.threadCall = NoCall /\ f.loading = FALSE
        /\ f.loadingTimer = None /\ f.cache = [n \in TicketIds |-> NoThread]
        /\ f.asked = [n \in TicketIds |-> Unasked] /\ f.creating = Unasked
    BY <2>3 DEF TicketsFields
  <2> QED BY <2>1, <2>4, <2>5
<1> HIDE DEF f
<1>3. Differ(f, m, {"section", "history", "sockets"}) /\ m.section = site.first
  BY <1>2 DEF Differ
<1> HIDE DEF m
<1>4. /\ DOMAIN m = Names /\ m.sections = site.sections /\ m.section = site.first
      /\ m.open = FALSE
      /\ m.destroyed = FALSE /\ m.body = << "empty", None, {} >> /\ m.toast = Nothing
      /\ m.badge = << 0, 0 >> /\ m.expiry = {} /\ m.feed = Nothing
      /\ m.detail = [id |-> None, held |-> FALSE] /\ m.tickets = Nothing
      /\ m.view = [kind |-> "list", id |-> None] /\ m.thread = NoThread /\ m.error = ""
      /\ m.drafts = [n \in TicketIds |-> 0] /\ m.replies = {} /\ m.loads = << >>
      /\ m.listCall = Unasked /\ m.threadCall = NoCall /\ m.loading = FALSE
      /\ m.loadingTimer = None /\ m.cache = [n \in TicketIds |-> NoThread]
      /\ m.asked = [n \in TicketIds |-> Unasked] /\ m.creating = Unasked
  BY <1>2, <1>3 DEF Differ
<1>5. DOMAIN Nothing = {} BY DEF Nothing
<1>6. Sound(m, k)
  <2>1. Posted(m.feed) /\ Fetched(m.loads) /\ Told(k, m.tickets) BY <1>4, <1>5
        DEF Posted, Fetched, Told, Nothing
  <2>2. Asides(k, m.cache) /\ Peeked(k, m.asked) /\ DOMAIN m.drafts = TicketIds
    BY <1>4 DEF Asides, Peeked
  <2>3. /\ Chosen(k, m.thread, m.view) /\ Called(k, m.threadCall, m.error)
        /\ Replying(k, m.replies)
    BY <1>4 DEF Chosen, Called, Replying
  <2>4. Listed(k, m.listCall) /\ Making(k, m.creating)
    <3>1. Unasked.got = << >> BY DEF Unasked
    <3>2. m.listCall.got = << >> /\ m.creating.got = << >> BY <1>4, <3>1
    <3> QED BY <3>2 DEF Listed, Making
  <2>5. Page(k, m.body) /\ Toast(m.toast)
    <3>1. << "empty", None, {} >>[1] = "empty" OBVIOUS
    <3>2. m.body[1] = "empty" BY <1>4, <3>1
    <3> QED BY <1>4, <3>2 DEF Page, Toast
  <2>6. TicketsOn(m) \/ NoTickets(m) BY <1>1, <1>4 DEF TicketsOn, NoTickets
  <2>7. /\ m.sections \subseteq {"updates", "tickets", "feedback"}
        /\ m.section \in {"updates", "tickets", "feedback"}
        /\ m.view.kind \in {"list", "new", "thread"} /\ DOMAIN m.detail = {"id", "held"}
        /\ m.loadingTimer = None
    <3>1. [kind |-> "list", id |-> None].kind = "list" OBVIOUS
    <3>2. DOMAIN [id |-> None, held |-> FALSE] = {"id", "held"} OBVIOUS
    <3>3. m.view.kind = "list" BY <1>4, <3>1
    <3>4. DOMAIN m.detail = {"id", "held"} BY <1>4, <3>2
    <3> QED BY <1>1, <1>4, <3>3, <3>4
  <2> QED BY <1>4, <2>1, <2>2, <2>3, <2>4, <2>5, <2>6, <2>7 DEF Sound
<1>7. Counts(m, k)
  <2>1. UnreadPosts(m) = {} /\ UnreadTickets(m) = {} /\ m.expiry \ m.aged = {}
    BY <1>4, <1>5 DEF UnreadPosts, UnreadTickets
  <2>2. Cardinality({}) = 0 BY FS_EmptySet
  <2>3. m.badge[1] = 0 /\ m.badge[2] = 0
    <3>1. << 0, 0 >>[1] = 0 /\ << 0, 0 >>[2] = 0 OBVIOUS
    <3> QED BY <1>4, <3>1
  <2>4. {} \in SUBSET OutrunIn(m, k) /\ UnreadTickets(m) \cup {} = {} BY <2>1
  <2> QED BY <1>4, <2>1, <2>2, <2>3, <2>4 DEF Counts
<1>8. Good(m, k) BY <1>4, <1>6, <1>7 DEF Good, Shows
<1>9. Good(c, k) /\ Differ(m, c, {"socket"}) BY <1>8, ConnectGood
<1> HIDE DEF c
<1>10. Loads(c.loads)
  <2>1. c.loads = << >> BY <1>4, <1>9 DEF Differ
  <2>2. << >> \in Seq({}) /\ DOMAIN << >> = {} OBVIOUS
  <2> QED BY <2>1, <2>2 DEF Loads
<1>11. Good(l, k) BY <1>9, <1>10, LoadGood
<1> HIDE DEF l
<1>12. Good(LoadTickets(l), k) BY <1>11, LoadTicketsGood
<1> QED BY <1>12 DEF Mount, sections, f, m, c, l

LEMMA InitTells ==
  ASSUME Init
  PROVE  Telling
<1>1. PICK s \in Scenarios :
        /\ srv = [ posts   |-> [p \in s.posts |-> [ver |-> 1, read |-> FALSE, commented |-> FALSE]],
                   tickets |-> [n \in DOMAIN s.tickets |->
                                  [status |-> "open", authors |-> s.tickets[n]]],
                   left    |-> s.bounds ]
        /\ w = Mount(s)
        /\ wire = << >>
  BY DEF Init
<1>2. DOMAIN s.tickets \subseteq TicketIds /\ \A n \in DOMAIN s.tickets : Written(s.tickets[n])
  <2>1. Scenario(s) BY WidgetAssumption
  <2> QED BY <2>1 DEF Scenario
<1>3. Posted(srv.posts) BY <1>1 DEF Posted
<1>4. Begun(srv.tickets) BY <1>1, <1>2 DEF Begun
<1>5. Stored(srv) BY <1>1, <1>3, <1>4 DEF Stored
<1>6. Good(w, srv.tickets) BY <1>1, <1>4, MountGood DEF Begun
<1> QED BY <1>1, <1>5, <1>6, NothingWired DEF Telling

------------------------------------------------------------------------------

LEMMA NextTells ==
  ASSUME Inv, Telling, [Next]_vars
  PROVE  Telling'
<1>1. CASE UNCHANGED vars
  <2>1. w' = w /\ srv' = srv /\ wire' = wire BY <1>1 DEF vars
  <2> QED BY <2>1 DEF Telling
<1> QED BY <1>1, AnsweredTells, LostTells, ServerTells, TimersTell, VisitorTells, BrowserTells
        DEF Next

LEMMA ShowsWhatItTells ==
  ASSUME Telling
  PROVE  ShowsItsState
<1> DEFINE k == srv.tickets
<1>1. Sound(w, k) /\ Counts(w, k) /\ Shows(w) BY DEF Telling, Good
<1>2. BadgeCurrent
  <2> SUFFICES ASSUME ~w.destroyed
               PROVE  /\ \E S \in SUBSET Outrun :
                           w.badge[2] = Cardinality(UnreadTickets(w) \cup S)
                      /\ w.expiry \cap w.aged = {} => w.badge[1] = Cardinality(UnreadPosts(w))
    BY DEF BadgeCurrent
  <2>1. /\ UnreadPosts(w) = w.expiry \ w.aged /\ w.badge[1] = Cardinality(w.expiry)
        /\ \E S \in SUBSET OutrunIn(w, k) : w.badge[2] = Cardinality(UnreadTickets(w) \cup S)
    BY <1>1 DEF Counts
  <2>2. OutrunIn(w, k) = Outrun BY DEF OutrunIn, Outrun
  <2>3. w.expiry \cap w.aged = {} => UnreadPosts(w) = w.expiry BY <2>1
  <2> QED BY <2>1, <2>2, <2>3
<1>3. ScreenCurrent
  <2> SUFFICES ASSUME w.open, ~w.destroyed
               PROVE  /\ w.section = "feedback" => w.body = FeedbackView(w)
                      /\ w.section = "tickets" => Delayed \/ Foreign \/ w.body = TicketsView(w)
                      /\ w.section = "updates" =>
                           IF w.detail.id # None THEN w.body = DetailView(w) ELSE ListCurrent
    BY DEF ScreenCurrent
  <2>1. /\ w.section = "feedback" => Formed(w)
        /\ w.section = "tickets" => Chatted(w)
        /\ w.section = "updates" => Announced(w)
    BY <1>1 DEF Shows
  <2>2. Chatted(w) => Delayed \/ Foreign \/ w.body = TicketsView(w)
    <3>1. Chosen(k, w.thread, w.view) /\ DOMAIN k \subseteq TicketIds BY <1>1 DEF Sound
    <3>2. w.thread # NoThread => w.thread.id # None BY <3>1, TalkIsThread DEF Chosen
    <3> QED BY <3>2 DEF Chatted, Delayed, Foreign, Stray
  <2>3. Announced(w) => IF w.detail.id # None THEN w.body = DetailView(w) ELSE ListCurrent
    <3> SUFFICES ASSUME Announced(w), w.detail.id = None PROVE ListCurrent BY DEF Announced
    <3>1. PICK S \in SUBSET w.aged :
            /\ w.body = MarkedIn(w, UnreadPosts(w) \cup S)
            /\ TicketsOn(w) \/ S \subseteq w.expiry
      BY DEF Announced
    <3>2. w.body = MarkedList(UnreadPosts(w) \cup S) BY <3>1 DEF MarkedIn, MarkedList
    <3>3. ~TicketsOn(w) /\ w.expiry \cap w.aged = {} => S = {} BY <3>1
    <3> QED BY <3>1, <3>2, <3>3 DEF ListCurrent
  <2> QED BY <2>1, <2>2, <2>3 DEF Formed
<1> QED BY <1>2, <1>3 DEF ShowsItsState

\* The badges count what is unread and an open panel shows what its section
\* would if it were built now, after every handler, answer, event and timer,
\* on every site and page, whatever the server has and whichever answers are
\* late; the exceptions are those ShowsItsState names (widget.ts:1051-1064,
\* 1461-1505, 1566-1575, 1671-1680, 2094-2122).
THEOREM WidgetShowsItsState == Spec => []ShowsItsState
<1>1. Init => Telling BY InitTells
<1>2. Inv /\ Telling /\ [Next]_vars => Telling' BY NextTells
<1>3. Telling => ShowsItsState BY ShowsWhatItTells
<1> QED BY <1>1, <1>2, <1>3, Invariance, PTL DEF Spec

=============================================================================
