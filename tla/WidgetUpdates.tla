---------------------------- MODULE WidgetUpdates ----------------------------
(***************************************************************************)
(* The "What's new" section of the visitor widget: the list of             *)
(* announcements, polled and kept up to date by the socket, the detail of  *)
(* one of them, and its comment box.                                       *)
(*                                                                         *)
(* feed maps the announcements known to [ver, read, commented].  A load is *)
(* a request in flight: initial and then are its caller's (does it         *)
(* announce? does scheduleNext follow?), got is the answer once the server *)
(* has computed it, << >> before.  The handlers of an announcement keep    *)
(* the object they were built with: detail.held says whether that object   *)
(* is still the one in the list.                                           *)
(***************************************************************************)
EXTENDS WidgetPanel

UpdatesFields ==
  [ seen |-> {}, loads |-> << >>, feedTimer |-> FALSE, posts |-> {}, comment |-> "ready" ]

UpdatesOn(w) == "updates" \in w.sections

\* scheduleNext(): the next poll, unless the socket brings the changes.
ScheduleNext(w) == [w EXCEPT !.feedTimer = w.socket # "open"]

\* Mutant of LoadAnnouncements: no poll follows.
LoadAnnouncementsOnce(w, initial, then) ==
  IF ~UpdatesOn(w) \/ w.destroyed THEN w
  ELSE [w EXCEPT !.loads = Append(@, [initial |-> initial, then |-> FALSE, got |-> << >>])]

\* loadAnnouncements(initial), and whether scheduleNext() follows.
LoadAnnouncements(w, initial, then) ==
  IF ~UpdatesOn(w) THEN w
  ELSE IF w.destroyed THEN (IF then THEN ScheduleNext(w) ELSE w)
  ELSE [w EXCEPT !.loads = Append(@, [initial |-> initial, then |-> then, got |-> << >>])]

LoadDone(w, i) ==
  LET u == [w EXCEPT !.loads = SubSeq(@, 1, i - 1) \o SubSeq(@, i + 1, Len(@))]
  IN IF w.loads[i].then THEN ScheduleNext(u) ELSE u

\* showToast(): only what is unread announces itself.
ShowToast(w, p) ==
  IF p \in UnreadPosts(w) THEN ShowPreviewToast(w, <<"post", p, TRUE>>) ELSE w

\* repaintUpdatesListIfVisible(): the detail of an announcement stays.
RepaintUpdates(w) ==
  IF w.open /\ w.section = "updates" /\ w.body[1] = "updates" THEN SwapView(w) ELSE w

\* The objects of the announcements S are no longer those of the list.
Detached(w, S) ==
  [w EXCEPT !.detail.held = @ /\ w.detail.id \notin S,
            !.posts = {[r EXCEPT !.held = @ /\ r.of \notin S] : r \in @},
            !.toast = IF @ # Nothing /\ @[1] = "post" /\ @[2] \in S
                      THEN <<"post", @[2], FALSE>> ELSE @]

\* The answer of a load replaces the list; an unread announcement that was
\* not on the previous list is announced, except on the first load.
ApplyFeed(w, initial, next) ==
  LET fresh == {p \in DOMAIN next : ~next[p].read /\ p \notin w.seen}
      u == RepaintUpdates(SyncBadges(
             [Detached(w, Posts) EXCEPT !.feed = next, !.seen = DOMAIN next]))
      recent == fresh \cap UnreadPosts(u)
  IN IF initial \/ recent = {} THEN u
     ELSE ShowToast(u, CHOOSE p \in recent : \A q \in recent : p >= q)

FeedAnswered(w, i) ==
  LET load == w.loads[i]
  IN LoadDone(IF w.destroyed THEN w ELSE ApplyFeed(w, load.initial, load.got[1]), i)

\* A network failure, a refusal (429) or an unreadable answer changes nothing.
FeedFailed(w, i) == LoadDone(w, i)

------------------------------------------------------------------------------
(* handleWidgetSocketEvent, announcements                                  *)

\* announcement.deleted, announcement.archived
PostRemoved(w, p) ==
  RepaintUpdates(SyncBadges(
    [Detached(w, {p}) EXCEPT !.feed = Restrict(@, DOMAIN @ \ {p}), !.seen = @ \ {p}]))

\* announcement.published, announcement.updated: what the visitor has read
\* stays read; only a first publication announces itself.
PostChanged(w, type, p, ver) ==
  LET read   == p \in DOMAIN w.feed /\ w.feed[p].read
      merged == [ver |-> ver, read |-> read, commented |-> FALSE]
      u == RepaintUpdates(SyncBadges(
             [Detached(w, {p}) EXCEPT !.seen = @ \cup {p},
                !.feed = [q \in DOMAIN @ \cup {p} |-> IF q = p THEN merged ELSE @[q]]]))
  IN IF type = "published" /\ p \notin w.seen /\ ~u.open THEN ShowToast(u, p) ELSE u

------------------------------------------------------------------------------
(* The visitor                                                             *)

Post(p, what, held) == [of |-> p, what |-> what, held |-> held]

\* openDetail(a): a first opening marks the announcement read, here and, by a
\* request nobody waits for, on the server.
OpenDetail(w, p, held) ==
  LET first == ~held \/ ~w.feed[p].read
      u == IF held THEN [w EXCEPT !.feed[p].read = TRUE] ELSE w
      r == IF first THEN SyncBadges([u EXCEPT !.posts = @ \cup {Post(p, "read", held)}]) ELSE u
      form == IF held /\ u.feed[p].commented THEN "done" ELSE "ready"
  IN SwapView([r EXCEPT !.detail = [id |-> p, held |-> held], !.comment = form])

\* The comment box is disabled while its comment is on the way.
SendComment(w) ==
  [w EXCEPT !.comment = "sending",
            !.posts   = @ \cup {Post(w.detail.id, "comment", w.detail.held)}]

\* The comment r was stored, or refused: the one-comment rule, the limit, a failure.
CommentAnswered(w, r, stored) ==
  LET here == w.detail.id = r.of /\ w.comment = "sending"
      u == [w EXCEPT !.posts   = @ \ {r},
                     !.comment = IF ~here THEN @ ELSE IF stored THEN "done" ELSE "ready"]
  IN IF stored /\ r.held THEN [u EXCEPT !.feed[r.of].commented = TRUE] ELSE u
=============================================================================
