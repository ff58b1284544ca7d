------------------------------- MODULE Widget -------------------------------
(***************************************************************************)
(* The visitor widget mounted on a page: WidgetPanel, WidgetUpdates and    *)
(* WidgetTickets composed with the socket, the visitor, the browser and    *)
(* the server's tables, from mountUnifiedWidget to destroy().              *)
(***************************************************************************)
EXTENDS WidgetUpdates, WidgetTickets, SequencesExt

CONSTANTS Scenarios,  \* the sites and pages the widget may be mounted on, see Scenario
          MaxLoads    \* bound: loads of the announcements in flight

\* What happens to a page only so often: changes made on the server, replies,
\* tickets and comments the visitor sends, announcements that age, hidden tabs, sockets
\* that close, requests that fail.
Events == {"change", "reply", "create", "comment", "age", "hide", "drop", "lose",
           "drag", "resize", "icon"}

\* The authors of the messages of a ticket, which begins with one.
Written(q) == q \in Seq({"visitor", "staff"}) /\ q # << >>

\* The sections the site enables and the first of them, the announcements and
\* tickets there are when the page loads, whether web sockets are let through,
\* and the bounds.
Scenario(s) ==
  /\ s.sections \in SUBSET {"updates", "tickets", "feedback"} \ {{}} /\ s.first \in s.sections
  /\ s.posts \subseteq Posts /\ DOMAIN s.tickets \subseteq TicketIds
  /\ \A t \in DOMAIN s.tickets : Written(s.tickets[t])
  /\ s.sockets \in BOOLEAN /\ DOMAIN s.bounds = Events

ASSUME WidgetAssumption == (\A s \in Scenarios : Scenario(s)) /\ MaxLoads \in Nat \ {0}

VARIABLES w,      \* the widget
          srv,    \* the server: posts, tickets (authors and status), what may happen yet
          wire    \* events sent on the socket and not yet delivered

vars == << w, srv, wire >>

------------------------------------------------------------------------------
(* The server, as the widget sees it                                       *)

Summary(tk) == [status |-> tk.status, count |-> Len(tk.authors), author |-> Last(tk.authors)]

Conversation(t) ==
  [id |-> t, sum |-> Summary(srv.tickets[t]),
   msgs |-> [n \in 1 .. Len(srv.tickets[t].authors) |-> <<t, n>>]]

Summaries == [t \in DOMAIN srv.tickets |-> Summary(srv.tickets[t])]

\* The hub reaches a visitor whose socket is open, on the channels it asked
\* for: those of the sections of the site.
Publish(channel, event) ==
  wire' = IF w.socket = "open" /\ channel \in w.sections THEN Append(wire, event) ELSE wire

\* One of the bounded events happens.
May(event)      == srv.left[event] > 0
Spent(s, event) == [s EXCEPT !.left[event] = @ - 1]

PublishPost(p) ==
  /\ May("change") /\ UpdatesOn(w) /\ p \notin DOMAIN srv.posts
  /\ srv' = Spent([srv EXCEPT !.posts = [q \in DOMAIN @ \cup {p} |->
               IF q = p THEN [ver |-> 1, read |-> FALSE, commented |-> FALSE] ELSE @[q]]], "change")
  /\ Publish("updates", [type |-> "published", of |-> p, ver |-> 1])
  /\ UNCHANGED w

EditPost(p) ==
  /\ May("change") /\ UpdatesOn(w) /\ p \in DOMAIN srv.posts
  /\ srv' = Spent([srv EXCEPT !.posts[p].ver = @ + 1], "change")
  /\ Publish("updates", [type |-> "updated", of |-> p, ver |-> srv.posts[p].ver + 1])
  /\ UNCHANGED w

RemovePost(p) ==
  /\ May("change") /\ UpdatesOn(w) /\ p \in DOMAIN srv.posts
  /\ srv' = Spent([srv EXCEPT !.posts = Restrict(@, DOMAIN @ \ {p})], "change")
  /\ Publish("updates", [type |-> "removed", of |-> p, ver |-> 0])
  /\ UNCHANGED w

TicketNews(type, t, tk) == [type |-> type, of |-> t, sum |-> Summary(tk)]

StaffReplies(t) ==
  /\ May("change") /\ t \in DOMAIN srv.tickets
  /\ LET tk == [srv.tickets[t] EXCEPT !.authors = Append(@, "staff")]
     IN /\ srv' = Spent([srv EXCEPT !.tickets[t] = tk], "change")
        /\ Publish("tickets", TicketNews("message", t, tk))
  /\ UNCHANGED w

StaffCloses(t) ==
  /\ May("change") /\ t \in DOMAIN srv.tickets
  /\ srv.tickets[t].status = "open"
  /\ LET tk == [srv.tickets[t] EXCEPT !.status = "closed"]
     IN /\ srv' = Spent([srv EXCEPT !.tickets[t] = tk], "change")
        /\ Publish("tickets", TicketNews("updated", t, tk))
  /\ UNCHANGED w

------------------------------------------------------------------------------
(* Requests: the server computes an answer, later it arrives or is lost.   *)

ServeFeed(i) ==
  /\ i \in DOMAIN w.loads /\ w.loads[i].got = << >>
  /\ w' = [w EXCEPT !.loads[i].got = <<srv.posts>>]
  /\ UNCHANGED << srv, wire >>

FeedArrives(i) ==
  /\ i \in DOMAIN w.loads /\ w.loads[i].got # << >>
  /\ w' = FeedAnswered(w, i)
  /\ UNCHANGED << srv, wire >>

FeedLost(i) ==
  /\ May("lose") /\ i \in DOMAIN w.loads /\ w.loads[i].got = << >>
  /\ w' = FeedFailed(w, i)
  /\ srv' = Spent(srv, "lose")
  /\ UNCHANGED wire

PostStored(r) ==
  /\ r \in w.posts
  /\ \E kept \in BOOLEAN :
       LET ok == kept /\ r.of \in DOMAIN srv.posts
                      /\ (r.what = "comment" => ~srv.posts[r.of].commented)
       IN /\ srv' = IF ~ok THEN srv
                    ELSE IF r.what = "read" THEN [srv EXCEPT !.posts[r.of].read = TRUE]
                    ELSE [srv EXCEPT !.posts[r.of].commented = TRUE]
          /\ w' = IF r.what = "read" THEN [w EXCEPT !.posts = @ \ {r}]
                  ELSE CommentAnswered(w, r, ok)
  /\ UNCHANGED wire

ServeTickets ==
  /\ w.listCall = Asked
  /\ w' = [w EXCEPT !.listCall = Replied(Summaries)]
  /\ UNCHANGED << srv, wire >>

TicketsArrive ==
  /\ w.listCall.got # << >>
  /\ w' = TicketsLoaded(w)
  /\ UNCHANGED << srv, wire >>

TicketsLost ==
  /\ May("lose") /\ w.listCall = Asked
  /\ w' \in {TicketsRefused(w), TicketsFailed(w)}
  /\ srv' = Spent(srv, "lose")
  /\ UNCHANGED wire

ServeThread ==
  /\ w.threadCall # NoCall /\ w.threadCall.got = << >>
  /\ w.threadCall.id \in DOMAIN srv.tickets
  /\ w' = [w EXCEPT !.threadCall.got = <<Conversation(w.threadCall.id)>>]
  /\ UNCHANGED << srv, wire >>

ThreadArrives ==
  /\ w.threadCall # NoCall /\ w.threadCall.got # << >>
  /\ w' = ThreadLoaded(w)
  /\ UNCHANGED << srv, wire >>

ThreadLost ==
  /\ May("lose") /\ w.threadCall # NoCall /\ w.threadCall.got = << >>
  /\ w' \in {ThreadFailed(w, FALSE), ThreadFailed(w, TRUE)}
  /\ srv' = Spent(srv, "lose")
  /\ UNCHANGED wire

ServePreview(t) ==
  /\ w.asked[t] = Asked
  /\ w' = [w EXCEPT !.asked[t] = Replied(Conversation(t))]
  /\ UNCHANGED << srv, wire >>

PreviewArrives(t) ==
  /\ w.asked[t].got # << >>
  /\ w' = NotificationLoaded(w, t)
  /\ UNCHANGED << srv, wire >>

PreviewLost(t) ==
  /\ May("lose") /\ w.asked[t] = Asked
  /\ w' = NotificationFailed(w, t)
  /\ srv' = Spent(srv, "lose")
  /\ UNCHANGED wire

\* The server stores a reply unless the ticket is closed.
StoreReply(r) ==
  /\ r \in w.replies /\ r.got = << >> /\ srv.tickets[r.of].status = "open"
  /\ LET tk == [srv.tickets[r.of] EXCEPT !.authors = Append(@, "visitor")]
         th == [id |-> r.of, sum |-> Summary(tk),
                msgs |-> [n \in 1 .. Len(tk.authors) |-> <<r.of, n>>]]
     IN /\ srv' = [srv EXCEPT !.tickets[r.of] = tk]
        /\ Publish("tickets", TicketNews("message", r.of, tk))
        /\ w' = [w EXCEPT !.replies = (@ \ {r}) \cup {[r EXCEPT !.got = <<th>>]}]

ReplyArrives(r) ==
  /\ r \in w.replies /\ r.got # << >>
  /\ w' = ReplyStored(w, r)
  /\ UNCHANGED << srv, wire >>

ReplyLost(r) ==
  /\ May("lose") /\ r \in w.replies
  /\ w' = ReplyFailed(w, r)
  /\ srv' = Spent(srv, "lose")
  /\ UNCHANGED wire

CreateTicket ==
  /\ w.creating = Asked
  /\ \E t \in TicketIds \ DOMAIN srv.tickets :
       LET tk == [status |-> "open", authors |-> <<"visitor">>]
       IN /\ srv' = [srv EXCEPT !.tickets = [q \in DOMAIN @ \cup {t} |->
                                                IF q = t THEN tk ELSE @[q]]]
          /\ Publish("tickets", TicketNews("created", t, tk))
          /\ w' = [w EXCEPT !.creating = Replied(<<t, Summary(tk)>>)]

CreatedArrives ==
  /\ w.creating.got # << >>
  /\ w' = TicketCreated(w, w.creating.got[1][1], w.creating.got[1][2])
  /\ UNCHANGED << srv, wire >>

CreateLost ==
  /\ May("lose") /\ w.creating # Unasked
  /\ w' = TicketRefused(w)
  /\ srv' = Spent(srv, "lose")
  /\ UNCHANGED wire

------------------------------------------------------------------------------
(* The socket                                                              *)

\* scheduleWidgetSocketRetry()
ScheduleRetry(s) == IF s.destroyed \/ ~s.visible THEN s ELSE [s EXCEPT !.retryTimer = TRUE]

\* connectWidgetSocket()
Connect(s) ==
  IF s.destroyed \/ ~s.sockets \/ s.sections = {"feedback"} \/ s.socket # "none" THEN s
  ELSE [s EXCEPT !.socket = "connecting"]

\* The socket opens: polling stops, the lists are read once more.
SocketOpens ==
  /\ w.socket = "connecting" /\ Len(w.loads) < MaxLoads
  /\ LET s == [w EXCEPT !.socket = "open", !.retryTimer = FALSE, !.feedTimer = FALSE,
                        !.poll = FALSE]
     IN w' = LoadTickets(LoadAnnouncements(s, TRUE, FALSE))
  /\ UNCHANGED << srv, wire >>

\* The close handler: read what was missed, poll, and try again.
Disconnected(s) ==
  LET n == [s EXCEPT !.socket = "none"]
      l == IF n.visible THEN LoadAnnouncements(n, FALSE, FALSE) ELSE n
      k == IF n.visible /\ n.history THEN LoadTickets(l) ELSE l
  IN ScheduleRetry(SchedulePoll(ScheduleNext(k)))

SocketCloses ==
  /\ May("drop") /\ w.socket # "none" /\ Len(w.loads) < MaxLoads
  /\ w' = Disconnected(w)
  /\ wire' = << >>
  /\ srv' = Spent(srv, "drop")

Deliver ==
  /\ w.socket = "open" /\ wire # << >>
  /\ LET e == Head(wire)
     IN w' = CASE e.type = "removed" -> PostRemoved(w, e.of)
               [] e.type \in {"published", "updated"} /\ "ver" \in DOMAIN e
                    -> PostChanged(w, e.type, e.of, e.ver)
               [] OTHER -> TicketEvent(w, e.type, e.of, e.sum)
  /\ wire' = Tail(wire)
  /\ UNCHANGED srv

RetryTimer ==
  /\ w.retryTimer
  /\ w' = Connect([w EXCEPT !.retryTimer = FALSE])
  /\ UNCHANGED << srv, wire >>

------------------------------------------------------------------------------
(* Timers and the browser                                                  *)

FeedTimer ==
  /\ w.feedTimer /\ Len(w.loads) < MaxLoads
  /\ LET s == [w EXCEPT !.feedTimer = FALSE]
     IN w' = IF s.destroyed THEN s
             ELSE IF s.visible THEN LoadAnnouncements(s, FALSE, TRUE) ELSE ScheduleNext(s)
  /\ UNCHANGED << srv, wire >>

PollTickets ==
  /\ w.poll
  /\ w' = PollTimer(w)
  /\ UNCHANGED << srv, wire >>

Loader ==
  /\ w.loadingTimer # None
  /\ w' = ShowLoader(w)
  /\ UNCHANGED << srv, wire >>

\* Three days pass since announcement p was published.
Ages(p) ==
  /\ May("age") /\ p \in DOMAIN srv.posts \ w.aged
  /\ w' = [w EXCEPT !.aged = @ \cup {p}]
  /\ srv' = Spent(srv, "age")
  /\ UNCHANGED wire

\* Mutant of Expired: only the badges are brought up to date.
ExpiredBadges(s) == IF s.destroyed THEN s ELSE SyncBadges(s)

\* The timer of syncBadges fires.
Expired(s) == IF s.destroyed THEN s ELSE RepaintUpdates(SyncBadges(s))

Expire ==
  /\ w.expiry \cap w.aged # {}
  /\ w' = Expired([w EXCEPT !.expiry = {}])
  /\ UNCHANGED << srv, wire >>

FadeEnds ==
  /\ w.fading
  /\ w' = FadeEnd(w)
  /\ UNCHANGED << srv, wire >>

Hide ==
  /\ May("hide") /\ w.visible /\ ~w.destroyed
  /\ w' = [w EXCEPT !.visible = FALSE]
  /\ srv' = Spent(srv, "hide")
  /\ UNCHANGED wire

\* onVisibility
BecomeVisible(s, late) ==
  LET u == Connect(RepaintUpdates(SyncBadges([s EXCEPT !.visible = TRUE])))
      l == LoadAnnouncements(u, FALSE, FALSE)
  IN IF u.socket = "open" THEN u
     ELSE IF u.history /\ (late \/ ~u.fetched) THEN LoadTickets(l) ELSE l

Show ==
  /\ ~w.visible /\ ~w.destroyed /\ Len(w.loads) < MaxLoads
  /\ \E late \in BOOLEAN : w' = BecomeVisible(w, late)
  /\ UNCHANGED << srv, wire >>

------------------------------------------------------------------------------
(* The visitor                                                             *)

\* showSection(): late says whether the last list of tickets is 30s old.
ShowSection(s, next, late) ==
  LET u == SwapView([s EXCEPT !.section = next, !.detail = [id |-> None, held |-> FALSE]])
  IN IF next = "tickets" /\ (late \/ ~u.fetched) THEN LoadTickets(u) ELSE u

\* Mutant of OpenPanel: the toast stays.
OpenPanelOver(s, target, late) == ShowSection([s EXCEPT !.open = TRUE], target, late)

\* openPanel()
OpenPanel(s, target, late) == ShowSection([HideToast(s) EXCEPT !.open = TRUE], target, late)

\* The click handler of the launcher; the keyboard clicks too.
LauncherClicked(s, late) ==
  IF s.suppress THEN [s EXCEPT !.suppress = FALSE]
  ELSE IF s.open THEN ClosePanel(s, TRUE) ELSE OpenPanel(s, s.section, late)

Click ==
  /\ ~w.destroyed /\ ~w.press.down
  /\ \E late \in BOOLEAN : w' = LauncherClicked([w EXCEPT !.click = "none"], late)
  /\ UNCHANGED << srv, wire >>

\* The close button and the Escape key.
Close ==
  /\ w.open /\ ~w.destroyed
  /\ w' = ClosePanel(w, TRUE)
  /\ UNCHANGED << srv, wire >>

PressLauncher ==
  /\ May("drag") /\ ~w.destroyed /\ ~w.press.down /\ w.click = "none"
  /\ w' = PointerDown(w)
  /\ srv' = Spent(srv, "drag")
  /\ UNCHANGED wire

MoveLauncher ==
  /\ w.press.down /\ ~w.destroyed
  /\ \E dx \in {-w.vp, -THRESHOLD, 0, THRESHOLD, w.vp} : w' = PointerMove(w, dx)
  /\ UNCHANGED << srv, wire >>

Frame ==
  /\ w.frame
  /\ w' = DragFrame(w)
  /\ UNCHANGED << srv, wire >>

\* A release is followed by a click, a canceled press is not.
ReleaseLauncher ==
  /\ w.press.down /\ ~w.destroyed
  /\ \E throw \in {-THROW, 0, THROW} :
       w' = EndPress(w, throw, IF w.press.dragging THEN "drag" ELSE "press")
  /\ UNCHANGED << srv, wire >>

CancelPress ==
  /\ w.press.down /\ ~w.destroyed
  /\ w' = EndPress(w, 0, "none")
  /\ UNCHANGED << srv, wire >>

\* 400ms after a drag: the click of its release has come by then.
SuppressTimer ==
  /\ w.suppress /\ w.click = "none"
  /\ w' = [w EXCEPT !.suppress = FALSE]
  /\ UNCHANGED << srv, wire >>

IconError ==
  /\ May("icon") /\ w.icon < 3 /\ ~w.destroyed
  /\ w' = IconFails(w)
  /\ srv' = Spent(srv, "icon")
  /\ UNCHANGED wire

Resize ==
  /\ May("resize")
  /\ \E vp \in Viewports : w' = Resized(w, vp)
  /\ srv' = Spent(srv, "resize")
  /\ UNCHANGED wire

ChooseTab(next) ==
  /\ w.open /\ ~w.destroyed /\ Cardinality(w.sections) > 1 /\ next \in w.sections
  /\ \E late \in BOOLEAN : w' = ShowSection(w, next, late)
  /\ UNCHANGED << srv, wire >>

DismissToast ==
  /\ w.toast # Nothing /\ ~w.destroyed
  /\ w' = HideToast(w)
  /\ UNCHANGED << srv, wire >>

OpenToast ==
  /\ w.toast # Nothing /\ ~w.fading /\ ~w.destroyed
  /\ \E late \in BOOLEAN :
       w' = IF w.toast[1] = "post"
            THEN OpenDetail(OpenPanel(w, "updates", late), w.toast[2], w.toast[3])
            ELSE OpenThread(OpenPanel(w, "tickets", late), w.toast[2])
  /\ UNCHANGED << srv, wire >>

ReadPost(p) ==
  /\ w.open /\ w.section = "updates" /\ w.body[1] = "updates" /\ ~w.destroyed
  /\ p \in DOMAIN w.feed
  /\ w' = OpenDetail(w, p, TRUE)
  /\ UNCHANGED << srv, wire >>

BackToUpdates ==
  /\ w.open /\ w.body[1] = "detail" /\ ~w.destroyed
  /\ w' = ShowSection(w, "updates", FALSE)
  /\ UNCHANGED << srv, wire >>

Comment ==
  /\ w.open /\ w.body[1] = "detail" /\ w.comment = "ready" /\ ~w.destroyed
  /\ May("comment")
  /\ w' = SendComment(w)
  /\ srv' = Spent(srv, "comment")
  /\ UNCHANGED wire

OnTickets(kind) == w.open /\ w.section = "tickets" /\ w.body[1] = kind /\ ~w.destroyed

ReadTicket(t) ==
  /\ OnTickets("list") /\ t \in DOMAIN w.tickets
  /\ w' = OpenThread(w, t)
  /\ UNCHANGED << srv, wire >>

Back ==
  /\ OnTickets("thread") \/ OnTickets("loading")
  /\ w' = BackToTickets(w)
  /\ UNCHANGED << srv, wire >>

\* The Retry button of a conversation that could not be loaded.
RetryThread ==
  /\ OnTickets("thread") \/ OnTickets("loading")
  /\ w.body[4] # ""
  /\ w' = LoadThread(w, w.body[2], TRUE)
  /\ UNCHANGED << srv, wire >>

Type ==
  /\ May("reply") /\ ComposerOffered(w) /\ ~w.busy /\ ~w.destroyed
  /\ \E text \in 1 .. 2 : text # w.body[6] /\ w' = TypeReply(w, text)
  /\ UNCHANGED << srv, wire >>

Reply ==
  /\ May("reply") /\ ComposerOffered(w) /\ ~w.busy /\ ~w.destroyed /\ w.body[6] # 0
  /\ w' = SendReply(w)
  /\ srv' = Spent(srv, "reply")
  /\ UNCHANGED wire

NewTicket ==
  /\ OnTickets("list")
  /\ w' = StartTicket(w)
  /\ UNCHANGED << srv, wire >>

LeaveNewTicket ==
  /\ OnTickets("new")
  /\ w' = BackFromNew(w)
  /\ UNCHANGED << srv, wire >>

WriteTicket ==
  /\ May("create") /\ OnTickets("new") /\ ~w.newDraft
  /\ w' = [w EXCEPT !.newDraft = TRUE]
  /\ UNCHANGED << srv, wire >>

SubmitTicket ==
  /\ May("create") /\ OnTickets("new") /\ w.newDraft /\ w.creating = Unasked
  /\ w' = [w EXCEPT !.creating = Asked]
  /\ srv' = Spent(srv, "create")
  /\ UNCHANGED wire

SendFeedback ==
  /\ FormShown(w) /\ ~w.destroyed
  /\ w' = SubmitFeedback(w)
  /\ UNCHANGED << srv, wire >>

ThanksEnd ==
  /\ w.closing
  /\ w' = IF w.open /\ ~w.destroyed THEN ClosePanel(w, TRUE) ELSE [w EXCEPT !.closing = FALSE]
  /\ UNCHANGED << srv, wire >>

\* Mutant of Destroyed: the poll of the tickets goes on.
DestroyedPolling(s) == [s EXCEPT !.destroyed = TRUE, !.socket = "none", !.threadCall = NoCall]

\* The destroy() of the handle: the widget leaves the page.
Destroyed(s) ==
  [s EXCEPT !.destroyed = TRUE, !.feedTimer = FALSE, !.expiry = {}, !.poll = FALSE,
            !.loadingTimer = None, !.threadCall = NoCall, !.closing = FALSE,
            !.retryTimer = FALSE, !.socket = "none"]

Destroy ==
  /\ ~w.destroyed
  /\ w' = Destroyed(w)
  /\ wire' = << >>
  /\ UNCHANGED srv

------------------------------------------------------------------------------

SocketFields == [ sockets |-> TRUE, socket |-> "none", retryTimer |-> FALSE ]

\* A record with the fields of both.
Join(f, g) == [x \in DOMAIN f \cup DOMAIN g |-> IF x \in DOMAIN f THEN f[x] ELSE g[x]]

\* mountUnifiedWidget, to its end: the socket is tried, the lists are read.
Mount(s) ==
  LET sections == Join(UpdatesFields, Join(TicketsFields, SocketFields))
      m == [Join(Mounted(s.sections), Join(LauncherFields, sections))
              EXCEPT !.section = s.first, !.history = s.tickets # Nothing,
                     !.sockets = s.sockets]
  IN LoadTickets(LoadAnnouncements(Connect(m), TRUE, TRUE))

Init ==
  \E s \in Scenarios :
    /\ srv = [ posts   |-> [p \in s.posts |-> [ver |-> 1, read |-> FALSE, commented |-> FALSE]],
               tickets |-> [t \in DOMAIN s.tickets |->
                              [status |-> "open", authors |-> s.tickets[t]]],
               left    |-> s.bounds ]
    /\ w = Mount(s)
    /\ wire = << >>

Answered ==
  \/ \E i \in 1 .. MaxLoads : ServeFeed(i) \/ FeedArrives(i)
  \/ ServeTickets \/ TicketsArrive \/ ServeThread \/ ThreadArrives
  \/ \E t \in TicketIds : ServePreview(t) \/ PreviewArrives(t)
  \/ \E r \in w.replies : StoreReply(r) \/ ReplyArrives(r)
  \/ CreateTicket \/ CreatedArrives
  \/ \E r \in w.posts : PostStored(r)

Lost ==
  \/ \E i \in 1 .. MaxLoads : FeedLost(i)
  \/ TicketsLost \/ ThreadLost \/ CreateLost
  \/ \E t \in TicketIds : PreviewLost(t)
  \/ \E r \in w.replies : ReplyLost(r)

Server ==
  \/ \E p \in Posts : PublishPost(p) \/ EditPost(p) \/ RemovePost(p)
  \/ \E t \in TicketIds : StaffReplies(t) \/ StaffCloses(t)

Timers == \/ FeedTimer \/ PollTickets \/ Loader \/ Expire \/ FadeEnds \/ RetryTimer
          \/ ThanksEnd \/ Frame \/ SuppressTimer

Visitor ==
  \/ PressLauncher \/ MoveLauncher \/ ReleaseLauncher \/ CancelPress
  \/ Click \/ Close \/ DismissToast \/ OpenToast \/ BackToUpdates \/ Comment
  \/ \E next \in w.sections : ChooseTab(next)
  \/ \E p \in Posts : ReadPost(p)
  \/ \E t \in TicketIds : ReadTicket(t)
  \/ Back \/ RetryThread \/ Type \/ Reply
  \/ NewTicket \/ LeaveNewTicket \/ WriteTicket \/ SubmitTicket \/ SendFeedback

Browser == \/ SocketOpens \/ SocketCloses \/ Deliver \/ Hide \/ Show \/ Destroy
           \/ IconError \/ Resize
           \/ \E p \in Posts : Ages(p)

Next == Answered \/ Lost \/ Server \/ Timers \/ Visitor \/ Browser

Spec == Init /\ [][Next]_vars

\* Requests are answered and timers fire.
Fairness ==
  /\ \A i \in 1 .. MaxLoads : WF_vars(ServeFeed(i)) /\ WF_vars(FeedArrives(i))
  /\ WF_vars(ServeThread) /\ WF_vars(ThreadArrives)
  /\ WF_vars(FeedTimer)

FairSpec == Spec /\ Fairness

------------------------------------------------------------------------------
(* Properties                                                              *)

\* What the server says of a ticket that was just created.
NewSummary == Summary([status |-> "open", authors |-> <<"visitor">>])

\* The tickets whose first summary is in the list although the server has
\* more: only for these may an answer have replaced a newer summary, which is
\* not followed by syncBadges (widget.ts:1671-1680).
Outrun == {t \in DOMAIN w.tickets : /\ w.tickets[t] = NewSummary
                                    /\ Len(srv.tickets[t].authors) > 1}

\* The badges count what is unread at this moment, whichever of the poll, the
\* socket, a preview, an opened conversation, another answer or three days
\* gone by changed it last; only the timer of syncBadges may still be to fire,
\* and a ticket that was outrun be counted.
BadgeCurrent ==
  ~w.destroyed =>
    /\ \E S \in SUBSET Outrun : w.badge[2] = Cardinality(UnreadTickets(w) \cup S)
    /\ w.expiry \cap w.aged = {} => w.badge[1] = Cardinality(UnreadPosts(w))

\* The conversation is not that of the ticket the visitor chose: the answer to
\* a reply puts its own in the place of any other (widget.ts:1566-1575).
Foreign ==
  /\ w.view.kind = "thread" /\ w.thread.id # None
  /\ \E i \in DOMAIN w.thread.msgs : w.thread.msgs[i][1] # w.view.id

\* The view before stays until the conversation or its loader comes.
Delayed == w.view.kind = "thread" /\ w.loadingTimer = w.view.id

\* The list of announcements, those of U marked as unread.
MarkedList(U) == <<"updates", None, {<<p, w.feed[p].ver, p \in U>> : p \in DOMAIN w.feed}>>

\* Announcements whose three days are over may still be marked: their timer is
\* due, or the answer or event of a ticket has cleared it (widget.ts:1051-1064).
ListCurrent ==
  \E S \in SUBSET w.aged :
    /\ w.body = MarkedList(UnreadPosts(w) \cup S)
    /\ ~TicketsOn(w) /\ w.expiry \cap w.aged = {} => S = {}

\* The body of an open panel is what its section would show if it were built
\* now: no handler changes the state of a view on the screen and forgets to
\* repaint it.  A view that is delayed and a foreign conversation are the
\* exceptions.
ScreenCurrent ==
  w.open /\ ~w.destroyed =>
    /\ w.section = "feedback" => w.body = FeedbackView(w)
    /\ w.section = "tickets" => Delayed \/ Foreign \/ w.body = TicketsView(w)
    /\ w.section = "updates" =>
         IF w.detail.id # None THEN w.body = DetailView(w) ELSE ListCurrent

\* What the widget shows is what its state says, whichever handler, answer or
\* timer ran last: the badges of the launcher and the body of the panel.
ShowsItsState == BadgeCurrent /\ ScreenCurrent

\* A preview never covers an open panel: openPanel hides it, and the answers
\* and events that come later do not bring one up.
ToastYields == w.open => w.toast = Nothing \/ w.fading

\* The announcements always have a source: the socket, the poll timer, or a
\* load whose end sets the timer.  No loss, refusal, disconnection or hidden
\* tab leaves a page that never hears of an announcement again.
FeedSource ==
  ~w.destroyed /\ UpdatesOn(w) =>
    w.socket = "open" \/ w.feedTimer \/ \E i \in DOMAIN w.loads : w.loads[i].then

\* Once it was dragged, the launcher is wholly on the screen whenever it is
\* not being dragged, whatever its badges, its icon or the window did to the
\* room it has since.
LauncherOnScreen ==
  w.at # Unplaced /\ ~w.press.dragging /\ ~w.destroyed =>
    w.at \in EDGE .. EDGE + Room(w)

\* A widget that left the page sends nothing any more: answers and timers that
\* were on their way when destroy() was called start no request.
SilentAfterDestroy ==
  [][w.destroyed =>
       /\ Len(w'.loads) <= Len(w.loads)
       /\ w'.listCall.sent => w.listCall.sent
       /\ w'.threadCall = NoCall /\ w'.socket = "none" /\ ~w'.poll /\ ~w'.retryTimer
       /\ \A t \in TicketIds : w'.asked[t].sent => w.asked[t].sent]_vars

\* A conversation on the screen does not load for ever: it arrives, its
\* attempts are used up, or the visitor leaves it.
LoaderEnds == \A t \in TicketIds : ~<>[](w.loading /\ w.view.id = t /\ ~w.destroyed)

\* Where web sockets are not let through, the list of a page that stays
\* visible agrees with the server again and again.
FeedFresh ==
  <>[](~w.sockets /\ UpdatesOn(w) /\ w.visible /\ ~w.destroyed)
    => []<>(\A p \in Posts : /\ p \in DOMAIN w.feed <=> p \in DOMAIN srv.posts
                            /\ p \in DOMAIN w.feed => w.feed[p].ver = srv.posts[p].ver)
=============================================================================
