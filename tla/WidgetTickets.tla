---------------------------- MODULE WidgetTickets ----------------------------
(***************************************************************************)
(* The "Support" section of the visitor widget: the list of the visitor's  *)
(* tickets, polled and kept up to date by the socket, one conversation     *)
(* with its reply box, the form of a new ticket, and the preview of a      *)
(* reply of the staff.                                                     *)
(*                                                                         *)
(* A ticket is known by its summary, [status, count, author]: how many     *)
(* messages it has and whose the last one is.  A thread adds the messages  *)
(* themselves, each named << ticket, number >>.  Requests in flight carry  *)
(* what the server answers once it has computed it.                        *)
(***************************************************************************)
EXTENDS WidgetPanel

CONSTANT ATTEMPTS   \* requests of one load of a conversation

ASSUME TicketsAssumption == ATTEMPTS \in Nat \ {0}

NoCall  == [id |-> None, attempt |-> 0, got |-> << >>]

\* A request: not sent, sent, answered by the server with x but not yet arrived.
Unasked    == [sent |-> FALSE, got |-> << >>]
Asked      == [sent |-> TRUE, got |-> << >>]
Replied(x) == [sent |-> TRUE, got |-> <<x>>]

TicketsFields ==
  [ fetched |-> FALSE, listCall |-> Unasked, live |-> FALSE, retry |-> FALSE,
    poll |-> FALSE, threadCall |-> NoCall, loading |-> FALSE, loadingTimer |-> None,
    cache |-> [t \in TicketIds |-> NoThread], toasted |-> [t \in TicketIds |-> 0],
    asked |-> [t \in TicketIds |-> Unasked], history |-> FALSE,
    newDraft |-> FALSE, creating |-> Unasked ]

TicketsOn(w) == "tickets" \in w.sections

IsLive(sum) == sum.status \notin {"closed", "archived"}

Viewing(w, t) == w.view.kind = "thread" /\ w.view.id = t
OnScreen(w, t) == w.open /\ w.section = "tickets" /\ Viewing(w, t)

\* repaintTicketView()
RepaintTickets(w) ==
  IF w.destroyed \/ ~w.open \/ w.section # "tickets" THEN w ELSE SwapView(w)

\* markTicketRead(): the marker only grows; it is kept in localStorage.
MarkTicketRead(w, t, sum) ==
  IF sum.count <= w.markers[t] THEN w
  ELSE SyncBadges([w EXCEPT !.markers[t] = sum.count])

\* rememberTicketThread()
RememberThread(w, th) == [w EXCEPT !.thread = th, !.cache[th.id] = th]

\* scheduleTicketPoll(): only while something can change and no socket tells.
SchedulePoll(w) ==
  [w EXCEPT !.poll = /\ w.socket # "open" /\ ~w.destroyed
                     /\ w.live \/ w.retry]

------------------------------------------------------------------------------
(* Loading a conversation                                                  *)

\* Mutant of LoadThread: a poll restarts the cycle of retries.
LoadThreadAlways(w, t, render) ==
  IF w.destroyed THEN w
  ELSE LET u == [w EXCEPT !.threadCall = [id |-> t, attempt |-> 1, got |-> << >>],
                          !.loading = TRUE, !.error = ""]
       IN IF render THEN RepaintTickets(u) ELSE u

\* loadTicketThread(): one load at a time, the load before is aborted; a poll
\* leaves a load of the same conversation alone.
LoadThread(w, t, render) ==
  IF w.destroyed \/ (~render /\ w.threadCall.id = t) THEN w
  ELSE LET u == [w EXCEPT !.threadCall = [id |-> t, attempt |-> 1, got |-> << >>],
                          !.loading = TRUE, !.error = ""]
       IN IF render THEN RepaintTickets(u) ELSE u

\* A conversation arrives.
ThreadLoaded(w) ==
  LET th == w.threadCall.got[1]
      u == RememberThread([w EXCEPT !.threadCall = NoCall, !.loadingTimer = None,
                                    !.loading = FALSE, !.error = ""], th)
      r == IF OnScreen(u, th.id) THEN MarkTicketRead(u, th.id, th.sum) ELSE u
  IN IF Viewing(r, th.id) THEN RepaintTickets(r) ELSE r

\* An attempt fails: the next one follows a pause, after the last the error
\* stays until the visitor asks again; a conversation that is gone is forgotten.
ThreadFailed(w, unavailable) ==
  LET call == w.threadCall
      e == [w EXCEPT !.threadCall = NoCall, !.loadingTimer = None, !.loading = FALSE,
                     !.error = IF unavailable THEN "unavailable" ELSE "failed"]
      g == IF unavailable THEN [e EXCEPT !.cache[call.id] = NoThread, !.thread = NoThread] ELSE e
  IN IF call.attempt < ATTEMPTS
     THEN [w EXCEPT !.threadCall = [call EXCEPT !.attempt = @ + 1, !.got = << >>]]
     ELSE RepaintTickets(g)

\* openTicketThread(): a cached conversation is shown at once, otherwise a
\* loader after a moment.
OpenThread(w, t) ==
  LET known == t \in DOMAIN w.tickets
      m == IF known THEN MarkTicketRead(w, t, w.tickets[t]) ELSE w
      v == [m EXCEPT !.view = [kind |-> "thread", id |-> t], !.thread = m.cache[t],
                     !.error = "", !.loading = TRUE, !.loadingTimer = None]
      c == IF v.thread = NoThread THEN [v EXCEPT !.loadingTimer = t]
           ELSE SwapView(IF known THEN RememberThread(v, [v.thread EXCEPT !.sum = v.tickets[t]])
                         ELSE v)
  IN LoadThread(c, t, FALSE)

\* The loader of a slow conversation.
ShowLoader(w) ==
  LET u == [w EXCEPT !.loadingTimer = None]
  IN IF u.loading /\ OnScreen(u, w.loadingTimer)
     THEN SwapView(u) ELSE u

\* "All tickets": the load is abandoned.
BackToTickets(w) ==
  SwapView([w EXCEPT !.loadingTimer = None, !.threadCall = NoCall, !.loading = FALSE,
                     !.view = [kind |-> "list", id |-> None], !.thread = NoThread,
                     !.error = ""])

------------------------------------------------------------------------------
(* The preview of a reply                                                  *)

\* loadTicketNotification(), up to its request.
LoadNotification(w, t) ==
  IF \/ w.destroyed \/ w.open \/ ~UnreadTicket(w, t, w.tickets[t])
     \/ w.toasted[t] = w.tickets[t].count \/ w.asked[t] # Unasked
  THEN w ELSE [w EXCEPT !.asked[t] = Asked]

\* loadTicketNotification(), with its answer.
NotificationLoaded(w, t) ==
  LET th == w.asked[t].got[1]
      u == [w EXCEPT !.asked[t] = Unasked]
      c == [u EXCEPT !.cache[t] = th]
  IN IF w.destroyed THEN u
     ELSE IF \/ th.sum.author # "staff" \/ w.open \/ ~UnreadTicket(w, t, th.sum)
             \/ w.toasted[t] = th.sum.count
     THEN c
     ELSE ShowPreviewToast([c EXCEPT !.toasted[t] = th.sum.count], <<"ticket", t>>)

NotificationFailed(w, t) == [w EXCEPT !.asked[t] = Unasked]

------------------------------------------------------------------------------
(* The list                                                                *)

\* loadTickets(): one request at a time.
LoadTickets(w) ==
  IF w.listCall # Unasked \/ ~TicketsOn(w) \/ w.destroyed THEN w
  ELSE [w EXCEPT !.listCall = Asked]

\* A cached conversation is kept while it has as many messages as the ticket.
KeepCached(w, next) ==
  [t \in TicketIds |->
     IF w.cache[t] = NoThread \/ t \notin DOMAIN next THEN NoThread
     ELSE IF next[t].count # Len(w.cache[t].msgs) THEN NoThread
     ELSE [w.cache[t] EXCEPT !.sum = next[t]]]

\* The list brings the conversation on the screen up to date as well, unless
\* its load failed.
Refreshes(w) == w.open /\ w.section = "tickets" /\ w.view.kind = "thread" /\ w.error = ""

\* fetchTickets(), with its answer.
TicketsLoaded(w) ==
  LET next == w.listCall.got[1]
      u == SyncBadges([w EXCEPT !.listCall = Unasked, !.retry = FALSE, !.tickets = next,
             !.cache = KeepCached(w, next), !.fetched = TRUE,
             !.live = \E t \in DOMAIN next : IsLive(next[t])])
      v == CASE Refreshes(u)            -> LoadThread(u, u.view.id, FALSE)
             [] u.view.kind = "list" -> RepaintTickets(u)
             [] OTHER                -> u
      news == {t \in UnreadTickets(v) : v.toasted[t] # v.tickets[t].count}
      n == IF v.open \/ news = {} THEN v
           ELSE LoadNotification(v, CHOOSE t \in news : \A q \in news : t >= q)
  IN IF w.destroyed THEN [w EXCEPT !.listCall = Unasked] ELSE SchedulePoll(n)

\* A refusal (429) is retried later, any other failure ends the chain of polls.
TicketsRefused(w) == SchedulePoll([w EXCEPT !.listCall = Unasked, !.retry = TRUE])
TicketsFailed(w)  == [w EXCEPT !.listCall = Unasked]

PollTimer(w) ==
  LET u == [w EXCEPT !.poll = FALSE]
  IN IF w.destroyed THEN u ELSE IF w.visible THEN LoadTickets(u) ELSE SchedulePoll(u)

------------------------------------------------------------------------------
(* handleWidgetSocketEvent, tickets                                        *)

\* upsertTicketFromSocket(): the list, the cache and the conversation on screen.
Upsert(w, t, sum) ==
  LET cached == IF w.cache[t] = NoThread THEN NoThread
                ELSE IF sum.count # Len(w.cache[t].msgs) THEN NoThread
                ELSE [w.cache[t] EXCEPT !.sum = sum]
      list == [q \in DOMAIN w.tickets \cup {t} |-> IF q = t THEN sum ELSE w.tickets[q]]
      u == SyncBadges([w EXCEPT !.cache[t] = cached, !.tickets = list,
                                !.live = \E q \in DOMAIN list : IsLive(list[q])])
      r == RememberThread(u, [u.thread EXCEPT !.id = t, !.sum = sum])
  IN CASE u.open /\ u.section = "tickets" /\ u.view.kind = "list" -> RepaintTickets(u)
       [] OnScreen(u, t) /\ u.thread # NoThread ->
            IF u.thread.sum.status # sum.status THEN RepaintTickets(r) ELSE r
       [] OTHER -> u

\* appendTicketMessageToView()
AppendMessage(w, m) ==
  IF m \in Range(w.thread.msgs) THEN w
  ELSE LET u == RememberThread(w, [w.thread EXCEPT !.msgs = Append(@, m)])
       IN IF u.body[1] = "thread" THEN [u EXCEPT !.body[3] = Append(@, m)] ELSE u

\* ticket.created, ticket.updated, ticket.message
TicketEvent(w, type, t, sum) ==
  LET h == [w EXCEPT !.history = @ \/ type = "created"]
      u == Upsert(h, t, sum)
      a == AppendMessage(u, <<t, sum.count>>)
  IN IF type # "message" THEN u
     ELSE IF OnScreen(u, t) /\ u.thread # NoThread
     THEN IF sum.author = "staff" THEN MarkTicketRead(a, t, sum) ELSE a
     ELSE IF /\ sum.author = "staff" /\ ~u.open /\ UnreadTicket(u, t, sum)
             /\ u.toasted[t] # sum.count
     THEN ShowPreviewToast([u EXCEPT !.toasted[t] = sum.count], <<"ticket", t>>)
     ELSE u

------------------------------------------------------------------------------
(* Writing                                                                 *)

\* What is typed is kept outside of the view, which is rebuilt again and again.
TypeReply(w, text) ==
  [w EXCEPT !.drafts[w.body[2]] = text, !.body[6] = text]

\* The reply box is disabled until the answer, unless its view is rebuilt.
SendReply(w) ==
  [w EXCEPT !.busy = TRUE,
            !.replies = @ \cup {[of |-> w.body[2], text |-> w.body[6], here |-> TRUE,
                                 got |-> << >>]}]

ReplyFailed(w, r) == [w EXCEPT !.replies = @ \ {r}, !.busy = @ /\ ~r.here]

\* A reply was stored; the answer is the whole conversation.
ReplyStored(w, r) ==
  LET th == r.got[1]
      u == RememberThread([w EXCEPT !.replies = @ \ {r}, !.drafts[r.of] = 0], th)
      list == [t \in DOMAIN u.tickets |-> IF t = r.of THEN th.sum ELSE u.tickets[t]]
  IN RepaintTickets([SyncBadges([u EXCEPT !.tickets = list]) EXCEPT !.error = ""])

\* "Start a ticket", "New ticket"
StartTicket(w) == SwapView([w EXCEPT !.error = "", !.view = [kind |-> "new", id |-> None]])

BackFromNew(w) == SwapView([w EXCEPT !.error = "", !.view = [kind |-> "list", id |-> None]])

\* A ticket was created: the visitor is taken to its conversation.
TicketCreated(w, t, sum) ==
  LET u == SchedulePoll([w EXCEPT !.creating = Unasked, !.newDraft = FALSE, !.history = TRUE,
             !.tickets = [q \in DOMAIN @ \cup {t} |-> IF q = t THEN sum ELSE @[q]],
             !.live = TRUE, !.view = [kind |-> "thread", id |-> t], !.thread = NoThread,
             !.error = ""])
  IN LoadThread(RepaintTickets(u), t, FALSE)

TicketRefused(w) == [w EXCEPT !.creating = Unasked]
=============================================================================
