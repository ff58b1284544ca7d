---------------------------- MODULE TicketsInbox ----------------------------
(***************************************************************************)
(* The inbox of support tickets on the dashboard: the filtered list, one   *)
(* conversation with its reply box, the socket that reports changes and    *)
(* the polls that replace it, against the server's tickets, which visitors *)
(* and other members of the staff change meanwhile.                        *)
(*                                                                         *)
(* A ticket is known by its row, [id, status, count], a conversation by    *)
(* the row and the numbers of its messages.  A request in flight is a      *)
(* record that carries the server's answer once it is computed; identical  *)
(* requests are one.  What a cancelled request brings is ignored, so it is *)
(* not kept.  The site filter works as the status filter does; the order   *)
(* of the rows, their limit of 100 and the sound are left out.             *)
(***************************************************************************)
EXTENDS Naturals, FiniteSets, Sequences, DashboardValues

CONSTANTS TicketIds,
          MaxMessages, \* bound of the messages of a ticket
          MaxMoves,    \* bound of what operator, visitors and staff do, and of connections
          MaxEvents,   \* bound of the events the socket holds
          MaxCalls     \* bound of the requests in flight, of the polls and of the operator

ASSUME TicketsInboxAssumption ==
  /\ None \notin TicketIds
  /\ MaxMessages \in Nat \ {0} /\ MaxMoves \in Nat /\ MaxEvents \in Nat \ {0} /\ MaxCalls \in Nat \ {0}

Statuses == {"open", "in_progress", "closed", "archived"}

VARIABLES tickets, \* on the server: [status, count] of each ticket
          moves,   \* so far
          socket,  \* the connection: "down", "opening", "open", "lost" (not yet noticed),
                   \* and the events on their way
          inbox,   \* the page
          calls    \* its requests in flight

inboxVars == << tickets, moves, socket, inbox, calls >>

RowOf(t) == [id |-> t, status |-> tickets[t].status, count |-> tickets[t].count]
ThreadOf(t) == [row |-> RowOf(t), messages |-> 1..tickets[t].count]

Created == {t \in TicketIds : tickets[t].count > 0}

Matches(row, filter) == filter = "all" \/ row.status = filter

ListOf(filter) == {row \in {RowOf(t) : t \in Created} : Matches(row, filter)}

NoThread == [row |-> None, messages |-> {}]

\* A request: what for, for which ticket, by whom it was made and what it sets.
Call(kind, id, initial, set) ==
  [kind |-> kind, id |-> id, initial |-> initial, set |-> set, got |-> << >>]

Of(kinds) == {c \in calls : c.kind \in kinds}
Others(kinds) == calls \ Of(kinds)

\* The page as it opens, with its first requests.
InboxOpens(counts, visible, requests) ==
  /\ tickets = [t \in TicketIds |-> [status |-> "open", count |-> counts[t]]]
  /\ moves = 0
  /\ socket = [state |-> "down", events |-> << >>]
  /\ inbox = [filter |-> "all", rows |-> None, selected |-> None, thread |-> NoThread,
              loading |-> FALSE, sending |-> FALSE, draft |-> FALSE, archive |-> None,
              archiving |-> FALSE, visible |-> visible]
  /\ calls = requests

InboxInit ==
  \E counts \in [TicketIds -> {0, 1}] :
    InboxOpens(counts, TRUE, {Call("list", None, TRUE, None)})

------------------------------------------------------------------------------
(* The server                                                              *)

\* A change is stored, and broadcast to the dashboards that are connected.
Change(type, t, ticket) ==
  /\ Len(socket.events) < MaxEvents
  /\ tickets' = [tickets EXCEPT ![t] = ticket]
  /\ socket' = IF socket.state \in {"opening", "open"}
               THEN [socket EXCEPT !.events = Append(@, [type |-> type, row |-> RowOf(t)'])]
               ELSE socket

\* AddTicketMessage(): an answer of the staff takes an open ticket in progress.
AddMessage(t, author) ==
  LET ticket == tickets[t]
  IN /\ ticket.count \in 1..MaxMessages - 1
     /\ ticket.status # "archived" /\ (author = "visitor" => ticket.status # "closed")
     /\ Change("message", t,
               [status |-> IF author = "staff" /\ ticket.status = "open" THEN "in_progress" ELSE ticket.status,
                count |-> ticket.count + 1])

\* SetTicketStatus()
SetStatus(t, status) == Change("updated", t, [tickets[t] EXCEPT !.status = status])

CreateTicket(t) == tickets[t].count = 0 /\ Change("created", t, [tickets[t] EXCEPT !.count = 1])

Move == moves < MaxMoves /\ moves' = moves + 1

\* Visitors and other members of the staff, while this page watches.
Elsewhere ==
  /\ Move
  /\ \E t \in TicketIds :
       \/ \E a \in {"visitor", "staff"} : AddMessage(t, a)
       \/ CreateTicket(t)
       \/ t \in Created /\ \E s \in {"open", "closed", "archived"} \ {tickets[t].status} : SetStatus(t, s)
  /\ UNCHANGED << inbox, calls >>

\* The server computes the answer of a request of this page.
Answer(c) ==
  LET answered(x) == calls' = (calls \ {c}) \cup {[c EXCEPT !.got = << x >>]}
  IN /\ c.got = << >>
     /\ \/ /\ c.kind = "list" /\ answered(ListOf(inbox.filter))
           /\ UNCHANGED << tickets, socket >>
        \/ /\ c.kind = "thread" /\ c.id \in Created /\ answered(ThreadOf(c.id))
           /\ UNCHANGED << tickets, socket >>
        \/ c.kind = "reply" /\ AddMessage(c.id, "staff") /\ answered(ThreadOf(c.id)')
        \/ c.kind \in {"status", "archive"} /\ SetStatus(c.id, c.set) /\ answered(RowOf(c.id)')
     /\ UNCHANGED << moves, inbox >>

------------------------------------------------------------------------------
(* What the page shows                                                     *)

Shown(page) == ~page.loading /\ page.thread # NoThread

\* TicketThreadView forgets the draft with another ticket or another number of
\* messages, and when it is taken off the page.
Rendered(page) ==
  [page EXCEPT !.draft = /\ @ /\ Shown(inbox) /\ Shown(page)
                         /\ page.thread.row.id = inbox.thread.row.id
                         /\ Cardinality(page.thread.messages) = Cardinality(inbox.thread.messages)]

\* The row moves to the top, or leaves a list it matches no more.
Filed(rows, row, filter) ==
  IF rows = None THEN None
  ELSE {r \in rows : r.id # row.id} \cup {r \in {row} : Matches(r, filter)}

\* The row is replaced where it is.
Replaced(rows, row) ==
  IF rows = None THEN None ELSE {IF r.id = row.id THEN row ELSE r : r \in rows}

\* The header of the conversation on the page is replaced, whichever it is.
Headed(thread, row) == IF thread = NoThread THEN thread ELSE [thread EXCEPT !.row = row]

------------------------------------------------------------------------------
(* Loading                                                                 *)

\* refresh() of the list and of the conversation: only when the tab is seen.
Refreshes(page) ==
  IF ~page.visible THEN {}
  ELSE {Call("list", None, FALSE, None)} \cup
       {Call("thread", t, FALSE, None) : t \in {page.selected} \ {None}}

\* The filter changes: the requests of the filter before are cancelled.
Filter(filter) ==
  /\ Move /\ filter # inbox.filter
  /\ inbox' = [inbox EXCEPT !.filter = filter, !.rows = None]
  /\ calls' = Others({"list"}) \cup {Call("list", None, TRUE, None)}
  /\ UNCHANGED << tickets, socket >>

\* Another ticket, or none, is selected.
Select(t) ==
  /\ Move /\ t # inbox.selected
  /\ inbox' = Rendered(IF t = None THEN [inbox EXCEPT !.selected = None, !.thread = NoThread, !.loading = FALSE]
                       ELSE [inbox EXCEPT !.selected = t, !.loading = TRUE])
  /\ calls' = Others({"thread"}) \cup {Call("thread", x, TRUE, None) : x \in {t} \ {None}}
  /\ UNCHANGED << tickets, socket >>

\* Mutant of Polls: the polls only run while a socket reports.
PollsConnected == socket.state \in {"open", "lost"}

\* dashboardSocketConnectedRef: no poll while a socket reports.
Polls == socket.state \in {"down", "opening"}

\* The poll of the list, or of the conversation.
Poll(kind) ==
  /\ Polls /\ Cardinality(Of({kind})) < MaxCalls
  /\ \E c \in Refreshes(inbox) : c.kind = kind /\ c \notin calls /\ calls' = calls \cup {c}
  /\ UNCHANGED << tickets, moves, socket, inbox >>

ListArrives(c) == inbox' = [inbox EXCEPT !.rows = c.got[1]]

ThreadArrives(c) ==
  inbox' = Rendered([inbox EXCEPT !.thread = c.got[1], !.loading = @ /\ ~c.initial])

\* A failed first load shows its error, a failed refresh changes nothing.
LoadFails(c) ==
  inbox' = IF c.kind = "thread" /\ c.initial
           THEN Rendered([inbox EXCEPT !.thread = NoThread, !.loading = FALSE]) ELSE inbox

------------------------------------------------------------------------------
(* The operator                                                            *)

Idle  == Cardinality(Of({"reply", "status", "archive"})) < MaxCalls
Ready == Shown(inbox) /\ Idle

Write == /\ Ready /\ inbox.thread.row.status \notin {"closed", "archived"} /\ ~inbox.draft
         /\ inbox' = [inbox EXCEPT !.draft = TRUE]
         /\ UNCHANGED << tickets, moves, socket, calls >>

\* reply(): by the button unless a reply is being sent, by the keyboard always.
Reply ==
  /\ Ready /\ Move /\ inbox.draft /\ inbox.thread.row.status \notin {"closed", "archived"}
  /\ inbox' = [inbox EXCEPT !.sending = TRUE]
  /\ calls' = calls \cup {Call("reply", inbox.thread.row.id, FALSE, None)}
  /\ UNCHANGED << tickets, socket >>

\* updateStatus()
UpdateStatus(status) ==
  /\ Ready /\ Move /\ status # inbox.thread.row.status
  /\ calls' = calls \cup {Call("status", inbox.thread.row.id, FALSE, status)}
  /\ UNCHANGED << tickets, socket, inbox >>

\* The archive button opens a dialog; confirmArchive() sends the request.
AskArchive ==
  /\ Ready /\ Move /\ inbox.thread.row.status # "archived" /\ ~inbox.archiving /\ inbox.archive = None
  /\ inbox' = [inbox EXCEPT !.archive = inbox.thread.row.id]
  /\ UNCHANGED << tickets, socket, calls >>

ConfirmArchive ==
  /\ inbox.archive # None /\ ~inbox.archiving /\ Idle
  /\ inbox' = [inbox EXCEPT !.archiving = TRUE]
  /\ calls' = calls \cup {Call("archive", inbox.archive, FALSE, "archived")}
  /\ UNCHANGED << tickets, moves, socket >>

CancelArchive ==
  /\ inbox.archive # None /\ ~inbox.archiving
  /\ inbox' = [inbox EXCEPT !.archive = None]
  /\ UNCHANGED << tickets, moves, socket, calls >>

\* The answers: each is put on the page, whichever conversation is on it by now.
ReplyArrives(c) ==
  inbox' = Rendered([inbox EXCEPT !.thread = c.got[1], !.sending = FALSE,
                                  !.rows = Replaced(@, c.got[1].row)])

StatusArrives(c) ==
  inbox' = Rendered([inbox EXCEPT !.thread = Headed(@, c.got[1]), !.rows = Replaced(@, c.got[1])])

ArchiveArrives(c) ==
  inbox' = Rendered([inbox EXCEPT !.thread = Headed(@, c.got[1]), !.archive = None,
                                  !.archiving = FALSE,
                                  !.rows = Filed(@, c.got[1], inbox.filter)])

ChangeFails(c) ==
  inbox' = [inbox EXCEPT !.sending = @ /\ c.kind # "reply", !.archiving = @ /\ c.kind # "archive"]

Arrive(c) ==
  /\ c.got # << >>
  /\ \/ c.kind = "list"    /\ ListArrives(c)
     \/ c.kind = "thread"  /\ ThreadArrives(c)
     \/ c.kind = "reply"   /\ ReplyArrives(c)
     \/ c.kind = "status"  /\ StatusArrives(c)
     \/ c.kind = "archive" /\ ArchiveArrives(c)
  /\ calls' = calls \ {c}
  /\ UNCHANGED << tickets, moves, socket >>

\* A request, or its answer, is lost; a lost answer to a read is as a lost read.
Fail(c) ==
  /\ c.kind \in {"list", "thread"} => c.got = << >>
  /\ IF c.kind \in {"list", "thread"} THEN LoadFails(c) ELSE ChangeFails(c)
  /\ calls' = calls \ {c}
  /\ UNCHANGED << tickets, moves, socket >>

------------------------------------------------------------------------------
(* The socket and the tab                                                  *)

Connect == /\ Move /\ socket.state = "down"
           /\ socket' = [socket EXCEPT !.state = "opening"]
           /\ UNCHANGED << tickets, inbox, calls >>

\* 'open': what changed while the connection was down is asked for.
Open == /\ socket.state = "opening"
        /\ socket' = [socket EXCEPT !.state = "open"]
        /\ calls' = calls \cup Refreshes(inbox)
        /\ UNCHANGED << tickets, moves, inbox >>

\* An event: the row is filed in the list, a message of the conversation on
\* the page is appended to it, any other change renews its header.
ApplyEvent(e) ==
  LET row == e.row
      th  == inbox.thread
  IN inbox' = Rendered(
       [inbox EXCEPT
          !.rows = Filed(@, row, inbox.filter),
          !.thread = IF inbox.selected # row.id \/ th = NoThread \/ th.row.id # row.id THEN @
                     ELSE [row |-> row,
                           messages |-> th.messages \cup {n \in {row.count} : e.type = "message"}]])

Receive == /\ socket.state = "open" /\ socket.events # << >>
           /\ ApplyEvent(Head(socket.events))
           /\ socket' = [socket EXCEPT !.events = Tail(@)]
           /\ UNCHANGED << tickets, moves, calls >>

\* The connection breaks, and later the page learns of it.
Break == /\ socket.state \in {"opening", "open"}
         /\ socket' = [state |-> "lost", events |-> << >>]
         /\ UNCHANGED << tickets, moves, inbox, calls >>

Close == /\ socket.state = "lost"
         /\ socket' = [socket EXCEPT !.state = "down"]
         /\ UNCHANGED << tickets, moves, inbox, calls >>

Look == /\ Move
        /\ inbox' = [inbox EXCEPT !.visible = ~@]
        /\ UNCHANGED << tickets, socket, calls >>

------------------------------------------------------------------------------
Browse == \/ \E f \in {"all", "open"} : Filter(f)
          \/ \E t \in Created \cup {None} : Select(t)
          \/ Look

Edit == \/ Write \/ Reply \/ AskArchive \/ ConfirmArchive \/ CancelArchive
        \/ \E s \in {"open", "closed"} : UpdateStatus(s)

Network == Connect \/ Open \/ Receive \/ Break \/ Close

InboxNext == \/ Elsewhere \/ Browse \/ Poll("list") \/ Poll("thread") \/ Edit \/ Network
             \/ \E c \in calls : Answer(c) \/ Arrive(c) \/ Fail(c)

\* The polls run, the server answers some of them, and the answers arrive.
InboxFairness == \A kind \in {"list", "thread"} :
  /\ WF_inboxVars(Poll(kind))
  /\ SF_inboxVars(\E c \in Of({kind}) : Answer(c))
  /\ WF_inboxVars(\E c \in Of({kind}) : Arrive(c))

------------------------------------------------------------------------------
(* Properties                                                              *)

UpToDate == /\ inbox.rows = ListOf(inbox.filter)
            /\ inbox.selected # None => inbox.thread = ThreadOf(inbox.selected)

\* With no socket the polls keep the page: however the requests, answers and
\* events before were mixed up, a page that is looked at shows the tickets and
\* the selected conversation once they change no more, which MaxMoves sees to
\* (useTickets.ts:60-64, 102-106).
InboxCatchesUp ==
  <>[](inbox.visible /\ socket.state = "down") => <>[]UpToDate
=============================================================================
