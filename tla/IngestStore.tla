----------------------------- MODULE IngestStore -----------------------------
(***************************************************************************)
(* Batches on their way from the tracker to the database: transmit and     *)
(* scheduleRetry of tracker/src/main.ts, the network, handleIngest of      *)
(* server/ingest.go and the Save* functions of server/store/ingest.go, one *)
(* SQL statement per step, for one site.  The store has a single write     *)
(* connection, so a statement is atomic and the requests interleave        *)
(* between statements; SaveLogs and SaveFeedback are transactions, one     *)
(* step each.  Sessions are deleted under the requests' feet.              *)
(*                                                                         *)
(* A batch is named by the order it was sent in.  It carries a key, and    *)
(* the tracker never uses a key twice (TrackerSession!NoClash), so rows    *)
(* counts the rows of each batch.  A batch of events holds one event, a    *)
(* page is entered at the time that is its name, and an identity passed to *)
(* identify() is the name of the hello that carries it.                    *)
(*                                                                         *)
(* acked, erased, torn and notified are ghosts, for the properties only.   *)
(***************************************************************************)
EXTENDS Integers, FiniteSets

CONSTANTS Sessions,       \* session ids, one browser tab each
          SentKinds,      \* the kinds of batch the tabs send
          MaxRetries,     \* MAX_SEND_RETRIES
          MaxInFlight,    \* MAX_RETRIES_IN_FLIGHT
          MaxConcurrent,  \* site.Settings.MaxConcurrentSessions, 0: no limit
          WINDOW,         \* a session seen less than this ago is active
          RETENTION,      \* a session not seen for longer is swept
          StorageFails,   \* may a statement fail (disk full, busy)?
          MaxBatches,     \* bound: batches sent
          MaxNow          \* bound: the clock

Kinds == {"hello", "events", "page", "ping", "custom", "logs", "feedback"}
Ids   == 1..MaxBatches

ASSUME IngestAssumption ==
  /\ SentKinds \subseteq Kinds
  /\ MaxRetries \in Nat /\ MaxInFlight \in Nat /\ MaxConcurrent \in Nat
  /\ WINDOW \in Nat /\ RETENTION \in Nat
  /\ StorageFails \in BOOLEAN
  /\ MaxBatches \in Nat /\ MaxNow \in Nat

VARIABLES count,      \* batches sent so far
          sent,       \* what each batch is
          client,     \* what the tracker knows of each batch
          tabs,       \* "live", "ended" (stopped) or "gone" (unloaded)
          wire,       \* requests on their way, being handled or answered
          sessions,   \* table sessions
          rows,       \* tables chunks, pages, custom_events, logs, feedback
          left,       \* pages.left_at
          recording,  \* sites.recording_enabled
          now,        \* the clock
          acked, erased, torn, notified

vars == << count, sent, client, tabs, wire, sessions, rows, left, recording, now,
           acked, erased, torn, notified >>

tracker == << count, sent, client, tabs >>
tables  == << sessions, rows, left >>
ghosts  == << acked, erased, torn, notified >>

NoBatch   == [kind |-> "none", sid |-> "none", n |-> 0, named |-> FALSE]
Done      == [att |-> 0, st |-> "done"]
NoSession == [exists |-> FALSE, count |-> 0, seen |-> 0, user |-> 0]

Init ==
  /\ count = 0 /\ sent = [b \in Ids |-> NoBatch]
  /\ client = [b \in Ids |-> Done]
  /\ tabs = [s \in Sessions |-> "live"]
  /\ wire = {}
  /\ sessions = [s \in Sessions |-> NoSession]
  /\ rows = [b \in Ids |-> 0] /\ left = [b \in Ids |-> 0]
  /\ recording = TRUE /\ now = 0
  /\ acked = {} /\ erased = {} /\ torn = {} /\ notified = [b \in Ids |-> 0]

-----------------------------------------------------------------------------
\* The tracker.

Sid(r)  == sent[r.b].sid
Kind(r) == sent[r.b].kind

Request(b, att) ==
  [b |-> b, att |-> att, pc |-> "arrive", at |-> 0, fresh |-> FALSE, status |-> 0]

\* Lifecycle batches may go through sendBeacon, which is never retried.
BeaconKinds == {"events", "logs", "ping"}

\* Once the visit is over only page views and feedback are still sent.
MaySend(s, kind) ==
  tabs[s] = "live" \/ (tabs[s] = "ended" /\ kind \in {"page", "feedback"})

\* Batches of the tab s and of this kind that have been sent.
SentBefore(s, kind) == Cardinality({c \in 1..count : sent[c].sid = s /\ sent[c].kind = kind})

\* send(), transmit(): the first attempt of a new batch.
SendBatch(s, kind, named, beacon) ==
  /\ sent'   = [sent EXCEPT ![count + 1] =
                  [kind |-> kind, sid |-> s, n |-> SentBefore(s, kind), named |-> named]]
  /\ client' = [client EXCEPT ![count + 1] =
                  IF beacon THEN Done ELSE [att |-> 0, st |-> "sent"]]
  /\ wire'   = wire \cup {Request(count + 1, 0)}

Send ==
  /\ count < MaxBatches
  /\ count' = count + 1
  /\ \E s \in Sessions, kind \in SentKinds, named, beacon \in BOOLEAN :
       /\ MaySend(s, kind)
       /\ beacon => kind \in BeaconKinds
       /\ named => kind = "hello"
       /\ SendBatch(s, kind, named, beacon)
  /\ UNCHANGED << tabs, tables, recording, now, ghosts >>

\* retriesInFlight of the tab s
RetriesInFlight(s) == Cardinality({b \in 1..count : sent[b].sid = s /\ client[b].st = "timer"})

\* scheduleRetry(): arm a timer, or give the batch up.
ScheduleRetry(b) ==
  LET s == sent[b].sid
      refused == \/ tabs[s] # "live"
                 \/ client[b].att >= MaxRetries
                 \/ RetriesInFlight(s) >= MaxInFlight
  IN client' = [client EXCEPT ![b] = IF refused THEN Done ELSE [@ EXCEPT !.st = "timer"]]

\* The timer of scheduleRetry fires.
RetryTimer ==
  \E b \in 1..count :
    /\ client[b].st = "timer"
    /\ client' = [client EXCEPT ![b] = [att |-> client[b].att + 1, st |-> "sent"]]
    /\ wire' = wire \cup {Request(b, client[b].att + 1)}
    /\ UNCHANGED << count, sent, tabs, tables, recording, now, ghosts >>

\* fetch rejects: the browser saw a network error, whatever the server does
\* or has answered.
Fault ==
  \E b \in 1..count :
    /\ client[b].st = "sent"
    /\ ScheduleRetry(b)
    /\ wire' = {r \in wire : ~(r.b = b /\ r.pc = "reply")}
    /\ UNCHANGED << count, sent, tabs, tables, recording, now, ghosts >>

Retryable(status) == status = 429 \/ status >= 500

\* The response to the attempt the tracker waits for arrives.
Receive ==
  \E r \in wire :
    /\ r.pc = "reply"
    /\ wire' = wire \ {r}
    /\ IF Retryable(r.status) THEN ScheduleRetry(r.b)
                              ELSE client' = [client EXCEPT ![r.b] = Done]
    /\ UNCHANGED << count, sent, tabs, tables, recording, now, ghosts >>

\* endSession() sets stopped.
EndVisit ==
  \E s \in Sessions :
    /\ tabs[s] = "live"
    /\ tabs' = [tabs EXCEPT ![s] = "ended"]
    /\ UNCHANGED << count, sent, client, wire, tables, recording, now, ghosts >>

\* The page goes away with its timers; requests already sent go on.
Leave ==
  \E s \in Sessions :
    /\ tabs[s] # "gone"
    /\ tabs' = [tabs EXCEPT ![s] = "gone"]
    /\ client' = [b \in Ids |-> IF sent[b].sid = s THEN Done ELSE client[b]]
    /\ wire' = {r \in wire : ~(Sid(r) = s /\ r.pc = "reply")}
    /\ UNCHANGED << count, sent, tables, recording, now, ghosts >>

\* The network loses a request.
Lose ==
  \E r \in wire :
    /\ r.pc = "arrive"
    /\ wire' = wire \ {r}
    /\ UNCHANGED << tracker, tables, recording, now, ghosts >>

-----------------------------------------------------------------------------
\* The server.  A request is handled by the steps arrive, (check, recheck,)
\* ensure, owner, write, (close,) touch.  A "reply" is on its way back; nobody
\* reads the response to a beacon or to an attempt the tracker has given up.

Update(r, s) == wire' = (wire \ {r}) \cup {s}
Goto(r, pc)  == Update(r, [r EXCEPT !.pc = pc])
Awaited(r)   == client[r.b] = [att |-> r.att, st |-> "sent"]
Answer(r, status) ==
  IF Awaited(r) THEN Update(r, [r EXCEPT !.pc = "reply", !.at = 0, !.fresh = FALSE,
                                         !.status = status])
                ELSE wire' = wire \ {r}

\* handleIngest() up to the kind's Save function.  The rate limiters may
\* refuse any request; a 204 drops the batch, and the tracker takes it for
\* success.
Arrive ==
  \E r \in wire :
    /\ r.pc = "arrive"
    /\ \/ Answer(r, 429)
       \/ /\ Kind(r) \in {"events", "logs"} /\ ~recording
          /\ Answer(r, 204)
       \/ /\ Kind(r) \in {"events", "logs"} => recording
          /\ Goto(r, IF Kind(r) = "events" /\ MaxConcurrent > 0 THEN "check" ELSE "ensure")
    /\ UNCHANGED << tracker, tables, recording, now, ghosts >>

\* A recording in progress: it holds events and was seen recently.
Active(s) ==
  sessions[s].exists /\ sessions[s].count > 0 /\ sessions[s].seen > now - WINDOW

\* CanStartRecording(), first query: is this session recording already?
Check ==
  \E r \in wire :
    /\ r.pc = "check"
    /\ Goto(r, IF Active(Sid(r)) THEN "ensure" ELSE "recheck")
    /\ UNCHANGED << tracker, tables, recording, now, ghosts >>

\* CanStartRecording(), second query: do fewer than the limit record now?
Recheck ==
  \E r \in wire :
    /\ r.pc = "recheck"
    /\ IF Cardinality({s \in Sessions \ {Sid(r)} : Active(s)}) < MaxConcurrent
       THEN Goto(r, "ensure") ELSE Answer(r, 204)
    /\ UNCHANGED << tracker, tables, recording, now, ghosts >>

\* EnsureSessionForSite(), the insert.
Ensure ==
  \E r \in wire :
    /\ r.pc = "ensure"
    /\ Update(r, [r EXCEPT !.pc = "owner", !.at = now])
    /\ sessions' = [sessions EXCEPT ![Sid(r)] =
                      IF @.exists THEN @ ELSE [NoSession EXCEPT !.exists = TRUE, !.seen = now]]
    /\ UNCHANGED << tracker, rows, left, recording, now, ghosts >>

\* EnsureSessionForSite(), the select: no row, the session was deleted.
Owner ==
  \E r \in wire :
    /\ r.pc = "owner"
    /\ IF sessions[Sid(r)].exists THEN Goto(r, "write") ELSE Answer(r, 400)
    /\ UNCHANGED << tracker, tables, recording, now, ghosts >>

\* The new last_seen of r's session, if it still exists.
Seen(r, time) == IF sessions[Sid(r)].exists THEN [sessions EXCEPT ![Sid(r)].seen = time]
                                            ELSE sessions

\* What the handler does once a batch's rows are safe: alert, then answer 200.
Accept(r, fresh) ==
  /\ Answer(r, 200)
  /\ acked' = acked \cup {r.b}
  /\ notified' = [notified EXCEPT ![r.b] = IF fresh THEN @ + 1 ELSE @]
  /\ UNCHANGED << erased, torn >>

\* Mutants of WriteRow: a failed insert is taken for success; a row that is
\* there is replaced by a new one; every custom event counts as new.
WriteRowIgnoringErrors ==
  \E r \in wire :
    /\ r.pc = "write" /\ Kind(r) \in {"events", "page", "custom"}
    /\ \/ /\ ~sessions[Sid(r)].exists
          /\ Goto(r, "touch")
          /\ UNCHANGED << rows, left >>
       \/ /\ sessions[Sid(r)].exists
          /\ rows' = [rows EXCEPT ![r.b] = 1]
          /\ UNCHANGED left
          /\ Update(r, [r EXCEPT !.pc = IF Kind(r) = "page" /\ sent[r.b].n > 0
                                        THEN "close" ELSE "touch",
                                 !.fresh = Kind(r) = "custom" /\ rows[r.b] = 0])
    /\ UNCHANGED << tracker, sessions, recording, now, ghosts >>

WriteRowReplacing ==
  \E r \in wire :
    /\ r.pc = "write" /\ Kind(r) \in {"events", "page", "custom"}
    /\ \/ /\ ~sessions[Sid(r)].exists
          /\ Answer(r, 500)
          /\ UNCHANGED << rows, left >>
       \/ /\ sessions[Sid(r)].exists
          /\ rows' = [rows EXCEPT ![r.b] = 1]
          /\ left' = [left EXCEPT ![r.b] = 0]
          /\ Update(r, [r EXCEPT !.pc = IF Kind(r) = "page" /\ sent[r.b].n > 0
                                        THEN "close" ELSE "touch",
                                 !.fresh = Kind(r) = "custom" /\ rows[r.b] = 0])
    /\ UNCHANGED << tracker, sessions, recording, now, ghosts >>

WriteRowFresh ==
  \E r \in wire :
    /\ r.pc = "write" /\ Kind(r) \in {"events", "page", "custom"}
    /\ \/ /\ ~sessions[Sid(r)].exists
          /\ Answer(r, 500)
          /\ UNCHANGED << rows, left >>
       \/ /\ sessions[Sid(r)].exists
          /\ rows' = [rows EXCEPT ![r.b] = 1]
          /\ UNCHANGED left
          /\ Update(r, [r EXCEPT !.pc = IF Kind(r) = "page" /\ sent[r.b].n > 0
                                        THEN "close" ELSE "touch",
                                 !.fresh = Kind(r) = "custom"])
    /\ UNCHANGED << tracker, sessions, recording, now, ghosts >>

\* The upsert of chunks and pages, whose foreign key needs the session, and
\* the insert of a custom event, which ignores one that is there already.
WriteRow ==
  \E r \in wire :
    /\ r.pc = "write" /\ Kind(r) \in {"events", "page", "custom"}
    /\ \/ /\ ~sessions[Sid(r)].exists
          /\ Answer(r, 500)
          /\ UNCHANGED << rows, left >>
       \/ /\ sessions[Sid(r)].exists
          /\ rows' = [rows EXCEPT ![r.b] = 1]
          /\ UNCHANGED left
          /\ Update(r, [r EXCEPT !.pc = IF Kind(r) = "page" /\ sent[r.b].n > 0
                                        THEN "close" ELSE "touch",
                                 !.fresh = Kind(r) = "custom" /\ rows[r.b] = 0])
    /\ UNCHANGED << tracker, sessions, recording, now, ghosts >>

\* SaveLogs(), a transaction: insert or ignore, touch, alert on what is new.
WriteLogs ==
  \E r \in wire :
    /\ r.pc = "write" /\ Kind(r) = "logs"
    /\ \/ /\ ~sessions[Sid(r)].exists
          /\ Answer(r, 500)
          /\ UNCHANGED << sessions, rows, ghosts >>
       \/ /\ sessions[Sid(r)].exists
          /\ rows' = [rows EXCEPT ![r.b] = 1]
          /\ sessions' = Seen(r, r.at)
          /\ Accept(r, rows[r.b] = 0)
    /\ UNCHANGED << tracker, left, recording, now >>

\* SaveFeedback() without a campaign: the table has no key but its own id.
WriteFeedback ==
  \E r \in wire :
    /\ r.pc = "write" /\ Kind(r) = "feedback"
    /\ rows' = [rows EXCEPT ![r.b] = @ + 1]
    /\ Accept(r, FALSE)
    /\ UNCHANGED << tracker, sessions, left, recording, now >>

\* saveHello() and SavePing(): one update of the session, if it still exists;
\* a non-empty identity replaces the stored one.
WriteSession ==
  \E r \in wire :
    /\ r.pc = "write" /\ Kind(r) \in {"hello", "ping"}
    /\ sessions' = IF sessions[Sid(r)].exists /\ sent[r.b].named
                   THEN [Seen(r, r.at) EXCEPT ![Sid(r)].user = r.b]
                   ELSE Seen(r, r.at)
    /\ Answer(r, 200)
    /\ UNCHANGED << tracker, rows, left, recording, now, ghosts >>

\* Is c the page before b in the same session?
Before(c, b) ==
  sent[c].kind = "page" /\ sent[c].sid = sent[b].sid /\ sent[c].n = sent[b].n - 1

\* SavePage(), second statement: close the previous page if it is open.
ClosePrevious ==
  \E r \in wire :
    /\ r.pc = "close"
    /\ left' = [c \in Ids |-> IF Before(c, r.b) /\ rows[c] > 0 /\ left[c] = 0
                              THEN r.b ELSE left[c]]
    /\ Goto(r, "touch")
    /\ UNCHANGED << tracker, sessions, rows, recording, now, ghosts >>

EventRows(s) == {b \in Ids : sent[b].sid = s /\ sent[b].kind = "events" /\ rows[b] > 0}

\* Mutant of TouchEvents: the batch is added to the count.
TouchEventsAdding ==
  \E r \in wire :
    /\ r.pc = "touch" /\ Kind(r) = "events"
    /\ sessions' = IF sessions[Sid(r)].exists
                   THEN [Seen(r, r.at) EXCEPT ![Sid(r)].count = @ + 1]
                   ELSE sessions
    /\ Answer(r, 200)
    /\ acked' = acked \cup {r.b} /\ torn' = torn \ {Sid(r)}
    /\ UNCHANGED << tracker, rows, left, recording, now, erased, notified >>

\* The last statement of SaveEvents(): last_seen, and the events counted anew.
TouchEvents ==
  \E r \in wire :
    /\ r.pc = "touch" /\ Kind(r) = "events"
    /\ sessions' = IF sessions[Sid(r)].exists
                   THEN [Seen(r, r.at) EXCEPT ![Sid(r)].count = Cardinality(EventRows(Sid(r)))]
                   ELSE sessions
    /\ Answer(r, 200)
    /\ acked' = acked \cup {r.b} /\ torn' = torn \ {Sid(r)}
    /\ UNCHANGED << tracker, rows, left, recording, now, erased, notified >>

\* The last statement of SavePage() and of SaveCustomEvents().
Touch ==
  \E r \in wire :
    /\ r.pc = "touch" /\ Kind(r) # "events"
    /\ sessions' = Seen(r, IF Kind(r) = "custom" THEN now ELSE r.at)
    /\ Accept(r, r.fresh)
    /\ UNCHANGED << tracker, rows, left, recording, now >>

\* A statement fails: the handler answers 500, except that SavePage() ignores
\* a failure to close the previous page.
StatementFails ==
  /\ StorageFails
  /\ \E r \in wire :
       \/ /\ r.pc \in {"check", "recheck", "ensure", "owner", "write", "touch"}
          /\ Answer(r, 500)
          /\ torn' = IF r.pc = "touch" /\ Kind(r) = "events" THEN torn \cup {Sid(r)} ELSE torn
       \/ /\ r.pc = "close"
          /\ Goto(r, "touch")
          /\ UNCHANGED torn
  /\ UNCHANGED << tracker, tables, recording, now, acked, erased, notified >>

Handled(r) == r.pc \notin {"arrive", "reply"}

\* The server process dies and is restarted: its requests are gone.
Crash ==
  /\ \E r \in wire : Handled(r)
  /\ wire' = {r \in wire : ~Handled(r)}
  /\ torn' = torn \cup {Sid(r) : r \in {q \in wire : q.pc = "touch" /\ Kind(q) = "events"}}
  /\ UNCHANGED << tracker, tables, recording, now, acked, erased, notified >>

\* DELETE FROM sessions with its cascade; feedback rows stay.
EraseSessions(S) ==
  LET lost == {b \in Ids : sent[b].sid \in S /\ sent[b].kind # "feedback" /\ rows[b] > 0}
  IN /\ sessions' = [s \in Sessions |-> IF s \in S THEN NoSession ELSE sessions[s]]
     /\ rows' = [b \in Ids |-> IF b \in lost THEN 0 ELSE rows[b]]
     /\ left' = [b \in Ids |-> IF b \in lost THEN 0 ELSE left[b]]
     /\ erased' = erased \cup lost
     /\ torn' = torn \ S

\* handleDeleteSession(): an administrator deletes a recording.
DeleteSession ==
  \E s \in Sessions :
    /\ sessions[s].exists
    /\ EraseSessions({s})
    /\ UNCHANGED << tracker, wire, recording, now, acked, notified >>

\* RetentionSweep(), the sessions of the site ...
SweepSessions ==
  LET old == {s \in Sessions : sessions[s].exists /\ sessions[s].seen < now - RETENTION}
  IN /\ old # {}
     /\ EraseSessions(old)
     /\ UNCHANGED << tracker, wire, recording, now, acked, notified >>

\* ... and its feedback and logs, which have limits of their own.
SweepRows ==
  \E S \in SUBSET {b \in Ids : sent[b].kind \in {"logs", "feedback"} /\ rows[b] > 0} :
    /\ S # {}
    /\ rows' = [b \in Ids |-> IF b \in S THEN 0 ELSE rows[b]]
    /\ erased' = erased \cup S
    /\ UNCHANGED << tracker, wire, sessions, left, recording, now, acked, torn, notified >>

\* The dashboard turns recording on or off.
ToggleRecording ==
  /\ recording' = ~recording
  /\ UNCHANGED << tracker, wire, tables, now, ghosts >>

Tick ==
  /\ now < MaxNow
  /\ now' = now + 1
  /\ UNCHANGED << tracker, wire, tables, recording, ghosts >>

Next ==
  \/ Send \/ RetryTimer \/ Fault \/ Receive \/ EndVisit \/ Leave \/ Lose
  \/ Arrive \/ Check \/ Recheck \/ Ensure \/ Owner
  \/ WriteRow \/ WriteLogs \/ WriteFeedback \/ WriteSession
  \/ ClosePrevious \/ TouchEvents \/ Touch
  \/ StatementFails \/ Crash
  \/ DeleteSession \/ SweepSessions \/ SweepRows \/ ToggleRecording \/ Tick

Spec == Init /\ [][Next]_vars

\* The scenarios of the run about rows: both batches are of one kind and, but
\* for the second batch of events, of the first session; the clock moves while
\* there is one batch, and a second session stays clear of faults.
Scenario ==
  /\ \A b \in 1..count : sent[b].kind = sent[1].kind
  /\ now > 0 => count <= 1
  /\ tabs["s2"] = "live"
  /\ \A b \in 1..count : sent[b].sid = "s2" =>
       /\ b = 2 /\ sent[b].kind = "events"
       /\ tabs["s1"] = "live" /\ recording /\ \A c \in Ids : client[c].att = 0

-----------------------------------------------------------------------------
Batch    == [kind : Kinds \cup {"none"}, sid : Sessions \cup {"none"}, n : Nat,
             named : BOOLEAN]
Requests == [b : Ids, att : Nat, at : Nat, fresh : BOOLEAN, status : Nat,
             pc : {"arrive", "check", "recheck", "ensure", "owner", "write", "close",
                   "touch", "reply"}]

\* Type invariant.
TypeOK ==
  /\ count \in 0..MaxBatches /\ sent \in [Ids -> Batch]
  /\ client \in [Ids -> [att : Nat, st : {"sent", "timer", "done"}]]
  /\ tabs \in [Sessions -> {"live", "ended", "gone"}]
  /\ wire \in SUBSET Requests
  /\ sessions \in [Sessions -> [exists : BOOLEAN, count : Nat, seen : Nat, user : Nat]]
  /\ rows \in [Ids -> Nat] /\ left \in [Ids -> Nat]
  /\ recording \in BOOLEAN /\ now \in Nat
  /\ acked \in SUBSET Ids /\ erased \in SUBSET Ids /\ torn \in SUBSET Sessions
  /\ notified \in [Ids -> Nat]

\* A batch the tracker was told is stored (200) has its row, unless the row
\* was deleted after it was written: neither a deletion between two
\* statements nor a crash makes the server acknowledge what it does not have.
AckedIsStored == \A b \in acked : rows[b] > 0 \/ b \in erased

\* The endpoint implements UploadLog.
Upload == INSTANCE UploadLog WITH
            Batches <- Ids, offered <- 1..count, stored <- {b \in Ids : rows[b] > 0}
UploadSpec == Upload!Spec

\* event_count is the number of stored events whenever no request is between
\* the two statements of SaveEvents and none was cut short there: duplicated,
\* concurrent and reordered batches are not counted twice.
CountExact ==
  \A s \in Sessions \ torn :
    \/ ~sessions[s].exists
    \/ \E r \in wire : r.pc = "touch" /\ Kind(r) = "events" /\ Sid(r) = s
    \/ sessions[s].count = Cardinality(EventRows(s))

\* An alert is sent at most once for a custom event or a log batch, however
\* often the request is retried, unless the row was deleted in between
\* (SaveCustomEvents: "never sends the same one twice on a retried ingest
\* request").
NotifiedOnce == \A b \in Ids : notified[b] > 1 => b \in erased

\* A page whose dwell time is known keeps it: a retried or late page batch
\* never reopens a closed page or moves its end.
ClosedStaysClosed ==
  [][\A b \in Ids : left[b] > 0 /\ rows'[b] > 0 => left'[b] = left[b]]_vars
=============================================================================
