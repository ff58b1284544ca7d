--------------------------- MODULE TrackerSession ---------------------------
(***************************************************************************)
(* The visit lifecycle of the browser tracker (tracker/src/main.ts): one   *)
(* tab, its sessionStorage, and the script instance of the page now loaded *)
(* in it.  Every page load restarts the script, which resumes the visit    *)
(* found in sessionStorage or mints a new session id.                      *)
(*                                                                         *)
(* The whole state is one record, tab, and each function of the script is  *)
(* an operator from such a record to the next, so a handler that calls     *)
(* five functions is the composition of five operators.  Clocks are ages   *)
(* ("time since ..."), saturated just above the largest bound the script   *)
(* compares them with.  A session id is a number, 0 is the empty string.   *)
(*                                                                         *)
(* Fields that are ghosts, kept for the properties only: used and clash    *)
(* (which keys batches were shipped under), filed (which session an event  *)
(* was recorded in and which one it was shipped as), stale (page mutations *)
(* were discarded since the last full snapshot), splits (2h splits on the  *)
(* current page).                                                          *)
(***************************************************************************)
EXTENDS Integers, Sequences, FiniteSets

CONSTANTS TTL,               \* SESSION_TTL_MS
          IDLE,              \* IDLE_TIMEOUT_MS
          GRACE,             \* IDLE_RECORD_GRACE_MS
          CAP,               \* MAX_SESSION_MS
          MaxBuffer,         \* MAX_BUFFER_EVENTS
          MaxLogBuffer,      \* MAX_BUFFER_LOGS
          RecordingEnabled,  \* cfg.recording_enabled
          LogsEnabled,       \* cfg.logs.enabled
          BackForwardCache,  \* does the browser keep a left page alive?
          MaxSessions,       \* bound: session ids minted in the tab
          MaxSeq,            \* bound: event batches of one session
          MaxLogs,           \* bound: log lines of one session
          MaxPages           \* bound: page views of one session

ASSUME LifecycleAssumption ==
  /\ TTL \in Nat /\ IDLE \in Nat /\ GRACE \in Nat /\ CAP \in Nat
  /\ MaxBuffer \in Nat \ {0} /\ MaxLogBuffer \in Nat \ {0}
  /\ RecordingEnabled \in BOOLEAN /\ LogsEnabled \in BOOLEAN
  /\ BackForwardCache \in BOOLEAN
  /\ MaxSessions \in Nat /\ MaxSeq \in Nat /\ MaxLogs \in Nat /\ MaxPages \in Nat

VARIABLES tab,     \* the tab: page, script and sessionStorage
          cached   \* pages left but kept in the back/forward cache, at most one

vars == << tab, cached >>

Kinds == {"events", "logs", "page"}
Key   == [kind : Kinds, sid : Nat, n : Int]

\* age + d, saturated at limit: the exact value no longer matters there.
Aged(age, d, limit) == IF age + d > limit THEN limit ELSE age + d

Live(s)    == s.page = "live"
Running(s) == s.page = "live" /\ ~s.stopped

\* The newest k elements of q: splice(0, length - k).
Newest(q, k) == IF Len(q) > k THEN SubSeq(q, Len(q) - k + 1, Len(q)) ELSE q

\* A batch leaves the tab under key k.
Ship(s, k) == [s EXCEPT !.used = @ \cup {k}, !.clash = @ \cup (s.used \cap {k})]

BatchKey(kind, sid, n) == [kind |-> kind, sid |-> sid, n |-> n]

\* Mutant of Flush: the advanced batch number is not stored.
FlushUnsaved(s) ==
  IF s.buffer = << >> THEN s
  ELSE Ship([s EXCEPT !.buffer = << >>, !.seq = @ + 1],
            BatchKey("events", s.sid, s.seq))

\* What becomes of the buffered events: the visit each was recorded in, the
\* visit it is shipped as, the 2h splits the page has been through.
FiledNow(s) == {[of |-> s.buffer[i], as |-> s.sid, splits |-> s.splits] :
                  i \in DOMAIN s.buffer}

\* flush(): the buffered events, if any, become batch number seq.
Flush(s) ==
  IF s.buffer = << >> THEN s
  ELSE Ship([s EXCEPT !.buffer = << >>,
                      !.seq    = @ + 1,
                      !.stSeq  = s.seq + 1,
                      !.filed  = @ \cup FiledNow(s)],
            BatchKey("events", s.sid, s.seq))

LogKeys(s) == {BatchKey("logs", s.sid, s.logBuffer[i]) : i \in DOMAIN s.logBuffer}

\* flushLogs(): every buffered log line is keyed by its own client_seq.
FlushLogs(s) ==
  [s EXCEPT !.logBuffer = << >>,
            !.used      = @ \cup LogKeys(s),
            !.clash     = @ \cup (s.used \cap LogKeys(s))]

\* trackPage(): the page index is advanced, persisted and shipped.
TrackPage(s) ==
  Ship([s EXCEPT !.pageIdx = @ + 1, !.stPage = s.pageIdx + 1],
       BatchKey("page", s.sid, s.pageIdx + 1))

\* One event reaches the emit callback of a recorder, n times if n recorders
\* observe the document.  Its tag is the visit it was recorded in, 0 when no
\* visit was running.
Push(s, n) ==
  [s EXCEPT !.buffer = Newest(@ \o [i \in 1..n |-> IF s.stopped THEN 0 ELSE s.sid],
                              MaxBuffer)]

\* Mutant of EmitPageEvent: any event counts as activity.
EmitAnyEvent(s, n, full) ==
  [Push(s, n) EXCEPT !.idleAge = 0, !.stale = @ /\ ~full]

\* emit() of an event the page caused itself; full: it is a full snapshot.
EmitPageEvent(s, n, full) ==
  IF s.idleAge > GRACE
  THEN [s EXCEPT !.skipping = TRUE, !.stale = TRUE]
  ELSE [Push(s, n) EXCEPT !.stale = @ /\ ~full]

\* Mutant of EmitInteraction: no snapshot is queued after a discarded stretch.
EmitWithoutResync(s, n) ==
  [Push(s, n) EXCEPT !.idleAge = 0, !.skipping = FALSE]

\* emit() of an event a person caused: it postpones the idle timeout, and
\* leaving a discarded stretch queues a resynchronising full snapshot.
EmitInteraction(s, n) ==
  [Push(s, n) EXCEPT !.idleAge  = 0,
                     !.skipping = FALSE,
                     !.resync   = @ \/ s.skipping]

\* startRecording(): record() installs a recorder, whose first event is a
\* full snapshot, and stopRecording now refers to this recorder.
StartRecording(s) ==
  IF ~RecordingEnabled THEN s
  ELSE EmitPageEvent([s EXCEPT !.recorders = @ + 1, !.owned = TRUE], 1, TRUE)

\* Mutant of StopRecording: a second call stops a recorder again.
StopRecordingAgain(s) == [s EXCEPT !.recorders = @ - 1, !.owned = FALSE]

\* stopRecording?.(): stops the recorder it refers to, if that still runs.
StopRecording(s) ==
  [s EXCEPT !.recorders = IF s.owned THEN @ - 1 ELSE @, !.owned = FALSE]

\* Mutants of EndSession: the tail of the visit stays buffered; the recorder
\* keeps running; only a visible visit is ended.
EndSessionUnflushed(s) ==
  IF ~Running(s) THEN s
  ELSE [StopRecording([s EXCEPT !.stopped = TRUE]) EXCEPT !.wakeArmed = TRUE]

EndSessionRecording(s) ==
  IF ~Running(s) THEN s
  ELSE [FlushLogs(Flush([s EXCEPT !.stopped = TRUE])) EXCEPT !.wakeArmed = TRUE]

EndSessionVisible(s) ==
  IF ~Running(s) \/ ~s.visible THEN s
  ELSE [StopRecording(FlushLogs(Flush([s EXCEPT !.stopped = TRUE])))
          EXCEPT !.wakeArmed = TRUE]

\* endSession(): final batches, then the recorder stops and wake-up listeners
\* are installed.
EndSession(s) ==
  IF ~Running(s) THEN s
  ELSE [StopRecording(FlushLogs(Flush([s EXCEPT !.stopped = TRUE])))
          EXCEPT !.wakeArmed = TRUE]

\* The tail of a visit that is split while it runs.
Finalize(s) == [FlushLogs(Flush(s)) EXCEPT !.splits = @ + 1]

\* A new id, and the per-visit counters and their stored copies (all but
\* trace_ux_seq) reset.
Renew(s) ==
  LET id == s.minted + 1
  IN [s EXCEPT !.stopped = FALSE, !.wakeArmed = FALSE,
               !.minted = id, !.sid = id,
               !.seq = 0, !.logSeq = 0, !.pageIdx = -1, !.activeMs = 0,
               !.idleAge = 0, !.tickAge = 0,
               !.stSid = id, !.stAge = 0, !.stLogSeq = 0,
               !.stPage = -1, !.stActive = 0]

\* newSession(finalize): optionally ship the tail of the outgoing visit, then
\* start another.
NewSession(s, finalize) ==
  TrackPage(StartRecording(Renew(IF finalize /\ ~s.stopped THEN Finalize(s) ELSE s)))

-----------------------------------------------------------------------------
\* A tab that has never loaded a tracked page.
InitTab ==
  [ page |-> "none", visible |-> TRUE, stopped |-> FALSE, wakeArmed |-> FALSE,
    hideArmed |-> FALSE, hideAge |-> 0,
    sid |-> 0, seq |-> 0, logSeq |-> 0, pageIdx |-> -1, activeMs |-> 0,
    idleAge |-> 0, tickAge |-> 0,
    buffer |-> << >>, logBuffer |-> << >>,
    recorders |-> 0, owned |-> FALSE, skipping |-> FALSE, resync |-> FALSE,
    stSid |-> 0, stAge |-> 0, stSeq |-> 0, stLogSeq |-> 0, stPage |-> -1,
    stActive |-> 0,
    minted |-> 0, used |-> {}, clash |-> {}, filed |-> {},
    stale |-> FALSE, splits |-> 0 ]

Init == tab = InitTab /\ cached = {}

\* The document goes away; the tab keeps its sessionStorage.
Unload(s) ==
  [s EXCEPT !.page = "none", !.buffer = << >>, !.logBuffer = << >>,
            !.recorders = 0, !.owned = FALSE, !.skipping = FALSE, !.resync = FALSE,
            !.hideArmed = FALSE, !.hideAge = 0, !.wakeArmed = FALSE, !.stale = FALSE]

\* The bootstrap of start(): the visit is stored, recorded and its page sent.
Bootstrap(s) ==
  TrackPage(StartRecording(
    [s EXCEPT !.stSid = s.sid, !.stAge = 0, !.stLogSeq = s.logSeq]))

\* Does start() mint an id instead of resuming the stored visit?
Fresh(s) == s.stSid = 0 \/ s.stAge > TTL \/ s.stActive >= CAP

\* The variables of a script that starts in a document of visibility v.
Resume(s, v) ==
  [Unload(s) EXCEPT
     !.page = "live", !.visible = v, !.stopped = FALSE,
     !.minted   = IF Fresh(s) THEN @ + 1 ELSE @,
     !.sid      = IF Fresh(s) THEN s.minted + 1 ELSE s.stSid,
     !.seq      = IF Fresh(s) THEN 0 ELSE s.stSeq,
     !.logSeq   = IF Fresh(s) THEN 0 ELSE s.stLogSeq,
     !.pageIdx  = IF Fresh(s) THEN -1 ELSE s.stPage,
     !.activeMs = IF Fresh(s) THEN 0 ELSE s.stActive,
     !.idleAge = 0, !.tickAge = 0, !.splits = 0]

\* start(), from the moment the configuration has arrived.  A document may be
\* loaded in a background tab, which raises no visibilitychange event; init()
\* again after stop() runs start() in the same document.
LoadPage ==
  /\ tab.page # "live"
  /\ Fresh(tab) => tab.minted < MaxSessions
  /\ ~Fresh(tab) => tab.stPage < MaxPages /\ tab.stSeq < MaxSeq
  /\ \E v \in BOOLEAN : /\ tab.page = "disposed" => v = tab.visible
                        /\ tab' = Bootstrap(Resume(tab, v))
  /\ UNCHANGED cached

\* A click, key or scroll: every live recorder emits it; when the wake-up
\* listeners are installed it starts a new visit (onWake).
Interact ==
  /\ tab.page # "none" /\ tab.visible
  /\ tab.recorders > 0 \/ tab.wakeArmed
  /\ tab.seq < MaxSeq
  /\ tab.wakeArmed => tab.minted < MaxSessions
  /\ LET s == IF tab.recorders > 0 THEN EmitInteraction(tab, tab.recorders) ELSE tab
     IN tab' = IF s.wakeArmed THEN NewSession(s, FALSE) ELSE s
  /\ UNCHANGED cached

\* The page mutates itself, or rrweb takes its periodic full snapshot.
PageMutates ==
  /\ tab.page # "none" /\ tab.recorders > 0
  /\ tab.seq < MaxSeq
  /\ \E full \in BOOLEAN : tab' = EmitPageEvent(tab, tab.recorders, full)
  /\ UNCHANGED cached

\* The zero-delay timer queued by emit(): takeFullSnapshot, which throws when
\* nothing is recording.
Resync ==
  /\ tab.page # "none" /\ tab.resync
  /\ tab' = LET s == [tab EXCEPT !.resync = FALSE]
            IN IF s.owned THEN EmitPageEvent(s, 1, TRUE) ELSE s
  /\ UNCHANGED cached

\* captureLog(): a console call of a selected severity.
CaptureLog ==
  /\ Running(tab) /\ RecordingEnabled /\ LogsEnabled
  /\ tab.logSeq < MaxLogs
  /\ tab' = [tab EXCEPT !.logSeq    = @ + 1,
                        !.stLogSeq  = tab.logSeq + 1,
                        !.logBuffer = Newest(Append(@, tab.logSeq + 1), MaxLogBuffer)]
  /\ UNCHANGED cached

\* onRouteChange(): the URL changed without a document load.
RouteChange ==
  /\ Live(tab)
  /\ tab.pageIdx < MaxPages
  /\ tab' = TrackPage(tab)
  /\ UNCHANGED cached

\* The flush timer.
FlushTimer ==
  /\ Live(tab)
  /\ tab' = FlushLogs(Flush(tab))
  /\ UNCHANGED cached

\* The heartbeat timer.
Heartbeat ==
  /\ Live(tab)
  /\ LET idle == tab.idleAge > IDLE
         full == tab.activeMs >= CAP
     IN \/ /\ tab.stopped \/ ~tab.visible
           /\ tab' = [tab EXCEPT !.tickAge = 0]
        \/ /\ ~tab.stopped /\ tab.visible /\ idle
           /\ tab' = EndSession(tab)
        \/ /\ ~tab.stopped /\ tab.visible /\ ~idle /\ full
           /\ tab.minted < MaxSessions
           /\ tab' = NewSession(tab, TRUE)
        \/ /\ ~tab.stopped /\ tab.visible /\ ~idle /\ ~full
           /\ LET active == Aged(tab.activeMs, tab.tickAge, CAP)
              IN tab' = [tab EXCEPT !.activeMs = active, !.stActive = active,
                                    !.stAge = 0, !.tickAge = 0]
  /\ UNCHANGED cached

\* visibilitychange to hidden: ship what is pending, arm the hide timer.
Hide ==
  /\ tab.page # "none" /\ tab.visible
  /\ tab' = IF ~Live(tab) THEN [tab EXCEPT !.visible = FALSE]
            ELSE [FlushLogs(Flush(tab)) EXCEPT !.visible = FALSE,
                                               !.hideArmed = TRUE, !.hideAge = 0]
  /\ UNCHANGED cached

\* visibilitychange to visible.
Show ==
  /\ tab.page # "none" /\ ~tab.visible
  /\ Live(tab) /\ tab.stopped => tab.minted < MaxSessions
  /\ LET s == [tab EXCEPT !.visible = TRUE]
     IN tab' = IF ~Live(s) THEN s
               ELSE LET t == [s EXCEPT !.hideArmed = FALSE, !.hideAge = 0]
                    IN IF t.stopped THEN NewSession(t, FALSE) ELSE t
  /\ UNCHANGED cached

\* setTimeout(endSession, SESSION_TTL_MS) expires.
HideTimer ==
  /\ Live(tab) /\ tab.hideArmed /\ tab.hideAge >= TTL
  /\ tab' = EndSession([tab EXCEPT !.hideArmed = FALSE, !.hideAge = 0])
  /\ UNCHANGED cached

\* shutdown(), the handle's stop().
Shutdown ==
  /\ Live(tab)
  /\ LET s == IF tab.stopped THEN StopRecording(FlushLogs(Flush(tab))) ELSE EndSession(tab)
     IN tab' = [s EXCEPT !.page = "disposed", !.stopped = TRUE, !.wakeArmed = FALSE,
                         !.hideArmed = FALSE, !.hideAge = 0]
  /\ UNCHANGED cached

\* onPageHide(), then the document goes away.
Navigate ==
  /\ tab.page # "none"
  /\ tab' = Unload(IF Live(tab) THEN FlushLogs(Flush(tab)) ELSE tab)
  /\ UNCHANGED cached

\* The browser discards the page without a pagehide event.
Discard ==
  /\ tab.page # "none"
  /\ tab' = Unload(tab)
  /\ UNCHANGED cached

\* onPageHide(), then the browser freezes the page with its script instead of
\* destroying it.
Freeze ==
  /\ BackForwardCache /\ Live(tab)
  /\ LET s == FlushLogs(Flush(tab))
     IN tab' = Unload(s) /\ cached' = {s}

\* The visitor goes back: the frozen script runs on, with its own variables
\* and the sessionStorage of the tab.
Restore ==
  /\ tab.page = "none"
  /\ \E m \in cached :
       tab' = [m EXCEPT
                 !.stSid = tab.stSid, !.stAge = tab.stAge, !.stSeq = tab.stSeq,
                 !.stLogSeq = tab.stLogSeq, !.stPage = tab.stPage,
                 !.stActive = tab.stActive, !.minted = tab.minted,
                 !.used = tab.used, !.clash = tab.clash, !.filed = tab.filed]
  /\ cached' = {}

Older(s) ==
  [s EXCEPT !.idleAge = Aged(@, 1, IDLE + GRACE + 1),
            !.tickAge = Aged(@, 1, CAP),
            !.stAge   = Aged(@, 1, TTL + 1),
            !.hideAge = IF s.hideArmed THEN Aged(@, 1, TTL) ELSE @]

\* Time passes.
Tick == tab' = Older(tab) /\ cached' = {Older(m) : m \in cached}

Next ==
  \/ LoadPage \/ Interact \/ PageMutates \/ Resync \/ CaptureLog \/ RouteChange
  \/ FlushTimer \/ Heartbeat \/ Hide \/ Show \/ HideTimer \/ Shutdown
  \/ Navigate \/ Discard \/ Freeze \/ Restore \/ Tick

Spec == Init /\ [][Next]_vars

\* Time passes, setInterval keeps calling the heartbeat, and an expired
\* setTimeout is called: what the browser promises to a page it has loaded.
FairSpec == Spec /\ WF_vars(Tick) /\ WF_vars(Heartbeat) /\ WF_vars(HideTimer)

-----------------------------------------------------------------------------
Flags(s) ==
  /\ s.visible \in BOOLEAN /\ s.stopped \in BOOLEAN /\ s.wakeArmed \in BOOLEAN
  /\ s.hideArmed \in BOOLEAN /\ s.owned \in BOOLEAN /\ s.skipping \in BOOLEAN
  /\ s.resync \in BOOLEAN /\ s.stale \in BOOLEAN

Numbers(s) ==
  /\ s.sid \in Nat /\ s.seq \in Nat /\ s.logSeq \in Nat /\ s.pageIdx \in Int
  /\ s.activeMs \in Nat /\ s.idleAge \in Nat /\ s.tickAge \in Nat /\ s.hideAge \in Nat
  /\ s.stSid \in Nat /\ s.stSeq \in Nat /\ s.stLogSeq \in Nat /\ s.stPage \in Int
  /\ s.stActive \in Nat /\ s.stAge \in Nat
  /\ s.minted \in Nat /\ s.splits \in Nat /\ s.recorders \in Nat

Buffers(s) == s.buffer \in Seq(Nat) /\ s.logBuffer \in Seq(Nat)

Ledger(s) ==
  /\ s.used \in SUBSET Key /\ s.clash \in SUBSET Key
  /\ s.filed \in SUBSET [of : Nat, as : Nat, splits : Nat]

Typed(s) ==
  /\ DOMAIN s = DOMAIN InitTab
  /\ s.page \in {"none", "live", "disposed"}
  /\ Flags(s) /\ Numbers(s) /\ Buffers(s) /\ Ledger(s)

\* Type invariant; in particular no recorder is stopped that does not run.
TypeOK == Typed(tab) /\ \A m \in cached : Typed(m)

\* No two batches leave the tab under the same (kind, session, number) key,
\* across page loads, discarded pages, expired visits and 2h splits: the
\* server stores a batch under that key, so a second one would overwrite the
\* first (transport comment at "let retriesInFlight", main.ts).
NoClash == tab.clash = {}

\* An event is shipped under the id of the visit it was recorded in, on every
\* page that has not been through a 2h split (newSession's comment: buffered
\* events must not "carry the NEW session id").
FiledRight == \A f \in tab.filed : f.splits = 0 => f.of = f.as

\* A running recorder whose recorded DOM is stale (mutations were discarded
\* while nobody was there) is either still discarding or has a full snapshot
\* queued: no event that refers to unknown nodes is left without a resync.
ResyncAfterSkip == tab.owned /\ tab.stale /\ ~tab.skipping => tab.resync

\* At most one recorder observes the document, none once the visit is over,
\* as long as the page has not been through a 2h split.
OneRecorderUntilSplit ==
  tab.splits = 0 => tab.recorders = IF Running(tab) /\ RecordingEnabled THEN 1 ELSE 0

\* "Only one recorder may own the page or every copy will emit its own
\* stream" (init, main.ts).
OneRecorder == tab.recorders <= 1

\* A visit whose tab was hidden while it ran ends: the hide timer fires,
\* unless the tab is shown again or the page goes away.
HiddenVisitEnds ==
  (Running(tab) /\ tab.hideArmed) ~> (~Running(tab) \/ tab.visible)

\* Steps nobody is there for: the page may mutate itself (a step that is an
\* interaction too resets nothing the page could not), no tab is shown again.
Unattended == (Interact => PageMutates) /\ ~Show

\* An unattended visible visit does not run for ever, whatever the page does
\* to its own DOM (IDLE_TIMEOUT_MS, main.ts: "no interaction for this long
\* ends the visit").
IdleVisitEnds ==
  <>[][Unattended]_vars => <>[](~Running(tab) \/ ~tab.visible)
=============================================================================
