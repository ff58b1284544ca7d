# TraceUX: a verification of its core

TLA+ models of the parts of TraceUX where the order of events decides what is
right: the visitor's browser (recording, transport, widget, feedback), the
server that stores what it is sent and works in the background, and the pages
of the dashboard, whose requests are answered in any order. TLC checks the
models on small instances; TLAPS proves most of their safety properties for
every instance.

Every definition is a translation of the source. `PROJECT.json` gives, for each
one, the lines it stands for; the comment above it names the function where the
name alone does not. Lines of code are given below as `file:line` of the
repository.

Contents: 1 the system, 2 the modules, 3 the runs, 4 fairness, bounds and
deadlock, 5 the proofs, 6 what the code does against its comments, 7 what is
not modelled, 8 plan.

## 1. The system

TraceUX has three programs. The **tracker** (`tracker/src`, TypeScript) runs on
a customer's site: it records the visit, ships batches, and shows the widget
with announcements, support tickets and feedback campaigns. The **server**
(`server/`, Go) stores everything in SQLite (`server/store`), serves the
dashboard's API, raises alerts, builds exports and the search index, and cleans
up. The **dashboard** (`dashboard/src`, React) replays recordings and shows the
rest.

| Component | State it keeps | Interacts with | What is hard | What makes it correct | Module |
|---|---|---|---|---|---|
| Tracker: visit lifecycle (`main.ts`) | session id, counters, buffers, recorder, timers; copies in sessionStorage | rrweb, browser events, transport | page loads and discards between two steps, back/forward cache, three ways a visit ends | keys never reused, events filed under their visit, stale DOM resynchronised, one recorder, abandoned visits end | `TrackerSession` |
| Tracker: transport and ingest (`main.ts` 541-595, `ingest.go`, `store/ingest.go`, `store/sites.go`) | retries in flight; sessions, chunks, pages, events, logs, feedback | limiter, alerts, deletion, sweeps | requests interleave between SQL statements; duplicates, reordering, crashes | acknowledged implies stored, counted once, one alert per row, closed pages stay closed | `UploadLog`, `IngestStore` |
| Tracker: start-up, handle, wrappers (`main.ts`, `react.ts`, `snippet.ts`) | the mark on the window, the queued handle | host page, configuration endpoint | stop while the configuration loads, two integrations on a page | one owner of the page, promises settle | `TrackerHandle`, `TrackerHost` |
| Feedback campaigns (`store/feedback_campaigns.go`, `main.ts`) | deliveries and their states | widget, ingest, other tabs | reservations that expire, late and lost requests, two tabs | not repeated before its time, outcomes count | `FeedbackCampaign`, `TrackerHost` |
| Tracker: widget (`widget.ts`) | panel, lists, conversation, toast, badges, launcher, socket, polls | server, visitor, browser | answers, events and timers in any order, destroy() in between | shows its state, always has a source of news, no endless loader, silent after destroy | `WidgetPanel`, `WidgetUpdates`, `WidgetTickets`, `Widget` |
| Session exports (`session_export.go`) | jobs, one slot, temp files, timers | worker goroutine, store | worker without the lock, timers firing while it finishes, shutdown | one preparation, no file leaked, only complete files offered, all expire | `ExportJobs` |
| Search index (`store/search_index.go`, `Settings/`) | phase, cursors, triggers, error; the card and its poll | all indexed tables | triggers and batches index the same rows, restarts, a switch during a step | ready means whole, work is taken up, the switch stands as stored | `SearchIndex` |
| Slack settings (`slack*.go`, `IntegrationsTab/`, `useSlackSystemIntegration.ts`) | webhooks, routing, rules; the forms | server | secrets that are never shown, answers lost | the form shows what is stored, what is on can be sent, untouched secrets kept | `SlackSettings` |
| Dashboard: replay (`useReplay.ts`, `useReplayPlayer.ts`) | window of events, loader, player | server, React commits | seeks during loads, rebases, resizes | no broken stream in the player, seeks land, playback resumes | `ReplayStream`, `Replay` |
| Dashboard: recordings, logs, export, inbox, set-up | rows, cursors, caches, polls, sockets | server | stale answers, deletions in between, leaving half-way | lists whole, one stream, nothing left running, catches up | `SessionsList`, `LogsList`, `ExportTab`, `TicketsInbox`, `SetupWizard`; `Dashboard` composes them |
| Dashboard: reports, performance, linked log, fields, feedback, widget settings, announcements, services | rows, forms, requests in flight | server | answers overtaken by the next question | what is shown is what is asked, what is awaited comes, what is sent is what was shown | `ReportLibrary`, `ReportForm`, `ReportBuilder`, `ReportView`, `PerformancePage`, `LinkedLog`, `Fields`, `FeedbackPage`, `SiteSettings`, `AnnouncementsPage`, `ServiceKeys`; `Console` composes them with `SearchIndex` and `SlackSettings` |
| Recording CSS deduplication, space and retention sweeps, rate limiting, widget socket, delivery of notifications, sign-in and sharing, queries, sites and health, schema, the rest of the dashboard | | | | | not modelled, section 7 |

Two facts about the store shape every model of the server. `SetMaxOpenConns(1)`
on the write connection (`store/store.go`) makes each statement atomic and lets
concurrent requests interleave only *between* statements; a transaction holds
the connection, so it is one step. And chunks, pages, logs and custom events
reference their session with a foreign key and cascade, while feedback does not.

One fact shapes every model of the browser. A script runs to completion: a
handler is one step however many functions it calls, and what other handlers can
do lies between an `await`, a timer or an event and its continuation. A module
about a large script (`TrackerSession`, the widget, the replay) therefore keeps
its state in one record and translates each function into an operator from such
a record to the next, so that a handler is a composition of them.

## 2. The modules

### TrackerSession

One tab: the page loaded in it, its script, and its sessionStorage (fields with
the prefix `st`); `cached` is the page in the back/forward cache. `LoadPage` is
`start()` once the configuration is there; `Interact` and `PageMutates` are
rrweb's emit callback for events of a person and of the page; `Resync` is the
zero-delay snapshot timer; `CaptureLog`, `RouteChange`, `FlushTimer`,
`Heartbeat`, `Hide`, `Show`, `HideTimer` and `Shutdown` are the functions of
those names; `Navigate` is `pagehide` and the end of the document; `Discard`
ends it without an event; `Freeze` and `Restore` are the back/forward cache;
`Tick` is time. Clocks are ages, saturated just above the largest bound they are
compared with. An event is the visit it was recorded in. Pings and hellos carry
no key and are left to `IngestStore`. `used`, `clash`, `filed`, `stale` and
`splits` are ghosts.

### UploadLog and IngestStore

`UploadLog` says what the endpoint promises whatever happens in between: only
batches that were sent are stored, a batch is acknowledged only when it is
stored or was erased after it was stored, and nothing is taken back.

`IngestStore` is the whole path. Tracker: `Send`, `RetryTimer`, `Fault` (fetch
rejects, whatever the server did), `Receive`, `EndVisit`, `Leave`. Network:
`Lose`; a batch retried after `Fault` while its first request is still being
handled gives the concurrent duplicates. Server, one SQL statement per action:
`Arrive`, `Check` and `Recheck` (the two queries of CanStartRecording), `Ensure`
and `Owner` (EnsureSessionForSite), `WriteRow`, `WriteLogs`, `WriteFeedback`,
`WriteSession`, `ClosePrevious`, `TouchEvents`, `Touch`. Failure:
`StatementFails`, `Crash`. Others: `DeleteSession`, `SweepSessions`,
`SweepRows`, `ToggleRecording`. A batch is named by the order in which it was
sent; it stands for a unique key, which is what `TrackerSession!NoClash`
establishes. A 204 (recording switched off, limit reached) drops the batch and
the tracker takes it for success: the model does the same and does not count it
as acknowledged. The columns no property tells apart (duration, page_count,
exit_url, attribution) are left out.

### ExportJobs

Tasks are jobs with their worker goroutine, or direct downloads. Every section
under `exportMu` is one action; what a worker does without it (`CreateFile`,
`WriteChunk`, `WriteEnd`, `WriteFails`) are actions too. `TimerFires` only
starts removeSessionExport, which still has to get the lock: between the two the
worker may finish and reset the timer. Status and download change no state.

### FeedbackCampaign, TrackerHandle, TrackerHost

A page with the tracker on it. `TrackerHost` has the script tag, the React
providers (StrictMode mounts twice), the guard on the window, and the deliveries
of the server, which another tab of the visitor reserves too. `TrackerHandle` is
the handle `init()` returns, from queued to active, failed or stopped, with the
calls, claims and campaigns that wait in it. `FeedbackCampaign` is the running
tracker with its widget as far as campaigns go: reserve, load the widget's code,
mount, open, shown, answered or dismissed. What calls carry, occurrence ids and
the editing of a campaign are left out.

A request about a delivery is in two places: `out` while the page waits for its
answer, `wire` until the server has handled it. The page may give up one that the
server handles later (`RequestLost`), and the server may have handled one whose
reply is lost. "Shown", "dismissed" and "skipped" are fetches made once
(`main.ts:1040`, 1201); an answer goes through send(), transmit() and
scheduleRetry() (541-595) and is sent up to MAX_SEND_RETRIES times more
(`RequestRetried`, `RetryTimer`), as the request it was, so the server may get an
answer it has stored already. That the visit has ended (`stopped`) and the ceiling
of retries in flight, which scheduleRetry() looks at too, are reasons to give up
like others (`RequestLost`).

### Widget

`WidgetPanel` is the shell: the launcher that is dragged, panel, sections, toast,
badges, form. `WidgetUpdates` and `WidgetTickets` add the sections that talk to
the server, and `Widget` composes them with the socket, the browser's timers,
the visitor and the server's tables, from mounting to destroy(). A request in
flight carries the answer once the server has computed it, so that answers may
be stale when they arrive. Left out: likes, animations, the glide after a flick,
sounds, one of the launcher's two axes, its place remembered from an earlier
page (every page starts with a launcher in its corner), and what forms contain;
losses happen before an answer is computed; an aborted load vanishes at once. A
page has some of the sections; which one its panel starts with (`FirstSection`)
follows from the order stored for the site, and a server event reaches a page by
the channel of what it is about. A ticket is the authors of its messages, of
which it has at least one (`Written`).

### Replay

`ReplayStream` is the loader with its window (boot, prefetch, extend, reload,
rebase, queued seeks); `Replay` adds the rrweb player (seek, toggle, resize,
finish) and the commits and effects of React between the two: state set by a
task reaches the player only with a commit. A chunk of
the recording is a page of the server and holds two events. Left out: autoplay,
speed, skipping of inactive time, fullscreen, deletion, a change of recording
inside the page, the shared replay.

### Dashboard

Five pages against the server; one is open, chosen at the start, and the others
stay as they are. `SessionsList`: pages under a query, the cache of results, the
way back from a replay, which may have deleted its recording. `LogsList`: live
refresh and older pages merged into one stream, restarts under other filters. Its
server deletes any logs at once: those of a recording go with it
(`store/store.go:585`, ON DELETE CASCADE) and retention is per site
(`store/sites.go:599`), so they are not the oldest. The next log gets the number
after the highest there is (583), which may be that of a deleted one. `purged`
remembers the deleted numbers for the property. The bounds of the time range,
which a refresh also applies to the rows it keeps, are part of the filter.
`ExportTab`: exportSession() step by step, canceled or left at every step.
`TicketsInbox`: list, conversation, polls and socket. `SetupWizard`: one draft
edited by several steps, and the check of the installation with its window.

### Console

Fourteen more, composed in the same way.

* `ReportLibrary`: rows under a filter; a few workers fetch the cards' totals.
* `ReportForm` (pure: the rule as the form holds it, as it is stored, what the
  editor and the server demand) and `ReportBuilder` (the editor with its
  scheduled preview and the services of the site).
* `ReportView`, `PerformancePage`, `LinkedLog`: a report's numbers for a range,
  the performance report beside its endpoint list, the log of the address.
* `Fields`: the field with suggestions and the text that is passed on late.
* `FeedbackPage`, `AnnouncementsPage`: lists under choices, their dialogs.
* `ServiceKeys`: services, keys that are shown once, rotation and revocation.
* `SiteSettings`: the draft of the widget, its colour, the order by dragging.
* `SearchIndex`: the worker's steps, errors and reminders, the triggers beside
  it, the low-disk guard, restarts, and the card with its poll and switch. A row
  id is one more than the largest in use, so that of a deleted last row comes
  again, as in SQLite.
* `SlackSettings`: both forms, what the server accepts and stores. A secret is
  never given back; an empty field keeps it.

`DashboardValues` declares `None`. `MCConsole`, `MCReplay`, `MCTrackerHost` and
`MCWidget` define the pages, recordings and sets their configurations name; the
other configurations instantiate a module directly. Operators whose comment
says "Mutant of" are plausible faults: each property of each run is violated
when its mutant takes the place of the definition it is named after.

## 3. The runs

| Run | Module and configuration | Checks | What it shows |
|---|---|---|---|
| `tracker_session` | `TrackerSession`, `MCTrackerSession` | TypeOK, NoClash, ResyncAfterSkip, HiddenVisitEnds, IdleVisitEnds | Through page loads, discards, hiding, idling, splits and stop(): keys stay unique, a discarded stretch of mutations is followed by a snapshot, visits nobody attends end |
| `tracker_cached` | `TrackerSession`, `MCTrackerCached` | FiledRight, OneRecorderUntilSplit | With the back/forward cache and console capture: events are shipped under their own visit, and one recorder runs while the visit does |
| `tracker_two_recorders` | `TrackerSession`, `MCTrackerTwoRecorders` | OneRecorder, violated | Section 6 |
| `ingest_events` | `IngestStore`, `MCIngestEvents` | AckedIsStored, CountExact, UploadSpec | Duplicated, reordered, lost, cut short by failures and crashes, deleted meanwhile: a 200 is true, events are counted once, the endpoint implements `UploadLog` |
| `ingest_rows` | `IngestStore`, `MCIngestRows` | NotifiedOnce, ClosedStaysClosed | Each kind of batch under the limit, the sweeps and a clock: one alert per row, a closed page is never reopened |
| `export_jobs` | `ExportJobs`, `MCExportJobs` | OnePreparation, NoOrphanFile, ReadyIsComplete, NothingAfterClose, JobsExpire | Three tasks over one slot, canceled, expired, late, failing, shut down |
| `widget` | `Widget`, `MCWidget` | ShowsItsState, ToastYields, FeedSource, LauncherOnScreen, SilentAfterDestroy | Pages with a visitor, staff who publish and answer, a socket that closes, requests that fail, a hidden tab |
| `widget_live` | `Widget`, `MCWidgetLive` | LoaderEnds, FeedFresh | With polls only: no conversation loads for ever, the list agrees with the server again and again |
| `tracker_host` | `TrackerHost`, `MCTrackerHost` | ExclusiveOwner, NoRepeat, AnswerCounts, ClaimsSettle | Script tag, providers, host, visitor and another tab: one tracker owns the page, a campaign is shown once per recurrence, its outcome counts unless it already did or the server did not know it was shown |
| `replay` | `Replay`, `MCReplay` | PlayerWhole, SeekLands, PlaybackContinues | Snapshots at the start of a chunk, inside one, in the last event, far apart, without an index; two seeks and a resize |
| `dashboard` | `Dashboard`, `MCDashboard` | ListIsWhole, OneStream, NothingLeftRunning, InboxCatchesUp | Requests answered in any order, lost or overtaken; recordings and logs deleted in between |
| `console` | `Console`, `MCConsole` | ShownIsAsked, AwaitedComes, SentAsShown, IndexFollows, SettingsAsShown | The same for fourteen pages: each property is the conjunction of what each page owes in that respect |

## 4. Fairness, bounds and deadlock

**Fairness.**

* `TrackerSession!FairSpec`: time passes, `setInterval` keeps calling the
  heartbeat, an expired `setTimeout` is called. A browser may throttle timers of
  a hidden page but does call them; a page that is frozen or discarded is
  modelled as such, and its visit is not running. Nothing is assumed of persons
  or of the page.
* `ExportJobs!FairSpec`: a worker goroutine is scheduled, a timer that is due
  fires, its callback gets the mutex, time passes. A response nobody reads ends
  by `WriteTimeout: 60 * time.Second` (`server/main.go`).
* `Widget!FairSpec`: requests are answered (or lost, which a bound keeps from
  going on for ever) and their answers handled, and the poll timer of the list
  fires. The visitor and the staff owe nothing.
* `TrackerHost!FairSpec`: a request for the configuration or for a claim ends,
  one way or the other, within the time a browser gives it.
* `Replay!FairSpec`: a request ends, an expired 0 ms timer runs, React commits.
  It is written with the guards in the place of ENABLED, which TLC evaluates far
  faster on these actions. The operator owes nothing, and the player's clock is
  not assumed to reach the end.
* `TicketsInbox!InboxFairness`: the polls fire, of the requests of one kind that
  keep being made the server answers some (SF: each of them may be lost), and
  answers are handled.

No fairness is used in `IngestStore`: the code gives up after MAX_SEND_RETRIES,
so nothing is promised eventually.

**Bounds.** Ages are small and in the order of the program's (idle and hidden
end a visit before the 2 h cap splits it; mutations are discarded before that).
`tracker_session` has two visits, two batches of a kind and one page view per
visit, with buffers of two: every counter is used, stored, resumed and reset,
and each timeout separates just before from just after. `tracker_cached` trades
the numbers for the cache and the log buffer. `ingest_events` has two batches
with one retry each, so that two requests of one batch and one of another are
under way at once; `ingest_rows` restricts itself by the constraint `Scenario`
to batches of one kind (both sessions only for events, where the limit of one
recording matters), since rows of different kinds never meet. `export_jobs` has
one slot and three tasks: the slot is full while a direct download or a canceled
worker runs, and a third task asks again. The widget's and the host's pages are
listed in `MCWidget` and `MCTrackerHost`: each has what is needed for one
interplay (two tickets, one of them answered; a socket that drops; a request
that is lost) and a budget of one or two for each kind of event; all of them
together would be out of reach. The icon of the launcher is two wide in `widget` and never widens
it, so that a width which changes with the icon is covered by
`LauncherStays` (section 5) alone. Of the host's ten pages, those with a campaign may
lose a request or two: a shown request that is given up and handled later, an
answer sent again after it was stored. `replay` has five chunks at most, a window of two
ahead and a span of four, so that extension, rebase and reload all happen.
`dashboard` uses pages and caches of one recording, so that three need three
pages, and two changes by others; its logs are three of two kinds, in pages of
two, of which one number may be deleted: enough for a row whose log is gone to be
put behind an older one. `console` has two of most things, three
endpoints over two environments and two versions, two recordings with a log,
and three mishaps in the search index: a switch during a step, a restart and a
failing statement fit in.

**Deadlock** is checked in the runs of `TrackerSession`, `IngestStore` and
`ExportJobs`. The others may stop: a page whose events are used up and whose
requests have ended does nothing more.

## 5. The proofs

TLAPS checks all proofs with Z3, Zenon and LS4. A theorem holds for every value
of the constants that satisfies the assumptions named in the modules: bounds and
timeouts are natural numbers (positive where the code divides by them or a page
must make progress), sets that are counted are finite, `None` is none of the
values it stands beside, an order the server has names every section once, and a
worker of an export is never later than one TTL.
TLC evaluates each assumption in a run. Bounds of a model (`MaxSeq`, `MaxLoads`,
...) are arbitrary in the proofs, which therefore say nothing less than the
unbounded system would.

Each safety theorem follows one argument: an inductive invariant holds initially,
every action keeps it (one step of the proof per action), and it implies the
property. What has to be added to a property to make it inductive is the reason
why it holds; it is summarised here.

**`TrackerSession_proofs`.** `TypeCorrect`: one lemma per function of the script
that it maps a typed record to a typed one. Types alone are not inductive,
because stopping a recorder subtracts one: the recorder that stopRecording
refers to runs. `KeysNeverClash`, for a tab without a back/forward cache (with
one it is false, section 6): every key used so far lies below the counter in
memory and below the stored one, ids of used keys do not exceed the number of
ids minted, and buffered log lines are numbered below the counter, distinct and
not shipped. `EventsFiledRight`, `RecorderIsOne`, `SkippedIsResynced`, cached
pages included (`RecordInv`): a live visit runs exactly the recorder it owns and
one that is over none, a recorder that woke up has queued its snapshot, and the
buffer holds events of the visit it will be filed under.

**`IngestStore_proofs`.** `TypeCorrect`. `AcknowledgedIsStored`: a request past
its insert has its row, or the row was erased (a deletion between two statements
records its victims). `ImplementsUploadLog`: by one lemma, `StepEffect`, every
step leaves rows, acknowledgements and erasures alone, adds a row, erases rows,
or acknowledges one batch, and each of these is a step of `UploadLog` or a
stutter. `PagesStayClosed` is an action property. `CountIsExact` (`Exact`): each
session is torn, gone, between the two statements of SaveEvents, or its count is
the number of its event rows; rows refer to sessions that exist. `AlertedOnce`
(`Alerts`): unless its row was erased, a batch is notified at most once, no
request will notify it again, and before that at most one request, the one that
found the row absent, is going to.

**`ExportJobs_proofs`.** All safety properties of the run, and two more: every
job in the map has an exact expiry timer or its removal is on its way
(`AlwaysExpiring`), and there are never more than `MaxJobs` + 1 files
(`FilesStayBounded`). The invariant ties the file of a task to where its
goroutine is, a job in the map to the state of its task, and says that what an
armed timer loses, the age of its job gains.

**`TrackerHost_proofs`.** `OwnerIsOne` (`Owned`): whoever listens, starts, is
active or has an attempt under way is the owner recorded on the window.
`CampaignNotRepeated` and `OutcomeIsTaken` (`Spaced`, `Tokens`): of two
deliveries of a visitor the later was reserved after the cooldown of the earlier,
or after its reservation had expired unshown; a token is held by one tracker
only (on the wire, awaited, waiting to be sent again or behind its shown request),
and an outcome is refused for one of two reasons: the server has this outcome, or
it has not heard that the campaign was shown. In the second case nothing on the
way will tell it, unless the page had given up a shown request that is still on
the wire.

**`Dashboard_proofs`.** `RecordingsAreWhole`: the rows are all recordings of the
query down to the cursor, of which none is known to be deleted, and the cache
only keeps such lists; counting is over any finite set of recordings and any
sizes of page and cache. `LogsAreOneStream`: the rows whose logs were not deleted,
refreshes and older pages are falling sequences; a refresh on its way covers every
row of the page above its end that the server still has, an older page starts
below the last row or below one that is gone, and what the table gains gets a
number above all it has. `NothingIsLeft`: a job
on the server is held by an export that is alive or by its deletion on the way,
and a window by its check.

**`Console_proofs`.** One invariant per page, all in `PagesInv`
(`PagesAreWhole`). Of a page that asks: the request that counts carries the
question that is asked now, whatever else is in flight (`ShownAnswersAsked`; for
the performance page also that the choices offered contain the choice that is
made, for services that the key shown is the last one asked for, if its requests
were made one by one, and works once it is served). Of a page that waits: a card
that loads is before exactly one worker, a text announced is due, a list that is
not there is asked for or known to have failed (`AwaitedArrives`). Of a page that
sends: the form's checks and the server's agree on every form, a stored rule
comes back as it was, and the preview that lets a rule be saved was of that rule
(`SentIsShown`). Of the search index (`IndexAndSwitchFollow`): while the
triggers are at work, what is found exists, what exists is found or is still to
be built, and a log found is found by its id; a worker at a step has read the
switch as it is or is woken again; what a poll or a switch brings is as the
server has it unless an answer was lost. Of the settings (`SettingsFollow`): the
view of a Slack form came from what is stored, but between a save and its answer
or after an answer that was lost; forms say nothing about secrets nobody
touched; and the draft, a save under way and the answers are settings with a
colour (`ColourInv`). Every order that is stored, edited, saved or read has every
section once (`OrderInv`, from the assumption that the server's orders have: it
puts an order right whenever it reads one, `store/sites.go:289`), so the page shows
it as it is; taking a section out and putting it in twice is doing it once
(`ReorderedTwice`), so the way of the pointer does not matter, and in the slot it
came from it changes nothing. Rules of Slack that were cleaned have nothing left to
clean (`RulesInv`). Both rest on what a filter of a list yields, which
`DashboardValues` defines by counting the positions that are kept, not by recursion:
position and rank are a bijection (`RankOnto`), so what is kept is what was there,
in order.

**`Replay_proofs`.** `PlayerHoldsWindow`, for every recording: the events of the
player, those to be shown and those of the loader's window are runs of
consecutive events, the window's up to the end of the last page (`Content`). A
jump is between its reload, whose window begins with the chunk of a snapshot, and
its end (`Reloading`, `Tasks`). Only then, or until the commit that rebuilds the
player is done, does the player on screen hold something else than the window
(`Fed`), and nothing is fed to it in that time. Every function of the loader and
of the player has a lemma that says what it keeps.

**`Widget_proofs`.** `PreviewYields`, `NewsGoOn`, `LauncherStays`,
`DestroyedIsSilent`, for any numbers of announcements, tickets and loads in
flight and any set of widths that has a largest (the page opens in it). The
handlers are compositions of the functions of `widget.ts`, so the proof has one
lemma per function: each keeps `Base` (the toast yields, the launcher is inside
its room and a drag is a press, a destroyed widget has no timer and asks for
nothing) and either leaves the loads, the poll and the socket alone (`Kept`) or
says which source of announcements it takes and which one it leaves. `Sourced`
does not hold between the functions of a handler (a load that ends schedules the
next poll only afterwards), only at its end: every step is `Moved`, which adds
`Sourced`, or destroy().

`WidgetShowsItsState` says, for the same instances, that what is on the page is
what the widget knows, but for the exceptions section 6 lists, which ShowsItsState
names. `Shows` says it of the panel (its body is what its section renders from
the lists, the conversation and the drafts) and `Counts` of the badges. Neither
is inductive: a summary from an answer computed long ago is compared with the
ticket the server has now, a reply's answer is put on whatever is open, and a
conversation may hold messages of two tickets. So the invariant also follows what
was *said* (`Sound`): every summary, conversation, list and answer under way says
of a ticket what the server said of it at some time (`Said`, `Talk`), as does
every event on the wire (`Heard`, `Wired`); messages are added to a ticket and
never taken away (`Grown`), so what was said once stays sound. A function that is
called in the middle of a handler finds a panel that is not painted yet: its
lemma takes `Half`, which says nothing of the view of tickets, and gives `Good`
(Sound, Counts and Shows). Good of the widget, `Stored` of the server and Wired
are together `Telling`, which every step keeps. `WidgetAssumption` says what pages
there are: with a section at least, of which one is the first, and tickets with a
message at least.

**Only model-checked, and why.**

* HiddenVisitEnds, IdleVisitEnds, JobsExpire, LoaderEnds, FeedFresh,
  ClaimsSettle, SeekLands, PlaybackContinues, InboxCatchesUp: liveness needs
  fairness and ENABLED, which the provers do not have.

## 6. What the code does against its comments

Shown by a run that must find the violation: `tracker_two_recorders`. The 2 h
split calls `newSession(true)` (`main.ts:1391`), which starts a recorder without
stopping the one that runs; both push every event, and only the newer one can be
stopped. A comment says "Only one recorder may own the page or every copy will
emit its own stream" (`main.ts:438-439`). The properties about recording are
stated for pages without a split.

Met while modelling, visible in the definitions, without a run of their own:

*Tracker.* A page restored from the back/forward cache goes on with its own
counters while the page visited in between has advanced the stored ones, so two
batches may get one key (`main.ts:602`; comment 531-533). A tab loaded in the
background gets no visibilitychange and its heartbeat returns early: its visit
ends only once it is shown (1418; comment 1411). A fresh session inherits the
active time the expired one stored, if a second page loads before the first
heartbeat.

*Ingest.* CanStartRecording counts before the request stores, so two first
batches are both admitted under a limit of one (`store/sites.go:571`; comment
567). A hello sent before identify() and retried after it puts the earlier
identity back (`store/ingest.go:143`; comment 133-135). A page that arrives after
its successor is never closed. Feedback without a delivery token has no key, and
a retry stores it twice. A batch that arrives after its recording was deleted
creates it anew.

*Host and campaigns.* stop() while the configuration loads leaves listeners
behind (`main.ts:1274`; comment 168-169); ownership of the page is never released
(1457-1459), not even by a handle that opted out; a tracker stopped in that phase
still mounts its widget at a navigation; expand goes on after dispose
(1171-1206); a call of track() while expand imports the widget mounts a second
one (971); after a failed import in expand the widget is gone; an action-mode
site with updates opens feedback on a widget that lacks it; a skipped expand
keeps its reservation for 120 s; a late shown request is refused and its answer
is lost; an answer is refused, too, if the page gave up the shown request and it is
handled after the answer; an answer whose reply was lost is sent again and gets a
409 (`store/feedback.go:79-85`), which nobody sees; unmounting a React provider
stops the handle it shares with the script tag (437-440); the 0 ms end of a
campaign may destroy the next one.

*Widget.* A list answer older than a socket event overwrites it
(`widget.ts:2500`; comment 2421-2422); the answer to a reply in one ticket sets
the thread of another (2289); a repaint while a reply is sent enables the composer
again, so it can be sent twice (411-416); if the first GET fails, the first poll
announces everything; hideToast's end hides a newer toast; the answer to a new
ticket overwrites a newer summary; previews that arrive out of order repeat;
announcements by socket lose `commented` and `liked`; `submitted` stays true after
the form was closed. Four ways to show what is not so, which the proof of
ShowsItsState had to tell apart and the property names: a mark of "new" that is
due to expire loses its timer to any other syncBadges() and stays on the list
(1051-1064, called from 1571, 1855, 2283; `ListCurrent`); the thread of another
ticket, set by the answer to a reply (1566-1575), is changed by later events and
loads without a repaint (`Foreign`); Retry on what is left of one ticket, while
the delayed loader of another is pending, loads the former and aborts the latter,
whose loader then stays (1461-1465, 1501-1505, 1736-1752; `Delayed`); the answer
to a new ticket replaces a newer summary without a new count (1671-1680;
`Outrun`).

*Replay.* A seek is ordered by arrival of its task, not of the click
(`useReplay.ts:374`; comment 358-360); a paused seek inside the window that makes
the span too long rebases with play = true (`useReplay.ts:435`; comment
`useReplayPlayer.ts:219-222`); a queued seek without a snapshot after a prefetch
freezes the clock (403-406); a seek before the first snapshot is dropped; a resize
during a jump builds from part of a window; `finally` blocks of an earlier
recording act on the later one; toggle at the end restarts at the start of the
window.

*Dashboard.* The preview of a report is not scheduled when an edit goes from A to
B and back to A while B's is in flight (`useReportDefinition.ts:97-102`). Edits of
a skipped step are stored by a later save if their reload is slow or fails
(`Onboarding.tsx:79-84`); leaving a check half-way keeps its window and its poll
(433). A deleted recording comes back from the cache on some ways
(`useSessions.ts:44`). After a reconnection while the tab is hidden the inbox is
not reconciled (`useTickets.ts:136-140`); answers of changes are put on whichever
conversation is shown (211, 223, 241); older lists overwrite socket events (51,
86); ⌘↵ submits twice (`TicketThreadView` 116-118). The live refresh leaves a gap
when more than a page of logs arrives at once (`useLogs.ts:113-127`). It also keeps a
row whose log was deleted, behind the newest page: of [10, 9] in pages of two with
9 deleted it makes [10, 8, 9], which is not the latest first until the page is
loaded anew, and loadMore then asks below the deleted row (158), not below 8. Loading
after saveSettings discards edits (`useSiteDetail` 95). An invalid custom range
leaves the old numbers under a new report. A link from /logs to a log inside the
application does not run the effect again. Two timers of the text field that are
due before a render can lose one filter. Refreshing campaigns has no cancel flag,
a deleted response can come back from a load in flight, and the end of a save
closes another dialog. A failed read replaces the settings page.

*Services.* Two rotations at a time, answered or served out of order, show a key
that no longer works; any list that arrives resets the unsaved edits of all cards;
removing a legacy key clears the error of a failed load, so that the tab loads for
ever (`ServicesTab.tsx:124-133`); a rotation whose answer is lost leaves a key
that nobody saw.

*Announcements.* load() has no cancel flag, so a stale list can replace a newer
one (`useAnnouncements.ts:51, 57-60`); a save reloads with the site of its own
render and closes another editor (97); a save retried after a lost answer makes a
second draft; the end of a ticket's creation closes another ticket dialog
(`EngagementModal` 150); of a visitor's comments the oldest is shown with its time
although rows are sorted by last activity (`EngagementModal.helpers.ts` 33-39).

*Search index.* The id of a deleted last log comes again during the build and
hits the primary key of `session_search_log`; the error is recorded, and every
retry meets it again until the index is switched off. An error that cannot be
recorded leaves the worker silent. An error recorded after the switch cleared it
(`search_index.go:291`) keeps the worker idle until the switch is used again. A
failing first poll stops the polling. After an answer to a switch was lost, an
older answer to a poll shows the old position.

*Slack.* Cancel keeps what was typed, so a save replaces the secret while the
hint says it is kept (`WebhookField.tsx:21-24`); drafts of the mode that is not
shown are sent; edits during a save are reset by its answer; after a failed load
Enter in the only text field saves the defaults; two saves of two administrators
can leave a notification on without a webhook.

## 7. What is not modelled, and why

* A duplicated tab (two tabs with one copied sessionStorage): both number their
  batches alike; nothing in the code tells them apart.
* rrweb: a recorder emits events, and a full snapshot at its start. The browser:
  events and timers as above. SQLite: a statement is atomic, may fail, and is
  durable once it succeeded.
* Payload formats, validation, compression, sizes, the 64 MiB limit of an export
  (one reason among others for which a preparation fails).
* CSS deduplication: its failure leaves events as they are, so it does not touch
  what `IngestStore` states. Space sweep: what it deletes are steps of
  `IngestStore`, what it does to the index a step of `SearchIndex`; when it runs
  is arithmetic on sizes. Rate limiter: `IngestStore` lets it refuse anything.
* The registry of widget sockets (what a page sees of it, events lost or late, is
  in `Widget` and `TicketsInbox`), the delivery of notifications, sign-in and
  sharing, read-only queries, configuration rows, charts and presentation.
* On the pages that are modelled: names, wording, numbers and layout, and the
  parts each module names in its header.

## 8. Plan

Done: the models and runs above, and the proofs of section 5, which state every
safety property and action property of the passing runs. Next: the widget on a page
that remembers the launcher's place from an earlier one.
