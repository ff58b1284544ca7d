----------------------------- MODULE ExportJobs -----------------------------
(***************************************************************************)
(* Session exports (server/session_export.go): jobs that prepare a         *)
(* recording in a private temp file, kept for download until they are      *)
(* canceled or expire, and direct downloads, which prepare a file, serve   *)
(* it and remove it.  Handlers, expiry timers and the worker goroutine run *)
(* concurrently and hold exportMu for one step each; a task (a job with    *)
(* its worker, or a direct download) also takes steps without the lock     *)
(* while it writes its file.                                               *)
(*                                                                         *)
(* A job that is asked for again while it prepares is answered from the    *)
(* map, and status and download change no state, so owners and sessions    *)
(* are left out.  Time is counted per job, from its start and again from   *)
(* the end of its preparation.  A worker runs at most OVERRUN past its     *)
(* deadline, the time it may take to look at its context: the throttle     *)
(* pause ends with the context, and every chunk and write begins by        *)
(* looking at it.                                                          *)
(***************************************************************************)
EXTENDS Integers, FiniteSets

CONSTANTS MaxJobs,   \* maxSessionExportJobs
          TIMEOUT,   \* sessionExportTimeout
          TTL,       \* sessionExportTTL
          OVERRUN,   \* how late a worker may see its deadline
          CHUNKS,    \* chunks of a recording
          MaxTasks   \* bound: tasks started

ASSUME ExportAssumption ==
  /\ MaxJobs \in Nat /\ TIMEOUT \in Nat /\ TTL \in Nat /\ OVERRUN \in Nat
  /\ OVERRUN <= TTL /\ CHUNKS \in Nat /\ MaxTasks \in Nat

Tasks == 1..MaxTasks

VARIABLES started,   \* tasks started so far
          kind,      \* "job" or "direct"
          pc,        \* where the task's goroutine is
          canceled,  \* its context is canceled
          disk,      \* its temp file: "none", "partial" or "complete"
          chunks,    \* status.ChunksDone
          jobs,      \* the keys of exportJobs
          state,     \* status.State
          age,       \* time since the job started, or since it finished
          expiry,    \* what is left on the job's timer
          armed,     \* jobs whose timer runs
          fired,     \* removeSessionExport calls a timer has started
          busy,      \* exportBusy
          closed     \* exportClosed

vars == << started, kind, pc, canceled, disk, chunks, jobs, state, age, expiry,
           armed, fired, busy, closed >>

timers == << age, expiry, armed, fired >>

Init ==
  /\ started = 0
  /\ kind = [t \in Tasks |-> "job"] /\ pc = [t \in Tasks |-> "idle"]
  /\ canceled = [t \in Tasks |-> FALSE]
  /\ disk = [t \in Tasks |-> "none"] /\ chunks = [t \in Tasks |-> 0]
  /\ jobs = {} /\ state = [t \in Tasks |-> "preparing"]
  /\ age = [t \in Tasks |-> 0] /\ expiry = [t \in Tasks |-> 0]
  /\ armed = {} /\ fired = {}
  /\ busy = FALSE /\ closed = FALSE

\* A goroutine prepares or serves a file; it owns exportBusy.
Working(t) == pc[t] \notin {"idle", "done"}

\* The task's context is over.  The deadline of a direct download is among
\* the reasons for which its preparation may fail at any time.
Over(t) == canceled[t] \/ (kind[t] = "job" /\ age[t] >= TIMEOUT)

Set(f, t, v) == f' = [f EXCEPT ![t] = v]

-----------------------------------------------------------------------------
\* A new task's goroutine.
Start(k) ==
  /\ started < MaxTasks
  /\ started' = started + 1
  /\ Set(kind, started', k)
  /\ Set(pc, started', "create")
  /\ busy' = TRUE

\* Mutant of Prepare: the server may be closed.
PrepareClosed ==
  /\ ~busy /\ Cardinality(jobs) < MaxJobs
  /\ Start("job")
  /\ jobs' = jobs \cup {started'}
  /\ Set(expiry, started', TIMEOUT + TTL)
  /\ armed' = armed \cup {started'}
  /\ UNCHANGED << canceled, disk, chunks, state, age, fired, closed >>

\* handlePrepareSessionExport(), when it is not refused.
Prepare ==
  /\ ~closed /\ ~busy /\ Cardinality(jobs) < MaxJobs
  /\ Start("job")
  /\ jobs' = jobs \cup {started'}
  /\ Set(expiry, started', TIMEOUT + TTL)
  /\ armed' = armed \cup {started'}
  /\ UNCHANGED << canceled, disk, chunks, state, age, fired, closed >>

\* handleExportSession(), up to prepareSessionExport().
Direct ==
  /\ ~closed /\ ~busy
  /\ Start("direct")
  /\ UNCHANGED << canceled, disk, chunks, jobs, state, timers, closed >>

\* The client of a direct download disconnects.
Disconnect(t) ==
  /\ kind[t] = "direct" /\ Working(t) /\ ~canceled[t]
  /\ Set(canceled, t, TRUE)
  /\ UNCHANGED << started, kind, pc, disk, chunks, jobs, state, timers, busy, closed >>

\* prepareSessionExport(): the temp file is created.
CreateFile(t) ==
  /\ pc[t] = "create"
  /\ Set(disk, t, "partial") /\ Set(pc, t, "write")
  /\ UNCHANGED << started, kind, canceled, chunks, jobs, state, timers, busy, closed >>

\* WriteSessionExportWithOptions(): a chunk is written and reported.
WriteChunk(t) ==
  /\ pc[t] = "write" /\ chunks[t] < CHUNKS /\ ~Over(t)
  /\ Set(chunks, t, chunks[t] + 1)
  /\ UNCHANGED << started, kind, pc, canceled, disk, jobs, state, timers, busy, closed >>

\* The end of the document and the last flush.
WriteEnd(t) ==
  /\ pc[t] = "write" /\ chunks[t] = CHUNKS /\ ~Over(t)
  /\ Set(disk, t, "complete") /\ Set(pc, t, "full")
  /\ UNCHANGED << started, kind, canceled, chunks, jobs, state, timers, busy, closed >>

\* Preparation fails: no temp file, context over, unreadable or deleted
\* recording, too large, disk full.
WriteFails(t) ==
  /\ pc[t] \in {"create", "write"}
  /\ Set(disk, t, "none") /\ Set(pc, t, "over")
  /\ UNCHANGED << started, kind, canceled, chunks, jobs, state, timers, busy, closed >>

\* Mutant of Retire: the file stays.
RetireKeeping(t) ==
  /\ Set(pc, t, "done") /\ busy' = FALSE
  /\ UNCHANGED << disk, state, age, expiry, armed >>

\* runSessionExport() of a job that was removed meanwhile.
Retire(t) ==
  /\ Set(pc, t, "done") /\ Set(disk, t, "none") /\ busy' = FALSE
  /\ UNCHANGED << state, age, expiry, armed >>

\* Mutant of Settle: the timer is not set again.
SettleStopped(t, ok) ==
  /\ Set(pc, t, "done") /\ busy' = FALSE
  /\ Set(state, t, IF ok THEN "ready" ELSE "failed")
  /\ Set(disk, t, IF ok THEN disk[t] ELSE "none")
  /\ Set(age, t, 0) /\ Set(expiry, t, TTL)
  /\ armed' = armed \ {t}

\* Mutant of Settle: a failed job is offered.
SettleReady(t, ok) ==
  /\ Set(pc, t, "done") /\ busy' = FALSE
  /\ Set(state, t, "ready")
  /\ UNCHANGED disk
  /\ Set(age, t, 0) /\ Set(expiry, t, TTL)
  /\ armed' = armed \cup {t}

\* runSessionExport() of a job still in the map: its outcome, and the timer
\* reset for the download.
Settle(t, ok) ==
  /\ Set(pc, t, "done") /\ busy' = FALSE
  /\ Set(state, t, IF ok THEN "ready" ELSE "failed")
  /\ Set(disk, t, IF ok THEN disk[t] ELSE "none")
  /\ Set(age, t, 0) /\ Set(expiry, t, TTL)
  /\ armed' = armed \cup {t}

\* runSessionExport(), once the file is written or has failed; a complete
\* file may still turn out not to be closed properly.
Finish(t) ==
  /\ kind[t] = "job" /\ pc[t] \in {"full", "over"}
  /\ \/ t \notin jobs /\ Retire(t)
     \/ t \in jobs /\ pc[t] = "full" /\ Settle(t, TRUE)
     \/ t \in jobs /\ Settle(t, FALSE)
  /\ UNCHANGED << started, kind, canceled, chunks, jobs, fired, closed >>

\* handleExportSession() serves the complete file ...
Serve(t) ==
  /\ kind[t] = "direct" /\ pc[t] = "full"
  /\ Set(pc, t, "serve")
  /\ UNCHANGED << started, kind, canceled, disk, chunks, jobs, state, timers, busy, closed >>

\* ... removes it ...
RemoveServed(t) ==
  /\ pc[t] = "serve"
  /\ Set(disk, t, "none") /\ Set(pc, t, "over")
  /\ UNCHANGED << started, kind, canceled, chunks, jobs, state, timers, busy, closed >>

\* ... and gives exportBusy back.
Release(t) ==
  /\ kind[t] = "direct" /\ pc[t] = "over"
  /\ Set(pc, t, "done") /\ busy' = FALSE
  /\ UNCHANGED << started, kind, canceled, disk, chunks, jobs, state, timers, closed >>

-----------------------------------------------------------------------------
\* Mutant of Remove: the worker's slot is given back with its job.
RemoveReleasing(S) ==
  /\ jobs' = jobs \ S
  /\ canceled' = [t \in Tasks |-> canceled[t] \/ t \in S]
  /\ armed' = armed \ S
  /\ disk' = [t \in Tasks |-> IF t \in S /\ state[t] = "ready" THEN "none" ELSE disk[t]]
  /\ busy' = (busy /\ \A t \in S : ~Working(t))

\* removeSessionExportLocked() for the jobs S; a job has a path when it is
\* ready.
Remove(S) ==
  /\ jobs' = jobs \ S
  /\ canceled' = [t \in Tasks |-> canceled[t] \/ t \in S]
  /\ armed' = armed \ S
  /\ disk' = [t \in Tasks |-> IF t \in S /\ state[t] = "ready" THEN "none" ELSE disk[t]]
  /\ UNCHANGED busy

\* handleCancelSessionExport().
Cancel ==
  /\ \E t \in jobs : Remove({t})
  /\ UNCHANGED << started, kind, pc, chunks, state, age, expiry, fired, closed >>

\* A timer expires: the runtime starts removeSessionExport().
TimerFires ==
  \E t \in armed :
    /\ expiry[t] = 0
    /\ armed' = armed \ {t} /\ fired' = fired \cup {t}
    /\ UNCHANGED << started, kind, pc, canceled, disk, chunks, jobs, state, age, expiry,
                    busy, closed >>

\* removeSessionExport() gets the lock.
Expire ==
  \E t \in fired :
    /\ Remove({t} \cap jobs)
    /\ fired' = fired \ {t}
    /\ UNCHANGED << started, kind, pc, chunks, state, age, expiry, closed >>

\* closeSessionExports(), up to the wait for the worker.
Close ==
  /\ ~closed
  /\ closed' = TRUE
  /\ Remove(jobs)
  /\ UNCHANGED << started, kind, pc, chunks, state, age, expiry, fired >>

\* What is left on a timer one unit later.
Left(t) == IF t \in armed /\ expiry[t] > 0 THEN expiry[t] - 1 ELSE expiry[t]

\* Jobs age while they prepare and until they may expire.
Aging(t) == t \in jobs /\ (Working(t) \/ age[t] < TTL)

\* Time passes, unless a worker has run as late as it can.
Tick ==
  /\ \A t \in jobs : Working(t) => age[t] < TIMEOUT + OVERRUN
  /\ age' = [t \in Tasks |-> IF Aging(t) THEN age[t] + 1 ELSE age[t]]
  /\ expiry' = [t \in Tasks |-> Left(t)]
  /\ UNCHANGED << started, kind, pc, canceled, disk, chunks, jobs, state, armed, fired,
                  busy, closed >>

-----------------------------------------------------------------------------
Work(t) ==
  \/ CreateFile(t) \/ WriteChunk(t) \/ WriteEnd(t) \/ WriteFails(t) \/ Finish(t)
  \/ Serve(t) \/ RemoveServed(t) \/ Release(t)

Next ==
  \/ Prepare \/ Direct \/ Cancel \/ Close \/ TimerFires \/ Expire \/ Tick
  \/ \E t \in Tasks : Disconnect(t) \/ Work(t)

Spec == Init /\ [][Next]_vars

\* Goroutines run, timers fire and their callbacks get the lock; a response
\* that is not read ends by the server's WriteTimeout.
FairSpec ==
  /\ Spec
  /\ WF_vars(\E t \in Tasks : Work(t))
  /\ WF_vars(TimerFires) /\ WF_vars(Expire) /\ WF_vars(Tick)

-----------------------------------------------------------------------------
\* Type invariant; ChunksDone never exceeds ChunksTotal.
TypeOK ==
  /\ started \in 0..MaxTasks
  /\ kind \in [Tasks -> {"job", "direct"}]
  /\ pc \in [Tasks -> {"idle", "create", "write", "full", "serve", "over", "done"}]
  /\ canceled \in [Tasks -> BOOLEAN]
  /\ disk \in [Tasks -> {"none", "partial", "complete"}]
  /\ chunks \in [Tasks -> 0..CHUNKS]
  /\ jobs \in SUBSET Tasks
  /\ state \in [Tasks -> {"preparing", "failed", "ready"}]
  /\ age \in [Tasks -> Nat] /\ expiry \in [Tasks -> Nat]
  /\ armed \in SUBSET Tasks /\ fired \in SUBSET Tasks
  /\ busy \in BOOLEAN /\ closed \in BOOLEAN

\* exportBusy admits one preparation at a time and is set exactly while one
\* runs, whoever cancels, expires or closes its job meanwhile.
OnePreparation ==
  /\ busy <=> \E t \in Tasks : Working(t)
  /\ \A t, u \in Tasks : Working(t) /\ Working(u) => t = u

Files == {t \in Tasks : disk[t] # "none"}

\* No temp file is left behind: every one belongs to a running task or to a
\* job that is ready and can still be downloaded, canceled and expired.
NoOrphanFile == \A t \in Files : Working(t) \/ (t \in jobs /\ state[t] = "ready")

\* A download opens a complete file: a job is offered as ready only while
\* its whole file is there.
ReadyIsComplete == \A t \in jobs : state[t] = "ready" => disk[t] = "complete"

\* "a bounded set of private temp files" (handlePrepareSessionExport's
\* comment): one per job and one for a direct download or a canceled worker.
FilesBounded == Cardinality(Files) <= MaxJobs + 1

\* Every job in the map will be removed without anybody's help: its timer is
\* exact, TTL after the preparation ended, or its removal is on its way.
ExpiryArmed ==
  \A t \in jobs :
    \/ t \in fired
    \/ t \in armed /\ age[t] + expiry[t] = IF Working(t) THEN TIMEOUT + TTL ELSE TTL

\* When closeSessionExports() returns, no job and no job's file is left, and
\* none appears later.
NothingAfterClose ==
  closed /\ (\A t \in Tasks : kind[t] = "job" => ~Working(t))
    => jobs = {} /\ \A t \in Files : kind[t] = "direct"

\* "automatic expiry also cover[s] abandoned tabs": every job leaves the map
\* in the end, so its slot is free again.
JobsExpire == \A t \in Tasks : (t \in jobs) ~> (t \notin jobs)
=============================================================================
