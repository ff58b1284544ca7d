------------------------------ MODULE ExportTab ------------------------------
(***************************************************************************)
(* The export of a recording as the replay page runs it: the export before *)
(* is released, a job is prepared, watched and downloaded, and the         *)
(* operator may cancel it, or leave, at any moment.  The server's jobs are *)
(* modelled by what the page sees of them (ExportJobs has the whole).      *)
(***************************************************************************)
EXTENDS Naturals

CONSTANT MaxExports \* bound of the exports, and of the server's jobs

ASSUME ExportTabAssumption == MaxExports \in Nat \ {0}

Exports == 1..MaxExports
No == 0

VARIABLES tab,     \* the page: its export under way, the job it can download, its lock
          exports, \* the calls of exportSession() so far
          jobs,    \* on the server
          deletes, \* requests to cancel a job, in flight
          lost     \* whether a request or an answer was lost

exportVars == << tab, exports, jobs, deletes, lost >>

NoExport == [step |-> "none", id |-> No, old |-> No, aborted |-> FALSE]

ExportInit ==
  /\ tab = [pending |-> No, lastReady |-> No, downloading |-> FALSE, mounted |-> TRUE]
  /\ exports = [o \in Exports |-> NoExport]
  /\ jobs = [j \in Exports |-> "none"]
  /\ deletes = {} /\ lost = FALSE

\* cancelOperation(): the server is told only of a job that is known.
Told(o) == {exports[o].id} \ {No}

Step(o, step) == exports' = [exports EXCEPT ![o].step = step]

\* The end of exportSession(), which is no longer under way.
Released(o) == [tab EXCEPT !.pending = IF @ = o THEN No ELSE @]

\* exportSession(), up to its first request.
StartExport(o) ==
  /\ tab.mounted /\ tab.pending = No /\ ~tab.downloading
  /\ exports[o] = NoExport /\ \A p \in 1..o - 1 : exports[p] # NoExport
  /\ tab' = [tab EXCEPT !.pending = o]
  /\ exports' = [exports EXCEPT ![o].step = IF tab.lastReady # No THEN "releasing" ELSE "preparing",
                                ![o].old = tab.lastReady]
  /\ UNCHANGED << jobs, deletes, lost >>

\* The job before is released, or its request fails, which is ignored.
LastReleased(o) ==
  /\ exports[o].step = "releasing"
  /\ \/ jobs' = [jobs EXCEPT ![exports[o].old] = "gone"]
     \/ UNCHANGED jobs
  /\ tab' = [(IF exports[o].aborted THEN Released(o) ELSE tab) EXCEPT !.lastReady = No]
  /\ Step(o, IF exports[o].aborted THEN "over" ELSE "preparing")
  /\ UNCHANGED << deletes, lost >>

\* The server starts the job, unless it prepares another.
JobStarts(o) ==
  /\ exports[o].step = "preparing" /\ \A j \in Exports : jobs[j] # "preparing"
  /\ \E j \in Exports : /\ jobs[j] = "none" /\ \A i \in 1..j - 1 : jobs[i] # "none"
                        /\ jobs' = [jobs EXCEPT ![j] = "preparing"]
                        /\ exports' = [exports EXCEPT ![o].step = "started", ![o].id = j]
  /\ UNCHANGED << tab, deletes, lost >>

\* Mutant of Prepared: the job of an export that was canceled is left alone.
PreparedAnyway(o) ==
  /\ exports[o].step = "started"
  /\ Step(o, IF exports[o].aborted THEN "over" ELSE "waiting")
  /\ UNCHANGED << tab, jobs, deletes, lost >>

\* The answer names the job: an export canceled meanwhile cancels it now.
Prepared(o) ==
  /\ exports[o].step = "started"
  /\ IF exports[o].aborted
     THEN Step(o, "over") /\ deletes' = deletes \cup Told(o) /\ tab' = Released(o)
     ELSE Step(o, "waiting") /\ UNCHANGED << tab, deletes >>
  /\ UNCHANGED << jobs, lost >>

\* The server refuses the job, or the request or its answer is lost, and with
\* the answer the name of the job.
PrepareFails(o) ==
  /\ exports[o].step \in {"preparing", "started"}
  /\ Step(o, "over") /\ tab' = Released(o)
  /\ lost' = (lost \/ exports[o].step = "started")
  /\ UNCHANGED << jobs, deletes >>

AskStatus(o) ==
  /\ exports[o].step = "waiting"
  /\ Step(o, "asking")
  /\ UNCHANGED << tab, jobs, deletes, lost >>

\* The status arrives: wait on, download, or fail and cancel.
WatchArrives(o) ==
  /\ exports[o].step = "asking"
  /\ LET state == jobs[exports[o].id] IN
       \/ /\ state = "preparing" /\ Step(o, "waiting") /\ UNCHANGED << tab, deletes >>
       \/ /\ state = "ready" /\ Step(o, "over") /\ UNCHANGED deletes
          /\ tab' = [Released(o) EXCEPT !.lastReady = exports[o].id, !.downloading = TRUE]
       \/ /\ state \in {"failed", "gone"} /\ Step(o, "over")
          /\ tab' = Released(o) /\ deletes' = deletes \cup Told(o)
  /\ UNCHANGED << jobs, lost >>

StatusFails(o) ==
  /\ exports[o].step = "asking"
  /\ Step(o, "over") /\ tab' = Released(o) /\ deletes' = deletes \cup Told(o)
  /\ UNCHANGED << jobs, lost >>

\* cancelOperation() of the export under way: a pause or a question for the
\* status is given up at once, a request that is out is let answer.
Aborted ==
  LET o == tab.pending IN
  /\ exports' = [exports EXCEPT ![o].aborted = TRUE,
                                ![o].step = IF @ \in {"waiting", "asking"} THEN "over" ELSE @]
  /\ deletes' = deletes \cup (IF exports[o].step = "started" THEN {} ELSE Told(o))

CancelExport ==
  /\ tab.mounted /\ tab.pending # No
  /\ Aborted /\ tab' = [tab EXCEPT !.pending = No]
  /\ UNCHANGED << jobs, lost >>

\* The page is left, or shows another recording.
Leave ==
  /\ tab.mounted
  /\ IF tab.pending # No THEN Aborted ELSE UNCHANGED << exports, deletes >>
  /\ \E mounted \in BOOLEAN :
       tab' = [pending |-> No, lastReady |-> No, downloading |-> FALSE, mounted |-> mounted]
  /\ UNCHANGED << jobs, lost >>

\* The lock of the download opens with the next interaction.
Resume == /\ tab.downloading
          /\ tab' = [tab EXCEPT !.downloading = FALSE]
          /\ UNCHANGED << exports, jobs, deletes, lost >>

JobEnds(j) == /\ jobs[j] = "preparing"
              /\ \E state \in {"ready", "failed"} : jobs' = [jobs EXCEPT ![j] = state]
              /\ UNCHANGED << tab, exports, deletes, lost >>

JobExpires(j) == /\ jobs[j] \in {"ready", "failed"}
                 /\ jobs' = [jobs EXCEPT ![j] = "gone"]
                 /\ UNCHANGED << tab, exports, deletes, lost >>

DeleteArrives(j) == /\ deletes' = deletes \ {j}
                    /\ \/ jobs' = [jobs EXCEPT ![j] = "gone"] /\ UNCHANGED lost
                       \/ lost' = TRUE /\ UNCHANGED jobs
                    /\ UNCHANGED << tab, exports >>

ExportNext ==
  \/ \E o \in Exports : \/ StartExport(o) \/ LastReleased(o) \/ JobStarts(o) \/ Prepared(o)
                        \/ PrepareFails(o) \/ AskStatus(o) \/ WatchArrives(o) \/ StatusFails(o)
  \/ CancelExport \/ Leave \/ Resume
  \/ \E j \in Exports : JobEnds(j) \/ JobExpires(j)
  \/ \E j \in deletes : DeleteArrives(j)

------------------------------------------------------------------------------
(* Properties                                                              *)

Alive(o) == exports[o].step \notin {"none", "over"}

\* Whenever the operator cancels or leaves, even before the server has named
\* the job, none is left running: every job in preparation belongs to the export
\* under way, or is about to be canceled (useSessionExport.ts:102-109).  A lost
\* request leaves it to the expiry of jobs.
NoAbandonedJob ==
  lost \/ \A j \in Exports : jobs[j] = "preparing" =>
     j \in deletes \/ \E o \in Exports : Alive(o) /\ exports[o].id = j
=============================================================================
