----------------------------- MODULE SearchIndex -----------------------------
(***************************************************************************)
(* The session search index: built and removed in steps by a worker that   *)
(* is woken or reminded, kept in line by triggers while recordings come    *)
(* and go, and switched on a card that polls while something is under way. *)
(*                                                                         *)
(* Documents are those of recordings and of their logs: pages and events   *)
(* are indexed as they are, without a table of ids.  A row id is one more  *)
(* than the largest in use, so that of a deleted last row comes again.     *)
(* Left out: texts, sizes, totals, recordings too large for the index, and *)
(* the size of a batch, which is one recording here.                       *)
(***************************************************************************)
EXTENDS Naturals, FiniteSets, FiniteSetsExt, DashboardValues

CONSTANTS MaxRowIds, MaxLogRows, \* bounds of the row ids of recordings and of logs
          MaxHappens \* bound of writes, switches, restarts and failures together

\* There is a recording with a log to begin with.
ASSUME SearchIndexAssumption == MaxRowIds \in Nat \ {0} /\ MaxLogRows \in Nat \ {0} /\ MaxHappens \in Nat

VARIABLES index,  \* the row of the index's state
          tables, \* recordings, logs (their recording, by id), documents, ids of the log table
          worker, \* its token, timer, failures, and the state it has read
          card,   \* the page
          poll,   \* the poll of the card: where it is, what was read, whether it is tried again
          call,   \* the call that switches, and whether an answer was lost since one came
          spent   \* how much has happened

searchVars == << index, tables, worker, card, poll, call, spent >>

Rows == 1..MaxRowIds
Row(r) == << r, 0 >>
LogsOf(r) == {id \in DOMAIN tables.logs : tables.logs[id] = r}
Documents(r) == {Row(r)} \cup {<< r, id >> : id \in LogsOf(r)}
Next1(S) == 1 + Max(S \cup {0})

NothingBuilt(enabled, lowDisk) ==
  [enabled |-> enabled, lowDisk |-> lowDisk, state |-> "off", cutoff |-> 0, logCutoff |-> 0, next |-> 0, failed |-> FALSE]
Happens == spent < MaxHappens /\ spent' = spent + 1

SearchOpens ==
  /\ \E enabled \in BOOLEAN : index = NothingBuilt(enabled, FALSE)
  /\ tables = [sessions |-> {1}, logs |-> [id \in {1} |-> 1], found |-> {}, mapped |-> {}, triggers |-> FALSE]
  /\ worker = [token |-> TRUE, timer |-> FALSE, failures |-> 0, at |-> "idle", enabled |-> FALSE, unrecorded |-> FALSE]
  /\ card = [status |-> None, error |-> FALSE, busy |-> FALSE, confirming |-> FALSE]
  /\ poll = [at |-> "sent", status |-> None, again |-> FALSE]
  /\ call = [at |-> "none", enable |-> FALSE, status |-> None, lost |-> FALSE]
  /\ spent = 0

------------------------------------------------------------------------------
(* What is written beside the index, with its triggers.                    *)

Written(t, more, fewer) ==
  tables' = IF t.triggers THEN [t EXCEPT !.found = (@ \ fewer) \cup more,
                                         !.mapped = (@ \ {d[2] : d \in fewer}) \cup ({d[2] : d \in more} \ {0})]
            ELSE t

ByOthers == Happens /\ UNCHANGED << index, worker, card, poll, call >>

AddSession ==
  LET r == Next1(tables.sessions) IN
  r \in Rows /\ Written([tables EXCEPT !.sessions = @ \cup {r}], {Row(r)}, {}) /\ ByOthers

WithLog(logs, new, r) == [id \in DOMAIN logs \cup {new} |-> IF id = new THEN r ELSE logs[id]]

AddLog(r) ==
  LET id == Next1(DOMAIN tables.logs) IN
  /\ id \in 1..MaxLogRows
  /\ Written([tables EXCEPT !.logs = WithLog(@, id, r)], {<< r, id >>}, {})
  /\ ByOthers

Kept(logs, gone) == [id \in DOMAIN logs \ gone |-> logs[id]]

\* The trigger finds the document by the table of ids.
DeleteLog(id) ==
  /\ Written([tables EXCEPT !.logs = Kept(@, {id})], {}, IF id \in tables.mapped THEN {<< tables.logs[id], id >>} ELSE {})
  /\ ByOthers

DeleteSession(r) ==
  /\ Written([tables EXCEPT !.sessions = @ \ {r}, !.logs = Kept(@, LogsOf(r))], {}, Documents(r))
  /\ ByOthers

------------------------------------------------------------------------------
(* The worker.                                                             *)

\* Mutant of SetSearchIndexEnabled: a worker that is at a step is not woken.
SetWakingIdle(i, enabled, lowDisk) ==
  /\ index' = [i EXCEPT !.enabled = enabled, !.lowDisk = lowDisk, !.failed = FALSE]
  /\ worker' = [worker EXCEPT !.token = @ \/ worker.at = "idle", !.unrecorded = FALSE]

\* SetSearchIndexEnabled: it waits for no step of the worker.  The token
\* that wakes it is one, however often it is given.
SetSearchIndexEnabled(i, enabled, lowDisk) ==
  /\ index' = [i EXCEPT !.enabled = enabled, !.lowDisk = lowDisk, !.failed = FALSE]
  /\ worker' = [worker EXCEPT !.token = TRUE, !.unrecorded = FALSE]

DisableSearchIndexForLowDisk ==
  /\ index.state # "off" \/ index.enabled
  /\ Happens
  /\ SetSearchIndexEnabled(index, FALSE, TRUE)
  /\ UNCHANGED << tables, card, poll, call >>

BySelf == UNCHANGED << card, poll, call >>

\* Woken, or reminded: it reads the state, and has nothing to do after an
\* error that nobody has cleared.
BeginStep ==
  /\ worker.at = "idle"
  /\ \E wake \in {"token", "timer"} :
       /\ worker[wake]
       /\ worker' = [worker EXCEPT ![wake] = FALSE, !.enabled = index.enabled,
                                   !.at = IF index.failed THEN "idle" ELSE "step",
                                   !.failures = IF index.failed THEN 0 ELSE @]
  /\ UNCHANGED << index, tables, spent >> /\ BySelf

Stepped(active) == worker' = [worker EXCEPT !.at = "idle", !.enabled = FALSE, !.failures = 0, !.timer = @ \/ active]

\* buildSearchIndexBatch: a log that has a row of the table of ids already
\* cannot get another.
NextRows == {r \in tables.sessions : r > index.next /\ r <= index.cutoff}
OldLogs(r) == {id \in LogsOf(r) : id <= index.logCutoff}
Clash == \E r \in NextRows : r = Min(NextRows) /\ OldLogs(r) \cap tables.mapped # {}

StartBuild ==
  /\ index.state = "off" /\ worker.enabled
  /\ index' = [index EXCEPT !.state = "building", !.cutoff = Max(tables.sessions \cup {0}),
                            !.logCutoff = Max(DOMAIN tables.logs \cup {0}), !.next = 0, !.failed = FALSE]
  /\ tables' = [tables EXCEPT !.triggers = TRUE]
  /\ Stepped(TRUE)

BuildBatch ==
  /\ index.state = "building" /\ worker.enabled /\ NextRows # {} /\ ~Clash
  /\ LET r == Min(NextRows) IN
     /\ tables' = [tables EXCEPT !.found = @ \cup {Row(r)} \cup {<< r, id >> : id \in OldLogs(r)}, !.mapped = @ \cup OldLogs(r)]
     /\ index' = [index EXCEPT !.next = r]
  /\ Stepped(TRUE)

FinishBuild ==
  /\ index.state = "building" /\ worker.enabled /\ NextRows = {}
  /\ index' = [index EXCEPT !.state = "ready"]
  /\ Stepped(FALSE) /\ UNCHANGED tables

StartDrop ==
  /\ index.state \in {"building", "ready"} /\ ~worker.enabled
  /\ index' = [index EXCEPT !.state = "dropping", !.failed = FALSE]
  /\ tables' = [tables EXCEPT !.triggers = FALSE]
  /\ Stepped(TRUE)

DropBatch ==
  /\ index.state = "dropping" /\ tables.found # {}
  /\ tables' = [tables EXCEPT !.found = {}]
  /\ Stepped(TRUE) /\ UNCHANGED index

FinishDrop ==
  /\ index.state = "dropping" /\ tables.found = {}
  /\ index' = NothingBuilt(index.enabled, index.lowDisk)
  /\ tables' = [tables EXCEPT !.mapped = {}]
  /\ Stepped(worker.enabled)

\* The host is busy, or recordings are being stored.
PutOff == /\ index.state = "dropping" \/ (index.state = "building" /\ worker.enabled)
          /\ Stepped(TRUE) /\ UNCHANGED << index, tables >>

NothingToDo == /\ \/ index.state = "off" /\ ~worker.enabled
                  \/ index.state = "ready" /\ worker.enabled
               /\ Stepped(FALSE) /\ UNCHANGED << index, tables >>

Step == /\ worker.at = "step"
        /\ StartBuild \/ BuildBatch \/ FinishBuild \/ StartDrop \/ DropBatch \/ FinishDrop \/ PutOff \/ NothingToDo
        /\ UNCHANGED spent /\ BySelf

\* A statement fails, and nothing of the step is stored: it is tried twice
\* more before the error is recorded.
StepFails ==
  /\ worker.at = "step"
  /\ IF index.state = "building" /\ worker.enabled /\ NextRows # {} /\ Clash THEN UNCHANGED spent
     ELSE Happens
  /\ worker' = [worker EXCEPT !.failures = @ + 1, !.enabled = FALSE, !.timer = @ \/ worker.failures < 2,
                              !.at = IF worker.failures < 2 THEN "idle" ELSE "recording"]
  /\ UNCHANGED << index, tables >> /\ BySelf

\* An error that cannot be recorded is lost.
RecordSearchIndexError ==
  /\ worker.at = "recording"
  /\ \/ index' = [index EXCEPT !.failed = TRUE] /\ UNCHANGED spent
        /\ worker' = [worker EXCEPT !.at = "idle", !.failures = 0]
     \/ Happens /\ UNCHANGED index
        /\ worker' = [worker EXCEPT !.at = "idle", !.failures = 0, !.unrecorded = TRUE]
  /\ UNCHANGED tables /\ BySelf

\* The server stops and starts: what a step had not committed is gone.
Restart ==
  /\ Happens
  /\ worker' = [token |-> TRUE, timer |-> FALSE, failures |-> 0, at |-> "idle", enabled |-> FALSE, unrecorded |-> FALSE]
  /\ UNCHANGED << index, tables >> /\ BySelf

------------------------------------------------------------------------------
(* The card.                                                               *)

SearchIndexStatus == [enabled |-> index.enabled, state |-> index.state, failed |-> index.failed]

NeedsPolling(s) == \/ s.state \in {"building", "dropping"}
                   \/ s.enabled /\ s.state = "off"
                   \/ ~s.enabled /\ s.state = "ready"

ServePoll == /\ poll.at = "sent"
             /\ poll' = [poll EXCEPT !.at = "read", !.status = SearchIndexStatus]
             /\ UNCHANGED << index, tables, worker, card, call, spent >>

PollArrives ==
  /\ poll.at = "read"
  /\ card' = [card EXCEPT !.status = poll.status, !.error = FALSE]
  /\ LET again == NeedsPolling(poll.status) IN
     poll' = [at |-> IF again THEN "timer" ELSE "none", status |-> None, again |-> again]
  /\ UNCHANGED << index, tables, worker, call, spent >>

PollFails ==
  /\ poll.at \in {"sent", "read"} /\ Happens
  /\ card' = [card EXCEPT !.error = TRUE]
  /\ poll' = [poll EXCEPT !.at = IF poll.again THEN "timer" ELSE "none", !.status = None]
  /\ UNCHANGED << index, tables, worker, call >>

PollAgain == /\ poll.at = "timer"
             /\ poll' = [poll EXCEPT !.at = "sent"]
             /\ UNCHANGED << index, tables, worker, card, call, spent >>

SetEnabled(enabled) ==
  /\ Happens
  /\ card' = [card EXCEPT !.busy = TRUE, !.error = FALSE]
  /\ call' = [call EXCEPT !.at = "sent", !.enable = enabled]
  /\ UNCHANGED << index, tables, worker, poll >>

MaySwitch == card.status # None /\ ~card.busy

ToggleOn  == MaySwitch /\ ~card.confirming /\ ~card.status.enabled /\ SetEnabled(TRUE)
ToggleOff == /\ MaySwitch /\ ~card.confirming /\ card.status.enabled
             /\ card' = [card EXCEPT !.confirming = TRUE]
             /\ UNCHANGED << index, tables, worker, poll, call, spent >>
Disable   == MaySwitch /\ card.confirming /\ SetEnabled(FALSE)
KeepIndex == /\ MaySwitch /\ card.confirming
             /\ card' = [card EXCEPT !.confirming = FALSE]
             /\ UNCHANGED << index, tables, worker, poll, call, spent >>
Retry     == MaySwitch /\ ~card.confirming /\ card.status.failed /\ SetEnabled(card.status.enabled)

ServeSwitch ==
  /\ call.at = "sent"
  /\ SetSearchIndexEnabled(index, call.enable, FALSE)
  /\ call' = [call EXCEPT !.at = "stored", !.status = [enabled |-> call.enable, state |-> index.state, failed |-> FALSE]]
  /\ UNCHANGED << tables, card, poll, spent >>

\* The poll starts anew: one in flight is not listened to any more.
Repolled == poll' = [at |-> "sent", status |-> None, again |-> FALSE]

SwitchAnswered ==
  /\ call.at = "stored"
  /\ card' = [card EXCEPT !.status = call.status, !.confirming = FALSE, !.busy = FALSE]
  /\ call' = [call EXCEPT !.at = "none", !.enable = FALSE, !.status = None, !.lost = FALSE]
  /\ Repolled
  /\ UNCHANGED << index, tables, worker, spent >>

\* Refused, or its answer is lost.
SwitchFails ==
  /\ call.at \in {"sent", "stored"} /\ Happens
  /\ card' = [card EXCEPT !.error = TRUE, !.busy = FALSE]
  /\ call' = [call EXCEPT !.at = "none", !.status = None, !.enable = FALSE, !.lost = @ \/ call.at = "stored"]
  /\ UNCHANGED << index, tables, worker, poll >>

SearchNext ==
  \/ AddSession \/ (\E r \in tables.sessions : AddLog(r) \/ DeleteSession(r))
  \/ \E id \in DOMAIN tables.logs : DeleteLog(id)
  \/ DisableSearchIndexForLowDisk \/ BeginStep \/ Step \/ StepFails \/ RecordSearchIndexError \/ Restart
  \/ ServePoll \/ PollArrives \/ PollFails \/ PollAgain
  \/ ToggleOn \/ ToggleOff \/ Disable \/ KeepIndex \/ Retry
  \/ ServeSwitch \/ SwitchAnswered \/ SwitchFails

------------------------------------------------------------------------------
(* Properties                                                              *)

\* An index that is ready finds every recording and every log there is, and
\* none that is gone, whatever was recorded and deleted while it was built
\* (search_index.go:344-441, 501-617).
IndexIsWhole == index.state = "ready" => tables.found = UNION {Documents(r) : r \in tables.sessions}

\* What is left to do is taken up: the worker is at it, woken or reminded,
\* unless it has recorded an error, or failed to (search_index.go:153-295).
WorkIsTakenUp ==
  LET due == NeedsPolling([enabled |-> index.enabled, state |-> index.state]) IN
  due /\ ~index.failed => worker.token \/ worker.timer \/ worker.at # "idle" \/ worker.unrecorded

\* What the card calls under way: being prepared, built, stopped, removed.
UnderWay(s) == \/ s.enabled /\ s.state \in {"building", "off"} /\ ~s.failed
               \/ ~s.failed /\ s.state = "ready" /\ ~s.enabled
               \/ ~s.failed /\ s.state = "building" /\ ~s.enabled
               \/ ~s.failed /\ s.state = "dropping"

\* The card follows what it says is under way, unless it shows that it could
\* not (useSearchIndex.ts:23-68, SearchIndexCard.tsx:69-116).
CardFollows == card.status # None /\ ~card.error /\ UnderWay(card.status) => poll.at # "none" \/ card.busy

\* The switch stands where the server has it, but for one that is on its way
\* back, one whose answer was lost, or an index that the server took away for
\* its space (useSearchIndex.ts:29-68).
SwitchAsStored ==
  card.status # None /\ call.at # "stored" /\ ~call.lost /\ ~index.lowDisk => card.status.enabled = index.enabled

\* The index and its switch.
IndexFollows == IndexIsWhole /\ WorkIsTakenUp /\ CardFollows /\ SwitchAsStored
=============================================================================
