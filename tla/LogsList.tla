------------------------------ MODULE LogsList ------------------------------
(***************************************************************************)
(* The dashboard's stream of logs: the latest rows, loaded again while the *)
(* page is live and merged with the older ones, and older pages on         *)
(* scrolling, under filters that start everything anew.                    *)
(*                                                                         *)
(* A log has a number, the next after the highest, so that of a deleted    *)
(* log may be given again, and a kind; the rows are a sequence of logs.  A *)
(* filter is the set of the kinds it matches: the time range is part of    *)
(* it, without its sliding as time passes, and a custom range may be       *)
(* invalid.  Options, statistics and the linked log are left out.          *)
(***************************************************************************)
EXTENDS Naturals, FiniteSets, Sequences, FiniteSetsExt, SequencesExt

CONSTANTS MaxLogs,      \* bound of the numbers of logs
          Kinds,        \* what filters tell apart in a log
          Filters,      \* filters, as the kinds they match
          LOG_PAGE_SIZE,
          MaxPurged,      \* bound of the numbers of deleted logs
          MaxRestarts   \* bound of the changes of the filters

ASSUME LogsListAssumption ==
  /\ MaxLogs \in Nat \ {0} /\ LOG_PAGE_SIZE \in Nat \ {0} /\ MaxPurged \in Nat /\ MaxRestarts \in Nat
  /\ \A f \in Filters : f \subseteq Kinds

VARIABLES stored, \* on the server: the kind of each log it keeps, by number
          purged,   \* history: the numbers of the logs deleted so far
          logs,   \* the page
          reads   \* its requests in flight

logVars == << stored, purged, logs, reads >>

\* A request: for the "latest" rows or an "older" page, the load it was made
\* under with its filter, the log it starts below, and its answer.
Read(kind, page, below) ==
  [kind |-> kind, generation |-> page.generation, filter |-> page.filter, below |-> below, got |-> << >>]

\* The answers of loads before are ignored.
Current(r) == r.generation = logs.generation

Reading(kind) == \E r \in reads : r.kind = kind /\ Current(r)

\* A set of numbers, the highest first: before the k-th there are k - 1.
Descending(S) ==
  [k \in 1..Cardinality(S) |-> CHOOSE a \in S : Cardinality({x \in S : x > a}) = k - 1]

\* listLogs(): the latest logs below a number.
LatestBelow(filter, below) ==
  LET found == {l \in DOMAIN stored : stored[l] \in filter /\ l < below}
      ids   == Descending({l \in found : Cardinality({x \in found : x > l}) < LOG_PAGE_SIZE})
  IN [k \in DOMAIN ids |-> [id |-> ids[k], kind |-> stored[ids[k]]]]

Top == MaxLogs + 1

LogsInit ==
  /\ \E n \in 0..MaxLogs : stored \in [1..n -> Kinds]
  /\ purged = {}
  /\ \E f \in Filters :
       logs = [filter |-> f, valid |-> TRUE, live |-> TRUE, rows |-> << >>, first |-> TRUE,
               more |-> FALSE, generation |-> 1]
  /\ reads = {Read("latest", logs, Top)}

------------------------------------------------------------------------------
\* The effect of the filters and of the switch "live", and the button "Refresh":
\* a new load begins, and while the page is live an interval repeats it.  The
\* rows before stay until its first answer.
Restart(filter, live) ==
  /\ logs.generation <= MaxRestarts
  /\ logs' = [logs EXCEPT !.filter = filter, !.valid = TRUE, !.live = live, !.first = TRUE,
                          !.more = FALSE, !.generation = @ + 1]
  /\ reads' = reads \cup {Read("latest", logs', Top)}
  /\ UNCHANGED << stored, purged >>

\* A custom range that is not valid: nothing is shown or loaded.
InvalidRange ==
  /\ logs.valid /\ logs.generation <= MaxRestarts
  /\ logs' = [logs EXCEPT !.valid = FALSE, !.rows = << >>, !.more = FALSE, !.generation = @ + 1]
  /\ UNCHANGED << stored, purged, reads >>

\* Mutant of Fetching: a refresh does not wait for the one before.
FetchingNever == Cardinality(reads) > 2

\* The load under way, which the interval leaves alone.
Fetching == Reading("latest")

Refresh ==
  /\ logs.valid /\ logs.live /\ ~Fetching
  /\ reads' = reads \cup {Read("latest", logs, Top)}
  /\ UNCHANGED << stored, purged, logs >>

\* loadMore(): one at a time, below the last row.
LoadOlder ==
  /\ logs.valid /\ logs.more /\ logs.rows # << >> /\ ~Reading("older")
  /\ reads' = reads \cup {Read("older", logs, Last(logs.rows).id)}
  /\ UNCHANGED << stored, purged, logs >>

Serve(r) ==
  /\ r.got = << >>
  /\ reads' = (reads \ {r}) \cup {[r EXCEPT !.got = << LatestBelow(r.filter, r.below) >>]}
  /\ UNCHANGED << stored, purged, logs >>

Ids(rows) == {row.id : row \in ToSet(rows)}

\* Those of the rows whose numbers others do not have, in the order they have.
Without(rows, others) ==
  LET places == Reverse(Descending({i \in DOMAIN rows : rows[i].id \notin Ids(others)}))
  IN [k \in DOMAIN places |-> rows[places[k]]]

\* The latest rows replace those of the load before, and go before those of
\* this load.
Refreshed(page) ==
  [logs EXCEPT !.rows = IF logs.first THEN page ELSE page \o Without(@, page),
               !.more = IF logs.first THEN Len(page) = LOG_PAGE_SIZE ELSE @,
               !.first = FALSE]

Appended(page) ==
  [logs EXCEPT !.rows = @ \o Without(page, @), !.more = Len(page) = LOG_PAGE_SIZE]

Loaded(r) ==
  /\ r.got # << >>
  /\ logs' = IF ~Current(r) THEN logs
             ELSE IF r.kind = "latest" THEN Refreshed(r.got[1]) ELSE Appended(r.got[1])
  /\ reads' = reads \ {r}
  /\ UNCHANGED << stored, purged >>

\* A failed refresh leaves the rows, a failed older page ends the list.
LoadFailed(r) ==
  /\ logs' = [logs EXCEPT !.more = @ /\ ~(Current(r) /\ r.kind = "older")]
  /\ reads' = reads \ {r}
  /\ UNCHANGED << stored, purged >>

\* The next number the table gives: one more than the highest it has.
NextId == CHOOSE n \in 1..Top : (\A l \in DOMAIN stored : l < n) /\ (n = 1 \/ n - 1 \in DOMAIN stored)

\* A log arrives at the server.
Store ==
  /\ NextId <= MaxLogs
  /\ \E kind \in Kinds : stored' = [l \in DOMAIN stored \cup {NextId} |-> IF l = NextId THEN kind ELSE stored[l]]
  /\ UNCHANGED << purged, logs, reads >>

\* Logs are deleted, old ones by their site's retention or all of a recording
\* with it: any of them, for other sites and recordings have logs in between.
Delete ==
  /\ \E ids \in SUBSET DOMAIN stored :
       /\ Cardinality(purged \cup ids) <= MaxPurged
       /\ stored' = Restrict(stored, DOMAIN stored \ ids)
       /\ purged' = purged \cup ids
  /\ UNCHANGED << logs, reads >>

LogsNext ==
  \/ \E f \in Filters, live \in BOOLEAN : Restart(f, live)
  \/ InvalidRange \/ Refresh \/ LoadOlder \/ Store \/ Delete
  \/ \E r \in reads : Serve(r) \/ Loaded(r) \/ LoadFailed(r)

------------------------------------------------------------------------------
(* Properties                                                              *)

\* Refreshes, older pages and changes of the filters, answered in any order
\* while logs come and go, leave one stream: no number twice, the latest first
\* but for rows whose log was deleted, which a refresh may put behind older ones,
\* and only logs of the filter once its load has answered (useLogs.ts:110-127,
\* 180-186).
OneStream ==
  /\ \A i, j \in DOMAIN logs.rows : i < j =>
       /\ logs.rows[i].id # logs.rows[j].id
       /\ logs.rows[i].id > logs.rows[j].id \/ logs.rows[j].id \in purged
  /\ ~logs.first => \A i \in DOMAIN logs.rows : logs.rows[i].kind \in logs.filter
=============================================================================
