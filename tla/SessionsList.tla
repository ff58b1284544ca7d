---------------------------- MODULE SessionsList ----------------------------
(***************************************************************************)
(* The dashboard's list of recordings, page by page under a query, with    *)
(* the cache of results that brings it back after a replay, and the        *)
(* replay page as far as it deletes its recording.                         *)
(*                                                                         *)
(* A recording is its place in the order of the list, latest highest: the  *)
(* cursor of a page is the last recording of the page before, and rows are *)
(* a set, since every page lies below its cursor.  New recordings may be   *)
(* listed anywhere in the order.  Sites, countries, statistics and the     *)
(* mark of viewed rows are left out.                                       *)
(***************************************************************************)
EXTENDS Naturals, FiniteSets, Sequences, FiniteSetsExt, SequencesExt, DashboardValues

CONSTANTS Recordings,         \* a set of naturals
          Queries,            \* filters, as the recordings they match
          SESSION_PAGE_SIZE, MAX_CACHED_QUERIES,
          MaxVisits           \* bound of the replays opened

ASSUME SessionsListAssumption ==
  /\ Recordings \subseteq Nat /\ Recordings # {} /\ IsFiniteSet(Recordings)
  /\ Queries # {} /\ Queries \subseteq SUBSET Recordings /\ None \notin Recordings
  /\ SESSION_PAGE_SIZE \in Nat \ {0} /\ MAX_CACHED_QUERIES \in Nat \ {0} /\ MaxVisits \in Nat

VARIABLES listed,  \* on the server: the recordings that can be listed, and those still to come
          cache,   \* results by query, the latest last: survives the page
          list,    \* the page
          removal, \* the deletion under way: of a recording, asked from a query's list
          deleted, \* recordings whose deletion was confirmed on their own page
          visits   \* replays opened so far

sessionVars == << listed, cache, list, removal, deleted, visits >>

NoRemoval == [state |-> "none", of |-> None, query |-> None]

\* A result: its rows, whether more follow, the cursor, and what could be listed
\* when it was begun (of the specification, not of the code).
NoResult == [rows |-> {}, more |-> FALSE, cursor |-> 0, known |-> {}]

\* The cursor of a list not begun: above every recording.
Above == Max(Recordings) + 1

Matching(q, among) == {s \in among : s \in q}

\* listSessions(): the latest recordings below the cursor.
PageBelow(q, cursor) ==
  LET below == {s \in Matching(q, listed.now) : s < cursor}
  IN {s \in below : Cardinality({x \in below : x > s}) < SESSION_PAGE_SIZE}

CachedFor(q, kept) == {c \in ToSet(kept) : c.query = q}

\* remember(): the query moves to the end, the oldest goes when there are too many.
Remember(q, result) ==
  LET before == {i \in DOMAIN cache : cache[i].query = q}
      others == IF before = {} THEN cache ELSE RemoveAt(cache, CHOOSE i \in before : TRUE)
      c == Append(others, [query |-> q, result |-> result])
  IN IF Len(c) > MAX_CACHED_QUERIES THEN Tail(c) ELSE c

\* Mutant of Forget: the cache still has it.
ForgetNot(s) == cache

\* forgetCachedSession()
Forget(s) == [i \in DOMAIN cache |-> [cache[i] EXCEPT !.result.rows = @ \ {s}]]

------------------------------------------------------------------------------
(* The list                                                                *)

\* A request: not made, or the cursor it was made with and the page it got.
NoRequest == [of |-> "none", cursor |-> 0, got |-> << >>]
Request(of, cursor) == [of |-> of, cursor |-> cursor, got |-> << >>]

\* The effect of a query: what is cached is shown at once, and as many rows as
\* were there before are loaded again.
Begin(q, kept) ==
  LET cached == CachedFor(q, kept)
      result == IF cached = {} THEN NoResult ELSE (CHOOSE c \in cached : TRUE).result
  IN [query |-> q, replay |-> None, shown |-> cached # {}, result |-> result,
      refreshing |-> TRUE,
      next |-> [NoResult EXCEPT !.cursor = Above, !.known = listed.now],
      target |-> Max({SESSION_PAGE_SIZE, Cardinality(result.rows)}),
      request |-> Request("load", Above)]

SessionsInit ==
  /\ \E now \in SUBSET Recordings : listed = [now |-> now, later |-> Recordings \ now]
  /\ cache = << >> /\ removal = NoRemoval /\ deleted = {} /\ visits = 0
  /\ \E q \in Queries : list = Begin(q, << >>)

OnList == list.replay = None

SetQuery(q) ==
  /\ OnList /\ q # list.query
  /\ list' = Begin(q, cache)
  /\ UNCHANGED << listed, cache, removal, deleted, visits >>

\* loadMore(): not while the list is loaded again or another page is on its way.
LoadMore ==
  /\ OnList /\ ~list.refreshing /\ list.request = NoRequest
  /\ list.shown /\ list.result.more
  /\ list' = [list EXCEPT !.request = Request("more", list.result.cursor)]
  /\ UNCHANGED << listed, cache, removal, deleted, visits >>

ServePage ==
  /\ list.request.of # "none" /\ list.request.got = << >>
  /\ list' = [list EXCEPT !.request.got = << PageBelow(list.query, list.request.cursor) >>]
  /\ UNCHANGED << listed, cache, removal, deleted, visits >>

\* What a page adds to a result.
Extended(result, page) ==
  [result EXCEPT !.rows = @ \cup page, !.more = Cardinality(page) = SESSION_PAGE_SIZE,
                 !.cursor = IF page = {} THEN @ ELSE Min(page)]

\* A page of the list that is loaded again: the next is asked for, until as
\* many rows are there as before; only then they replace what is shown.
Revalidated ==
  /\ list.request.of = "load" /\ list.request.got # << >>
  /\ LET next == Extended(list.next, list.request.got[1])
     IN IF next.more /\ Cardinality(next.rows) < list.target
        THEN /\ list' = [list EXCEPT !.next = next, !.request = Request("load", next.cursor)]
             /\ UNCHANGED cache
        ELSE /\ list' = [list EXCEPT !.next = NoResult, !.request = NoRequest, !.result = next,
                                     !.shown = TRUE, !.refreshing = FALSE]
             /\ cache' = Remember(list.query, next)
  /\ UNCHANGED << listed, removal, deleted, visits >>

MoreArrived ==
  /\ list.request.of = "more" /\ list.request.got # << >>
  /\ LET next == Extended(list.result, list.request.got[1])
     IN /\ list' = [list EXCEPT !.request = NoRequest, !.result = next]
        /\ cache' = Remember(list.query, next)
  /\ UNCHANGED << listed, removal, deleted, visits >>

PageFailed ==
  /\ list.request.of # "none"
  /\ list' = IF list.request.of = "more" THEN [list EXCEPT !.request = NoRequest]
             ELSE [list EXCEPT !.next = NoResult, !.request = NoRequest, !.shown = TRUE, !.refreshing = FALSE]
  /\ UNCHANGED << listed, cache, removal, deleted, visits >>

------------------------------------------------------------------------------
(* The replay, and the server                                              *)

\* A row is clicked: the requests of the list are aborted with its page.
OpenReplay(s) ==
  /\ OnList /\ s \in list.result.rows /\ visits < MaxVisits
  /\ list' = [list EXCEPT !.replay = s, !.request = NoRequest, !.next = NoResult]
  /\ visits' = visits + 1
  /\ UNCHANGED << listed, cache, removal, deleted >>

\* The operator goes back, which an answer to a deletion does not wait for.
Back ==
  /\ ~OnList
  /\ list' = Begin(list.query, cache)
  /\ UNCHANGED << listed, cache, removal, deleted, visits >>

\* removeSession(): the request, the server's part, and what follows its answer.
RemoveSession ==
  /\ ~OnList /\ removal = NoRemoval
  /\ removal' = [state |-> "asked", of |-> list.replay, query |-> list.query]
  /\ UNCHANGED << listed, cache, list, deleted, visits >>

ServerRemoves ==
  /\ removal.state = "asked"
  /\ listed' = [listed EXCEPT !.now = @ \ {removal.of}]
  /\ removal' = [removal EXCEPT !.state = "done"]
  /\ UNCHANGED << cache, list, deleted, visits >>

Removed ==
  /\ removal.state = "done"
  /\ cache' = Forget(removal.of)
  /\ list' = IF OnList /\ list.query = removal.query THEN list ELSE Begin(removal.query, cache')
  /\ deleted' = deleted \cup ({removal.of} \cap {list.replay})
  /\ removal' = NoRemoval
  /\ UNCHANGED << listed, visits >>

RemoveFailed ==
  /\ removal # NoRemoval
  /\ removal' = NoRemoval
  /\ UNCHANGED << listed, cache, list, deleted, visits >>

\* Recordings come to be listed; the retention sweeps others.
ListedElsewhere ==
  /\ \/ \E s \in listed.later : listed' = [now |-> listed.now \cup {s}, later |-> listed.later \ {s}]
     \/ \E s \in listed.now \ {removal.of} : listed' = [listed EXCEPT !.now = @ \ {s}]
  /\ UNCHANGED << cache, list, removal, deleted, visits >>

SessionsNext ==
  \/ \E q \in Queries : SetQuery(q)
  \/ LoadMore \/ ServePage \/ Revalidated \/ MoreArrived \/ PageFailed
  \/ \E s \in list.result.rows : OpenReplay(s)
  \/ Back \/ RemoveSession \/ ServerRemoves \/ Removed \/ RemoveFailed \/ ListedElsewhere

------------------------------------------------------------------------------
(* Properties                                                              *)

\* The rows on the page are a continuous piece of the list: no recording that
\* could be listed when the rows were loaded is missing between them, or below
\* them when nothing more is said to follow (useSessions.ts:115-117).
NoGap == LET result == list.result IN
  result # NoResult =>
    \A s \in Matching(list.query, result.known \cap listed.now) :
       s \in result.rows \/ (result.more /\ s < result.cursor)

\* A recording that was deleted on its page is not listed again, from the cache
\* or from the server (useSessions.ts:44).
DeletedStaysGone == list.result.rows \cap deleted = {}

\* However pages, cached results, deletions and the way back from a recording
\* follow one another, the list has no gap and no recording that is gone
\* (useSessions.ts:44, 115-117).
ListIsWhole == NoGap /\ DeletedStaysGone
=============================================================================
