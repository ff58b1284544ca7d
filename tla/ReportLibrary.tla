---------------------------- MODULE ReportLibrary ----------------------------
(***************************************************************************)
(* The list of analysis reports: read again for every filter, with one     *)
(* request per card for its total, made by a few workers at a time, and    *)
(* kept under the report's version.                                        *)
(*                                                                         *)
(* A filter is the set of the reports it selects.  Versions stand for the  *)
(* time of the last change; sites, names and wording are left out.  The    *)
(* dialog that confirms a deletion covers the page, so nothing else is     *)
(* done while it is open.                                                  *)
(***************************************************************************)
EXTENDS Naturals, Sequences, SequencesExt, DashboardValues

CONSTANTS Reports, LibraryFilters, SUMMARY_CONCURRENCY,
          MaxFilters, MaxVersions \* bounds: loads of the list, versions of a report

ASSUME ReportLibraryAssumption ==
  /\ IsFiniteSet(Reports)
  /\ LibraryFilters # {} /\ \A f \in LibraryFilters : f \subseteq Reports
  /\ SUMMARY_CONCURRENCY \in Nat \ {0} /\ MaxFilters \in Nat /\ MaxVersions \in Nat

VARIABLES kept,    \* version of each report on the server, 0 for none
          library, \* the page
          pools,   \* workers: the cards they have before them, the ones in hand
          reading  \* requests of the list: number, filter, and rows once served

libraryVars == << kept, library, pools, reading >>

Card(r) == << r, kept[r] >>
RowsOf(f) == {Card(r) : r \in {x \in f : kept[x] > 0}}

LibraryOpens(f) ==
  /\ library = [filter |-> f, load |-> 1, rows |-> None, summaries |-> << >>, pending |-> None,
                busy |-> FALSE, deleted |-> {}]
  /\ reading = {[n |-> 1, filter |-> f, rows |-> None]}
  /\ pools = {}

LibraryInit == /\ kept \in [Reports -> {0, 1}]
               /\ \E f \in LibraryFilters : LibraryOpens(f)

\* The effect of the filter: the list goes, and is asked for again.
SetFilter(f) ==
  /\ library.pending = None /\ ~library.busy /\ f # library.filter /\ library.load < MaxFilters
  /\ library' = [library EXCEPT !.filter = f, !.rows = None, !.load = @ + 1]
  /\ reading' = reading \cup {[n |-> library.load + 1, filter |-> f, rows |-> None]}
  /\ UNCHANGED << kept, pools >>

ServeRows(q) ==
  /\ q.rows = None
  /\ reading' = (reading \ {q}) \cup {[q EXCEPT !.rows = RowsOf(q.filter)]}
  /\ UNCHANGED << kept, library, pools >>

\* Only the request of the filter in force counts.
Latest(q) == q.n = library.load

Started == DOMAIN library.summaries

\* A pool of workers for the cards whose totals were never asked for.
PoolOf(queue) == LET n == IF Len(queue) < SUMMARY_CONCURRENCY THEN Len(queue) ELSE SUMMARY_CONCURRENCY IN
                 [ahead |-> SubSeq(queue, n + 1, Len(queue)), hand |-> {queue[i] : i \in 1..n}]

RowsArrive(q) ==
  /\ q.rows # None
  /\ reading' = reading \ {q}
  /\ IF Latest(q)
     THEN LET queue == SetToSeq(q.rows \ Started) IN
          /\ library' = [library EXCEPT !.rows = q.rows,
                           !.summaries = [c \in Started \cup q.rows |-> IF c \in Started THEN @[c] ELSE "loading"]]
          /\ pools' = IF queue = << >> THEN pools ELSE pools \cup {PoolOf(queue)}
     ELSE UNCHANGED << library, pools >>
  /\ UNCHANGED kept

\* The list stays empty under a message until the filter changes.
RowsFail(q) == reading' = reading \ {q} /\ UNCHANGED << kept, library, pools >>

\* Mutant of NextInHand: a worker ends with its first failure or answer.
NextInHandNone(p, c) == [p EXCEPT !.hand = @ \ {c}]

\* worker(): a total arrives or its request fails, and the worker takes the
\* next card.
NextInHand(p, c) == IF p.ahead = << >> THEN [p EXCEPT !.hand = @ \ {c}]
                    ELSE [ahead |-> Tail(p.ahead), hand |-> (p.hand \ {c}) \cup {Head(p.ahead)}]

SummaryEnds(p, c) ==
  LET rest == NextInHand(p, c) IN
  /\ \E state \in {"ready", "error"} : library' = [library EXCEPT !.summaries[c] = state]
  /\ pools' = (pools \ {p}) \cup (IF rest.hand = {} /\ rest.ahead = << >> THEN {} ELSE {rest})
  /\ UNCHANGED << kept, reading >>

AskDelete(c) == /\ library.rows # None /\ c \in library.rows /\ ~library.busy /\ library.pending = None
                /\ library' = [library EXCEPT !.pending = c]
                /\ UNCHANGED << kept, pools, reading >>

KeepReport == /\ library.pending # None /\ ~library.busy
              /\ library' = [library EXCEPT !.pending = None]
              /\ UNCHANGED << kept, pools, reading >>

ConfirmDelete == /\ library.pending # None /\ ~library.busy
                 /\ library' = [library EXCEPT !.busy = TRUE]
                 /\ UNCHANGED << kept, pools, reading >>

\* The request reaches the server or is lost, its answer arrives or is lost.
DeleteEnds(reaches, answered) ==
  LET r == library.pending[1] IN
  /\ library.busy /\ library.pending # None /\ (answered => reaches)
  /\ kept' = IF reaches THEN [kept EXCEPT ![r] = 0] ELSE kept
  /\ library' = [library EXCEPT !.busy = FALSE, !.pending = None,
                   !.rows = IF answered THEN {c \in @ : c[1] # r} ELSE @,
                   !.deleted = IF answered THEN @ \cup {r} ELSE @]
  /\ UNCHANGED << pools, reading >>

\* duplicate(): the copy is opened elsewhere when it is made, and the page
\* stays when it is not.
Duplicate == /\ library.rows # None /\ library.rows # {} /\ ~library.busy /\ library.pending = None
             /\ library' = [library EXCEPT !.busy = TRUE]
             /\ UNCHANGED << kept, pools, reading >>
DuplicateFails == /\ library.busy /\ library.pending = None
                  /\ library' = [library EXCEPT !.busy = FALSE]
                  /\ UNCHANGED << kept, pools, reading >>

\* A report is changed from another page.
EditedElsewhere(r) == /\ kept[r] \in 1..(MaxVersions - 1)
                      /\ kept' = [kept EXCEPT ![r] = @ + 1]
                      /\ UNCHANGED << library, pools, reading >>

LibraryNext ==
  \/ \E f \in LibraryFilters : SetFilter(f)
  \/ \E q \in reading : ServeRows(q) \/ RowsArrive(q) \/ RowsFail(q)
  \/ \E p \in pools : \E c \in p.hand : SummaryEnds(p, c)
  \/ \E r \in Reports : EditedElsewhere(r)
  \/ library.rows # None /\ \E c \in library.rows : AskDelete(c)
  \/ \E reaches, answered \in BOOLEAN : DeleteEnds(reaches, answered)
  \/ KeepReport \/ ConfirmDelete \/ Duplicate \/ DuplicateFails

------------------------------------------------------------------------------
(* Properties                                                              *)

\* The reports shown are those of the filter in force, whichever list comes
\* last, and none that the operator deleted (useAnalyzeLibrary.ts:51-67, 105).
LibraryOfFilter == library.rows # None =>
  \A c \in library.rows : c[1] \in library.filter /\ c[1] \notin library.deleted

\* A card that is loading is before a worker that will come to it, and no
\* card is before two: each total is asked for once, however the lists
\* overlap, and no card loads forever (useAnalyzeLibrary.ts:69-98).
CardsLoad ==
  /\ library.rows # None => library.rows \subseteq Started
  /\ \A c \in Started : library.summaries[c] = "loading" =>
       \E p \in pools : c \in p.hand \/ (p.hand # {} /\ c \in ToSet(p.ahead))
  /\ \A p, q \in pools : \A c \in p.hand \cup ToSet(p.ahead) :
       c \in q.hand \cup ToSet(q.ahead) => p = q
=============================================================================
