------------------------------ MODULE ReportView ------------------------------
(***************************************************************************)
(* The page of one analysis report: the report is read, then its numbers,  *)
(* again for every range chosen and every refresh.  The range is part of   *)
(* the address and never of the report.                                    *)
(*                                                                         *)
(* A range is the saved one, another one, or dates that are not one yet.   *)
(* What a custom range starts with, names and wording are left out.        *)
(***************************************************************************)
EXTENDS Naturals, DashboardValues

CONSTANTS ReportIds, MaxReads \* bound of the requests of each kind

ASSUME ReportViewAssumption == MaxReads \in Nat

VARIABLES view,    \* the page
          reads,   \* requests of the report in flight
          results  \* requests of its numbers in flight, with the report and range

viewVars == << view, reads, results >>

RangeChoices == {"default", "window", "custom", "custom without dates"}

IsRange(choice) == choice # "custom without dates"

\* Asking for the report when the address names it.
Opened(v, r) == [v EXCEPT !.id = r, !.report = None, !.notFound = FALSE, !.error = FALSE, !.read = @ + 1]

ViewOpens(r, choice) ==
  /\ view = [id |-> r, choice |-> choice, report |-> None, notFound |-> FALSE, result |-> None, loading |-> TRUE,
             error |-> FALSE, read |-> 1, ask |-> 0, asking |-> FALSE, busy |-> FALSE]
  /\ reads = {[n |-> 1, id |-> r]} /\ results = {}

ViewInit == \E r \in ReportIds, choice \in {"default", "custom"} : ViewOpens(r, choice)

\* The history of the browser leads from one report to another.
Navigate(r, choice) ==
  /\ r # view.id /\ view.read < MaxReads
  /\ view' = [Opened(view, r) EXCEPT !.choice = choice, !.asking = FALSE]
  /\ reads' = reads \cup {[n |-> view.read + 1, id |-> r]}
  /\ UNCHANGED results

\* The effect of the report, the range and a refresh: the numbers asked for
\* before no longer count, and none are asked for without a range.
Evaluate(v) ==
  IF v.report # None /\ IsRange(v.choice)
  THEN /\ view' = [v EXCEPT !.loading = TRUE, !.ask = @ + 1, !.asking = TRUE]
       /\ results' = results \cup {[n |-> v.ask + 1, id |-> v.report, choice |-> v.choice]}
  ELSE view' = [v EXCEPT !.asking = FALSE] /\ UNCHANGED results

ReportArrives(q) ==
  /\ reads' = reads \ {q}
  /\ IF q.n = view.read THEN view.ask < MaxReads /\ Evaluate([view EXCEPT !.report = q.id])
     ELSE UNCHANGED << view, results >>

ReportFails(q) ==
  /\ reads' = reads \ {q}
  /\ \E gone \in BOOLEAN :
       view' = IF q.n # view.read THEN view
               ELSE IF gone THEN [view EXCEPT !.notFound = TRUE] ELSE [view EXCEPT !.error = TRUE]
  /\ UNCHANGED results

Present == view.report # None /\ ~view.notFound

\* setChoice(), setCustom()
SetChoice(choice) == /\ Present /\ choice # view.choice /\ view.ask < MaxReads
                     /\ Evaluate([view EXCEPT !.choice = choice])
                     /\ UNCHANGED reads

RefreshResult == /\ Present /\ ~view.loading /\ view.ask < MaxReads
                 /\ Evaluate(view)
                 /\ UNCHANGED reads

\* Mutant of Counts: the numbers that come last are shown.
CountsAny(q) == TRUE

\* The request the effect made last, unless the effect has run since.
Counts(q) == view.asking /\ q.n = view.ask

ResultArrives(q) ==
  /\ results' = results \ {q}
  /\ view' = IF Counts(q) THEN [view EXCEPT !.result = [of |-> q.id, choice |-> q.choice], !.error = FALSE,
                                            !.loading = FALSE, !.asking = FALSE] ELSE view
  /\ UNCHANGED reads

ResultFails(q) ==
  /\ results' = results \ {q}
  /\ \E gone \in BOOLEAN :
       view' = IF ~Counts(q) THEN view
               ELSE IF gone THEN [view EXCEPT !.notFound = TRUE, !.loading = FALSE, !.asking = FALSE]
               ELSE [view EXCEPT !.error = TRUE, !.loading = FALSE, !.asking = FALSE]
  /\ UNCHANGED reads

\* duplicate(), remove(): another page is opened when they succeed.
ChangeReport == /\ Present /\ ~view.busy /\ view' = [view EXCEPT !.busy = TRUE]
                /\ UNCHANGED << reads, results >>
ChangeReportFails == /\ view.busy /\ view' = [view EXCEPT !.busy = FALSE, !.error = TRUE]
                     /\ UNCHANGED << reads, results >>

ViewNext ==
  \/ \E r \in ReportIds, choice \in RangeChoices : Navigate(r, choice)
  \/ \E q \in reads : ReportArrives(q) \/ ReportFails(q)
  \/ \E q \in results : ResultArrives(q) \/ ResultFails(q)
  \/ \E choice \in RangeChoices : SetChoice(choice)
  \/ RefreshResult \/ ChangeReport \/ ChangeReportFails

------------------------------------------------------------------------------
(* Properties                                                              *)

\* The numbers on the page, once neither loading nor with a message, are of
\* the report on the page and of the range chosen, in whatever order the
\* answers come (useReportResult.ts:29-75).
ResultShown ==
  /\ view.report # None => view.report = view.id
  /\ Present /\ ~view.loading /\ ~view.error /\ IsRange(view.choice) =>
       view.result = [of |-> view.id, choice |-> view.choice]
=============================================================================
