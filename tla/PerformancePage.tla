---------------------------- MODULE PerformancePage ----------------------------
(***************************************************************************)
(* The performance page: one report for the filters, asked for again with  *)
(* every change of them, every refresh and, while the page is live, at     *)
(* intervals; and the list of its endpoints under filters of its own.      *)
(*                                                                         *)
(* The filters of the page are one value.  A version is its place in the   *)
(* order of the versions; sites, numbers and charts are left out, and so   *)
(* is the dialog of one endpoint, which shows the row it was opened with.  *)
(***************************************************************************)
EXTENDS Integers, FiniteSets, DashboardValues

CONSTANTS PerfFilters, Endpoints, \* an endpoint: environment, service, version
          MaxLoads                \* bound of the requests

ASSUME PerformanceAssumption ==
  /\ IsFiniteSet(Endpoints) /\ \A e \in Endpoints : e.version \in Nat \ {0}
  /\ MaxLoads \in Nat

VARIABLES perf, \* the page
          loads \* requests in flight: the run of the effect, the filters

perfVars == << perf, loads >>

\* Choices of the version that are not one.
LatestVersion == 0
AnyVersion == -1

NoChoice == [environment |-> "all", service |-> "all", version |-> LatestVersion]

PerfOpens(f) ==
  /\ perf = [filter |-> f, run |-> 1, asked |-> 1, fetching |-> TRUE, report |-> None, of |-> None, loading |-> TRUE,
             error |-> FALSE, live |-> TRUE, selected |-> None, choice |-> NoChoice]
  /\ loads = {[n |-> 1, run |-> 1, filter |-> f]}

PerfInit == \E f \in PerfFilters : PerfOpens(f)

\* load(), for the run of the effect that is current
Load(p) == /\ p.asked < MaxLoads
           /\ perf' = [p EXCEPT !.fetching = TRUE, !.asked = @ + 1]
           /\ loads' = loads \cup {[n |-> p.asked + 1, run |-> p.run, filter |-> p.filter]}

\* The effect runs anew: what was asked for before is cancelled.
Rerun(p) == Load([p EXCEPT !.run = @ + 1, !.loading = TRUE])

SetPerfFilter(f) == f # perf.filter /\ Rerun([perf EXCEPT !.filter = f])
SetLive          == Rerun([perf EXCEPT !.live = ~@])
RefreshPerf      == Rerun(perf)

\* The interval: nothing while the last request is under way.
Interval == perf.live /\ ~perf.fetching /\ Load(perf)

NotCancelled(q) == q.run = perf.run

\* The chart stays on its endpoint when the new report has it, and the list
\* of endpoints is not on the page, and starts anew, without any.
Reported(p, rows) ==
  [p EXCEPT !.report = rows, !.selected = IF rows = {} THEN None ELSE IF @ \in rows THEN @ ELSE CHOOSE e \in rows : TRUE,
            !.choice = IF rows = {} THEN NoChoice ELSE @]

LoadArrives(q) ==
  /\ loads' = loads \ {q}
  /\ IF NotCancelled(q)
     THEN \E rows \in SUBSET Endpoints :
            perf' = Reported([perf EXCEPT !.fetching = FALSE, !.loading = FALSE, !.error = FALSE, !.of = q.filter], rows)
     ELSE UNCHANGED perf

PerfFails(q) ==
  /\ loads' = loads \ {q}
  /\ perf' = IF NotCancelled(q) THEN [perf EXCEPT !.fetching = FALSE, !.loading = FALSE, !.error = TRUE] ELSE perf

HasList == perf.report # None /\ perf.report # {}

SelectEndpoint(e) == HasList /\ e \in perf.report /\ perf' = [perf EXCEPT !.selected = e] /\ UNCHANGED loads

\* A choice the report no longer offers counts as the default.
Scoped(choice, offered, default) == IF choice \in offered THEN choice ELSE default

Of(rows, f) == {e[f] : e \in rows}

InEnvironment == LET environment == Scoped(perf.choice.environment, Of(perf.report, "environment"), "all") IN
                 {e \in perf.report : environment \in {"all", e.environment}}

\* The endpoints under the choices of environment and service.
ScopedEndpoints == LET service == Scoped(perf.choice.service, Of(InEnvironment, "service"), "all") IN
                   {e \in InEnvironment : service \in {"all", e.service}}

\* latestEndpointVersions()
Latests(rows) == {e \in rows : \A d \in rows :
                    d.environment = e.environment /\ d.service = e.service => d.version <= e.version}

VisibleEndpoints ==
  LET rows    == ScopedEndpoints
      version == Scoped(perf.choice.version, Of(rows, "version") \cup {AnyVersion}, LatestVersion) IN
  IF version = LatestVersion THEN Latests(rows) ELSE {e \in rows : version \in {AnyVersion, e.version}}

\* The choices of the list: one of a field resets the ones below it.
Choose(environment, service, version) ==
  /\ HasList
  /\ \/ environment # perf.choice.environment /\ service = "all" /\ version = LatestVersion
     \/ environment = perf.choice.environment /\ service # perf.choice.service /\ version = LatestVersion
     \/ environment = perf.choice.environment /\ service = perf.choice.service
  /\ environment \in {"all", perf.choice.environment} \cup Of(perf.report, "environment")
  /\ service \in {"all", perf.choice.service} \cup Of(InEnvironment, "service")
  /\ version \in Of(ScopedEndpoints, "version") \cup {AnyVersion, LatestVersion}
  /\ perf' = [perf EXCEPT !.choice = [environment |-> environment, service |-> service, version |-> version]]
  /\ UNCHANGED loads

PerfNext ==
  \/ \E f \in PerfFilters : SetPerfFilter(f)
  \/ SetLive \/ RefreshPerf \/ Interval
  \/ \E q \in loads : LoadArrives(q) \/ PerfFails(q)
  \/ \E e \in Endpoints : SelectEndpoint(e)
  \/ \E environment \in {"all"} \cup Of(Endpoints, "environment"), service \in {"all"} \cup Of(Endpoints, "service"),
        version \in Of(Endpoints, "version") \cup {AnyVersion, LatestVersion} : Choose(environment, service, version)

------------------------------------------------------------------------------
(* Properties                                                              *)

\* Once the page neither loads nor shows a message its report is the one of
\* the filters chosen, and the chart is of one of its endpoints
\* (usePerformance.ts:24-71).
ReportOfFilters ==
  /\ ~perf.loading /\ ~perf.error => perf.of = perf.filter
  /\ HasList => perf.selected \in perf.report

\* The list of a report that has endpoints is never empty, whatever was
\* chosen before a refresh brought others: no choice that is left over
\* hides them (EndpointList.tsx:16-30, Performance.helpers.ts:39-48).
EndpointsVisible == HasList => VisibleEndpoints # {}
=============================================================================
