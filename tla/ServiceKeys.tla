---------------------------- MODULE ServiceKeys ----------------------------
(***************************************************************************)
(* The services of a site and the keys by which they send: services are    *)
(* created, edited on their cards, given another key or none.  The server  *)
(* shows a key once, in the answer that creates it.                        *)
(*                                                                         *)
(* The fields of a service are one value, of two.  A key is the number of  *)
(* the request that created it.  The legacy keys of the site, copying, and *)
(* leaving the tab are left out.                                           *)
(***************************************************************************)
EXTENDS Naturals, DashboardValues

CONSTANTS ServiceIds,
          MaxServiceCalls \* bound of what the administrator asks for

ASSUME ServiceAssumption == ServiceIds \cap {None, "new"} = {} /\ None # "new" /\ MaxServiceCalls \in Nat

VARIABLES serviceRows, \* on the server
          tab,         \* the page; asked and hurried say which requests for keys were made
          serviceCalls \* in flight: what is asked for, and the list that follows it

serviceVars == << serviceRows, tab, serviceCalls >>

NoService == [exists |-> FALSE, fields |-> 0, key |-> 0, active |-> FALSE]
NewService(key) == [exists |-> TRUE, fields |-> 0, key |-> key, active |-> TRUE]

\* A request and the mark of what is busy until it is over.
Request(n, kind, s, fields, mark) ==
  [n |-> n, kind |-> kind, of |-> s, fields |-> fields, mark |-> mark, step |-> "asked", rows |-> None]

ServicesInit ==
  /\ serviceRows \in [ServiceIds -> {NoService, NewService(0)}]
  /\ tab = [known |-> FALSE, rows |-> [s \in ServiceIds |-> NoService], drafts |-> [s \in ServiceIds |-> 0],
            busy |-> {}, error |-> FALSE, shown |-> [of |-> None, key |-> 0],
            calls |-> 0, asked |-> [s \in ServiceIds |-> 0], hurried |-> {}]
  /\ serviceCalls = {Request(0, "list", None, 0, None)}

------------------------------------------------------------------------------
(* What the administrator does                                             *)

Ask(kind, s, fields, mark, t) ==
  /\ tab.calls < MaxServiceCalls
  /\ serviceCalls' = serviceCalls \cup {Request(tab.calls + 1, kind, s, fields, mark)}
  /\ tab' = [t EXCEPT !.calls = @ + 1, !.error = FALSE, !.busy = IF mark = None THEN @ ELSE @ \cup {mark}]
  /\ UNCHANGED serviceRows

CreateService == "new" \notin tab.busy /\ Ask("create", None, 0, "new", tab)

\* A card with its draft.
EditService(s) == /\ tab.rows[s].exists
                  /\ tab' = [tab EXCEPT !.drafts[s] = 1 - @]
                  /\ UNCHANGED << serviceRows, serviceCalls >>

DirtyService(s) == tab.drafts[s] # tab.rows[s].fields

SaveService(s) == /\ tab.rows[s].exists /\ DirtyService(s) /\ s \notin tab.busy
                  /\ Ask("save", s, tab.drafts[s], s, tab)

\* The buttons of a key wait for nothing.
KeyCalls(s) == {q \in serviceCalls : q.of = s /\ q.kind \in {"rotate", "revoke"}}

AskKey(kind, s) ==
  /\ tab.rows[s].exists /\ (kind = "revoke" => tab.rows[s].active)
  /\ Ask(kind, s, 0, None, [tab EXCEPT !.asked[s] = tab.calls + 1,
                                       !.hurried = IF KeyCalls(s) = {} THEN @ ELSE @ \cup {s}])

------------------------------------------------------------------------------
(* The server                                                              *)

AfterRequest(q, row) ==
  CASE q.kind = "create" -> NewService(q.n)
    [] q.kind = "save"   -> [row EXCEPT !.fields = q.fields]
    [] q.kind = "rotate" -> [row EXCEPT !.key = q.n, !.active = TRUE]
    [] OTHER             -> [row EXCEPT !.active = FALSE]

ServeService(q, s) ==
  /\ q.step = "asked" /\ q.kind # "list"
  /\ IF q.kind = "create" THEN ~serviceRows[s].exists
     ELSE s = q.of /\ (q.kind = "revoke" => serviceRows[s].active)
  /\ serviceRows' = [serviceRows EXCEPT ![s] = AfterRequest(q, @)]
  /\ serviceCalls' = (serviceCalls \ {q}) \cup {[q EXCEPT !.step = "done", !.of = s]}
  /\ UNCHANGED tab

ListServices(q) ==
  /\ q.step = "asked" /\ q.kind = "list"
  /\ serviceCalls' = (serviceCalls \ {q}) \cup {[q EXCEPT !.step = "done", !.rows = serviceRows]}
  /\ UNCHANGED << serviceRows, tab >>

------------------------------------------------------------------------------
(* The answers                                                             *)

Over(q, t) == [t EXCEPT !.busy = @ \ {q.mark}]

\* load(): the cards take what it brings, whatever was edited.
ServicesArrive(q) ==
  /\ q.step = "done" /\ q.kind = "list"
  /\ serviceCalls' = serviceCalls \ {q}
  /\ tab' = Over(q, [tab EXCEPT !.known = TRUE, !.rows = q.rows, !.error = FALSE,
                                !.drafts = [s \in ServiceIds |-> q.rows[s].fields]])
  /\ UNCHANGED serviceRows

\* A new key is shown, and the list asked for again.
Answered(q) ==
  /\ q.step = "done" /\ q.kind # "list"
  /\ serviceCalls' = (serviceCalls \ {q}) \cup {Request(q.n, "list", None, 0, q.mark)}
  /\ tab' = [tab EXCEPT !.shown = IF q.kind \in {"create", "rotate"} THEN [of |-> q.of, key |-> q.n] ELSE @]
  /\ UNCHANGED serviceRows

\* Refused, or lost on either way.
RequestFails(q) ==
  /\ serviceCalls' = serviceCalls \ {q}
  /\ tab' = Over(q, [tab EXCEPT !.error = TRUE])
  /\ UNCHANGED serviceRows

ServicesNext ==
  \/ CreateService
  \/ \E s \in ServiceIds : \/ EditService(s) \/ SaveService(s)
                           \/ \E kind \in {"rotate", "revoke"} : AskKey(kind, s)
                           \/ \E q \in serviceCalls : ServeService(q, s)
  \/ \E q \in serviceCalls : ListServices(q) \/ ServicesArrive(q) \/ Answered(q) \/ RequestFails(q)

------------------------------------------------------------------------------
(* Properties                                                              *)

\* A key that is shown is the one that the server takes, unless another was
\* asked for since, or its revocation, or two such requests of the service were
\* made at a time (ServicesTab.tsx:57-71, 102-121, services.go:153-186).
KeyWorks ==
  LET s == tab.shown.of IN
  s # None /\ s \notin tab.hurried /\ tab.asked[s] <= tab.shown.key =>
    serviceRows[s].exists /\ serviceRows[s].active /\ serviceRows[s].key = tab.shown.key

\* A tab without its list waits for an answer or says that something failed,
\* and a button is off exactly as long as its one request, with the list that
\* follows it, is under way (ServicesTab.tsx:42-73, 91-100, 292-299).
ServicesCome ==
  /\ ~tab.known => tab.error \/ serviceCalls # {}
  /\ \A mark \in ServiceIds \cup {"new"} : mark \in tab.busy <=> \E q \in serviceCalls : q.mark = mark
  /\ \A q, r \in serviceCalls : q.mark = r.mark /\ q.mark # None => q = r
=============================================================================
