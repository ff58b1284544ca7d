----------------------------- MODULE TrackerHost -----------------------------
(***************************************************************************)
(* A page with the tracker on it: the script tag and the React providers   *)
(* that call init() (tracker/src/snippet.ts, react.ts), the guard on the   *)
(* window that lets one of them own the page, the start-up and the calls   *)
(* of the handle, the visitor at the widget, and the server's deliveries,  *)
(* which other tabs of the same visitor reserve too.                       *)
(***************************************************************************)
EXTENDS TrackerHandle

CONSTANTS Pages,     \* the sites and pages the tracker may run on, see Page
          Providers, \* the React providers that may be rendered
          MaxTime    \* bound of the clock

\* What happens to a page only so often: providers unmounted, stops, calls,
\* navigations, campaigns opened by the host, those in another tab, requests
\* that fail, panels opened by the visitor.
Events == {"unmount", "stop", "call", "navigate", "expand", "other", "lose", "claim", "open"}

Page == [site : [campaigns : BOOLEAN, feedback : {"off", "always", "action"},
                 updates : BOOLEAN, sampled : BOOLEAN],
         optout : BOOLEAN, script : BOOLEAN, providers : SUBSET Providers,
         bounds : [Events -> Nat]]

ASSUME HostAssumption ==
  /\ MaxTime \in Nat
  /\ \A p \in Pages : /\ p.site.feedback \in {"off", "always", "action"}
                     /\ {p.site.campaigns, p.site.updates, p.site.sampled, p.optout, p.script}
                          \subseteq BOOLEAN
                     /\ p.providers \subseteq Providers /\ DOMAIN p.bounds = Events

VARIABLES page,   \* the page, and what may happen to it yet
          owner,  \* __traceUXStarted and __traceUXInstance: a handle, or None
          hs,     \* the handles init() made
          react,  \* the providers: handle, mounted, cleanup timer
          dels,   \* the server's deliveries of the campaign, by token
          now,    \* its clock
          refused \* the outcomes it refused, see Refusal

vars == << page, owner, hs, react, dels, now, refused >>

May(event)   == page.bounds[event] > 0
Spend(event) == page' = [page EXCEPT !.bounds[event] = @ - 1]

------------------------------------------------------------------------------
(* Who owns the page                                                       *)

\* init(): the second caller gets the handle of the first.  A visitor who
\* opted out gets a failed handle, which owns the page all the same.
NewHandle == IF page.optout THEN [Fail(QueuedHandle) EXCEPT !.attempt = 0] ELSE QueuedHandle

\* The handle a call of init() returns, and what it leaves behind.
InitReturns  == IF owner # None THEN owner ELSE Len(hs) + 1
InitCalled == /\ owner' = InitReturns
              /\ hs' = IF owner # None THEN hs ELSE Append(hs, NewHandle)

ScriptTag ==
  /\ page.script
  /\ InitCalled
  /\ page' = [page EXCEPT !.script = FALSE]
  /\ UNCHANGED << react, dels, now, refused >>

\* The provider is rendered for the first time, and its effect runs.
Render(p) ==
  /\ p \in page.providers /\ react[p].handle = None
  /\ InitCalled
  /\ react' = [react EXCEPT ![p] = [handle |-> InitReturns, mounted |-> TRUE, timer |-> FALSE]]
  /\ UNCHANGED << page, dels, now, refused >>

Unmount(p) ==
  /\ May("unmount") /\ react[p].mounted
  /\ react' = [react EXCEPT ![p].mounted = FALSE, ![p].timer = TRUE]
  /\ Spend("unmount")
  /\ UNCHANGED << owner, hs, dels, now, refused >>

\* React.StrictMode runs the effect again before the cleanup timer.
Remount(p) ==
  /\ react[p].timer /\ ~react[p].mounted
  /\ react' = [react EXCEPT ![p].mounted = TRUE]
  /\ UNCHANGED << page, owner, hs, dels, now, refused >>

\* Mutant of Released: a stop before the configuration is there gives up the page.
ReleasedEarly(i) == IF owner = i /\ hs[i].phase \in {"starting", "active"} THEN None ELSE owner

\* shutdown() gives up the page; the stop of a queued handle does not.
Released(i) == IF owner = i /\ hs[i].phase = "active" THEN None ELSE owner

StopHandle(i) == /\ hs' = [hs EXCEPT ![i] = Stop(@)]
                 /\ owner' = Released(i)

Cleanup(p) ==
  /\ react[p].timer
  /\ react' = [react EXCEPT ![p].timer = FALSE]
  /\ IF react[p].mounted THEN UNCHANGED << owner, hs >> ELSE StopHandle(react[p].handle)
  /\ UNCHANGED << page, dels, now, refused >>

StopCalled(i) ==
  /\ May("stop")
  /\ StopHandle(i)
  /\ Spend("stop")
  /\ UNCHANGED << react, dels, now, refused >>

------------------------------------------------------------------------------
(* Steps of one handle                                                     *)

Step(i, h) == /\ hs' = [hs EXCEPT ![i] = h]
              /\ UNCHANGED << owner, react, dels, now, refused >>

Running(i, r) == Step(i, [hs[i] EXCEPT !.r = r])

Configured(i) ==
  /\ hs[i].attempt # 0
  /\ Step(i, ConfigArrived(hs[i], page.site))
  /\ UNCHANGED page

AttemptFails(i) ==
  /\ May("lose") /\ hs[i].attempt # 0
  /\ Step(i, ConfigFailed(hs[i]))
  /\ Spend("lose")

Calls(i) ==
  /\ May("call")
  /\ \E call \in {"identify", "track"} : Step(i, Call(hs[i], call))
  /\ Spend("call")

Click(i) ==
  /\ May("call") /\ hs[i].listening
  /\ Step(i, TrackedClick(hs[i]))
  /\ Spend("call")

Navigate(i) ==
  /\ May("navigate") /\ hs[i].listening
  /\ Step(i, RouteChanged(hs[i]))
  /\ Spend("navigate")

Claim(i) ==
  /\ May("claim") /\ hs[i].claim = "none"
  /\ Step(i, ClaimReplay(hs[i]))
  /\ Spend("claim")

\* The request for the replay is sent after 350 ms and answered or refused.
ClaimStep(i) ==
  /\ hs[i].claim \in {"flushed", "asked"}
  /\ Step(i, [hs[i] EXCEPT !.claim = IF @ = "flushed" THEN "asked" ELSE "settled"])
  /\ UNCHANGED page

ExpandCalled(i) ==
  /\ May("expand")
  /\ Step(i, ExpandCampaign(hs[i]))
  /\ Spend("expand")

WidgetImported(i) ==
  /\ hs[i].r.importing
  /\ Running(i, Imported(hs[i].r))
  /\ UNCHANGED page

ImportLost(i) ==
  /\ May("lose") /\ hs[i].r.importing
  /\ Running(i, ImportFails(hs[i].r))
  /\ Spend("lose")

------------------------------------------------------------------------------
(* A campaign                                                              *)

Eligibility(i) ==
  /\ hs[i].r.stage = "asking"
  /\ IF Reservable(dels, hs[i].r.who, now)
     THEN /\ dels' = Reserve(dels, hs[i].r.who, "this tab", now)
          /\ hs' = [hs EXCEPT ![i].r = [@ EXCEPT !.stage = "reserved", !.token = Len(dels) + 1]]
     ELSE /\ hs' = [hs EXCEPT ![i].r = Declined(@)]
          /\ UNCHANGED dels
  /\ UNCHANGED << page, owner, react, now, refused >>

EligibilityLost(i) ==
  /\ May("lose") /\ hs[i].r.stage \in {"asking", "reserved"}
  /\ Running(i, Declined(hs[i].r))
  /\ Spend("lose")

\* The token arrives; a load of the widget that is under way is awaited.
TokenArrives(i) ==
  /\ hs[i].r.stage = "reserved" /\ ~hs[i].r.importing
  /\ Running(i, Proceed(hs[i].r))
  /\ UNCHANGED page

CampaignImported(i) ==
  /\ hs[i].r.stage = "importing"
  /\ Running(i, ExpandImported(hs[i].r))
  /\ UNCHANGED page

CampaignImportLost(i) ==
  /\ May("lose") /\ hs[i].r.stage = "importing"
  /\ Running(i, Declined(hs[i].r))
  /\ Spend("lose")

\* What the server refuses: the outcome, what it has of the delivery, and
\* whether the page has given up a shown request that is still to come.
Refusal(i, q) ==
  [token |-> q.token, what |-> q.what, has |-> dels[q.token].status,
   late |-> Request(q.token, "shown") \in hs[i].r.wire \ hs[i].r.out]

\* A request about a delivery is handled by the server, whether or not the page
\* still waits for its answer.
Handled(i, q) ==
  /\ q \in hs[i].r.wire
  /\ hs' = [hs EXCEPT ![i].r.wire = @ \ {q}]
  /\ IF Accepts(dels[q.token], q.what, now)
     THEN /\ dels' = [dels EXCEPT ![q.token] = Mark(@, q.what, now)]
          /\ UNCHANGED refused
     ELSE /\ refused' = refused \cup (IF q.what = "shown" THEN {} ELSE {Refusal(i, q)})
          /\ UNCHANGED dels
  /\ UNCHANGED << page, owner, react, now >>

\* The server's answer is there, and is not one that asks for a retry.
RequestOver(i, q) ==
  /\ q \in hs[i].r.out \ hs[i].r.wire
  /\ Running(i, Over(hs[i].r, q))
  /\ UNCHANGED page

\* A request fails for the page: it, or its answer, is lost, or the server could
\* not be reached for long enough.  It may have been handled, or be handled yet.
RequestLost(i, q) ==
  /\ May("lose") /\ q \in hs[i].r.out
  /\ Running(i, Over(hs[i].r, q))
  /\ Spend("lose")

RequestRetried(i, q) ==
  /\ May("lose") /\ q \in hs[i].r.out /\ Retryable(hs[i].r, q)
  /\ Running(i, Retry(hs[i].r, q))
  /\ Spend("lose")

RetryTimer(i, q) ==
  /\ q \in hs[i].r.again
  /\ Running(i, Resend(hs[i].r, q))
  /\ UNCHANGED page

\* Another tab of the visitor reserves the campaign, and shows it.
OtherReserves ==
  /\ May("other") /\ Reservable(dels, "visitor", now)
  /\ dels' = Reserve(dels, "visitor", "other tab", now)
  /\ Spend("other")
  /\ UNCHANGED << owner, hs, react, now, refused >>

OtherShows(t) ==
  /\ dels[t].session = "other tab" /\ Accepts(dels[t], "shown", now)
  /\ dels' = [dels EXCEPT ![t] = Mark(@, "shown", now)]
  /\ UNCHANGED << page, owner, hs, react, now, refused >>

Tick ==
  /\ now < MaxTime /\ dels # << >>
  /\ now' = now + 1
  /\ UNCHANGED << page, owner, hs, react, dels, refused >>

------------------------------------------------------------------------------
(* The visitor at the widget of handle i                                   *)

\* The steps of the panel that may report something.
Panel(i, w) == Running(i, After(hs[i].r, w))

OpenLauncher(i) ==
  /\ May("open") /\ hs[i].r.mounted /\ ~hs[i].r.w.open
  /\ Running(i, [hs[i].r EXCEPT !.w = OpenAt(@, @.section)])
  /\ Spend("open")

CloseWidget(i) ==
  /\ hs[i].r.mounted /\ hs[i].r.w.open
  /\ Panel(i, ClosePanel(hs[i].r.w, TRUE))
  /\ UNCHANGED page

Answer(i) ==
  /\ hs[i].r.mounted /\ FormShown(hs[i].r.w)
  /\ Panel(i, SubmitFeedback(hs[i].r.w))
  /\ UNCHANGED page

SkipCampaign(i) ==
  /\ hs[i].r.mounted /\ FormShown(hs[i].r.w) /\ hs[i].r.w.token # None
  /\ Panel(i, Skip(hs[i].r.w))
  /\ UNCHANGED page

\* Three seconds after an answer
ThanksEnd(i) ==
  /\ hs[i].r.mounted /\ hs[i].r.w.closing
  /\ Panel(i, ClosePanel(hs[i].r.w, TRUE))
  /\ UNCHANGED page

Finishing(i) ==
  /\ hs[i].r.finishing
  /\ Running(i, CampaignFinished(hs[i].r))
  /\ UNCHANGED page

------------------------------------------------------------------------------

Init ==
  /\ page \in Pages
  /\ owner = None /\ hs = << >>
  /\ react = [p \in Providers |-> [handle |-> None, mounted |-> FALSE, timer |-> FALSE]]
  /\ dels = << >> /\ now = 0 /\ refused = {}

Host == \/ ScriptTag \/ OtherReserves \/ Tick
        \/ \E p \in Providers : Render(p) \/ Unmount(p) \/ Remount(p) \/ Cleanup(p)
        \/ \E t \in DOMAIN dels : OtherShows(t)

Tracker(i) ==
  \/ StopCalled(i) \/ Configured(i) \/ AttemptFails(i) \/ Calls(i) \/ Click(i) \/ Navigate(i)
  \/ Claim(i) \/ ClaimStep(i) \/ ExpandCalled(i) \/ WidgetImported(i) \/ ImportLost(i)

Campaign(i) ==
  \/ Eligibility(i) \/ EligibilityLost(i) \/ TokenArrives(i)
  \/ CampaignImported(i) \/ CampaignImportLost(i)
  \/ \E q \in hs[i].r.wire : Handled(i, q)
  \/ \E q \in hs[i].r.out : RequestOver(i, q) \/ RequestLost(i, q) \/ RequestRetried(i, q)
  \/ \E q \in hs[i].r.again : RetryTimer(i, q)
  \/ OpenLauncher(i) \/ CloseWidget(i) \/ Answer(i) \/ SkipCampaign(i) \/ ThanksEnd(i)
  \/ Finishing(i)

Next == Host \/ \E i \in DOMAIN hs : Tracker(i) \/ Campaign(i)

Spec == Init /\ [][Next]_vars

\* Requests end, one way or the other, within the time a browser gives them.
Progress(i) == /\ i \in DOMAIN hs
               /\ Configured(i) \/ ClaimStep(i)

Fairness == \A i \in 1 .. Cardinality(Providers) + 1 : WF_vars(Progress(i))

FairSpec == Spec /\ Fairness

------------------------------------------------------------------------------
(* Properties                                                              *)

\* One tracker at most starts, records or listens on a page, whichever of the
\* script tag and the providers asked for it, in whatever order they come and go.
ExclusiveOwner ==
  Cardinality({i \in DOMAIN hs : hs[i].listening \/ hs[i].phase \in {"starting", "active"}}) <= 1

\* A visitor sees a campaign once per recurrence: two tabs, an expired
\* reservation and a late shown request do not show it again sooner.
NoRepeat ==
  \A s, t \in DOMAIN dels :
    /\ s < t /\ dels[s].who = dels[t].who
    /\ dels[s].shown # Never /\ dels[t].shown # Never
    => dels[t].shown - dels[s].shown > COOLDOWN

\* An outcome the server refuses is one it has, or one of a delivery it never
\* learns was shown: whatever is lost and sent again, an outcome follows no other
\* outcome and overtakes no shown request, but one the page has given up.
AnswerCounts ==
  \A q \in refused :
    \/ q.has = q.what
    \/ q.has = "reserved" /\ (q.late \/ dels[q.token].shown = Never)

\* Every promise of a replay's address is kept or broken.
ClaimsSettle ==
  \A i \in 1 .. Cardinality(Providers) + 1 :
    (i \in DOMAIN hs /\ hs[i].claim # "none") ~> (i \in DOMAIN hs /\ hs[i].claim = "settled")
=============================================================================
