---------------------------- MODULE TrackerHandle ----------------------------
(***************************************************************************)
(* The handle init() returns (tracker/src/main.ts) and the start-up behind *)
(* it.  A handle, h, is queued until the site's configuration is there:    *)
(* calls, claims of a replay and campaigns to open wait in it.  Then it is *)
(* active and passes everything to the running tracker, h.r, or it has     *)
(* failed and drops everything.                                            *)
(***************************************************************************)
EXTENDS FeedbackCampaign

CONFIG_ATTEMPTS == 3

\* What a site may configure: whether campaigns may open a widget, when the
\* feedback section is offered, whether there are announcements; and whether
\* the visit is sampled.  DEFAULTS stands in for an answer that never came.
DEFAULTS == [campaigns |-> FALSE, feedback |-> "off", updates |-> FALSE, sampled |-> TRUE]

\* createQueuedHandle()
QueuedHandle ==
  [ phase |-> "starting", attempt |-> 1, listening |-> FALSE, pending |-> << >>,
    claim |-> "none", expands |-> 0, r |-> Runtime(DEFAULTS) ]

Settle(claim) == IF claim = "queued" THEN "settled" ELSE claim

\* fail(), and stop() before activation
Fail(h) == [h EXCEPT !.phase = "failed", !.pending = << >>, !.claim = Settle(@), !.expands = 0]

------------------------------------------------------------------------------
(* Calls of the host                                                       *)

\* The runtime's side of a call.
Perform(r, call) ==
  IF call = "identify" THEN [r EXCEPT !.who = "user"]
  ELSE MountWidget(r, TRUE)

\* dispatch()
Call(h, call) ==
  CASE h.phase = "starting"             -> [h EXCEPT !.pending = Append(@, call)]
    [] h.phase \in {"active", "stopped"} -> [h EXCEPT !.r = Perform(@, call)]
    [] h.phase = "failed"               -> h

\* claimReplay(): the batch is flushed and the request follows 350 ms later.
ClaimReplay(h) ==
  [h EXCEPT !.claim = CASE h.phase = "starting" -> "queued"
                        [] h.phase = "active"   -> "flushed"
                        [] OTHER                -> "settled"]

\* feedback.expand()
ExpandCampaign(h) ==
  CASE h.phase = "starting"             -> [h EXCEPT !.expands = @ + 1]
    [] h.phase \in {"active", "stopped"} -> [h EXCEPT !.r = Expand(@)]
    [] h.phase = "failed"               -> h

\* Mutant of Stop: a claim that waits for the configuration is forgotten.
StopForgetting(h) ==
  IF h.phase = "active" THEN [h EXCEPT !.phase = "stopped", !.listening = FALSE, !.r = Shutdown(@)]
  ELSE IF h.phase = "starting" THEN [h EXCEPT !.phase = "failed", !.pending = << >>]
  ELSE h

\* stop()
Stop(h) ==
  CASE h.phase = "active" ->
         [h EXCEPT !.phase = "stopped", !.listening = FALSE, !.r = Shutdown(@)]
    [] h.phase = "starting" -> Fail(h)
    [] OTHER -> h

------------------------------------------------------------------------------
(* start()                                                                 *)

\* The calls that waited run in the order they were made: an identify() names
\* the visitor and any number of track() ask for the widget once.
Dispatch(r, calls) ==
  LET t == IF \E n \in DOMAIN calls : calls[n] = "track" THEN Perform(r, "track") ELSE r
  IN IF \E n \in DOMAIN calls : calls[n] = "identify" THEN Perform(t, "identify") ELSE t

\* activate(): the first campaign to open is asked for, the others find it opening.
Activate(h) ==
  LET m == MountWidget(h.r, FALSE)
      p == Dispatch(m, h.pending)
  IN [h EXCEPT !.phase = "active", !.pending = << >>, !.expands = 0,
               !.claim = IF @ = "queued" THEN "flushed" ELSE @,
               !.r = IF h.expands > 0 THEN Expand(p) ELSE p]

\* start() after the configuration: the visit may be sampled out, or have no
\* ids for want of a source of randomness; the history, the window and the
\* document are patched before the handle is looked at.
Start(h, site) ==
  LET l == [h EXCEPT !.listening = TRUE, !.r = Runtime(site)]
  IN IF ~site.sampled THEN Fail(h) ELSE IF h.phase = "failed" THEN l ELSE Activate(l)

\* fetchConfig(), an attempt in vain
ConfigFailed(h) ==
  IF h.attempt < CONFIG_ATTEMPTS THEN [h EXCEPT !.attempt = @ + 1]
  ELSE Start([h EXCEPT !.attempt = 0], DEFAULTS)

ConfigArrived(h, site) == Start([h EXCEPT !.attempt = 0], site)

\* onRouteChange(): a page is sent, and a widget not mounted yet may be now.
RouteChanged(h) == [h EXCEPT !.r = MountWidget(@, FALSE)]

\* onTrackedClick()
TrackedClick(h) == [h EXCEPT !.r = MountWidget(@, TRUE)]
=============================================================================
