-------------------------- MODULE FeedbackCampaign --------------------------
(***************************************************************************)
(* The widget and the feedback campaigns of one running tracker            *)
(* (tracker/src/main.ts), and the deliveries the server keeps of them      *)
(* (server/store/feedback_campaigns.go, feedback.go).  The state of a      *)
(* tracker is one record, r, and its functions are operators from such a   *)
(* record to the next; r.w is the panel of WidgetPanel while one is        *)
(* mounted.  The widget's code is imported when it is first needed, so     *)
(* mounting it takes two steps; a campaign is opened by the host in four:  *)
(* the server is asked, a load of the widget is awaited, the widget is     *)
(* mounted again if it has no feedback section, the panel opens.           *)
(***************************************************************************)
EXTENDS WidgetPanel, TLC

CONSTANTS RESERVATION,  \* how long a reservation lives: 120 s
          COOLDOWN      \* the recurrence of the campaign

ASSUME CampaignAssumption == RESERVATION \in Nat \ {0} /\ COOLDOWN \in Nat \ {0}

MAX_SEND_RETRIES == 4

\* A request about delivery token: the panel was shown, or how it ended; try
\* counts the times it was sent before.
Request(token, what) == [token |-> token, what |-> what, try |-> 0]

\* Requests are sent: the page waits for their answers (out), and the server
\* has not handled them (wire).
Send(r, requests) == [r EXCEPT !.out = @ \cup requests, !.wire = @ \cup requests]

------------------------------------------------------------------------------
(* The widget                                                              *)

\* feedbackAvailable(): the site offers feedback always, or once one of its
\* actions was tracked.  On a page, a trigger by URL is one of always and off.
FeedbackAvailable(r, action) ==
  r.site.feedback = "always" \/ (r.site.feedback = "action" /\ action)

SectionsWith(r, feedback) == {s \in {"feedback", "updates"} :
  IF s = "feedback" THEN feedback ELSE r.site.updates}

\* A panel with these sections, and its launcher.
WidgetWith(sections) ==
  LET panel == Mounted(sections)
  IN [f \in DOMAIN panel \cup DOMAIN LauncherFields |-> IF f \in DOMAIN panel THEN panel[f] ELSE LauncherFields[f]]

NoWidget == WidgetWith({"feedback"})

\* A widget is appended to the page; the tracker forgets the one it had.
Place(r, sections) ==
  IF sections = {} THEN [r EXCEPT !.mounted = FALSE, !.w = NoWidget]
  ELSE [r EXCEPT !.mounted = TRUE, !.w = WidgetWith(sections),
                 !.orphans = @ + (IF r.mounted THEN 1 ELSE 0)]

DestroyWidget(r) == [r EXCEPT !.mounted = FALSE, !.w = NoWidget]

\* openPanel(target): a section the widget does not have is ignored.
OpenAt(w, target) ==
  LET next == IF target \in w.sections THEN target ELSE w.section
  IN SwapView([HideToast(w) EXCEPT !.open = TRUE, !.section = next])

\* mountWidgetIfConfigured(), action: is it called for an action of the feedback trigger?
MountWidget(r, action) ==
  LET wanted == action /\ FeedbackAvailable(r, action)
      u == IF wanted THEN [r EXCEPT !.action = TRUE] ELSE r
  IN IF r.disposed THEN r
     ELSE IF r.mounted THEN (IF wanted THEN [r EXCEPT !.w = OpenAt(@, "feedback")] ELSE r)
     ELSE IF u.importing \/ SectionsWith(r, FeedbackAvailable(r, action)) = {} THEN u
     ELSE [u EXCEPT !.importing = TRUE]

\* The import of mountWidgetIfConfigured ends: then, finally.
Imported(r) ==
  LET u == Place([r EXCEPT !.importing = FALSE, !.action = FALSE],
                 SectionsWith(r, FeedbackAvailable(r, r.action)))
  IN IF r.disposed THEN [r EXCEPT !.importing = FALSE]
     ELSE IF r.action /\ u.mounted THEN [u EXCEPT !.w = OpenAt(@, "feedback")] ELSE u

\* catch: a widget that could not be loaded does not trouble the page.
ImportFails(r) == [DestroyWidget(r) EXCEPT !.importing = FALSE, !.action = FALSE]

------------------------------------------------------------------------------
(* Opening a campaign: expandFeedbackCampaign                              *)

Expand(r) ==
  IF r.disposed \/ ~r.site.campaigns \/ r.stage # "idle" \/ (r.mounted /\ r.w.open) THEN r
  ELSE [r EXCEPT !.stage = "asking"]

\* Not eligible, or no usable answer.
Declined(r) == [r EXCEPT !.stage = "idle", !.token = None]

\* The panel opens and the server is told.
Opened(r) ==
  LET w == [r.w EXCEPT !.token = r.token, !.submitted = FALSE, !.done = FALSE]
  IN Send([r EXCEPT !.stage = "idle", !.token = None, !.w = OpenAt(w, "feedback"),
                    !.acks = @ \cup {r.token}],
          {Request(r.token, "shown")})

\* With a token in hand and no load under way: the panel may have been opened
\* since, and a widget without a feedback section is replaced.
Proceed(r) ==
  IF r.mounted /\ r.w.open THEN Declined(r)
  ELSE IF r.mounted /\ "feedback" \in r.w.sections THEN Opened(r)
  ELSE [DestroyWidget(r) EXCEPT !.stage = "importing"]

ExpandImported(r) == Opened(Place(r, SectionsWith(r, TRUE)))

------------------------------------------------------------------------------
(* How a delivery ends                                                     *)

\* Mutant of Outcome: it is sent at once.
OutcomeAtOnce(r, request) ==
  IF request.token = None THEN r ELSE Send(r, {request})

\* sendFeedback(), campaignLifecycle(): the outcome follows the shown request.
Outcome(r, request) ==
  IF request.token = None \/ (request.what = "answered" /\ r.disposed) THEN r
  ELSE IF request.token \in r.acks THEN [r EXCEPT !.waiting = @ \cup {request}]
  ELSE Send(r, {request})

\* The shown request of token is over, one way or the other.
Acknowledged(r, token) ==
  LET mine == {q \in r.waiting : q.token = token}
      sent == {q \in mine : q.what = "answered" => ~r.disposed}
  IN Send([r EXCEPT !.acks = @ \ {token}, !.waiting = @ \ mine], sent)

\* Request q is over for the page: an outcome that waited for it follows.
Over(r, q) ==
  LET u == [r EXCEPT !.out = @ \ {q}]
  IN IF q.what = "shown" THEN Acknowledged(u, q.token) ELSE u

\* scheduleRetry(): an answer that failed may be sent again, unless the tracker
\* stopped.  The other requests are tried once.
Retryable(r, q) == q.what = "answered" /\ ~r.disposed /\ q.try < MAX_SEND_RETRIES

Retry(r, q) == [Over(r, q) EXCEPT !.again = @ \cup {[q EXCEPT !.try = @ + 1]}]

\* The timer of a retry asks nobody whether the tracker stopped.
Resend(r, q) == Send([r EXCEPT !.again = @ \ {q}], {q})

\* What the panel w reported while it handled a click, and the timer of 0 ms
\* after which onCampaignFinished() runs.
After(r, w) ==
  LET u == [r EXCEPT !.w = [w EXCEPT !.calls = << >>, !.finishing = FALSE],
                     !.finishing = @ \/ w.finishing]
  IN IF w.calls = << >> THEN u ELSE Outcome(u, Request(w.calls[1][1], w.calls[1][2]))

\* onCampaignFinished(): the widget is again what the site configured.
CampaignFinished(r) ==
  LET u == [r EXCEPT !.finishing = FALSE]
  IN IF FeedbackAvailable(r, FALSE) THEN u ELSE MountWidget(DestroyWidget(u), FALSE)

------------------------------------------------------------------------------
(* The tracker                                                             *)

\* start(), what of it concerns the widget, before the widget is mounted
Runtime(site) ==
  [ site |-> site, who |-> "visitor", disposed |-> FALSE, mounted |-> FALSE, w |-> NoWidget,
    orphans |-> 0, importing |-> FALSE, action |-> FALSE, stage |-> "idle", token |-> None,
    acks |-> {}, waiting |-> {}, out |-> {}, wire |-> {}, again |-> {}, finishing |-> FALSE ]

\* shutdown(), what of it concerns the widget
Shutdown(r) == [DestroyWidget(r) EXCEPT !.disposed = TRUE, !.action = FALSE]

------------------------------------------------------------------------------
(* The server: deliveries d, one per token, at time now                    *)

Never == -1

Live(d, now) == d.status = "reserved" /\ now - d.at < RESERVATION

\* Mutant of Reservable: a reservation in another tab does not count.
ReservableShown(dels, who, now) ==
  \A t \in DOMAIN dels : dels[t].who = who =>
    dels[t].shown = Never \/ now - dels[t].shown > COOLDOWN

\* ReserveFeedbackCampaign(): one live reservation, and one show per cooldown,
\* for the user id, or for the visitor key of one who has none.
Reservable(dels, who, now) ==
  \A t \in DOMAIN dels : dels[t].who = who =>
    /\ ~Live(dels[t], now)
    /\ dels[t].shown = Never \/ now - dels[t].shown > COOLDOWN

Reserve(dels, who, session, now) ==
  Append(dels, [who |-> who, session |-> session, status |-> "reserved", at |-> now,
                shown |-> Never])

\* MarkFeedbackDelivery(), SaveFeedback(): when the request is accepted
Accepts(d, what, now) == IF what = "shown" THEN Live(d, now) ELSE d.status = "shown"

Mark(d, what, now) ==
  IF what = "shown" THEN [d EXCEPT !.status = what, !.shown = now] ELSE [d EXCEPT !.status = what]
=============================================================================
