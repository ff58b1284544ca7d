------------------------------- MODULE Console -------------------------------
(***************************************************************************)
(* More of the dashboard's pages (Dashboard has the others), and the two   *)
(* fields that several of them use.  One is open at a time, chosen at the  *)
(* start, and works against the server alone.                              *)
(***************************************************************************)
EXTENDS ReportLibrary, ReportBuilder, ReportView, PerformancePage, LinkedLog, Fields, FeedbackPage, SiteSettings,
        SearchIndex, SlackSettings, AnnouncementsPage, ServiceKeys

VARIABLE page

Pages == {"reports", "editor", "report", "performance", "linked log", "suggestions", "text", "feedback", "settings",
          "search index", "site slack", "system slack", "announcements", "services"}

vars == << page, libraryVars, reportVars, viewVars, perfVars, linkVars, fieldVars, feedbackVars, settingsVars,
           searchVars, slackVars, announcementVars, serviceVars >>

Some(S) == CHOOSE x \in S : TRUE

Init ==
  /\ page \in Pages
  /\ IF page = "reports" THEN LibraryInit ELSE kept = [r \in Reports |-> 0] /\ LibraryOpens(Some(LibraryFilters))
  /\ IF page = "editor" THEN ReportInit ELSE ReportOpens("loading")
  /\ IF page = "report" THEN ViewInit ELSE ViewOpens(Some(ReportIds), "default")
  /\ IF page = "performance" THEN PerfInit ELSE PerfOpens(Some(PerfFilters))
  /\ LinkOpens
  /\ IF page = "suggestions" THEN \E s \in Scopes : SuggestOpens(s) ELSE SuggestOpens(Some(Scopes))
  /\ TextOpens
  /\ FeedbackInit
  /\ SettingsInit /\ (page # "settings" => config.order = Some(StoredOrders) /\ config.accent = Some(Accents))
  /\ SearchOpens /\ (page # "search index" => ~index.enabled)
  /\ SlackOpens(IF page = "system slack" THEN "system" ELSE "site")
  /\ page \notin {"site slack", "system slack"} => slack.had = {}
  /\ AnnouncementsInit /\ (page # "announcements" => published = [a \in Announcements |-> None])
  /\ ServicesInit /\ (page # "services" => serviceRows = [s \in ServiceIds |-> NoService])

Next ==
  /\ UNCHANGED page
  /\ \/ /\ page = "reports" /\ LibraryNext
        /\ UNCHANGED << reportVars, viewVars, perfVars, linkVars, fieldVars, feedbackVars, settingsVars, searchVars,
                        slackVars, announcementVars, serviceVars >>
     \/ /\ page = "editor" /\ ReportNext
        /\ UNCHANGED << libraryVars, viewVars, perfVars, linkVars, fieldVars, feedbackVars, settingsVars, searchVars,
                        slackVars, announcementVars, serviceVars >>
     \/ /\ page = "report" /\ ViewNext
        /\ UNCHANGED << libraryVars, reportVars, perfVars, linkVars, fieldVars, feedbackVars, settingsVars,
                        searchVars, slackVars, announcementVars, serviceVars >>
     \/ /\ page = "performance" /\ PerfNext
        /\ UNCHANGED << libraryVars, reportVars, viewVars, linkVars, fieldVars, feedbackVars, settingsVars,
                        searchVars, slackVars, announcementVars, serviceVars >>
     \/ /\ page = "linked log" /\ LinkNext
        /\ UNCHANGED << libraryVars, reportVars, viewVars, perfVars, fieldVars, feedbackVars, settingsVars,
                        searchVars, slackVars, announcementVars, serviceVars >>
     \/ /\ page = "suggestions" /\ SuggestNext
        /\ UNCHANGED << libraryVars, reportVars, viewVars, perfVars, linkVars, feedbackVars, settingsVars,
                        searchVars, slackVars, announcementVars, serviceVars >>
     \/ /\ page = "text" /\ TextNext
        /\ UNCHANGED << libraryVars, reportVars, viewVars, perfVars, linkVars, feedbackVars, settingsVars,
                        searchVars, slackVars, announcementVars, serviceVars >>
     \/ /\ page = "feedback" /\ FeedbackNext
        /\ UNCHANGED << libraryVars, reportVars, viewVars, perfVars, linkVars, fieldVars, settingsVars, searchVars,
                        slackVars, announcementVars, serviceVars >>
     \/ /\ page = "settings" /\ SettingsNext
        /\ UNCHANGED << libraryVars, reportVars, viewVars, perfVars, linkVars, fieldVars, feedbackVars, searchVars,
                        slackVars, announcementVars, serviceVars >>
     \/ /\ page = "search index" /\ SearchNext
        /\ UNCHANGED << libraryVars, reportVars, viewVars, perfVars, linkVars, fieldVars, feedbackVars, settingsVars,
                        slackVars, announcementVars, serviceVars >>
     \/ /\ page \in {"site slack", "system slack"} /\ SlackNext
        /\ UNCHANGED << libraryVars, reportVars, viewVars, perfVars, linkVars, fieldVars, feedbackVars, settingsVars,
                        searchVars, announcementVars, serviceVars >>
     \/ /\ page = "announcements" /\ AnnouncementsNext
        /\ UNCHANGED << libraryVars, reportVars, viewVars, perfVars, linkVars, fieldVars, feedbackVars, settingsVars,
                        searchVars, slackVars, serviceVars >>
     \/ /\ page = "services" /\ ServicesNext
        /\ UNCHANGED << libraryVars, reportVars, viewVars, perfVars, linkVars, fieldVars, feedbackVars, settingsVars,
                        searchVars, slackVars, announcementVars >>

Spec == Init /\ [][Next]_vars

------------------------------------------------------------------------------
(* Properties                                                              *)

\* What a page shows as the answer to a question is the answer to the one
\* that is asked now, whatever was asked before it is answered last: rows of
\* the filter, numbers of the report and of its range, the endpoint list under
\* its own filters, the log of the address, suggestions of the site, responses
\* of the campaign, visitors of the announcement, and the key of the service,
\* as far as its requests were made one by one (useAnalyzeLibrary.ts:51-67,
\* useReportResult.ts:29-75, usePerformance.ts:24-71, useLinkedLog.ts:28-68,
\* SuggestionInput.tsx:48-66, useFeedback.ts:25-46, useEngagementModal.ts:
\* 16-46, ServicesTab.tsx:57-121).
ShownIsAsked ==
  LibraryOfFilter /\ ResultShown /\ ReportOfFilters /\ EndpointsVisible /\ LinkIsShown
  /\ SuggestionsOfScope /\ ResponsesOfChoice /\ EngagementOfOpen /\ KeyWorks

\* What a page waits for is on its way: a card that loads is before a worker, a
\* text that is announced is due, and the lists of announcements and of
\* services are asked for (useAnalyzeLibrary.ts:69-98, useDebouncedTextInput.ts:
\* 22-44, useAnnouncements.ts:54-60, 82-118, ServicesTab.tsx:42-73).
AwaitedComes == CardsLoad /\ TextComes /\ ListComes /\ ServicesCome

\* What a page sends is what it shows: the rule that was previewed, which the
\* server takes, and the campaign the dialog was opened for
\* (useReportDefinition.ts:78-161, FeedbackSettingsModal.tsx:39-93).
SentAsShown == SavedWasPreviewed /\ SentIsAccepted /\ SavesItsCampaign

\* What settings show is what is or would be saved: the order that is dragged,
\* the text of the colour, and what the server has of a Slack form without
\* unsaved edits.  What is saved can be acted on, and keeps the secrets that
\* nobody touched (WidgetTab.tsx:58-77, 350-409, useSiteSlackIntegration.ts:
\* 31-44, 110-121, site_slack_api.go:179-196, slack_api.go:71-117).
SettingsAsShown ==
  DragFollowsPointer /\ ColourAsShown /\ SlackAsStored /\ RulesAreClean /\ EnabledCanSend /\ SecretsKept
=============================================================================
