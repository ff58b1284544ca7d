----------------------------- MODULE FeedbackPage -----------------------------
(***************************************************************************)
(* The feedback page: the responses under a site and a campaign, the       *)
(* campaigns of the site, and the dialog that edits one or adds one.       *)
(*                                                                         *)
(* The summaries are read as the responses are and are left out with what  *)
(* a response says; a campaign's fields are the campaign they belong to.   *)
(* A dialog covers the page.                                               *)
(***************************************************************************)
EXTENDS Naturals, DashboardValues

CONSTANTS FeedbackSites, CampaignIds, CampaignSite, \* campaigns and their sites
          Responses, ResponseOf,                    \* responses and their campaigns
          MaxLists, MaxDialogs \* bounds: loads of responses, openings of the dialog

ASSUME FeedbackAssumption ==
  /\ CampaignSite \in [CampaignIds -> FeedbackSites] /\ ResponseOf \in [Responses -> CampaignIds]
  /\ MaxLists \in Nat /\ MaxDialogs \in Nat

VARIABLES given,  \* responses on the server
          feedback, \* the page: its choices, responses, campaigns, deletion
          dialog, \* the dialog of a campaign
          calls   \* requests in flight: lists, campaigns, saves of a campaign

feedbackVars == << given, feedback, dialog, calls >>

New  == "a new campaign"
Blank(site) == [site |-> site, of |-> New]
FieldsOf(c) == [site |-> CampaignSite[c], of |-> c]

\* What the choices of the page select.
Selected(site, survey) ==
  {r \in Responses : /\ site \in {None, CampaignSite[ResponseOf[r]]}
                     /\ survey \in {None, ResponseOf[r]}}

ListCall(p)      == [kind |-> "list", n |-> p.list, site |-> p.site, survey |-> p.survey, rows |-> None]
CampaignsCall(p) == [kind |-> "campaigns", site |-> p.site]

Closed(n) == [open |-> FALSE, n |-> n, for |-> None, draft |-> None, loading |-> FALSE, saving |-> FALSE]

FeedbackOpens ==
  /\ feedback = [site |-> None, survey |-> None, list |-> 1, rows |-> None, failed |-> FALSE, campaigns |-> None,
              pending |-> None, deleting |-> FALSE]
  /\ dialog = Closed(0)
  /\ calls = {ListCall(feedback), CampaignsCall(feedback)}

FeedbackInit == given = Responses /\ FeedbackOpens

Covered == dialog.open \/ feedback.pending # None

\* The effect of the site and the campaign: the responses are asked for, the
\* ones shown stay until they come; the campaigns go with the site.
SetChoices(site, survey) ==
  LET p == [feedback EXCEPT !.site = site, !.survey = survey, !.list = @ + 1, !.failed = FALSE,
                         !.campaigns = IF site = feedback.site THEN @ ELSE None] IN
  /\ ~Covered /\ << site, survey >> # << feedback.site, feedback.survey >> /\ feedback.list < MaxLists
  /\ site = feedback.site \/ survey = feedback.survey
  /\ feedback' = p
  /\ calls' = calls \cup {ListCall(p)} \cup (IF site = feedback.site THEN {} ELSE {CampaignsCall(p)})
  /\ UNCHANGED << given, dialog >>

ServeList(q) == /\ q.kind = "list" /\ q.rows = None
                /\ calls' = (calls \ {q}) \cup {[q EXCEPT !.rows = Selected(q.site, q.survey) \cap given]}
                /\ UNCHANGED << given, feedback, dialog >>

\* Only the list of the choices in force counts.
Chosen(q) == q.n = feedback.list

ListShown(q) == /\ q.kind = "list" /\ q.rows # None
                /\ calls' = calls \ {q}
                /\ feedback' = IF Chosen(q) THEN [feedback EXCEPT !.rows = q.rows] ELSE feedback
                /\ UNCHANGED << given, dialog >>
ListFails(q) == /\ q.kind = "list"
                /\ calls' = calls \ {q}
                /\ feedback' = IF Chosen(q) THEN [feedback EXCEPT !.failed = TRUE] ELSE feedback
                /\ UNCHANGED << given, dialog >>

\* refreshCampaigns(): the campaigns that come last are shown, or a message
\* instead of any.
CampaignsShown(q) == /\ q.kind = "campaigns"
                     /\ calls' = calls \ {q}
                     /\ \E shown \in {<< q.site >>, None} : feedback' = [feedback EXCEPT !.campaigns = shown]
                     /\ UNCHANGED << given, dialog >>

AskDeletion(r) == /\ ~Covered /\ feedback.rows # None /\ r \in feedback.rows
                  /\ feedback' = [feedback EXCEPT !.pending = r]
                  /\ UNCHANGED << given, dialog, calls >>
KeepResponse   == /\ feedback.pending # None /\ ~feedback.deleting
                  /\ feedback' = [feedback EXCEPT !.pending = None]
                  /\ UNCHANGED << given, dialog, calls >>
DeleteResponse == /\ feedback.pending # None /\ ~feedback.deleting
                  /\ feedback' = [feedback EXCEPT !.deleting = TRUE]
                  /\ UNCHANGED << given, dialog, calls >>
\* A deletion that fails leaves its question open.
DeletionEnds(reaches, answered) ==
  /\ feedback.deleting /\ (answered => reaches)
  /\ given' = IF reaches THEN given \ {feedback.pending} ELSE given
  /\ feedback' = IF answered THEN [feedback EXCEPT !.deleting = FALSE, !.pending = None, !.rows = @ \ {feedback.pending}]
              ELSE [feedback EXCEPT !.deleting = FALSE]
  /\ UNCHANGED << dialog, calls >>

------------------------------------------------------------------------------
(* The dialog of a campaign                                                *)

\* beginCreateCampaign(), with the site that was picked: the dialog starts
\* with a blank campaign.
AddCampaign(site) ==
  /\ ~Covered /\ dialog.n < MaxDialogs /\ feedback.site \in {None, site}
  /\ dialog' = [open |-> TRUE, n |-> dialog.n + 1, for |-> New, draft |-> Blank(site), loading |-> FALSE, saving |-> FALSE]
  /\ UNCHANGED << given, feedback, calls >>

\* Edit campaign, on the card of one.
EditCampaign(c) ==
  /\ ~Covered /\ dialog.n < MaxDialogs /\ feedback.campaigns \in {<< None >>, << CampaignSite[c] >>}
  /\ dialog' = [open |-> TRUE, n |-> dialog.n + 1, for |-> c, draft |-> None, loading |-> TRUE, saving |-> FALSE]
  /\ calls' = calls \cup {[kind |-> "campaign", n |-> dialog.n + 1, id |-> c]}
  /\ UNCHANGED << given, feedback >>

\* The dialog is made anew for every opening: what an earlier one asked for
\* is nobody's.
Mounted(q) == dialog.open /\ q.n = dialog.n

CampaignLoads(q) ==
  /\ q.kind = "campaign"
  /\ calls' = calls \ {q}
  /\ dialog' \in IF Mounted(q) THEN {[dialog EXCEPT !.draft = FieldsOf(q.id), !.loading = FALSE], [dialog EXCEPT !.loading = FALSE]}
                 ELSE {dialog}
  /\ UNCHANGED << given, feedback >>

CloseDialog == /\ dialog.open /\ dialog' = Closed(dialog.n)
               /\ UNCHANGED << given, feedback, calls >>

SaveCampaign ==
  /\ dialog.open /\ ~dialog.saving /\ ~dialog.loading /\ dialog.draft # None
  /\ dialog' = [dialog EXCEPT !.saving = TRUE]
  /\ calls' = calls \cup {[kind |-> "save", n |-> dialog.n, of |-> dialog.for, fields |-> dialog.draft,
                             for |-> feedback.site, stored |-> FALSE]}
  /\ UNCHANGED << given, feedback >>

SaveCampaignFails(q) ==
  /\ q.kind = "save" /\ ~q.stored
  /\ calls' = calls \ {q}
  /\ dialog' = IF Mounted(q) THEN [dialog EXCEPT !.saving = FALSE] ELSE dialog
  /\ UNCHANGED << given, feedback >>

\* onChanged() asks for the campaigns of the site there was.
CampaignStored(q) ==
  /\ q.kind = "save" /\ ~q.stored
  /\ calls' = (calls \ {q}) \cup {[q EXCEPT !.stored = TRUE]}
  /\ UNCHANGED << given, feedback, dialog >>

\* They are shown, and the dialog that is open is closed, be it another one.
SaveEnds(q) ==
  /\ q.kind = "save" /\ q.stored
  /\ calls' = calls \ {q}
  /\ \E shown \in {<< q.for >>, None} : feedback' = [feedback EXCEPT !.campaigns = shown]
  /\ dialog' = Closed(dialog.n)
  /\ UNCHANGED given

FeedbackNext ==
  \/ \E site \in FeedbackSites \cup {None}, survey \in CampaignIds \cup {None} : SetChoices(site, survey)
  \/ \E q \in calls : ServeList(q) \/ ListShown(q) \/ ListFails(q) \/ CampaignsShown(q) \/ CampaignLoads(q)
                      \/ SaveCampaignFails(q) \/ CampaignStored(q) \/ SaveEnds(q)
  \/ \E r \in Responses : AskDeletion(r)
  \/ \E reaches, answered \in BOOLEAN : DeletionEnds(reaches, answered)
  \/ \E site \in FeedbackSites : AddCampaign(site)
  \/ \E c \in CampaignIds : EditCampaign(c)
  \/ KeepResponse \/ DeleteResponse \/ CloseDialog \/ SaveCampaign

------------------------------------------------------------------------------
(* Properties                                                              *)

\* The responses on the page are of the site and the campaign chosen, once
\* their list has come and unless it failed, whichever list comes last
\* (useFeedback.ts:25-46).
ResponsesOfChoice ==
  feedback.rows # None /\ ~feedback.failed /\ (\A q \in calls : q.kind = "list" => ~Chosen(q)) =>
    feedback.rows \subseteq Selected(feedback.site, feedback.survey)

\* The dialog shows the campaign it was opened for, and saves that one with
\* its own fields, although nothing cancels a load when it is closed
\* (FeedbackSettingsModal.tsx:39-81, 87-93, Feedback.tsx:277-286).
SavesItsCampaign ==
  /\ dialog.open /\ dialog.draft # None => dialog.draft.of = dialog.for
  /\ \A q \in calls : q.kind = "save" => q.fields.of = q.of
=============================================================================
