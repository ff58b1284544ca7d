---------------------------- MODULE SlackSettings ----------------------------
(***************************************************************************)
(* The forms that connect Slack: a site's, with a webhook for all kinds of *)
(* notifications or one for each and the rules of the logs to send, and    *)
(* the server's own, with a webhook and a signing secret.                  *)
(*                                                                         *)
(* The server never gives a secret back, only that there is one: an empty  *)
(* field keeps it.  Of a rule, the mode goes with its text.  Left out: the *)
(* test message, notices, the change of site while the form is open, and   *)
(* Enter while a save is unanswered.                                       *)
(***************************************************************************)
EXTENDS Naturals, Sequences, SequencesExt, FiniteSets, DashboardValues

CONSTANTS SiteKinds,                      \* kinds of notifications of a site, "logs" among them
          RuleTexts, RuleSeverities,      \* what a rule may have
          MaxSlackLogMatches,
          MaxRules, MaxSlackEdits, MaxSaves \* bounds: rows of the form, edits, saves

ASSUME SlackAssumption ==
  /\ "logs" \in SiteKinds /\ "" \in RuleTexts /\ {} \in RuleSeverities /\ None \notin {"old", "new", "bad"}
  /\ {MaxSlackLogMatches, MaxRules, MaxSlackEdits, MaxSaves} \subseteq Nat

VARIABLES slack,   \* the form: whose it is, what was loaded, what is edited
          stored,  \* the settings on the server
          saving   \* the save: how far it is, what it sent, and the answer once there is one

slackVars == << slack, stored, saving >>

Kinds    == IF slack.of = "site" THEN SiteKinds ELSE {"health"}
Channels == IF slack.of = "site" THEN SiteKinds \cup {"common"} ELSE {"common", "signing"}

NotSaving == [step |-> "none", form |-> None, answer |-> None]
NoDraft == [value |-> "", clear |-> FALSE]
BlankText(t) == t \in {"", " "}

\* The view of the settings that the browser gets, and the form made of it.
ViewOf(s) == [mode |-> s.mode, enabled |-> s.enabled, rules |-> s.rules,
              configured |-> {c \in DOMAIN s.secrets : s.secrets[c] # None}]

FormOf(v, channels) == [mode |-> v.mode, enabled |-> v.enabled, rules |-> v.rules, drafts |-> [c \in channels |-> NoDraft]]

SlackOpens(of) ==
  LET kinds    == IF of = "site" THEN SiteKinds ELSE {"health"}
      channels == IF of = "site" THEN SiteKinds \cup {"common"} ELSE {"common", "signing"}
  IN /\ \E had \in SUBSET {"common"} :
          /\ stored = [mode |-> "single", enabled |-> IF had = {} THEN {} ELSE kinds, rules |-> << >>,
                       secrets |-> [c \in channels |-> IF c \in had THEN "old" ELSE None]]
          /\ slack = [of |-> of, had |-> had, view |-> None, loading |-> TRUE, replacing |-> {}, touched |-> {},
                      edits |-> 0, saves |-> 0, lost |-> FALSE,
                      form |-> FormOf([mode |-> "single", enabled |-> {}, rules |-> << >>], channels)]
     /\ saving = NotSaving

\* applyIntegration.
Applied(v) == [slack EXCEPT !.view = v, !.form = FormOf(v, Channels)]

SlackLoads == /\ slack.loading
              /\ slack' = [Applied(ViewOf(stored)) EXCEPT !.loading = FALSE]
              /\ UNCHANGED << stored, saving >>

SlackLoadFails == /\ slack.loading
                  /\ slack' = [slack EXCEPT !.loading = FALSE]
                  /\ UNCHANGED << stored, saving >>

------------------------------------------------------------------------------
(* Edits, which wait for no save.                                          *)

EditForm(form, replacing, touched) ==
  /\ ~slack.loading /\ slack.edits < MaxSlackEdits
  /\ slack' = [slack EXCEPT !.form = form, !.replacing = replacing, !.touched = touched, !.edits = @ + 1]
  /\ UNCHANGED << stored, saving >>

ChangeForm(form) == EditForm(form, slack.replacing, slack.touched)

\* Fields that are not shown forget that they were being replaced.
SetRoutingMode(m) ==
  /\ slack.of = "site" /\ m # slack.form.mode
  /\ EditForm([slack.form EXCEPT !.mode = m], {}, slack.touched)

SetKind(k) == ChangeForm([slack.form EXCEPT !.enabled = IF k \in @ THEN @ \ {k} ELSE @ \cup {k}])

NoRule == [value |-> "", severities |-> {}]
RulesShown == slack.of = "site" /\ "logs" \in slack.form.enabled
AddRule       == RulesShown /\ Len(slack.form.rules) < MaxRules /\ ChangeForm([slack.form EXCEPT !.rules = Append(@, NoRule)])
PatchRule(i, rule) == RulesShown /\ ChangeForm([slack.form EXCEPT !.rules[i] = rule])
RemoveRule(i) == RulesShown /\ ChangeForm([slack.form EXCEPT !.rules = RemoveAt(@, i)])

\* A field of a secret is a note that it will go, a hint with its actions,
\* or an input.
ShownChannels == IF slack.of = "system" THEN Channels
                 ELSE IF slack.form.mode = "single" THEN {"common"} ELSE SiteKinds

Configured == IF slack.view = None THEN {} ELSE slack.view.configured

FieldOf(c) == CASE slack.form.drafts[c].clear -> "removal"
                [] ~slack.form.drafts[c].clear /\ c \in Configured \ slack.replacing -> "hint"
                [] OTHER -> "input"

WithDraft(c, value, clear) == [slack.form EXCEPT !.drafts[c] = [value |-> value, clear |-> clear]]

RemoveSecret(c)  == FieldOf(c) = "hint"    /\ EditForm(WithDraft(c, "", TRUE), slack.replacing, slack.touched \cup {c})
UndoRemoval(c)    == FieldOf(c) = "removal" /\ ChangeForm(WithDraft(c, "", FALSE))
ReplaceSecret(c) == FieldOf(c) = "hint"    /\ EditForm(slack.form, slack.replacing \cup {c}, slack.touched)
TypeSecret(c, v) == FieldOf(c) = "input" /\ EditForm(WithDraft(c, v, FALSE), slack.replacing, slack.touched \cup {c})
\* What was typed stays in the draft.
CancelReplace(c) == /\ FieldOf(c) = "input" /\ c \in Configured
                    /\ EditForm(slack.form, slack.replacing \ {c}, slack.touched)

------------------------------------------------------------------------------
(* Saving.                                                                 *)

\* cleanLogMatches.
CleanLogMatches(rules) ==
  LET rows == [i \in DOMAIN rules |-> [rules[i] EXCEPT !.value = IF BlankText(@) THEN "" ELSE @]] IN
  ElementsAt(rows, {i \in DOMAIN rows : rows[i].value # "" \/ rows[i].severities # {}})

Dirty ==
  /\ slack.view # None
  /\ \/ slack.form.mode # slack.view.mode \/ slack.form.enabled # slack.view.enabled
     \/ CleanLogMatches(slack.form.rules) # CleanLogMatches(slack.view.rules)
     \/ \E c \in Channels : slack.form.drafts[c].clear \/ ~BlankText(slack.form.drafts[c].value)

\* Enter submits a form without a button for it that has one text field.
TextFields == Cardinality({c \in ShownChannels : FieldOf(c) = "input"}) + (IF RulesShown THEN Len(slack.form.rules) ELSE 0)

SaveSlack ==
  /\ ~slack.loading /\ saving.step = "none" /\ slack.saves < MaxSaves
  /\ Dirty \/ TextFields = 1
  /\ saving' = [step |-> "asked", form |-> [slack.form EXCEPT !.rules = CleanLogMatches(@)], answer |-> None]
  /\ slack' = [slack EXCEPT !.saves = @ + 1]
  /\ UNCHANGED stored

\* NormalizeSlackLogMatches: blank rules and doubles go.
NormalizeSlackLogMatches(rules) ==
  LET rows == CleanLogMatches(rules) IN
  ElementsAt(rows, {i \in DOMAIN rows : \A j \in 1..(i - 1) : rows[j] # rows[i]})

ResolveSecret(draft, existing) == IF draft.clear THEN None ELSE IF BlankText(draft.value) THEN existing ELSE draft.value

WebhookFor(s, k) == IF s.mode = "per_notification" THEN s.secrets[k] ELSE s.secrets["common"]

SettingsAfter(form) == [mode |-> form.mode, enabled |-> form.enabled, rules |-> NormalizeSlackLogMatches(form.rules),
                secrets |-> [c \in Channels |-> ResolveSecret(form.drafts[c], stored.secrets[c])]]

Acceptable(form) ==
  /\ \A c \in Channels \ {"signing"} : form.drafts[c].value # "bad" \/ form.drafts[c].clear
  /\ Len(NormalizeSlackLogMatches(form.rules)) <= MaxSlackLogMatches
  /\ \A k \in form.enabled : WebhookFor(SettingsAfter(form), k) # None

StoreSlack ==
  /\ saving.step = "asked" /\ Acceptable(saving.form)
  /\ stored' = SettingsAfter(saving.form)
  /\ saving' = [saving EXCEPT !.step = "done", !.answer = ViewOf(stored')]
  /\ UNCHANGED slack

SlackSaved == /\ saving.step = "done"
              /\ slack' = [Applied(saving.answer) EXCEPT !.lost = FALSE]
              /\ saving' = NotSaving
              /\ UNCHANGED stored

\* Refused, lost on its way, or its answer lost.
SlackSaveFails == /\ saving.step # "none"
                  /\ slack' = [slack EXCEPT !.lost = @ \/ saving.step = "done"]
                  /\ saving' = NotSaving
                  /\ UNCHANGED stored

SlackNext ==
  \/ SlackLoads \/ SlackLoadFails
  \/ \E m \in {"single", "per_notification"} : SetRoutingMode(m)
  \/ \E k \in Kinds : SetKind(k)
  \/ AddRule
  \/ \E i \in DOMAIN slack.form.rules : \/ RemoveRule(i)
                                        \/ \E t \in RuleTexts, s \in RuleSeverities : PatchRule(i, [value |-> t, severities |-> s])
  \/ \E c \in ShownChannels : \/ RemoveSecret(c) \/ UndoRemoval(c) \/ ReplaceSecret(c) \/ CancelReplace(c)
                              \/ \E v \in {"", "new", "bad"} : TypeSecret(c, v)
  \/ SaveSlack \/ StoreSlack \/ SlackSaved \/ SlackSaveFails

------------------------------------------------------------------------------
(* Properties                                                              *)

\* A form without unsaved edits shows what the server has, but for the rules
\* that a save would drop, unless the answer to a save was lost
\* (useSiteSlackIntegration.ts:31-44, 110-121).
SlackAsStored ==
  slack.view # None /\ ~Dirty /\ saving.step = "none" /\ ~slack.lost =>
    /\ slack.form.mode = stored.mode /\ slack.form.enabled = stored.enabled
    /\ CleanLogMatches(slack.form.rules) = CleanLogMatches(stored.rules)
    /\ Configured = ViewOf(stored).configured

\* The server keeps no rule that the form would drop: cleaning them changes
\* nothing (slack.go:41-80, useSiteSlackIntegration.ts:154-167).
RulesAreClean == CleanLogMatches(stored.rules) = stored.rules

\* A notification that is on has a webhook to go to, whatever was removed,
\* replaced and routed anew (site_slack_api.go:179-196).
EnabledCanSend == \A k \in stored.enabled : WebhookFor(stored, k) # None

\* A secret that nobody touched is kept by every save
\* (WebhookField.tsx:21-24, slack_api.go:71-117).
SecretsKept ==
  \A c \in Channels \ slack.touched : stored.secrets[c] = (IF c \in slack.had THEN "old" ELSE None)
=============================================================================
