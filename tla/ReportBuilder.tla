---------------------------- MODULE ReportBuilder ----------------------------
(***************************************************************************)
(* The editor of an analysis report: its definition is previewed by the    *)
(* server a moment after every edit, and only a report whose preview is    *)
(* current can be saved.  The services to choose from are read for every   *)
(* site, and what belongs to another source or site is cleared.            *)
(*                                                                         *)
(* Messages, and the choice of a suggestion, an edit of one text among     *)
(* others, are left out.                                                   *)
(***************************************************************************)
EXTENDS ReportForm

CONSTANTS MaxEdits, MaxPreviews \* bounds of the edits and of the previews

ASSUME ReportBuilderAssumption == MaxEdits \in Nat /\ MaxPreviews \in Nat

VARIABLES editor,  \* the page
          asked,   \* requests of previews in flight: number, key and definition
          options, \* services offered: those that came last, the site of the request under way
          saved    \* what the save under way, or the last, was sent with

reportVars == << editor, asked, options, saved >>

NoPreview == [key |-> None, of |-> None]
NoSave    == [form |-> None, previewOf |-> None]
NotAsked  == "no request"

definition(e) == DefinitionFromForm(e.form)

\* The fields the form shows, the ones of the source not chosen aside, do
\* not keep the rule from being previewed.
DefinitionValid(e) == ValidateForm(e.form) = {}
Previewable(e) == e.state = "ready" /\ DefinitionValid(e)

\* The effect of an edit, and of the load: a preview is due after a pause,
\* unless the last one has the key of the definition.
Scheduled(e) == [e EXCEPT !.timer = Previewable(e) /\ e.preview.key # definition(e)]

\* A rule changed by the operator: nothing is scheduled anew when the
\* definition is what it was.
Edited(form) ==
  LET e == [editor EXCEPT !.form = form, !.edits = @ + 1] IN
  editor' = IF definition(e) = definition(editor) THEN e ELSE Scheduled(e)

\* The effect of the source and the site: their services are asked for, and
\* an older request no longer counts.
Asking(form) == IF form.source = "log" THEN [options EXCEPT !.asked = form.site] ELSE [options EXCEPT !.asked = NotAsked]

ServicesOf(site) == {v \in Services : site \in {None, SiteOf[v]}}

\* What the server has stored, as any member of the team may have left it.
LogRule(s, v) == [emptyForm EXCEPT !.source = "log", !.message = "text", !.site = s, !.service = v]
LogRules      == {LogRule(s, v) : s \in Sites, v \in Services \cup {None}}
EventRule(t)  == [emptyForm EXCEPT !.eventName = "text", !.trackId = t]
EventRules    == {EventRule(t) : t \in {"", "text"}}
StoredRules   == {DefinitionFromForm(form) : form \in LogRules \cup EventRules}

ReportOpens(state) ==
  /\ asked = {} /\ saved = NoSave /\ options = [rows |-> {}, asked |-> NotAsked]
  /\ editor = [form |-> emptyForm, state |-> state, original |-> None, preview |-> NoPreview, previewing |-> FALSE,
               failed |-> FALSE, seq |-> 0, timer |-> FALSE, saving |-> FALSE, pending |-> None, edits |-> 0]

\* A new report is ready at once, another is loaded first.
ReportInit == \E state \in {"loading", "ready"} : ReportOpens(state)

\* A report that cannot be read leaves an empty form, which saves a new one.
ReportLoads ==
  /\ editor.state = "loading"
  /\ \/ \E def \in StoredRules, state \in {"ready", "read-only"} :
          /\ ServerAccepts(def)
          /\ editor' = Scheduled([editor EXCEPT !.form = FormFromReport(def), !.original = def, !.state = state])
          /\ options' = Asking(FormFromReport(def))
     \/ \E state \in {"ready", "not-found"} :
          editor' = [editor EXCEPT !.state = state] /\ UNCHANGED options
  /\ UNCHANGED << asked, saved >>

MayEdit == editor.state = "ready" /\ editor.edits < MaxEdits

OptionsArrive == /\ options.asked # NotAsked
                 /\ options' = [rows |-> ServicesOf(options.asked), asked |-> NotAsked]
                 /\ UNCHANGED << editor, asked, saved >>
OptionsFail   == /\ options.asked # NotAsked
                 /\ options' = [options EXCEPT !.asked = NotAsked]
                 /\ UNCHANGED << editor, asked, saved >>

\* Mutant of Offered: the rows that came last, whatever the site.
OfferedAll == options.rows

\* The services of the last answer that belong to the site on the form.
Offered == {v \in options.rows : editor.form.site \in {None, SiteOf[v]}}

\* patch(): a field of the source on the form, or the window.
Values(f) == CASE f \in {"eventName", "trackId", "message"} -> Texts
               [] f = "messageMode" -> {"contains", "exact"}
               [] f \in {"severity", "environment"} -> {"", "text"}
               [] f = "service" -> Offered \cup {None}
               [] f = "window" -> Windows

ShownFields == IF editor.form.source = "event" THEN {"eventName", "trackId", "window"}
               ELSE {"message", "messageMode", "severity", "service", "environment", "window"}

Patch(f) == /\ MayEdit
            /\ \E x \in Values(f) : x # editor.form[f] /\ Edited([editor.form EXCEPT ![f] = x])
            /\ UNCHANGED << asked, options, saved >>

\* A service belongs to one site: both choices go with the site.
ChangeSite(s) ==
  LET form == [editor.form EXCEPT !.site = s, !.service = None, !.environment = ""] IN
  /\ MayEdit /\ s # editor.form.site /\ Edited(form)
  /\ options' = Asking(form)
  /\ UNCHANGED << asked, saved >>

\* A source that would lose what was entered is confirmed first.
RequestSource(source) ==
  LET form == [editor.form EXCEPT !.source = source] IN
  /\ MayEdit /\ source # editor.form.source
  /\ IF HasSourceFields(editor.form)
     THEN editor' = [editor EXCEPT !.pending = source] /\ UNCHANGED options
     ELSE Edited(form) /\ options' = Asking(form)
  /\ UNCHANGED << asked, saved >>

ConfirmSource ==
  LET form == [ClearSourceFields(editor.form) EXCEPT !.source = editor.pending] IN
  /\ editor.state = "ready" /\ editor.pending # None
  /\ editor' = Scheduled([editor EXCEPT !.form = form, !.pending = None, !.edits = @ + 1])
  /\ options' = Asking(form)
  /\ UNCHANGED << asked, saved >>

CancelSource == /\ editor.pending # None
                /\ editor' = [editor EXCEPT !.pending = None]
                /\ UNCHANGED << asked, options, saved >>

\* runPreview(), up to its request.
RunPreview(e) ==
  /\ e.seq < MaxPreviews
  /\ editor' = [e EXCEPT !.seq = @ + 1, !.previewing = TRUE, !.failed = FALSE]
  /\ asked' = asked \cup {[seq |-> e.seq + 1, key |-> definition(e), of |-> definition(e)]}
  /\ UNCHANGED << options, saved >>

PreviewPause  == editor.timer /\ RunPreview([editor EXCEPT !.timer = FALSE])
PreviewButton == /\ editor.state = "ready" /\ DefinitionValid(editor) /\ ~editor.previewing
                 /\ RunPreview(editor)

\* The preview is filed under the definition it was asked for.
PreviewOf(r) == [key |-> r.key, of |-> r.of]

\* Only the latest preview counts, whichever is answered first.
PreviewArrives(r) ==
  /\ editor' = IF r.seq = editor.seq
               THEN [editor EXCEPT !.preview = PreviewOf(r), !.previewing = FALSE] ELSE editor
  /\ asked' = asked \ {r}
  /\ UNCHANGED << options, saved >>

PreviewFails(r) ==
  /\ editor' = IF r.seq = editor.seq
               THEN [editor EXCEPT !.preview = NoPreview, !.previewing = FALSE, !.failed = TRUE] ELSE editor
  /\ asked' = asked \ {r}
  /\ UNCHANGED << options, saved >>

PreviewCurrent == editor.preview # NoPreview /\ editor.preview.key = definition(editor)

CanSave == /\ DefinitionValid(editor) /\ PreviewCurrent
           /\ ~editor.saving /\ ~editor.previewing /\ editor.state = "ready"

\* save(): the form can be edited while it is under way.
Save == /\ CanSave
        /\ editor' = [editor EXCEPT !.saving = TRUE]
        /\ saved' = [form |-> definition(editor), previewOf |-> editor.preview.of]
        /\ UNCHANGED << asked, options >>

SaveFails == /\ editor.saving
             /\ editor' = [editor EXCEPT !.saving = FALSE]
             /\ UNCHANGED << asked, options, saved >>

ReportNext == \/ ReportLoads \/ OptionsArrive \/ OptionsFail \/ ConfirmSource \/ CancelSource
              \/ PreviewPause \/ PreviewButton \/ Save \/ SaveFails
              \/ \E f \in ShownFields : Patch(f)
              \/ \E s \in Sites \cup {None} : ChangeSite(s)
              \/ \E source \in {"event", "log"} : RequestSource(source)
              \/ \E r \in asked : PreviewArrives(r) \/ PreviewFails(r)

------------------------------------------------------------------------------
(* Properties                                                              *)

\* The numbers shown as current are those of the definition on the form, and
\* what is saved was previewed, in whatever order edits and previews come;
\* a report opened and not changed is saved as it was
\* (useReportDefinition.ts:78-94, 104-105, Analyze.helpers.ts:174-221).
SavedWasPreviewed ==
  /\ PreviewCurrent => editor.preview.of = definition(editor)
  /\ saved.previewOf = saved.form
  /\ editor.original # None /\ editor.edits = 0 => definition(editor) = editor.original

\* What the editor sends passes every check of the server, however the site,
\* the source and the services that come late were chosen: the editor says no
\* before a round trip (useReportDefinition.ts:61-68, 117-138, 161,
\* Analyze.constants.ts:24-25).
SentIsAccepted == /\ saved.form # None => ServerAccepts(saved.form)
                  /\ \A r \in asked : ServerAccepts(r.of)
=============================================================================
