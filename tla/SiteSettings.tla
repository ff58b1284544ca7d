----------------------------- MODULE SiteSettings -----------------------------
(***************************************************************************)
(* The settings of one site as an administrator edits them: the draft of   *)
(* the widget with its sections, their order and its colour, the save and  *)
(* the reads of the site that run beside it, and the list that orders the  *)
(* sections by dragging.                                                   *)
(*                                                                         *)
(* The other fields of the draft are patched as a section's switch is and  *)
(* are left out.  A row of the list is four units high, and the pointer    *)
(* moves by units from where the drag started.                             *)
(***************************************************************************)
EXTENDS Integers, Sequences, SequencesExt, DashboardValues

Sections     == {"updates", "tickets", "feedback"}
DefaultOrder == << "updates", "tickets", "feedback" >>

\* Every section once.  The server has no others: it puts them right when it
\* reads them.
SectionOrders == {order \in [1..3 -> Sections] : \A i, j \in 1..3 : order[i] = order[j] => i = j}

CONSTANTS StoredOrders, \* orders of the sections as the server may have them
          Accents,      \* colours
          Offsets,      \* of the pointer
          MaxSettingEdits, MaxSettingCalls \* bounds: edits of the draft, requests

ASSUME SiteSettingsAssumption ==
  /\ StoredOrders \subseteq SectionOrders /\ None \notin Accents \cup Sections
  /\ Offsets \subseteq Int /\ MaxSettingEdits \in Nat /\ MaxSettingCalls \in Nat

VARIABLES config,   \* the settings on the server: order, sections on, accent
          settings, \* the page: the draft, what the server last returned
          accent,   \* the text of the colour
          drag,     \* the dialog of the order and the drag under way
          requests  \* reads in flight: whether they replace the draft, the answer

settingsVars == << config, settings, accent, drag, requests >>

NotAColour   == "not a colour"
NoDrag       == [open |-> FALSE, section |-> None, origin |-> 0, y |-> 0, from |-> << >>]

\* Every section once, in the order they are first named.
NormalizedSectionOrder(value) ==
  LET requested == value \o DefaultOrder IN
  ElementsAt(requested, {i \in DOMAIN requested : /\ requested[i] \in Sections
                                                  /\ \A j \in 1..(i - 1) : requested[j] # requested[i]})

\* The order on the page.
sectionOrder == NormalizedSectionOrder(settings.draft.order)

Index(order, id) == CHOOSE i \in DOMAIN order : order[i] = id

\* The order with a section taken out and put in at another slot.
Reordered(order, id, slot) == InsertAt(RemoveAt(order, Index(order, id)), slot, id)

SettingsOpen ==
  /\ settings = [draft |-> None, saved |-> None, saving |-> None, dialog |-> None, error |-> FALSE, icon |-> FALSE,
                 edits |-> 0, calls |-> 1]
  /\ accent = [text |-> None, error |-> FALSE, focused |-> FALSE]
  /\ drag = NoDrag
  /\ requests = {[n |-> 1, replaces |-> TRUE, answer |-> None]}

SettingsInit == /\ config \in [order : StoredOrders, on : {Sections}, accent : Accents]
                /\ SettingsOpen

\* The effect of the colour of the draft: the text is the colour again.
Coloured(text, old, new) == IF old = new THEN text ELSE [text EXCEPT !.text = new, !.error = FALSE]

\* The operator acts on the page when no dialog covers it, and leaves the
\* text of the colour before using anything else.
MayChange == settings.edits < MaxSettingEdits
Ready == settings.draft # None /\ ~settings.error /\ settings.dialog = None /\ ~drag.open /\ ~accent.focused

PatchDraft(draft) ==
  /\ settings' = [settings EXCEPT !.draft = draft, !.edits = @ + 1]
  /\ accent' = Coloured(accent, settings.draft.accent, draft.accent)

\* load(), refreshDetail(): what is read by the one replaces the draft.
Reading(replaces) == requests' = requests \cup {[n |-> settings.calls + 1, replaces |-> replaces, answer |-> None]}

ServeSettings(q) == /\ q.answer = None
                    /\ requests' = (requests \ {q}) \cup {[q EXCEPT !.answer = config]}
                    /\ UNCHANGED << config, settings, accent, drag >>

SettingsArrive(q) ==
  LET draft == IF q.replaces THEN q.answer ELSE settings.draft IN
  /\ q.answer # None
  /\ requests' = requests \ {q}
  /\ settings' = [settings EXCEPT !.saved = q.answer, !.draft = draft]
  /\ accent' = IF draft = None THEN accent
               ELSE Coloured(accent, IF settings.draft = None THEN None ELSE settings.draft.accent, draft.accent)
  /\ drag' = IF q.replaces THEN [drag EXCEPT !.from = << >>] ELSE drag
  /\ UNCHANGED config

\* The page shows nothing but the message.
SettingsFail(q) == /\ requests' = requests \ {q}
                   /\ settings' = [settings EXCEPT !.error = TRUE]
                   /\ UNCHANGED << config, accent, drag >>

SwitchSection(id) ==
  /\ Ready /\ MayChange
  /\ PatchDraft([settings.draft EXCEPT !.on = IF id \in @ THEN @ \ {id} ELSE @ \cup {id}])
  /\ UNCHANGED << config, drag, requests >>

\* The dialog of a section's settings (FeedbackPage has one of them).
OpenSection(id) == /\ Ready /\ id \in settings.draft.on \ {"tickets"}
                   /\ settings' = [settings EXCEPT !.dialog = id]
                   /\ UNCHANGED << config, accent, drag, requests >>
CloseSection == /\ settings.dialog # None
                /\ settings' = [settings EXCEPT !.dialog = None]
                /\ UNCHANGED << config, accent, drag, requests >>

\* A swatch or the reset.
PickAccent(c) == /\ Ready /\ MayChange /\ PatchDraft([settings.draft EXCEPT !.accent = c])
                 /\ UNCHANGED << config, drag, requests >>

TypeAccent(t) == /\ (Ready \/ accent.focused) /\ ~settings.error /\ MayChange
                 /\ accent' = [text |-> t, error |-> FALSE, focused |-> TRUE]
                 /\ settings' = [settings EXCEPT !.edits = @ + 1]
                 /\ UNCHANGED << config, drag, requests >>

\* commitAccentText(), when the text loses the focus
CommitAccentText ==
  /\ accent.focused
  /\ IF accent.text = NotAColour THEN accent' = [accent EXCEPT !.focused = FALSE, !.error = TRUE] /\ UNCHANGED settings
     ELSE /\ accent' = [accent EXCEPT !.focused = FALSE, !.error = FALSE]
          /\ settings' = [settings EXCEPT !.draft.accent = accent.text]
  /\ UNCHANGED << config, drag, requests >>

SaveSettings == /\ Ready /\ settings.draft # settings.saved /\ settings.saving = None
                /\ settings.calls < MaxSettingCalls
                /\ settings' = [settings EXCEPT !.saving = << settings.draft >>]
                /\ UNCHANGED << config, accent, drag, requests >>

SettingsStored == /\ settings.saving # None /\ settings.saving # << >>
                  /\ config' = settings.saving[1]
                  /\ settings' = [settings EXCEPT !.saving = << >>]
                  /\ UNCHANGED << accent, drag, requests >>

SaveAnswered == /\ settings.saving = << >>
                /\ settings' = [settings EXCEPT !.saving = None, !.calls = @ + 1]
                /\ Reading(TRUE)
                /\ UNCHANGED << config, accent, drag >>
SaveRefused  == /\ settings.saving # None
                /\ settings' = [settings EXCEPT !.saving = None, !.error = TRUE]
                /\ UNCHANGED << config, accent, drag, requests >>

\* uploadIcon(), removeIcon()
ChangeIcon  == /\ Ready /\ ~settings.icon /\ settings.calls < MaxSettingCalls
               /\ settings' = [settings EXCEPT !.icon = TRUE]
               /\ UNCHANGED << config, accent, drag, requests >>
IconChanged == /\ settings.icon
               /\ settings' = [settings EXCEPT !.icon = FALSE, !.calls = @ + 1]
               /\ Reading(FALSE)
               /\ UNCHANGED << config, accent, drag >>
IconFails   == /\ settings.icon
               /\ settings' = [settings EXCEPT !.icon = FALSE]
               /\ UNCHANGED << config, accent, drag, requests >>

------------------------------------------------------------------------------
(* The order of the sections                                               *)

OpenOrder  == /\ Ready /\ drag' = [NoDrag EXCEPT !.open = TRUE]
              /\ UNCHANGED << config, settings, accent, requests >>
CloseOrder == /\ drag.open /\ drag' = NoDrag
              /\ UNCHANGED << config, settings, accent, requests >>

Draggable == drag.open /\ ~settings.error

\* moveSection()
MoveSection(id, offset) ==
  LET from == Index(sectionOrder, id) IN
  /\ Draggable /\ MayChange /\ drag.section = None /\ from + offset \in 1..3
  /\ PatchDraft([settings.draft EXCEPT !.order = [sectionOrder EXCEPT ![from] = sectionOrder[from + offset],
                                                                     ![from + offset] = id]])
  /\ UNCHANGED << config, drag, requests >>

Pitch == 4
Push  == 1

\* The slot of a row that started at origin and was moved by y: it enters a
\* slot when it is a quarter of the way past the last one.
OrderTarget(y, origin) ==
  origin + Cardinality({j \in origin..2 : Pitch * origin + y > Pitch * j + Push})
         - Cardinality({j \in 2..origin : Pitch * origin + y < Pitch * j - Push})

StartDrag(id) == /\ Draggable /\ MayChange /\ drag.section = None
                 /\ drag' = [drag EXCEPT !.section = id, !.origin = Index(sectionOrder, id), !.y = 0, !.from = sectionOrder]
                 /\ settings' = [settings EXCEPT !.edits = @ + 1]
                 /\ UNCHANGED << config, accent, requests >>

\* Mutant of Taken: the slot is counted from where the row is now.
TakenFromHere(y) == OrderTarget(y, Index(sectionOrder, drag.section))

Taken(y) == OrderTarget(y, drag.origin)

\* move(): the row is taken out and put in at its slot.
DragTo(y) ==
  /\ Draggable /\ drag.section # None /\ y # drag.y
  /\ drag' = [drag EXCEPT !.y = y]
  /\ IF Taken(y) = Index(sectionOrder, drag.section) THEN UNCHANGED << settings, accent >>
     ELSE /\ settings' = [settings EXCEPT !.draft.order = Reordered(sectionOrder, drag.section, Taken(y))]
          /\ UNCHANGED accent
  /\ UNCHANGED << config, requests >>

EndDrag == /\ drag.section # None /\ drag' = [NoDrag EXCEPT !.open = TRUE]
           /\ UNCHANGED << config, settings, accent, requests >>

SettingsNext ==
  \/ \E q \in requests : ServeSettings(q) \/ SettingsArrive(q) \/ SettingsFail(q)
  \/ \E id \in Sections : SwitchSection(id) \/ OpenSection(id) \/ StartDrag(id) \/ MoveSection(id, 1) \/ MoveSection(id, -1)
  \/ \E c \in Accents : PickAccent(c)
  \/ \E t \in Accents \cup {NotAColour} : TypeAccent(t)
  \/ CloseSection \/ CommitAccentText \/ SaveSettings \/ SettingsStored \/ SaveAnswered \/ SaveRefused
  \/ ChangeIcon \/ IconChanged \/ IconFails \/ OpenOrder \/ CloseOrder \/ EndDrag
  \/ \E y \in Offsets : DragTo(y)

------------------------------------------------------------------------------
(* Properties                                                              *)

\* While a row is dragged the order is the one the drag started with, with
\* that row in the slot the pointer is over and the others as they were,
\* whatever way the pointer took; only a draft read from the server
\* meanwhile is another (WidgetTab.tsx:350-358, 388-409).
DragFollowsPointer ==
  drag.from # << >> =>
    settings.draft.order = Reordered(drag.from, drag.section, OrderTarget(drag.y, drag.origin))

\* The text beside the swatches is the colour that would be saved, or is
\* marked as wrong, once it has lost the focus, although colours come from
\* swatches and from the server as well (WidgetTab.tsx:58-77).
ColourAsShown ==
  settings.draft # None /\ ~accent.focused => accent.text = settings.draft.accent \/ accent.error
=============================================================================
