-------------------------------- MODULE Fields --------------------------------
(***************************************************************************)
(* Two fields that answer later than they are typed in: one that suggests  *)
(* values seen recently, and one that passes its text on after a pause and *)
(* says meanwhile that it will.                                            *)
(*                                                                         *)
(* The page around a field renders what it is passed before anything else  *)
(* happens.  A scope stands for what the suggestions are of: the site and  *)
(* how a message is matched.                                               *)
(***************************************************************************)
EXTENDS Naturals, DashboardValues

CONSTANTS Scopes, FieldTexts, \* what is searched in, what is typed
          MaxSearches, MaxRows \* bounds: searches in flight, rows of one

ASSUME FieldsAssumption == MaxSearches \in Nat /\ MaxRows \in Nat

VARIABLES suggest,  \* the field with suggestions
          searches, \* its requests in flight
          textbox   \* the other field, with what its page was told

fieldVars == << suggest, searches, textbox >>

------------------------------------------------------------------------------
(* Suggestions                                                             *)

\* Rows are known by the scope and the text they are of.
NoRows == [scope |-> None, text |-> None, picks |-> 0]

SuggestOpens(s) ==
  /\ suggest = [open |-> FALSE, value |-> "", scope |-> s, rows |-> NoRows, active |-> 0, loading |-> FALSE,
                failed |-> FALSE, timer |-> FALSE, n |-> 0]
  /\ searches = {}

\* The effect: an earlier search is cancelled, another is due after a pause.
Search(f) == [f EXCEPT !.timer = f.open, !.loading = @ \/ f.open, !.n = 0]

\* onChange, onFocus, the keys and a click elsewhere.
TypeIn(t) == /\ t # suggest.value
             /\ suggest' = Search([suggest EXCEPT !.value = t, !.open = TRUE])
             /\ UNCHANGED << searches, textbox >>
OpenList  == /\ ~suggest.open /\ suggest' = Search([suggest EXCEPT !.open = TRUE])
             /\ UNCHANGED << searches, textbox >>
Dismiss   == /\ suggest.open /\ suggest' = Search([suggest EXCEPT !.open = FALSE])
             /\ UNCHANGED << searches, textbox >>
ArrowDown == LET f == [suggest EXCEPT !.open = TRUE, !.active = IF @ < suggest.rows.picks THEN @ + 1 ELSE suggest.rows.picks] IN
             /\ suggest' = IF suggest.open THEN f ELSE Search(f)
             /\ UNCHANGED << searches, textbox >>
ArrowUp   == /\ suggest.active > 0 /\ suggest' = [suggest EXCEPT !.active = @ - 1]
             /\ UNCHANGED << searches, textbox >>

\* Rows of another scope are not shown, not even until the new ones come.
Emptied(f) == [f EXCEPT !.rows = NoRows, !.active = 0]

ChangeScope(s) == /\ s # suggest.scope
                  /\ suggest' = Search(Emptied([suggest EXCEPT !.scope = s]))
                  /\ UNCHANGED << searches, textbox >>

\* pick(): a row under the pointer, or the active one; its text is the value.
Pick(i, t) == /\ suggest.open /\ i \in 1..suggest.rows.picks
              /\ suggest' = Search([suggest EXCEPT !.value = t, !.open = FALSE, !.active = i])
              /\ UNCHANGED << searches, textbox >>

AskSuggestions ==
  /\ suggest.timer
  /\ \E n \in 1..MaxSearches :
       /\ \A q \in searches : q.n # n
       /\ suggest' = [suggest EXCEPT !.timer = FALSE, !.n = n]
       /\ searches' = searches \cup {[n |-> n, scope |-> suggest.scope, text |-> suggest.value]}
  /\ UNCHANGED textbox

SuggestionsArrive(q) ==
  /\ searches' = searches \ {q}
  /\ \E picks \in 0..MaxRows :
       suggest' = IF q.n # suggest.n THEN suggest
                  ELSE [suggest EXCEPT !.rows = [scope |-> q.scope, text |-> q.text, picks |-> picks], !.active = 0,
                                       !.failed = FALSE, !.loading = FALSE, !.n = 0]
  /\ UNCHANGED textbox

SuggestionsFail(q) ==
  /\ searches' = searches \ {q}
  /\ suggest' = IF q.n # suggest.n THEN suggest
                ELSE [suggest EXCEPT !.rows = NoRows, !.failed = TRUE, !.loading = FALSE, !.n = 0]
  /\ UNCHANGED textbox

SuggestNext == \/ \E t \in FieldTexts : TypeIn(t) \/ \E i \in 1..MaxRows : Pick(i, t)
               \/ OpenList \/ Dismiss \/ ArrowDown \/ ArrowUp \/ AskSuggestions
               \/ \E s \in Scopes : ChangeScope(s)
               \/ \E q \in searches : SuggestionsArrive(q) \/ SuggestionsFail(q)

------------------------------------------------------------------------------
(* Text passed on after a pause                                            *)

TextOpens == textbox = [mounted |-> TRUE, draft |-> "", value |-> "", last |-> "", timer |-> FALSE, told |-> FALSE]

\* The effects of a render: a value from outside replaces the draft, the
\* pause starts anew for a text not passed on, and the page is told.
Rendered(f) ==
  LET draft == IF f.value = f.last THEN f.draft ELSE f.value IN
  [f EXCEPT !.last = f.value, !.draft = draft, !.timer = draft # f.value, !.told = draft # f.value]

TypeText(t)  == /\ textbox.mounted /\ t # textbox.draft
                /\ textbox' = Rendered([textbox EXCEPT !.draft = t])
                /\ UNCHANGED << suggest, searches >>

\* The page sets another value: another filter, a reset.
SetOutside(t) == /\ t # textbox.value
                 /\ textbox' = IF textbox.mounted THEN Rendered([textbox EXCEPT !.value = t])
                               ELSE [textbox EXCEPT !.value = t]
                 /\ UNCHANGED << suggest, searches >>

\* The page takes the text passed on.
PassOn == /\ textbox.timer
          /\ textbox' = Rendered([textbox EXCEPT !.last = textbox.draft, !.value = textbox.draft])
          /\ UNCHANGED << suggest, searches >>

Unmount == /\ textbox.mounted
           /\ textbox' = [textbox EXCEPT !.mounted = FALSE, !.timer = FALSE, !.told = FALSE]
           /\ UNCHANGED << suggest, searches >>

Mount   == /\ ~textbox.mounted
           /\ textbox' = [textbox EXCEPT !.mounted = TRUE, !.draft = textbox.value, !.last = textbox.value]
           /\ UNCHANGED << suggest, searches >>

TextNext == \/ \E t \in FieldTexts : TypeText(t) \/ SetOutside(t)
            \/ PassOn \/ Unmount \/ Mount

------------------------------------------------------------------------------
(* Properties                                                              *)

\* Suggestions are never of another scope than the field's, and the ones of
\* another text are there only until a search that is due or under way ends
\* (SuggestionInput.tsx:48-66, ReportEditor.tsx:219-223).
SuggestionsOfScope ==
  /\ suggest.rows.scope \in {None, suggest.scope}
  /\ suggest.open /\ ~suggest.timer /\ suggest.n = 0 /\ suggest.rows # NoRows => suggest.rows.text = suggest.value

\* A page that was told of a text to come is told again: it never waits for
\* one that is not on its way (useDebouncedTextInput.ts:22-44).
TextComes == textbox.told => textbox.mounted /\ textbox.timer /\ textbox.draft # textbox.value
=============================================================================
