----------------------------- MODULE ReportForm -----------------------------
(***************************************************************************)
(* The rule of an analysis report as the editor's form holds it, as it is  *)
(* stored, and what the editor and the server each demand of it.           *)
(*                                                                         *)
(* A text is empty, blank, fitting or longer than its limit.  The name,    *)
(* description and visibility of the report, the timezone and the kind of  *)
(* chart, which no other field bears on, are left out.                     *)
(***************************************************************************)
EXTENDS Naturals, DashboardValues

CONSTANTS Sites, Services, SiteOf, \* the services of the sites
          Windows                  \* windows: a unit and a number of it

Texts == {"", " ", "text", "long"}

ASSUME ReportFormAssumption ==
  /\ SiteOf \in [Services -> Sites] /\ None \notin Sites \cup Services \cup Texts \cup {"contains", "exact"}
  /\ Windows \subseteq {"hours", "days"} \X Nat

IsBlank(text) == text \in {"", " "}

Absent(value) == value \in {None, ""}

\* The most hours of a window, and of one drawn in five minutes.
maxHours == 168
maxDays  == 365
fiveMinuteHours == 6

emptyForm == [site |-> None, source |-> "event", eventName |-> "", trackId |-> "", message |-> "",
              messageMode |-> "contains", severity |-> "", service |-> None, environment |-> "",
              window |-> << "days", 30 >>]

IntervalFor(window) == CASE window[1] = "days" -> "day"
                         [] window[1] = "hours" /\ window[2] <= fiveMinuteHours -> "5min"
                         [] OTHER -> "hour"

\* Only the fields of the source, and those left empty are left out.
DefinitionFromForm(form) ==
  LET given == IF form.source = "event" THEN {"eventName", "trackId"}
               ELSE {"message", "messageMode", "severity", "service", "environment"} IN
  [source |-> form.source, site |-> form.site, window |-> form.window, interval |-> IntervalFor(form.window),
   match |-> [k \in {f \in given : ~Absent(form[f]) \/ f \in {"eventName", "message"}} |-> form[k]]]

\* A field that is not stored gets the value an empty form has, except that
\* a rule without a mode, made before there was one, is exact.
FormFromReport(def) ==
  LET stored(f) == IF f \in DOMAIN def.match THEN def.match[f] ELSE IF f = "messageMode" THEN "exact" ELSE emptyForm[f] IN
  [f \in DOMAIN emptyForm |-> CASE f = "site"   -> def.site
                                [] f = "source" -> def.source
                                [] f = "window" -> def.window
                                [] OTHER        -> stored(f)]

ValidWindow(window) == window[2] \in 1..(IF window[1] = "hours" THEN maxHours ELSE maxDays)

\* The fields the editor finds at fault.
ValidateForm(form) ==
  {"match" : x \in {t \in {IF form.source = "event" THEN form.eventName ELSE form.message} : IsBlank(t) \/ t = "long"}}
  \cup {"trackId" : x \in {t \in {form.trackId} : form.source = "event" /\ t \in {" ", "long"}}}
  \cup {"window" : x \in {w \in {form.window} : ~ValidWindow(w)}}

HasSourceFields(form) ==
  LET fields == IF form.source = "event" THEN {"eventName", "trackId"}
                ELSE {"message", "severity", "service", "environment"} IN
  \E f \in fields : ~Absent(form[f])

SourceFields == {"eventName", "trackId", "message", "messageMode", "severity", "service", "environment"}

ClearSourceFields(form) == [f \in DOMAIN form |-> IF f \in SourceFields THEN emptyForm[f] ELSE form[f]]

\* The server's checks of the rule, and of the site and service it names.
ServerAccepts(def) ==
  LET m == def.match
      field(f) == IF f \in DOMAIN m THEN m[f] ELSE "" IN
  /\ CASE def.source = "event" -> /\ ~IsBlank(field("eventName")) /\ field("eventName") # "long"
                                  /\ field("trackId") \notin {" ", "long"}
                                  /\ DOMAIN m \cap {"message", "messageMode", "severity", "service", "environment"} = {}
       [] def.source = "log"   -> /\ ~IsBlank(field("message")) /\ field("message") # "long"
                                  /\ field("environment") # " "
                                  /\ DOMAIN m \cap {"eventName", "trackId"} = {}
                                  /\ "service" \in DOMAIN m => def.site \in {None, SiteOf[m.service]}
  /\ ValidWindow(def.window) /\ def.interval = IntervalFor(def.window)
=============================================================================
