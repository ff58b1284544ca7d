---------------------------- MODULE Console_proofs ----------------------------
(***************************************************************************)
(* Proofs about the other pages, for any number of reports, logs,          *)
(* campaigns, services, recordings, filters and requests in flight: what a *)
(* page shows answers what is asked now, what it waits for comes, what it  *)
(* sends is what it showed, the search index finds what there is, and      *)
(* settings show what is stored.                                           *)
(***************************************************************************)
EXTENDS Console, FiniteSetTheorems, SequenceTheorems, WellFoundedInduction, TLAPS

-----------------------------------------------------------------------------
(* The field with suggestions                                              *)

SuggestFields == {"open", "value", "scope", "rows", "active", "loading", "failed", "timer", "n"}

\* A search that counts is of the field's scope and text.
SearchesFit == \A q \in searches : /\ q.n # 0
                                   /\ q.n = suggest.n => q.scope = suggest.scope /\ q.text = suggest.value

SuggestInv == DOMAIN suggest = SuggestFields /\ SearchesFit /\ SuggestionsOfScope

LEMMA SuggestInitInv == ASSUME NEW s, SuggestOpens(s) PROVE SuggestInv
BY DEF SuggestOpens, SuggestInv, SuggestFields, SearchesFit, SuggestionsOfScope, NoRows

LEMMA SuggestInvNext == SuggestInv /\ (SuggestNext \/ UNCHANGED fieldVars) => SuggestInv'
<1> SUFFICES ASSUME SuggestInv, SuggestNext \/ UNCHANGED fieldVars PROVE SuggestInv' OBVIOUS
<1> USE DEF SuggestInv, SuggestFields, SearchesFit, SuggestionsOfScope
<1>1. ASSUME NEW t \in FieldTexts, TypeIn(t) PROVE SuggestInv' BY <1>1 DEF TypeIn, Search
<1>2. ASSUME NEW t \in FieldTexts, NEW i \in 1..MaxRows, Pick(i, t) PROVE SuggestInv' BY <1>2 DEF Pick, Search
<1>3. CASE OpenList BY <1>3 DEF OpenList, Search
<1>4. CASE Dismiss BY <1>4 DEF Dismiss, Search
<1>5. CASE ArrowDown BY <1>5 DEF ArrowDown, Search
<1>6. CASE ArrowUp BY <1>6 DEF ArrowUp
<1>7. CASE AskSuggestions BY <1>7, FieldsAssumption DEF AskSuggestions
<1>8. ASSUME NEW s \in Scopes, ChangeScope(s) PROVE SuggestInv' BY <1>8 DEF ChangeScope, Search, Emptied, NoRows
<1>9. ASSUME NEW q \in searches, SuggestionsArrive(q) PROVE SuggestInv' BY <1>9 DEF SuggestionsArrive, NoRows
<1>10. ASSUME NEW q \in searches, SuggestionsFail(q) PROVE SuggestInv' BY <1>10 DEF SuggestionsFail, NoRows
<1>11. CASE UNCHANGED fieldVars BY <1>11 DEF fieldVars
<1> QED BY <1>1, <1>2, <1>3, <1>4, <1>5, <1>6, <1>7, <1>8, <1>9, <1>10, <1>11 DEF SuggestNext

-----------------------------------------------------------------------------
(* Text passed on after a pause                                            *)

TextInv ==
  /\ DOMAIN textbox = {"mounted", "draft", "value", "last", "timer", "told"}
  /\ textbox.mounted \in BOOLEAN /\ textbox.timer \in BOOLEAN /\ textbox.told \in BOOLEAN
  /\ TextComes

LEMMA TextInitInv == TextOpens => TextInv
<1> SUFFICES ASSUME TextOpens PROVE TextInv OBVIOUS
<1>1. /\ DOMAIN textbox = {"mounted", "draft", "value", "last", "timer", "told"}
      /\ textbox.mounted \in BOOLEAN /\ textbox.timer \in BOOLEAN /\ textbox.told \in BOOLEAN
      /\ textbox.told = FALSE
  BY DEF TextOpens
<1> QED BY <1>1 DEF TextInv, TextComes

LEMMA TextInvNext == TextInv /\ (TextNext \/ UNCHANGED fieldVars) => TextInv'
<1> SUFFICES ASSUME TextInv, TextNext \/ UNCHANGED fieldVars PROVE TextInv' OBVIOUS
<1> USE DEF TextInv, TextComes
<1>1. ASSUME NEW t \in FieldTexts, TypeText(t) PROVE TextInv' BY <1>1 DEF TypeText, Rendered
<1>2. ASSUME NEW t \in FieldTexts, SetOutside(t) PROVE TextInv' BY <1>2 DEF SetOutside, Rendered
<1>3. CASE PassOn BY <1>3 DEF PassOn, Rendered
<1>4. CASE Unmount BY <1>4 DEF Unmount
<1>5. CASE Mount BY <1>5 DEF Mount
<1>6. CASE UNCHANGED fieldVars BY <1>6 DEF fieldVars
<1> QED BY <1>1, <1>2, <1>3, <1>4, <1>5, <1>6 DEF TextNext

-----------------------------------------------------------------------------
(* The log that the address names                                          *)

LinkFields == {"address", "open", "error", "fetch", "moves"}

\* Requests are numbered by navigations, and one that counts is of the log
\* that the address names.
FetchesFit ==
  /\ link.moves \in Nat
  /\ \A q \in fetches : /\ q.n \in 1..link.moves
                        /\ Awaited(q) => q.id = linkedId(link.address)

LinkInv == DOMAIN link = LinkFields /\ FetchesFit /\ LinkIsShown

LEMMA LinkInitInv == LinkOpens => LinkInv
BY DEF LinkOpens, LinkInv, LinkFields, FetchesFit, LinkIsShown, linkedId

\* The effect of an address of another log, for a page that has moved on.
LEMMA FollowKeeps ==
  ASSUME LinkInv, NEW l, NEW listed, DOMAIN l = LinkFields, l.moves = link.moves + 1, Follow(l, listed)
  PROVE  LinkInv'
<1>1. \A q \in fetches : q.n \in Nat /\ q.n # 0 /\ q.n # l.moves /\ q.n \in 1..l.moves
  BY DEF LinkInv, FetchesFit
<1>2. l.moves \in Nat /\ l.moves \in 1..l.moves BY DEF LinkInv, FetchesFit
<1>3. CASE /\ DOMAIN link' = LinkFields /\ link'.moves = l.moves /\ link'.fetch = 0 /\ UNCHANGED fetches
           /\ link'.open = linkedId(link'.address)
  BY <1>1, <1>2, <1>3 DEF LinkInv, FetchesFit, Awaited, LinkIsShown
<1>4. CASE /\ DOMAIN link' = LinkFields /\ link'.moves = l.moves /\ link'.fetch = l.moves
           /\ fetches' = fetches \cup {[n |-> l.moves, id |-> linkedId(link'.address)]}
  <2>1. PICK q \in fetches' : q.n = link'.fetch /\ q.id = linkedId(link'.address)
    <3>1. PICK id : id = linkedId(link'.address) OBVIOUS
    <3>2. [n |-> l.moves, id |-> id] \in fetches' BY <1>4, <3>1
    <3> QED BY <1>4, <3>1, <3>2
  <2>2. LinkIsShown' BY <2>1 DEF LinkIsShown, Awaited, linkedId
  <2>3. FetchesFit' BY <1>1, <1>2, <1>4 DEF FetchesFit, Awaited
  <2> QED BY <1>4, <2>2, <2>3 DEF LinkInv
<1>5. CASE l.address = Invalid
  <2>1. linkedId(Invalid) = None /\ linkedId(None) = None BY LinkedLogAssumption DEF linkedId, Invalid
  <2>2. /\ DOMAIN link' = LinkFields /\ link'.moves = l.moves /\ link'.fetch = 0 /\ UNCHANGED fetches
        /\ link'.open = linkedId(link'.address)
    BY <1>5, <2>1 DEF Follow, LinkFields
  <2> QED BY <1>3, <2>2
<1>6. CASE l.address # Invalid /\ linkedId(l.address) = None
  <2>1. /\ DOMAIN link' = LinkFields /\ link'.moves = l.moves /\ link'.fetch = 0 /\ UNCHANGED fetches
        /\ link'.open = linkedId(link'.address)
    BY <1>6 DEF Follow, LinkFields
  <2> QED BY <1>3, <2>1
<1>7. CASE l.address # Invalid /\ linkedId(l.address) # None /\ (l.open = linkedId(l.address) \/ listed)
  <2>1. /\ DOMAIN link' = LinkFields /\ link'.moves = l.moves /\ link'.fetch = 0 /\ UNCHANGED fetches
        /\ link'.open = linkedId(link'.address)
    BY <1>7 DEF Follow, LinkFields
  <2> QED BY <1>3, <2>1
<1>8. CASE l.address # Invalid /\ linkedId(l.address) # None /\ l.open # linkedId(l.address) /\ ~listed
  <2>1. /\ DOMAIN link' = LinkFields /\ link'.moves = l.moves /\ link'.fetch = l.moves
        /\ fetches' = fetches \cup {[n |-> l.moves, id |-> linkedId(link'.address)]}
    BY <1>8 DEF Follow, LinkFields
  <2> QED BY <1>4, <2>1
<1> QED BY <1>5, <1>6, <1>7, <1>8

LEMMA GoKeeps ==
  ASSUME LinkInv, NEW l, NEW address, Go(l, address), DOMAIN l = LinkFields,
         l.moves = link.moves, l.fetch = link.fetch, l.open \in {link.open, linkedId(address)}
  PROVE  LinkInv'
<1> DEFINE there == [l EXCEPT !.address = address, !.moves = @ + 1]
<1>1. /\ DOMAIN there = LinkFields /\ there.moves = link.moves + 1 /\ there.fetch = link.fetch
      /\ there.address = address /\ there.open = l.open
  BY DEF LinkFields
<1>2. CASE linkedId(address) = linkedId(link.address)
  <2>1. link' = there /\ UNCHANGED fetches BY <1>2 DEF Go
  <2> HIDE DEF there
  <2>2. FetchesFit' BY <1>1, <1>2, <2>1 DEF LinkInv, FetchesFit, Awaited
  <2>3. LinkIsShown' BY <1>1, <1>2, <2>1 DEF LinkInv, LinkIsShown, Awaited
  <2> QED BY <1>1, <2>1, <2>2, <2>3 DEF LinkInv
<1>3. CASE linkedId(address) # linkedId(link.address)
  <2>1. PICK listed \in BOOLEAN : Follow(there, listed) BY <1>3 DEF Go
  <2> HIDE DEF there
  <2> QED BY <1>1, <2>1, FollowKeeps
<1> QED BY <1>2, <1>3

LEMMA LinkInvNext == LinkInv /\ (LinkNext \/ UNCHANGED linkVars) => LinkInv'
<1> SUFFICES ASSUME LinkInv, LinkNext \/ UNCHANGED linkVars PROVE LinkInv' OBVIOUS
<1>0. DOMAIN link = LinkFields BY DEF LinkInv
<1>1. ASSUME NEW address \in LogIds \cup {None, Invalid}, Visit(address) PROVE LinkInv'
  BY <1>0, <1>1, GoKeeps DEF Visit
<1>2. ASSUME NEW id \in LogIds, OpenLog(id) PROVE LinkInv'
  <2> DEFINE l == [link EXCEPT !.error = FALSE, !.open = id]
  <2>1. /\ DOMAIN l = LinkFields /\ l.moves = link.moves /\ l.fetch = link.fetch /\ l.open = linkedId(id)
        /\ Go(l, id)
    BY <1>0, <1>2 DEF OpenLog, LinkFields, linkedId
  <2> HIDE DEF l
  <2> QED BY <2>1, GoKeeps
<1>3. CASE CloseLog
  <2> DEFINE l == [link EXCEPT !.open = None]
  <2>1. /\ DOMAIN l = LinkFields /\ l.moves = link.moves /\ l.fetch = link.fetch /\ l.open = linkedId(None)
        /\ Go(l, None)
    BY <1>0, <1>3 DEF CloseLog, LinkFields, linkedId
  <2> HIDE DEF l
  <2> QED BY <2>1, GoKeeps
<1>4. ASSUME NEW q \in fetches, LogArrives(q) \/ LogFails(q) PROVE LinkInv'
  <2>1. CASE Awaited(q)
    <3>1. /\ DOMAIN link' = LinkFields /\ link'.moves = link.moves /\ link'.fetch = 0 /\ fetches' = fetches \ {q}
          /\ link'.open = linkedId(link'.address)
      BY <1>0, <1>4, <2>1 DEF LogArrives, LogFails, LinkFields, LinkInv, FetchesFit, linkedId
    <3> QED BY <3>1 DEF LinkInv, FetchesFit, Awaited, LinkIsShown
  <2>2. CASE ~Awaited(q)
    <3>1. link' = link /\ fetches' = fetches \ {q} BY <1>4, <2>2 DEF LogArrives, LogFails
    <3>2. LinkIsShown' BY <2>2, <3>1 DEF LinkInv, LinkIsShown, Awaited
    <3>3. FetchesFit' BY <3>1 DEF LinkInv, FetchesFit, Awaited
    <3> QED BY <3>1, <3>2, <3>3 DEF LinkInv
  <2> QED BY <2>1, <2>2
<1>5. CASE UNCHANGED linkVars BY <1>5 DEF linkVars, LinkInv, FetchesFit, LinkIsShown, Awaited
<1> QED BY <1>1, <1>2, <1>3, <1>4, <1>5 DEF LinkNext
-----------------------------------------------------------------------------
(* The performance page                                                    *)

LEMMA SmallestNat ==
  ASSUME NEW T \in SUBSET Nat, T # {}
  PROVE  \E m \in T : \A x \in T : m <= x
<1> DEFINE R == OpToRel(<, Nat)
<1>1. \A x, m \in Nat : x < m => << x, m >> \in R
  <2> TAKE x \in Nat, m \in Nat
  <2>1. << x, m >> \in Nat \X Nat /\ << x, m >>[1] = x /\ << x, m >>[2] = m OBVIOUS
  <2> QED BY <2>1 DEF OpToRel
<1>2. IsWellFoundedOn(R, Nat) BY NatLessThanWellFounded
<1> HIDE DEF R
<1>3. PICK m \in T : \A x \in T : ~ (<< x, m >> \in R) BY <1>2, WFMin
<1>4. ASSUME NEW x \in T PROVE m <= x
  <2>1. x \in Nat /\ m \in Nat /\ ~ (x < m) BY <1>1, <1>3
  <2> QED BY <2>1
<1> QED BY <1>4

\* The endpoints of the same service that are newer.
Newer(rows, e) ==
  {d \in rows : d.environment = e.environment /\ d.service = e.service /\ d.version > e.version}

\* Of every service there is a latest version.
LEMMA SomeLatest ==
  ASSUME NEW rows \in SUBSET Endpoints, rows # {}
  PROVE  Latests(rows) # {}
<1>0. IsFiniteSet(rows) /\ \A e \in rows : e.version \in Nat
  BY PerformanceAssumption, FS_Subset
<1>1. ASSUME NEW e \in rows
      PROVE  IsFiniteSet(Newer(rows, e)) /\ Cardinality(Newer(rows, e)) \in Nat
  <2>1. Newer(rows, e) \in SUBSET rows BY DEF Newer
  <2> QED BY <1>0, <2>1, FS_Subset, FS_CardinalityType
<1> DEFINE Ranks == {Cardinality(Newer(rows, e)) : e \in rows}
<1>2. Ranks \in SUBSET Nat /\ Ranks # {} BY <1>1
<1>3. PICK r \in Ranks : \A x \in Ranks : r <= x BY <1>2, SmallestNat
<1>4. PICK e \in rows : r = Cardinality(Newer(rows, e)) BY <1>3
<1>5. ASSUME NEW d \in Newer(rows, e) PROVE FALSE
  <2>1. /\ d \in rows /\ d.environment = e.environment /\ d.service = e.service
        /\ d.version \in Nat /\ e.version \in Nat /\ d.version > e.version
    BY <1>0, <1>5 DEF Newer
  <2>2. Newer(rows, d) \in SUBSET Newer(rows, e)
    <3>1. \A x \in rows : x.version > d.version => x.version > e.version BY <1>0, <2>1
    <3> QED BY <2>1, <3>1 DEF Newer
  <2>3. d \notin Newer(rows, d) BY <2>1 DEF Newer
  <2>4. /\ Cardinality(Newer(rows, d)) <= Cardinality(Newer(rows, e))
        /\ Cardinality(Newer(rows, d)) # Cardinality(Newer(rows, e))
    BY <1>1, <1>5, <2>2, <2>3, FS_Subset
  <2>5. Cardinality(Newer(rows, e)) <= Cardinality(Newer(rows, d)) BY <1>3, <1>4, <2>1
  <2> QED BY <1>1, <2>1, <2>4, <2>5
<1>6. e \in Latests(rows)
  <2>1. \A d \in rows : d.environment = e.environment /\ d.service = e.service => ~ (d.version > e.version)
    BY <1>5 DEF Newer
  <2>2. \A d \in rows : ~ (d.version > e.version) => d.version <= e.version BY <1>0
  <2> QED BY <2>1, <2>2 DEF Latests
<1> QED BY <1>6

PerfFields == {"filter", "run", "asked", "fetching", "report", "of", "loading", "error", "live", "selected", "choice"}

\* A request that is not cancelled is of the filters chosen, and a report that
\* is shown has endpoints there are.
LoadsFit ==
  /\ perf.run \in Nat
  /\ HasList => perf.report \subseteq Endpoints
  /\ \A q \in loads : q.run \in Nat /\ q.run <= perf.run /\ (NotCancelled(q) => q.filter = perf.filter)

PerfInv ==
  /\ DOMAIN perf = PerfFields /\ perf.loading \in BOOLEAN /\ perf.error \in BOOLEAN
  /\ LoadsFit /\ ReportOfFilters

LEMMA PerfInitInv == ASSUME NEW f, PerfOpens(f) PROVE PerfInv
<1>1. /\ DOMAIN perf = PerfFields /\ perf.loading = TRUE /\ perf.error = FALSE /\ perf.run = 1
      /\ perf.filter = f /\ perf.report = None
  BY DEF PerfOpens, PerfFields
<1>2. ~HasList BY <1>1 DEF HasList
<1>3. LoadsFit BY <1>1, <1>2 DEF PerfOpens, LoadsFit
<1> QED BY <1>1, <1>2, <1>3 DEF PerfInv, ReportOfFilters

LEMMA LoadKeeps ==
  ASSUME PerfInv, NEW p, Load(p), DOMAIN p = PerfFields, p.loading \in BOOLEAN, p.error = perf.error,
         p.report = perf.report, p.selected = perf.selected, p.of = perf.of,
         \/ p.run = perf.run /\ p.filter = perf.filter /\ p.loading = perf.loading
         \/ p.run = perf.run + 1 /\ p.loading
  PROVE  PerfInv'
<1>1. /\ DOMAIN perf' = PerfFields /\ perf'.loading = p.loading /\ perf'.error = p.error
      /\ perf'.report = p.report /\ perf'.selected = p.selected /\ perf'.of = p.of
      /\ perf'.run = p.run /\ perf'.filter = p.filter
  BY DEF Load, PerfFields
<1>2. loads' = loads \cup {[n |-> p.asked + 1, run |-> p.run, filter |-> p.filter]} BY DEF Load
<1>3. PICK new : new = [n |-> p.asked + 1, run |-> p.run, filter |-> p.filter] OBVIOUS
<1>4. new.run = p.run /\ new.filter = p.filter /\ loads' = loads \cup {new} BY <1>2, <1>3
<1>5. LoadsFit'
  <2>1. perf.run \in Nat /\ p.run \in Nat /\ perf.run <= p.run BY DEF PerfInv, LoadsFit
  <2>2. ASSUME NEW q \in loads
        PROVE  q.run \in Nat /\ q.run <= p.run /\ (q.run = p.run => q.filter = p.filter)
    BY <2>1, <2>2 DEF PerfInv, LoadsFit, NotCancelled
  <2>3. HasList' => perf'.report \subseteq Endpoints BY <1>1 DEF PerfInv, LoadsFit, HasList
  <2> QED BY <1>1, <1>4, <2>1, <2>2, <2>3 DEF LoadsFit, NotCancelled
<1>6. ReportOfFilters' BY <1>1 DEF PerfInv, ReportOfFilters, HasList
<1> QED BY <1>1, <1>5, <1>6 DEF PerfInv

LEMMA PerfInvNext == PerfInv /\ (PerfNext \/ UNCHANGED perfVars) => PerfInv'
<1> SUFFICES ASSUME PerfInv, PerfNext \/ UNCHANGED perfVars PROVE PerfInv' OBVIOUS
<1>0. DOMAIN perf = PerfFields /\ perf.loading \in BOOLEAN /\ perf.error \in BOOLEAN BY DEF PerfInv
<1>1. ASSUME NEW f \in PerfFilters, SetPerfFilter(f) PROVE PerfInv'
  <2> DEFINE p == [[perf EXCEPT !.filter = f] EXCEPT !.run = @ + 1, !.loading = TRUE]
  <2>1. /\ DOMAIN p = PerfFields /\ p.loading = TRUE /\ p.error = perf.error /\ p.report = perf.report
        /\ p.selected = perf.selected /\ p.of = perf.of /\ p.run = perf.run + 1
    BY <1>0 DEF PerfFields
  <2>2. Load(p) BY <1>1 DEF SetPerfFilter, Rerun
  <2> HIDE DEF p
  <2> QED BY <2>1, <2>2, LoadKeeps
<1>2. CASE SetLive
  <2> DEFINE p == [[perf EXCEPT !.live = ~@] EXCEPT !.run = @ + 1, !.loading = TRUE]
  <2>1. /\ DOMAIN p = PerfFields /\ p.loading = TRUE /\ p.error = perf.error /\ p.report = perf.report
        /\ p.selected = perf.selected /\ p.of = perf.of /\ p.run = perf.run + 1
    BY <1>0 DEF PerfFields
  <2>2. Load(p) BY <1>2 DEF SetLive, Rerun
  <2> HIDE DEF p
  <2> QED BY <2>1, <2>2, LoadKeeps
<1>3. CASE RefreshPerf
  <2> DEFINE p == [perf EXCEPT !.run = @ + 1, !.loading = TRUE]
  <2>1. /\ DOMAIN p = PerfFields /\ p.loading = TRUE /\ p.error = perf.error /\ p.report = perf.report
        /\ p.selected = perf.selected /\ p.of = perf.of /\ p.run = perf.run + 1
    BY <1>0 DEF PerfFields
  <2>2. Load(p) BY <1>3 DEF RefreshPerf, Rerun
  <2> HIDE DEF p
  <2> QED BY <2>1, <2>2, LoadKeeps
<1>4. CASE Interval BY <1>0, <1>4, LoadKeeps DEF Interval
<1>5. ASSUME NEW q \in loads, LoadArrives(q), NotCancelled(q) PROVE PerfInv'
  <2>1. PICK rows \in SUBSET Endpoints :
          perf' = Reported([perf EXCEPT !.fetching = FALSE, !.loading = FALSE, !.error = FALSE, !.of = q.filter], rows)
    BY <1>5 DEF LoadArrives
  <2>2. /\ DOMAIN perf' = PerfFields /\ perf'.loading = FALSE /\ perf'.error = FALSE /\ perf'.report = rows
        /\ perf'.of = q.filter /\ perf'.run = perf.run /\ perf'.filter = perf.filter
        /\ (rows # {} => perf'.selected \in rows)
    BY <1>0, <2>1 DEF Reported, PerfFields
  <2>3. loads' = loads \ {q} BY <1>5 DEF LoadArrives
  <2>4. LoadsFit' BY <2>2, <2>3 DEF PerfInv, LoadsFit, NotCancelled, HasList
  <2>5. ReportOfFilters' BY <1>5, <2>2 DEF PerfInv, LoadsFit, NotCancelled, HasList, ReportOfFilters
  <2> QED BY <2>2, <2>4, <2>5 DEF PerfInv
<1>6. ASSUME NEW q \in loads, PerfFails(q), NotCancelled(q) PROVE PerfInv'
  <2>1. /\ DOMAIN perf' = PerfFields /\ perf'.loading = FALSE /\ perf'.error = TRUE /\ perf'.report = perf.report
        /\ perf'.of = perf.of /\ perf'.run = perf.run /\ perf'.filter = perf.filter
        /\ perf'.selected = perf.selected /\ loads' = loads \ {q}
    BY <1>0, <1>6 DEF PerfFails, PerfFields
  <2> QED BY <2>1 DEF PerfInv, LoadsFit, NotCancelled, HasList, ReportOfFilters
<1>7. ASSUME NEW q \in loads, LoadArrives(q) \/ PerfFails(q), ~NotCancelled(q) PROVE PerfInv'
  <2>1. perf' = perf /\ loads' = loads \ {q} BY <1>7 DEF LoadArrives, PerfFails
  <2> QED BY <2>1 DEF PerfInv, LoadsFit, NotCancelled, HasList, ReportOfFilters
<1>8. ASSUME NEW e, SelectEndpoint(e) PROVE PerfInv'
  <2>1. /\ DOMAIN perf' = PerfFields /\ perf'.loading = perf.loading /\ perf'.error = perf.error
        /\ perf'.report = perf.report /\ perf'.of = perf.of /\ perf'.run = perf.run /\ perf'.filter = perf.filter
        /\ perf'.selected = e /\ loads' = loads /\ e \in perf.report
    BY <1>0, <1>8 DEF SelectEndpoint, PerfFields
  <2> QED BY <2>1 DEF PerfInv, LoadsFit, NotCancelled, HasList, ReportOfFilters
<1>9. ASSUME NEW environment, NEW service, NEW version, Choose(environment, service, version) PROVE PerfInv'
  <2>1. /\ DOMAIN perf' = PerfFields /\ perf'.loading = perf.loading /\ perf'.error = perf.error
        /\ perf'.report = perf.report /\ perf'.of = perf.of /\ perf'.run = perf.run /\ perf'.filter = perf.filter
        /\ perf'.selected = perf.selected /\ loads' = loads
    BY <1>0, <1>9 DEF Choose, PerfFields
  <2> QED BY <2>1 DEF PerfInv, LoadsFit, NotCancelled, HasList, ReportOfFilters
<1>10. CASE UNCHANGED perfVars
  BY <1>10 DEF perfVars, PerfInv, LoadsFit, NotCancelled, HasList, ReportOfFilters
<1> QED BY <1>1, <1>2, <1>3, <1>4, <1>5, <1>6, <1>7, <1>8, <1>9, <1>10 DEF PerfNext

\* Whatever is left chosen, it hides no list of endpoints.
LEMMA ChoicesShow == PerfInv => EndpointsVisible
<1> SUFFICES ASSUME PerfInv, HasList PROVE VisibleEndpoints # {} BY DEF EndpointsVisible
<1>1. perf.report \in SUBSET Endpoints /\ perf.report # {} BY DEF PerfInv, LoadsFit, HasList
<1>2. InEnvironment \in SUBSET perf.report /\ InEnvironment # {}
  BY <1>1 DEF InEnvironment, Scoped, Of
<1>3. ScopedEndpoints \in SUBSET InEnvironment /\ ScopedEndpoints # {}
  BY <1>2 DEF ScopedEndpoints, Scoped, Of
<1>4. ScopedEndpoints \in SUBSET Endpoints BY <1>1, <1>2, <1>3
<1>5. Latests(ScopedEndpoints) # {} BY <1>3, <1>4, SomeLatest
<1> DEFINE version == Scoped(perf.choice.version, Of(ScopedEndpoints, "version") \cup {AnyVersion}, LatestVersion)
<1>6. version \in Of(ScopedEndpoints, "version") \cup {AnyVersion, LatestVersion} BY DEF Scoped
<1> HIDE DEF version
<1>7. version # LatestVersion => {e \in ScopedEndpoints : version \in {AnyVersion, e.version}} # {}
  BY <1>3, <1>6 DEF Of
<1> QED BY <1>5, <1>7 DEF VisibleEndpoints, version
-----------------------------------------------------------------------------
(* The page of one report                                                  *)

ViewFields == {"id", "choice", "report", "notFound", "result", "loading", "error", "read", "ask", "asking", "busy"}

\* Reads and requests are numbered; the ones that count are of the report and
\* of the range on the page.
AnswersFit ==
  /\ view.read \in Nat /\ view.ask \in Nat
  /\ \A q \in reads : q.n \in Nat /\ q.n <= view.read /\ (q.n = view.read => q.id = view.id)
  /\ \A q \in results : /\ q.n \in Nat /\ q.n <= view.ask
                        /\ Counts(q) => q.id = view.id /\ q.choice = view.choice

ViewInv ==
  /\ DOMAIN view = ViewFields
  /\ {view.notFound, view.loading, view.error, view.asking} \subseteq BOOLEAN
  /\ AnswersFit /\ ResultShown

LEMMA ViewInitInv == ASSUME NEW r, NEW choice, ViewOpens(r, choice) PROVE ViewInv
<1>1. /\ DOMAIN view = ViewFields /\ view.notFound = FALSE /\ view.loading = TRUE /\ view.error = FALSE
      /\ view.asking = FALSE /\ view.read = 1 /\ view.ask = 0 /\ view.id = r /\ view.report = None
      /\ reads = {[n |-> 1, id |-> r]} /\ results = {}
  BY DEF ViewOpens, ViewFields
<1>2. AnswersFit BY <1>1 DEF AnswersFit
<1>3. ResultShown BY <1>1 DEF ResultShown, Present
<1> QED BY <1>1, <1>2, <1>3 DEF ViewInv

\* The effect, for a page whose report, if it has one, is the one it names.
LEMMA EvaluateKeeps ==
  ASSUME ViewInv, NEW v, Evaluate(v), DOMAIN v = ViewFields, v.notFound \in BOOLEAN, v.loading \in BOOLEAN,
         v.error \in BOOLEAN, v.id = view.id, v.read = view.read, v.ask = view.ask,
         v.report # None => v.report = v.id, reads' \subseteq reads
  PROVE  ViewInv'
<1>1. CASE v.report # None /\ IsRange(v.choice)
  <2>1. /\ DOMAIN view' = ViewFields /\ view'.notFound = v.notFound /\ view'.loading = TRUE /\ view'.error = v.error
        /\ view'.asking = TRUE /\ view'.read = v.read /\ view'.ask = v.ask + 1 /\ view'.id = v.id
        /\ view'.report = v.report /\ view'.choice = v.choice
    BY <1>1 DEF Evaluate, ViewFields
  <2>2. PICK new : new = [n |-> v.ask + 1, id |-> v.report, choice |-> v.choice] OBVIOUS
  <2>3. results' = results \cup {new} /\ new.n = v.ask + 1 /\ new.id = v.id /\ new.choice = v.choice
    BY <1>1, <2>2 DEF Evaluate
  <2>4. AnswersFit' BY <2>1, <2>3 DEF ViewInv, AnswersFit, Counts
  <2>5. ResultShown' BY <1>1, <2>1 DEF ResultShown, Present
  <2> QED BY <2>1, <2>4, <2>5 DEF ViewInv
<1>2. CASE ~(v.report # None /\ IsRange(v.choice))
  <2>1. /\ DOMAIN view' = ViewFields /\ view'.notFound = v.notFound /\ view'.loading = v.loading
        /\ view'.error = v.error /\ view'.asking = FALSE /\ view'.read = v.read /\ view'.ask = v.ask
        /\ view'.id = v.id /\ view'.report = v.report /\ view'.choice = v.choice /\ results' = results
    BY <1>2 DEF Evaluate, ViewFields
  <2>2. AnswersFit' BY <2>1 DEF ViewInv, AnswersFit, Counts
  <2>3. ResultShown' BY <1>2, <2>1 DEF ResultShown, Present
  <2> QED BY <2>1, <2>2, <2>3 DEF ViewInv
<1> QED BY <1>1, <1>2

LEMMA ViewInvNext == ViewInv /\ (ViewNext \/ UNCHANGED viewVars) => ViewInv'
<1> SUFFICES ASSUME ViewInv, ViewNext \/ UNCHANGED viewVars PROVE ViewInv' OBVIOUS
<1>0. /\ DOMAIN view = ViewFields /\ view.notFound \in BOOLEAN /\ view.loading \in BOOLEAN
      /\ view.error \in BOOLEAN /\ view.asking \in BOOLEAN /\ view.read \in Nat /\ view.ask \in Nat
      /\ (view.report # None => view.report = view.id)
  BY DEF ViewInv, AnswersFit, ResultShown
<1>1. ASSUME NEW r, NEW choice, Navigate(r, choice) PROVE ViewInv'
  <2>1. /\ DOMAIN view' = ViewFields /\ view'.notFound = FALSE /\ view'.loading = view.loading
        /\ view'.error = FALSE /\ view'.asking = FALSE /\ view'.read = view.read + 1 /\ view'.ask = view.ask
        /\ view'.id = r /\ view'.report = None /\ results' = results
    BY <1>0, <1>1 DEF Navigate, Opened, ViewFields
  <2>2. PICK new : new = [n |-> view.read + 1, id |-> r] OBVIOUS
  <2>3. reads' = reads \cup {new} /\ new.n = view.read + 1 /\ new.id = r BY <1>1, <2>2 DEF Navigate
  <2>4. AnswersFit' BY <1>0, <2>1, <2>3 DEF ViewInv, AnswersFit, Counts
  <2>5. ResultShown' BY <2>1 DEF ResultShown, Present
  <2> QED BY <1>0, <2>1, <2>4, <2>5 DEF ViewInv
<1>2. ASSUME NEW q \in reads, ReportArrives(q), q.n = view.read PROVE ViewInv'
  <2> DEFINE v == [view EXCEPT !.report = q.id]
  <2>1. q.id = view.id BY <1>2 DEF ViewInv, AnswersFit
  <2>2. /\ DOMAIN v = ViewFields /\ v.notFound = view.notFound /\ v.loading = view.loading /\ v.error = view.error
        /\ v.id = view.id /\ v.read = view.read /\ v.ask = view.ask /\ v.report = view.id
    BY <1>0, <2>1 DEF ViewFields
  <2>3. Evaluate(v) /\ reads' \subseteq reads BY <1>2 DEF ReportArrives
  <2> HIDE DEF v
  <2> QED BY <1>0, <2>2, <2>3, EvaluateKeeps
<1>3. ASSUME NEW q \in reads, ReportFails(q), q.n = view.read PROVE ViewInv'
  <2>1. /\ DOMAIN view' = ViewFields /\ view'.loading = view.loading /\ view'.asking = view.asking
        /\ view'.read = view.read /\ view'.ask = view.ask /\ view'.id = view.id /\ view'.report = view.report
        /\ view'.choice = view.choice
        /\ \/ view'.notFound = TRUE /\ view'.error = view.error
           \/ view'.notFound = view.notFound /\ view'.error = TRUE
        /\ results' = results /\ reads' \subseteq reads
    BY <1>0, <1>3 DEF ReportFails, ViewFields
  <2>2. AnswersFit' BY <2>1 DEF ViewInv, AnswersFit, Counts
  <2>3. ResultShown' BY <1>0, <2>1 DEF ResultShown, Present
  <2>4. view'.notFound \in BOOLEAN /\ view'.error \in BOOLEAN BY <1>0, <2>1
  <2> QED BY <1>0, <2>1, <2>2, <2>3, <2>4 DEF ViewInv
<1>4. ASSUME view' = view, reads' \subseteq reads, results' \subseteq results PROVE ViewInv'
  BY <1>4 DEF ViewInv, AnswersFit, Counts, ResultShown, Present
<1>5. ASSUME NEW q \in reads, ReportArrives(q) \/ ReportFails(q), q.n # view.read PROVE ViewInv'
  BY <1>4, <1>5 DEF ReportArrives, ReportFails
<1>6. ASSUME NEW choice, SetChoice(choice) PROVE ViewInv'
  <2> DEFINE v == [view EXCEPT !.choice = choice]
  <2>1. /\ DOMAIN v = ViewFields /\ v.notFound = view.notFound /\ v.loading = view.loading /\ v.error = view.error
        /\ v.id = view.id /\ v.read = view.read /\ v.ask = view.ask /\ v.report = view.report
    BY <1>0 DEF ViewFields
  <2>2. Evaluate(v) /\ reads' \subseteq reads BY <1>6 DEF SetChoice
  <2> HIDE DEF v
  <2> QED BY <1>0, <2>1, <2>2, EvaluateKeeps
<1>7. CASE RefreshResult BY <1>0, <1>7, EvaluateKeeps DEF RefreshResult
<1>8. ASSUME NEW q \in results, ResultArrives(q), Counts(q) PROVE ViewInv'
  <2>1. q.id = view.id /\ q.choice = view.choice BY <1>8 DEF ViewInv, AnswersFit
  <2>2. /\ DOMAIN view' = ViewFields /\ view'.loading = FALSE /\ view'.asking = FALSE /\ view'.error = FALSE
        /\ view'.read = view.read /\ view'.ask = view.ask /\ view'.id = view.id /\ view'.report = view.report
        /\ view'.choice = view.choice /\ view'.notFound = view.notFound
        /\ view'.result = [of |-> view.id, choice |-> view.choice]
        /\ results' \subseteq results /\ reads' = reads
    BY <1>0, <1>8, <2>1 DEF ResultArrives, ViewFields
  <2>3. AnswersFit' BY <2>2 DEF ViewInv, AnswersFit, Counts
  <2>4. ResultShown' BY <1>0, <2>2 DEF ResultShown, Present
  <2> QED BY <1>0, <2>2, <2>3, <2>4 DEF ViewInv
<1>9. ASSUME NEW q \in results, ResultFails(q), Counts(q) PROVE ViewInv'
  <2>1. /\ DOMAIN view' = ViewFields /\ view'.loading = FALSE /\ view'.asking = FALSE
        /\ view'.read = view.read /\ view'.ask = view.ask /\ view'.id = view.id /\ view'.report = view.report
        /\ view'.choice = view.choice
        /\ \/ view'.notFound = TRUE /\ view'.error = view.error
           \/ view'.notFound = view.notFound /\ view'.error = TRUE
        /\ results' \subseteq results /\ reads' = reads
    BY <1>0, <1>9 DEF ResultFails, ViewFields
  <2>2. AnswersFit' BY <2>1 DEF ViewInv, AnswersFit, Counts
  <2>3. ResultShown' BY <1>0, <2>1 DEF ResultShown, Present
  <2>4. view'.notFound \in BOOLEAN /\ view'.error \in BOOLEAN BY <1>0, <2>1
  <2> QED BY <2>1, <2>2, <2>3, <2>4 DEF ViewInv
<1>10. ASSUME NEW q \in results, ResultArrives(q) \/ ResultFails(q), ~Counts(q) PROVE ViewInv'
  BY <1>4, <1>10 DEF ResultArrives, ResultFails
<1>11. CASE ChangeReport \/ ChangeReportFails
  <2>1. /\ DOMAIN view' = ViewFields /\ view'.loading = view.loading /\ view'.asking = view.asking
        /\ view'.read = view.read /\ view'.ask = view.ask /\ view'.id = view.id /\ view'.report = view.report
        /\ view'.choice = view.choice /\ view'.notFound = view.notFound /\ view'.result = view.result
        /\ view'.error \in {view.error, TRUE} /\ results' = results /\ reads' = reads
    BY <1>0, <1>11 DEF ChangeReport, ChangeReportFails, ViewFields
  <2>2. AnswersFit' BY <2>1 DEF ViewInv, AnswersFit, Counts
  <2>3. ResultShown' BY <1>0, <2>1 DEF ViewInv, ResultShown, Present
  <2>4. view'.error \in BOOLEAN BY <1>0, <2>1
  <2> QED BY <1>0, <2>1, <2>2, <2>3, <2>4 DEF ViewInv
<1>12. CASE UNCHANGED viewVars BY <1>4, <1>12 DEF viewVars
<1> QED BY <1>1, <1>2, <1>3, <1>5, <1>6, <1>7, <1>8, <1>9, <1>10, <1>11, <1>12 DEF ViewNext

-----------------------------------------------------------------------------
(* The feedback page                                                       *)

FeedbackFields == {"site", "survey", "list", "rows", "failed", "campaigns", "pending", "deleting"}
DialogFields   == {"open", "n", "for", "draft", "loading", "saving"}

\* A request of responses knows what it was asked for, and carries nothing else.
ListFits(q) ==
  /\ q = [kind |-> "list", n |-> q.n, site |-> q.site, survey |-> q.survey, rows |-> q.rows]
  /\ q.n \in Nat /\ q.n <= feedback.list
  /\ Chosen(q) => q.site = feedback.site /\ q.survey = feedback.survey
  /\ q.rows # None => q.rows \subseteq Selected(q.site, q.survey)

\* A request of the campaign of a dialog, which may be closed.
CampaignFits(q) ==
  /\ q.n \in Nat /\ q.n <= dialog.n
  /\ Mounted(q) => q.id = dialog.for

\* A save carries the campaign it is of.
SaveFits(q) ==
  q = [kind |-> "save", n |-> q.n, of |-> q.of, fields |-> q.fields, for |-> q.for, stored |-> q.stored]

CallsFit == \A q \in calls : /\ q.kind = "list" => ListFits(q)
                             /\ q.kind = "campaign" => CampaignFits(q)
                             /\ q.kind = "save" => SaveFits(q)

FeedbackInv ==
  /\ DOMAIN feedback = FeedbackFields /\ DOMAIN dialog = DialogFields
  /\ feedback.list \in Nat /\ feedback.failed \in BOOLEAN /\ dialog.n \in Nat /\ dialog.open \in BOOLEAN
  /\ feedback.pending # None => feedback.rows # None
  /\ feedback.deleting \in BOOLEAN /\ (feedback.deleting => feedback.pending # None)
  /\ CallsFit /\ ResponsesOfChoice /\ SavesItsCampaign
LEMMA FeedbackInitInv == FeedbackOpens => FeedbackInv
<1> SUFFICES ASSUME FeedbackOpens PROVE FeedbackInv OBVIOUS
<1>1. /\ DOMAIN feedback = FeedbackFields /\ feedback.list = 1 /\ feedback.failed = FALSE
      /\ feedback.pending = None /\ feedback.deleting = FALSE /\ feedback.rows = None
      /\ feedback.site = None /\ feedback.survey = None
  BY DEF FeedbackOpens, FeedbackFields
<1>2. /\ DOMAIN dialog = DialogFields /\ dialog.n = 0 /\ dialog.open = FALSE
  BY DEF FeedbackOpens, Closed, DialogFields
<1>3. CallsFit
  <2>1. ListCall(feedback).kind = "list" /\ CampaignsCall(feedback).kind = "campaigns"
    BY DEF ListCall, CampaignsCall
  <2>2. ListFits(ListCall(feedback)) BY <1>1 DEF ListCall, ListFits, Chosen
  <2>3. calls = {ListCall(feedback), CampaignsCall(feedback)} BY DEF FeedbackOpens
  <2> QED BY <2>1, <2>2, <2>3 DEF CallsFit
<1>4. ResponsesOfChoice BY <1>1 DEF ResponsesOfChoice
<1>5. SavesItsCampaign
  <2>1. ListCall(feedback).kind = "list" /\ CampaignsCall(feedback).kind = "campaigns"
    BY DEF ListCall, CampaignsCall
  <2>2. calls = {ListCall(feedback), CampaignsCall(feedback)} BY DEF FeedbackOpens
  <2> QED BY <1>2, <2>1, <2>2 DEF SavesItsCampaign
<1>6. feedback.failed \in BOOLEAN /\ feedback.deleting \in BOOLEAN /\ dialog.open \in BOOLEAN BY <1>1, <1>2
<1> QED BY <1>1, <1>2, <1>3, <1>4, <1>5, <1>6 DEF FeedbackInv

\* A step that leaves the page's choices and the dialog alone, and takes a
\* call away or adds one that fits.
LEMMA CallsStay ==
  ASSUME FeedbackInv, feedback'.list = feedback.list, feedback'.site = feedback.site,
         feedback'.survey = feedback.survey, dialog'.n = dialog.n, dialog'.open => dialog.open,
         dialog'.open => dialog'.for = dialog.for,
         NEW q \in calls, q \in calls' => q \in calls
  PROVE  /\ q.kind = "list" => ListFits(q)'
         /\ q.kind = "campaign" => CampaignFits(q)'
         /\ q.kind = "save" => SaveFits(q)'
BY DEF FeedbackInv, CallsFit, ListFits, CampaignFits, SaveFits, Chosen, Mounted, Selected

\* Nothing but the calls and the dialog changes: the rows stay the right ones
\* while every list that counts is still on its way.
LEMMA RowsStay ==
  ASSUME FeedbackInv, feedback'.list = feedback.list, feedback'.site = feedback.site,
         feedback'.survey = feedback.survey, feedback'.rows = feedback.rows, feedback'.failed = feedback.failed,
         \A q \in calls : q.kind = "list" /\ Chosen(q) => \E p \in calls' : p.kind = "list" /\ p.n = q.n
  PROVE  ResponsesOfChoice'
BY DEF FeedbackInv, ResponsesOfChoice, Chosen, Selected

LEMMA FeedbackInvNext == FeedbackInv /\ (FeedbackNext \/ UNCHANGED feedbackVars) => FeedbackInv'
<1> SUFFICES ASSUME FeedbackInv, FeedbackNext \/ UNCHANGED feedbackVars PROVE FeedbackInv' OBVIOUS
<1>0. /\ DOMAIN feedback = FeedbackFields /\ DOMAIN dialog = DialogFields
      /\ feedback.list \in Nat /\ feedback.failed \in BOOLEAN /\ dialog.n \in Nat /\ dialog.open \in BOOLEAN
      /\ (feedback.pending # None => feedback.rows # None)
      /\ feedback.deleting \in BOOLEAN /\ (feedback.deleting => feedback.pending # None)
      /\ (dialog.open /\ dialog.draft # None => dialog.draft.of = dialog.for)
      /\ \A q \in calls : q.kind = "save" => q.fields.of = q.of
  BY DEF FeedbackInv, SavesItsCampaign
<1>1. ASSUME NEW site, NEW survey, SetChoices(site, survey) PROVE FeedbackInv'
  <2>1. /\ DOMAIN feedback' = FeedbackFields /\ feedback'.site = site /\ feedback'.survey = survey
        /\ feedback'.list = feedback.list + 1 /\ feedback'.failed = FALSE /\ feedback'.pending = feedback.pending
        /\ feedback'.rows = feedback.rows /\ feedback'.deleting = feedback.deleting /\ dialog' = dialog
    BY <1>0, <1>1 DEF SetChoices, FeedbackFields
  <2>2. PICK new : new = ListCall(feedback)' OBVIOUS
  <2>3. PICK other : other = CampaignsCall(feedback)' OBVIOUS
  <2>4. /\ new = [kind |-> "list", n |-> feedback.list + 1, site |-> site, survey |-> survey, rows |-> None]
        /\ other.kind = "campaigns"
    BY <2>1, <2>2, <2>3 DEF ListCall, CampaignsCall
  <2>5. /\ calls' \subseteq calls \cup {new, other} /\ new \in calls' BY <1>1, <2>2, <2>3 DEF SetChoices
  <2>6. ListFits(new)' BY <1>0, <2>1, <2>4 DEF ListFits, Chosen
  <2>7. ASSUME NEW q \in calls
        PROVE  /\ q.kind = "list" => ListFits(q)'
               /\ q.kind = "campaign" => CampaignFits(q)'
               /\ q.kind = "save" => SaveFits(q)'
    <3>1. /\ q.kind = "list" => ListFits(q)
          /\ q.kind = "campaign" => CampaignFits(q)
          /\ q.kind = "save" => SaveFits(q)'
      BY DEF FeedbackInv, CallsFit, SaveFits
    <3>2. CampaignFits(q) => CampaignFits(q)' BY <2>1 DEF CampaignFits, Mounted
    <3>3. ListFits(q) => ListFits(q)' BY <1>0, <2>1 DEF ListFits, Chosen, Selected
    <3> QED BY <3>1, <3>2, <3>3
  <2>8. new.kind = "list" /\ new.n = feedback'.list BY <2>1, <2>4
  <2>9. CallsFit' BY <2>4, <2>5, <2>6, <2>7, <2>8 DEF CallsFit
  <2>10. ResponsesOfChoice' BY <2>5, <2>8 DEF ResponsesOfChoice, Chosen
  <2>11. SavesItsCampaign' BY <1>0, <2>1, <2>4, <2>5, <2>8 DEF SavesItsCampaign
  <2>12. feedback'.failed \in BOOLEAN BY <2>1
  <2> QED BY <1>0, <2>1, <2>9, <2>10, <2>11, <2>12 DEF FeedbackInv
<1>2. ASSUME NEW q \in calls, ServeList(q) PROVE FeedbackInv'
  <2>1. feedback' = feedback /\ dialog' = dialog /\ q.kind = "list" BY <1>2 DEF ServeList
  <2>2. PICK rows : rows = Selected(q.site, q.survey) \cap given OBVIOUS
  <2>3. q = [kind |-> "list", n |-> q.n, site |-> q.site, survey |-> q.survey, rows |-> q.rows] /\ ListFits(q)
    BY <2>1 DEF FeedbackInv, CallsFit, ListFits
  <2>4. PICK new : new = [q EXCEPT !.rows = rows] OBVIOUS
  <2>5. new = [kind |-> "list", n |-> q.n, site |-> q.site, survey |-> q.survey, rows |-> rows] BY <2>3, <2>4
  <2>6. calls' = (calls \ {q}) \cup {new} BY <1>2, <2>2, <2>4 DEF ServeList
  <2>7. ListFits(new)' BY <1>0, <2>1, <2>2, <2>3, <2>5 DEF ListFits, Chosen, Selected
  <2>8. new.kind = "list" /\ new.n = q.n BY <2>5
  <2>9. CallsFit' BY <2>1, <2>6, <2>7, <2>8, CallsStay DEF CallsFit
  <2>10. ResponsesOfChoice' BY <2>1, <2>6, <2>8, RowsStay
  <2>11. SavesItsCampaign' BY <1>0, <2>1, <2>6, <2>8 DEF SavesItsCampaign
  <2> QED BY <1>0, <2>1, <2>9, <2>10, <2>11 DEF FeedbackInv
<1>3. ASSUME NEW q \in calls, ListShown(q) \/ ListFails(q), Chosen(q) PROVE FeedbackInv'
  <2>1. /\ DOMAIN feedback' = FeedbackFields /\ feedback'.site = feedback.site /\ feedback'.survey = feedback.survey
        /\ feedback'.list = feedback.list /\ feedback'.pending = feedback.pending
        /\ feedback'.deleting = feedback.deleting /\ dialog' = dialog /\ calls' = calls \ {q}
        /\ \/ feedback'.rows = q.rows /\ q.rows # None /\ feedback'.failed = feedback.failed
           \/ feedback'.rows = feedback.rows /\ feedback'.failed = TRUE
    BY <1>0, <1>3 DEF ListShown, ListFails, FeedbackFields
  <2>2. q.rows # None => q.rows \subseteq Selected(feedback.site, feedback.survey)
    BY <1>3 DEF ListShown, ListFails, FeedbackInv, CallsFit, ListFits
  <2>3. CallsFit' BY <2>1, CallsStay DEF CallsFit
  <2>4. ResponsesOfChoice' BY <2>1, <2>2 DEF ResponsesOfChoice, Selected
  <2>5. SavesItsCampaign' BY <1>0, <2>1 DEF SavesItsCampaign
  <2>6. feedback'.failed \in BOOLEAN /\ (feedback'.pending # None => feedback'.rows # None) BY <1>0, <2>1
  <2> QED BY <1>0, <2>1, <2>3, <2>4, <2>5, <2>6 DEF FeedbackInv
\* Whatever a call does that is no list in force and no campaign in its dialog.
<1>4. ASSUME NEW q \in calls, ~(q.kind = "list" /\ Chosen(q)), calls' = calls \ {q},
             DOMAIN feedback' = FeedbackFields, feedback'.site = feedback.site, feedback'.survey = feedback.survey,
             feedback'.list = feedback.list, feedback'.pending = feedback.pending, feedback'.rows = feedback.rows,
             feedback'.deleting = feedback.deleting, feedback'.failed = feedback.failed,
             DOMAIN dialog' = DialogFields, dialog'.n = dialog.n, dialog'.open \in BOOLEAN,
             dialog'.open => /\ dialog.open /\ dialog'.for = dialog.for
                             /\ dialog'.draft \in {dialog.draft, FieldsOf(dialog.for)}
      PROVE  FeedbackInv'
  <2>1. CallsFit' BY <1>4, CallsStay DEF CallsFit
  <2>2. ResponsesOfChoice' BY <1>4, RowsStay
  <2>3. FieldsOf(dialog.for).of = dialog.for BY DEF FieldsOf
  <2>4. SavesItsCampaign' BY <1>0, <1>4, <2>3 DEF SavesItsCampaign
  <2> QED BY <1>0, <1>4, <2>1, <2>2, <2>4 DEF FeedbackInv
<1>5. ASSUME NEW q \in calls, ListShown(q) \/ ListFails(q), ~Chosen(q) PROVE FeedbackInv'
  <2>1. feedback' = feedback /\ dialog' = dialog /\ calls' = calls \ {q} BY <1>5 DEF ListShown, ListFails
  <2> QED BY <1>0, <1>4, <1>5, <2>1
<1>6. ASSUME NEW q \in calls, CampaignsShown(q) PROVE FeedbackInv'
  <2>1. /\ DOMAIN feedback' = FeedbackFields /\ feedback'.site = feedback.site /\ feedback'.survey = feedback.survey
        /\ feedback'.list = feedback.list /\ feedback'.pending = feedback.pending /\ feedback'.rows = feedback.rows
        /\ feedback'.deleting = feedback.deleting /\ feedback'.failed = feedback.failed
        /\ dialog' = dialog /\ calls' = calls \ {q} /\ q.kind # "list"
    BY <1>0, <1>6 DEF CampaignsShown, FeedbackFields
  <2> QED BY <1>0, <1>4, <2>1
<1>7. ASSUME NEW q \in calls, CampaignLoads(q) PROVE FeedbackInv'
  <2>1. Mounted(q) => q.id = dialog.for BY <1>7 DEF CampaignLoads, FeedbackInv, CallsFit, CampaignFits
  <2>2. /\ DOMAIN dialog' = DialogFields /\ dialog'.n = dialog.n /\ dialog'.open = dialog.open
        /\ dialog'.for = dialog.for /\ dialog'.draft \in {dialog.draft, FieldsOf(dialog.for)}
        /\ feedback' = feedback /\ calls' = calls \ {q} /\ q.kind # "list"
    BY <1>0, <1>7, <2>1 DEF CampaignLoads, DialogFields
  <2> QED BY <1>0, <1>4, <2>2
<1>8. ASSUME NEW q \in calls, SaveCampaignFails(q) PROVE FeedbackInv'
  <2>1. /\ DOMAIN dialog' = DialogFields /\ dialog'.n = dialog.n /\ dialog'.open = dialog.open
        /\ dialog'.for = dialog.for /\ dialog'.draft = dialog.draft
        /\ feedback' = feedback /\ calls' = calls \ {q} /\ q.kind # "list"
    BY <1>0, <1>8 DEF SaveCampaignFails, DialogFields
  <2> QED BY <1>0, <1>4, <2>1
<1>9. ASSUME NEW q \in calls, SaveEnds(q) PROVE FeedbackInv'
  <2>1. /\ DOMAIN feedback' = FeedbackFields /\ feedback'.site = feedback.site /\ feedback'.survey = feedback.survey
        /\ feedback'.list = feedback.list /\ feedback'.pending = feedback.pending /\ feedback'.rows = feedback.rows
        /\ feedback'.deleting = feedback.deleting /\ feedback'.failed = feedback.failed
        /\ calls' = calls \ {q} /\ q.kind # "list"
    BY <1>0, <1>9 DEF SaveEnds, FeedbackFields
  <2>2. DOMAIN dialog' = DialogFields /\ dialog'.n = dialog.n /\ dialog'.open = FALSE
    BY <1>9 DEF SaveEnds, Closed, DialogFields
  <2> QED BY <1>4, <2>1, <2>2
<1>10. ASSUME NEW q \in calls, CampaignStored(q) PROVE FeedbackInv'
  <2>1. /\ feedback' = feedback /\ dialog' = dialog /\ q.kind = "save" /\ q.fields.of = q.of
        /\ q = [kind |-> "save", n |-> q.n, of |-> q.of, fields |-> q.fields, for |-> q.for, stored |-> q.stored]
    BY <1>0, <1>10 DEF CampaignStored, FeedbackInv, CallsFit, SaveFits
  <2>2. PICK new : new = [q EXCEPT !.stored = TRUE] OBVIOUS
  <2>3. new = [kind |-> "save", n |-> q.n, of |-> q.of, fields |-> q.fields, for |-> q.for, stored |-> TRUE]
    BY <2>1, <2>2
  <2>4. calls' = (calls \ {q}) \cup {new} BY <1>10, <2>2 DEF CampaignStored
  <2>5. new.kind = "save" /\ new.fields.of = new.of /\ SaveFits(new)' BY <2>1, <2>3 DEF SaveFits
  <2>6. CallsFit' BY <2>1, <2>4, <2>5, CallsStay DEF CallsFit
  <2>7. ResponsesOfChoice' BY <2>1, <2>4, RowsStay
  <2>8. SavesItsCampaign' BY <1>0, <2>1, <2>4, <2>5 DEF SavesItsCampaign
  <2> QED BY <1>0, <2>1, <2>6, <2>7, <2>8 DEF FeedbackInv
\* The questions and answers about a response.
<1>11. ASSUME calls' = calls, dialog' = dialog,
              DOMAIN feedback' = FeedbackFields, feedback'.site = feedback.site, feedback'.survey = feedback.survey,
              feedback'.list = feedback.list, feedback'.failed = feedback.failed, feedback'.deleting \in BOOLEAN,
              feedback'.deleting => feedback'.pending # None,
              feedback'.pending # None => feedback'.rows # None,
              feedback'.rows = feedback.rows \/ (feedback.rows # None /\ feedback'.rows \subseteq feedback.rows)
       PROVE  FeedbackInv'
  <2>1. CallsFit' BY <1>11, CallsStay DEF CallsFit
  <2>2. ResponsesOfChoice' BY <1>11 DEF FeedbackInv, ResponsesOfChoice, Chosen, Selected
  <2>3. SavesItsCampaign' BY <1>0, <1>11 DEF SavesItsCampaign
  <2> QED BY <1>0, <1>11, <2>1, <2>2, <2>3 DEF FeedbackInv
<1>12. ASSUME NEW r, AskDeletion(r) PROVE FeedbackInv'
  <2>1. /\ DOMAIN feedback' = FeedbackFields /\ feedback'.site = feedback.site /\ feedback'.survey = feedback.survey
        /\ feedback'.list = feedback.list /\ feedback'.rows = feedback.rows /\ feedback.rows # None
        /\ feedback'.deleting = feedback.deleting /\ feedback'.failed = feedback.failed
        /\ dialog' = dialog /\ calls' = calls /\ ~feedback.deleting
    BY <1>0, <1>12 DEF AskDeletion, Covered, FeedbackFields
  <2> QED BY <1>0, <1>11, <2>1
<1>13. CASE KeepResponse
  <2>1. /\ DOMAIN feedback' = FeedbackFields /\ feedback'.site = feedback.site /\ feedback'.survey = feedback.survey
        /\ feedback'.list = feedback.list /\ feedback'.rows = feedback.rows /\ feedback'.pending = None
        /\ feedback'.deleting = feedback.deleting /\ feedback'.failed = feedback.failed
        /\ dialog' = dialog /\ calls' = calls /\ ~feedback.deleting
    BY <1>0, <1>13 DEF KeepResponse, FeedbackFields
  <2> QED BY <1>0, <1>11, <2>1
<1>14. CASE DeleteResponse
  <2>1. /\ DOMAIN feedback' = FeedbackFields /\ feedback'.site = feedback.site /\ feedback'.survey = feedback.survey
        /\ feedback'.list = feedback.list /\ feedback'.rows = feedback.rows /\ feedback'.pending = feedback.pending
        /\ feedback'.deleting = TRUE /\ feedback'.failed = feedback.failed
        /\ dialog' = dialog /\ calls' = calls /\ feedback.pending # None
    BY <1>0, <1>14 DEF DeleteResponse, FeedbackFields
  <2> QED BY <1>0, <1>11, <2>1
<1>15. ASSUME NEW reaches, NEW answered, DeletionEnds(reaches, answered) PROVE FeedbackInv'
  <2>1. /\ DOMAIN feedback' = FeedbackFields /\ feedback'.site = feedback.site /\ feedback'.survey = feedback.survey
        /\ feedback'.list = feedback.list /\ feedback'.failed = feedback.failed /\ feedback'.deleting = FALSE
        /\ \/ feedback'.rows = feedback.rows /\ feedback'.pending = feedback.pending
           \/ feedback'.rows = feedback.rows \ {feedback.pending} /\ feedback'.pending = None
        /\ dialog' = dialog /\ calls' = calls /\ feedback.deleting
    BY <1>0, <1>15 DEF DeletionEnds, FeedbackFields
  <2> QED BY <1>0, <1>11, <2>1
<1>16. ASSUME NEW site, AddCampaign(site) PROVE FeedbackInv'
  <2>1. /\ DOMAIN dialog' = DialogFields /\ dialog'.n = dialog.n + 1 /\ dialog'.open = TRUE /\ dialog'.for = New
        /\ dialog'.draft.of = New /\ feedback' = feedback /\ calls' = calls
    BY <1>16 DEF AddCampaign, Blank, DialogFields
  <2>2. ASSUME NEW q \in calls
        PROVE  /\ q.kind = "list" => ListFits(q)'
               /\ q.kind = "campaign" => CampaignFits(q)'
               /\ q.kind = "save" => SaveFits(q)'
    <3>1. /\ q.kind = "list" => ListFits(q)
          /\ q.kind = "campaign" => CampaignFits(q)
          /\ q.kind = "save" => SaveFits(q)'
      BY DEF FeedbackInv, CallsFit, SaveFits
    <3>2. CampaignFits(q) => CampaignFits(q)' BY <1>0, <2>1 DEF CampaignFits, Mounted
    <3>3. ListFits(q) => ListFits(q)' BY <1>0, <2>1 DEF ListFits, Chosen, Selected
    <3> QED BY <3>1, <3>2, <3>3
  <2>3. CallsFit' BY <2>1, <2>2 DEF CallsFit
  <2>4. ResponsesOfChoice' BY <2>1, RowsStay
  <2>5. SavesItsCampaign' BY <1>0, <2>1 DEF SavesItsCampaign
  <2>6. dialog'.open \in BOOLEAN /\ dialog'.n \in Nat
    <3>1. dialog'.open \in BOOLEAN BY <2>1
    <3>2. dialog'.n \in Nat BY <1>0, <2>1
    <3> QED BY <3>1, <3>2
  <2> QED BY <1>0, <2>1, <2>3, <2>4, <2>5, <2>6 DEF FeedbackInv
<1>17. ASSUME NEW c, EditCampaign(c) PROVE FeedbackInv'
  <2>1. /\ DOMAIN dialog' = DialogFields /\ dialog'.n = dialog.n + 1 /\ dialog'.open = TRUE /\ dialog'.for = c
        /\ dialog'.draft = None /\ feedback' = feedback
    BY <1>17 DEF EditCampaign, DialogFields
  <2>2. PICK new : new = [kind |-> "campaign", n |-> dialog.n + 1, id |-> c] OBVIOUS
  <2>3. calls' = calls \cup {new} /\ new.kind = "campaign" /\ new.n = dialog.n + 1 /\ new.id = c
    BY <1>17, <2>2 DEF EditCampaign
  <2>4. ASSUME NEW q \in calls
        PROVE  /\ q.kind = "list" => ListFits(q)'
               /\ q.kind = "campaign" => CampaignFits(q)'
               /\ q.kind = "save" => SaveFits(q)'
    <3>1. /\ q.kind = "list" => ListFits(q)
          /\ q.kind = "campaign" => CampaignFits(q)
          /\ q.kind = "save" => SaveFits(q)'
      BY DEF FeedbackInv, CallsFit, SaveFits
    <3>2. CampaignFits(q) => CampaignFits(q)' BY <1>0, <2>1 DEF CampaignFits, Mounted
    <3>3. ListFits(q) => ListFits(q)' BY <1>0, <2>1 DEF ListFits, Chosen, Selected
    <3> QED BY <3>1, <3>2, <3>3
  <2>5. CampaignFits(new)' BY <1>0, <2>1, <2>3 DEF CampaignFits, Mounted
  <2>6. CallsFit' BY <2>3, <2>4, <2>5 DEF CallsFit
  <2>7. ResponsesOfChoice' BY <2>1, <2>3, RowsStay
  <2>8. SavesItsCampaign' BY <1>0, <2>1, <2>3 DEF SavesItsCampaign
  <2>9. dialog'.open \in BOOLEAN /\ dialog'.n \in Nat
    <3>1. dialog'.open \in BOOLEAN BY <2>1
    <3>2. dialog'.n \in Nat BY <1>0, <2>1
    <3> QED BY <3>1, <3>2
  <2> QED BY <1>0, <2>1, <2>6, <2>7, <2>8, <2>9 DEF FeedbackInv
<1>18. CASE CloseDialog
  <2>1. /\ DOMAIN dialog' = DialogFields /\ dialog'.n = dialog.n /\ dialog'.open = FALSE
        /\ feedback' = feedback /\ calls' = calls
    BY <1>18 DEF CloseDialog, Closed, DialogFields
  <2>2. CallsFit' BY <2>1, CallsStay DEF CallsFit
  <2>3. ResponsesOfChoice' BY <2>1, RowsStay
  <2>4. SavesItsCampaign' BY <1>0, <2>1 DEF SavesItsCampaign
  <2> QED BY <1>0, <2>1, <2>2, <2>3, <2>4 DEF FeedbackInv
<1>19. CASE SaveCampaign
  <2>1. /\ DOMAIN dialog' = DialogFields /\ dialog'.n = dialog.n /\ dialog'.open = dialog.open /\ dialog.open
        /\ dialog'.for = dialog.for /\ dialog'.draft = dialog.draft /\ dialog.draft # None /\ feedback' = feedback
    BY <1>0, <1>19 DEF SaveCampaign, DialogFields
  <2>2. PICK new : new = [kind |-> "save", n |-> dialog.n, of |-> dialog.for, fields |-> dialog.draft,
                          for |-> feedback.site, stored |-> FALSE] OBVIOUS
  <2>3. calls' = calls \cup {new} BY <1>19, <2>2 DEF SaveCampaign
  <2>4. new.kind = "save" /\ new.fields.of = new.of /\ SaveFits(new)' BY <1>0, <2>1, <2>2 DEF SaveFits
  <2>5. CallsFit' BY <2>1, <2>3, <2>4, CallsStay DEF CallsFit
  <2>6. ResponsesOfChoice' BY <2>1, <2>3, RowsStay
  <2>7. SavesItsCampaign' BY <1>0, <2>1, <2>3, <2>4 DEF SavesItsCampaign
  <2> QED BY <1>0, <2>1, <2>5, <2>6, <2>7 DEF FeedbackInv
<1>20. CASE UNCHANGED feedbackVars
  <2>1. feedback' = feedback /\ dialog' = dialog /\ calls' = calls BY <1>20 DEF feedbackVars
  <2> QED BY <1>0, <1>11, <2>1
<1> QED BY <1>1, <1>2, <1>3, <1>5, <1>6, <1>7, <1>8, <1>9, <1>10, <1>12, <1>13, <1>14, <1>15, <1>16, <1>17,
          <1>18, <1>19, <1>20 DEF FeedbackNext
-----------------------------------------------------------------------------
(* The list of reports                                                     *)

\* The sequence made of a finite set has its elements and no others.
LEMMA SequenceOfSet ==
  ASSUME NEW S, IsFiniteSet(S)
  PROVE  /\ SetToSeq(S) \in Seq(S) /\ ToSet(SetToSeq(S)) = S
         /\ Len(SetToSeq(S)) \in Nat /\ DOMAIN SetToSeq(S) = 1..Len(SetToSeq(S))
         /\ S = {} <=> Len(SetToSeq(S)) = 0
<1> DEFINE n == Cardinality(S)
           s == SetToSeq(S)
<1>1. n \in Nat /\ ExistsBijection(1..n, S) BY FS_CardinalityType
<1>2. PICK f \in [1..n -> S] : IsInjective(f) BY <1>1 DEF ExistsBijection, Bijection, Injection
<1>3. s \in [1..n -> S] /\ IsInjective(s) BY <1>2 DEF SetToSeq
<1>4. s \in Injection(1..n, S) BY <1>3 DEF Injection
<1>5. Cardinality(1..n) = n /\ IsFiniteSet(1..n) BY <1>1, FS_Interval
<1> HIDE DEF s
<1>6. s \in Surjection(1..n, S) BY <1>4, <1>5, FS_Injection
<1>7. s \in Seq(S) /\ Len(s) = n /\ DOMAIN s = 1..n BY <1>1, <1>3
<1>8. ToSet(s) = S BY <1>3, <1>6, <1>7 DEF ToSet, Surjection
<1>9. S = {} <=> n = 0 BY <1>1, FS_EmptySet
<1> QED BY <1>1, <1>7, <1>8, <1>9 DEF s

\* The cards a pool of workers is before.
Before(p) == p.hand \cup ToSet(p.ahead)

PoolFits(p) == /\ p = [ahead |-> p.ahead, hand |-> p.hand]
               /\ p.ahead \in Seq(Before(p)) /\ p.hand # {}

LEMMA PoolOfCards ==
  ASSUME NEW S, IsFiniteSet(S), S # {}
  PROVE  /\ SetToSeq(S) # << >>
         /\ PoolFits(PoolOf(SetToSeq(S))) /\ Before(PoolOf(SetToSeq(S))) = S
<1> DEFINE s == SetToSeq(S)
           k == IF Len(s) < SUMMARY_CONCURRENCY THEN Len(s) ELSE SUMMARY_CONCURRENCY
           p == PoolOf(s)
<1>1. /\ s \in Seq(S) /\ ToSet(s) = S /\ Len(s) \in Nat /\ Len(s) # 0 /\ DOMAIN s = 1..Len(s)
  BY SequenceOfSet
<1>2. SUMMARY_CONCURRENCY \in Nat \ {0} BY ReportLibraryAssumption
<1> HIDE DEF s
<1>3. k \in 1..Len(s) BY <1>1, <1>2
<1>4. p = [ahead |-> SubSeq(s, k + 1, Len(s)), hand |-> {s[i] : i \in 1..k}] BY DEF PoolOf
<1> HIDE DEF k, p
<1>5. PICK ahead : ahead = SubSeq(s, k + 1, Len(s)) OBVIOUS
<1>6. /\ ahead \in Seq(S) /\ Len(ahead) = Len(s) - k /\ Len(ahead) \in Nat
      /\ \A i \in 1..Len(ahead) : ahead[i] = s[k + i]
  BY <1>1, <1>3, <1>5
<1>7. DOMAIN ahead = 1..Len(ahead) BY <1>6
<1>8. {s[i] : i \in 1..k} \cup ToSet(ahead) = S
  <2>1. \A i \in 1..Len(ahead) : ahead[i] \in S BY <1>6
  <2>2. \A i \in 1..k : s[i] \in S BY <1>1, <1>3
  <2>3. ASSUME NEW x \in S PROVE x \in {s[i] : i \in 1..k} \cup ToSet(ahead)
    <3>1. PICK i \in 1..Len(s) : x = s[i] BY <1>1 DEF ToSet
    <3>2. CASE i <= k BY <1>3, <3>1, <3>2
    <3>3. CASE i > k
      <4>1. i - k \in 1..Len(ahead) /\ k + (i - k) = i BY <1>1, <1>3, <1>6, <3>1, <3>3
      <4> QED BY <1>6, <1>7, <3>1, <4>1 DEF ToSet
    <3> QED BY <1>1, <1>3, <3>1, <3>2, <3>3
  <2> QED BY <1>7, <2>1, <2>2, <2>3 DEF ToSet
<1>9. p.ahead = ahead /\ p.hand = {s[i] : i \in 1..k} /\ p = [ahead |-> p.ahead, hand |-> p.hand]
  BY <1>4, <1>5
<1>10. s[1] \in p.hand BY <1>3, <1>9
<1>11. Before(p) = S BY <1>8, <1>9 DEF Before
<1>12. PoolFits(p) BY <1>6, <1>9, <1>10, <1>11 DEF PoolFits
<1>13. s # << >> BY <1>1
<1> QED BY <1>11, <1>12, <1>13 DEF p, s

\* A worker that takes its next card leaves none behind but the one it had.
LEMMA NextKeepsCards ==
  ASSUME NEW p, PoolFits(p), NEW c \in p.hand
  PROVE  LET rest == NextInHand(p, c) IN
         /\ Before(rest) \subseteq Before(p) /\ Before(p) \ {c} \subseteq Before(rest)
         /\ ~(rest.hand = {} /\ rest.ahead = << >>) => PoolFits(rest)
         /\ rest.hand = {} /\ rest.ahead = << >> => Before(rest) = {}
<1> DEFINE rest == NextInHand(p, c)
<1>1. /\ p.ahead \in Seq(Before(p)) /\ p = [ahead |-> p.ahead, hand |-> p.hand]
      /\ Before(p) = p.hand \cup ToSet(p.ahead)
  BY DEF PoolFits, Before
<1>2. CASE p.ahead = << >>
  <2>1. rest.ahead = << >> /\ rest.hand = p.hand \ {c} /\ rest = [ahead |-> rest.ahead, hand |-> rest.hand]
    BY <1>1, <1>2 DEF NextInHand
  <2>2. ToSet(<< >>) = {} BY DEF ToSet
  <2> HIDE DEF rest
  <2>3. Before(rest) = p.hand \ {c} /\ Before(p) = p.hand BY <1>1, <1>2, <2>1, <2>2 DEF Before
  <2>4. << >> \in Seq(Before(rest)) OBVIOUS
  <2>5. rest.hand # {} => PoolFits(rest) BY <2>1, <2>4 DEF PoolFits
  <2>6. rest.hand = {} => Before(rest) = {} BY <2>1, <2>3
  <2> QED BY <2>1, <2>3, <2>5, <2>6 DEF rest
<1>3. CASE p.ahead # << >>
  <2>1. /\ rest.ahead = Tail(p.ahead) /\ rest.hand = (p.hand \ {c}) \cup {Head(p.ahead)}
        /\ rest = [ahead |-> rest.ahead, hand |-> rest.hand]
    BY <1>3 DEF NextInHand
  <2> HIDE DEF rest
  <2>2. PICK a : a = p.ahead OBVIOUS
  <2>3. PICK T : T = Before(p) OBVIOUS
  <2>4. a \in Seq(T) /\ a # << >> BY <1>1, <1>3, <2>2, <2>3
  <2>5. /\ Len(a) \in Nat \ {0} /\ Head(a) = a[1] /\ Len(Tail(a)) = Len(a) - 1 /\ Tail(a) \in Seq(T)
        /\ \A i \in 1..Len(a) - 1 : Tail(a)[i] = a[i + 1]
    BY <2>4
  <2>6. DOMAIN a = 1..Len(a) /\ DOMAIN Tail(a) = 1..Len(a) - 1 BY <2>4, <2>5
  <2>7. ToSet(a) = {Head(a)} \cup ToSet(Tail(a))
    <3>1. ASSUME NEW i \in 1..Len(a) PROVE a[i] \in {Head(a)} \cup ToSet(Tail(a))
      <4>1. CASE i = 1 BY <2>5, <4>1
      <4>2. CASE i # 1
        <5>1. i - 1 \in 1..Len(a) - 1 /\ (i - 1) + 1 = i BY <2>5, <4>2
        <5> QED BY <2>5, <2>6, <5>1 DEF ToSet
      <4> QED BY <4>1, <4>2
    <3>2. ASSUME NEW i \in 1..Len(a) - 1 PROVE Tail(a)[i] \in ToSet(a)
      <4>1. i + 1 \in 1..Len(a) BY <2>5
      <4> QED BY <2>5, <2>6, <4>1 DEF ToSet
    <3>3. Head(a) \in ToSet(a) BY <2>5, <2>6 DEF ToSet
    <3> QED BY <2>6, <3>1, <3>2, <3>3 DEF ToSet
  <2>8. Before(rest) = (p.hand \ {c}) \cup ToSet(a) BY <2>1, <2>2, <2>7 DEF Before
  <2>9. Before(p) = p.hand \cup ToSet(a) BY <1>1, <2>2
  <2>10. rest.ahead \in Seq(Before(rest))
    <3>1. \A i \in 1..Len(a) - 1 : Tail(a)[i] \in Before(rest) BY <2>6, <2>7, <2>8 DEF ToSet
    <3>2. PICK t : t = Tail(a) OBVIOUS
    <3>3. PICK B : B = Before(rest) OBVIOUS
    <3>4. t \in Seq(T) /\ Len(t) = Len(a) - 1 /\ Len(a) - 1 \in Nat /\ \A i \in 1..Len(t) : t[i] \in B
      BY <2>5, <3>1, <3>2, <3>3
    <3>5. t \in [1..Len(t) -> B] BY <3>4
    <3>6. t \in Seq(B) BY <3>4, <3>5
    <3> QED BY <2>1, <2>2, <3>2, <3>3, <3>6
  <2>11. rest.hand # {} BY <2>1
  <2>12. PoolFits(rest) BY <2>1, <2>10, <2>11 DEF PoolFits
  <2> QED BY <2>8, <2>9, <2>11, <2>12 DEF rest
<1> QED BY <1>2, <1>3
LibraryFields == {"filter", "load", "rows", "summaries", "pending", "busy", "deleted"}

\* A request knows its filter, and its rows are reports of it.  The one that
\* counts is alone, while the list is empty, and brings nothing that was deleted.
RowsFit(q) ==
  /\ q = [n |-> q.n, filter |-> q.filter, rows |-> q.rows]
  /\ q.n \in Nat /\ q.n <= library.load /\ q.filter \in SUBSET Reports
  /\ q.rows # None => IsFiniteSet(q.rows) /\ \A c \in q.rows : c[1] \in q.filter
  /\ Latest(q) => /\ q.filter = library.filter /\ library.rows = None
                  /\ q.rows # None => \A c \in q.rows : c[1] \notin library.deleted

ReadsFit == /\ \A q \in reading : RowsFit(q)
            /\ \A p, q \in reading : Latest(p) /\ Latest(q) => p = q

\* A deleted report is gone from the server, and only a report that is listed
\* is deleted.
DeletedGone ==
  /\ library.filter \in SUBSET Reports
  /\ kept \in [Reports -> Nat] /\ \A r \in library.deleted : r \in Reports /\ kept[r] = 0
  /\ library.pending # None => library.rows # None /\ library.pending[1] \in Reports

\* Every card is before one pool at most, and none that loads before none.
CardsFit ==
  /\ library.rows # None => library.rows \subseteq Started
  /\ \A p \in pools : PoolFits(p) /\ Before(p) \subseteq Started
  /\ \A c \in Started : library.summaries[c] = "loading" => \E p \in pools : c \in Before(p)
  /\ \A p, q \in pools : Before(p) \cap Before(q) # {} => p = q

LibraryInv == /\ DOMAIN library = LibraryFields /\ library.load \in Nat
              /\ ReadsFit /\ DeletedGone /\ CardsFit /\ LibraryOfFilter

LEMMA LibraryInvLoads == CardsFit => CardsLoad
<1> SUFFICES ASSUME CardsFit PROVE CardsLoad OBVIOUS
<1>1. \A p \in pools : p.hand # {} BY DEF CardsFit, PoolFits
<1> QED BY <1>1 DEF CardsFit, CardsLoad, Before

LEMMA RowsAreFinite ==
  ASSUME NEW f \in SUBSET Reports
  PROVE  IsFiniteSet(RowsOf(f)) /\ \A c \in RowsOf(f) : c[1] \in f /\ kept[c[1]] > 0
<1> DEFINE T == {x \in f : kept[x] > 0}
           g == [x \in T |-> Card(x)]
<1>1. IsFiniteSet(T)
  <2>1. T \in SUBSET Reports OBVIOUS
  <2> QED BY <2>1, ReportLibraryAssumption, FS_Subset
<1>2. g \in Surjection(T, RowsOf(f)) BY DEF RowsOf, Surjection
<1>3. IsFiniteSet(RowsOf(f)) BY <1>1, <1>2, FS_Surjection
<1>4. \A c \in RowsOf(f) : c[1] \in f /\ kept[c[1]] > 0 BY DEF RowsOf, Card
<1> QED BY <1>3, <1>4

LEMMA LibraryInitInv ==
  ASSUME NEW f \in SUBSET Reports, kept \in [Reports -> Nat], LibraryOpens(f)
  PROVE  LibraryInv
<1>1. /\ DOMAIN library = LibraryFields /\ library.load = 1 /\ library.rows = None /\ library.filter = f
      /\ library.summaries = << >> /\ library.pending = None /\ library.deleted = {} /\ pools = {}
      /\ reading = {[n |-> 1, filter |-> f, rows |-> None]}
  BY DEF LibraryOpens, LibraryFields
<1>2. PICK q : q = [n |-> 1, filter |-> f, rows |-> None] OBVIOUS
<1>3. reading = {q} /\ RowsFit(q) BY <1>1, <1>2 DEF RowsFit, Latest
<1>4. ReadsFit BY <1>3 DEF ReadsFit
<1>5. DeletedGone BY <1>1 DEF DeletedGone
<1>6. CardsFit BY <1>1 DEF CardsFit, Started
<1> QED BY <1>1, <1>4, <1>5, <1>6 DEF LibraryInv, LibraryOfFilter

\* A step on the page that touches neither the filter nor the cards.
LEMMA PageStays ==
  ASSUME LibraryInv, DOMAIN library' = LibraryFields, library'.load = library.load, library'.filter = library.filter,
         library'.rows = library.rows \/ (library.rows # None /\ library'.rows \subseteq library.rows),
         library'.summaries = library.summaries, pools' = pools, reading' \subseteq reading,
         kept' \in [Reports -> Nat], \A r \in Reports : kept[r] = 0 => kept'[r] = 0,
         library'.pending # None => library'.rows # None /\ library'.pending[1] \in Reports,
         \A r \in library'.deleted \ library.deleted : r \in Reports /\ kept'[r] = 0,
         \A c \in library'.rows : library'.rows # None => c[1] \notin library'.deleted \ library.deleted,
         library'.deleted # library.deleted => library.rows # None,
         library.deleted \subseteq library'.deleted
  PROVE  LibraryInv'
<1>1. ASSUME NEW q \in reading PROVE RowsFit(q)' /\ (Latest(q)' <=> Latest(q))
  <2>1. RowsFit(q) BY DEF LibraryInv, ReadsFit
  <2>2. library.rows = None => library'.rows = None OBVIOUS
  <2> QED BY <2>1, <2>2 DEF RowsFit, Latest
<1>2. ReadsFit' BY <1>1 DEF LibraryInv, ReadsFit
<1>3. DeletedGone' BY DEF LibraryInv, DeletedGone
<1>4. CardsFit'
  <2>1. library'.rows # None => library'.rows \subseteq library.rows /\ library.rows # None OBVIOUS
  <2>2. \A p \in pools : PoolFits(p)' <=> PoolFits(p) BY DEF PoolFits
  <2> QED BY <2>1 DEF LibraryInv, CardsFit, Started, PoolFits, Before
<1>5. LibraryOfFilter' BY DEF LibraryInv, LibraryOfFilter
<1> QED BY <1>2, <1>3, <1>4, <1>5 DEF LibraryInv

LEMMA LibraryInvNext == LibraryInv /\ (LibraryNext \/ UNCHANGED libraryVars) => LibraryInv'
<1> SUFFICES ASSUME LibraryInv, LibraryNext \/ UNCHANGED libraryVars PROVE LibraryInv' OBVIOUS
<1>0. /\ DOMAIN library = LibraryFields /\ library.load \in Nat /\ kept \in [Reports -> Nat]
      /\ library.filter \in SUBSET Reports /\ (library.pending # None => library.rows # None /\ library.pending[1] \in Reports)
      /\ \A q \in reading : RowsFit(q)
  BY DEF LibraryInv, DeletedGone, ReadsFit
<1>1. ASSUME NEW f \in LibraryFilters, SetFilter(f) PROVE LibraryInv'
  <2>1. /\ DOMAIN library' = LibraryFields /\ library'.filter = f /\ library'.load = library.load + 1
        /\ library'.rows = None /\ library'.summaries = library.summaries /\ library'.pending = None
        /\ library'.deleted = library.deleted /\ UNCHANGED << kept, pools >> /\ f \in SUBSET Reports
    BY <1>0, <1>1, ReportLibraryAssumption DEF SetFilter, LibraryFields
  <2>2. PICK new : new = [n |-> library.load + 1, filter |-> f, rows |-> None] OBVIOUS
  <2>3. reading' = reading \cup {new} /\ new.n = library.load + 1 BY <1>1, <2>2 DEF SetFilter
  <2>4. RowsFit(new)' BY <1>0, <2>1, <2>2 DEF RowsFit, Latest
  <2>5. ASSUME NEW q \in reading PROVE RowsFit(q)' /\ ~Latest(q)'
    BY <1>0, <2>1 DEF RowsFit, Latest
  <2>6. ReadsFit' BY <2>3, <2>4, <2>5 DEF ReadsFit
  <2>7. DeletedGone' BY <2>1 DEF LibraryInv, DeletedGone
  <2>8. CardsFit' BY <2>1 DEF LibraryInv, CardsFit, Started, PoolFits, Before
  <2> QED BY <1>0, <2>1, <2>6, <2>7, <2>8 DEF LibraryInv, LibraryOfFilter
<1>2. ASSUME NEW q \in reading, ServeRows(q) PROVE LibraryInv'
  <2>1. PICK rows : rows = RowsOf(q.filter) OBVIOUS
  <2>2. RowsFit(q) /\ UNCHANGED << kept, library, pools >> BY <1>0, <1>2 DEF ServeRows
  <2>3. PICK new : new = [q EXCEPT !.rows = rows] OBVIOUS
  <2>4. new = [n |-> q.n, filter |-> q.filter, rows |-> rows] BY <2>2, <2>3 DEF RowsFit
  <2>5. reading' = (reading \ {q}) \cup {new} BY <1>2, <2>1, <2>3 DEF ServeRows
  <2>6. IsFiniteSet(rows) /\ \A c \in rows : c[1] \in q.filter /\ kept[c[1]] > 0
    BY <2>1, <2>2, RowsAreFinite DEF RowsFit
  <2>7. \A c \in rows : c[1] \notin library.deleted
    <3>1. ASSUME NEW c \in rows, c[1] \in library.deleted PROVE FALSE
      <4>1. kept[c[1]] = 0 BY <3>1 DEF LibraryInv, DeletedGone
      <4> QED BY <2>6, <4>1
    <3> QED BY <3>1
  <2>8. RowsFit(new)' /\ (Latest(new)' <=> Latest(q)) BY <2>2, <2>4, <2>6, <2>7 DEF RowsFit, Latest
  <2>9. ASSUME NEW p \in reading PROVE RowsFit(p)' /\ (Latest(p)' <=> Latest(p))
    BY <1>0, <2>2 DEF RowsFit, Latest
  <2>10. ReadsFit' BY <2>5, <2>8, <2>9 DEF LibraryInv, ReadsFit
  <2>11. DeletedGone' BY <2>2 DEF LibraryInv, DeletedGone
  <2>12. CardsFit' BY <2>2 DEF LibraryInv, CardsFit, Started, PoolFits, Before
  <2> QED BY <1>0, <2>2, <2>10, <2>11, <2>12 DEF LibraryInv, LibraryOfFilter
<1>3. ASSUME library' = library, kept' = kept, pools' = pools, reading' \subseteq reading PROVE LibraryInv'
  BY <1>0, <1>3, PageStays
<1>4. ASSUME NEW q \in reading, RowsArrive(q), Latest(q) PROVE LibraryInv'
  <2>1. RowsFit(q) /\ q.rows # None BY <1>0, <1>4 DEF RowsArrive
  <2>2. /\ IsFiniteSet(q.rows)
        /\ \A c \in q.rows : c[1] \in library.filter /\ c[1] \notin library.deleted
    BY <1>4, <2>1 DEF RowsFit
  <2>3. PICK fresh : fresh = q.rows \ Started OBVIOUS
  <2>4. IsFiniteSet(fresh) /\ fresh \subseteq q.rows /\ fresh \cap Started = {}
    BY <2>2, <2>3, FS_Subset
  <2>5. /\ DOMAIN library' = LibraryFields /\ library'.filter = library.filter /\ library'.load = library.load
        /\ library'.rows = q.rows /\ library'.pending = library.pending /\ library'.deleted = library.deleted
        /\ library'.summaries = [c \in Started \cup q.rows |-> IF c \in Started THEN library.summaries[c] ELSE "loading"]
        /\ kept' = kept /\ reading' = reading \ {q}
    BY <1>0, <1>4 DEF RowsArrive, LibraryFields
  <2>6. Started' = Started \cup fresh /\ q.rows \subseteq Started'
    BY <2>3, <2>5 DEF Started
  <2>7. \A c \in Started' : library'.summaries[c] = "loading" => c \in fresh \/ library.summaries[c] = "loading"
    BY <2>3, <2>5 DEF Started
  <2>8. \A c \in Started' \ fresh : c \in Started BY <2>6
  <2>9. CardsFit'
    <3>1. CASE fresh = {}
      <4>1. pools' = pools BY <1>4, <2>3, <2>4, <3>1, SequenceOfSet DEF RowsArrive
      <4>2. ASSUME NEW p \in pools PROVE PoolFits(p)' /\ Before(p)' = Before(p) /\ Before(p) \subseteq Started
        BY DEF LibraryInv, CardsFit, PoolFits, Before
      <4> QED BY <2>5, <2>6, <2>7, <2>8, <3>1, <4>1, <4>2 DEF LibraryInv, CardsFit
    <3>2. CASE fresh # {}
      <4>1. PICK new : new = PoolOf(SetToSeq(fresh)) OBVIOUS
      <4>2. PoolFits(new) /\ Before(new) = fresh /\ SetToSeq(fresh) # << >> BY <2>4, <3>2, <4>1, PoolOfCards
      <4>3. pools' = pools \cup {new} BY <1>4, <2>3, <4>1, <4>2 DEF RowsArrive
      <4>4. ASSUME NEW p \in pools \cup {new} PROVE PoolFits(p)' /\ Before(p)' = Before(p)
        BY <4>2 DEF LibraryInv, CardsFit, PoolFits, Before
      <4>5. \A p \in pools : Before(p) \subseteq Started BY DEF LibraryInv, CardsFit
      <4>6. ASSUME NEW c \in Started', library'.summaries[c] = "loading"
            PROVE  \E p \in pools \cup {new} : c \in Before(p)
        BY <2>7, <2>8, <4>2, <4>6 DEF LibraryInv, CardsFit
      <4>7. \A p, r \in pools \cup {new} : Before(p) \cap Before(r) # {} => p = r
        BY <2>4, <4>2, <4>5 DEF LibraryInv, CardsFit
      <4> QED BY <2>5, <2>6, <4>2, <4>3, <4>4, <4>5, <4>6, <4>7 DEF CardsFit
    <3> QED BY <3>1, <3>2
  <2>10. ReadsFit'
    <3>1. ASSUME NEW p \in reading \ {q} PROVE RowsFit(p)' /\ ~Latest(p)'
      <4>1. ~Latest(p) /\ RowsFit(p) BY <1>0, <1>4 DEF LibraryInv, ReadsFit
      <4> QED BY <2>5, <4>1 DEF RowsFit, Latest
    <3> QED BY <2>5, <3>1 DEF ReadsFit
  <2>11. DeletedGone' BY <2>1, <2>5 DEF LibraryInv, DeletedGone
  <2>12. LibraryOfFilter' BY <2>2, <2>5 DEF LibraryOfFilter
  <2> QED BY <1>0, <2>5, <2>9, <2>10, <2>11, <2>12 DEF LibraryInv
<1>5. ASSUME NEW q \in reading, RowsArrive(q), ~Latest(q) PROVE LibraryInv' BY <1>3, <1>5 DEF RowsArrive
<1>6. ASSUME NEW q \in reading, RowsFail(q) PROVE LibraryInv' BY <1>3, <1>6 DEF RowsFail
<1>7. ASSUME NEW p \in pools, NEW c \in p.hand, SummaryEnds(p, c) PROVE LibraryInv'
  <2>1. PoolFits(p) /\ Before(p) \subseteq Started BY DEF LibraryInv, CardsFit
  <2>2. PICK rest : rest = NextInHand(p, c) OBVIOUS
  <2>3. /\ Before(rest) \subseteq Before(p) /\ Before(p) \ {c} \subseteq Before(rest)
        /\ ~(rest.hand = {} /\ rest.ahead = << >>) => PoolFits(rest)
        /\ rest.hand = {} /\ rest.ahead = << >> => Before(rest) = {}
    BY <2>1, <2>2, NextKeepsCards
  <2>4. PICK more \in SUBSET {rest} : /\ pools' = (pools \ {p}) \cup more
                                      /\ more = IF rest.hand = {} /\ rest.ahead = << >> THEN {} ELSE {rest}
    BY <1>7, <2>2 DEF SummaryEnds
  <2>5. PICK state \in {"ready", "error"} : library' = [library EXCEPT !.summaries[c] = state]
    BY <1>7 DEF SummaryEnds
  <2>6. /\ DOMAIN library' = LibraryFields /\ library'.filter = library.filter /\ library'.load = library.load
        /\ library'.rows = library.rows /\ library'.pending = library.pending /\ library'.deleted = library.deleted
        /\ library'.summaries = [library.summaries EXCEPT ![c] = state]
        /\ UNCHANGED << kept, reading >>
    BY <1>0, <1>7, <2>5 DEF SummaryEnds, LibraryFields
  <2>7. Started' = Started /\ \A d \in Started : library'.summaries[d] = "loading" => d # c /\ library.summaries[d] = "loading"
    BY <2>6 DEF Started
  <2>8. \A r \in more : PoolFits(r) /\ r = rest BY <2>3, <2>4
  <2>9. Before(rest) # {} => rest \in more BY <2>3, <2>4
  <2>10. ASSUME NEW r \in (pools \ {p}) \cup more
         PROVE  PoolFits(r)' /\ Before(r)' = Before(r) /\ Before(r) \subseteq Started
    BY <2>1, <2>3, <2>8 DEF LibraryInv, CardsFit, PoolFits, Before
  <2>11. ASSUME NEW d \in Started, library'.summaries[d] = "loading"
         PROVE  \E r \in (pools \ {p}) \cup more : d \in Before(r)
    <3>1. PICK r \in pools : d \in Before(r) BY <2>7, <2>11 DEF LibraryInv, CardsFit
    <3>2. CASE r = p
      <4>1. d \in Before(rest) BY <2>3, <2>7, <2>11, <3>1, <3>2
      <4> QED BY <2>9, <4>1
    <3> QED BY <3>1, <3>2
  <2>12. ASSUME NEW r \in (pools \ {p}) \cup more, NEW s \in (pools \ {p}) \cup more, Before(r) \cap Before(s) # {}
         PROVE  r = s
    <3>1. \A t \in pools \ {p} : Before(t) \cap Before(p) = {} BY DEF LibraryInv, CardsFit
    <3>2. \A t \in pools \ {p} : Before(t) \cap Before(rest) = {} BY <2>3, <3>1
    <3> QED BY <2>8, <2>12, <3>2 DEF LibraryInv, CardsFit
  <2>13. CardsFit' BY <2>4, <2>6, <2>7, <2>10, <2>11, <2>12 DEF LibraryInv, CardsFit
  <2>14. ASSUME NEW q \in reading PROVE RowsFit(q)' /\ (Latest(q)' <=> Latest(q))
    BY <1>0, <2>6 DEF RowsFit, Latest
  <2>15. ReadsFit' BY <2>6, <2>14 DEF LibraryInv, ReadsFit
  <2>16. DeletedGone' BY <2>6 DEF LibraryInv, DeletedGone
  <2>17. LibraryOfFilter' BY <2>6 DEF LibraryInv, LibraryOfFilter
  <2> QED BY <1>0, <2>6, <2>13, <2>15, <2>16, <2>17 DEF LibraryInv
<1>8. ASSUME NEW c, AskDelete(c) PROVE LibraryInv'
  <2>1. /\ DOMAIN library' = LibraryFields /\ library'.filter = library.filter /\ library'.load = library.load
        /\ library'.rows = library.rows /\ library.rows # None /\ library'.deleted = library.deleted
        /\ library'.summaries = library.summaries /\ UNCHANGED << kept, pools, reading >>
        /\ library'.pending = c /\ c \in library.rows
    BY <1>0, <1>8 DEF AskDelete, LibraryFields
  <2>2. c[1] \in Reports BY <1>0, <2>1 DEF LibraryInv, LibraryOfFilter
  <2> QED BY <1>0, <2>1, <2>2, PageStays
<1>9. CASE KeepReport \/ ConfirmDelete \/ Duplicate \/ DuplicateFails
  <2>1. /\ DOMAIN library' = LibraryFields /\ library'.filter = library.filter /\ library'.load = library.load
        /\ library'.rows = library.rows /\ library'.deleted = library.deleted
        /\ library'.pending \in {library.pending, None}
        /\ library'.summaries = library.summaries /\ UNCHANGED << kept, pools, reading >>
    BY <1>0, <1>9 DEF KeepReport, ConfirmDelete, Duplicate, DuplicateFails, LibraryFields
  <2> QED BY <1>0, <2>1, PageStays
<1>10. ASSUME NEW reaches \in BOOLEAN, NEW answered \in BOOLEAN, DeleteEnds(reaches, answered) PROVE LibraryInv'
  <2>1. PICK r : r = library.pending[1] OBVIOUS
  <2>2. /\ DOMAIN library' = LibraryFields /\ library'.filter = library.filter /\ library'.load = library.load
        /\ library'.pending = None /\ library'.summaries = library.summaries /\ UNCHANGED << pools, reading >>
        /\ library'.rows = (IF answered THEN {c \in library.rows : c[1] # r} ELSE library.rows)
        /\ library'.deleted = (IF answered THEN library.deleted \cup {r} ELSE library.deleted)
        /\ kept' = (IF reaches THEN [kept EXCEPT ![r] = 0] ELSE kept)
        /\ (answered => reaches) /\ library.rows # None
    BY <1>0, <1>10, <2>1 DEF DeleteEnds, LibraryFields
  <2>3. r \in Reports BY <1>0, <1>10, <2>1 DEF DeleteEnds
  <2>4. kept' \in [Reports -> Nat] /\ \A x \in Reports : kept[x] = 0 => kept'[x] = 0 BY <1>0, <2>2, <2>3
  <2>5. answered => kept'[r] = 0 BY <1>0, <2>2, <2>3
  <2>6. library.deleted \subseteq library'.deleted /\ \A x \in library'.deleted \ library.deleted : x = r /\ answered
    BY <2>2
  <2>7. library'.rows = library.rows \/ library'.rows \subseteq library.rows BY <2>2
  <2>8. \A c \in library'.rows : c[1] \notin library'.deleted \ library.deleted BY <2>2
  <2> QED BY <1>0, <2>2, <2>3, <2>4, <2>5, <2>6, <2>7, <2>8, PageStays
<1>11. ASSUME NEW r \in Reports, EditedElsewhere(r) PROVE LibraryInv'
  <2>1. kept' \in [Reports -> Nat] /\ \A x \in Reports : kept[x] = 0 => kept'[x] = 0
    BY <1>0, <1>11 DEF EditedElsewhere
  <2> QED BY <1>0, <1>11, <2>1, PageStays DEF EditedElsewhere
<1>12. CASE UNCHANGED libraryVars BY <1>3, <1>12 DEF libraryVars
<1> QED BY <1>1, <1>2, <1>4, <1>5, <1>6, <1>7, <1>8, <1>9, <1>10, <1>11, <1>12 DEF LibraryNext
-----------------------------------------------------------------------------
(* The rule of a report                                                    *)

FormFields == {"site", "source", "eventName", "trackId", "message", "messageMode", "severity", "service",
               "environment", "window"}

\* A form whose fields have values of their kinds, and one whose service is of
\* its site.
RuleFits(form) ==
  /\ DOMAIN form = FormFields
  /\ form = [f \in FormFields |-> form[f]]
  /\ form.source \in {"event", "log"} /\ form.trackId \in Texts
  /\ form.messageMode \in {"contains", "exact"} /\ form.environment \in {"", "text"}

ServiceFits(form) == ~Absent(form.service) => form.site \in {None, SiteOf[form.service]}

\* The fields that are stored.
Given(form) ==
  LET ofSource == IF form.source = "event" THEN {"eventName", "trackId"}
                  ELSE {"message", "messageMode", "severity", "service", "environment"} IN
  {f \in ofSource : ~Absent(form[f]) \/ f \in {"eventName", "message"}}

LEMMA DefinitionIs ==
  ASSUME NEW form
  PROVE  LET def == DefinitionFromForm(form) IN
         /\ def.source = form.source /\ def.site = form.site /\ def.window = form.window
         /\ def.interval = IntervalFor(form.window)
         /\ def.match = [k \in Given(form) |-> form[k]]
         /\ DOMAIN def.match = Given(form) /\ \A k \in Given(form) : def.match[k] = form[k]
BY DEF DefinitionFromForm, Given

LEMMA SameDefinition ==
  ASSUME NEW f, NEW g, f.source = g.source, f.site = g.site, f.window = g.window, Given(f) = Given(g),
         \A k \in Given(f) : f[k] = g[k]
  PROVE  DefinitionFromForm(f) = DefinitionFromForm(g)
<1>1. [k \in Given(f) |-> f[k]] = [k \in Given(g) |-> g[k]] OBVIOUS
<1>2. \A h : DefinitionFromForm(h) = [source |-> h.source, site |-> h.site, window |-> h.window,
                                      interval |-> IntervalFor(h.window), match |-> [k \in Given(h) |-> h[k]]]
  BY DEF DefinitionFromForm, Given
<1>3. IntervalFor(f.window) = IntervalFor(g.window) OBVIOUS
<1> QED BY <1>1, <1>2, <1>3

LEMMA NoneIsNoText ==
  /\ ~Absent("contains") /\ ~Absent("exact") /\ \A t \in Texts \ {""} : ~Absent(t)
  /\ Absent("") /\ Absent(None)
BY ReportFormAssumption DEF Absent, Texts

\* What the editor lets pass is what the server takes.
LEMMA ValidIsAccepted ==
  ASSUME NEW form, RuleFits(form), ServiceFits(form)
  PROVE  ValidateForm(form) = {} <=> ServerAccepts(DefinitionFromForm(form))
<1> DEFINE def == DefinitionFromForm(form)
<1>1. /\ def.source = form.source /\ def.site = form.site /\ def.window = form.window
      /\ def.interval = IntervalFor(form.window)
      /\ DOMAIN def.match = Given(form) /\ \A k \in Given(form) : def.match[k] = form[k]
  BY DefinitionIs
<1> HIDE DEF def
<1>2. ValidateForm(form) = {} <=>
        /\ ~IsBlank(IF form.source = "event" THEN form.eventName ELSE form.message)
        /\ (IF form.source = "event" THEN form.eventName ELSE form.message) # "long"
        /\ ~(form.source = "event" /\ form.trackId \in {" ", "long"})
        /\ ValidWindow(form.window)
  BY DEF ValidateForm
<1>3. CASE form.source = "event"
  <2>1. Given(form) \subseteq {"eventName", "trackId"} /\ "eventName" \in Given(form)
    BY <1>3 DEF Given
  <2>2. "trackId" \notin Given(form) => form.trackId \notin {" ", "long"}
    BY <1>3, NoneIsNoText DEF Given, RuleFits, Texts
  <2>3. ServerAccepts(def) <=> /\ ~IsBlank(form.eventName) /\ form.eventName # "long"
                               /\ form.trackId \notin {" ", "long"} /\ ValidWindow(form.window)
    BY <1>1, <1>3, <2>1, <2>2 DEF ServerAccepts
  <2> QED BY <1>2, <1>3, <2>3 DEF def
<1>4. CASE form.source = "log"
  <2>1. /\ Given(form) \subseteq {"message", "messageMode", "severity", "service", "environment"}
        /\ "message" \in Given(form)
    BY <1>4 DEF Given
  <2>2. form.environment # " " BY DEF RuleFits
  <2>3. "service" \in Given(form) => form.site \in {None, SiteOf[form.service]}
    BY <1>4 DEF Given, ServiceFits
  <2>4. ServerAccepts(def) <=> ~IsBlank(form.message) /\ form.message # "long" /\ ValidWindow(form.window)
    <3>1. (IF "message" \in DOMAIN def.match THEN def.match["message"] ELSE "") = form.message
      BY <1>1, <2>1
    <3>2. (IF "environment" \in DOMAIN def.match THEN def.match["environment"] ELSE "") # " "
      BY <1>1, <2>2
    <3>3. DOMAIN def.match \cap {"eventName", "trackId"} = {} BY <1>1, <2>1
    <3>4. "service" \in DOMAIN def.match => def.site \in {None, SiteOf[def.match.service]}
      BY <1>1, <2>3
    <3>5. def.source # "event" /\ def.source = "log" BY <1>1, <1>4
    <3> QED BY <1>1, <3>1, <3>2, <3>3, <3>4, <3>5 DEF ServerAccepts
  <2> QED BY <1>2, <1>4, <2>4 DEF def
<1> QED BY <1>3, <1>4 DEF RuleFits

\* A report that is opened shows the rule it was stored with.
LEMMA OpenedAsStored ==
  ASSUME NEW form, RuleFits(form)
  PROVE  LET opened == FormFromReport(DefinitionFromForm(form)) IN
         /\ RuleFits(opened)
         /\ DefinitionFromForm(opened) = DefinitionFromForm(form)
         /\ ServerAccepts(DefinitionFromForm(form)) => ServiceFits(opened)
<1> DEFINE def == DefinitionFromForm(form)
           opened == FormFromReport(def)
<1>1. /\ def.source = form.source /\ def.site = form.site /\ def.window = form.window
      /\ DOMAIN def.match = Given(form) /\ \A k \in Given(form) : def.match[k] = form[k]
  BY DefinitionIs
<1> HIDE DEF def
<1>2. DOMAIN emptyForm = FormFields /\ emptyForm.trackId = "" /\ emptyForm.severity = ""
      /\ emptyForm.service = None /\ emptyForm.environment = ""
  BY DEF emptyForm, FormFields
<1>3. /\ DOMAIN opened = FormFields /\ opened = [f \in FormFields |-> opened[f]]
      /\ opened.site = form.site /\ opened.source = form.source /\ opened.window = form.window
      /\ \A f \in FormFields \ {"site", "source", "window"} :
           opened[f] = IF f \in Given(form) THEN form[f] ELSE IF f = "messageMode" THEN "exact" ELSE emptyForm[f]
  BY <1>1, <1>2 DEF FormFromReport, FormFields
<1> HIDE DEF opened
<1>4. RuleFits(opened)
  <2>1. opened.trackId \in {form.trackId, ""} /\ opened.messageMode \in {form.messageMode, "exact"}
        /\ opened.environment \in {form.environment, ""}
    BY <1>2, <1>3 DEF FormFields
  <2> QED BY <1>3, <2>1 DEF RuleFits, Texts
<1>5. Given(form) \subseteq FormFields \ {"site", "source", "window"} BY DEF Given, FormFields
<1>6. \A f \in Given(form) : opened[f] = form[f] BY <1>3, <1>5
<1>7. Given(opened) = Given(form)
  <2>1. CASE form.source = "event"
    <3>1. "trackId" \notin Given(form) => Absent(opened.trackId) BY <1>2, <1>3, NoneIsNoText DEF FormFields
    <3>2. "trackId" \in Given(form) => ~Absent(form.trackId) BY <2>1 DEF Given
    <3> QED BY <1>3, <1>6, <2>1, <3>1, <3>2 DEF Given
  <2>2. CASE form.source = "log"
    <3>1. "messageMode" \in Given(form) BY <2>2, NoneIsNoText DEF Given, RuleFits
    <3>2. \A f \in {"severity", "service", "environment"} : f \notin Given(form) => Absent(opened[f])
      BY <1>2, <1>3, NoneIsNoText DEF FormFields
    <3>3. \A f \in Given(form) \ {"message"} : ~Absent(form[f]) BY <2>2 DEF Given
    <3> QED BY <1>3, <1>6, <2>2, <3>1, <3>2, <3>3 DEF Given
  <2> QED BY <2>1, <2>2 DEF RuleFits
<1>8. DefinitionFromForm(opened) = DefinitionFromForm(form) BY <1>3, <1>6, <1>7, SameDefinition
<1>9. ASSUME ServerAccepts(def) PROVE ServiceFits(opened)
  <2>1. CASE "service" \in Given(form)
    <3>1. form.source = "log" BY <2>1 DEF Given, RuleFits
    <3>2. def.site \in {None, SiteOf[def.match.service]} BY <1>1, <1>9, <2>1, <3>1 DEF ServerAccepts
    <3> QED BY <1>1, <1>3, <1>6, <2>1, <3>2 DEF ServiceFits
  <2>2. CASE "service" \notin Given(form)
    <3>1. opened.service = None BY <1>2, <1>3, <2>2 DEF FormFields
    <3> QED BY <3>1, NoneIsNoText DEF ServiceFits
  <2> QED BY <2>1, <2>2
<1> QED BY <1>4, <1>8, <1>9 DEF def, opened
-----------------------------------------------------------------------------
(* The editor of a report                                                  *)

EditorFields == {"form", "state", "original", "preview", "previewing", "failed", "seq", "timer", "saving",
                 "pending", "edits"}

\* The form holds a rule, and a preview is due of a valid one only.
FormInv ==
  /\ DOMAIN editor = EditorFields
  /\ RuleFits(editor.form) /\ ServiceFits(editor.form)
  /\ editor.timer \in BOOLEAN /\ (editor.timer => DefinitionValid(editor))
  /\ editor.pending \in {None, "event", "log"}

\* A report that was opened and not changed is the one that was stored.
OriginalKept ==
  /\ editor.edits \in Nat
  /\ editor.original # None /\ editor.edits = 0 => definition(editor) = editor.original

\* What a preview is filed under is what it was made of.
PreviewsFit ==
  /\ editor.preview # NoPreview => editor.preview.key = editor.preview.of
  /\ \A r \in asked : r.key = r.of /\ ServerAccepts(r.of)

SavedFits ==
  /\ saved.previewOf = saved.form
  /\ saved.form # None => ServerAccepts(saved.form)

OptionsFit == DOMAIN options = {"rows", "asked"} /\ options.rows \subseteq Services

BuilderInv == FormInv /\ OriginalKept /\ PreviewsFit /\ SavedFits /\ OptionsFit

LEMMA BuilderInvHolds == BuilderInv => SavedWasPreviewed /\ SentIsAccepted
BY DEF BuilderInv, OriginalKept, PreviewsFit, SavedFits, SavedWasPreviewed, SentIsAccepted, PreviewCurrent

LEMMA EmptyFormFits == RuleFits(emptyForm) /\ ServiceFits(emptyForm)
<1>1. RuleFits(emptyForm) BY DEF RuleFits, emptyForm, FormFields, Texts
<1>2. emptyForm.service = None BY DEF emptyForm
<1> QED BY <1>1, <1>2, NoneIsNoText DEF ServiceFits

LEMMA BuilderInitInv == ASSUME NEW state, ReportOpens(state) PROVE BuilderInv
<1>1. /\ DOMAIN editor = EditorFields /\ editor.form = emptyForm /\ editor.timer = FALSE /\ editor.pending = None
      /\ editor.edits = 0 /\ editor.original = None /\ editor.preview = NoPreview /\ asked = {}
      /\ saved.form = None /\ saved.previewOf = None
      /\ DOMAIN options = {"rows", "asked"} /\ options.rows = {}
  BY DEF ReportOpens, EditorFields, NoSave
<1>2. FormInv
  <2>1. RuleFits(editor.form) /\ ServiceFits(editor.form) BY <1>1, EmptyFormFits
  <2>2. editor.timer \in BOOLEAN /\ ~editor.timer BY <1>1
  <2> QED BY <1>1, <2>1, <2>2 DEF FormInv
<1>3. OriginalKept BY <1>1 DEF OriginalKept
<1> QED BY <1>1, <1>2, <1>3 DEF BuilderInv, PreviewsFit, SavedFits, OptionsFit

\* An edit of the form by the operator.
LEMMA EditKeeps ==
  ASSUME BuilderInv, NEW form, RuleFits(form), ServiceFits(form), Edited(form), UNCHANGED << asked, saved >>, OptionsFit'
  PROVE  BuilderInv'
<1> DEFINE e == [editor EXCEPT !.form = form, !.edits = @ + 1]
<1>1. /\ DOMAIN e = EditorFields /\ e.form = form /\ e.edits = editor.edits + 1 /\ e.timer = editor.timer
      /\ e.pending = editor.pending /\ e.original = editor.original /\ e.preview = editor.preview
  BY DEF BuilderInv, FormInv, EditorFields
<1>2. editor' = (IF definition(e) = definition(editor) THEN e ELSE Scheduled(e)) BY DEF Edited
<1> HIDE DEF e
<1>3. definition(e) = DefinitionFromForm(form) /\ definition(editor) = DefinitionFromForm(editor.form)
  BY <1>1 DEF definition
<1>4. /\ DOMAIN editor' = EditorFields /\ editor'.form = form /\ editor'.edits = editor.edits + 1
      /\ editor'.pending = editor.pending /\ editor'.original = editor.original
      /\ editor'.preview = editor.preview
  BY <1>1, <1>2 DEF Scheduled, EditorFields
<1>5. editor'.timer \in BOOLEAN /\ (editor'.timer => ValidateForm(form) = {})
  <2>1. CASE definition(e) = definition(editor)
    <3>1. editor'.timer = editor.timer /\ editor.timer \in BOOLEAN
      BY <1>1, <1>2, <2>1 DEF BuilderInv, FormInv
    <3>2. ASSUME editor.timer PROVE ValidateForm(form) = {}
      <4>1. ValidateForm(editor.form) = {} /\ RuleFits(editor.form) /\ ServiceFits(editor.form)
        BY <3>2 DEF BuilderInv, FormInv, DefinitionValid
      <4>2. ServerAccepts(DefinitionFromForm(editor.form)) BY <4>1, ValidIsAccepted
      <4>3. ServerAccepts(DefinitionFromForm(form)) BY <1>3, <2>1, <4>2
      <4> QED BY <4>3, ValidIsAccepted
    <3> QED BY <3>1, <3>2
  <2>2. CASE definition(e) # definition(editor)
    <3>1. editor'.timer = (Previewable(e) /\ e.preview.key # definition(e))
      BY <1>1, <1>2, <2>2 DEF Scheduled, EditorFields
    <3>2. (Previewable(e) /\ e.preview.key # definition(e)) \in BOOLEAN BY DEF Previewable, DefinitionValid
    <3>3. Previewable(e) => ValidateForm(form) = {} BY <1>1 DEF Previewable, DefinitionValid
    <3> QED BY <3>1, <3>2, <3>3
  <2> QED BY <2>1, <2>2
<1>6. FormInv' BY <1>4, <1>5 DEF BuilderInv, FormInv, DefinitionValid
<1>7. OriginalKept' BY <1>4 DEF BuilderInv, OriginalKept
<1>8. PreviewsFit' BY <1>4 DEF BuilderInv, PreviewsFit
<1> QED BY <1>6, <1>7, <1>8 DEF BuilderInv, SavedFits

\* The rows of the services stay when others are asked for.
LEMMA AskingFits == ASSUME BuilderInv, NEW form, options' = Asking(form) PROVE OptionsFit'
BY DEF BuilderInv, OptionsFit, Asking

\* The server has rules that the form can hold.
LEMMA StoredFits ==
  ASSUME NEW def \in StoredRules
  PROVE  \E form : RuleFits(form) /\ def = DefinitionFromForm(form)
<1>1. /\ DOMAIN emptyForm = FormFields /\ emptyForm.source = "event" /\ emptyForm.trackId = ""
      /\ emptyForm.messageMode = "contains" /\ emptyForm.environment = ""
  BY DEF emptyForm, FormFields
<1>2. ASSUME NEW s, NEW v PROVE RuleFits(LogRule(s, v)) BY <1>1 DEF LogRule, RuleFits, FormFields, Texts
<1>3. ASSUME NEW t \in {"", "text"} PROVE RuleFits(EventRule(t)) BY <1>1 DEF EventRule, RuleFits, FormFields, Texts
<1>4. \A form \in LogRules : RuleFits(form) BY <1>2 DEF LogRules
<1>5. \A form \in EventRules : RuleFits(form) BY <1>3 DEF EventRules
<1>6. \E form \in LogRules \cup EventRules : def = DefinitionFromForm(form) BY DEF StoredRules
<1> QED BY <1>4, <1>5, <1>6

\* A step that leaves the form, the edits and what was stored.
LEMMA FormStays ==
  ASSUME BuilderInv, DOMAIN editor' = EditorFields, editor'.form = editor.form, editor'.edits = editor.edits,
         editor'.original = editor.original, editor'.timer \in BOOLEAN, editor'.timer => editor.timer,
         editor'.pending \in {None, "event", "log"}
  PROVE  FormInv' /\ OriginalKept'
BY DEF BuilderInv, FormInv, OriginalKept, DefinitionValid, definition

LEMMA BuilderInvNext == BuilderInv /\ (ReportNext \/ UNCHANGED reportVars) => BuilderInv'
<1> SUFFICES ASSUME BuilderInv, ReportNext \/ UNCHANGED reportVars PROVE BuilderInv' OBVIOUS
<1>0. /\ DOMAIN editor = EditorFields /\ RuleFits(editor.form) /\ ServiceFits(editor.form)
      /\ editor.timer \in BOOLEAN /\ editor.pending \in {None, "event", "log"} /\ editor.edits \in Nat
      /\ DOMAIN editor.form = FormFields
  BY DEF BuilderInv, FormInv, OriginalKept, RuleFits
<1>1. CASE ReportLoads
  <2>1. ASSUME NEW def \in StoredRules, NEW state, ServerAccepts(def),
               editor' = Scheduled([editor EXCEPT !.form = FormFromReport(def), !.original = def, !.state = state]),
               options' = Asking(FormFromReport(def)), UNCHANGED << asked, saved >>
        PROVE  BuilderInv'
    <3> DEFINE form == FormFromReport(def)
    <3>1. PICK rule : RuleFits(rule) /\ def = DefinitionFromForm(rule)
      BY StoredFits
    <3>2. RuleFits(form) /\ DefinitionFromForm(form) = def /\ ServiceFits(form)
      BY <2>1, <3>1, OpenedAsStored
    <3> HIDE DEF form
    <3> DEFINE e == [editor EXCEPT !.form = form, !.original = def, !.state = state]
    <3>3. /\ DOMAIN e = EditorFields /\ e.form = form /\ e.original = def /\ e.pending = editor.pending
          /\ e.edits = editor.edits /\ e.preview = editor.preview
      BY <1>0 DEF EditorFields
    <3>4. editor' = Scheduled(e) BY <2>1 DEF form
    <3> HIDE DEF e
    <3>5. /\ DOMAIN editor' = EditorFields /\ editor'.form = form /\ editor'.original = def
          /\ editor'.pending = editor.pending /\ editor'.edits = editor.edits /\ editor'.preview = editor.preview
          /\ editor'.timer = (Previewable(e) /\ e.preview.key # definition(e))
      BY <3>3, <3>4 DEF Scheduled, EditorFields
    <3>6. editor'.timer \in BOOLEAN /\ (editor'.timer => ValidateForm(form) = {})
      BY <3>3, <3>5 DEF Previewable, DefinitionValid
    <3>7. FormInv' BY <1>0, <3>2, <3>5, <3>6 DEF FormInv, DefinitionValid
    <3>8. OriginalKept' BY <1>0, <3>2, <3>5 DEF OriginalKept, definition
    <3>9. PreviewsFit' BY <2>1, <3>5 DEF BuilderInv, PreviewsFit
    <3>10. OptionsFit' BY <2>1, AskingFits
    <3> QED BY <2>1, <3>7, <3>8, <3>9, <3>10 DEF BuilderInv, SavedFits
  <2>2. ASSUME NEW state, editor' = [editor EXCEPT !.state = state], UNCHANGED << options, asked, saved >>
        PROVE  BuilderInv'
    <3>1. /\ DOMAIN editor' = EditorFields /\ editor'.form = editor.form /\ editor'.edits = editor.edits
          /\ editor'.original = editor.original /\ editor'.timer = editor.timer /\ editor'.preview = editor.preview
          /\ editor'.pending = editor.pending
      BY <1>0, <2>2 DEF EditorFields
    <3>2. FormInv' /\ OriginalKept' BY <1>0, <3>1, FormStays
    <3>3. PreviewsFit' BY <2>2, <3>1 DEF BuilderInv, PreviewsFit
    <3> QED BY <2>2, <3>2, <3>3 DEF BuilderInv, SavedFits, OptionsFit
  <2> QED BY <1>1, <2>1, <2>2 DEF ReportLoads
<1>2. CASE OptionsArrive \/ OptionsFail
  <2>1. UNCHANGED << editor, asked, saved >> BY <1>2 DEF OptionsArrive, OptionsFail
  <2>2. OptionsFit' BY <1>2 DEF BuilderInv, OptionsFit, OptionsArrive, OptionsFail, ServicesOf
  <2>3. FormInv' /\ OriginalKept' BY <1>0, <2>1, FormStays
  <2> QED BY <2>1, <2>2, <2>3 DEF BuilderInv, PreviewsFit, SavedFits
<1>3. ASSUME NEW f \in ShownFields, Patch(f) PROVE BuilderInv'
  <2>1. PICK x \in Values(f) : Edited([editor.form EXCEPT ![f] = x]) /\ UNCHANGED << asked, options, saved >>
    BY <1>3 DEF Patch
  <2>2. PICK form : form = [editor.form EXCEPT ![f] = x] OBVIOUS
  <2>3. /\ DOMAIN form = FormFields /\ form = [k \in FormFields |-> form[k]]
        /\ f \in {"eventName", "trackId", "window", "message", "messageMode", "severity", "service", "environment"}
        /\ form[f] = x /\ \A k \in FormFields \ {f} : form[k] = editor.form[k]
    BY <1>0, <2>2 DEF ShownFields, FormFields
  <2>4. RuleFits(form)
    <3>1. /\ f = "trackId" => x \in Texts
          /\ f = "messageMode" => x \in {"contains", "exact"}
          /\ f = "environment" => x \in {"", "text"}
      BY <2>1 DEF Values
    <3> QED BY <1>0, <2>3, <3>1 DEF RuleFits, FormFields
  <2>5. ServiceFits(form)
    <3>1. CASE f = "service"
      <4>1. x \in Offered \cup {None} BY <2>1, <3>1 DEF Values
      <4>2. form.site = editor.form.site /\ form.service = x BY <2>3, <3>1 DEF FormFields
      <4> QED BY <4>1, <4>2, NoneIsNoText DEF ServiceFits, Offered
    <3>2. CASE f # "service"
      <4>1. form.site = editor.form.site /\ form.service = editor.form.service BY <2>3, <3>2 DEF FormFields
      <4> QED BY <1>0, <4>1 DEF ServiceFits
    <3> QED BY <3>1, <3>2
  <2>6. OptionsFit' BY <2>1 DEF BuilderInv, OptionsFit
  <2> QED BY <2>1, <2>2, <2>4, <2>5, <2>6, EditKeeps
<1>4. ASSUME NEW s, ChangeSite(s) PROVE BuilderInv'
  <2>1. PICK form : form = [editor.form EXCEPT !.site = s, !.service = None, !.environment = ""] OBVIOUS
  <2>2. Edited(form) /\ options' = Asking(form) /\ UNCHANGED << asked, saved >> BY <1>4, <2>1 DEF ChangeSite
  <2>3. RuleFits(form) BY <1>0, <2>1 DEF RuleFits, FormFields
  <2>4. form.service = None BY <1>0, <2>1 DEF FormFields
  <2>5. ServiceFits(form) BY <2>4, NoneIsNoText DEF ServiceFits
  <2>6. OptionsFit' BY <2>2, AskingFits
  <2> QED BY <2>2, <2>3, <2>5, <2>6, EditKeeps
<1>5. ASSUME NEW source \in {"event", "log"}, RequestSource(source), HasSourceFields(editor.form) PROVE BuilderInv'
  <2>1. editor' = [editor EXCEPT !.pending = source] /\ UNCHANGED << asked, options, saved >> BY <1>5 DEF RequestSource
  <2>2. /\ DOMAIN editor' = EditorFields /\ editor'.form = editor.form /\ editor'.edits = editor.edits
        /\ editor'.original = editor.original /\ editor'.timer = editor.timer /\ editor'.preview = editor.preview
        /\ editor'.pending = source
    BY <1>0, <2>1 DEF EditorFields
  <2>3. FormInv' /\ OriginalKept' BY <1>0, <2>2, FormStays
  <2> QED BY <2>1, <2>2, <2>3 DEF BuilderInv, PreviewsFit, SavedFits, OptionsFit
<1>6. ASSUME NEW source \in {"event", "log"}, RequestSource(source), ~HasSourceFields(editor.form) PROVE BuilderInv'
  <2>1. PICK form : form = [editor.form EXCEPT !.source = source] OBVIOUS
  <2>2. Edited(form) /\ options' = Asking(form) /\ UNCHANGED << asked, saved >> BY <1>6, <2>1 DEF RequestSource
  <2>3. RuleFits(form) BY <1>0, <2>1 DEF RuleFits, FormFields
  <2>4. form.service = editor.form.service /\ form.site = editor.form.site BY <1>0, <2>1 DEF FormFields
  <2>5. ServiceFits(form) BY <1>0, <2>4 DEF ServiceFits
  <2>6. OptionsFit' BY <2>2, AskingFits
  <2> QED BY <2>2, <2>3, <2>5, <2>6, EditKeeps
<1>7. CASE ConfirmSource
  <2>1. PICK cleared : cleared = ClearSourceFields(editor.form) OBVIOUS
  <2>2. PICK form : form = [cleared EXCEPT !.source = editor.pending] OBVIOUS
  <2>3. /\ editor' = Scheduled([editor EXCEPT !.form = form, !.pending = None, !.edits = @ + 1])
        /\ options' = Asking(form) /\ UNCHANGED << asked, saved >> /\ editor.pending # None
    BY <1>7, <2>1, <2>2 DEF ConfirmSource
  <2>4. /\ DOMAIN cleared = FormFields /\ cleared.trackId = "" /\ cleared.messageMode = "contains"
        /\ cleared.environment = "" /\ cleared.service = None
        /\ cleared = [f \in FormFields |-> cleared[f]]
    BY <1>0, <2>1 DEF ClearSourceFields, SourceFields, FormFields, emptyForm
  <2>5. RuleFits(form) /\ form.service = None
    BY <1>0, <2>2, <2>3, <2>4 DEF RuleFits, FormFields, Texts
  <2>6. ServiceFits(form) BY <2>5, NoneIsNoText DEF ServiceFits
  <2>7. PICK e : e = [editor EXCEPT !.form = form, !.pending = None, !.edits = @ + 1] OBVIOUS
  <2>8. /\ DOMAIN e = EditorFields /\ e.form = form /\ e.edits = editor.edits + 1 /\ e.pending = None
        /\ e.original = editor.original /\ e.preview = editor.preview
    BY <1>0, <2>7 DEF EditorFields
  <2>9. editor' = Scheduled(e) BY <2>3, <2>7
  <2>10. /\ DOMAIN editor' = EditorFields /\ editor'.form = form /\ editor'.edits = editor.edits + 1
         /\ editor'.pending = None /\ editor'.original = editor.original /\ editor'.preview = editor.preview
         /\ editor'.timer = (Previewable(e) /\ e.preview.key # definition(e))
    BY <2>8, <2>9 DEF Scheduled, EditorFields
  <2>11. editor'.timer \in BOOLEAN /\ (editor'.timer => ValidateForm(form) = {})
    BY <2>8, <2>10 DEF Previewable, DefinitionValid
  <2>12. FormInv' BY <2>5, <2>6, <2>10, <2>11 DEF FormInv, DefinitionValid
  <2>13. OriginalKept' BY <1>0, <2>10 DEF OriginalKept
  <2>14. OptionsFit' BY <2>3, AskingFits
  <2> QED BY <2>3, <2>10, <2>12, <2>13, <2>14 DEF BuilderInv, PreviewsFit, SavedFits
\* The previews and the save.
<1>8. ASSUME DOMAIN editor' = EditorFields, editor'.form = editor.form, editor'.edits = editor.edits,
             editor'.original = editor.original, editor'.timer \in {editor.timer, FALSE},
             editor'.pending \in {editor.pending, None}, UNCHANGED options, SavedFits', PreviewsFit'
      PROVE  BuilderInv'
  <2>1. editor'.timer \in BOOLEAN /\ (editor'.timer => editor.timer) BY <1>0, <1>8
  <2>2. FormInv' /\ OriginalKept' BY <1>0, <1>8, <2>1, FormStays
  <2> QED BY <1>8, <2>2 DEF BuilderInv, OptionsFit
<1>9. ASSUME NEW e, RunPreview(e), DOMAIN e = EditorFields, e.form = editor.form, e.edits = editor.edits,
             e.original = editor.original, e.timer \in {editor.timer, FALSE}, e.pending = editor.pending,
             e.preview = editor.preview, DefinitionValid(editor)
      PROVE  BuilderInv'
  <2>1. /\ DOMAIN editor' = EditorFields /\ editor'.form = editor.form /\ editor'.edits = editor.edits
        /\ editor'.original = editor.original /\ editor'.timer = e.timer /\ editor'.pending = editor.pending
        /\ editor'.preview = editor.preview /\ UNCHANGED << options, saved >>
    BY <1>9 DEF RunPreview, EditorFields
  <2>2. ServerAccepts(definition(e)) BY <1>0, <1>9, ValidIsAccepted DEF definition, DefinitionValid
  <2>3. PICK new : new = [seq |-> e.seq + 1, key |-> definition(e), of |-> definition(e)] OBVIOUS
  <2>4. asked' = asked \cup {new} /\ new.key = new.of /\ ServerAccepts(new.of) BY <1>9, <2>2, <2>3 DEF RunPreview
  <2>5. PreviewsFit' BY <2>1, <2>4 DEF BuilderInv, PreviewsFit
  <2>6. SavedFits' BY <2>1 DEF BuilderInv, SavedFits
  <2> QED BY <1>8, <1>9, <2>1, <2>5, <2>6
<1>10. CASE PreviewPause
  <2>1. PICK e : e = [editor EXCEPT !.timer = FALSE] OBVIOUS
  <2>2. /\ DOMAIN e = EditorFields /\ e.form = editor.form /\ e.edits = editor.edits
        /\ e.original = editor.original /\ e.timer = FALSE /\ e.pending = editor.pending
        /\ e.preview = editor.preview
    BY <1>0, <2>1 DEF EditorFields
  <2>3. RunPreview(e) /\ DefinitionValid(editor) BY <1>10, <2>1 DEF PreviewPause, BuilderInv, FormInv
  <2> QED BY <1>9, <2>2, <2>3
<1>11. CASE PreviewButton BY <1>0, <1>9, <1>11 DEF PreviewButton
<1>12. ASSUME NEW r \in asked, PreviewArrives(r) \/ PreviewFails(r) PROVE BuilderInv'
  <2>1. /\ DOMAIN editor' = EditorFields /\ editor'.form = editor.form /\ editor'.edits = editor.edits
        /\ editor'.original = editor.original /\ editor'.timer = editor.timer /\ editor'.pending = editor.pending
        /\ editor'.preview \in {editor.preview, PreviewOf(r), NoPreview}
        /\ UNCHANGED << options, saved >> /\ asked' \subseteq asked
    BY <1>0, <1>12 DEF PreviewArrives, PreviewFails, EditorFields
  <2>2. PreviewOf(r).key = PreviewOf(r).of BY DEF PreviewOf, BuilderInv, PreviewsFit
  <2>3. PreviewsFit' BY <2>1, <2>2 DEF BuilderInv, PreviewsFit
  <2>4. SavedFits' BY <2>1 DEF BuilderInv, SavedFits
  <2> QED BY <1>8, <2>1, <2>3, <2>4
<1>13. CASE Save
  <2>1. /\ DOMAIN editor' = EditorFields /\ editor'.form = editor.form /\ editor'.edits = editor.edits
        /\ editor'.original = editor.original /\ editor'.timer = editor.timer /\ editor'.pending = editor.pending
        /\ editor'.preview = editor.preview /\ UNCHANGED << options, asked >>
    BY <1>0, <1>13 DEF Save, EditorFields
  <2>2. ServerAccepts(definition(editor)) BY <1>0, <1>13, ValidIsAccepted DEF Save, CanSave, definition, DefinitionValid
  <2>3. editor.preview.of = definition(editor)
    BY <1>13 DEF Save, CanSave, PreviewCurrent, BuilderInv, PreviewsFit
  <2>4. saved'.form = definition(editor) /\ saved'.previewOf = definition(editor) BY <1>13, <2>3 DEF Save
  <2>5. SavedFits' BY <2>2, <2>4 DEF SavedFits
  <2>6. PreviewsFit' BY <2>1 DEF BuilderInv, PreviewsFit
  <2> QED BY <1>8, <2>1, <2>5, <2>6
<1>14. CASE SaveFails \/ CancelSource
  <2>1. /\ DOMAIN editor' = EditorFields /\ editor'.form = editor.form /\ editor'.edits = editor.edits
        /\ editor'.original = editor.original /\ editor'.timer = editor.timer
        /\ editor'.pending \in {editor.pending, None}
        /\ editor'.preview = editor.preview /\ UNCHANGED << options, asked, saved >>
    BY <1>0, <1>14 DEF SaveFails, CancelSource, EditorFields
  <2>2. PreviewsFit' /\ SavedFits' BY <2>1 DEF BuilderInv, PreviewsFit, SavedFits
  <2> QED BY <1>8, <2>1, <2>2
<1>15. CASE UNCHANGED reportVars
  <2>1. UNCHANGED << editor, asked, options, saved >> BY <1>15 DEF reportVars
  <2>2. PreviewsFit' /\ SavedFits' BY <2>1 DEF BuilderInv, PreviewsFit, SavedFits
  <2> QED BY <1>0, <1>8, <2>1, <2>2
<1> QED BY <1>1, <1>2, <1>3, <1>4, <1>5, <1>6, <1>7, <1>10, <1>11, <1>12, <1>13, <1>14, <1>15 DEF ReportNext
-----------------------------------------------------------------------------
(* The announcements                                                       *)

BoardFields  == {"site", "items", "sites", "editor", "error", "busy", "listed", "errands", "dialog"}
EngagementFields == {"of", "n", "started", "seen", "failed", "ticket", "sending"}
ErrandFields == {"kind", "of", "to", "site", "step"}

\* There is one request of who engaged for each dialog, and it is of the
\* dialog with its number until it is answered.
EngagingsFit ==
  /\ board.dialog.n \in Nat
  /\ \A q \in engagings : /\ q.n <= board.dialog.n /\ q.n \in Nat
                          /\ q.n = board.dialog.n => board.dialog.of \in {None, q.of} /\ board.dialog.seen = None
  /\ \A q, r \in engagings : q.n = r.n => q = r

AnnouncementsInv ==
  /\ DOMAIN board = BoardFields /\ DOMAIN board.dialog = EngagementFields /\ board.busy \in BOOLEAN
  /\ \A q \in listings : DOMAIN q = {"n", "site", "awaited", "rows"} /\ q.awaited \in BOOLEAN
  /\ DOMAIN errand = ErrandFields /\ errand.step \in {"none", "asked", "done"}
  /\ EngagingsFit /\ EngagementOfOpen /\ ListComes

LEMMA AnnouncementsInitInv == AnnouncementsInit => AnnouncementsInv
<1> SUFFICES ASSUME AnnouncementsInit PROVE AnnouncementsInv OBVIOUS
<1>1. /\ DOMAIN board = BoardFields /\ board.busy = FALSE /\ board.dialog = Dialog(None, 0, 0)
      /\ errand = NoErrand /\ engagings = {}
  BY DEF AnnouncementsInit, BoardFields
<1>2. /\ DOMAIN board.dialog = EngagementFields /\ board.dialog.n = 0
      /\ board.dialog.seen = None /\ board.dialog.ticket = None
  BY <1>1 DEF Dialog, EngagementFields
<1>0. DOMAIN errand = ErrandFields /\ errand.step = "none" BY <1>1 DEF NoErrand, ErrandFields
<1>3. PICK q : q = [n |-> 1, site |-> None, awaited |-> FALSE, rows |-> None] OBVIOUS
<1>4. listings = {q} /\ q.awaited = FALSE /\ DOMAIN q = {"n", "site", "awaited", "rows"} BY <1>3 DEF AnnouncementsInit
<1>5. ListComes BY <1>0, <1>1, <1>4 DEF ListComes
<1>6. EngagingsFit BY <1>1, <1>2 DEF EngagingsFit
<1>7. EngagementOfOpen BY <1>2 DEF EngagementOfOpen
<1>8. board.busy \in BOOLEAN BY <1>1
<1>9. \A r \in listings : DOMAIN r = {"n", "site", "awaited", "rows"} /\ r.awaited \in BOOLEAN BY <1>4
<1> QED BY <1>0, <1>1, <1>2, <1>5, <1>6, <1>7, <1>8, <1>9 DEF AnnouncementsInv

\* A step that leaves the dialogs.
LEMMA DialogsStay ==
  ASSUME AnnouncementsInv, board'.dialog = board.dialog, engagings' = engagings
  PROVE  EngagingsFit' /\ EngagementOfOpen' /\ DOMAIN board'.dialog = EngagementFields
BY DEF AnnouncementsInv, EngagingsFit, EngagementOfOpen

\* A step that leaves the list and the writes.
LEMMA ListStays ==
  ASSUME AnnouncementsInv, board'.items = board.items, board'.error = board.error, board'.busy = board.busy,
         UNCHANGED << listings, errand >>
  PROVE  /\ ListComes' /\ board'.busy \in BOOLEAN
         /\ \A q \in listings' : DOMAIN q = {"n", "site", "awaited", "rows"} /\ q.awaited \in BOOLEAN
         /\ DOMAIN errand' = ErrandFields /\ errand'.step \in {"none", "asked", "done"}
BY DEF AnnouncementsInv, ListComes

\* A list is asked for: by the page, or at the end of a write that is over.
LEMMA ListingKeeps ==
  ASSUME AnnouncementsInv, NEW p, NEW site, NEW awaited \in BOOLEAN, Listing(p, site, awaited),
         DOMAIN p = BoardFields, p.busy = board.busy, p.dialog = board.dialog, engagings' = engagings,
         \/ ~awaited /\ errand' = errand
         \/ awaited /\ errand.step # "none" /\ errand' = NoErrand
  PROVE  AnnouncementsInv'
<1>1. /\ DOMAIN board' = BoardFields /\ board'.busy = board.busy /\ board'.dialog = board.dialog
  BY DEF Listing, BoardFields
<1>2. PICK q : q = [n |-> p.listed + 1, site |-> site, awaited |-> awaited, rows |-> None] OBVIOUS
<1>3. listings' = listings \cup {q} /\ q.awaited = awaited /\ DOMAIN q = {"n", "site", "awaited", "rows"}
  BY <1>2 DEF Listing
<1>0. DOMAIN NoErrand = ErrandFields /\ NoErrand.step = "none" BY DEF NoErrand, ErrandFields
<1>4. ListComes'
  <2>1. listings' # {} BY <1>3
  <2>2. CASE ~awaited /\ errand' = errand BY <1>1, <1>3, <2>1, <2>2 DEF AnnouncementsInv, ListComes
  <2>3. CASE awaited /\ errand.step # "none" /\ errand' = NoErrand BY <1>0, <1>1, <1>3, <2>1, <2>3 DEF AnnouncementsInv, ListComes
  <2> QED BY <2>2, <2>3
<1>5. EngagingsFit' /\ EngagementOfOpen' /\ DOMAIN board'.dialog = EngagementFields BY <1>1, DialogsStay
<1> QED BY <1>0, <1>1, <1>3, <1>4, <1>5 DEF AnnouncementsInv

\* A write begins: there is none, so no list is awaited.
LEMMA StartKeeps ==
  ASSUME AnnouncementsInv, NEW kind, NEW of, NEW to, NEW p, Start(kind, of, to, p),
         DOMAIN p = BoardFields, p.dialog = board.dialog, p.items = board.items
  PROVE  AnnouncementsInv'
<1>1. /\ DOMAIN board' = BoardFields /\ board'.busy = TRUE /\ board'.dialog = board.dialog
      /\ ~board.busy /\ UNCHANGED << listings, engagings >>
  BY DEF Start, BoardFields
<1>2. PICK e : e = [kind |-> kind, of |-> of, to |-> to, site |-> board.site, step |-> "asked"] OBVIOUS
<1>3. errand' = e /\ DOMAIN e = ErrandFields /\ e.step = "asked" BY <1>2 DEF Start, ErrandFields
<1>4. ListComes' BY <1>1, <1>3 DEF AnnouncementsInv, ListComes
<1>5. EngagingsFit' /\ EngagementOfOpen' /\ DOMAIN board'.dialog = EngagementFields BY <1>1, DialogsStay
<1> QED BY <1>1, <1>3, <1>4, <1>5 DEF AnnouncementsInv

LEMMA AnnouncementsInvNext == AnnouncementsInv /\ (AnnouncementsNext \/ UNCHANGED announcementVars) => AnnouncementsInv'
<1> SUFFICES ASSUME AnnouncementsInv, AnnouncementsNext \/ UNCHANGED announcementVars PROVE AnnouncementsInv' OBVIOUS
<1>0. /\ DOMAIN board = BoardFields /\ DOMAIN board.dialog = EngagementFields /\ board.busy \in BOOLEAN
      /\ DOMAIN errand = ErrandFields
  BY DEF AnnouncementsInv
\* Steps of the dialogs.
<1>1. ASSUME NEW d, board' = [board EXCEPT !.dialog = d], UNCHANGED << listings, errand >>,
             DOMAIN d = EngagementFields, EngagingsFit', EngagementOfOpen'
      PROVE  AnnouncementsInv'
  <2>1. /\ DOMAIN board' = BoardFields /\ board'.items = board.items /\ board'.error = board.error
        /\ board'.busy = board.busy /\ board'.dialog = d
    BY <1>0, <1>1 DEF BoardFields
  <2> QED BY <1>1, <2>1, ListStays DEF AnnouncementsInv
<1>2. ASSUME NEW a, OpenEngagement(a) PROVE AnnouncementsInv'
  <2>1. PICK d : d = Dialog(a, board.dialog.n + 1, board.dialog.started) OBVIOUS
  <2>2. /\ DOMAIN d = EngagementFields /\ d.of = a /\ d.n = board.dialog.n + 1 /\ d.seen = None /\ d.ticket = None
    BY <2>1 DEF Dialog, EngagementFields
  <2>3. board' = [board EXCEPT !.dialog = d] /\ UNCHANGED << listings, errand >> BY <1>2, <2>1 DEF OpenEngagement
  <2>4. board'.dialog = d BY <1>0, <2>3 DEF BoardFields
  <2>5. PICK q : q = [n |-> board.dialog.n + 1, of |-> a] OBVIOUS
  <2>6. engagings' = engagings \cup {q} /\ q.n = board.dialog.n + 1 /\ q.of = a BY <1>2, <2>5 DEF OpenEngagement
  <2>7. EngagingsFit' BY <2>2, <2>4, <2>6 DEF AnnouncementsInv, EngagingsFit
  <2>8. EngagementOfOpen' BY <2>2, <2>4 DEF EngagementOfOpen
  <2> QED BY <1>1, <2>2, <2>3, <2>7, <2>8
<1>3. CASE CloseEngagement
  <2>1. PICK d : d = Dialog(None, board.dialog.n, board.dialog.started) OBVIOUS
  <2>2. /\ DOMAIN d = EngagementFields /\ d.of = None /\ d.n = board.dialog.n /\ d.seen = None /\ d.ticket = None
    BY <2>1 DEF Dialog, EngagementFields
  <2>3. board' = [board EXCEPT !.dialog = d] /\ UNCHANGED << listings, errand, engagings >>
    BY <1>3, <2>1 DEF CloseEngagement
  <2>4. board'.dialog = d BY <1>0, <2>3 DEF BoardFields
  <2>5. EngagingsFit' BY <2>2, <2>3, <2>4 DEF AnnouncementsInv, EngagingsFit
  <2>6. EngagementOfOpen' BY <2>2, <2>4 DEF EngagementOfOpen
  <2> QED BY <1>1, <2>2, <2>3, <2>5, <2>6
<1>4. ASSUME NEW q \in engagings, engagings' = engagings \ {q}, ~Current(q), board' = board, UNCHANGED << listings, errand >>
      PROVE  AnnouncementsInv'
  <2>1. EngagingsFit' /\ EngagementOfOpen' BY <1>4 DEF AnnouncementsInv, EngagingsFit, EngagementOfOpen
  <2> QED BY <1>4, <2>1, ListStays DEF AnnouncementsInv
<1>5. ASSUME NEW q \in engagings, EngagementArrives(q) PROVE AnnouncementsInv'
  <2>1. CASE Current(q)
    <3>1. PICK readers \in SUBSET Readers : board' = [board EXCEPT !.dialog.seen = [of |-> q.of, readers |-> readers]]
      BY <1>5, <2>1 DEF EngagementArrives
    <3>2. PICK seen : seen = [of |-> q.of, readers |-> readers] OBVIOUS
    <3>3. PICK d : d = [board.dialog EXCEPT !.seen = seen] OBVIOUS
    <3>4. board' = [board EXCEPT !.dialog = d] BY <3>1, <3>2, <3>3
    <3>5. /\ DOMAIN d = EngagementFields /\ d.seen = seen /\ seen.of = q.of /\ d.n = board.dialog.n
          /\ d.of = board.dialog.of /\ d.ticket = board.dialog.ticket
      BY <1>0, <3>2, <3>3 DEF EngagementFields
    <3>6. board'.dialog = d BY <1>0, <3>4 DEF BoardFields
    <3>7. /\ engagings' = engagings \ {q} /\ q.n = board.dialog.n /\ board.dialog.of = q.of
          /\ board.dialog.seen = None /\ board.dialog.ticket = None
      BY <1>5, <2>1 DEF EngagementArrives, Current, AnnouncementsInv, EngagingsFit, EngagementOfOpen
    <3>8. EngagingsFit' BY <3>5, <3>6, <3>7 DEF AnnouncementsInv, EngagingsFit
    <3>9. EngagementOfOpen' BY <3>5, <3>6, <3>7 DEF EngagementOfOpen
    <3> QED BY <1>1, <1>5, <3>4, <3>5, <3>8, <3>9 DEF EngagementArrives
  <2>2. CASE ~Current(q) BY <1>4, <1>5, <2>2 DEF EngagementArrives
  <2> QED BY <2>1, <2>2
<1>6. ASSUME NEW d, board' = [board EXCEPT !.dialog = d], UNCHANGED << listings, errand >>, engagings' \subseteq engagings,
             DOMAIN d = EngagementFields, d.of = board.dialog.of, d.n = board.dialog.n, d.seen = board.dialog.seen,
             d.ticket = None \/ (d.seen # None /\ d.ticket \in d.seen.readers)
      PROVE  AnnouncementsInv'
  <2>1. board'.dialog = d BY <1>0, <1>6 DEF BoardFields
  <2>2. EngagingsFit' BY <1>6, <2>1 DEF AnnouncementsInv, EngagingsFit
  <2>3. EngagementOfOpen' BY <1>6, <2>1 DEF AnnouncementsInv, EngagementOfOpen
  <2> QED BY <1>1, <1>6, <2>2, <2>3
<1>7. ASSUME NEW q \in engagings, EngagementFails(q) PROVE AnnouncementsInv'
  <2>1. CASE Current(q)
    <3>1. PICK d : d = [board.dialog EXCEPT !.failed = TRUE] OBVIOUS
    <3>2. /\ DOMAIN d = EngagementFields /\ d.seen = board.dialog.seen /\ d.n = board.dialog.n
          /\ d.of = board.dialog.of /\ d.ticket = board.dialog.ticket
      BY <1>0, <3>1 DEF EngagementFields
    <3>3. board' = [board EXCEPT !.dialog = d] BY <1>7, <2>1, <3>1 DEF EngagementFails
    <3>4. d.ticket = None \/ (d.seen # None /\ d.ticket \in d.seen.readers)
      BY <3>2 DEF AnnouncementsInv, EngagementOfOpen
    <3>5. UNCHANGED << listings, errand >> /\ engagings' \subseteq engagings BY <1>7 DEF EngagementFails
    <3> QED BY <1>6, <3>2, <3>3, <3>4, <3>5
  <2>2. CASE ~Current(q) BY <1>4, <1>7, <2>2 DEF EngagementFails
  <2> QED BY <2>1, <2>2
<1>8. ASSUME NEW r, OpenTicket(r) PROVE AnnouncementsInv'
  <2>1. PICK d : d = [board.dialog EXCEPT !.ticket = r, !.sending = FALSE, !.started = @ + 1] OBVIOUS
  <2>2. /\ DOMAIN d = EngagementFields /\ d.seen = board.dialog.seen /\ d.n = board.dialog.n
        /\ d.of = board.dialog.of /\ d.ticket = r
    BY <1>0, <2>1 DEF EngagementFields
  <2>3. board' = [board EXCEPT !.dialog = d] BY <1>8, <2>1 DEF OpenTicket
  <2> QED BY <1>6, <1>8, <2>2, <2>3 DEF OpenTicket
<1>9. ASSUME board' = [board EXCEPT !.dialog.ticket = None], UNCHANGED << listings, errand, engagings >>
      PROVE  AnnouncementsInv'
  <2>1. PICK d : d = [board.dialog EXCEPT !.ticket = None] OBVIOUS
  <2>2. /\ DOMAIN d = EngagementFields /\ d.seen = board.dialog.seen /\ d.n = board.dialog.n
        /\ d.of = board.dialog.of /\ d.ticket = None
    BY <1>0, <2>1 DEF EngagementFields
  <2>3. board' = [board EXCEPT !.dialog = d] BY <1>9, <2>1
  <2> QED BY <1>6, <1>9, <2>2, <2>3
<1>10. ASSUME NEW s, board' = [board EXCEPT !.dialog.sending = s], UNCHANGED << listings, errand, engagings >>
      PROVE  AnnouncementsInv'
  <2>1. PICK d : d = [board.dialog EXCEPT !.sending = s] OBVIOUS
  <2>2. /\ DOMAIN d = EngagementFields /\ d.seen = board.dialog.seen /\ d.n = board.dialog.n
        /\ d.of = board.dialog.of /\ d.ticket = board.dialog.ticket
    BY <1>0, <2>1 DEF EngagementFields
  <2>3. board' = [board EXCEPT !.dialog = d] BY <1>10, <2>1
  <2>4. d.ticket = None \/ (d.seen # None /\ d.ticket \in d.seen.readers)
    BY <2>2 DEF AnnouncementsInv, EngagementOfOpen
  <2> QED BY <1>6, <1>10, <2>2, <2>3, <2>4
<1>11. CASE CloseTicket BY <1>9, <1>11 DEF CloseTicket
<1>12. CASE SendTicket BY <1>10, <1>12 DEF SendTicket
<1>13. ASSUME NEW q, TicketCreated(q) PROVE AnnouncementsInv' BY <1>9, <1>13 DEF TicketCreated
<1>14. ASSUME NEW q, TicketFails(q) PROVE AnnouncementsInv'
  <2>1. PICK s : s = (board.dialog.sending /\ q.n # board.dialog.started) OBVIOUS
  <2>2. board' = [board EXCEPT !.dialog.sending = s] BY <1>14, <2>1 DEF TicketFails
  <2> QED BY <1>10, <1>14, <2>2 DEF TicketFails
\* Steps of the list and the writes.
<1>15. ASSUME DOMAIN board' = BoardFields, board'.dialog = board.dialog, UNCHANGED << engagings, listings, errand >>,
              board'.items = board.items, board'.busy = board.busy, board.error => board'.error
       PROVE  AnnouncementsInv'
  <2>1. ListComes' BY <1>15 DEF AnnouncementsInv, ListComes
  <2>2. EngagingsFit' /\ EngagementOfOpen' /\ DOMAIN board'.dialog = EngagementFields BY <1>15, DialogsStay
  <2> QED BY <1>15, <2>1, <2>2 DEF AnnouncementsInv
<1>16. CASE SitesAnswered
  <2>1. /\ DOMAIN board' = BoardFields /\ board'.dialog = board.dialog /\ board'.items = board.items
        /\ board'.busy = board.busy /\ (board.error => board'.error)
    BY <1>0, <1>16 DEF SitesAnswered, BoardFields
  <2> QED BY <1>15, <1>16, <2>1 DEF SitesAnswered
<1>17. ASSUME NEW e, board' = [board EXCEPT !.editor = e], UNCHANGED << engagings, listings, errand >>
       PROVE  AnnouncementsInv'
  <2>1. /\ DOMAIN board' = BoardFields /\ board'.dialog = board.dialog /\ board'.items = board.items
        /\ board'.busy = board.busy /\ board'.error = board.error
    BY <1>0, <1>17 DEF BoardFields
  <2> QED BY <1>15, <1>17, <2>1
<1>18. ASSUME NEW a, OpenEditor(a) PROVE AnnouncementsInv' BY <1>17, <1>18 DEF OpenEditor
<1>19. ASSUME NEW site, NEW title, EditAnnouncement(site, title) PROVE AnnouncementsInv'
  <2>1. PICK e : e = [board.editor EXCEPT !.site = site, !.title = title] OBVIOUS
  <2>2. board' = [board EXCEPT !.editor = e] BY <1>19, <2>1 DEF EditAnnouncement
  <2> QED BY <1>17, <1>19, <2>2 DEF EditAnnouncement
<1>20. CASE CloseEditor BY <1>17, <1>20 DEF CloseEditor
<1>21. ASSUME NEW s, ChooseSite(s) PROVE AnnouncementsInv'
  <2>1. PICK p : p = [board EXCEPT !.site = s, !.items = None] OBVIOUS
  <2>2. DOMAIN p = BoardFields /\ p.busy = board.busy /\ p.dialog = board.dialog BY <1>0, <2>1 DEF BoardFields
  <2>3. Listing(p, s, FALSE) /\ engagings' = engagings /\ errand' = errand BY <1>21, <2>1 DEF ChooseSite
  <2> QED BY <2>2, <2>3, ListingKeeps
<1>22. CASE ErrandDone
  <2>1. PICK p : p = [board EXCEPT !.editor = IF errand.kind = "save" THEN ClosedEditor ELSE @] OBVIOUS
  <2>2. DOMAIN p = BoardFields /\ p.busy = board.busy /\ p.dialog = board.dialog BY <1>0, <2>1 DEF BoardFields
  <2>3. Listing(p, errand.site, TRUE) /\ engagings' = engagings /\ errand' = NoErrand /\ errand.step # "none"
    BY <1>22, <2>1 DEF ErrandDone
  <2> QED BY <2>2, <2>3, ListingKeeps
<1>23. CASE ErrandFails
  <2>1. /\ DOMAIN board' = BoardFields /\ board'.dialog = board.dialog /\ board'.error = TRUE /\ board'.busy = FALSE
        /\ errand' = NoErrand /\ errand.step # "none" /\ UNCHANGED << listings, engagings >>
    BY <1>0, <1>23 DEF ErrandFails, BoardFields
  <2>2. DOMAIN NoErrand = ErrandFields /\ NoErrand.step = "none" BY DEF NoErrand, ErrandFields
  <2>3. ListComes' BY <2>1, <2>2 DEF AnnouncementsInv, ListComes
  <2>4. EngagingsFit' /\ EngagementOfOpen' /\ DOMAIN board'.dialog = EngagementFields BY <2>1, DialogsStay
  <2> QED BY <2>1, <2>2, <2>3, <2>4 DEF AnnouncementsInv
<1>24. CASE SaveAnnouncement
  <2>1. PICK p : p = [board EXCEPT !.error = FALSE] OBVIOUS
  <2>2. DOMAIN p = BoardFields /\ p.dialog = board.dialog /\ p.items = board.items BY <1>0, <2>1 DEF BoardFields
  <2>3. Start("save", board.editor.of, board.editor.site, p) BY <1>24, <2>1 DEF SaveAnnouncement
  <2> QED BY <2>2, <2>3, StartKeeps
<1>25. ASSUME NEW a, NEW kind, CardAction(a, kind) PROVE AnnouncementsInv'
  <2>1. Start(kind, a, None, board) BY <1>25 DEF CardAction
  <2> QED BY <1>0, <2>1, StartKeeps
<1>26. CASE WriteAnnouncement
  <2>1. /\ UNCHANGED << board, listings, engagings >> /\ errand.step = "asked" /\ errand' = [errand EXCEPT !.step = "done"]
    BY <1>26 DEF WriteAnnouncement
  <2>2. DOMAIN errand' = ErrandFields /\ errand'.step = "done" BY <1>0, <2>1 DEF ErrandFields
  <2>3. ListComes' BY <2>1, <2>2 DEF AnnouncementsInv, ListComes
  <2>4. EngagingsFit' /\ EngagementOfOpen' /\ DOMAIN board'.dialog = EngagementFields BY <2>1, DialogsStay
  <2> QED BY <2>1, <2>2, <2>3, <2>4 DEF AnnouncementsInv
<1>27. ASSUME NEW q \in listings, ServeListing(q) PROVE AnnouncementsInv'
  <2>1. PICK r : r = [q EXCEPT !.rows = [a \in OfSite(q.site) |-> published[a]]] OBVIOUS
  <2>2. DOMAIN r = {"n", "site", "awaited", "rows"} /\ r.awaited = q.awaited /\ q.awaited \in BOOLEAN
    BY <2>1 DEF AnnouncementsInv
  <2>3. listings' = (listings \ {q}) \cup {r} /\ UNCHANGED << board, errand, engagings >> BY <1>27, <2>1 DEF ServeListing
  <2>4. ListComes' BY <2>2, <2>3 DEF AnnouncementsInv, ListComes
  <2>5. EngagingsFit' /\ EngagementOfOpen' /\ DOMAIN board'.dialog = EngagementFields BY <2>3, DialogsStay
  <2> QED BY <2>2, <2>3, <2>4, <2>5 DEF AnnouncementsInv
<1>28. ASSUME NEW q \in listings, ListingArrives(q) \/ ListingFails(q) PROVE AnnouncementsInv'
  <2>1. PICK items : \/ items # None /\ board' = Released(q, [board EXCEPT !.items = items])
                     \/ board' = Released(q, [board EXCEPT !.error = TRUE])
    BY <1>28 DEF ListingArrives, ListingFails
  <2>2. listings' = listings \ {q} /\ UNCHANGED << errand, engagings >> BY <1>28 DEF ListingArrives, ListingFails
  <2>3. /\ DOMAIN board' = BoardFields /\ board'.dialog = board.dialog /\ board'.busy = (board.busy /\ ~q.awaited)
        /\ board'.items # None \/ board'.error
    BY <1>0, <2>1 DEF Released, BoardFields
  <2>4. q.awaited \in BOOLEAN BY DEF AnnouncementsInv
  <2>5. ListComes'
    <3>1. CASE q.awaited BY <2>2, <2>3, <3>1 DEF AnnouncementsInv, ListComes
    <3>2. CASE ~q.awaited BY <2>2, <2>3, <3>2 DEF AnnouncementsInv, ListComes
    <3> QED BY <2>4, <3>1, <3>2
  <2>6. board'.busy \in BOOLEAN BY <2>3
  <2>7. EngagingsFit' /\ EngagementOfOpen' /\ DOMAIN board'.dialog = EngagementFields BY <2>2, <2>3, DialogsStay
  <2> QED BY <2>2, <2>3, <2>5, <2>6, <2>7 DEF AnnouncementsInv
<1>29. CASE UNCHANGED announcementVars
  <2>1. UNCHANGED << board, listings, errand, engagings >> BY <1>29 DEF announcementVars
  <2> QED BY <1>0, <1>15, <2>1
<1> QED BY <1>2, <1>3, <1>5, <1>7, <1>8, <1>11, <1>12, <1>13, <1>14, <1>16, <1>18, <1>19, <1>20, <1>21, <1>22, <1>23,
           <1>24, <1>25, <1>26, <1>27, <1>28, <1>29 DEF AnnouncementsNext

-----------------------------------------------------------------------------
(* The services                                                            *)

TabFields  == {"known", "rows", "drafts", "busy", "error", "shown", "calls", "asked", "hurried"}
CallFields == {"n", "kind", "of", "fields", "mark", "step", "rows"}
Marks      == ServiceIds \cup {None, "new"}
KeyKinds   == {"rotate", "revoke"}

TabFits ==
  /\ DOMAIN tab = TabFields /\ DOMAIN tab.shown = {"of", "key"}
  /\ tab.calls \in Nat /\ tab.asked \in [ServiceIds -> Nat] /\ tab.shown.key \in Nat
  /\ tab.shown.of \in ServiceIds \cup {None}
  /\ tab.shown.key <= tab.calls /\ \A s \in ServiceIds : tab.asked[s] <= tab.calls

\* Two requests that are not for the list have different numbers.
RequestsFit ==
  /\ \A q \in serviceCalls :
       /\ DOMAIN q = CallFields /\ q.n \in Nat /\ q.n <= tab.calls /\ q.mark \in Marks
       /\ q.kind \in {"list", "create", "save"} \cup KeyKinds /\ q.step \in {"asked", "done"}
       /\ q.kind # "list" => q.n > 0 /\ (q.kind # "create" \/ q.step = "done" => q.of \in ServiceIds)
  /\ \A q, r \in serviceCalls : q.kind # "list" /\ r.kind # "list" /\ q.n = r.n => q = r

\* A service that a card shows, or a list on its way, is on the server.
CardsAreServices ==
  /\ \A s \in ServiceIds : tab.rows[s].exists => serviceRows[s].exists
  /\ \A q \in serviceCalls, s \in ServiceIds :
       q.kind = "list" /\ q.step = "done" => (q.rows[s].exists => serviceRows[s].exists)

HasKey(s, n) == serviceRows[s].exists /\ serviceRows[s].active /\ serviceRows[s].key = n

\* The last request for a key of a service whose requests were made one by one
\* is the one in flight, and its key works as soon as it is served; a new
\* service has the key it was created with until another is asked for.
KeysFit ==
  /\ DOMAIN serviceRows = ServiceIds
  /\ \A s \in ServiceIds : /\ DOMAIN serviceRows[s] = {"exists", "fields", "key", "active"}
                           /\ ~serviceRows[s].exists => tab.asked[s] = 0
  /\ \A q \in serviceCalls : q.kind \in KeyKinds =>
       /\ q.n <= tab.asked[q.of]
       /\ q.of \notin tab.hurried => q.n = tab.asked[q.of] /\ (q.kind = "rotate" /\ q.step = "done" => HasKey(q.of, q.n))
  /\ \A q \in serviceCalls : q.kind = "create" /\ q.step = "done" =>
       IF tab.asked[q.of] = 0 THEN HasKey(q.of, q.n) ELSE q.n < tab.asked[q.of]

\* The request whose key is shown is over.
ShownFits ==
  tab.shown.of # None =>
    /\ tab.shown.key <= tab.asked[tab.shown.of] \/ tab.asked[tab.shown.of] = 0
    /\ \A q \in serviceCalls : q.kind # "list" => q.n # tab.shown.key

ServicesInv == TabFits /\ RequestsFit /\ CardsAreServices /\ KeysFit /\ ShownFits /\ KeyWorks /\ ServicesCome

LEMMA RequestIs ==
  ASSUME NEW n, NEW kind, NEW s, NEW fields, NEW mark, NEW q, q = Request(n, kind, s, fields, mark)
  PROVE  DOMAIN q = CallFields /\ q.n = n /\ q.kind = kind /\ q.of = s /\ q.mark = mark /\ q.step = "asked"
BY DEF Request, CallFields

LEMMA ServicesInitInv == ServicesInit => ServicesInv
<1> SUFFICES ASSUME ServicesInit PROVE ServicesInv OBVIOUS
<1> USE ServiceAssumption
<1>1. PICK q : q = Request(0, "list", None, 0, None) OBVIOUS
<1>2. /\ serviceCalls = {q} /\ DOMAIN q = CallFields /\ q.n = 0 /\ q.kind = "list" /\ q.mark = None /\ q.step = "asked"
  BY <1>1, RequestIs DEF ServicesInit
<1>3. /\ DOMAIN tab = TabFields /\ DOMAIN tab.shown = {"of", "key"} /\ tab.calls = 0 /\ tab.busy = {}
      /\ tab.asked = [s \in ServiceIds |-> 0] /\ tab.rows = [s \in ServiceIds |-> NoService] /\ tab.hurried = {}
      /\ tab.shown.of = None /\ tab.shown.key = 0
  BY DEF ServicesInit, TabFields
<1>4. TabFits BY <1>3 DEF TabFits
<1>5. RequestsFit BY <1>2, <1>3 DEF RequestsFit, Marks
<1>6. \A s \in ServiceIds : ~tab.rows[s].exists BY <1>3 DEF NoService
<1>7. CardsAreServices BY <1>2, <1>6 DEF CardsAreServices
<1>8. \A s \in ServiceIds : DOMAIN serviceRows[s] = {"exists", "fields", "key", "active"}
  BY DEF ServicesInit, NoService, NewService
<1>9. KeysFit BY <1>2, <1>3, <1>8 DEF KeysFit, KeyKinds, ServicesInit
<1>10. ShownFits /\ KeyWorks BY <1>3 DEF ShownFits, KeyWorks
<1>11. ServicesCome BY <1>2, <1>3 DEF ServicesCome
<1> QED BY <1>4, <1>5, <1>7, <1>9, <1>10, <1>11 DEF ServicesInv

\* A request is made: its mark is free, and its number is new.
LEMMA AskKeeps ==
  ASSUME ServicesInv, NEW kind, NEW s, NEW fields, NEW mark \in Marks, NEW t, Ask(kind, s, fields, mark, t),
         mark = None \/ mark \notin tab.busy, DOMAIN t = TabFields, t.known = tab.known, t.rows = tab.rows, t.busy = tab.busy,
         t.shown = tab.shown, t.calls = tab.calls,
         \/ /\ kind \in {"create", "save"} /\ (kind = "create" \/ s \in ServiceIds)
            /\ t.asked = tab.asked /\ t.hurried = tab.hurried
         \/ /\ kind \in KeyKinds /\ s \in ServiceIds /\ tab.rows[s].exists
            /\ t.asked = [tab.asked EXCEPT ![s] = tab.calls + 1]
            /\ t.hurried = IF KeyCalls(s) = {} THEN tab.hurried ELSE tab.hurried \cup {s}
  PROVE  ServicesInv'
<1> USE ServiceAssumption
<1>1. PICK q : q = Request(tab.calls + 1, kind, s, fields, mark) OBVIOUS
<1>2. DOMAIN q = CallFields /\ q.n = tab.calls + 1 /\ q.kind = kind /\ q.of = s /\ q.mark = mark /\ q.step = "asked"
  BY <1>1, RequestIs
<1>3. serviceCalls' = serviceCalls \cup {q} /\ UNCHANGED serviceRows BY <1>1 DEF Ask
<1>4. /\ DOMAIN tab' = TabFields /\ tab'.known = tab.known /\ tab'.rows = tab.rows /\ tab'.shown = tab.shown
      /\ tab'.calls = tab.calls + 1 /\ tab'.asked = t.asked /\ tab'.hurried = t.hurried
      /\ tab'.busy = IF mark = None THEN tab.busy ELSE tab.busy \cup {mark}
  BY DEF Ask, TabFields
<1>5. /\ tab.calls \in Nat /\ tab.asked \in [ServiceIds -> Nat] /\ tab.shown.key \in Nat /\ tab.shown.of \in ServiceIds \cup {None}
      /\ tab.shown.key <= tab.calls /\ \A x \in ServiceIds : tab.asked[x] <= tab.calls
  BY DEF ServicesInv, TabFits
<1>6. \A x \in ServiceIds : \/ tab'.asked[x] = tab.asked[x]
                            \/ x = s /\ kind \in KeyKinds /\ tab.rows[x].exists /\ tab'.asked[x] = tab.calls + 1
  BY <1>4, <1>5
<1>7. tab'.asked \in [ServiceIds -> Nat] BY <1>4, <1>5
<1>8. TabFits' BY <1>4, <1>5, <1>6, <1>7 DEF ServicesInv, TabFits
<1>9. RequestsFit' BY <1>2, <1>3, <1>4, <1>5 DEF ServicesInv, RequestsFit, KeyKinds
<1>10. CardsAreServices' BY <1>2, <1>3, <1>4 DEF ServicesInv, CardsAreServices
<1>11. KeysFit'
  <2>1. \A x \in ServiceIds : /\ DOMAIN serviceRows'[x] = {"exists", "fields", "key", "active"}
                              /\ ~serviceRows'[x].exists => tab'.asked[x] = 0
    BY <1>3, <1>6 DEF ServicesInv, KeysFit, CardsAreServices
  <2>2. ASSUME NEW r \in serviceCalls, r.kind \in KeyKinds
        PROVE  /\ r.n <= tab'.asked[r.of]
               /\ r.of \notin tab'.hurried => /\ r.n = tab'.asked[r.of]
                                              /\ r.kind = "rotate" /\ r.step = "done" => HasKey(r.of, r.n)'
    <3>1. r.of \in ServiceIds /\ r.n \in Nat /\ r.n <= tab.calls BY <2>2 DEF ServicesInv, RequestsFit, KeyKinds
    <3>2. r.n <= tab.asked[r.of] BY <2>2 DEF ServicesInv, KeysFit
    <3>3. r.n <= tab'.asked[r.of] BY <1>5, <1>6, <3>1, <3>2
    <3>4. ASSUME r.of \notin tab'.hurried PROVE tab'.asked[r.of] = tab.asked[r.of] /\ r.of \notin tab.hurried
      <4>1. r.of \notin tab.hurried BY <1>4, <3>4
      <4>2. r.of = s => r \in KeyCalls(s) BY <2>2 DEF KeyCalls, KeyKinds
      <4>3. CASE kind \in KeyKinds BY <1>4, <1>6, <3>1, <3>4, <4>1, <4>2, <4>3 DEF KeyKinds
      <4>4. CASE kind \notin KeyKinds BY <1>6, <3>1, <4>1, <4>4
      <4> QED BY <4>3, <4>4
    <3>5. HasKey(r.of, r.n)' <=> HasKey(r.of, r.n) BY <1>3 DEF HasKey
    <3> QED BY <2>2, <3>3, <3>4, <3>5 DEF ServicesInv, KeysFit
  <2>3. q.kind \in KeyKinds => q.n <= tab'.asked[q.of] /\ q.n = tab'.asked[q.of]
    BY <1>2, <1>4, <1>5 DEF KeyKinds
  <2>4. ASSUME NEW r \in serviceCalls, r.kind = "create", r.step = "done"
        PROVE  IF tab'.asked[r.of] = 0 THEN HasKey(r.of, r.n)' ELSE r.n < tab'.asked[r.of]
    <3>1. r.of \in ServiceIds /\ r.n \in Nat /\ r.n <= tab.calls BY <2>4 DEF ServicesInv, RequestsFit, KeyKinds
    <3>2. HasKey(r.of, r.n)' <=> HasKey(r.of, r.n) BY <1>3 DEF HasKey
    <3>3. IF tab.asked[r.of] = 0 THEN HasKey(r.of, r.n) ELSE r.n < tab.asked[r.of] BY <2>4 DEF ServicesInv, KeysFit
    <3>4. tab'.asked[r.of] = tab.asked[r.of] \/ tab'.asked[r.of] = tab.calls + 1 BY <1>6, <3>1
    <3> QED BY <1>5, <3>1, <3>2, <3>3, <3>4
  <2>5. DOMAIN serviceRows' = ServiceIds BY <1>3 DEF ServicesInv, KeysFit
  <2> QED BY <1>2, <1>3, <2>1, <2>2, <2>3, <2>4, <2>5 DEF KeysFit, KeyKinds
<1>12. ShownFits' BY <1>2, <1>3, <1>4, <1>5, <1>6 DEF ServicesInv, ShownFits
<1>13. KeyWorks'
  <2> DEFINE x == tab.shown.of
  <2> SUFFICES ASSUME x # None, x \notin tab'.hurried, tab'.asked[x] <= tab.shown.key
               PROVE  serviceRows[x].exists /\ serviceRows[x].active /\ serviceRows[x].key = tab.shown.key
    BY <1>3, <1>4 DEF KeyWorks
  <2>1. x \in ServiceIds BY <1>5
  <2>2. tab'.asked[x] = tab.asked[x] BY <1>5, <1>6, <2>1
  <2>3. x \notin tab.hurried BY <1>4
  <2> QED BY <2>2, <2>3 DEF ServicesInv, KeyWorks
<1>14. ServicesCome' BY <1>2, <1>3, <1>4 DEF ServicesInv, ServicesCome, Marks
<1> QED BY <1>8, <1>9, <1>10, <1>11, <1>12, <1>13, <1>14 DEF ServicesInv

\* A step that makes no request and serves none.
LEMMA KeysStay ==
  ASSUME ServicesInv, serviceCalls' \subseteq serviceCalls, UNCHANGED serviceRows, DOMAIN tab' = TabFields,
         tab'.shown = tab.shown, tab'.calls = tab.calls, tab'.asked = tab.asked, tab'.hurried = tab.hurried
  PROVE  TabFits' /\ RequestsFit' /\ KeysFit' /\ ShownFits' /\ KeyWorks'
<1>1. TabFits' BY DEF ServicesInv, TabFits
<1>2. RequestsFit' BY DEF ServicesInv, RequestsFit
<1>3. \A s, n : HasKey(s, n)' <=> HasKey(s, n) BY DEF HasKey
<1>4. KeysFit' BY <1>3 DEF ServicesInv, KeysFit
<1>5. ShownFits' BY DEF ServicesInv, ShownFits
<1>6. KeyWorks' BY DEF ServicesInv, KeyWorks
<1> QED BY <1>1, <1>2, <1>4, <1>5, <1>6

\* What a request that is served leaves of the row of its service.
LEMMA RowServed ==
  ASSUME NEW q, NEW row, DOMAIN row = {"exists", "fields", "key", "active"},
         q.kind \in {"create", "save"} \cup KeyKinds, NEW new, new = AfterRequest(q, row)
  PROVE  /\ DOMAIN new = {"exists", "fields", "key", "active"}
         /\ q.kind = "create" => new.exists /\ new.active /\ new.key = q.n
         /\ q.kind = "save" => new.exists = row.exists /\ new.active = row.active /\ new.key = row.key
         /\ q.kind = "rotate" => new.exists = row.exists /\ new.active /\ new.key = q.n
         /\ q.kind = "revoke" => new.exists = row.exists
<1>1. CASE q.kind = "create" BY <1>1 DEF AfterRequest, NewService
<1>2. CASE q.kind = "save" BY <1>2 DEF AfterRequest
<1>3. CASE q.kind = "rotate" BY <1>3 DEF AfterRequest
<1>4. CASE q.kind = "revoke" BY <1>4 DEF AfterRequest
<1> QED BY <1>1, <1>2, <1>3, <1>4 DEF KeyKinds

LEMMA ServeKeeps == ASSUME ServicesInv, NEW s \in ServiceIds, NEW q \in serviceCalls, ServeService(q, s) PROVE ServicesInv'
<1> USE ServiceAssumption
<1>1. PICK r : r = [q EXCEPT !.step = "done", !.of = s] OBVIOUS
<1>2. PICK new : new = AfterRequest(q, serviceRows[s]) OBVIOUS
<1>3. /\ q.step = "asked" /\ q.kind # "list" /\ q.n > 0 /\ q.n \in Nat /\ q.n <= tab.calls /\ q.mark \in Marks
      /\ DOMAIN q = CallFields /\ q.kind \in {"create", "save"} \cup KeyKinds
  BY DEF ServeService, ServicesInv, RequestsFit
<1>4. DOMAIN r = CallFields /\ r.n = q.n /\ r.kind = q.kind /\ r.of = s /\ r.mark = q.mark /\ r.step = "done"
  BY <1>1, <1>3 DEF CallFields
<1>5. serviceCalls' = (serviceCalls \ {q}) \cup {r} /\ UNCHANGED tab BY <1>1 DEF ServeService
<1>6. /\ DOMAIN serviceRows = ServiceIds /\ DOMAIN serviceRows[s] = {"exists", "fields", "key", "active"}
      /\ ~serviceRows[s].exists => tab.asked[s] = 0
  BY DEF ServicesInv, KeysFit
<1>7. serviceRows' = [serviceRows EXCEPT ![s] = new] BY <1>2 DEF ServeService
<1>8. DOMAIN serviceRows' = ServiceIds /\ serviceRows'[s] = new /\ \A x \in ServiceIds : x # s => serviceRows'[x] = serviceRows[x]
  BY <1>6, <1>7
<1>9. /\ DOMAIN new = {"exists", "fields", "key", "active"}
      /\ q.kind = "create" => new.exists /\ new.active /\ new.key = q.n
      /\ q.kind = "save" => new.exists = serviceRows[s].exists /\ new.active = serviceRows[s].active /\ new.key = serviceRows[s].key
      /\ q.kind = "rotate" => new.exists = serviceRows[s].exists /\ new.active /\ new.key = q.n
      /\ q.kind = "revoke" => new.exists = serviceRows[s].exists
  BY <1>2, <1>3, <1>6, RowServed
<1>10. q.kind = "create" => ~serviceRows[s].exists BY DEF ServeService
<1>11. q.kind # "create" => q.of = s BY DEF ServeService
<1>12. \A x \in ServiceIds : serviceRows[x].exists => serviceRows'[x].exists
  BY <1>3, <1>8, <1>9 DEF KeyKinds
<1>13. TabFits' BY <1>5 DEF ServicesInv, TabFits
<1>14. RequestsFit' BY <1>3, <1>4, <1>5 DEF ServicesInv, RequestsFit
<1>15. CardsAreServices' BY <1>3, <1>4, <1>5, <1>12 DEF ServicesInv, CardsAreServices
\* A key of a service stays unless it is the service of the request.
<1>16. ASSUME NEW x \in ServiceIds, NEW n, HasKey(x, n), q.kind \in {"rotate", "revoke"} => x # s
       PROVE  HasKey(x, n)'
  <2>1. CASE x # s BY <1>8, <1>16, <2>1 DEF HasKey
  <2>2. CASE x = s
    <3>1. q.kind = "save" BY <1>3, <1>10, <1>16, <2>2 DEF HasKey, KeyKinds
    <3> QED BY <1>8, <1>9, <1>16, <2>2, <3>1 DEF HasKey
  <2> QED BY <2>1, <2>2
<1>17. q.kind \in KeyKinds => q.n <= tab.asked[s] /\ (s \notin tab.hurried => q.n = tab.asked[s])
  BY <1>11 DEF ServicesInv, KeysFit, KeyKinds
<1>18. KeysFit'
  <2>1. \A x \in ServiceIds : /\ DOMAIN serviceRows'[x] = {"exists", "fields", "key", "active"}
                              /\ ~serviceRows'[x].exists => tab'.asked[x] = 0
    BY <1>5, <1>8, <1>9, <1>12 DEF ServicesInv, KeysFit
  <2>2. q.kind \in {"create", "rotate"} => HasKey(s, q.n)'
    <3>1. CASE q.kind = "create" BY <1>8, <1>9, <3>1 DEF HasKey
    <3>2. CASE q.kind = "rotate"
      <4>1. serviceRows[s].exists BY <1>3, <1>6, <1>17, <3>2 DEF KeyKinds
      <4> QED BY <1>8, <1>9, <3>2, <4>1 DEF HasKey
    <3> QED BY <3>1, <3>2
  <2>3. ASSUME NEW p \in serviceCalls, p # q, p.kind \in KeyKinds
        PROVE  /\ p.n <= tab.asked[p.of]
               /\ p.of \notin tab.hurried => /\ p.n = tab.asked[p.of]
                                             /\ p.kind = "rotate" /\ p.step = "done" => HasKey(p.of, p.n)'
    <3>1. p.of \in ServiceIds /\ p.kind # "list" BY <2>3 DEF ServicesInv, RequestsFit, KeyKinds
    <3>2. p.n # q.n BY <1>3, <2>3, <3>1 DEF ServicesInv, RequestsFit
    <3>3. /\ p.n <= tab.asked[p.of]
          /\ p.of \notin tab.hurried => p.n = tab.asked[p.of] /\ (p.kind = "rotate" /\ p.step = "done" => HasKey(p.of, p.n))
      BY <2>3 DEF ServicesInv, KeysFit
    <3>4. p.of \notin tab.hurried /\ q.kind \in KeyKinds => p.of # s BY <1>17, <3>2, <3>3
    <3> QED BY <1>16, <3>1, <3>3, <3>4 DEF KeyKinds
  <2>4. ASSUME NEW p \in serviceCalls, p # q, p.kind = "create", p.step = "done"
        PROVE  IF tab.asked[p.of] = 0 THEN HasKey(p.of, p.n)' ELSE p.n < tab.asked[p.of]
    <3>1. p.of \in ServiceIds BY <2>4 DEF ServicesInv, RequestsFit
    <3>2. IF tab.asked[p.of] = 0 THEN HasKey(p.of, p.n) ELSE p.n < tab.asked[p.of] BY <2>4 DEF ServicesInv, KeysFit
    <3>3. q.kind \in KeyKinds /\ p.of = s => tab.asked[p.of] # 0 BY <1>3, <1>17 DEF ServicesInv, TabFits
    <3> QED BY <1>16, <3>1, <3>2, <3>3 DEF KeyKinds
  <2>5. q.kind = "create" => tab.asked[s] = 0 BY <1>6, <1>10
  <2> QED BY <1>4, <1>5, <1>8, <1>17, <2>1, <2>2, <2>3, <2>4, <2>5 DEF KeysFit, KeyKinds
<1>19. ShownFits' BY <1>3, <1>4, <1>5 DEF ServicesInv, ShownFits
<1>20. KeyWorks'
  <2>1. PICK x : x = tab.shown.of OBVIOUS
  <2>2. PICK n : n = tab.shown.key OBVIOUS
  <2> SUFFICES ASSUME x # None, x \notin tab.hurried, tab.asked[x] <= n PROVE HasKey(x, n)'
    BY <1>5, <2>1, <2>2 DEF KeyWorks, HasKey
  <2>3. x \in ServiceIds /\ n \in Nat /\ tab.asked[x] \in Nat BY <2>1, <2>2 DEF ServicesInv, TabFits
  <2>4. HasKey(x, n) BY <2>1, <2>2 DEF ServicesInv, KeyWorks, HasKey
  <2>5. q.n # n /\ (n <= tab.asked[x] \/ tab.asked[x] = 0) BY <1>3, <2>1, <2>2 DEF ServicesInv, ShownFits
  <2>6. q.kind \in {"rotate", "revoke"} => x # s BY <1>3, <1>17, <2>3, <2>5 DEF KeyKinds
  <2> QED BY <1>16, <2>3, <2>4, <2>6
<1>21. ServicesCome' BY <1>3, <1>4, <1>5 DEF ServicesInv, ServicesCome
<1> QED BY <1>13, <1>14, <1>15, <1>18, <1>19, <1>20, <1>21 DEF ServicesInv

\* A request is answered: its key is shown, and the list follows it.
LEMMA AnswerKeeps == ASSUME ServicesInv, NEW q \in serviceCalls, Answered(q) PROVE ServicesInv'
<1> USE ServiceAssumption
<1>1. PICK r : r = Request(q.n, "list", None, 0, q.mark) OBVIOUS
<1>2. DOMAIN r = CallFields /\ r.n = q.n /\ r.kind = "list" /\ r.mark = q.mark /\ r.step = "asked" BY <1>1, RequestIs
<1>3. /\ q.step = "done" /\ q.kind # "list" /\ q.n > 0 /\ q.n \in Nat /\ q.n <= tab.calls /\ q.mark \in Marks
      /\ q.of \in ServiceIds
  BY DEF Answered, ServicesInv, RequestsFit
<1>4. serviceCalls' = (serviceCalls \ {q}) \cup {r} /\ UNCHANGED serviceRows BY <1>1 DEF Answered
<1>5. PICK shown : shown = [of |-> q.of, key |-> q.n] OBVIOUS
<1>6. DOMAIN shown = {"of", "key"} /\ shown.of = q.of /\ shown.key = q.n BY <1>5
<1>7. /\ DOMAIN tab' = TabFields /\ tab'.known = tab.known /\ tab'.rows = tab.rows /\ tab'.busy = tab.busy
      /\ tab'.error = tab.error /\ tab'.calls = tab.calls /\ tab'.asked = tab.asked /\ tab'.hurried = tab.hurried
      /\ tab'.shown = IF q.kind \in {"create", "rotate"} THEN shown ELSE tab.shown
  BY <1>5 DEF Answered, ServicesInv, TabFits, TabFields
<1>8. TabFits' BY <1>3, <1>6, <1>7 DEF ServicesInv, TabFits
<1>9. RequestsFit' BY <1>2, <1>3, <1>4, <1>7 DEF ServicesInv, RequestsFit
<1>10. CardsAreServices' BY <1>2, <1>4, <1>7 DEF ServicesInv, CardsAreServices
<1>11. \A s, n : HasKey(s, n)' <=> HasKey(s, n) BY <1>4 DEF HasKey
<1>12. KeysFit' BY <1>2, <1>4, <1>7, <1>11 DEF ServicesInv, KeysFit, KeyKinds
<1>13. ASSUME q.kind \in {"create", "rotate"} PROVE q.n <= tab.asked[q.of] \/ tab.asked[q.of] = 0
  BY <1>3, <1>13 DEF ServicesInv, KeysFit, KeyKinds, TabFits
<1>14. ShownFits'
  <2>1. \A p \in serviceCalls : p # q /\ p.kind # "list" => p.n # q.n BY <1>3 DEF ServicesInv, RequestsFit
  <2> QED BY <1>2, <1>4, <1>6, <1>7, <1>13, <2>1 DEF ServicesInv, ShownFits
<1>15. KeyWorks'
  <2>1. CASE q.kind \in {"create", "rotate"}
    <3>1. tab'.shown.of = q.of /\ tab'.shown.key = q.n BY <1>6, <1>7, <2>1
    <3> SUFFICES ASSUME q.of \notin tab.hurried, tab.asked[q.of] <= q.n PROVE HasKey(q.of, q.n)
      BY <1>4, <1>7, <3>1 DEF KeyWorks, HasKey
    <3>2. tab.asked[q.of] \in Nat BY <1>3 DEF ServicesInv, TabFits
    <3>3. CASE q.kind = "create" BY <1>3, <3>2, <3>3 DEF ServicesInv, KeysFit
    <3>4. CASE q.kind = "rotate" BY <1>3, <3>4 DEF ServicesInv, KeysFit, KeyKinds
    <3> QED BY <2>1, <3>3, <3>4
  <2>2. CASE q.kind \notin {"create", "rotate"} BY <1>4, <1>7, <2>2 DEF ServicesInv, KeyWorks
  <2> QED BY <2>1, <2>2
<1>16. ServicesCome' BY <1>2, <1>4, <1>7 DEF ServicesInv, ServicesCome
<1> QED BY <1>8, <1>9, <1>10, <1>12, <1>14, <1>15, <1>16 DEF ServicesInv

LEMMA ServicesInvNext == ServicesInv /\ (ServicesNext \/ UNCHANGED serviceVars) => ServicesInv'
<1> SUFFICES ASSUME ServicesInv, ServicesNext \/ UNCHANGED serviceVars PROVE ServicesInv' OBVIOUS
<1> USE ServiceAssumption
<1>0. DOMAIN tab = TabFields /\ tab.calls \in Nat /\ tab.asked \in [ServiceIds -> Nat] BY DEF ServicesInv, TabFits
<1>1. CASE CreateService
  <2>1. "new" \notin tab.busy /\ Ask("create", None, 0, "new", tab) BY <1>1 DEF CreateService
  <2> QED BY <1>0, <2>1, AskKeeps DEF Marks
<1>2. ASSUME NEW s \in ServiceIds, EditService(s) PROVE ServicesInv'
  <2>1. /\ DOMAIN tab' = TabFields /\ tab'.shown = tab.shown /\ tab'.calls = tab.calls /\ tab'.asked = tab.asked
        /\ tab'.hurried = tab.hurried /\ tab'.known = tab.known /\ tab'.rows = tab.rows /\ tab'.busy = tab.busy
        /\ tab'.error = tab.error /\ UNCHANGED << serviceRows, serviceCalls >>
    BY <1>0, <1>2 DEF EditService, TabFields
  <2>2. CardsAreServices' /\ ServicesCome' BY <2>1 DEF ServicesInv, CardsAreServices, ServicesCome
  <2> QED BY <2>1, <2>2, KeysStay DEF ServicesInv
<1>3. ASSUME NEW s \in ServiceIds, SaveService(s) PROVE ServicesInv'
  <2>1. s \notin tab.busy /\ Ask("save", s, tab.drafts[s], s, tab) BY <1>3 DEF SaveService
  <2> QED BY <1>0, <2>1, AskKeeps DEF Marks
<1>4. ASSUME NEW s \in ServiceIds, NEW kind \in {"rotate", "revoke"}, AskKey(kind, s) PROVE ServicesInv'
  <2>1. PICK t : t = [tab EXCEPT !.asked[s] = tab.calls + 1, !.hurried = IF KeyCalls(s) = {} THEN @ ELSE @ \cup {s}]
    OBVIOUS
  <2>2. tab.rows[s].exists /\ Ask(kind, s, 0, None, t) BY <1>4, <2>1 DEF AskKey
  <2>3. /\ DOMAIN t = TabFields /\ t.known = tab.known /\ t.rows = tab.rows /\ t.busy = tab.busy
        /\ t.shown = tab.shown /\ t.calls = tab.calls /\ t.asked = [tab.asked EXCEPT ![s] = tab.calls + 1]
        /\ t.hurried = IF KeyCalls(s) = {} THEN tab.hurried ELSE tab.hurried \cup {s}
    BY <1>0, <2>1 DEF TabFields
  <2> QED BY <1>4, <2>2, <2>3, AskKeeps DEF Marks, KeyKinds
<1>5. ASSUME NEW s \in ServiceIds, NEW q \in serviceCalls, ServeService(q, s) PROVE ServicesInv' BY <1>5, ServeKeeps
<1>6. ASSUME NEW q \in serviceCalls, ListServices(q) PROVE ServicesInv'
  <2>1. PICK r : r = [q EXCEPT !.step = "done", !.rows = serviceRows] OBVIOUS
  <2>2. DOMAIN q = CallFields /\ q.kind = "list" BY <1>6 DEF ListServices, ServicesInv, RequestsFit
  <2>3. DOMAIN r = CallFields /\ r.n = q.n /\ r.kind = "list" /\ r.mark = q.mark /\ r.step = "done" /\ r.rows = serviceRows
    BY <2>1, <2>2 DEF CallFields
  <2>4. serviceCalls' = (serviceCalls \ {q}) \cup {r} /\ UNCHANGED << serviceRows, tab >> BY <1>6, <2>1 DEF ListServices
  <2>5. TabFits' /\ KeyWorks' BY <2>4 DEF ServicesInv, TabFits, KeyWorks
  <2>6. RequestsFit' BY <2>2, <2>3, <2>4 DEF ServicesInv, RequestsFit
  <2>7. CardsAreServices' BY <2>3, <2>4 DEF ServicesInv, CardsAreServices
  <2>8. \A s, n : HasKey(s, n)' <=> HasKey(s, n) BY <2>4 DEF HasKey
  <2>9. KeysFit' BY <2>3, <2>4, <2>8 DEF ServicesInv, KeysFit, KeyKinds
  <2>10. ShownFits' BY <2>3, <2>4 DEF ServicesInv, ShownFits
  <2>11. ServicesCome' BY <2>2, <2>3, <2>4 DEF ServicesInv, ServicesCome
  <2> QED BY <2>5, <2>6, <2>7, <2>9, <2>10, <2>11 DEF ServicesInv
<1>7. ASSUME NEW q \in serviceCalls, ServicesArrive(q) PROVE ServicesInv'
  <2>1. /\ q.step = "done" /\ q.kind = "list" /\ serviceCalls' = serviceCalls \ {q} /\ UNCHANGED serviceRows
    BY <1>7 DEF ServicesArrive
  <2>2. PICK drafts : drafts = [s \in ServiceIds |-> q.rows[s].fields] OBVIOUS
  <2>3. tab' = Over(q, [tab EXCEPT !.known = TRUE, !.rows = q.rows, !.error = FALSE, !.drafts = drafts])
    BY <1>7, <2>2 DEF ServicesArrive
  <2>4. /\ DOMAIN tab' = TabFields /\ tab'.shown = tab.shown /\ tab'.calls = tab.calls /\ tab'.asked = tab.asked
        /\ tab'.hurried = tab.hurried /\ tab'.known = TRUE /\ tab'.rows = q.rows /\ tab'.busy = tab.busy \ {q.mark}
    BY <1>0, <2>3 DEF Over, TabFields
  <2>5. CardsAreServices' BY <2>1, <2>4 DEF ServicesInv, CardsAreServices
  <2>6. ServicesCome' BY <2>1, <2>4 DEF ServicesInv, ServicesCome
  <2> QED BY <2>1, <2>4, <2>5, <2>6, KeysStay DEF ServicesInv
<1>8. ASSUME NEW q \in serviceCalls, Answered(q) PROVE ServicesInv' BY <1>8, AnswerKeeps
<1>9. ASSUME NEW q \in serviceCalls, RequestFails(q) PROVE ServicesInv'
  <2>1. serviceCalls' = serviceCalls \ {q} /\ UNCHANGED serviceRows BY <1>9 DEF RequestFails
  <2>2. /\ DOMAIN tab' = TabFields /\ tab'.shown = tab.shown /\ tab'.calls = tab.calls /\ tab'.asked = tab.asked
        /\ tab'.hurried = tab.hurried /\ tab'.error = TRUE /\ tab'.rows = tab.rows /\ tab'.busy = tab.busy \ {q.mark}
    BY <1>0, <1>9 DEF RequestFails, Over, TabFields
  <2>3. CardsAreServices' BY <2>1, <2>2 DEF ServicesInv, CardsAreServices
  <2>4. ServicesCome' BY <2>1, <2>2 DEF ServicesInv, ServicesCome
  <2> QED BY <2>1, <2>2, <2>3, <2>4, KeysStay DEF ServicesInv
<1>10. CASE UNCHANGED serviceVars
  <2>1. UNCHANGED << serviceRows, tab, serviceCalls >> BY <1>10 DEF serviceVars
  <2>2. CardsAreServices' /\ ServicesCome' BY <2>1 DEF ServicesInv, CardsAreServices, ServicesCome
  <2> QED BY <1>0, <2>1, <2>2, KeysStay DEF ServicesInv
<1> QED BY <1>1, <1>2, <1>3, <1>4, <1>5, <1>6, <1>7, <1>8, <1>9, <1>10 DEF ServicesNext

-----------------------------------------------------------------------------
(* The search index                                                        *)

IndexFields  == {"enabled", "lowDisk", "state", "cutoff", "logCutoff", "next", "failed"}
TableFields  == {"sessions", "logs", "found", "mapped", "triggers"}
WorkerFields == {"token", "timer", "failures", "at", "enabled", "unrecorded"}
CardFields   == {"status", "error", "busy", "confirming"}
PollFields   == {"at", "status", "again"}
SwitchFields == {"at", "enable", "status", "lost"}

SearchTyped ==
  /\ DOMAIN index = IndexFields /\ index.cutoff \in Nat /\ index.logCutoff \in Nat /\ index.next \in Nat
  /\ index.state \in {"off", "building", "ready", "dropping"}
  /\ DOMAIN tables = TableFields /\ tables.sessions \subseteq Rows /\ DOMAIN tables.logs \subseteq 1..MaxLogRows
  /\ \A id \in DOMAIN tables.logs : tables.logs[id] \in tables.sessions
  /\ DOMAIN worker = WorkerFields /\ DOMAIN card = CardFields /\ DOMAIN poll = PollFields /\ DOMAIN call = SwitchFields

Document(id) == << tables.logs[id], id >>

\* A recording that the build has still to come to, and a log it will bring.
ToBuild(r) == index.state = "building" /\ index.next < r /\ r <= index.cutoff
LogToBuild(id) == ToBuild(tables.logs[id]) /\ id <= index.logCutoff

\* While the triggers are at work, what is found exists, what exists is found
\* or will be, and the logs that are found can be found by their ids.
RowsFollow ==
  /\ tables.triggers <=> index.state \in {"building", "ready"}
  /\ index.state = "off" => tables.found = {} /\ tables.mapped = {}
  /\ index.state \in {"building", "ready"} =>
       /\ \A d \in tables.found : (\E r \in tables.sessions : d = Row(r)) \/ \E id \in DOMAIN tables.logs : d = Document(id)
       /\ \A id \in DOMAIN tables.logs : Document(id) \in tables.found => id \in tables.mapped
       /\ \A r \in tables.sessions : Row(r) \in tables.found \/ ToBuild(r)
       /\ \A id \in DOMAIN tables.logs : Document(id) \in tables.found \/ LogToBuild(id)

\* A worker at a step has read the switch as it is, or is woken again.
WorkFollows ==
  /\ worker.at = "step" => worker.enabled = index.enabled \/ worker.token
  /\ WorkIsTakenUp

\* What the poll and the switch bring is as the server has it, and the buttons
\* are off while a switch is under way.
CardKnows ==
  /\ call.at # "none" => card.busy
  /\ poll.at = "read" /\ call.at # "stored" /\ ~call.lost /\ ~index.lowDisk => poll.status.enabled = index.enabled
  /\ call.at = "stored" /\ ~index.lowDisk => call.status.enabled = index.enabled
  /\ SwitchAsStored /\ CardFollows

SearchInv == SearchTyped /\ RowsFollow /\ WorkFollows /\ CardKnows

LEMMA MaxOfRows ==
  ASSUME NEW n \in Nat, NEW S \in SUBSET (1..n)
  PROVE  Max(S \cup {0}) \in S \cup {0} /\ Max(S \cup {0}) \in Nat /\ \A x \in S : x <= Max(S \cup {0})
<1>0. \A x \in S \cup {0} : x \in Nat /\ x <= n /\ n - x \in Nat
  <2> SUFFICES ASSUME NEW x \in S \cup {0} PROVE x \in Nat /\ x <= n OBVIOUS
  <2>1. CASE x = 0 BY <2>1
  <2>2. CASE x \in S
    <3>1. x \in 1..n BY <2>2
    <3> QED BY <3>1
  <2> QED BY <2>1, <2>2
<1> DEFINE T == {n - x : x \in S \cup {0}}
<1>1. T \in SUBSET Nat /\ T # {}
  <2>1. n - 0 \in T OBVIOUS
  <2>2. \A t \in T : t \in Nat BY <1>0
  <2> QED BY <2>1, <2>2
<1>2. PICK m \in T : \A y \in T : m <= y BY <1>1, SmallestNat
<1>3. PICK x \in S \cup {0} : m = n - x BY <1>2
<1>4. \A y \in S \cup {0} : x >= y
  <2> TAKE y \in S \cup {0}
  <2>1. n - y \in T OBVIOUS
  <2>2. n - x <= n - y BY <1>2, <1>3, <2>1
  <2>3. x \in Nat /\ y \in Nat BY <1>0
  <2> QED BY <2>2, <2>3
<1>5. PICK max : max = Max(S \cup {0}) OBVIOUS
<1>6. max \in S \cup {0} /\ \A y \in S \cup {0} : max >= y BY <1>4, <1>5 DEF Max
<1>7. max \in Nat BY <1>0, <1>6
<1>8. \A y \in S : y <= max
  <2> TAKE y \in S
  <2>1. y \in Nat /\ max >= y BY <1>0, <1>6
  <2> QED BY <1>7, <2>1
<1> QED BY <1>5, <1>6, <1>7, <1>8

LEMMA MinOfRows ==
  ASSUME NEW T \in SUBSET Nat, T # {}
  PROVE  Min(T) \in T /\ \A x \in T : Min(T) <= x
<1>1. \E m \in T : \A x \in T : m <= x BY SmallestNat
<1> QED BY <1>1 DEF Min

\* An index that is ready and follows its rows has each of them.
LEMMA ReadyIsWhole == SearchTyped /\ RowsFollow => IndexIsWhole
<1> SUFFICES ASSUME SearchTyped, RowsFollow, index.state = "ready"
             PROVE  tables.found = UNION {Documents(r) : r \in tables.sessions}
  BY DEF IndexIsWhole
<1>1. ASSUME NEW d \in tables.found PROVE \E r \in tables.sessions : d \in Documents(r)
  <2>1. CASE \E r \in tables.sessions : d = Row(r) BY <2>1 DEF Documents
  <2>2. CASE \E id \in DOMAIN tables.logs : d = Document(id)
    <3>1. PICK id \in DOMAIN tables.logs : d = Document(id) BY <2>2
    <3>2. tables.logs[id] \in tables.sessions BY DEF SearchTyped
    <3>3. id \in LogsOf(tables.logs[id]) BY DEF LogsOf
    <3>4. d \in Documents(tables.logs[id]) BY <3>1, <3>3 DEF Documents, Document
    <3> QED BY <3>2, <3>4
  <2> QED BY <2>1, <2>2 DEF RowsFollow
<1>2. ASSUME NEW r \in tables.sessions, NEW d \in Documents(r) PROVE d \in tables.found
  <2>1. \A x : ~ToBuild(x) BY DEF ToBuild
  <2>2. CASE d = Row(r) BY <2>1, <2>2 DEF RowsFollow
  <2>3. CASE \E id \in LogsOf(r) : d = << r, id >>
    <3>1. PICK id \in LogsOf(r) : d = << r, id >> BY <2>3
    <3>2. id \in DOMAIN tables.logs /\ d = Document(id) BY <3>1 DEF LogsOf, Document
    <3> QED BY <2>1, <3>2 DEF RowsFollow, LogToBuild
  <2> QED BY <2>2, <2>3 DEF Documents
<1> QED BY <1>1, <1>2

LEMMA SearchInitInv == SearchOpens => SearchInv
<1> SUFFICES ASSUME SearchOpens PROVE SearchInv OBVIOUS
<1> USE SearchIndexAssumption
<1>1. PICK enabled \in BOOLEAN : index = NothingBuilt(enabled, FALSE) BY DEF SearchOpens
<1>2. /\ DOMAIN index = IndexFields /\ index.state = "off" /\ index.cutoff = 0 /\ index.logCutoff = 0 /\ index.next = 0
  BY <1>1 DEF NothingBuilt, IndexFields
<1>3. /\ DOMAIN tables = TableFields /\ tables.sessions = {1} /\ tables.logs = [id \in {1} |-> 1]
      /\ tables.found = {} /\ tables.mapped = {} /\ tables.triggers = FALSE
  BY DEF SearchOpens, TableFields
<1>4. DOMAIN worker = WorkerFields /\ worker.token = TRUE /\ worker.at = "idle" BY DEF SearchOpens, WorkerFields
<1>5. DOMAIN card = CardFields /\ card.status = None /\ DOMAIN poll = PollFields /\ poll.at = "sent"
  BY DEF SearchOpens, CardFields, PollFields
<1>6. DOMAIN call = SwitchFields /\ call.at = "none" BY DEF SearchOpens, SwitchFields
<1>7. SearchTyped BY <1>2, <1>3, <1>4, <1>5, <1>6 DEF SearchTyped, Rows
<1>8. RowsFollow BY <1>2, <1>3 DEF RowsFollow
<1>9. WorkFollows BY <1>4 DEF WorkFollows, WorkIsTakenUp
<1>10. CardKnows BY <1>5, <1>6 DEF CardKnows, SwitchAsStored, CardFollows
<1> QED BY <1>7, <1>8, <1>9, <1>10 DEF SearchInv


\* What the triggers make of a write.
LEMMA WriteIs ==
  ASSUME NEW t, NEW more, NEW fewer, Written(t, more, fewer), DOMAIN t = TableFields,
         t.found = tables.found, t.mapped = tables.mapped, t.triggers = tables.triggers
  PROVE  /\ DOMAIN tables' = TableFields /\ tables'.sessions = t.sessions /\ tables'.logs = t.logs
         /\ tables'.triggers = tables.triggers
         /\ ~tables.triggers => tables'.found = tables.found /\ tables'.mapped = tables.mapped
         /\ tables.triggers => /\ \A d : d \in tables'.found <=> (d \in tables.found /\ d \notin fewer) \/ d \in more
                               /\ \A i \in tables.mapped : (\A d \in fewer : d[2] # i) => i \in tables'.mapped
                               /\ \A d \in more : d[2] # 0 => d[2] \in tables'.mapped
<1>1. CASE t.triggers
  <2>1. PICK gone : gone = {d[2] : d \in fewer} OBVIOUS
  <2>2. PICK new : new = {d[2] : d \in more} OBVIOUS
  <2>3. tables' = [t EXCEPT !.found = (@ \ fewer) \cup more, !.mapped = (@ \ gone) \cup (new \ {0})]
    BY <1>1, <2>1, <2>2 DEF Written
  <2>4. /\ DOMAIN tables' = TableFields /\ tables'.sessions = t.sessions /\ tables'.logs = t.logs
        /\ tables'.triggers = t.triggers /\ tables'.found = (t.found \ fewer) \cup more
        /\ tables'.mapped = (t.mapped \ gone) \cup (new \ {0})
    BY <2>3 DEF TableFields
  <2>5. \A i \in tables.mapped : (\A d \in fewer : d[2] # i) => i \in tables'.mapped BY <2>1, <2>4
  <2>6. \A d \in more : d[2] # 0 => d[2] \in tables'.mapped BY <2>2, <2>4
  <2> QED BY <1>1, <2>4, <2>5, <2>6
<1>2. CASE ~t.triggers BY <1>2 DEF Written
<1> QED BY <1>1, <1>2

\* A step beside the worker and the card.
LEMMA OthersKeep ==
  ASSUME SearchInv, UNCHANGED << index, worker, card, poll, call >>, SearchTyped', RowsFollow'
  PROVE  SearchInv'
<1>1. WorkFollows' BY DEF SearchInv, WorkFollows, WorkIsTakenUp
<1>2. CardKnows' BY DEF SearchInv, CardKnows, SwitchAsStored, CardFollows
<1> QED BY <1>1, <1>2 DEF SearchInv

LEMMA AddSessionKeeps == SearchInv /\ AddSession => SearchInv'
<1> SUFFICES ASSUME SearchInv, AddSession PROVE SearchInv' OBVIOUS
<1>1. PICK r : r = Next1(tables.sessions) OBVIOUS
<1>2. PICK t : t = [tables EXCEPT !.sessions = @ \cup {r}] OBVIOUS
<1>3. r \in Rows /\ Written(t, {Row(r)}, {}) /\ UNCHANGED << index, worker, card, poll, call >>
  BY <1>1, <1>2 DEF AddSession, ByOthers
<1>4. /\ DOMAIN t = TableFields /\ t.found = tables.found /\ t.mapped = tables.mapped /\ t.triggers = tables.triggers
      /\ t.sessions = tables.sessions \cup {r} /\ t.logs = tables.logs
  BY <1>2 DEF SearchInv, SearchTyped, TableFields
<1>5. /\ DOMAIN tables' = TableFields /\ tables'.sessions = tables.sessions \cup {r} /\ tables'.logs = tables.logs
      /\ tables'.triggers = tables.triggers
      /\ ~tables.triggers => tables'.found = tables.found /\ tables'.mapped = tables.mapped
      /\ tables.triggers => /\ \A d : d \in tables'.found <=> d \in tables.found \/ d = Row(r)
                            /\ tables.mapped \subseteq tables'.mapped
  BY <1>3, <1>4, WriteIs
<1>6. SearchTyped' BY <1>3, <1>5 DEF SearchInv, SearchTyped
<1>7. RowsFollow'
  <2>1. CASE index.state \in {"building", "ready"}
    <3>1. tables.triggers BY <2>1 DEF SearchInv, RowsFollow
    <3>2. \A id : id \notin DOMAIN tables.logs \/ (Document(id)' = Document(id) /\ Document(id) # Row(r))
      BY <1>5 DEF Document, Row, SearchInv, SearchTyped
    <3>3. \A x : ToBuild(x)' <=> ToBuild(x) BY <1>3 DEF ToBuild
    <3>4. \A id : LogToBuild(id)' <=> LogToBuild(id) BY <1>3, <1>5 DEF LogToBuild, ToBuild
    <3> QED BY <1>3, <1>5, <2>1, <3>1, <3>2, <3>3, <3>4 DEF SearchInv, RowsFollow
  <2>2. CASE index.state \notin {"building", "ready"} BY <1>3, <1>5, <2>2 DEF SearchInv, RowsFollow
  <2> QED BY <2>1, <2>2
<1> QED BY <1>3, <1>6, <1>7, OthersKeep

LEMMA AddLogKeeps == ASSUME SearchInv, NEW r \in tables.sessions, AddLog(r) PROVE SearchInv'
<1> USE SearchIndexAssumption
<1>1. PICK new : new = Next1(DOMAIN tables.logs) OBVIOUS
<1>2. PICK logs : logs = WithLog(tables.logs, new, r) OBVIOUS
<1>3. PICK t : t = [tables EXCEPT !.logs = logs] OBVIOUS
<1>4. new \in 1..MaxLogRows /\ Written(t, {<< r, new >>}, {}) /\ UNCHANGED << index, worker, card, poll, call >>
  BY <1>1, <1>2, <1>3 DEF AddLog, ByOthers
<1>5. new \notin DOMAIN tables.logs
  <2>1. DOMAIN tables.logs \in SUBSET (1..MaxLogRows) BY DEF SearchInv, SearchTyped
  <2>2. /\ Max(DOMAIN tables.logs \cup {0}) \in DOMAIN tables.logs \cup {0}
        /\ \A x \in DOMAIN tables.logs : x <= Max(DOMAIN tables.logs \cup {0})
    BY <2>1, MaxOfRows
  <2> QED BY <1>1, <2>1, <2>2 DEF Next1
<1>6. /\ DOMAIN t = TableFields /\ t.found = tables.found /\ t.mapped = tables.mapped /\ t.triggers = tables.triggers
      /\ t.sessions = tables.sessions /\ t.logs = logs
  BY <1>3 DEF SearchInv, SearchTyped, TableFields
<1>7. PICK more : more = {<< r, new >>} OBVIOUS
<1>8. /\ DOMAIN tables' = TableFields /\ tables'.sessions = tables.sessions /\ tables'.logs = logs
      /\ tables'.triggers = tables.triggers
      /\ ~tables.triggers => tables'.found = tables.found /\ tables'.mapped = tables.mapped
      /\ tables.triggers => /\ \A d : d \in tables'.found <=> d \in tables.found \/ d \in more
                            /\ tables.mapped \subseteq tables'.mapped
                            /\ \A d \in more : d[2] # 0 => d[2] \in tables'.mapped
  <2>1. Written(t, more, {}) BY <1>4, <1>7
  <2> QED BY <1>6, <2>1, WriteIs
<1>9. tables.triggers => new \in tables'.mapped
  <2>1. << r, new >> \in more /\ << r, new >>[2] = new /\ new # 0 BY <1>4, <1>7
  <2> QED BY <1>8, <2>1
<1>10. /\ DOMAIN logs = DOMAIN tables.logs \cup {new} /\ logs[new] = r
       /\ \A id \in DOMAIN tables.logs : logs[id] = tables.logs[id]
  BY <1>2, <1>5 DEF WithLog
<1>11. SearchTyped' BY <1>4, <1>8, <1>10 DEF SearchInv, SearchTyped
<1>12. RowsFollow'
  <2>1. CASE index.state \in {"building", "ready"}
    <3>1. tables.triggers BY <2>1 DEF SearchInv, RowsFollow
    <3>2. Document(new)' = << r, new >> /\ \A id \in DOMAIN tables.logs : Document(id)' = Document(id) /\ Document(id) \notin more
      BY <1>5, <1>7, <1>8, <1>10 DEF Document
    <3>3. \A x : ToBuild(x)' <=> ToBuild(x) BY <1>4 DEF ToBuild
    <3>4. \A id \in DOMAIN tables.logs : LogToBuild(id)' <=> LogToBuild(id)
      BY <1>4, <1>8, <1>10 DEF LogToBuild, ToBuild
    <3>5. \A x \in tables.sessions : Row(x) \notin more BY <1>4, <1>7 DEF Row
    <3>6. \A d \in tables'.found : (\E x \in tables.sessions : d = Row(x)) \/ \E id \in DOMAIN logs : d = Document(id)'
      <4>1. SUFFICES ASSUME NEW d \in tables'.found
                     PROVE  (\E x \in tables.sessions : d = Row(x)) \/ \E id \in DOMAIN logs : d = Document(id)'
        OBVIOUS
      <4>2. CASE d \in more BY <1>7, <1>10, <3>2, <4>2
      <4>3. CASE d \in tables.found BY <1>10, <2>1, <3>2, <4>3 DEF SearchInv, RowsFollow
      <4> QED BY <1>8, <3>1, <4>1, <4>2, <4>3
    <3>7. \A id \in DOMAIN logs : Document(id)' \in tables'.found => id \in tables'.mapped
      BY <1>8, <1>9, <1>10, <2>1, <3>1, <3>2 DEF SearchInv, RowsFollow
    <3>8. \A x \in tables.sessions : Row(x) \in tables'.found \/ ToBuild(x)'
      BY <1>8, <2>1, <3>1, <3>3 DEF SearchInv, RowsFollow
    <3>9. \A id \in DOMAIN logs : Document(id)' \in tables'.found \/ LogToBuild(id)'
      BY <1>7, <1>8, <1>10, <2>1, <3>1, <3>2, <3>4 DEF SearchInv, RowsFollow
    <3>10. \A x : Row(x)' = Row(x) BY DEF Row
    <3> QED BY <1>4, <1>8, <2>1, <3>1, <3>6, <3>7, <3>8, <3>9, <3>10 DEF RowsFollow
  <2>2. CASE index.state \notin {"building", "ready"} BY <1>4, <1>8, <2>2 DEF SearchInv, RowsFollow
  <2> QED BY <2>1, <2>2
<1> QED BY <1>4, <1>11, <1>12, OthersKeep

\* Logs are deleted with the documents found by their ids, and a recording
\* with its own and those of its logs.
LEMMA DeleteKeeps ==
  ASSUME SearchInv, NEW t, NEW fewer, Written(t, {}, fewer), UNCHANGED << index, worker, card, poll, call >>,
         NEW gone, NEW left, DOMAIN t = TableFields, t.found = tables.found, t.mapped = tables.mapped,
         t.triggers = tables.triggers, t.sessions = left, left \subseteq tables.sessions,
         t.logs = Kept(tables.logs, gone),
         \A id \in DOMAIN tables.logs \ gone : tables.logs[id] \in left,
         \A r \in tables.sessions \ left : Row(r) \in fewer,
         \A id \in gone \cap DOMAIN tables.logs : Document(id) \in fewer \/ id \notin tables.mapped,
         \A d \in fewer : \/ \E r \in tables.sessions \ left : d = Row(r)
                          \/ \E id \in gone \cap DOMAIN tables.logs : d = Document(id)
  PROVE  SearchInv'
<1> USE SearchIndexAssumption
<1>1. /\ DOMAIN t.logs = DOMAIN tables.logs \ gone
      /\ \A id \in DOMAIN tables.logs \ gone : t.logs[id] = tables.logs[id]
  BY DEF Kept
<1>2. /\ DOMAIN tables' = TableFields /\ tables'.sessions = left /\ tables'.logs = t.logs
      /\ tables'.triggers = tables.triggers
      /\ ~tables.triggers => tables'.found = tables.found /\ tables'.mapped = tables.mapped
      /\ tables.triggers => /\ \A d : d \in tables'.found <=> d \in tables.found /\ d \notin fewer
                            /\ \A i \in tables.mapped : (\A d \in fewer : d[2] # i) => i \in tables'.mapped
  BY WriteIs
<1>3. SearchTyped' BY <1>1, <1>2 DEF SearchInv, SearchTyped
<1>4. RowsFollow'
  <2>1. CASE index.state \in {"building", "ready"}
    <3>1. tables.triggers BY <2>1 DEF SearchInv, RowsFollow
    <3>2. \A id \in DOMAIN t.logs : Document(id)' = Document(id) BY <1>1, <1>2 DEF Document
    <3>3. \A id \in DOMAIN t.logs, d \in fewer : d[2] # id
      <4> SUFFICES ASSUME NEW id \in DOMAIN t.logs, NEW d \in fewer PROVE d[2] # id OBVIOUS
      <4>1. id \in DOMAIN tables.logs /\ id \notin gone /\ id # 0 BY <1>1 DEF SearchInv, SearchTyped
      <4>2. CASE \E r \in tables.sessions \ left : d = Row(r) BY <4>1, <4>2 DEF Row
      <4>3. CASE \E i \in gone \cap DOMAIN tables.logs : d = Document(i) BY <4>1, <4>3 DEF Document
      <4> QED BY <4>2, <4>3
    <3>4. \A id \in DOMAIN t.logs : Document(id) \notin fewer BY <3>3 DEF Document
    <3>5. \A r \in left : Row(r) \notin fewer
      <4> SUFFICES ASSUME NEW r \in left, Row(r) \in fewer PROVE FALSE OBVIOUS
      <4>1. CASE \E x \in tables.sessions \ left : Row(r) = Row(x) BY <4>1 DEF Row
      <4>2. CASE \E i \in gone \cap DOMAIN tables.logs : Row(r) = Document(i)
        BY <4>2 DEF Row, Document, SearchInv, SearchTyped
      <4> QED BY <4>1, <4>2
    <3>6. \A d \in tables'.found : (\E r \in left : d = Row(r)) \/ \E id \in DOMAIN t.logs : d = Document(id)
      <4> SUFFICES ASSUME NEW d \in tables'.found
                   PROVE  (\E r \in left : d = Row(r)) \/ \E id \in DOMAIN t.logs : d = Document(id)
        OBVIOUS
      <4>1. d \in tables.found /\ d \notin fewer BY <1>2, <3>1
      <4>2. CASE \E r \in tables.sessions : d = Row(r) BY <4>1, <4>2
      <4>3. CASE \E id \in DOMAIN tables.logs : d = Document(id)
        <5>1. PICK id \in DOMAIN tables.logs : d = Document(id) BY <4>3
        <5>2. id \in tables.mapped BY <2>1, <4>1, <5>1 DEF SearchInv, RowsFollow
        <5>3. id \notin gone BY <4>1, <5>1, <5>2
        <5> QED BY <1>1, <5>1, <5>3
      <4> QED BY <2>1, <4>1, <4>2, <4>3 DEF SearchInv, RowsFollow
    <3>7. \A id \in DOMAIN t.logs : Document(id) \in tables'.found => id \in tables'.mapped
      BY <1>1, <1>2, <2>1, <3>1, <3>3 DEF SearchInv, RowsFollow
    <3>8. \A x : ToBuild(x)' <=> ToBuild(x) BY DEF ToBuild
    <3>9. \A id \in DOMAIN t.logs : LogToBuild(id)' <=> LogToBuild(id) BY <1>1, <1>2 DEF LogToBuild, ToBuild
    <3>10. \A r \in left : Row(r) \in tables'.found \/ ToBuild(r)'
      BY <1>2, <2>1, <3>1, <3>5, <3>8 DEF SearchInv, RowsFollow
    <3>11. \A id \in DOMAIN t.logs : Document(id) \in tables'.found \/ LogToBuild(id)'
      BY <1>1, <1>2, <2>1, <3>1, <3>4, <3>9 DEF SearchInv, RowsFollow
    <3>12. \A x : Row(x)' = Row(x) BY DEF Row
    <3> QED BY <1>2, <2>1, <3>1, <3>2, <3>6, <3>7, <3>10, <3>11, <3>12 DEF RowsFollow
  <2>2. CASE index.state \notin {"building", "ready"} BY <1>2, <2>2 DEF SearchInv, RowsFollow
  <2> QED BY <2>1, <2>2
<1> QED BY <1>3, <1>4, OthersKeep

LEMMA DeleteLogKeeps == ASSUME SearchInv, NEW id \in DOMAIN tables.logs, DeleteLog(id) PROVE SearchInv'
<1>1. PICK logs : logs = Kept(tables.logs, {id}) OBVIOUS
<1>2. PICK t : t = [tables EXCEPT !.logs = logs] OBVIOUS
<1>3. PICK fewer : fewer = IF id \in tables.mapped THEN {<< tables.logs[id], id >>} ELSE {} OBVIOUS
<1>4. Written(t, {}, fewer) /\ UNCHANGED << index, worker, card, poll, call >>
  BY <1>1, <1>2, <1>3 DEF DeleteLog, ByOthers
<1>5. /\ DOMAIN t = TableFields /\ t.found = tables.found /\ t.mapped = tables.mapped /\ t.triggers = tables.triggers
      /\ t.sessions = tables.sessions /\ t.logs = Kept(tables.logs, {id})
  BY <1>1, <1>2 DEF SearchInv, SearchTyped, TableFields
<1>6. \A x \in DOMAIN tables.logs : tables.logs[x] \in tables.sessions BY DEF SearchInv, SearchTyped
<1>7. /\ \A x \in {id} \cap DOMAIN tables.logs : Document(x) \in fewer \/ x \notin tables.mapped
      /\ \A d \in fewer : \E x \in {id} \cap DOMAIN tables.logs : d = Document(x)
  BY <1>3 DEF Document
<1> QED BY <1>4, <1>5, <1>6, <1>7, DeleteKeeps

LEMMA DeleteSessionKeeps == ASSUME SearchInv, NEW r \in tables.sessions, DeleteSession(r) PROVE SearchInv'
<1>1. PICK logs : logs = Kept(tables.logs, LogsOf(r)) OBVIOUS
<1>2. PICK t : t = [tables EXCEPT !.sessions = @ \ {r}, !.logs = logs] OBVIOUS
<1>3. PICK fewer : fewer = Documents(r) OBVIOUS
<1>4. Written(t, {}, fewer) /\ UNCHANGED << index, worker, card, poll, call >>
  BY <1>1, <1>2, <1>3 DEF DeleteSession, ByOthers
<1>5. PICK left : left = tables.sessions \ {r} OBVIOUS
<1>6. PICK gone : gone = LogsOf(r) OBVIOUS
<1>7. /\ DOMAIN t = TableFields /\ t.found = tables.found /\ t.mapped = tables.mapped /\ t.triggers = tables.triggers
      /\ t.sessions = left /\ t.logs = Kept(tables.logs, gone)
  BY <1>1, <1>2, <1>5, <1>6 DEF SearchInv, SearchTyped, TableFields
<1>8. \A id \in DOMAIN tables.logs \ gone : tables.logs[id] \in left
  BY <1>5, <1>6 DEF SearchInv, SearchTyped, LogsOf
<1>9. /\ \A id \in gone \cap DOMAIN tables.logs : Document(id) \in fewer
      /\ Row(r) \in fewer
      /\ \A d \in fewer : d = Row(r) \/ \E id \in gone \cap DOMAIN tables.logs : d = Document(id)
  BY <1>3, <1>6 DEF Documents, LogsOf, Document
<1> QED BY <1>4, <1>5, <1>7, <1>8, <1>9, DeleteKeeps


\* A step of the worker that leaves the card: the switch is as it was.
LEMMA WorkerKeeps ==
  ASSUME SearchInv, UNCHANGED << card, poll, call >>, index'.enabled = index.enabled, index'.lowDisk = index.lowDisk
  PROVE  CardKnows'
BY DEF SearchInv, CardKnows, SwitchAsStored, CardFollows

\* What a step leaves of the worker: it comes again if it has more to do.
LEMMA SteppedIs ==
  ASSUME SearchTyped, NEW active, Stepped(active)
  PROVE  /\ DOMAIN worker' = WorkerFields /\ worker'.at = "idle" /\ worker'.token = worker.token
         /\ worker'.unrecorded = worker.unrecorded /\ (active \/ worker.timer => worker'.timer)
BY DEF SearchTyped, Stepped, WorkerFields

\* The worker has done what is due, or comes again, or is woken.
LEMMA WorkStays ==
  ASSUME SearchInv, worker.at = "step", NEW active, Stepped(active), index'.enabled = index.enabled,
         \/ active
         \/ index'.state = "ready" /\ worker.enabled
         \/ index'.state = "off" /\ ~worker.enabled
  PROVE  WorkFollows'
<1>1. /\ worker'.at = "idle" /\ worker'.token = worker.token /\ (active => worker'.timer)
  BY SteppedIs DEF SearchInv
<1>2. worker.enabled = index.enabled \/ worker.token BY DEF SearchInv, WorkFollows
<1>3. CASE active BY <1>1, <1>3 DEF WorkFollows, WorkIsTakenUp
<1>4. CASE worker.token BY <1>1, <1>4 DEF WorkFollows, WorkIsTakenUp
<1>5. CASE index'.state = "ready" /\ worker.enabled /\ worker.enabled = index.enabled
  BY <1>1, <1>5 DEF WorkFollows, WorkIsTakenUp, NeedsPolling
<1>6. CASE index'.state = "off" /\ ~worker.enabled /\ worker.enabled = index.enabled
  BY <1>1, <1>6 DEF WorkFollows, WorkIsTakenUp, NeedsPolling
<1> QED BY <1>2, <1>3, <1>4, <1>5, <1>6

LEMMA StepKeeps == SearchInv /\ Step => SearchInv'
<1> SUFFICES ASSUME SearchInv, Step PROVE SearchInv' OBVIOUS
<1> USE SearchIndexAssumption
<1>0. worker.at = "step" /\ UNCHANGED << card, poll, call >> BY DEF Step, BySelf
<1>1. /\ DOMAIN index = IndexFields /\ DOMAIN tables = TableFields /\ index.next \in Nat /\ index.cutoff \in Nat
      /\ index.logCutoff \in Nat /\ tables.sessions \in SUBSET (1..MaxRowIds) /\ DOMAIN tables.logs \in SUBSET (1..MaxLogRows)
      /\ \A id \in DOMAIN tables.logs : tables.logs[id] \in tables.sessions
  BY DEF SearchInv, SearchTyped, Rows
\* Typed, as far as a step can tell.
<1>2. ASSUME NEW active, Stepped(active), DOMAIN index' = IndexFields, index'.cutoff \in Nat, index'.logCutoff \in Nat,
             index'.next \in Nat, index'.state \in {"off", "building", "ready", "dropping"}, DOMAIN tables' = TableFields,
             tables'.sessions = tables.sessions, tables'.logs = tables.logs
      PROVE  SearchTyped'
  BY <1>0, <1>2, SteppedIs DEF SearchInv, SearchTyped
<1>3. CASE StartBuild
  <2>1. /\ DOMAIN index' = IndexFields /\ index'.state = "building" /\ index'.enabled = index.enabled
        /\ index'.lowDisk = index.lowDisk /\ index'.next = 0 /\ index'.cutoff = Max(tables.sessions \cup {0})
        /\ index'.logCutoff = Max(DOMAIN tables.logs \cup {0})
    BY <1>1, <1>3 DEF StartBuild, IndexFields
  <2>2. /\ DOMAIN tables' = TableFields /\ tables'.sessions = tables.sessions /\ tables'.logs = tables.logs
        /\ tables'.found = {} /\ tables'.mapped = {} /\ tables'.triggers = TRUE
    BY <1>1, <1>3 DEF StartBuild, TableFields, SearchInv, RowsFollow
  <2>3. index'.cutoff \in Nat /\ \A r \in tables.sessions : r <= index'.cutoff
    <3>1. tables.sessions \in SUBSET (1..MaxRowIds) BY <1>1
    <3>2. /\ Max(tables.sessions \cup {0}) \in Nat
          /\ \A r \in tables.sessions : r <= Max(tables.sessions \cup {0})
      BY <3>1, MaxOfRows
    <3> QED BY <2>1, <3>2
  <2>4. index'.logCutoff \in Nat /\ \A id \in DOMAIN tables.logs : id <= index'.logCutoff
    <3>1. DOMAIN tables.logs \in SUBSET (1..MaxLogRows) BY <1>1
    <3>2. /\ Max(DOMAIN tables.logs \cup {0}) \in Nat
          /\ \A id \in DOMAIN tables.logs : id <= Max(DOMAIN tables.logs \cup {0})
      BY <3>1, MaxOfRows
    <3> QED BY <2>1, <3>2
  <2>5. \A r \in tables.sessions : ToBuild(r)' BY <1>1, <2>1, <2>3 DEF ToBuild
  <2>6. \A id \in DOMAIN tables.logs : LogToBuild(id)' BY <1>1, <2>1, <2>2, <2>3, <2>4 DEF LogToBuild, ToBuild
  <2>7. RowsFollow' BY <2>1, <2>2, <2>5, <2>6 DEF RowsFollow
  <2>8. Stepped(TRUE) BY <1>3 DEF StartBuild
  <2>9. SearchTyped'
    <3>1. /\ DOMAIN index' = IndexFields /\ index'.cutoff \in Nat /\ index'.logCutoff \in Nat /\ index'.next \in Nat
          /\ index'.state \in {"off", "building", "ready", "dropping"}
      BY <2>1, <2>3, <2>4
    <3> QED BY <1>2, <2>2, <2>8, <3>1
  <2>10. WorkFollows' BY <1>0, <2>1, <2>8, WorkStays
  <2>11. CardKnows' BY <1>0, <2>1, WorkerKeeps
  <2> QED BY <2>7, <2>9, <2>10, <2>11 DEF SearchInv
<1>4. CASE BuildBatch
  <2>1. PICK r : r = Min(NextRows) OBVIOUS
  <2>2. NextRows \in SUBSET Nat BY <1>1 DEF NextRows
  <2>3. /\ r \in tables.sessions /\ r \in Nat /\ r > index.next /\ r <= index.cutoff
        /\ \A x \in tables.sessions : x > index.next /\ x <= index.cutoff => r <= x
    BY <1>1, <1>4, <2>1, <2>2, MinOfRows DEF BuildBatch, NextRows
  <2>4. PICK new : new = {<< r, id >> : id \in OldLogs(r)} OBVIOUS
  <2>5. tables' = [tables EXCEPT !.found = @ \cup {Row(r)} \cup new, !.mapped = @ \cup OldLogs(r)]
    BY <1>4, <2>1, <2>4 DEF BuildBatch
  <2>6. /\ DOMAIN tables' = TableFields /\ tables'.sessions = tables.sessions /\ tables'.logs = tables.logs
        /\ tables'.found = tables.found \cup {Row(r)} \cup new /\ tables'.mapped = tables.mapped \cup OldLogs(r)
        /\ tables'.triggers = tables.triggers
    BY <1>1, <2>5 DEF TableFields
  <2>7. index.state = "building" /\ index' = [index EXCEPT !.next = r] /\ Stepped(TRUE)
    BY <1>4, <2>1 DEF BuildBatch
  <2>8. /\ DOMAIN index' = IndexFields /\ index'.state = "building" /\ index'.enabled = index.enabled
        /\ index'.lowDisk = index.lowDisk /\ index'.next = r /\ index'.cutoff = index.cutoff
        /\ index'.logCutoff = index.logCutoff
    BY <1>1, <2>7 DEF IndexFields
  <2>9. OldLogs(r) = {id \in DOMAIN tables.logs : tables.logs[id] = r /\ id <= index.logCutoff} BY DEF OldLogs, LogsOf
  <2>10. \A x : Row(x)' = Row(x) /\ Document(x)' = Document(x) BY <2>6 DEF Row, Document
  <2>11. \A x \in tables.sessions : ToBuild(x) => x = r \/ ToBuild(x)'
    BY <1>1, <2>3, <2>7, <2>8 DEF ToBuild
  <2>12. RowsFollow'
    <3>1. \A d \in tables'.found : (\E x \in tables.sessions : d = Row(x)) \/ \E id \in DOMAIN tables.logs : d = Document(id)
      <4> SUFFICES ASSUME NEW d \in tables'.found
                   PROVE  (\E x \in tables.sessions : d = Row(x)) \/ \E id \in DOMAIN tables.logs : d = Document(id)
        OBVIOUS
      <4>1. CASE d \in tables.found BY <2>7, <4>1 DEF SearchInv, RowsFollow
      <4>2. CASE d = Row(r) BY <2>3, <4>2
      <4>3. CASE d \in new BY <2>4, <2>9, <4>3 DEF Document
      <4> QED BY <2>6, <4>1, <4>2, <4>3
    <3>2. \A id \in DOMAIN tables.logs : Document(id) \in tables'.found => id \in tables'.mapped
      <4> SUFFICES ASSUME NEW id \in DOMAIN tables.logs, Document(id) \in tables'.found PROVE id \in tables'.mapped
        OBVIOUS
      <4>1. CASE Document(id) \in tables.found BY <2>6, <2>7, <4>1 DEF SearchInv, RowsFollow
      <4>2. Document(id) # Row(r) BY <1>1 DEF Document, Row
      <4>3. CASE Document(id) \in new BY <2>4, <2>6, <4>3 DEF Document
      <4> QED BY <2>6, <4>1, <4>2, <4>3
    <3>3. \A x \in tables.sessions : Row(x) \in tables'.found \/ ToBuild(x)'
      BY <2>6, <2>7, <2>11 DEF SearchInv, RowsFollow
    <3>4. \A id \in DOMAIN tables.logs : Document(id) \in tables'.found \/ LogToBuild(id)'
      <4> SUFFICES ASSUME NEW id \in DOMAIN tables.logs, Document(id) \notin tables'.found PROVE LogToBuild(id)'
        OBVIOUS
      <4>1. LogToBuild(id) BY <2>6, <2>7 DEF SearchInv, RowsFollow
      <4>2. id \notin OldLogs(r) BY <2>4, <2>6, <2>9 DEF Document
      <4>3. tables.logs[id] # r BY <2>9, <4>1, <4>2 DEF LogToBuild
      <4> QED BY <1>1, <2>6, <2>8, <2>11, <4>1, <4>3 DEF LogToBuild
    <3> QED BY <2>6, <2>7, <2>8, <2>10, <3>1, <3>2, <3>3, <3>4 DEF SearchInv, RowsFollow
  <2>13. SearchTyped' BY <1>1, <1>2, <2>3, <2>6, <2>7, <2>8
  <2>14. WorkFollows' BY <1>0, <2>7, <2>8, WorkStays
  <2>15. CardKnows' BY <1>0, <2>8, WorkerKeeps
  <2> QED BY <2>12, <2>13, <2>14, <2>15 DEF SearchInv
<1>5. CASE FinishBuild
  <2>1. index.state = "building" /\ worker.enabled /\ NextRows = {} /\ Stepped(FALSE) /\ UNCHANGED tables
    BY <1>5 DEF FinishBuild
  <2>2. /\ DOMAIN index' = IndexFields /\ index'.state = "ready" /\ index'.enabled = index.enabled
        /\ index'.lowDisk = index.lowDisk /\ index'.next = index.next /\ index'.cutoff = index.cutoff
        /\ index'.logCutoff = index.logCutoff
    BY <1>1, <1>5 DEF FinishBuild, IndexFields
  <2>3. \A r \in tables.sessions : ~ToBuild(r) BY <1>1, <2>1 DEF NextRows, ToBuild
  <2>4. \A id \in DOMAIN tables.logs : ~LogToBuild(id) BY <1>1, <2>3 DEF LogToBuild
  <2>5. \A x : Row(x)' = Row(x) /\ Document(x)' = Document(x) BY <2>1 DEF Row, Document
  <2>6. RowsFollow' BY <2>1, <2>2, <2>3, <2>4, <2>5 DEF SearchInv, RowsFollow
  <2>7. SearchTyped' BY <1>1, <1>2, <2>1, <2>2
  <2>8. WorkFollows' BY <1>0, <2>1, <2>2, WorkStays
  <2>9. CardKnows' BY <1>0, <2>2, WorkerKeeps
  <2> QED BY <2>6, <2>7, <2>8, <2>9 DEF SearchInv
<1>6. CASE StartDrop
  <2>1. Stepped(TRUE) /\ index.state \in {"building", "ready"} BY <1>6 DEF StartDrop
  <2>2. /\ DOMAIN index' = IndexFields /\ index'.state = "dropping" /\ index'.enabled = index.enabled
        /\ index'.lowDisk = index.lowDisk /\ index'.next = index.next /\ index'.cutoff = index.cutoff
        /\ index'.logCutoff = index.logCutoff
    BY <1>1, <1>6 DEF StartDrop, IndexFields
  <2>3. /\ DOMAIN tables' = TableFields /\ tables'.sessions = tables.sessions /\ tables'.logs = tables.logs
        /\ tables'.triggers = FALSE
    BY <1>1, <1>6 DEF StartDrop, TableFields
  <2>4. RowsFollow' BY <2>2, <2>3 DEF RowsFollow
  <2>5. SearchTyped' BY <1>1, <1>2, <2>1, <2>2, <2>3
  <2>6. WorkFollows' BY <1>0, <2>1, <2>2, WorkStays
  <2>7. CardKnows' BY <1>0, <2>2, WorkerKeeps
  <2> QED BY <2>4, <2>5, <2>6, <2>7 DEF SearchInv
<1>7. CASE DropBatch
  <2>1. Stepped(TRUE) /\ index.state = "dropping" /\ UNCHANGED index BY <1>7 DEF DropBatch
  <2>2. /\ DOMAIN tables' = TableFields /\ tables'.sessions = tables.sessions /\ tables'.logs = tables.logs
        /\ tables'.triggers = tables.triggers
    BY <1>1, <1>7 DEF DropBatch, TableFields
  <2>3. RowsFollow' BY <2>1, <2>2 DEF SearchInv, RowsFollow
  <2>4. SearchTyped' BY <1>1, <1>2, <2>1, <2>2 DEF SearchInv, SearchTyped
  <2>5. WorkFollows' BY <1>0, <2>1, WorkStays
  <2>6. CardKnows' BY <1>0, <2>1, WorkerKeeps
  <2> QED BY <2>3, <2>4, <2>5, <2>6 DEF SearchInv
<1>8. CASE FinishDrop
  <2>1. /\ index.state = "dropping" /\ tables.found = {} /\ Stepped(worker.enabled)
        /\ index' = NothingBuilt(index.enabled, index.lowDisk) /\ tables' = [tables EXCEPT !.mapped = {}]
    BY <1>8 DEF FinishDrop
  <2>2. /\ DOMAIN index' = IndexFields /\ index'.state = "off" /\ index'.enabled = index.enabled
        /\ index'.lowDisk = index.lowDisk /\ index'.next = 0 /\ index'.cutoff = 0 /\ index'.logCutoff = 0
    BY <2>1 DEF NothingBuilt, IndexFields
  <2>3. /\ DOMAIN tables' = TableFields /\ tables'.sessions = tables.sessions /\ tables'.logs = tables.logs
        /\ tables'.triggers = tables.triggers /\ tables'.found = {} /\ tables'.mapped = {}
    BY <1>1, <2>1 DEF TableFields
  <2>4. RowsFollow' BY <2>1, <2>2, <2>3 DEF SearchInv, RowsFollow
  <2>5. SearchTyped' BY <1>2, <2>1, <2>2, <2>3
  <2>6. WorkFollows' BY <1>0, <2>1, <2>2, WorkStays
  <2>7. CardKnows' BY <1>0, <2>2, WorkerKeeps
  <2> QED BY <2>4, <2>5, <2>6, <2>7 DEF SearchInv
<1>9. ASSUME UNCHANGED << index, tables >>, NEW active, Stepped(active),
             \/ active
             \/ index.state = "ready" /\ worker.enabled
             \/ index.state = "off" /\ ~worker.enabled
      PROVE  SearchInv'
  <2>1. SearchTyped' BY <1>1, <1>2, <1>9 DEF SearchInv, SearchTyped
  <2>2. \A x : Row(x)' = Row(x) /\ Document(x)' = Document(x) /\ (ToBuild(x)' <=> ToBuild(x)) /\ (LogToBuild(x)' <=> LogToBuild(x))
    BY <1>9 DEF Row, Document, ToBuild, LogToBuild
  <2>3. RowsFollow' BY <1>9, <2>2 DEF SearchInv, RowsFollow
  <2>4. WorkFollows' BY <1>0, <1>9, WorkStays
  <2>5. CardKnows' BY <1>0, <1>9, WorkerKeeps
  <2> QED BY <2>1, <2>3, <2>4, <2>5 DEF SearchInv
<1>10. CASE PutOff BY <1>9, <1>10 DEF PutOff
<1>11. CASE NothingToDo BY <1>9, <1>11 DEF NothingToDo
<1> QED BY <1>3, <1>4, <1>5, <1>6, <1>7, <1>8, <1>10, <1>11 DEF Step

\* A step that leaves the index and its rows.
LEMMA IndexStays ==
  ASSUME SearchInv, UNCHANGED tables, DOMAIN index' = IndexFields, index'.state = index.state,
         index'.cutoff = index.cutoff, index'.logCutoff = index.logCutoff, index'.next = index.next,
         DOMAIN worker' = WorkerFields, DOMAIN card' = CardFields, DOMAIN poll' = PollFields, DOMAIN call' = SwitchFields
  PROVE  SearchTyped' /\ RowsFollow'
<1>1. SearchTyped' BY DEF SearchInv, SearchTyped
<1>2. \A x : Row(x)' = Row(x) /\ Document(x)' = Document(x) /\ (ToBuild(x)' <=> ToBuild(x)) /\ (LogToBuild(x)' <=> LogToBuild(x))
  BY DEF Row, Document, ToBuild, LogToBuild
<1>3. RowsFollow' BY <1>2 DEF SearchInv, RowsFollow
<1> QED BY <1>1, <1>3

\* The switch is set: the worker is woken.
LEMMA SetKeeps ==
  ASSUME SearchInv, NEW enabled, NEW lowDisk, SetSearchIndexEnabled(index, enabled, lowDisk)
  PROVE  /\ DOMAIN index' = IndexFields /\ index'.state = index.state /\ index'.cutoff = index.cutoff
         /\ index'.logCutoff = index.logCutoff /\ index'.next = index.next
         /\ index'.enabled = enabled /\ index'.lowDisk = lowDisk
         /\ DOMAIN worker' = WorkerFields /\ WorkFollows'
<1>1. /\ DOMAIN index' = IndexFields /\ index'.state = index.state /\ index'.cutoff = index.cutoff
      /\ index'.logCutoff = index.logCutoff /\ index'.next = index.next
      /\ index'.enabled = enabled /\ index'.lowDisk = lowDisk
      /\ DOMAIN worker' = WorkerFields /\ worker'.token = TRUE
  BY DEF SearchInv, SearchTyped, SetSearchIndexEnabled, IndexFields, WorkerFields
<1>2. WorkFollows' BY <1>1 DEF WorkFollows, WorkIsTakenUp
<1> QED BY <1>1, <1>2

\* A step of the card, which leaves the server.
LEMMA CardKeeps ==
  ASSUME SearchInv, UNCHANGED << index, tables, worker >>, DOMAIN card' = CardFields, DOMAIN poll' = PollFields,
         DOMAIN call' = SwitchFields, CardKnows'
  PROVE  SearchInv'
<1>1. DOMAIN index' = IndexFields /\ DOMAIN worker' = WorkerFields BY DEF SearchInv, SearchTyped
<1>2. SearchTyped' /\ RowsFollow' BY <1>1, IndexStays
<1>3. WorkFollows' BY DEF SearchInv, WorkFollows, WorkIsTakenUp
<1> QED BY <1>2, <1>3 DEF SearchInv

LEMMA SearchInvNext == SearchInv /\ (SearchNext \/ UNCHANGED searchVars) => SearchInv'
<1> SUFFICES ASSUME SearchInv, SearchNext \/ UNCHANGED searchVars PROVE SearchInv' OBVIOUS
<1>0. /\ DOMAIN index = IndexFields /\ DOMAIN tables = TableFields /\ DOMAIN worker = WorkerFields
      /\ DOMAIN card = CardFields /\ DOMAIN poll = PollFields /\ DOMAIN call = SwitchFields
  BY DEF SearchInv, SearchTyped
\* The worker.
<1>1. CASE DisableSearchIndexForLowDisk
  <2>1. SetSearchIndexEnabled(index, FALSE, TRUE) /\ UNCHANGED << tables, card, poll, call >>
    BY <1>1 DEF DisableSearchIndexForLowDisk
  <2>2. /\ DOMAIN index' = IndexFields /\ index'.state = index.state /\ index'.cutoff = index.cutoff
        /\ index'.logCutoff = index.logCutoff /\ index'.next = index.next /\ index'.lowDisk = TRUE
        /\ DOMAIN worker' = WorkerFields /\ WorkFollows'
    BY <2>1, SetKeeps
  <2>3. SearchTyped' /\ RowsFollow' BY <1>0, <2>1, <2>2, IndexStays
  <2>4. CardKnows' BY <2>1, <2>2 DEF SearchInv, CardKnows, SwitchAsStored, CardFollows
  <2> QED BY <2>2, <2>3, <2>4 DEF SearchInv
<1>2. ASSUME UNCHANGED << tables, card, poll, call >>, DOMAIN index' = IndexFields, index'.state = index.state,
             index'.cutoff = index.cutoff, index'.logCutoff = index.logCutoff, index'.next = index.next,
             index'.enabled = index.enabled, index'.lowDisk = index.lowDisk,
             DOMAIN worker' = WorkerFields, WorkFollows'
      PROVE  SearchInv'
  <2>1. SearchTyped' /\ RowsFollow' BY <1>0, <1>2, IndexStays
  <2>2. CardKnows' BY <1>2, WorkerKeeps
  <2> QED BY <1>2, <2>1, <2>2 DEF SearchInv
<1>3. CASE BeginStep
  <2>1. UNCHANGED << index, tables, card, poll, call >> BY <1>3 DEF BeginStep, BySelf
  <2>2. PICK wake \in {"token", "timer"} :
          worker' = [worker EXCEPT ![wake] = FALSE, !.enabled = index.enabled,
                                   !.at = IF index.failed THEN "idle" ELSE "step",
                                   !.failures = IF index.failed THEN 0 ELSE @]
    BY <1>3 DEF BeginStep
  <2>3. /\ DOMAIN worker' = WorkerFields /\ worker'.enabled = index.enabled
        /\ worker'.at = IF index.failed THEN "idle" ELSE "step"
    <3>1. CASE wake = "token" BY <1>0, <2>2, <3>1 DEF WorkerFields
    <3>2. CASE wake = "timer" BY <1>0, <2>2, <3>2 DEF WorkerFields
    <3> QED BY <3>1, <3>2
  <2>4. WorkFollows' BY <2>1, <2>3 DEF WorkFollows, WorkIsTakenUp
  <2> QED BY <1>0, <1>2, <2>1, <2>3, <2>4
<1>4. CASE Step BY <1>4, StepKeeps
<1>5. CASE StepFails
  <2>1. UNCHANGED << index, tables, card, poll, call >> BY <1>5 DEF StepFails, BySelf
  <2>2. /\ DOMAIN worker' = WorkerFields /\ worker'.at \in {"idle", "recording"}
        /\ worker'.timer \/ worker'.at # "idle"
    BY <1>0, <1>5 DEF StepFails, WorkerFields
  <2>3. WorkFollows' BY <2>2 DEF WorkFollows, WorkIsTakenUp
  <2> QED BY <1>0, <1>2, <2>1, <2>2, <2>3
<1>6. CASE RecordSearchIndexError
  <2>1. UNCHANGED << tables, card, poll, call >> BY <1>6 DEF RecordSearchIndexError, BySelf
  <2>2. CASE index' = [index EXCEPT !.failed = TRUE] /\ worker' = [worker EXCEPT !.at = "idle", !.failures = 0]
    <3>1. /\ DOMAIN index' = IndexFields /\ index'.state = index.state /\ index'.cutoff = index.cutoff
          /\ index'.logCutoff = index.logCutoff /\ index'.next = index.next /\ index'.enabled = index.enabled
          /\ index'.lowDisk = index.lowDisk /\ index'.failed = TRUE
      BY <1>0, <2>2 DEF IndexFields
    <3>2. DOMAIN worker' = WorkerFields /\ worker'.at = "idle" BY <1>0, <2>2 DEF WorkerFields
    <3>3. WorkFollows' BY <3>1, <3>2 DEF WorkFollows, WorkIsTakenUp
    <3> QED BY <1>2, <2>1, <3>1, <3>2, <3>3
  <2>3. CASE UNCHANGED index /\ worker' = [worker EXCEPT !.at = "idle", !.failures = 0, !.unrecorded = TRUE]
    <3>1. DOMAIN worker' = WorkerFields /\ worker'.at = "idle" /\ worker'.unrecorded = TRUE
      BY <1>0, <2>3 DEF WorkerFields
    <3>2. WorkFollows' BY <3>1 DEF WorkFollows, WorkIsTakenUp
    <3> QED BY <1>0, <1>2, <2>1, <2>3, <3>1, <3>2
  <2> QED BY <1>6, <2>2, <2>3 DEF RecordSearchIndexError
<1>7. CASE Restart
  <2>1. UNCHANGED << index, tables, card, poll, call >> BY <1>7 DEF Restart, BySelf
  <2>2. DOMAIN worker' = WorkerFields /\ worker'.token = TRUE BY <1>7 DEF Restart, WorkerFields
  <2>3. WorkFollows' BY <2>2 DEF WorkFollows, WorkIsTakenUp
  <2> QED BY <1>0, <1>2, <2>1, <2>2, <2>3
\* The card.
<1>8. CASE ServePoll
  <2>1. PICK s : s = SearchIndexStatus OBVIOUS
  <2>2. s.enabled = index.enabled BY <2>1 DEF SearchIndexStatus
  <2>3. /\ UNCHANGED << index, tables, worker, card, call >> /\ poll' = [poll EXCEPT !.at = "read", !.status = s]
    BY <1>8, <2>1 DEF ServePoll
  <2>4. DOMAIN poll' = PollFields /\ poll'.at = "read" /\ poll'.status = s BY <1>0, <2>3 DEF PollFields
  <2>5. CardKnows' BY <2>2, <2>3, <2>4 DEF SearchInv, CardKnows, SwitchAsStored, CardFollows
  <2> QED BY <1>0, <2>3, <2>4, <2>5, CardKeeps
<1>9. CASE PollArrives
  <2>1. /\ poll.at = "read" /\ UNCHANGED << index, tables, worker, call >>
        /\ card' = [card EXCEPT !.status = poll.status, !.error = FALSE]
    BY <1>9 DEF PollArrives
  <2>2. /\ DOMAIN card' = CardFields /\ card'.status = poll.status /\ card'.busy = card.busy
    BY <1>0, <2>1 DEF CardFields
  <2>3. /\ DOMAIN poll' = PollFields /\ poll'.at = IF NeedsPolling(poll.status) THEN "timer" ELSE "none"
    BY <1>9 DEF PollArrives, PollFields
  <2>4. UnderWay(poll.status) => NeedsPolling(poll.status) BY DEF UnderWay, NeedsPolling
  <2>5. CardFollows' BY <2>2, <2>3, <2>4 DEF CardFollows, UnderWay
  <2>6. CardKnows' BY <2>1, <2>2, <2>3, <2>5 DEF SearchInv, CardKnows, SwitchAsStored
  <2> QED BY <1>0, <2>1, <2>2, <2>3, <2>6, CardKeeps
<1>10. CASE PollFails
  <2>1. UNCHANGED << index, tables, worker, call >> BY <1>10 DEF PollFails
  <2>2. DOMAIN card' = CardFields /\ card'.status = card.status /\ card'.error = TRUE /\ card'.busy = card.busy
    BY <1>0, <1>10 DEF PollFails, CardFields
  <2>3. DOMAIN poll' = PollFields /\ poll'.at \in {"timer", "none"} BY <1>0, <1>10 DEF PollFails, PollFields
  <2>4. CardKnows' BY <2>1, <2>2, <2>3 DEF SearchInv, CardKnows, SwitchAsStored, CardFollows
  <2> QED BY <1>0, <2>1, <2>2, <2>3, <2>4, CardKeeps
<1>11. CASE PollAgain
  <2>1. UNCHANGED << index, tables, worker, card, call >> BY <1>11 DEF PollAgain
  <2>2. DOMAIN poll' = PollFields /\ poll'.at = "sent" BY <1>0, <1>11 DEF PollAgain, PollFields
  <2>3. CardKnows' BY <2>1, <2>2 DEF SearchInv, CardKnows, SwitchAsStored, CardFollows
  <2> QED BY <1>0, <2>1, <2>2, <2>3, CardKeeps
<1>12. ASSUME UNCHANGED << index, tables, worker, poll >>, DOMAIN card' = CardFields, card'.status = card.status,
              card'.busy = TRUE, DOMAIN call' = SwitchFields, call'.at = "sent", call'.lost = call.lost, call.at # "stored"
       PROVE  SearchInv'
  <2>1. CardKnows' BY <1>12 DEF SearchInv, CardKnows, SwitchAsStored, CardFollows
  <2> QED BY <1>0, <1>12, <2>1, CardKeeps
<1>13. ASSUME NEW enabled, SetEnabled(enabled), MaySwitch PROVE SearchInv'
  <2>1. UNCHANGED << index, tables, worker, poll >> BY <1>13 DEF SetEnabled
  <2>2. DOMAIN card' = CardFields /\ card'.status = card.status /\ card'.busy = TRUE
    BY <1>0, <1>13 DEF SetEnabled, CardFields
  <2>3. DOMAIN call' = SwitchFields /\ call'.at = "sent" /\ call'.lost = call.lost
    BY <1>0, <1>13 DEF SetEnabled, SwitchFields
  <2>4. call.at # "stored" BY <1>13 DEF MaySwitch, SearchInv, CardKnows
  <2> QED BY <1>12, <2>1, <2>2, <2>3, <2>4
<1>14. CASE ToggleOn \/ Disable \/ Retry BY <1>13, <1>14 DEF ToggleOn, Disable, Retry
<1>15. CASE ToggleOff \/ KeepIndex
  <2>1. UNCHANGED << index, tables, worker, poll, call >> BY <1>15 DEF ToggleOff, KeepIndex
  <2>2. DOMAIN card' = CardFields /\ card'.status = card.status /\ card'.busy = card.busy /\ card'.error = card.error
    BY <1>0, <1>15 DEF ToggleOff, KeepIndex, CardFields
  <2>3. CardKnows' BY <2>1, <2>2 DEF SearchInv, CardKnows, SwitchAsStored, CardFollows
  <2> QED BY <1>0, <2>1, <2>2, <2>3, CardKeeps
<1>16. CASE ServeSwitch
  <2>1. PICK s : s = [enabled |-> call.enable, state |-> index.state, failed |-> FALSE] OBVIOUS
  <2>2. /\ call.at = "sent" /\ SetSearchIndexEnabled(index, call.enable, FALSE) /\ UNCHANGED << tables, card, poll >>
        /\ call' = [call EXCEPT !.at = "stored", !.status = s]
    BY <1>16, <2>1 DEF ServeSwitch
  <2>3. DOMAIN call' = SwitchFields /\ call'.at = "stored" /\ call'.status = s /\ s.enabled = call.enable
    BY <1>0, <2>1, <2>2 DEF SwitchFields
  <2>4. /\ DOMAIN index' = IndexFields /\ index'.state = index.state /\ index'.cutoff = index.cutoff
        /\ index'.logCutoff = index.logCutoff /\ index'.next = index.next /\ index'.enabled = call.enable
        /\ DOMAIN worker' = WorkerFields /\ WorkFollows'
    BY <2>2, SetKeeps
  <2>5. SearchTyped' /\ RowsFollow' BY <1>0, <2>2, <2>3, <2>4, IndexStays
  <2>6. CardKnows' BY <2>2, <2>3, <2>4 DEF SearchInv, CardKnows, SwitchAsStored, CardFollows
  <2> QED BY <2>4, <2>5, <2>6 DEF SearchInv
<1>17. CASE SwitchAnswered
  <2>1. call.at = "stored" /\ UNCHANGED << index, tables, worker >> BY <1>17 DEF SwitchAnswered
  <2>2. DOMAIN card' = CardFields /\ card'.status = call.status BY <1>0, <1>17 DEF SwitchAnswered, CardFields
  <2>3. DOMAIN poll' = PollFields /\ poll'.at = "sent" BY <1>17 DEF SwitchAnswered, Repolled, PollFields
  <2>4. DOMAIN call' = SwitchFields /\ call'.at = "none" BY <1>0, <1>17 DEF SwitchAnswered, SwitchFields
  <2>5. CardKnows' BY <2>1, <2>2, <2>3, <2>4 DEF SearchInv, CardKnows, SwitchAsStored, CardFollows
  <2> QED BY <2>1, <2>2, <2>3, <2>4, <2>5, CardKeeps
<1>18. CASE SwitchFails
  <2>1. UNCHANGED << index, tables, worker, poll >> BY <1>18 DEF SwitchFails
  <2>2. DOMAIN card' = CardFields /\ card'.status = card.status /\ card'.error = TRUE
    BY <1>0, <1>18 DEF SwitchFails, CardFields
  <2>3. DOMAIN call' = SwitchFields /\ call'.at = "none" /\ (call'.lost <=> call.lost \/ call.at = "stored")
    BY <1>0, <1>18 DEF SwitchFails, SwitchFields
  <2>4. CardKnows' BY <2>1, <2>2, <2>3 DEF SearchInv, CardKnows, SwitchAsStored, CardFollows
  <2> QED BY <1>0, <2>1, <2>2, <2>3, <2>4, CardKeeps
\* What is recorded and deleted.
<1>19. CASE AddSession BY <1>19, AddSessionKeeps
<1>20. ASSUME NEW r \in tables.sessions, AddLog(r) \/ DeleteSession(r) PROVE SearchInv'
  BY <1>20, AddLogKeeps, DeleteSessionKeeps
<1>21. ASSUME NEW id \in DOMAIN tables.logs, DeleteLog(id) PROVE SearchInv' BY <1>21, DeleteLogKeeps
<1>22. CASE UNCHANGED searchVars
  <2>1. UNCHANGED << index, tables, worker, card, poll, call >> BY <1>22 DEF searchVars
  <2>2. CardKnows' BY <2>1 DEF SearchInv, CardKnows, SwitchAsStored, CardFollows
  <2> QED BY <1>0, <2>1, <2>2, CardKeeps
<1> QED BY <1>1, <1>3, <1>4, <1>5, <1>6, <1>7, <1>8, <1>9, <1>10, <1>11, <1>14, <1>15, <1>16, <1>17, <1>18, <1>19,
           <1>20, <1>21, <1>22 DEF SearchNext

-----------------------------------------------------------------------------
(* What a filter of a list yields                                          *)

\* A position has a rank among some, one more than those before it have.
LEMMA RankIn ==
  ASSUME NEW n \in Nat, NEW P \in SUBSET (1..n), NEW i \in P
  PROVE  /\ IsFiniteSet(P) /\ Cardinality(P) \in Nat
         /\ Rank(i, P) \in 1..Cardinality(P)
<1>1. IsFiniteSet(1..n) BY FS_Interval
<1>2. IsFiniteSet(P) /\ Cardinality(P) \in Nat BY <1>1, FS_Subset, FS_CardinalityType
<1> DEFINE upTo == {j \in P : j <= i}
<1>3. IsFiniteSet(upTo) /\ Cardinality(upTo) <= Cardinality(P) /\ Cardinality(upTo) \in Nat
  BY <1>2, FS_Subset, FS_CardinalityType
<1>4. i \in upTo OBVIOUS
<1>5. Cardinality(upTo) # 0 BY <1>3, <1>4, FS_EmptySet
<1> QED BY <1>2, <1>3, <1>5 DEF Rank

LEMMA RankRises ==
  ASSUME NEW n \in Nat, NEW P \in SUBSET (1..n), NEW i \in P, NEW j \in P, i < j
  PROVE  Rank(i, P) < Rank(j, P)
<1> DEFINE upTo(k) == {m \in P : m <= k}
<1>1. IsFiniteSet(1..n) BY FS_Interval
<1>2. IsFiniteSet(P) BY <1>1, FS_Subset
<1>3. IsFiniteSet(upTo(j)) BY <1>2, FS_Subset
<1> i \in Int /\ j \in Int /\ P \subseteq Int OBVIOUS
<1>4. upTo(i) \subseteq upTo(j)
  <2>1. ASSUME NEW m \in P, m <= i PROVE m <= j
    <3>1. m \in Int OBVIOUS
    <3> QED BY <2>1, <3>1
  <2> QED BY <2>1
<1>5. j \in upTo(j) /\ j \notin upTo(i) OBVIOUS
<1> HIDE DEF upTo
<1>6. IsFiniteSet(upTo(i)) /\ Cardinality(upTo(i)) <= Cardinality(upTo(j))
      /\ (Cardinality(upTo(j)) = Cardinality(upTo(i)) => upTo(j) = upTo(i))
  BY <1>3, <1>4, FS_Subset
<1>7. Cardinality(upTo(i)) \in Nat /\ Cardinality(upTo(j)) \in Nat BY <1>3, <1>6, FS_CardinalityType
<1>8. Cardinality(upTo(i)) < Cardinality(upTo(j)) BY <1>5, <1>6, <1>7
<1> QED BY <1>8 DEF Rank, upTo

\* Every rank is that of one position.
LEMMA RankOnto ==
  ASSUME NEW n \in Nat, NEW P \in SUBSET (1..n), NEW k \in 1..Cardinality(P)
  PROVE  \E i \in P : Rank(i, P) = k
<1> DEFINE c == Cardinality(P)
           f == [i \in P |-> Rank(i, P)]
<1>1. IsFiniteSet(1..n) BY FS_Interval
<1>2. IsFiniteSet(P) /\ c \in Nat BY <1>1, FS_Subset, FS_CardinalityType
<1>3. IsFiniteSet(1..c) /\ Cardinality(1..c) = c BY <1>2, FS_Interval
<1>4. ASSUME NEW i \in P, NEW j \in P, Rank(i, P) = Rank(j, P) PROVE i = j
  <2>1. Rank(i, P) \in 1..c /\ Rank(j, P) \in 1..c BY RankIn
  <2> i \in Int /\ j \in Int /\ Rank(i, P) \in Int /\ Rank(j, P) \in Int BY <1>2, <2>1
  <2>2. ~(i < j) /\ ~(j < i) BY <1>4, <2>1, RankRises
  <2> QED BY <2>2
<1>5. \A i \in P : Rank(i, P) \in 1..c BY RankIn
<1>6. f \in Injection(P, 1..c) BY <1>4, <1>5 DEF Injection, IsInjective
<1>7. f \in Surjection(P, 1..c)
  <2> HIDE DEF f, c
  <2> QED BY <1>2, <1>3, <1>6, FS_Injection DEF c
<1> QED BY <1>7 DEF Surjection

\* What is kept is what was at the positions.
LEMMA ElementsAtIs ==
  ASSUME NEW S, NEW s \in Seq(S), NEW P \in SUBSET (DOMAIN s)
  PROVE  /\ ElementsAt(s, P) \in Seq(S)
         /\ \A k \in DOMAIN ElementsAt(s, P) : \E i \in P : ElementsAt(s, P)[k] = s[i]
<1> DEFINE c == Cardinality(P)
           t == ElementsAt(s, P)
<1>1. Len(s) \in Nat /\ P \subseteq 1..Len(s) OBVIOUS
<1>2. IsFiniteSet(P) /\ c \in Nat
  <2>1. IsFiniteSet(1..Len(s)) BY <1>1, FS_Interval
  <2> QED BY <1>1, <2>1, FS_Subset, FS_CardinalityType
<1>3. ASSUME NEW k \in 1..c PROVE \E i \in P : t[k] = s[i]
  <2>1. \E i \in P : Rank(i, P) = k BY <1>1, RankOnto
  <2>2. (CHOOSE i \in P : Rank(i, P) = k) \in P BY <2>1
  <2> QED BY <2>2 DEF ElementsAt
<1>4. DOMAIN t = 1..c BY DEF ElementsAt
<1>5. t = [k \in 1..c |-> t[k]] BY DEF ElementsAt
<1>6. \A k \in 1..c : t[k] \in S BY <1>3
<1>7. t \in [1..c -> S] BY <1>5, <1>6
<1>8. t \in Seq(S) BY <1>2, <1>7
<1> QED BY <1>3, <1>4, <1>8

\* The first ones stay as they are.
LEMMA ElementsAtFront ==
  ASSUME NEW s, NEW m \in Nat
  PROVE  ElementsAt(s, 1..m) = [k \in 1..m |-> s[k]]
<1>1. Cardinality(1..m) = m BY FS_Interval
<1>2. ASSUME NEW k \in 1..m PROVE (CHOOSE i \in 1..m : Rank(i, 1..m) = k) = k
  <2>1. ASSUME NEW i \in 1..m PROVE Rank(i, 1..m) = i
    <3>1. {j \in 1..m : j <= i} = 1..i OBVIOUS
    <3>2. Cardinality(1..i) = i BY FS_Interval
    <3> QED BY <3>1, <3>2 DEF Rank
  <2> QED BY <2>1
<1> DEFINE at(k) == CHOOSE i \in 1..m : Rank(i, 1..m) = k
<1>3. ElementsAt(s, 1..m) = [k \in 1..m |-> s[at(k)]] BY <1>1 DEF ElementsAt
<1>4. \A k \in 1..m : at(k) = k BY <1>2
<1> HIDE DEF at
<1> QED BY <1>3, <1>4

-----------------------------------------------------------------------------
(* The settings of a site and of Slack                                     *)

ConfigFields   == {"order", "on", "accent"}
SettingsFields == {"draft", "saved", "saving", "dialog", "error", "icon", "edits", "calls"}
AccentFields   == {"text", "error", "focused"}
DragFields     == {"open", "section", "origin", "y", "from"}

IsConfig(c) == DOMAIN c = ConfigFields /\ c.accent \in Accents

\* A draft, a save on its way and an answer are settings like the stored ones,
\* and what is typed and dragged is of a draft that is there.
ColourInv ==
  /\ DOMAIN settings = SettingsFields /\ DOMAIN accent = AccentFields /\ DOMAIN drag = DragFields /\ IsConfig(config)
  /\ settings.draft # None => IsConfig(settings.draft)
  /\ accent.focused => IsConfig(settings.draft) /\ accent.text \in Accents \cup {NotAColour}
  /\ drag.open => IsConfig(settings.draft) /\ (~accent.focused => accent.text = settings.draft.accent \/ accent.error)
  /\ drag.section # None => drag.open
  /\ settings.saving \notin {None, << >>} => IsConfig(settings.saving[1])
  /\ \A q \in requests : DOMAIN q = {"n", "replaces", "answer"} /\ (q.answer # None => IsConfig(q.answer))
  /\ ColourAsShown

LEMMA ColourInitInv == SettingsInit => ColourInv
BY DEF SettingsInit, SettingsOpen, ColourInv, SettingsFields, AccentFields, DragFields, ConfigFields, IsConfig,
       ColourAsShown, NoDrag

\* The order changes, and the colour and its text do not.
LEMMA OrderKeeps ==
  ASSUME ColourInv, NEW order, drag.open, DOMAIN settings' = SettingsFields,
         settings'.draft = [settings.draft EXCEPT !.order = order], settings'.saving = settings.saving,
         UNCHANGED << config, accent, requests >>,
         DOMAIN drag' = DragFields, drag'.open = drag.open, drag'.section = drag.section
  PROVE  ColourInv'
<1>1. PICK draft : draft = [settings.draft EXCEPT !.order = order] OBVIOUS
<1>2. IsConfig(draft) /\ draft.accent = settings.draft.accent BY <1>1 DEF ColourInv, IsConfig, ConfigFields
<1>3. settings'.draft = draft BY <1>1
<1> QED BY <1>2, <1>3 DEF ColourInv, ColourAsShown

LEMMA ColourInvNext == ColourInv /\ (SettingsNext \/ UNCHANGED settingsVars) => ColourInv'
<1> SUFFICES ASSUME ColourInv, SettingsNext \/ UNCHANGED settingsVars PROVE ColourInv' OBVIOUS
<1> USE DEF ColourInv, SettingsFields, AccentFields, DragFields, ConfigFields, IsConfig, ColourAsShown
<1>1. ASSUME NEW q \in requests, ServeSettings(q) PROVE ColourInv' BY <1>1 DEF ServeSettings
<1>2. ASSUME NEW q \in requests, SettingsArrive(q) PROVE ColourInv'
  <2>1. PICK draft : draft = IF q.replaces THEN q.answer ELSE settings.draft OBVIOUS
  <2>2. settings' = [settings EXCEPT !.saved = q.answer, !.draft = draft] BY <1>2, <2>1 DEF SettingsArrive
  <2>3. settings'.draft = draft /\ settings'.saving = settings.saving /\ DOMAIN settings' = SettingsFields BY <2>2
  <2>4. draft # None => IsConfig(draft) BY <1>2, <2>1 DEF SettingsArrive
  <2>5. IsConfig(settings.draft) => IsConfig(draft) BY <1>2, <2>1 DEF SettingsArrive
  <2>6. DOMAIN drag' = DragFields /\ drag'.open = drag.open /\ drag'.section = drag.section BY <1>2 DEF SettingsArrive
  <2>7. UNCHANGED config /\ requests' \subseteq requests BY <1>2 DEF SettingsArrive
  <2>8. CASE draft = None
    <3>1. UNCHANGED accent /\ draft = settings.draft BY <1>2, <2>1, <2>8 DEF SettingsArrive
    <3> QED BY <2>3, <2>4, <2>5, <2>6, <2>7, <2>8, <3>1
  <2>9. CASE draft # None
    <3>1. PICK old : old = IF settings.draft = None THEN None ELSE settings.draft.accent OBVIOUS
    <3>2. accent' = Coloured(accent, old, draft.accent) BY <1>2, <2>1, <2>9, <3>1 DEF SettingsArrive
    <3>3. CASE old = draft.accent
      <4>1. UNCHANGED accent BY <3>2, <3>3 DEF Coloured
      <4>2. settings.draft # None BY <2>4, <2>9, <3>1, <3>3, SiteSettingsAssumption
      <4> QED BY <2>3, <2>4, <2>5, <2>6, <2>7, <2>9, <3>1, <3>3, <4>1, <4>2
    <3>4. CASE old # draft.accent
      <4>1. accent' = [accent EXCEPT !.text = draft.accent, !.error = FALSE] BY <3>2, <3>4 DEF Coloured
      <4>2. DOMAIN accent' = AccentFields /\ accent'.text = draft.accent /\ accent'.focused = accent.focused BY <4>1
      <4> QED BY <2>3, <2>4, <2>5, <2>6, <2>7, <2>9, <4>2
    <3> QED BY <3>3, <3>4
  <2> QED BY <2>8, <2>9
<1>3. ASSUME NEW q \in requests, SettingsFail(q) PROVE ColourInv' BY <1>3 DEF SettingsFail
<1>4. ASSUME NEW id \in Sections, SwitchSection(id) PROVE ColourInv' BY <1>4 DEF SwitchSection, PatchDraft, Coloured, Ready
<1>5. ASSUME NEW id \in Sections, OpenSection(id) PROVE ColourInv' BY <1>5 DEF OpenSection
<1>6. ASSUME NEW id \in Sections, StartDrag(id) PROVE ColourInv'
  <2>1. drag.open /\ UNCHANGED << config, accent, requests >> BY <1>6 DEF StartDrag, Draggable
  <2>2. DOMAIN drag' = DragFields /\ drag'.open = drag.open BY <1>6 DEF StartDrag
  <2>3. DOMAIN settings' = SettingsFields /\ settings'.draft = settings.draft /\ settings'.saving = settings.saving
    BY <1>6 DEF StartDrag
  <2> QED BY <2>1, <2>2, <2>3
<1>7. ASSUME NEW id \in Sections, NEW n \in {1, -1}, MoveSection(id, n) PROVE ColourInv'
  <2>1. PICK order : PatchDraft([settings.draft EXCEPT !.order = order]) BY <1>7 DEF MoveSection
  <2>2. drag.open /\ UNCHANGED << config, drag, requests >> BY <1>7 DEF MoveSection, Draggable
  <2>3. PICK draft : draft = [settings.draft EXCEPT !.order = order] OBVIOUS
  <2>4. draft.accent = settings.draft.accent BY <2>2, <2>3
  <2>5. settings' = [settings EXCEPT !.draft = draft, !.edits = @ + 1] /\ UNCHANGED accent
    BY <2>1, <2>3, <2>4 DEF PatchDraft, Coloured
  <2>6. settings'.draft = draft /\ settings'.saving = settings.saving /\ DOMAIN settings' = SettingsFields BY <2>5
  <2> QED BY <2>2, <2>3, <2>5, <2>6, OrderKeeps
<1>8. ASSUME NEW c \in Accents, PickAccent(c) PROVE ColourInv' BY <1>8 DEF PickAccent, PatchDraft, Coloured, Ready
<1>9. ASSUME NEW t \in Accents \cup {NotAColour}, TypeAccent(t) PROVE ColourInv' BY <1>9 DEF TypeAccent, Ready
<1>10. CASE CloseSection BY <1>10 DEF CloseSection
<1>11. CASE CommitAccentText
  <2>1. UNCHANGED << config, drag, requests >> BY <1>11 DEF CommitAccentText
  <2>2. CASE accent.text = NotAColour
    <3>1. UNCHANGED settings /\ DOMAIN accent' = AccentFields /\ accent'.focused = FALSE /\ accent'.error = TRUE
      BY <1>11, <2>2 DEF CommitAccentText
    <3> QED BY <2>1, <3>1
  <2>3. CASE accent.text # NotAColour
    <3>1. IsConfig(settings.draft) /\ accent.text \in Accents BY <1>11, <2>3 DEF CommitAccentText
    <3>2. PICK draft : draft = [settings.draft EXCEPT !.accent = accent.text] OBVIOUS
    <3>3. IsConfig(draft) /\ draft.accent = accent.text BY <3>1, <3>2
    <3>4. settings' = [settings EXCEPT !.draft = draft] BY <1>11, <2>3, <3>2 DEF CommitAccentText
    <3>5. settings'.draft = draft /\ settings'.saving = settings.saving /\ DOMAIN settings' = SettingsFields BY <3>4
    <3>6. DOMAIN accent' = AccentFields /\ accent'.focused = FALSE /\ accent'.text = accent.text
      BY <1>11, <2>3 DEF CommitAccentText
    <3> QED BY <2>1, <3>3, <3>5, <3>6
  <2> QED BY <2>2, <2>3
<1>12. CASE SaveSettings BY <1>12 DEF SaveSettings, Ready
<1>13. CASE SettingsStored BY <1>13 DEF SettingsStored
<1>14. CASE SaveAnswered BY <1>14 DEF SaveAnswered, Reading
<1>15. CASE SaveRefused BY <1>15 DEF SaveRefused
<1>16. CASE ChangeIcon BY <1>16 DEF ChangeIcon
<1>17. CASE IconChanged BY <1>17 DEF IconChanged, Reading
<1>18. CASE IconFails BY <1>18 DEF IconFails
<1>19. CASE OpenOrder BY <1>19 DEF OpenOrder, Ready, NoDrag
<1>20. CASE CloseOrder BY <1>20 DEF CloseOrder, NoDrag
<1>21. CASE EndDrag
  <2>1. DOMAIN drag' = DragFields /\ drag'.open = TRUE /\ drag'.section = None BY <1>21 DEF EndDrag, NoDrag
  <2>2. drag.open BY <1>21 DEF EndDrag
  <2> QED BY <1>21, <2>1, <2>2 DEF EndDrag
<1>22. ASSUME NEW y \in Offsets, DragTo(y) PROVE ColourInv'
  <2>1. drag.open /\ UNCHANGED << config, accent, requests >> BY <1>22 DEF DragTo, Draggable
  <2>2. DOMAIN drag' = DragFields /\ drag'.open = drag.open /\ drag'.section = drag.section BY <1>22 DEF DragTo
  <2>3. CASE UNCHANGED settings BY <2>1, <2>2, <2>3
  <2>4. CASE settings' # settings
    <3>1. PICK order : settings' = [settings EXCEPT !.draft.order = order] BY <1>22, <2>4 DEF DragTo
    <3>2. settings'.draft = [settings.draft EXCEPT !.order = order] /\ settings'.saving = settings.saving
          /\ DOMAIN settings' = SettingsFields
      BY <3>1
    <3> QED BY <2>1, <2>2, <3>2, OrderKeeps
  <2> QED BY <2>3, <2>4
<1>23. CASE UNCHANGED settingsVars BY <1>23 DEF settingsVars
<1> QED BY <1>1, <1>2, <1>3, <1>4, <1>5, <1>6, <1>7, <1>8, <1>9, <1>10, <1>11, <1>12, <1>13, <1>14, <1>15, <1>16, <1>17,
           <1>18, <1>19, <1>20, <1>21, <1>22, <1>23 DEF SettingsNext

\* A sequence without the element at a place, and with one put in at a place.
LEMMA WithoutIs ==
  ASSUME NEW S, NEW s \in Seq(S), NEW a \in 1..Len(s)
  PROVE  /\ RemoveAt(s, a) \in Seq(S) /\ Len(RemoveAt(s, a)) = Len(s) - 1
         /\ \A i \in 1..(Len(s) - 1) : RemoveAt(s, a)[i] = IF i < a THEN s[i] ELSE s[i + 1]
<1> DEFINE n == Len(s)
           u == SubSeq(s, 1, a - 1)
           v == SubSeq(s, a + 1, n)
<1>1. n \in Nat /\ a \in Int /\ 1 <= a /\ a <= n BY LenProperties
<1>2. \A i \in 1..n : s[i] \in S BY LenProperties
<1>3. u \in Seq(S) /\ Len(u) = a - 1 /\ \A i \in 1..(a - 1) : u[i] = s[i]
  <2>1. \A i \in 1..(a - 1) : s[i] \in S BY <1>1, <1>2
  <2>2. /\ u \in Seq(S) /\ Len(u) = IF 1 <= a - 1 THEN a - 1 - 1 + 1 ELSE 0
        /\ \A i \in 1..(a - 1 - 1 + 1) : u[i] = s[1 + i - 1]
    BY <1>1, <2>1, SubSeqProperties
  <2> QED BY <1>1, <2>2
<1>4. v \in Seq(S) /\ Len(v) = n - a /\ \A i \in 1..(n - a) : v[i] = s[a + i]
  <2>1. \A i \in (a + 1)..n : s[i] \in S BY <1>1, <1>2
  <2>2. /\ v \in Seq(S) /\ Len(v) = IF a + 1 <= n THEN n - (a + 1) + 1 ELSE 0
        /\ \A i \in 1..(n - (a + 1) + 1) : v[i] = s[a + 1 + i - 1]
    BY <1>1, <2>1, SubSeqProperties
  <2> QED BY <1>1, <2>2
<1>5. RemoveAt(s, a) = u \o v BY DEF RemoveAt
<1> HIDE DEF u, v, n
<1>6. /\ u \o v \in Seq(S) /\ Len(u \o v) = Len(u) + Len(v)
      /\ \A i \in 1..(Len(u) + Len(v)) : (u \o v)[i] = IF i <= Len(u) THEN u[i] ELSE v[i - Len(u)]
  BY <1>3, <1>4, ConcatProperties
<1>7. Len(u) + Len(v) = n - 1 BY <1>1, <1>3, <1>4
<1>8. ASSUME NEW i \in 1..(n - 1) PROVE (u \o v)[i] = IF i < a THEN s[i] ELSE s[i + 1]
  <2>1. (u \o v)[i] = IF i <= a - 1 THEN u[i] ELSE v[i - (a - 1)] BY <1>3, <1>6, <1>7
  <2>2. CASE i < a BY <1>1, <1>3, <2>1, <2>2
  <2>3. CASE ~(i < a)
    <3>1. i - (a - 1) \in 1..(n - a) /\ a + (i - (a - 1)) = i + 1 BY <1>1, <2>3
    <3>2. v[i - (a - 1)] = s[a + (i - (a - 1))] BY <1>4, <3>1
    <3> QED BY <1>1, <2>1, <2>3, <3>1, <3>2
  <2> QED BY <2>2, <2>3
<1> QED BY <1>5, <1>6, <1>7, <1>8 DEF n

LEMMA WithIs ==
  ASSUME NEW S, NEW s \in Seq(S), NEW e \in S, NEW b \in 1..(Len(s) + 1)
  PROVE  /\ InsertAt(s, b, e) \in Seq(S) /\ Len(InsertAt(s, b, e)) = Len(s) + 1
         /\ \A i \in 1..(Len(s) + 1) : InsertAt(s, b, e)[i] = IF i < b THEN s[i] ELSE IF i = b THEN e ELSE s[i - 1]
<1> DEFINE n == Len(s)
           u == SubSeq(s, 1, b - 1)
           w == u \o << e >>
           v == SubSeq(s, b, n)
<1>1. n \in Nat /\ b \in Int /\ 1 <= b /\ b <= n + 1 BY LenProperties
<1>2. \A i \in 1..n : s[i] \in S BY LenProperties
<1>3. u \in Seq(S) /\ Len(u) = b - 1 /\ \A i \in 1..(b - 1) : u[i] = s[i]
  <2>1. \A i \in 1..(b - 1) : s[i] \in S BY <1>1, <1>2
  <2>2. /\ u \in Seq(S) /\ Len(u) = IF 1 <= b - 1 THEN b - 1 - 1 + 1 ELSE 0
        /\ \A i \in 1..(b - 1 - 1 + 1) : u[i] = s[1 + i - 1]
    BY <1>1, <2>1, SubSeqProperties
  <2> QED BY <1>1, <2>2
<1>4. v \in Seq(S) /\ Len(v) = n - b + 1 /\ \A i \in 1..(n - b + 1) : v[i] = s[b + i - 1]
  <2>1. \A i \in b..n : s[i] \in S BY <1>1, <1>2
  <2>2. /\ v \in Seq(S) /\ Len(v) = IF b <= n THEN n - b + 1 ELSE 0
        /\ \A i \in 1..(n - b + 1) : v[i] = s[b + i - 1]
    BY <1>1, <2>1, SubSeqProperties
  <2> QED BY <1>1, <2>2
<1>5. << e >> \in Seq(S) /\ Len(<< e >>) = 1 /\ << e >>[1] = e OBVIOUS
<1>6. InsertAt(s, b, e) = w \o v BY DEF InsertAt
<1> HIDE DEF u, v, n
<1>7. w \in Seq(S) /\ Len(w) = b /\ w[b] = e /\ \A i \in 1..(b - 1) : w[i] = s[i]
  <2>1. /\ w \in Seq(S) /\ Len(w) = Len(u) + Len(<< e >>)
        /\ \A i \in 1..(Len(u) + Len(<< e >>)) : w[i] = IF i <= Len(u) THEN u[i] ELSE << e >>[i - Len(u)]
    BY <1>3, <1>5, ConcatProperties
  <2> HIDE DEF w
  <2>2. Len(u) + Len(<< e >>) = b /\ Len(w) = b BY <1>1, <1>3, <1>5, <2>1
  <2>3. ASSUME NEW i \in 1..b PROVE w[i] = IF i <= b - 1 THEN u[i] ELSE << e >>[i - (b - 1)]
    <3>1. w[i] = IF i <= Len(u) THEN u[i] ELSE << e >>[i - Len(u)] BY <2>1, <2>2
    <3> QED BY <1>3, <3>1
  <2>4. w[b] = e
    <3>1. b \in 1..b /\ ~(b <= b - 1) /\ b - (b - 1) = 1 BY <1>1
    <3> QED BY <1>5, <2>3, <3>1
  <2>5. ASSUME NEW i \in 1..(b - 1) PROVE w[i] = s[i]
    <3>1. i \in 1..b /\ i <= b - 1 BY <1>1
    <3> QED BY <1>3, <2>3, <3>1
  <2> QED BY <2>1, <2>2, <2>4, <2>5
<1> HIDE DEF w
<1> DEFINE x == w \o v
<1>8. /\ x \in Seq(S) /\ Len(x) = Len(w) + Len(v)
      /\ \A i \in 1..(Len(w) + Len(v)) : x[i] = IF i <= Len(w) THEN w[i] ELSE v[i - Len(w)]
  BY <1>4, <1>7, ConcatProperties
<1> HIDE DEF x
<1>9. Len(w) + Len(v) = n + 1 BY <1>1, <1>4, <1>7
<1>10. ASSUME NEW i \in 1..(n + 1) PROVE x[i] = IF i < b THEN s[i] ELSE IF i = b THEN e ELSE s[i - 1]
  <2>1. x[i] = IF i <= b THEN w[i] ELSE v[i - b] BY <1>7, <1>8, <1>9
  <2>2. CASE i < b
    <3>1. i \in 1..(b - 1) BY <1>1, <2>2
    <3> QED BY <1>1, <1>7, <2>1, <2>2, <3>1
  <2>3. CASE i = b BY <1>1, <1>7, <2>1, <2>3
  <2>4. CASE i > b
    <3>1. i - b \in 1..(n - b + 1) /\ b + (i - b) - 1 = i - 1 BY <1>1, <2>4
    <3>2. v[i - b] = s[b + (i - b) - 1] BY <1>4, <3>1
    <3>3. ~(i <= b) /\ ~(i < b) /\ i # b BY <1>1, <2>4
    <3>4. v[i - b] = s[i - 1] BY <3>1, <3>2
    <3>5. x[i] = v[i - b] BY <2>1, <3>3
    <3> QED BY <3>3, <3>4, <3>5
  <2> QED BY <1>1, <2>2, <2>3, <2>4
<1> QED BY <1>6, <1>8, <1>9, <1>10 DEF n, x

LEMMA OrderIs ==
  ASSUME NEW p \in SectionOrders
  PROVE  /\ p \in Seq(Sections) /\ Len(p) = 3 /\ p \in [1..3 -> Sections]
         /\ p[1] \in Sections /\ p[2] \in Sections /\ p[3] \in Sections
         /\ p[1] # p[2] /\ p[1] # p[3] /\ p[2] # p[3]
<1>1. p \in [1..3 -> Sections] /\ \A i, j \in 1..3 : p[i] = p[j] => i = j BY DEF SectionOrders
<1> HIDE DEF Sections
<1>2. p \in Seq(Sections) BY <1>1
<1>3. Len(p) = 3 BY <1>1, <1>2, LenProperties
<1>4. 1 \in 1..3 /\ 2 \in 1..3 /\ 3 \in 1..3 OBVIOUS
<1> QED BY <1>1, <1>2, <1>3, <1>4

LEMMA IndexIs ==
  ASSUME NEW p \in SectionOrders, NEW id \in Sections
  PROVE  Index(p, id) \in 1..3 /\ p[Index(p, id)] = id
<1>1. p[1] = id \/ p[2] = id \/ p[3] = id BY OrderIs DEF Sections
<1>2. \E i \in DOMAIN p : p[i] = id
  <2>1. DOMAIN p = 1..3 BY OrderIs
  <2> QED BY <1>1, <2>1
<1>3. Index(p, id) \in DOMAIN p /\ p[Index(p, id)] = id BY <1>2 DEF Index
<1> QED BY <1>3, OrderIs

LEMMA IndexAt ==
  ASSUME NEW p \in SectionOrders, NEW i \in 1..3
  PROVE  Index(p, p[i]) = i
<1>1. p[i] \in Sections BY OrderIs
<1>2. Index(p, p[i]) \in 1..3 /\ p[Index(p, p[i])] = p[i] BY <1>1, IndexIs
<1> QED BY <1>2 DEF SectionOrders

\* The sections at the other places, and what is where once the one is put in.
Other(p, a, i)      == IF i < a THEN p[i] ELSE p[i + 1]
Placed(p, id, b, i) == IF i = b THEN id ELSE Other(p, Index(p, id), IF i < b THEN i ELSE i - 1)

LEMMA ReorderedIs ==
  ASSUME NEW p \in SectionOrders, NEW id \in Sections, NEW b \in 1..3
  PROVE  /\ Reordered(p, id, b) \in Seq(Sections) /\ Len(Reordered(p, id, b)) = 3
         /\ \A i \in 1..3 : Reordered(p, id, b)[i] = Placed(p, id, b, i)
<1> DEFINE a == Index(p, id)
           r == RemoveAt(p, a)
           q == InsertAt(r, b, id)
<1>1. p \in Seq(Sections) /\ Len(p) = 3 BY OrderIs
<1>2. a \in 1..3 BY IndexIs
<1>3. q = Reordered(p, id, b) BY DEF Reordered
<1>4. r \in Seq(Sections) /\ Len(r) = Len(p) - 1
      /\ \A i \in 1..(Len(p) - 1) : r[i] = IF i < a THEN p[i] ELSE p[i + 1]
  <2> HIDE DEF a
  <2> QED BY <1>1, <1>2, WithoutIs
<1> HIDE DEF r, a
<1>5. Len(r) = 2 /\ \A i \in 1..2 : r[i] = Other(p, a, i) BY <1>1, <1>4 DEF Other
<1>6. b \in 1..(Len(r) + 1) BY <1>5
<1>7. q \in Seq(Sections) /\ Len(q) = Len(r) + 1
      /\ \A i \in 1..(Len(r) + 1) : q[i] = IF i < b THEN r[i] ELSE IF i = b THEN id ELSE r[i - 1]
  BY <1>4, <1>6, WithIs
<1> HIDE DEF q
<1>8. ASSUME NEW i \in 1..3 PROVE q[i] = IF i = b THEN id ELSE Other(p, a, IF i < b THEN i ELSE i - 1)
  <2>1. q[i] = IF i < b THEN r[i] ELSE IF i = b THEN id ELSE r[i - 1] BY <1>5, <1>7
  <2>2. CASE i < b
    <3>1. i \in 1..2 BY <2>2
    <3> QED BY <1>5, <2>1, <2>2, <3>1
  <2>3. CASE i = b BY <2>1, <2>3
  <2>4. CASE i > b
    <3>1. i - 1 \in 1..2 BY <2>4
    <3> QED BY <1>5, <2>1, <2>4, <3>1
  <2> QED BY <2>2, <2>3, <2>4
<1> QED BY <1>3, <1>5, <1>7, <1>8 DEF a, Placed

\* A section that is moved changes its place among the others and nothing else.
LEMMA ReorderedKeeps ==
  ASSUME NEW p \in SectionOrders, NEW id \in Sections, NEW b \in 1..3
  PROVE  /\ Reordered(p, id, b) \in SectionOrders
         /\ Index(Reordered(p, id, b), id) = b
<1> DEFINE q == Reordered(p, id, b)
           a == Index(p, id)
<1>1. q \in Seq(Sections) /\ Len(q) = 3
      /\ \A i \in 1..3 : q[i] = IF i = b THEN id ELSE Other(p, a, IF i < b THEN i ELSE i - 1)
  BY ReorderedIs DEF Placed
<1>2. a \in 1..3 /\ p[a] = id BY IndexIs
<1> HIDE DEF q, a
<1>3. \A i, j \in 1..3 : p[i] = p[j] => i = j BY DEF SectionOrders
<1>4. ASSUME NEW k \in 1..2 PROVE \E m \in 1..3 : m # a /\ Other(p, a, k) = p[m] /\ (m = IF k < a THEN k ELSE k + 1)
  BY <1>2 DEF Other
<1>5. ASSUME NEW k \in 1..2 PROVE Other(p, a, k) # id BY <1>2, <1>3, <1>4
<1>6. ASSUME NEW k \in 1..2, NEW l \in 1..2, Other(p, a, k) = Other(p, a, l) PROVE k = l
  <2>1. PICK m \in 1..3 : Other(p, a, k) = p[m] /\ (m = IF k < a THEN k ELSE k + 1) BY <1>4
  <2>2. PICK n \in 1..3 : Other(p, a, l) = p[n] /\ (n = IF l < a THEN l ELSE l + 1) BY <1>4
  <2>3. m = n BY <1>3, <1>6, <2>1, <2>2
  <2> QED BY <1>2, <2>1, <2>2, <2>3
<1>7. ASSUME NEW i \in 1..3, NEW j \in 1..3, q[i] = q[j] PROVE i = j
  <2> DEFINE back(n) == IF n < b THEN n ELSE n - 1
  <2>1. \A n \in 1..3 : n # b => back(n) \in 1..2 /\ q[n] = Other(p, a, back(n)) BY <1>1
  <2>2. q[b] = id BY <1>1
  <2>3. CASE i = b \/ j = b BY <1>5, <1>7, <2>1, <2>2, <2>3
  <2>4. CASE i # b /\ j # b
    <3>1. back(i) = back(j) BY <1>6, <1>7, <2>1, <2>4
    <3> QED BY <2>4, <3>1
  <2> QED BY <2>3, <2>4
<1>8. q \in [1..3 -> Sections] BY <1>1, LenProperties
<1>9. q \in SectionOrders BY <1>7, <1>8 DEF SectionOrders
<1>10. q[b] = id BY <1>1
<1> QED BY <1>9, <1>10, IndexAt DEF q

LEMMA ReorderedTwice ==
  ASSUME NEW p \in SectionOrders, NEW id \in Sections, NEW b \in 1..3, NEW c \in 1..3
  PROVE  Reordered(Reordered(p, id, b), id, c) = Reordered(p, id, c)
<1> DEFINE q == Reordered(p, id, b)
           u == Reordered(q, id, c)
           v == Reordered(p, id, c)
           a == Index(p, id)
<1>1. q \in SectionOrders /\ Index(q, id) = b BY ReorderedKeeps
<1>2. \A i \in 1..3 : q[i] = IF i = b THEN id ELSE Other(p, a, IF i < b THEN i ELSE i - 1) BY ReorderedIs DEF Placed
<1>3. v \in Seq(Sections) /\ Len(v) = 3
      /\ \A i \in 1..3 : v[i] = IF i = c THEN id ELSE Other(p, a, IF i < c THEN i ELSE i - 1)
  BY ReorderedIs DEF Placed
<1> HIDE DEF q
<1>4. u \in Seq(Sections) /\ Len(u) = 3
      /\ \A i \in 1..3 : u[i] = IF i = c THEN id ELSE Other(q, b, IF i < c THEN i ELSE i - 1)
  <2>1. \A o \in SectionOrders : /\ Reordered(o, id, c) \in Seq(Sections) /\ Len(Reordered(o, id, c)) = 3
                                 /\ \A i \in 1..3 : Reordered(o, id, c)[i] = Placed(o, id, c, i)
    BY ReorderedIs
  <2> QED BY <1>1, <2>1 DEF Placed
<1>5. ASSUME NEW k \in 1..2 PROVE Other(q, b, k) = Other(p, a, k)
  <2>1. CASE k < b
    <3>1. k \in 1..3 /\ k # b BY <2>1
    <3>2. q[k] = Other(p, a, k) BY <1>2, <2>1, <3>1
    <3> QED BY <2>1, <3>2 DEF Other
  <2>2. CASE ~(k < b)
    <3>1. k + 1 \in 1..3 /\ k + 1 # b /\ ~(k + 1 < b) /\ k + 1 - 1 = k BY <2>2
    <3>2. q[k + 1] = Other(p, a, k) BY <1>2, <3>1
    <3>3. Other(q, b, k) = q[k + 1] BY <2>2 DEF Other
    <3> QED BY <3>2, <3>3
  <2> QED BY <2>1, <2>2
<1> HIDE DEF u, v, a
<1>6. ASSUME NEW i \in 1..3 PROVE u[i] = v[i]
  <2>1. CASE i = c BY <1>3, <1>4, <2>1
  <2>2. CASE i # c
    <3> DEFINE k == IF i < c THEN i ELSE i - 1
    <3>1. k \in 1..2 BY <2>2
    <3>2. u[i] = Other(q, b, k) /\ v[i] = Other(p, a, k) BY <1>3, <1>4, <2>2
    <3> HIDE DEF k
    <3> QED BY <1>5, <3>1, <3>2
  <2> QED BY <2>1, <2>2
<1>7. u = v BY <1>3, <1>4, <1>6, SeqEqual
<1> QED BY <1>7 DEF u, v, q

LEMMA ReorderedHome ==
  ASSUME NEW p \in SectionOrders, NEW id \in Sections
  PROVE  Reordered(p, id, Index(p, id)) = p
<1> DEFINE a == Index(p, id)
           q == Reordered(p, id, a)
<1>1. p \in Seq(Sections) /\ Len(p) = 3 BY OrderIs
<1>2. a \in 1..3 /\ p[a] = id BY IndexIs
<1>3. q \in Seq(Sections) /\ Len(q) = 3
      /\ \A i \in 1..3 : q[i] = IF i = a THEN id ELSE Other(p, a, IF i < a THEN i ELSE i - 1)
  <2> HIDE DEF q
  <2> QED BY <1>2, ReorderedIs DEF q, Placed
<1> HIDE DEF q, a
<1>4. ASSUME NEW i \in 1..3 PROVE q[i] = p[i]
  <2>1. CASE i = a BY <1>2, <1>3, <2>1
  <2>2. CASE i < a BY <1>2, <1>3, <2>2 DEF Other
  <2>3. CASE i > a
    <3>1. ~(i - 1 < a) /\ i - 1 + 1 = i /\ i # a /\ ~(i < a) BY <1>2, <2>3
    <3> QED BY <1>3, <3>1 DEF Other
  <2> QED BY <1>2, <2>1, <2>2, <2>3
<1>5. q = p BY <1>1, <1>3, <1>4, SeqEqual
<1> QED BY <1>5 DEF q, a

\* An order with every section once is as it is shown.
LEMMA NormalizedOrder ==
  ASSUME NEW p \in SectionOrders
  PROVE  NormalizedSectionOrder(p) = p
<1> DEFINE all == p \o DefaultOrder
           P == {i \in DOMAIN all : all[i] \in Sections /\ \A j \in 1..(i - 1) : all[j] # all[i]}
<1>1. p \in Seq(Sections) /\ Len(p) = 3 /\ p \in [1..3 -> Sections] /\ \A i, j \in 1..3 : p[i] = p[j] => i = j
  BY OrderIs DEF SectionOrders
<1>2. DefaultOrder \in Seq(Sections) /\ Len(DefaultOrder) = 3 BY DEF DefaultOrder, Sections
<1>3. all \in Seq(Sections) /\ Len(all) = 6 /\ \A i \in 1..6 : all[i] = IF i <= 3 THEN p[i] ELSE DefaultOrder[i - 3]
  <2>1. all \in Seq(Sections) /\ Len(all) = Len(p) + Len(DefaultOrder)
        /\ \A i \in 1..(Len(p) + Len(DefaultOrder)) :
             all[i] = IF i <= Len(p) THEN p[i] ELSE DefaultOrder[i - Len(p)]
    BY <1>1, <1>2, ConcatProperties
  <2> HIDE DEF all
  <2> QED BY <1>1, <1>2, <2>1
<1> HIDE DEF all
<1>4. DOMAIN all = 1..6 BY <1>3, LenProperties
<1>5. P = 1..3
  <2>1. ASSUME NEW i \in 1..3 PROVE i \in P
    <3>1. i \in 1..6 /\ i <= 3 BY <2>1
    <3>2. all[i] = p[i] /\ all[i] \in Sections BY <1>1, <1>3, <3>1
    <3>3. ASSUME NEW j \in 1..(i - 1) PROVE all[j] # all[i]
      <4>1. j \in 1..3 /\ j \in 1..6 /\ j # i BY <3>1
      <4>2. all[j] = p[j] BY <1>3, <4>1
      <4> QED BY <1>1, <3>2, <4>1, <4>2
    <3> QED BY <1>4, <3>1, <3>2, <3>3
  <2>2. ASSUME NEW i \in 1..6, i > 3 PROVE i \notin P
    <3>1. all[i] \in Sections BY <1>3, ElementOfSeq
    <3>2. PICK m \in 1..3 : p[m] = all[i] BY <3>1, IndexIs
    <3>3. m \in 1..6 /\ m \in 1..(i - 1) BY <2>2
    <3>4. all[m] = all[i] BY <1>3, <3>2, <3>3
    <3> QED BY <3>3, <3>4
  <2>3. ASSUME NEW i \in P PROVE i \in 1..3
    <3>1. i \in 1..6 BY <1>4
    <3> HIDE DEF P
    <3>2. ~(i > 3) BY <2>2, <3>1
    <3> QED BY <3>1, <3>2
  <2> QED BY <2>1, <2>3
<1>6. NormalizedSectionOrder(p) = ElementsAt(all, P) BY DEF NormalizedSectionOrder, all
<1> HIDE DEF P
<1>7. ElementsAt(all, 1..3) = [k \in 1..3 |-> all[k]] BY ElementsAtFront
<1>8. \A k \in 1..3 : all[k] = p[k] BY <1>3
<1>9. p = [k \in 1..3 |-> p[k]] BY <1>1
<1> QED BY <1>5, <1>6, <1>7, <1>8, <1>9

\* Two sections change places.
LEMMA SwappedIs ==
  ASSUME NEW p \in SectionOrders, NEW a \in 1..3, NEW b \in 1..3
  PROVE  [p EXCEPT ![a] = p[b], ![b] = p[a]] \in SectionOrders
<1> DEFINE q == [p EXCEPT ![a] = p[b], ![b] = p[a]]
           at(i) == IF i = b THEN a ELSE IF i = a THEN b ELSE i
<1>1. p \in [1..3 -> Sections] /\ \A i, j \in 1..3 : p[i] = p[j] => i = j BY DEF SectionOrders
<1>2. \A i \in 1..3 : at(i) \in 1..3 /\ q[i] = p[at(i)] BY <1>1
<1>3. \A i, j \in 1..3 : at(i) = at(j) => i = j OBVIOUS
<1>4. q \in [1..3 -> Sections] BY <1>1
<1> HIDE DEF q, at
<1>5. \A i, j \in 1..3 : q[i] = q[j] => i = j BY <1>1, <1>2, <1>3
<1>6. q \in SectionOrders BY <1>4, <1>5 DEF SectionOrders
<1> QED BY <1>6 DEF q

\* The pointer is over one of the slots, and over its own when it has not moved.
LEMMA TargetIs ==
  ASSUME NEW origin \in 1..3, NEW y \in Int
  PROVE  OrderTarget(y, origin) \in 1..3
<1> DEFINE down == {j \in origin..2 : Pitch * origin + y > Pitch * j + Push}
           up   == {j \in 2..origin : Pitch * origin + y < Pitch * j - Push}
<1>1. /\ IsFiniteSet(origin..2) /\ Cardinality(origin..2) <= 3 - origin
      /\ IsFiniteSet(2..origin) /\ Cardinality(2..origin) <= origin - 1
  <2>1. IsFiniteSet(origin..2) /\ Cardinality(origin..2) = IF origin > 2 THEN 0 ELSE 2 - origin + 1 BY FS_Interval
  <2>2. IsFiniteSet(2..origin) /\ Cardinality(2..origin) = IF 2 > origin THEN 0 ELSE origin - 2 + 1 BY FS_Interval
  <2> QED BY <2>1, <2>2
<1>2. /\ IsFiniteSet(down) /\ Cardinality(down) <= Cardinality(origin..2)
      /\ IsFiniteSet(up) /\ Cardinality(up) <= Cardinality(2..origin)
  BY <1>1, FS_Subset
<1>3. Cardinality(down) \in Nat /\ Cardinality(up) \in Nat /\ Cardinality(origin..2) \in Nat
      /\ Cardinality(2..origin) \in Nat
  BY <1>1, <1>2, FS_CardinalityType
<1>4. OrderTarget(y, origin) = origin + Cardinality(down) - Cardinality(up) BY DEF OrderTarget
<1> HIDE DEF down, up
<1> QED BY <1>1, <1>2, <1>3, <1>4

LEMMA TargetAtStart == ASSUME NEW origin \in 1..3 PROVE OrderTarget(0, origin) = origin
<1>1. {j \in origin..2 : Pitch * origin + 0 > Pitch * j + Push} = {} BY DEF Pitch, Push
<1>2. {j \in 2..origin : Pitch * origin + 0 < Pitch * j - Push} = {} BY DEF Pitch, Push
<1>3. Cardinality({}) = 0 BY FS_EmptySet
<1>4. OrderTarget(0, origin) = origin + 0 - 0 BY <1>1, <1>2, <1>3 DEF OrderTarget
<1> QED BY <1>4

\* Settings that have every section once.
Ordered(c) == c.order \in SectionOrders

\* Every order that is stored, edited, saved or read has every section once.
\* A drag remembers where its section was and the order it started with, until
\* a draft is read from the server.
OrderInv ==
  /\ Ordered(config)
  /\ settings.draft # None \/ drag.open \/ accent.focused => Ordered(settings.draft)
  /\ settings.saving \notin {None, << >>} => Ordered(settings.saving[1])
  /\ \A q \in requests : q.answer # None => Ordered(q.answer)
  /\ drag.section # None => drag.section \in Sections /\ drag.origin \in 1..3
  /\ drag.from # << >> => /\ drag.section \in Sections /\ drag.from \in SectionOrders
                          /\ drag.origin = Index(drag.from, drag.section) /\ drag.y \in Int
  /\ DragFollowsPointer

LEMMA OrderInitInv == SettingsInit => OrderInv
BY SiteSettingsAssumption DEF SettingsInit, SettingsOpen, OrderInv, Ordered, DragFollowsPointer, NoDrag

\* A step that leaves the order and the drag alone, and what it sends and reads
\* has every section once.
LEMMA OrderStays ==
  ASSUME OrderInv, Ordered(config'),
         settings'.draft # None \/ drag'.open \/ accent'.focused => Ordered(settings'.draft),
         settings'.saving \notin {None, << >>} => Ordered(settings'.saving[1]),
         \A q \in requests' : q.answer # None => Ordered(q.answer),
         \/ /\ drag'.section = drag.section /\ drag'.origin = drag.origin /\ drag'.y = drag.y
            /\ drag'.from = << >> \/ (drag'.from = drag.from /\ settings'.draft.order = settings.draft.order)
         \/ drag'.section = None /\ drag'.from = << >>
  PROVE  OrderInv'
BY DEF OrderInv, DragFollowsPointer

LEMMA OrderInvNext == ColourInv /\ OrderInv /\ (SettingsNext \/ UNCHANGED settingsVars) => OrderInv'
<1> SUFFICES ASSUME ColourInv, OrderInv, SettingsNext \/ UNCHANGED settingsVars PROVE OrderInv' OBVIOUS
<1>0. /\ DOMAIN settings = SettingsFields /\ DOMAIN accent = AccentFields /\ DOMAIN drag = DragFields
      /\ \A q \in requests : DOMAIN q = {"n", "replaces", "answer"}
      /\ accent.focused \/ drag.open => IsConfig(settings.draft)
      /\ settings.draft # None => IsConfig(settings.draft)
      /\ drag.section # None => drag.open
  BY DEF ColourInv
<1>a. /\ Ordered(config)
      /\ settings.draft # None \/ drag.open \/ accent.focused => Ordered(settings.draft)
      /\ settings.saving \notin {None, << >>} => Ordered(settings.saving[1])
      /\ \A q \in requests : q.answer # None => Ordered(q.answer)
  BY DEF OrderInv
<1>b. drag.open => settings.draft.order \in SectionOrders /\ sectionOrder = settings.draft.order
  BY <1>a, NormalizedOrder DEF Ordered, sectionOrder
<1> USE DEF SettingsFields, AccentFields, DragFields, ConfigFields, IsConfig
<1>1. ASSUME NEW q \in requests, ServeSettings(q) PROVE OrderInv'
  BY <1>0, <1>a, <1>1, OrderStays DEF ServeSettings
<1>2. ASSUME NEW q \in requests, SettingsArrive(q) PROVE OrderInv'
  <2>1. PICK draft : draft = IF q.replaces THEN q.answer ELSE settings.draft OBVIOUS
  <2>2. settings' = [settings EXCEPT !.saved = q.answer, !.draft = draft] BY <1>2, <2>1 DEF SettingsArrive
  <2>3. settings'.draft = draft /\ settings'.saving = settings.saving BY <1>0, <2>2
  <2>4. q.answer # None /\ Ordered(q.answer) BY <1>2, <1>a DEF SettingsArrive
  <2>5. UNCHANGED config /\ requests' \subseteq requests BY <1>2 DEF SettingsArrive
  <2>6. CASE q.replaces
    <3>1. draft = q.answer /\ drag' = [drag EXCEPT !.from = << >>] BY <1>2, <2>1, <2>6 DEF SettingsArrive
    <3>2. /\ drag'.section = drag.section /\ drag'.origin = drag.origin /\ drag'.y = drag.y /\ drag'.from = << >>
      BY <1>0, <3>1
    <3>3. Ordered(settings'.draft) BY <2>3, <2>4, <3>1
    <3>4. Ordered(config') /\ \A p \in requests' : p.answer # None => Ordered(p.answer) BY <1>a, <2>5
    <3>5. settings'.saving \notin {None, << >>} => Ordered(settings'.saving[1]) BY <1>a, <2>3
    <3>6. /\ drag.section # None => drag.section \in Sections /\ drag.origin \in 1..3
          /\ DragFollowsPointer'
      BY <3>2 DEF OrderInv, DragFollowsPointer
    <3> QED BY <3>2, <3>3, <3>4, <3>5, <3>6 DEF OrderInv
  <2>7. CASE ~q.replaces
    <3>1. draft = settings.draft /\ drag' = drag BY <1>2, <2>1, <2>7 DEF SettingsArrive
    <3>2. accent'.focused => accent.focused \/ settings.draft # None
      <4>1. CASE draft = None BY <1>2, <2>1, <4>1 DEF SettingsArrive
      <4>2. CASE draft # None BY <3>1, <4>2
      <4> QED BY <4>1, <4>2
    <3> QED BY <1>a, <2>3, <2>5, <3>1, <3>2, OrderStays
  <2> QED BY <2>6, <2>7
<1>3. ASSUME NEW q \in requests, SettingsFail(q) PROVE OrderInv' BY <1>0, <1>a, <1>3, OrderStays DEF SettingsFail
<1>4. ASSUME NEW id \in Sections, SwitchSection(id) PROVE OrderInv'
  BY <1>0, <1>a, <1>4, OrderStays DEF SwitchSection, PatchDraft, Coloured, Ready, Ordered
<1>5. ASSUME NEW id \in Sections, OpenSection(id) PROVE OrderInv' BY <1>0, <1>a, <1>5, OrderStays DEF OpenSection
<1>6. ASSUME NEW id \in Sections, StartDrag(id) PROVE OrderInv'
  <2>1. drag.open /\ UNCHANGED << config, accent, requests >> BY <1>6 DEF StartDrag, Draggable
  <2>2. settings'.draft = settings.draft /\ settings'.saving = settings.saving BY <1>0, <1>6 DEF StartDrag
  <2>3. PICK p \in SectionOrders : p = settings.draft.order /\ p = sectionOrder BY <1>b, <2>1
  <2>4. /\ drag'.section = id /\ drag'.origin = Index(p, id) /\ drag'.y = 0 /\ drag'.from = p
    BY <1>0, <1>6, <2>3 DEF StartDrag
  <2>5. Index(p, id) \in 1..3 BY IndexIs
  <2>6. OrderTarget(0, Index(p, id)) = Index(p, id) BY <2>5, TargetAtStart
  <2>7. Reordered(p, id, Index(p, id)) = p BY ReorderedHome
  <2>8. DragFollowsPointer' BY <2>2, <2>3, <2>4, <2>6, <2>7 DEF DragFollowsPointer
  <2> QED BY <1>a, <2>1, <2>2, <2>3, <2>4, <2>5, <2>8 DEF OrderInv
<1>7. ASSUME NEW id \in Sections, NEW n \in {1, -1}, MoveSection(id, n) PROVE OrderInv'
  <2>1. drag.open /\ UNCHANGED << config, drag, requests >> /\ drag.section = None BY <1>7 DEF MoveSection, Draggable
  <2>2. PICK p \in SectionOrders : p = settings.draft.order /\ p = sectionOrder BY <1>b, <2>1
  <2>3. PICK a : a = Index(p, id) OBVIOUS
  <2>4. a \in 1..3 /\ p[a] = id BY <2>3, IndexIs
  <2>5. a + n \in 1..3 BY <1>7, <2>2, <2>3 DEF MoveSection
  <2>6. PICK order : order = [p EXCEPT ![a] = p[a + n], ![a + n] = id] OBVIOUS
  <2>7. order \in SectionOrders BY <2>4, <2>5, <2>6, SwappedIs
  <2>8. PICK draft : draft = [settings.draft EXCEPT !.order = order] OBVIOUS
  <2>9. PatchDraft(draft) BY <1>7, <2>2, <2>3, <2>6, <2>8 DEF MoveSection
  <2>10. settings'.draft = draft /\ settings'.saving = settings.saving BY <1>0, <2>9 DEF PatchDraft
  <2>11. Ordered(draft) BY <1>0, <2>1, <2>7, <2>8 DEF Ordered
  <2>12. drag.from = << >> BY <2>1, SiteSettingsAssumption DEF OrderInv
  <2> QED BY <1>a, <2>1, <2>10, <2>11, <2>12, OrderStays
<1>8. ASSUME NEW c \in Accents, PickAccent(c) PROVE OrderInv'
  BY <1>0, <1>a, <1>8, OrderStays DEF PickAccent, PatchDraft, Coloured, Ready, Ordered
<1>9. ASSUME NEW t \in Accents \cup {NotAColour}, TypeAccent(t) PROVE OrderInv'
  BY <1>0, <1>a, <1>9, OrderStays DEF TypeAccent, Ready
<1>10. CASE CloseSection BY <1>0, <1>a, <1>10, OrderStays DEF CloseSection
<1>11. CASE CommitAccentText
  <2>1. UNCHANGED << config, drag, requests >> /\ accent.focused BY <1>11 DEF CommitAccentText
  <2>2. CASE UNCHANGED settings BY <1>a, <2>1, <2>2, OrderStays
  <2>3. CASE settings' # settings
    <3>1. PICK draft : draft = [settings.draft EXCEPT !.accent = accent.text] OBVIOUS
    <3>2. settings' = [settings EXCEPT !.draft = draft] BY <1>11, <2>3, <3>1 DEF CommitAccentText
    <3>3. settings'.draft = draft /\ settings'.saving = settings.saving BY <1>0, <3>2
    <3>4. draft.order = settings.draft.order BY <1>0, <2>1, <3>1
    <3>5. Ordered(draft) BY <1>a, <2>1, <3>4 DEF Ordered
    <3> QED BY <1>a, <2>1, <3>3, <3>4, <3>5, OrderStays
  <2> QED BY <2>2, <2>3
<1>12. CASE SaveSettings
  <2>1. settings'.saving = << settings.draft >> /\ settings'.draft = settings.draft /\ settings.draft # None
    BY <1>0, <1>12 DEF SaveSettings, Ready
  <2>2. Ordered(settings'.saving[1]) BY <1>a, <2>1
  <2> QED BY <1>a, <1>12, <2>1, <2>2, OrderStays DEF SaveSettings
<1>13. CASE SettingsStored BY <1>0, <1>a, <1>13, OrderStays DEF SettingsStored
<1>14. CASE SaveAnswered BY <1>0, <1>a, <1>14, OrderStays DEF SaveAnswered, Reading
<1>15. CASE SaveRefused BY <1>0, <1>a, <1>15, OrderStays DEF SaveRefused
<1>16. CASE ChangeIcon BY <1>0, <1>a, <1>16, OrderStays DEF ChangeIcon
<1>17. CASE IconChanged BY <1>0, <1>a, <1>17, OrderStays DEF IconChanged, Reading
<1>18. CASE IconFails BY <1>0, <1>a, <1>18, OrderStays DEF IconFails
<1>19. CASE OpenOrder BY <1>a, <1>19, OrderStays DEF OpenOrder, Ready, NoDrag
<1>20. CASE CloseOrder BY <1>a, <1>20, OrderStays DEF CloseOrder, NoDrag
<1>21. CASE EndDrag
  <2>1. drag' = [NoDrag EXCEPT !.open = TRUE] /\ drag.open BY <1>0, <1>21 DEF EndDrag
  <2>2. drag'.section = None /\ drag'.from = << >> BY <2>1 DEF NoDrag
  <2> QED BY <1>a, <1>21, <2>1, <2>2, OrderStays DEF EndDrag
<1>22. ASSUME NEW y \in Offsets, DragTo(y) PROVE OrderInv'
  <2>1. drag.open /\ drag.section # None /\ UNCHANGED << config, accent, requests >> BY <1>22 DEF DragTo, Draggable
  <2>2. /\ drag'.section = drag.section /\ drag'.origin = drag.origin /\ drag'.from = drag.from /\ drag'.y = y
        /\ drag'.open = drag.open
    BY <1>0, <1>22 DEF DragTo
  <2>3. PICK id \in Sections : id = drag.section BY <2>1 DEF OrderInv
  <2>4. drag.origin \in 1..3 /\ y \in Int BY <2>1, SiteSettingsAssumption DEF OrderInv
  <2>5. PICK p \in SectionOrders : p = settings.draft.order /\ p = sectionOrder BY <1>b, <2>1
  <2>6. PICK t \in 1..3 : t = OrderTarget(y, drag.origin) BY <2>4, TargetIs
  \* Whether or not the section is where it belongs, it is put there.
  <2>7. settings'.draft.order = Reordered(p, id, t) /\ settings'.saving = settings.saving
    <3>1. CASE t = Index(p, id)
      <4>1. UNCHANGED settings BY <1>22, <2>3, <2>5, <2>6, <3>1 DEF DragTo, Taken
      <4>2. Reordered(p, id, t) = p BY <3>1, ReorderedHome
      <4> QED BY <2>5, <4>1, <4>2
    <3>2. CASE t # Index(p, id)
      <4>1. settings' = [settings EXCEPT !.draft.order = Reordered(p, id, t)]
        BY <1>22, <2>3, <2>5, <2>6, <3>2 DEF DragTo, Taken
      <4> QED BY <1>0, <2>1, <4>1
    <3> QED BY <3>1, <3>2
  <2>8. Reordered(p, id, t) \in SectionOrders BY ReorderedKeeps
  <2>9. ASSUME drag.from # << >> PROVE settings'.draft.order = Reordered(drag.from, id, t)
    <3>1. PICK from \in SectionOrders : from = drag.from BY <2>9 DEF OrderInv
    <3>2. drag.y \in Int BY <2>9 DEF OrderInv
    <3>3. PICK u \in 1..3 : u = OrderTarget(drag.y, drag.origin) BY <2>4, <3>2, TargetIs
    <3>4. p = Reordered(from, id, u) BY <2>3, <2>5, <2>9, <3>1, <3>3 DEF OrderInv, DragFollowsPointer
    <3> QED BY <2>7, <3>1, <3>4, ReorderedTwice
  <2>10. DragFollowsPointer' BY <2>2, <2>3, <2>6, <2>9 DEF DragFollowsPointer
  <2> QED BY <1>a, <2>1, <2>2, <2>4, <2>7, <2>8, <2>10 DEF OrderInv, Ordered
<1>23. CASE UNCHANGED settingsVars BY <1>a, <1>23, OrderStays DEF settingsVars
<1> QED BY <1>1, <1>2, <1>3, <1>4, <1>5, <1>6, <1>7, <1>8, <1>9, <1>10, <1>11, <1>12, <1>13, <1>14, <1>15, <1>16, <1>17,
           <1>18, <1>19, <1>20, <1>21, <1>22, <1>23 DEF SettingsNext

SlackFields     == {"of", "had", "view", "loading", "replacing", "touched", "edits", "saves", "lost", "form"}
SlackFormFields == {"mode", "enabled", "rules", "drafts"}

\* A form says nothing about a secret that nobody touched.
Untouched(form) == \A c \in Channels \ slack.touched : form.drafts[c] = NoDraft

\* What is shown came from what is stored, but between a save and its answer
\* or after one whose answer was lost.
SlackInv ==
  /\ DOMAIN slack = SlackFields /\ slack.of \in {"site", "system"}
  /\ DOMAIN slack.form = SlackFormFields /\ DOMAIN slack.form.drafts = Channels
  /\ DOMAIN saving = {"step", "form", "answer"}
  /\ slack.view # None /\ ~slack.lost /\ saving.step # "done" => slack.view = ViewOf(stored)
  /\ saving.step = "done" => saving.answer = ViewOf(stored)
  /\ Untouched(slack.form) /\ (saving.step # "none" => Untouched(saving.form))
  /\ EnabledCanSend /\ SecretsKept

LEMMA SlackInitInv == ASSUME NEW of \in {"site", "system"}, SlackOpens(of) PROVE SlackInv
<1> DEFINE kinds    == IF of = "site" THEN SiteKinds ELSE {"health"}
           channels == IF of = "site" THEN SiteKinds \cup {"common"} ELSE {"common", "signing"}
<1>1. PICK had \in SUBSET {"common"} :
        /\ stored = [mode |-> "single", enabled |-> IF had = {} THEN {} ELSE kinds, rules |-> << >>,
                     secrets |-> [c \in channels |-> IF c \in had THEN "old" ELSE None]]
        /\ slack = [of |-> of, had |-> had, view |-> None, loading |-> TRUE, replacing |-> {}, touched |-> {},
                    edits |-> 0, saves |-> 0, lost |-> FALSE,
                    form |-> FormOf([mode |-> "single", enabled |-> {}, rules |-> << >>], channels)]
  BY DEF SlackOpens
<1>2. Channels = channels BY <1>1 DEF Channels
<1>3. DOMAIN slack = SlackFields /\ DOMAIN slack.form = SlackFormFields /\ slack.form.drafts = [c \in channels |-> NoDraft]
  BY <1>1 DEF SlackFields, SlackFormFields, FormOf
<1>4. saving = NotSaving BY DEF SlackOpens
<1>5. EnabledCanSend
  <2> SUFFICES ASSUME NEW k \in stored.enabled PROVE WebhookFor(stored, k) # None BY DEF EnabledCanSend
  <2>1. had = {"common"} BY <1>1
  <2>2. stored.mode = "single" /\ stored.secrets["common"] = "old" BY <1>1, <2>1
  <2> QED BY <2>2, SlackAssumption DEF WebhookFor
<1>6. SecretsKept BY <1>1, <1>2 DEF SecretsKept
<1>7. slack.view = None /\ slack.touched = {} BY <1>1
<1>8. Untouched(slack.form) BY <1>2, <1>3 DEF Untouched
<1>9. slack.of = of BY <1>1
<1> QED BY <1>2, <1>3, <1>4, <1>5, <1>6, <1>7, <1>8, <1>9 DEF SlackInv, NotSaving

\* An edit of the form that leaves alone the drafts of what is untouched.
LEMMA SlackEditKeeps ==
  ASSUME SlackInv, NEW form, NEW replacing, NEW touched, EditForm(form, replacing, touched),
         DOMAIN form = SlackFormFields, DOMAIN form.drafts = Channels, slack.touched \subseteq touched,
         \A c \in Channels \ touched : form.drafts[c] = NoDraft
  PROVE  SlackInv'
<1>1. slack' = [slack EXCEPT !.form = form, !.replacing = replacing, !.touched = touched, !.edits = @ + 1]
  BY DEF EditForm
<1>2. DOMAIN slack' = SlackFields /\ slack'.form = form /\ slack'.touched = touched /\ slack'.view = slack.view
      /\ slack'.lost = slack.lost /\ slack'.of = slack.of /\ slack'.had = slack.had
  BY <1>1 DEF SlackInv, SlackFields
<1>3. UNCHANGED << stored, saving >> BY DEF EditForm
<1>4. Channels' = Channels BY <1>2 DEF Channels
<1>5. EnabledCanSend' BY <1>3 DEF SlackInv, EnabledCanSend, WebhookFor
<1>6. SecretsKept' BY <1>2, <1>3, <1>4 DEF SlackInv, SecretsKept
<1>7. Untouched(slack.form)' BY <1>2, <1>4 DEF Untouched
<1>8. saving'.step # "none" => Untouched(saving.form)' BY <1>2, <1>3, <1>4 DEF SlackInv, Untouched
<1>9. ViewOf(stored)' = ViewOf(stored) BY <1>3 DEF ViewOf
<1> QED BY <1>2, <1>3, <1>4, <1>5, <1>6, <1>7, <1>8, <1>9 DEF SlackInv

\* One that leaves all drafts alone.
LEMMA ChangeKeeps ==
  ASSUME SlackInv, NEW form, NEW replacing, EditForm(form, replacing, slack.touched),
         DOMAIN form = SlackFormFields, form.drafts = slack.form.drafts
  PROVE  SlackInv'
BY SlackEditKeeps DEF SlackInv, Untouched

\* One of the draft of a secret, which is touched unless nothing is said of it.
LEMMA DraftKeeps ==
  ASSUME SlackInv, NEW c \in Channels, NEW value, NEW clear, NEW touched,
         EditForm(WithDraft(c, value, clear), slack.replacing, touched),
         touched = slack.touched \cup {c} \/ (touched = slack.touched /\ value = "" /\ clear = FALSE)
  PROVE  SlackInv'
<1> DEFINE form == WithDraft(c, value, clear)
<1>1. DOMAIN form = SlackFormFields /\ form.drafts = [slack.form.drafts EXCEPT ![c] = [value |-> value, clear |-> clear]]
  BY DEF WithDraft, SlackInv, SlackFormFields
<1>2. DOMAIN form.drafts = Channels BY <1>1 DEF SlackInv
<1>3. ASSUME NEW d \in Channels \ touched PROVE form.drafts[d] = NoDraft
  <2>1. CASE d = c BY <1>1, <2>1 DEF NoDraft, SlackInv
  <2>2. CASE d # c BY <1>1, <2>2 DEF SlackInv, Untouched
  <2> QED BY <2>1, <2>2
<1> HIDE DEF form
<1>4. PICK f : f = form OBVIOUS
<1>5. EditForm(f, slack.replacing, touched) BY <1>4 DEF form
<1> QED BY <1>1, <1>2, <1>3, <1>4, <1>5, SlackEditKeeps

\* What came from the server is shown.
LEMMA AppliedKeeps ==
  ASSUME SlackInv, NEW loading, NEW lost, slack' = [Applied(ViewOf(stored)) EXCEPT !.loading = loading, !.lost = lost],
         UNCHANGED stored, saving' \in {saving, NotSaving}
  PROVE  SlackInv'
<1>1. DOMAIN slack' = SlackFields /\ slack'.form = FormOf(ViewOf(stored), Channels) /\ slack'.view = ViewOf(stored)
      /\ slack'.touched = slack.touched /\ slack'.of = slack.of /\ slack'.had = slack.had
  BY DEF Applied, SlackInv, SlackFields
<1>2. Channels' = Channels BY <1>1 DEF Channels
<1>3. DOMAIN slack'.form = SlackFormFields /\ slack'.form.drafts = [c \in Channels |-> NoDraft] BY <1>1 DEF FormOf, SlackFormFields
<1>4. EnabledCanSend' BY DEF SlackInv, EnabledCanSend, WebhookFor
<1>5. SecretsKept' BY <1>1, <1>2 DEF SlackInv, SecretsKept
<1>6. Untouched(slack.form)' BY <1>2, <1>3 DEF Untouched
<1>7. saving'.step # "none" => Untouched(saving.form)' BY <1>1, <1>2 DEF SlackInv, Untouched, NotSaving
<1>8. ViewOf(stored)' = ViewOf(stored) BY DEF ViewOf
<1> QED BY <1>1, <1>2, <1>3, <1>4, <1>5, <1>6, <1>7, <1>8 DEF SlackInv, NotSaving

\* Neither the form nor what is stored changes.
LEMMA SlackSame ==
  ASSUME SlackInv, UNCHANGED stored, DOMAIN slack' = SlackFields,
         slack'.of = slack.of, slack'.had = slack.had, slack'.view = slack.view, slack'.form = slack.form,
         slack'.touched = slack.touched, DOMAIN saving' = {"step", "form", "answer"},
         slack.lost \/ (saving.step = "done" /\ saving' # saving) => slack'.lost,
         \/ saving' = saving \/ saving'.step = "none"
         \/ saving'.step = "asked" /\ Untouched(saving'.form) /\ saving.step = "none"
  PROVE  SlackInv'
<1>1. Channels' = Channels BY DEF Channels
<1>2. EnabledCanSend' BY DEF SlackInv, EnabledCanSend, WebhookFor
<1>3. SecretsKept' BY <1>1 DEF SlackInv, SecretsKept
<1>4. Untouched(slack.form)' BY <1>1 DEF SlackInv, Untouched
<1>5. saving'.step # "none" => Untouched(saving.form)' BY <1>1 DEF SlackInv, Untouched
<1>6. ViewOf(stored)' = ViewOf(stored) BY DEF ViewOf
<1> QED BY <1>1, <1>2, <1>3, <1>4, <1>5, <1>6 DEF SlackInv

LEMMA SlackInvNext == SlackInv /\ (SlackNext \/ UNCHANGED slackVars) => SlackInv'
<1> SUFFICES ASSUME SlackInv, SlackNext \/ UNCHANGED slackVars PROVE SlackInv' OBVIOUS
<1>1. CASE SlackLoads
  <2>1. slack' = [Applied(ViewOf(stored)) EXCEPT !.loading = FALSE, !.lost = slack.lost]
    BY <1>1 DEF SlackLoads, Applied, SlackInv, SlackFields
  <2> QED BY <1>1, <2>1, AppliedKeeps DEF SlackLoads
<1>2. CASE SlackLoadFails
  <2>1. DOMAIN slack' = SlackFields /\ slack'.of = slack.of /\ slack'.had = slack.had /\ slack'.view = slack.view
        /\ slack'.form = slack.form /\ slack'.touched = slack.touched /\ slack'.lost = slack.lost
    BY <1>2 DEF SlackLoadFails, SlackInv, SlackFields
  <2> QED BY <1>2, <2>1, SlackSame DEF SlackLoadFails, SlackInv
<1>3. ASSUME NEW m \in {"single", "per_notification"}, SetRoutingMode(m) PROVE SlackInv'
  BY <1>3, ChangeKeeps DEF SetRoutingMode, SlackInv, SlackFormFields
<1>4. ASSUME NEW k \in Kinds, SetKind(k) PROVE SlackInv' BY <1>4, ChangeKeeps DEF SetKind, ChangeForm, SlackInv, SlackFormFields
<1>5. CASE AddRule BY <1>5, ChangeKeeps DEF AddRule, ChangeForm, SlackInv, SlackFormFields
<1>6. ASSUME NEW i \in DOMAIN slack.form.rules, RemoveRule(i) PROVE SlackInv'
  BY <1>6, ChangeKeeps DEF RemoveRule, ChangeForm, SlackInv, SlackFormFields
<1>7. ASSUME NEW i \in DOMAIN slack.form.rules, NEW rule, PatchRule(i, rule) PROVE SlackInv'
  BY <1>7, ChangeKeeps DEF PatchRule, ChangeForm, SlackInv, SlackFormFields
<1>8. ASSUME NEW c \in ShownChannels,
             \/ RemoveSecret(c) \/ UndoRemoval(c) \/ ReplaceSecret(c) \/ CancelReplace(c)
             \/ \E v \in {"", "new", "bad"} : TypeSecret(c, v)
      PROVE  SlackInv'
  <2>1. c \in Channels BY DEF SlackInv, ShownChannels, Channels
  <2>2. CASE RemoveSecret(c) BY <2>1, <2>2, DraftKeeps DEF RemoveSecret
  <2>3. CASE UndoRemoval(c) BY <2>1, <2>3, DraftKeeps DEF UndoRemoval, ChangeForm
  <2>4. CASE ReplaceSecret(c) BY <2>4, ChangeKeeps DEF ReplaceSecret, SlackInv
  <2>5. CASE CancelReplace(c) BY <2>5, ChangeKeeps DEF CancelReplace, SlackInv
  <2>6. ASSUME NEW v \in {"", "new", "bad"}, TypeSecret(c, v) PROVE SlackInv' BY <2>1, <2>6, DraftKeeps DEF TypeSecret
  <2> QED BY <1>8, <2>2, <2>3, <2>4, <2>5, <2>6
<1>9. CASE SaveSlack
  <2>1. DOMAIN slack' = SlackFields /\ slack'.of = slack.of /\ slack'.had = slack.had /\ slack'.view = slack.view
        /\ slack'.form = slack.form /\ slack'.touched = slack.touched /\ slack'.lost = slack.lost
    BY <1>9 DEF SaveSlack, SlackInv, SlackFields
  <2>2. DOMAIN saving' = {"step", "form", "answer"} /\ saving'.step = "asked" /\ saving'.form.drafts = slack.form.drafts
    BY <1>9 DEF SaveSlack, SlackInv, SlackFormFields
  <2>3. Untouched(saving'.form) BY <2>2 DEF Untouched, SlackInv
  <2>4. UNCHANGED stored /\ saving.step = "none" BY <1>9 DEF SaveSlack
  <2> QED BY <2>1, <2>2, <2>3, <2>4, SlackSame
<1>10. CASE StoreSlack
  <2>1. saving.step = "asked" /\ stored' = SettingsAfter(saving.form) /\ UNCHANGED slack BY <1>10 DEF StoreSlack
  <2>2. saving' = [saving EXCEPT !.step = "done", !.answer = ViewOf(stored')] BY <1>10 DEF StoreSlack
  <2>3. DOMAIN saving' = {"step", "form", "answer"} /\ saving'.step = "done" /\ saving'.answer = ViewOf(stored)'
        /\ saving'.form = saving.form
    BY <2>2 DEF SlackInv, ViewOf
  <2>4. Channels' = Channels BY <2>1 DEF Channels
  <2>5. EnabledCanSend'
    <3>1. \A k \in saving.form.enabled : WebhookFor(SettingsAfter(saving.form), k) # None BY <1>10 DEF StoreSlack, Acceptable
    <3>2. stored'.enabled = saving.form.enabled BY <2>1 DEF SettingsAfter
    <3> QED BY <2>1, <3>1, <3>2 DEF EnabledCanSend, WebhookFor
  <2>6. SecretsKept'
    <3> SUFFICES ASSUME NEW c \in Channels \ slack.touched
                 PROVE  stored'.secrets[c] = IF c \in slack.had THEN "old" ELSE None
      BY <2>1, <2>4 DEF SecretsKept
    <3>1. saving.form.drafts[c] = NoDraft BY <2>1 DEF SlackInv, Untouched
    <3>2. stored'.secrets[c] = ResolveSecret(NoDraft, stored.secrets[c]) BY <2>1, <3>1 DEF SettingsAfter
    <3>3. stored'.secrets[c] = stored.secrets[c] BY <3>2 DEF ResolveSecret, NoDraft, BlankText
    <3> QED BY <3>3 DEF SlackInv, SecretsKept
  <2>7. Untouched(slack.form)' /\ Untouched(saving.form)' BY <2>1, <2>3, <2>4 DEF SlackInv, Untouched
  <2> QED BY <2>1, <2>3, <2>4, <2>5, <2>6, <2>7 DEF SlackInv
<1>11. CASE SlackSaved
  <2>1. slack' = [Applied(ViewOf(stored)) EXCEPT !.loading = slack.loading, !.lost = FALSE]
    BY <1>11 DEF SlackSaved, Applied, SlackInv, SlackFields
  <2> QED BY <1>11, <2>1, AppliedKeeps DEF SlackSaved
<1>12. CASE SlackSaveFails
  <2>1. DOMAIN slack' = SlackFields /\ slack'.of = slack.of /\ slack'.had = slack.had /\ slack'.view = slack.view
        /\ slack'.form = slack.form /\ slack'.touched = slack.touched
        /\ slack'.lost = (slack.lost \/ saving.step = "done")
    BY <1>12 DEF SlackSaveFails, SlackInv, SlackFields
  <2> QED BY <1>12, <2>1, SlackSame DEF SlackSaveFails, NotSaving
<1>13. CASE UNCHANGED slackVars BY <1>13, SlackSame DEF slackVars, SlackInv
<1> QED BY <1>1, <1>2, <1>3, <1>4, <1>5, <1>6, <1>7, <1>8, <1>9, <1>10, <1>11, <1>12, <1>13 DEF SlackNext

\* A rule that is kept says something, and no blank text.
Rule == [value : RuleTexts, severities : RuleSeverities]
CleanRule(r) == r \in Rule /\ r.value # " " /\ (r.value # "" \/ r.severities # {})

\* Cleaning leaves such rules only.
LEMMA CleanIs ==
  ASSUME NEW rules \in Seq(Rule)
  PROVE  /\ CleanLogMatches(rules) \in Seq(Rule)
         /\ \A k \in DOMAIN CleanLogMatches(rules) : CleanRule(CleanLogMatches(rules)[k])
<1> DEFINE row(r) == [r EXCEPT !.value = IF BlankText(@) THEN "" ELSE @]
           rows == [i \in DOMAIN rules |-> row(rules[i])]
           P == {i \in DOMAIN rows : rows[i].value # "" \/ rows[i].severities # {}}
<1>1. ASSUME NEW i \in DOMAIN rules PROVE rows[i] \in Rule /\ rows[i].value # " "
  <2>1. rules[i] \in Rule OBVIOUS
  <2> QED BY <2>1, SlackAssumption DEF Rule, BlankText
<1>2. rows \in Seq(Rule)
  <2>1. Len(rules) \in Nat /\ DOMAIN rules = 1..Len(rules) OBVIOUS
  <2>2. \A i \in 1..Len(rules) : rows[i] \in Rule BY <1>1, <2>1
  <2>3. rows = [i \in 1..Len(rules) |-> rows[i]] BY <2>1
  <2> HIDE DEF rows
  <2>4. rows \in [1..Len(rules) -> Rule] BY <2>2, <2>3
  <2> QED BY <2>1, <2>4
<1>3. DOMAIN rows = DOMAIN rules OBVIOUS
<1>4. CleanLogMatches(rules) = ElementsAt(rows, P) BY DEF CleanLogMatches
<1>5. \A i \in P : CleanRule(rows[i])
  <2> HIDE DEF rows
  <2> QED BY <1>1, <1>3 DEF CleanRule
<1>6. P \in SUBSET (DOMAIN rows) OBVIOUS
<1> HIDE DEF rows, P
<1>7. /\ ElementsAt(rows, P) \in Seq(Rule)
      /\ \A k \in DOMAIN ElementsAt(rows, P) : \E i \in P : ElementsAt(rows, P)[k] = rows[i]
  BY <1>2, <1>6, ElementsAtIs
<1> QED BY <1>4, <1>5, <1>7

\* Nothing is left to clean of clean rules.
LEMMA CleanStays ==
  ASSUME NEW rules \in Seq(Rule), \A k \in DOMAIN rules : CleanRule(rules[k])
  PROVE  CleanLogMatches(rules) = rules
<1> DEFINE row(r) == [r EXCEPT !.value = IF BlankText(@) THEN "" ELSE @]
           rows == [i \in DOMAIN rules |-> row(rules[i])]
           P == {i \in DOMAIN rows : rows[i].value # "" \/ rows[i].severities # {}}
<1>1. Len(rules) \in Nat /\ DOMAIN rules = 1..Len(rules) /\ rules = [i \in 1..Len(rules) |-> rules[i]] OBVIOUS
<1>2. ASSUME NEW i \in DOMAIN rules PROVE rows[i] = rules[i]
  <2>1. rules[i] \in Rule /\ rules[i].value # " " BY DEF CleanRule
  <2>2. PICK r : r = rules[i] OBVIOUS
  <2>3. row(r) = r BY <2>1, <2>2 DEF Rule, BlankText
  <2> QED BY <2>2, <2>3
<1>3. rows = [i \in 1..Len(rules) |-> rules[i]] BY <1>1, <1>2
<1>4. rows = rules BY <1>1, <1>3
<1>5. P = 1..Len(rules)
  <2> HIDE DEF rows
  <2> QED BY <1>1, <1>4 DEF CleanRule
<1>6. CleanLogMatches(rules) = ElementsAt(rows, P) BY DEF CleanLogMatches
<1> HIDE DEF rows, P
<1>7. ElementsAt(rules, 1..Len(rules)) = [k \in 1..Len(rules) |-> rules[k]] BY <1>1, ElementsAtFront
<1> QED BY <1>1, <1>4, <1>5, <1>6, <1>7

\* What the server stores is clean.
LEMMA NormalizedIs ==
  ASSUME NEW rules \in Seq(Rule)
  PROVE  /\ NormalizeSlackLogMatches(rules) \in Seq(Rule)
         /\ CleanLogMatches(NormalizeSlackLogMatches(rules)) = NormalizeSlackLogMatches(rules)
<1> DEFINE rows == CleanLogMatches(rules)
           P == {i \in DOMAIN rows : \A j \in 1..(i - 1) : rows[j] # rows[i]}
           first == ElementsAt(rows, P)
<1>1. rows \in Seq(Rule) /\ \A k \in DOMAIN rows : CleanRule(rows[k]) BY CleanIs
<1>2. P \in SUBSET (DOMAIN rows) OBVIOUS
<1>3. NormalizeSlackLogMatches(rules) = first BY DEF NormalizeSlackLogMatches
<1> HIDE DEF rows, P
<1>4. first \in Seq(Rule) /\ \A k \in DOMAIN first : \E i \in P : first[k] = rows[i] BY <1>1, <1>2, ElementsAtIs
<1>5. \A k \in DOMAIN first : CleanRule(first[k]) BY <1>1, <1>2, <1>4
<1> HIDE DEF first
<1> QED BY <1>3, <1>4, <1>5, CleanStays

\* The rules of the form, of a save and of the server have what rules may have,
\* and the server's are clean.
RulesInv ==
  /\ slack.form.rules \in Seq(Rule) /\ stored.rules \in Seq(Rule)
  /\ saving.step = "asked" => saving.form.rules \in Seq(Rule)
  /\ RulesAreClean

\* There is nothing to clean where there are no rules.
LEMMA NoRulesAreClean == CleanLogMatches(<< >>) = << >>
<1>1. << >> \in Seq(Rule) /\ DOMAIN << >> = {} OBVIOUS
<1> QED BY <1>1, CleanStays

\* There are no rules when the form opens.
LEMMA RulesInitInv == ASSUME NEW of \in {"site", "system"}, SlackOpens(of) PROVE RulesInv
<1>1. stored.rules = << >> /\ slack.form.rules = << >> /\ saving.step = "none"
  BY DEF SlackOpens, FormOf, NotSaving
<1> QED BY <1>1, NoRulesAreClean DEF RulesInv, RulesAreClean

\* An edit with such rules.
LEMMA RulesEdited ==
  ASSUME SlackInv, RulesInv, NEW form, NEW replacing, NEW touched, EditForm(form, replacing, touched),
         form.rules \in Seq(Rule)
  PROVE  RulesInv'
<1>1. slack'.form = form BY DEF EditForm, SlackInv, SlackFields
<1>2. UNCHANGED << stored, saving >> BY DEF EditForm
<1> QED BY <1>1, <1>2 DEF RulesInv, RulesAreClean

LEMMA RulesInvNext == SlackInv /\ RulesInv /\ (SlackNext \/ UNCHANGED slackVars) => RulesInv'
<1> SUFFICES ASSUME SlackInv, RulesInv, SlackNext \/ UNCHANGED slackVars PROVE RulesInv' OBVIOUS
<1> DEFINE rules == slack.form.rules
<1>0. rules \in Seq(Rule) /\ rules \in [1..Len(rules) -> Rule] /\ Len(rules) \in Nat BY DEF RulesInv
<1>1. CASE SlackLoads
  <2>1. slack'.form.rules = stored.rules /\ UNCHANGED << stored, saving >>
    BY <1>1 DEF SlackLoads, Applied, FormOf, ViewOf, SlackInv, SlackFields
  <2> QED BY <2>1 DEF RulesInv, RulesAreClean
<1>2. CASE SlackLoadFails
  <2>1. slack'.form = slack.form /\ UNCHANGED << stored, saving >>
    BY <1>2 DEF SlackLoadFails, SlackInv, SlackFields
  <2> QED BY <2>1 DEF RulesInv, RulesAreClean
<1>3. ASSUME NEW m, SetRoutingMode(m) PROVE RulesInv'
  BY <1>0, <1>3, RulesEdited DEF SetRoutingMode, SlackInv, SlackFormFields
<1>4. ASSUME NEW k, SetKind(k) PROVE RulesInv'
  BY <1>0, <1>4, RulesEdited DEF SetKind, ChangeForm, SlackInv, SlackFormFields
<1>5. CASE AddRule
  <2>1. NoRule \in Rule BY SlackAssumption DEF NoRule, Rule
  <2>2. Append(rules, NoRule) \in Seq(Rule) BY <1>0, <2>1
  <2>3. PICK form : form = [slack.form EXCEPT !.rules = Append(@, NoRule)] OBVIOUS
  <2>4. form.rules \in Seq(Rule) BY <2>2, <2>3 DEF SlackInv, SlackFormFields
  <2> QED BY <1>5, <2>3, <2>4, RulesEdited DEF AddRule, ChangeForm
<1>6. ASSUME NEW i \in DOMAIN rules, RemoveRule(i) PROVE RulesInv'
  <2>1. i \in 1..Len(rules) BY <1>0
  <2>2. SubSeq(rules, 1, i - 1) \in Seq(Rule) /\ SubSeq(rules, i + 1, Len(rules)) \in Seq(Rule) BY <1>0, <2>1
  <2>3. RemoveAt(rules, i) \in Seq(Rule) BY <2>2 DEF RemoveAt
  <2>4. PICK form : form = [slack.form EXCEPT !.rules = RemoveAt(@, i)] OBVIOUS
  <2>5. form.rules \in Seq(Rule) BY <2>3, <2>4 DEF SlackInv, SlackFormFields
  <2> QED BY <1>6, <2>4, <2>5, RulesEdited DEF RemoveRule, ChangeForm
<1>7. ASSUME NEW i \in DOMAIN rules, NEW t \in RuleTexts, NEW s \in RuleSeverities,
             PatchRule(i, [value |-> t, severities |-> s])
      PROVE  RulesInv'
  <2>1. PICK r \in Rule : r = [value |-> t, severities |-> s] BY DEF Rule
  <2>2. [rules EXCEPT ![i] = r] \in [1..Len(rules) -> Rule] BY <1>0
  <2>3. [rules EXCEPT ![i] = r] \in Seq(Rule) BY <1>0, <2>2
  <2>4. PICK form : form = [slack.form EXCEPT !.rules[i] = r] OBVIOUS
  <2>5. form.rules \in Seq(Rule) BY <2>3, <2>4 DEF SlackInv, SlackFormFields
  <2> QED BY <1>7, <2>1, <2>4, <2>5, RulesEdited DEF PatchRule, ChangeForm
<1>8. ASSUME NEW c,
             \/ RemoveSecret(c) \/ UndoRemoval(c) \/ ReplaceSecret(c) \/ CancelReplace(c)
             \/ \E v \in {"", "new", "bad"} : TypeSecret(c, v)
      PROVE  RulesInv'
  <2>1. PICK form, replacing, touched : EditForm(form, replacing, touched) /\ form.rules = rules
    <3>1. \A value, clear : WithDraft(c, value, clear).rules = rules BY DEF WithDraft, SlackInv, SlackFormFields
    <3> QED BY <1>8, <3>1 DEF RemoveSecret, UndoRemoval, ReplaceSecret, CancelReplace, TypeSecret, ChangeForm
  <2> QED BY <1>0, <2>1, RulesEdited
<1>9. CASE SaveSlack
  <2>1. slack'.form = slack.form /\ UNCHANGED stored BY <1>9 DEF SaveSlack, SlackInv, SlackFields
  <2>2. saving'.form.rules = CleanLogMatches(rules) BY <1>9 DEF SaveSlack, SlackInv, SlackFormFields
  <2> QED BY <1>0, <2>1, <2>2, CleanIs DEF RulesInv, RulesAreClean
<1>10. CASE StoreSlack
  <2>1. stored'.rules = NormalizeSlackLogMatches(saving.form.rules) /\ UNCHANGED slack /\ saving.step = "asked"
    BY <1>10 DEF StoreSlack, SettingsAfter
  <2>2. saving'.step = "done" BY <1>10 DEF StoreSlack, SlackInv
  <2> QED BY <2>1, <2>2, NormalizedIs DEF RulesInv, RulesAreClean
<1>11. CASE SlackSaved
  <2>1. slack'.form.rules = stored.rules /\ UNCHANGED stored /\ saving'.step = "none"
    BY <1>11 DEF SlackSaved, Applied, FormOf, ViewOf, SlackInv, SlackFields, NotSaving
  <2> QED BY <2>1 DEF RulesInv, RulesAreClean
<1>12. CASE SlackSaveFails
  <2>1. slack'.form = slack.form /\ UNCHANGED stored /\ saving'.step = "none"
    BY <1>12 DEF SlackSaveFails, SlackInv, SlackFields, NotSaving
  <2> QED BY <2>1 DEF RulesInv, RulesAreClean
<1>13. CASE UNCHANGED slackVars BY <1>13 DEF slackVars, RulesInv, RulesAreClean
<1> QED BY <1>1, <1>2, <1>3, <1>4, <1>5, <1>6, <1>7, <1>8, <1>9, <1>10, <1>11, <1>12, <1>13 DEF SlackNext

-----------------------------------------------------------------------------
(* The pages together                                                      *)

PagesInv == /\ LibraryInv /\ BuilderInv /\ ViewInv /\ PerfInv /\ LinkInv /\ SuggestInv /\ TextInv /\ FeedbackInv
            /\ AnnouncementsInv /\ ServicesInv /\ SearchInv /\ ColourInv /\ OrderInv /\ SlackInv /\ RulesInv

\* Every page, open or not, starts as its own proof wants it.
LEMMA PagesInit == Init => PagesInv
<1> SUFFICES ASSUME Init PROVE PagesInv OBVIOUS
<1>1. LibraryInv
  <2>1. Some(LibraryFilters) \in LibraryFilters BY ReportLibraryAssumption DEF Some
  <2>2. PICK f \in LibraryFilters : kept \in [Reports -> Nat] /\ LibraryOpens(f)
    <3>1. CASE page = "reports"
      <4>1. kept \in [Reports -> {0, 1}] BY <3>1 DEF Init, LibraryInit
      <4>2. kept \in [Reports -> Nat] BY <4>1
      <4> QED BY <3>1, <4>2 DEF Init, LibraryInit
    <3>2. CASE page # "reports"
      <4>1. kept = [r \in Reports |-> 0] /\ LibraryOpens(Some(LibraryFilters)) BY <3>2 DEF Init
      <4>2. kept \in [Reports -> Nat] BY <4>1
      <4> QED BY <4>1, <4>2, <2>1
    <3> QED BY <3>1, <3>2
  <2>3. f \in SUBSET Reports BY ReportLibraryAssumption
  <2> QED BY <2>2, <2>3, LibraryInitInv
<1>2. BuilderInv
  <2>1. \E state : ReportOpens(state) BY DEF Init, ReportInit
  <2> QED BY <2>1, BuilderInitInv
<1>3. ViewInv
  <2>1. \E r, choice : ViewOpens(r, choice) BY DEF Init, ViewInit
  <2> QED BY <2>1, ViewInitInv
<1>4. PerfInv
  <2>1. \E f : PerfOpens(f) BY DEF Init, PerfInit
  <2> QED BY <2>1, PerfInitInv
<1>5. LinkInv BY LinkInitInv DEF Init
<1>6. SuggestInv
  <2>1. \E s : SuggestOpens(s) BY DEF Init
  <2> QED BY <2>1, SuggestInitInv
<1>7. TextInv BY TextInitInv DEF Init
<1>8. FeedbackInv BY FeedbackInitInv DEF Init, FeedbackInit
<1>9. AnnouncementsInv BY AnnouncementsInitInv DEF Init
<1>10. ServicesInv BY ServicesInitInv DEF Init
<1>11. SearchInv BY SearchInitInv DEF Init
<1>12. ColourInv BY ColourInitInv DEF Init
<1>13. OrderInv BY OrderInitInv DEF Init
<1>14. SlackInv /\ RulesInv
  <2>1. PICK of \in {"site", "system"} : SlackOpens(of) BY DEF Init
  <2> QED BY <2>1, SlackInitInv, RulesInitInv
<1> QED BY <1>1, <1>2, <1>3, <1>4, <1>5, <1>6, <1>7, <1>8, <1>9, <1>10, <1>11, <1>12, <1>13, <1>14 DEF PagesInv

\* The two fields leave each other alone.
LEMMA SuggestLeavesText == SuggestNext => UNCHANGED textbox
BY DEF SuggestNext, TypeIn, Pick, OpenList, Dismiss, ArrowDown, ArrowUp, AskSuggestions, ChangeScope,
       SuggestionsArrive, SuggestionsFail

LEMMA TextLeavesSuggest == TextNext => UNCHANGED << suggest, searches >>
BY DEF TextNext, TypeText, SetOutside, PassOn, Unmount, Mount

LEMMA PagesStep == PagesInv /\ [Next]_vars => PagesInv'
<1> SUFFICES ASSUME PagesInv, [Next]_vars PROVE PagesInv' OBVIOUS
<1>1. LibraryInv'
  <2>1. LibraryNext \/ UNCHANGED libraryVars BY DEF Next, vars
  <2> QED BY <2>1, LibraryInvNext DEF PagesInv
<1>2. BuilderInv'
  <2>1. ReportNext \/ UNCHANGED reportVars BY DEF Next, vars
  <2> QED BY <2>1, BuilderInvNext DEF PagesInv
<1>3. ViewInv'
  <2>1. ViewNext \/ UNCHANGED viewVars BY DEF Next, vars
  <2> QED BY <2>1, ViewInvNext DEF PagesInv
<1>4. PerfInv'
  <2>1. PerfNext \/ UNCHANGED perfVars BY DEF Next, vars
  <2> QED BY <2>1, PerfInvNext DEF PagesInv
<1>5. LinkInv'
  <2>1. LinkNext \/ UNCHANGED linkVars BY DEF Next, vars
  <2> QED BY <2>1, LinkInvNext DEF PagesInv
<1>6. SuggestNext \/ TextNext \/ UNCHANGED fieldVars BY DEF Next, vars
<1>7. SuggestInv'
  <2>1. CASE TextNext
    <3>1. UNCHANGED << suggest, searches >> BY <2>1, TextLeavesSuggest
    <3> QED BY <3>1 DEF PagesInv, SuggestInv, SearchesFit, SuggestionsOfScope
  <2> QED BY <1>6, <2>1, SuggestInvNext DEF PagesInv
<1>8. TextInv'
  <2>1. CASE SuggestNext
    <3>1. UNCHANGED textbox BY <2>1, SuggestLeavesText
    <3> QED BY <3>1 DEF PagesInv, TextInv, TextComes
  <2> QED BY <1>6, <2>1, TextInvNext DEF PagesInv
<1>9. FeedbackInv'
  <2>1. FeedbackNext \/ UNCHANGED feedbackVars BY DEF Next, vars
  <2> QED BY <2>1, FeedbackInvNext DEF PagesInv
<1>10. AnnouncementsInv'
  <2>1. AnnouncementsNext \/ UNCHANGED announcementVars BY DEF Next, vars
  <2> QED BY <2>1, AnnouncementsInvNext DEF PagesInv
<1>11. ServicesInv'
  <2>1. ServicesNext \/ UNCHANGED serviceVars BY DEF Next, vars
  <2> QED BY <2>1, ServicesInvNext DEF PagesInv
<1>12. SearchInv'
  <2>1. SearchNext \/ UNCHANGED searchVars BY DEF Next, vars
  <2> QED BY <2>1, SearchInvNext DEF PagesInv
<1>13. ColourInv' /\ OrderInv'
  <2>1. SettingsNext \/ UNCHANGED settingsVars BY DEF Next, vars
  <2> QED BY <2>1, ColourInvNext, OrderInvNext DEF PagesInv
<1>14. SlackInv' /\ RulesInv'
  <2>1. SlackNext \/ UNCHANGED slackVars BY DEF Next, vars
  <2> QED BY <2>1, SlackInvNext, RulesInvNext DEF PagesInv
<1> QED BY <1>1, <1>2, <1>3, <1>4, <1>5, <1>7, <1>8, <1>9, <1>10, <1>11, <1>12, <1>13, <1>14 DEF PagesInv

\* In every state every page's requests that count carry what is asked now,
\* every card that loads is before one worker, the form in the editor is one
\* that the server and the browser judge alike, the search index, its worker
\* and its switch follow the recordings and each other, and the settings that
\* are shown came from those that are stored.
THEOREM PagesAreWhole == Spec => []PagesInv
BY PagesInit, PagesStep, PTL DEF Spec

\* What a page shows as an answer answers what is asked now, for any number of
\* requests in flight and any order of their answers.
THEOREM ShownAnswersAsked == Spec => []ShownIsAsked
<1>1. PagesInv => ShownIsAsked
  <2> SUFFICES ASSUME PagesInv PROVE ShownIsAsked OBVIOUS
  <2>1. EndpointsVisible BY ChoicesShow DEF PagesInv
  <2>2. LibraryOfFilter BY DEF PagesInv, LibraryInv
  <2>3. ResultShown BY DEF PagesInv, ViewInv
  <2>4. ReportOfFilters BY DEF PagesInv, PerfInv
  <2>5. LinkIsShown BY DEF PagesInv, LinkInv
  <2>6. SuggestionsOfScope BY DEF PagesInv, SuggestInv
  <2>7. ResponsesOfChoice BY DEF PagesInv, FeedbackInv
  <2>8. EngagementOfOpen BY DEF PagesInv, AnnouncementsInv
  <2>9. KeyWorks BY DEF PagesInv, ServicesInv
  <2> QED BY <2>1, <2>2, <2>3, <2>4, <2>5, <2>6, <2>7, <2>8, <2>9 DEF ShownIsAsked
<1> QED BY <1>1, PagesAreWhole, PTL

\* A card that loads is before a worker that has not come to it yet, a text
\* that its page was told of is due, a list of announcements or of services
\* that is not there is asked for, written about or known to have failed, and a
\* button of a service is off as long as its one request is under way.
THEOREM AwaitedArrives == Spec => []AwaitedComes
<1>1. PagesInv => AwaitedComes
  BY LibraryInvLoads DEF PagesInv, LibraryInv, TextInv, AnnouncementsInv, ServicesInv, AwaitedComes
<1> QED BY <1>1, PagesAreWhole, PTL

\* A saved rule was previewed as it is saved and is one the server takes, and
\* a saved campaign is the one its dialog was opened for.
THEOREM SentIsShown == Spec => []SentAsShown
<1>1. PagesInv => SentAsShown BY BuilderInvHolds DEF PagesInv, FeedbackInv, SentAsShown
<1> QED BY <1>1, PagesAreWhole, PTL

\* An index that is ready finds every recording and every log there is and no
\* other, whatever was recorded, deleted, switched, retried and restarted
\* while it was built; work that is left is taken up, and the card follows.
THEOREM IndexAndSwitchFollow == Spec => []IndexFollows
<1>1. PagesInv => IndexFollows
  BY ReadyIsWhole DEF PagesInv, SearchInv, WorkFollows, CardKnows, IndexFollows
<1> QED BY <1>1, PagesAreWhole, PTL

\* A section that is dragged is in the slot the pointer is over and the others
\* are as they were, the text of the colour is the colour that would be saved,
\* a Slack form without unsaved edits shows what the server has unless an
\* answer was lost, the server's rules are clean, what is on can be sent, and
\* no save loses a secret that nobody touched.
THEOREM SettingsFollow == Spec => []SettingsAsShown
<1>1. SlackInv => SlackAsStored
  <2> SUFFICES ASSUME SlackInv, slack.view # None, ~Dirty, saving.step = "none", ~slack.lost
               PROVE  /\ slack.form.mode = stored.mode /\ slack.form.enabled = stored.enabled
                      /\ CleanLogMatches(slack.form.rules) = CleanLogMatches(stored.rules)
                      /\ Configured = ViewOf(stored).configured
    BY DEF SlackAsStored
  <2>1. slack.view = ViewOf(stored) BY DEF SlackInv
  <2>2. slack.view.mode = stored.mode /\ slack.view.enabled = stored.enabled /\ slack.view.rules = stored.rules
    BY <2>1 DEF ViewOf
  <2>3. /\ slack.form.mode = slack.view.mode /\ slack.form.enabled = slack.view.enabled
        /\ CleanLogMatches(slack.form.rules) = CleanLogMatches(slack.view.rules)
    BY DEF Dirty
  <2>4. Configured = ViewOf(stored).configured BY <2>1 DEF Configured
  <2> QED BY <2>2, <2>3, <2>4
<1>2. PagesInv => SettingsAsShown
  BY <1>1 DEF PagesInv, ColourInv, OrderInv, SlackInv, RulesInv, SettingsAsShown
<1> QED BY <1>2, PagesAreWhole, PTL
=============================================================================
