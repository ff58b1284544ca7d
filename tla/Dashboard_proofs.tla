-------------------------- MODULE Dashboard_proofs --------------------------
(***************************************************************************)
(* Proofs about the dashboard's pages, for any number of jobs, recordings, *)
(* logs, filters and operator's acts: no page leaves work behind that      *)
(* nobody ends, and the list of recordings and the stream of logs keep     *)
(* what they promise whatever the order in which answers arrive.           *)
(***************************************************************************)
EXTENDS Dashboard, FiniteSetTheorems, WellFoundedInduction, TLAPS

-----------------------------------------------------------------------------
(* Finite sets of numbers, and the sequences that enumerate them           *)

LEMMA SmallestNat ==
  ASSUME NEW T \in SUBSET Nat, T # {}
  PROVE  \E m \in T : \A x \in T : m <= x
<1> DEFINE R == OpToRel(<, Nat)
<1>1. \A x, m \in Nat : x < m => << x, m >> \in R
  <2> TAKE x \in Nat, m \in Nat
  <2>1. << x, m >> \in Nat \X Nat /\ << x, m >>[1] = x /\ << x, m >>[2] = m OBVIOUS
  <2> QED BY <2>1 DEF OpToRel
<1>2. IsWellFoundedOn(R, Nat) BY NatLessThanWellFounded
<1> HIDE DEF R
<1>3. PICK m \in T : \A x \in T : ~ (<< x, m >> \in R) BY <1>2, WFMin
<1>4. ASSUME NEW x \in T PROVE m <= x
  <2>1. x \in Nat /\ m \in Nat /\ ~ (x < m) BY <1>1, <1>3
  <2> QED BY <2>1
<1> QED BY <1>4

\* The elements of a set above one of them, whose number is its rank.
Over(S, a) == {x \in S : x > a}

LEMMA OverFinite ==
  ASSUME NEW S \in SUBSET Nat, IsFiniteSet(S), NEW a
  PROVE  /\ Over(S, a) \subseteq S /\ IsFiniteSet(Over(S, a))
         /\ Cardinality(Over(S, a)) \in Nat /\ Cardinality(S) \in Nat
<1>1. Over(S, a) \in SUBSET S BY DEF Over
<1>2. IsFiniteSet(Over(S, a)) BY <1>1, FS_Subset
<1> QED BY <1>1, <1>2, FS_CardinalityType

\* The higher of two numbers has the lower rank.
LEMMA RankLess ==
  ASSUME NEW S \in SUBSET Nat, IsFiniteSet(S), NEW a \in S, NEW b \in S, a > b
  PROVE  Cardinality(Over(S, a)) < Cardinality(Over(S, b))
<1>1. Over(S, a) \in SUBSET Over(S, b)
  <2>1. \A x \in S : x > a => x > b OBVIOUS
  <2> QED BY <2>1 DEF Over
<1>2. a \in Over(S, b) /\ a \notin Over(S, a) BY DEF Over
<1>3. /\ Cardinality(Over(S, a)) <= Cardinality(Over(S, b))
      /\ Cardinality(Over(S, a)) # Cardinality(Over(S, b))
  BY <1>1, <1>2, OverFinite, FS_Subset
<1> QED BY <1>3, OverFinite

LEMMA Largest ==
  ASSUME NEW S \in SUBSET Nat, IsFiniteSet(S), S # {}
  PROVE  \E m \in S : \A x \in S : x <= m
<1> DEFINE Ranks == {Cardinality(Over(S, a)) : a \in S}
<1>1. Ranks \in SUBSET Nat /\ Ranks # {} BY OverFinite
<1>2. PICK r \in Ranks : \A x \in Ranks : r <= x BY <1>1, SmallestNat
<1>3. PICK m \in S : r = Cardinality(Over(S, m)) BY <1>2
<1>4. ASSUME NEW x \in S, x > m PROVE FALSE
  <2>1. Cardinality(Over(S, x)) < Cardinality(Over(S, m)) BY <1>4, RankLess
  <2>2. Cardinality(Over(S, m)) <= Cardinality(Over(S, x)) BY <1>2, <1>3
  <2> QED BY <2>1, <2>2, OverFinite
<1> QED BY <1>4

\* The lesser of two ranks belongs to the higher number.
LEMMA RankOrder ==
  ASSUME NEW S \in SUBSET Nat, IsFiniteSet(S), NEW a \in S, NEW b \in S
  PROVE  Cardinality(Over(S, a)) < Cardinality(Over(S, b)) <=> a > b
<1>1. CASE a > b BY <1>1, RankLess
<1>2. CASE a = b BY <1>2, OverFinite
<1>3. CASE b > a BY <1>3, RankLess, OverFinite
<1> QED BY <1>1, <1>2, <1>3

\* The k highest of a set are all above the others, no more than k, and k if
\* there are others.
Highest(S, k) == {s \in S : Cardinality(Over(S, s)) < k}

LEMMA HighestAreOnTop ==
  ASSUME NEW S \in SUBSET Nat, IsFiniteSet(S), NEW k \in Nat \ {0}
  PROVE  /\ Highest(S, k) \subseteq S /\ IsFiniteSet(Highest(S, k))
         /\ Cardinality(Highest(S, k)) \in Nat /\ Cardinality(Highest(S, k)) <= k
         /\ \A s \in S \ Highest(S, k) : \A p \in Highest(S, k) : s < p
         /\ S # Highest(S, k) => Cardinality(Highest(S, k)) = k
<1> DEFINE P == Highest(S, k)
<1>1. P \in SUBSET S /\ IsFiniteSet(P) /\ Cardinality(P) \in Nat
  <2>1. P \in SUBSET S BY DEF Highest
  <2> QED BY <2>1, FS_Subset, FS_CardinalityType
<1>2. ASSUME NEW s \in S \ P, NEW p \in P PROVE s < p
  <2>1. Cardinality(Over(S, p)) < Cardinality(Over(S, s))
    BY OverFinite DEF Highest
  <2> QED BY <2>1, RankOrder DEF Highest
<1>3. Cardinality(P) <= k
  <2>1. CASE P = {} BY <2>1, FS_EmptySet
  <2>2. CASE P # {}
    <3>1. PICK p \in P : \A x \in P : p <= x BY <1>1, <2>2, SmallestNat
    <3>2. P \ {p} \in SUBSET Over(S, p)
      <4>1. ASSUME NEW x \in P \ {p} PROVE x \in S /\ x > p
        <5>1. x \in S /\ p \in S /\ p <= x /\ x # p BY <1>1, <3>1
        <5> QED BY <5>1
      <4> QED BY <4>1 DEF Over
    <3>3. Cardinality(P \ {p}) <= Cardinality(Over(S, p)) BY <3>2, OverFinite, FS_Subset
    <3>4. Cardinality(P \ {p}) = Cardinality(P) - 1 BY <1>1, FS_RemoveElement
    <3>5. Cardinality(Over(S, p)) < k /\ Cardinality(Over(S, p)) \in Nat BY OverFinite DEF Highest
    <3> QED BY <1>1, <3>3, <3>4, <3>5
  <2> QED BY <2>1, <2>2
<1>4. ASSUME S # P PROVE Cardinality(P) = k
  <2>1. S \ P \in SUBSET Nat /\ IsFiniteSet(S \ P) /\ S \ P # {}
    <3>1. S \ P \in SUBSET S OBVIOUS
    <3> QED BY <1>1, <1>4, <3>1, FS_Subset
  <2>2. PICK m \in S \ P : \A x \in S \ P : x <= m BY <2>1, Largest
  <2>3. Over(S, m) \in SUBSET P
    <3>1. \A x \in S : x > m => x \in P BY <2>2
    <3> QED BY <3>1 DEF Over
  <2>4. Cardinality(Over(S, m)) <= Cardinality(P) BY <1>1, <2>3, FS_Subset
  <2>5. Cardinality(Over(S, m)) >= k BY OverFinite DEF Highest
  <2> QED BY <1>1, <1>3, <2>4, <2>5, OverFinite
<1> QED BY <1>1, <1>2, <1>3, <1>4

-----------------------------------------------------------------------------
(* The export of a recording                                               *)

ExportSteps == {"none", "releasing", "preparing", "started", "waiting", "asking", "over"}

TabType == [pending : Exports \cup {No}, lastReady : Exports \cup {No},
            downloading : BOOLEAN, mounted : BOOLEAN]

ExportType == [step : ExportSteps, id : Exports \cup {No}, old : Exports \cup {No}, aborted : BOOLEAN]

JobStates == {"none", "preparing", "ready", "failed", "gone"}

ExportTyped ==
  /\ tab \in TabType
  /\ exports \in [Exports -> ExportType]
  /\ jobs \in [Exports -> JobStates]
  /\ deletes \subseteq Exports
  /\ lost \in BOOLEAN

\* An export has no job before the server started one for it.
Unnamed == \A o \in Exports : exports[o].step \in {"none", "releasing", "preparing"} => exports[o].id = No

ExportInv == ExportTyped /\ Unnamed /\ NoAbandonedJob

\* Somebody is to end the job.
Held(j) == j \in deletes \/ \E o \in Exports : Alive(o) /\ exports[o].id = j

LEMMA ExportInitInv == ExportInit => ExportInv
<1> SUFFICES ASSUME ExportInit PROVE ExportInv OBVIOUS
<1> USE DEF ExportInit, NoExport
<1>1. ExportTyped BY DEF ExportTyped, TabType, ExportType, ExportSteps, JobStates
<1>2. Unnamed BY DEF Unnamed
<1>3. NoAbandonedJob BY DEF NoAbandonedJob
<1> QED BY <1>1, <1>2, <1>3 DEF ExportInv

LEMMA TabUpdate ==
  ASSUME NEW t \in TabType, NEW o \in Exports \cup {No}, NEW j \in Exports \cup {No}, NEW b \in BOOLEAN
  PROVE  /\ [t EXCEPT !.pending = o] \in TabType
         /\ [t EXCEPT !.pending = IF @ = o THEN No ELSE @] \in TabType
         /\ [t EXCEPT !.lastReady = j] \in TabType
         /\ [t EXCEPT !.downloading = b] \in TabType
         /\ [t EXCEPT !.lastReady = j, !.downloading = b] \in TabType
         /\ [pending |-> o, lastReady |-> j, downloading |-> b, mounted |-> b] \in TabType
BY DEF TabType

LEMMA ExportTypedNext == ExportInv /\ ExportNext => ExportTyped'
<1> SUFFICES ASSUME ExportInv, ExportNext PROVE ExportTyped' OBVIOUS
<1>0. ExportTyped /\ No \in Exports \cup {No} BY DEF ExportInv
<1>a. \A o \in Exports : Released(o) \in TabType BY <1>0, TabUpdate DEF Released, ExportTyped
<1>b. ASSUME NEW o \in Exports, NEW step \in ExportSteps, Step(o, step)
      PROVE  exports' \in [Exports -> ExportType]
  BY <1>0, <1>b DEF Step, ExportTyped, ExportType
<1>c. \A o \in Exports : Told(o) \subseteq Exports
  BY <1>0 DEF ExportTyped, ExportType, Told
<1>d. ASSUME NEW j \in Exports, NEW state \in JobStates PROVE [jobs EXCEPT ![j] = state] \in [Exports -> JobStates]
  BY <1>0 DEF ExportTyped
<1>1. ASSUME NEW o \in Exports, StartExport(o) PROVE ExportTyped'
  <2>1. tab' \in TabType BY <1>0, <1>1, TabUpdate DEF ExportTyped, StartExport
  <2>2. exports' \in [Exports -> ExportType]
    <3>1. PICK step \in {"releasing", "preparing"} :
            exports' = [exports EXCEPT ![o].step = step, ![o].old = tab.lastReady]
      BY <1>1 DEF StartExport
    <3>2. tab.lastReady \in Exports \cup {No} BY <1>0 DEF ExportTyped, TabType
    <3> QED BY <1>0, <3>1, <3>2, ZenonT(60) DEF ExportTyped, ExportType, ExportSteps
  <2> QED BY <1>0, <1>1, <2>1, <2>2 DEF ExportTyped, StartExport
<1>2. ASSUME NEW o \in Exports, LastReleased(o) PROVE ExportTyped'
  <2>1. tab' \in TabType BY <1>0, <1>a, <1>2, TabUpdate DEF ExportTyped, LastReleased
  <2>2. exports' \in [Exports -> ExportType] BY <1>b, <1>2 DEF ExportSteps, LastReleased
  <2>3. jobs' \in [Exports -> JobStates] BY <1>0, <1>2 DEF ExportTyped, JobStates, LastReleased
  <2> QED BY <1>0, <1>2, <2>1, <2>2, <2>3 DEF ExportTyped, LastReleased
<1>3. ASSUME NEW o \in Exports, JobStarts(o) PROVE ExportTyped'
  <2>1. PICK j \in Exports : /\ jobs' = [jobs EXCEPT ![j] = "preparing"]
                             /\ exports' = [exports EXCEPT ![o].step = "started", ![o].id = j]
    BY <1>3 DEF JobStarts
  <2>2. exports' \in [Exports -> ExportType] BY <1>0, <2>1 DEF ExportTyped, ExportType, ExportSteps
  <2>3. jobs' \in [Exports -> JobStates] BY <1>d, <2>1 DEF JobStates
  <2> QED BY <1>0, <1>3, <2>2, <2>3 DEF ExportTyped, JobStarts
<1>4. ASSUME NEW o \in Exports, Prepared(o) \/ PrepareFails(o) \/ AskStatus(o) \/ StatusFails(o)
      PROVE  ExportTyped'
  <2>1. exports' \in [Exports -> ExportType]
    BY <1>b, <1>4 DEF Prepared, PrepareFails, AskStatus, StatusFails, ExportSteps
  <2>2. tab' \in TabType BY <1>0, <1>a, <1>4 DEF ExportTyped, Prepared, PrepareFails, AskStatus, StatusFails
  <2> QED BY <1>0, <1>c, <1>4, <2>1, <2>2 DEF ExportTyped, Prepared, PrepareFails, AskStatus, StatusFails
<1>5. ASSUME NEW o \in Exports, WatchArrives(o) PROVE ExportTyped'
  <2>1. exports' \in [Exports -> ExportType] BY <1>b, <1>5 DEF WatchArrives, ExportSteps
  <2>2. exports[o].id \in Exports \cup {No} BY <1>0 DEF ExportTyped, ExportType
  <2>3. [Released(o) EXCEPT !.lastReady = exports[o].id, !.downloading = TRUE] \in TabType
    BY <1>a, <2>2, TabUpdate
  <2>4. tab' \in TabType BY <1>0, <1>a, <1>5, <2>3 DEF ExportTyped, WatchArrives
  <2> QED BY <1>0, <1>c, <1>5, <2>1, <2>4 DEF ExportTyped, WatchArrives
<1>6. ASSUME Aborted, tab.pending \in Exports PROVE exports' \in [Exports -> ExportType] /\ deletes' \subseteq Exports
  <2>1. PICK step \in ExportSteps : exports' = [exports EXCEPT ![tab.pending].aborted = TRUE, ![tab.pending].step = step]
    BY <1>0, <1>6 DEF Aborted, ExportTyped, ExportType, ExportSteps
  <2>2. exports' \in [Exports -> ExportType] BY <1>0, <1>6, <2>1 DEF ExportTyped, ExportType
  <2>3. deletes' \subseteq Exports BY <1>0, <1>c, <1>6 DEF Aborted, ExportTyped
  <2> QED BY <2>2, <2>3
<1>7. CASE CancelExport
  <2>1. tab.pending \in Exports BY <1>0, <1>7 DEF CancelExport, ExportTyped, TabType
  <2>2. tab' \in TabType BY <1>0, <1>7, TabUpdate DEF CancelExport, ExportTyped
  <2> QED BY <1>0, <1>6, <1>7, <2>1, <2>2 DEF CancelExport, ExportTyped
<1>8. CASE Leave
  <2>1. exports' \in [Exports -> ExportType] /\ deletes' \subseteq Exports
    <3>1. tab.pending # No => tab.pending \in Exports BY <1>0 DEF ExportTyped, TabType
    <3> QED BY <1>0, <1>6, <1>8, <3>1 DEF Leave, ExportTyped
  <2>2. tab' \in TabType BY <1>8 DEF Leave, TabType
  <2> QED BY <1>0, <1>8, <2>1, <2>2 DEF Leave, ExportTyped
<1>9. CASE Resume
  BY <1>0, <1>9, TabUpdate DEF Resume, ExportTyped
<1>10. ASSUME NEW j \in Exports, JobEnds(j) \/ JobExpires(j) PROVE ExportTyped'
  BY <1>0, <1>d, <1>10 DEF JobEnds, JobExpires, ExportTyped, JobStates
<1>11. ASSUME NEW j \in deletes, DeleteArrives(j) PROVE ExportTyped'
  BY <1>0, <1>d, <1>11 DEF DeleteArrives, ExportTyped, JobStates
<1> QED BY <1>1, <1>2, <1>3, <1>4, <1>5, <1>7, <1>8, <1>9, <1>10, <1>11 DEF ExportNext

LEMMA UnnamedNext == ExportInv /\ ExportNext => Unnamed'
<1> SUFFICES ASSUME ExportInv, ExportNext PROVE Unnamed' OBVIOUS
<1> USE DEF ExportInv, ExportTyped, ExportType, TabType, Unnamed, Step
<1>1. ASSUME UNCHANGED exports PROVE Unnamed' BY <1>1
<1>2. ASSUME NEW o \in Exports, NEW step, Step(o, step),
             step \notin {"none", "releasing", "preparing"} \/ exports[o].id = No
      PROVE  Unnamed'
  BY <1>2
<1>3. ASSUME NEW o \in Exports, StartExport(o) PROVE Unnamed'
  BY <1>3 DEF StartExport, NoExport
<1>4. ASSUME NEW o \in Exports, LastReleased(o) PROVE Unnamed'
  <2>1. exports[o].id = No BY <1>4 DEF LastReleased
  <2> QED BY <1>4, <2>1 DEF LastReleased
<1>5. ASSUME NEW o \in Exports, JobStarts(o) PROVE Unnamed'
  BY <1>5 DEF JobStarts
<1>6. ASSUME NEW o \in Exports, Prepared(o) \/ PrepareFails(o) \/ AskStatus(o) \/ StatusFails(o)
                                \/ WatchArrives(o)
      PROVE  Unnamed'
  BY <1>2, <1>6 DEF Prepared, PrepareFails, AskStatus, StatusFails, WatchArrives
<1>7. ASSUME Aborted PROVE Unnamed' BY <1>7 DEF Aborted
<1>8. CASE CancelExport \/ Leave BY <1>1, <1>7, <1>8 DEF CancelExport, Leave
<1>9. CASE Resume BY <1>1, <1>9 DEF Resume
<1>10. ASSUME NEW j, JobEnds(j) \/ JobExpires(j) \/ DeleteArrives(j) PROVE Unnamed'
  BY <1>1, <1>10 DEF JobEnds, JobExpires, DeleteArrives
<1> QED BY <1>3, <1>4, <1>5, <1>6, <1>8, <1>9, <1>10 DEF ExportNext

LEMMA NoAbandonedJobNext == ExportInv /\ ExportNext => NoAbandonedJob'
<1> SUFFICES ASSUME ExportInv, ExportNext, ~lost', NEW j \in Exports, jobs'[j] = "preparing"
             PROVE  Held(j)'
  BY DEF NoAbandonedJob, Held, Alive
<1> USE DEF ExportInv, ExportTyped, ExportType, TabType, JobStates, ExportSteps, Step, Told, Held, Alive
<1>0. No \notin Exports BY ExportTabAssumption DEF Exports, No
<1>a. lost \/ jobs[j] # "preparing" \/ Held(j) BY DEF NoAbandonedJob
<1>1. ASSUME NEW o \in Exports, StartExport(o) PROVE Held(j)'
  BY <1>a, <1>0, <1>1 DEF StartExport, NoExport
<1>2. ASSUME NEW o \in Exports, LastReleased(o) PROVE Held(j)'
  BY <1>a, <1>0, <1>2 DEF LastReleased, Unnamed
<1>3. ASSUME NEW o \in Exports, JobStarts(o) PROVE Held(j)'
  BY <1>a, <1>0, <1>3 DEF JobStarts, Unnamed
<1>4. ASSUME NEW o \in Exports, Prepared(o) PROVE Held(j)'
  BY <1>a, <1>0, <1>4 DEF Prepared
<1>5. ASSUME NEW o \in Exports, PrepareFails(o) PROVE Held(j)'
  BY <1>a, <1>0, <1>5 DEF PrepareFails, Unnamed
<1>6. ASSUME NEW o \in Exports, AskStatus(o) \/ StatusFails(o) PROVE Held(j)'
  BY <1>a, <1>0, <1>6 DEF AskStatus, StatusFails
<1>7. ASSUME NEW o \in Exports, WatchArrives(o) PROVE Held(j)'
  BY <1>a, <1>0, <1>7 DEF WatchArrives
<1>8. ASSUME tab.pending \in Exports, Aborted, UNCHANGED << jobs, lost >> PROVE Held(j)'
  BY <1>a, <1>0, <1>8 DEF Aborted
<1>9. CASE CancelExport BY <1>8, <1>9 DEF CancelExport
<1>10. CASE Leave BY <1>a, <1>8, <1>10 DEF Leave
<1>11. CASE Resume BY <1>a, <1>11 DEF Resume
<1>12. ASSUME NEW i \in Exports, JobEnds(i) \/ JobExpires(i) PROVE Held(j)'
  BY <1>a, <1>12 DEF JobEnds, JobExpires
<1>13. ASSUME NEW i \in deletes, DeleteArrives(i) PROVE Held(j)'
  BY <1>a, <1>13 DEF DeleteArrives
<1> QED BY <1>1, <1>2, <1>3, <1>4, <1>5, <1>6, <1>7, <1>9, <1>10, <1>11, <1>12, <1>13 DEF ExportNext

LEMMA ExportInvNext == ExportInv /\ (ExportNext \/ UNCHANGED exportVars) => ExportInv'
<1>1. ASSUME ExportInv, UNCHANGED exportVars PROVE ExportInv'
  BY <1>1 DEF exportVars, ExportInv, ExportTyped, Unnamed, NoAbandonedJob, Alive
<1> QED BY <1>1, ExportTypedNext, UnnamedNext, NoAbandonedJobNext DEF ExportInv

-----------------------------------------------------------------------------
(* The check of an installation                                            *)

CheckFields == {"state", "popup", "timer", "polling", "elapsed", "first"}

\* What the window of a check depends on.
Watched ==
  /\ DOMAIN check = CheckFields
  /\ check.popup \in BOOLEAN /\ check.timer \in BOOLEAN /\ check.polling \in BOOLEAN
  /\ check.elapsed \in Nat
  /\ DOMAIN wizard = {"mounted", "step", "acts"} /\ wizard.mounted \in BOOLEAN
  /\ WindowWatched

LEMMA WatchedInit == SetupInit => Watched
BY DEF SetupInit, Watched, CheckFields, WindowWatched

LEMMA WatchedNext == Watched /\ (SetupNext \/ UNCHANGED setupVars) => Watched'
<1> SUFFICES ASSUME Watched, SetupNext \/ UNCHANGED setupVars PROVE Watched' OBVIOUS
<1> USE DEF Watched, CheckFields, WindowWatched
<1>1. ASSUME UNCHANGED check, UNCHANGED wizard PROVE Watched' BY <1>1
<1>2. ASSUME UNCHANGED check, NEW w, DOMAIN w = DOMAIN wizard, w.mounted = wizard.mounted, Acts(w)
      PROVE  Watched'
  BY <1>2 DEF Acts
<1>3. CASE Patch \/ ToggleRecording \/ Skip \/ Continue \/ SaveStep
  BY <1>2, <1>3 DEF Patch, ToggleRecording, Skip, Continue, SaveStep
<1>4. ASSUME NEW step, GoTo(step) PROVE Watched'
  BY <1>2, <1>4 DEF GoTo
<1>5. CASE SaveOver BY <1>1, <1>5 DEF SaveOver
<1>6. CASE Toggled \/ StoreSettings \/ SessionStarts \/ UNCHANGED setupVars
  BY <1>1, <1>6 DEF Toggled, StoreSettings, SessionStarts, setupVars
<1>7. ASSUME NEW r, ServeSite(r) \/ SiteArrives(r) \/ SiteFails(r) PROVE Watched'
  BY <1>1, <1>7 DEF ServeSite, SiteArrives, SiteFails
<1>8. CASE FirstLook \/ FirstLookFails BY <1>8 DEF FirstLook, FirstLookFails
<1>9. CASE Verify
  <2>1. wizard' = [wizard EXCEPT !.acts = wizard.acts + 1] /\ wizard.mounted
    BY <1>9 DEF Verify, Acts, OnPage
  <2>2. DOMAIN wizard' = {"mounted", "step", "acts"} /\ wizard'.mounted BY <2>1
  <2>3. CASE check' = [check EXCEPT !.state = "blocked", !.popup = FALSE, !.timer = FALSE]
    <3>1. /\ DOMAIN check' = CheckFields /\ ~check'.popup /\ ~check'.timer /\ check'.polling = check.polling
          /\ check'.elapsed = check.elapsed /\ check'.popup \in BOOLEAN /\ check'.timer \in BOOLEAN
      BY <2>3
    <3> QED BY <2>2, <3>1
  <2>4. CASE check' = [check EXCEPT !.state = "checking", !.popup = TRUE, !.timer = TRUE, !.elapsed = 0]
    <3>1. /\ DOMAIN check' = CheckFields /\ check'.popup /\ check'.timer /\ check'.polling = check.polling
          /\ check'.elapsed = 0 /\ check'.popup \in BOOLEAN /\ check'.timer \in BOOLEAN
      BY <2>4
    <3> QED BY <2>2, <3>1
  <2> QED BY <1>9, <2>3, <2>4 DEF Verify
<1>10. CASE PollSite BY <1>10 DEF PollSite
<1>11. CASE PollAnswers
  <2> DEFINE c == [check EXCEPT !.polling = FALSE]
  <2>1. /\ DOMAIN c = CheckFields /\ c.popup = check.popup /\ c.timer = check.timer /\ ~c.polling
        /\ c.polling \in BOOLEAN /\ c.elapsed = check.elapsed
    OBVIOUS
  <2> HIDE DEF c
  <2>2. check' = Polled(c) /\ wizard' = wizard BY <1>11 DEF PollAnswers, c
  <2>3. /\ DOMAIN check' = CheckFields /\ check'.popup \in BOOLEAN /\ check'.timer \in BOOLEAN
        /\ check'.polling \in BOOLEAN /\ check'.elapsed \in Nat
    BY <2>1, <2>2 DEF Polled
  <2>4. ASSUME check'.popup PROVE check'.timer /\ check.popup
    <3>1. ~site.sessions BY <2>1, <2>2, <2>4 DEF Polled
    <3>2. c.popup /\ c.elapsed < WINDOW BY <2>1, <2>2, <2>4, <3>1 DEF Polled
    <3>3. ~(c.elapsed >= GIVE_UP) BY <2>1, <3>2, SetupWizardAssumption
    <3> QED BY <2>1, <2>2, <3>1, <3>2, <3>3 DEF Polled
  <2> QED BY <2>2, <2>3, <2>4
<1>12. CASE PollFails BY <1>12 DEF PollFails
<1>13. CASE Exit BY <1>13 DEF Exit
<1> QED BY <1>3, <1>4, <1>5, <1>6, <1>7, <1>8, <1>9, <1>10, <1>11, <1>12, <1>13 DEF SetupNext
-----------------------------------------------------------------------------
(* The list of recordings                                                  *)

ResultType == [rows : SUBSET Recordings, more : BOOLEAN, cursor : Nat, known : SUBSET Recordings]

Answers == {<< >>} \cup {<< p >> : p \in SUBSET Recordings}

ListFields == {"query", "replay", "shown", "result", "refreshing", "next", "target", "request"}

\* A result misses no recording it knew, and names none that is gone or still
\* to come: for the recordings listed now, those still to come, and those gone.
Complete(q, r, now) ==
  \A s \in Matching(q, r.known \cap now) : s \in r.rows \/ (r.more /\ s < r.cursor)

Fresh(S, later, gone) == S \cap later = {} /\ S \cap gone = {}

Good(q, r, now, later, gone) ==
  /\ r \in ResultType
  /\ Complete(q, r, now)
  /\ r.known \cap later = {} /\ Fresh(r.rows, later, gone)

CacheGood(kept, now, later, gone) ==
  /\ \E S : kept \in Seq(S)
  /\ \A i \in DOMAIN kept : /\ DOMAIN kept[i] = {"query", "result"}
                            /\ Good(kept[i].query, kept[i].result, now, later, gone)

\* A list loaded again has all it knew down to the cursor of its request.
Loading(l, now, later, gone) ==
  /\ l.next \in ResultType /\ l.next.known \cap later = {} /\ Fresh(l.next.rows, later, gone)
  /\ l.request.of = "load" =>
       \A s \in Matching(l.query, l.next.known \cap now) : s \in l.next.rows \/ s < l.request.cursor
  /\ l.request.of = "more" => l.request.cursor = l.result.cursor

\* What a request is to extend.
Basis(l) == IF l.request.of = "load" THEN l.next ELSE l.result

\* The page of a request misses nothing between its cursor and its last row.
Seamless(l, p, now, later, gone) ==
  /\ Fresh(p, later, gone)
  /\ \A s \in Matching(l.query, Basis(l).known \cap now) :
       s < l.request.cursor =>
         s \in p \/ (Cardinality(p) = SESSION_PAGE_SIZE /\ \A x \in p : s < x)

Answered(l, now, later, gone) ==
  \A p \in SUBSET Recordings : l.request.got = << p >> => Seamless(l, p, now, later, gone)

ListGood(l, now, later, gone) ==
  /\ DOMAIN l = ListFields
  /\ DOMAIN l.request = {"of", "cursor", "got"}
  /\ l.request.of \in {"none", "load", "more"} /\ l.request.cursor \in Nat /\ l.request.got \in Answers
  /\ Good(l.query, l.result, now, later, gone)
  /\ Loading(l, now, later, gone)
  /\ Answered(l, now, later, gone)
  /\ l.replay # None => l.request = NoRequest /\ l.replay \in Recordings \ later

\* The deletion under way, and those that were confirmed.
RemovalGood ==
  /\ DOMAIN removal = {"state", "of", "query"}
  /\ removal.state \in {"none", "asked", "done"}
  /\ removal.state # "none" => removal.of \in Recordings \ listed.later
  /\ removal.state = "done" => removal.of \notin listed.now
  /\ deleted \subseteq Recordings /\ deleted \cap (listed.now \cup listed.later) = {}

ListedGood ==
  /\ DOMAIN listed = {"now", "later"}
  /\ listed.now \subseteq Recordings /\ listed.later \subseteq Recordings
  /\ listed.now \cap listed.later = {}

SessionsInv ==
  /\ ListedGood
  /\ RemovalGood
  /\ CacheGood(cache, listed.now, listed.later, deleted)
  /\ ListGood(list, listed.now, listed.later, deleted)

LEMMA MinOf ==
  ASSUME NEW S \in SUBSET Nat, S # {}
  PROVE  Min(S) \in S /\ \A x \in S : Min(S) <= x
BY SmallestNat DEF Min

LEMMA MaxOf ==
  ASSUME NEW S \in SUBSET Nat, IsFiniteSet(S), S # {}
  PROVE  Max(S) \in S /\ \A x \in S : x <= Max(S)
<1>1. PICK m \in S : \A x \in S : x <= m BY Largest
<1>2. \A x \in S : m >= x BY <1>1
<1> QED BY <1>2 DEF Max

\* What can be listed as a list begins lies below the cursor of its first page.
LEMMA AboveAll == Above \in Nat /\ \A s \in Recordings : s < Above
<1>1. Max(Recordings) \in Recordings /\ \A s \in Recordings : s <= Max(Recordings)
  BY SessionsListAssumption, MaxOf
<1>2. Max(Recordings) \in Nat /\ \A s \in Recordings : s \in Nat BY <1>1, SessionsListAssumption
<1> QED BY <1>1, <1>2 DEF Above

\* A page misses nothing between its cursor and its last row.
LEMMA PageIsComplete ==
  ASSUME NEW q, NEW cursor \in Nat, listed.now \subseteq Recordings
  PROVE  /\ PageBelow(q, cursor) \in SUBSET listed.now
         /\ \A s \in Matching(q, listed.now) : s < cursor =>
              \/ s \in PageBelow(q, cursor)
              \/ /\ Cardinality(PageBelow(q, cursor)) = SESSION_PAGE_SIZE
                 /\ \A x \in PageBelow(q, cursor) : s < x
<1> DEFINE below == {s \in Matching(q, listed.now) : s < cursor}
<1>1. below \in SUBSET Recordings /\ below \in SUBSET Nat /\ below \in SUBSET listed.now
  BY SessionsListAssumption DEF Matching
<1>2. IsFiniteSet(below) BY <1>1, FS_Subset, SessionsListAssumption
<1>3. PageBelow(q, cursor) = Highest(below, SESSION_PAGE_SIZE)
  BY DEF PageBelow, Highest, Over
<1>4. SESSION_PAGE_SIZE \in Nat \ {0} BY SessionsListAssumption
<1> HIDE DEF below
<1>5. /\ Highest(below, SESSION_PAGE_SIZE) \subseteq below
      /\ \A s \in below \ Highest(below, SESSION_PAGE_SIZE) : \A p \in Highest(below, SESSION_PAGE_SIZE) : s < p
      /\ below # Highest(below, SESSION_PAGE_SIZE)
           => Cardinality(Highest(below, SESSION_PAGE_SIZE)) = SESSION_PAGE_SIZE
  BY <1>1, <1>2, <1>4, HighestAreOnTop
<1>6. ASSUME NEW s \in Matching(q, listed.now), s < cursor PROVE s \in below BY <1>6 DEF below
<1> QED BY <1>1, <1>3, <1>5, <1>6

\* A page added to what is complete down to its cursor keeps it complete.
LEMMA ExtendedGood ==
  ASSUME NEW r \in ResultType, NEW p \in SUBSET Recordings, NEW q, NEW cursor \in Nat,
         NEW now, NEW later, NEW gone,
         r.known \cap later = {}, Fresh(r.rows, later, gone), Fresh(p, later, gone),
         \A s \in Matching(q, r.known \cap now) : s \in r.rows \/ s < cursor,
         \A s \in Matching(q, r.known \cap now) :
           s < cursor => s \in p \/ (Cardinality(p) = SESSION_PAGE_SIZE /\ \A x \in p : s < x)
  PROVE  Good(q, Extended(r, p), now, later, gone)
<1> DEFINE e == Extended(r, p)
<1>1. p \in SUBSET Nat BY SessionsListAssumption
<1>2. /\ e.rows = r.rows \cup p /\ e.known = r.known
      /\ e.more = (Cardinality(p) = SESSION_PAGE_SIZE)
      /\ e.cursor = IF p = {} THEN r.cursor ELSE Min(p)
      /\ DOMAIN e = {"rows", "more", "cursor", "known"}
  BY DEF Extended, ResultType
<1>3. p # {} => Min(p) \in p BY <1>1, MinOf
<1>4. e \in ResultType
  BY <1>1, <1>3 DEF Extended, ResultType
<1>5. Cardinality({}) # SESSION_PAGE_SIZE BY FS_EmptySet, SessionsListAssumption
<1>6. ASSUME NEW s \in Matching(q, e.known \cap now) PROVE s \in e.rows \/ (e.more /\ s < e.cursor)
  <2>1. s \in Matching(q, r.known \cap now) BY <1>2, <1>6
  <2>2. CASE s \in r.rows \/ s \in p BY <1>2, <2>2
  <2>3. CASE Cardinality(p) = SESSION_PAGE_SIZE /\ \A x \in p : s < x
    BY <1>2, <1>3, <1>5, <2>3
  <2> QED BY <2>1, <2>2, <2>3
<1>7. Fresh(e.rows, later, gone) BY <1>2 DEF Fresh
<1> HIDE DEF e
<1>8. Good(q, e, now, later, gone) BY <1>2, <1>4, <1>6, <1>7 DEF Good, Complete
<1> QED BY <1>8 DEF e

LEMMA NoResultGood ==
  ASSUME NEW q, NEW now, NEW later, NEW gone
  PROVE  Good(q, NoResult, now, later, gone)
BY DEF Good, NoResult, ResultType, Complete, Fresh, Matching

\* A list begun anew, from a cache of which every entry is good.
LEMMA BeginGood ==
  ASSUME NEW q, NEW kept, NEW gone,
         ListedGood, CacheGood(kept, listed.now, listed.later, gone)
  PROVE  ListGood(Begin(q, kept), listed.now, listed.later, gone)
<1> DEFINE cached == CachedFor(q, kept)
           result == IF cached = {} THEN NoResult ELSE (CHOOSE c \in cached : TRUE).result
           l == Begin(q, kept)
           next == [NoResult EXCEPT !.cursor = Above, !.known = listed.now]
<1>1. Good(q, result, listed.now, listed.later, gone)
  <2>1. CASE cached = {} BY <2>1, NoResultGood
  <2>2. CASE cached # {}
    <3>1. PICK i \in DOMAIN kept : kept[i] = (CHOOSE c \in cached : TRUE) /\ kept[i].query = q
      <4>1. (CHOOSE c \in cached : TRUE) \in cached BY <2>2
      <4> QED BY <4>1 DEF CachedFor, ToSet
    <3> QED BY <2>2, <3>1 DEF CacheGood
  <2> QED BY <2>1, <2>2
<1>2. /\ DOMAIN l = ListFields /\ l.query = q /\ l.replay = None /\ l.result = result
      /\ l.next = next /\ l.request = Request("load", Above)
  BY DEF Begin, ListFields
<1>3. /\ next \in ResultType /\ next.known = listed.now /\ next.rows = {}
  BY AboveAll DEF NoResult, ResultType, ListedGood
<1> HIDE DEF cached, result, l, next
<1>4. /\ DOMAIN l.request = {"of", "cursor", "got"} /\ l.request.of = "load"
      /\ l.request.cursor = Above /\ l.request.got = << >>
  BY <1>2 DEF Request
<1>5. Loading(l, listed.now, listed.later, gone)
  <2>1. \A s \in Matching(q, listed.now) : s < Above BY AboveAll DEF Matching, ListedGood
  <2> QED BY <1>2, <1>3, <1>4, <2>1 DEF Loading, Fresh, ListedGood, Matching
<1>6. Answered(l, listed.now, listed.later, gone) BY <1>4 DEF Answered
<1>7. ListGood(l, listed.now, listed.later, gone)
  BY <1>1, <1>2, <1>4, <1>5, <1>6, AboveAll DEF ListGood, Answers
<1> QED BY <1>7 DEF l

\* Nothing that can be listed comes back: what is good stays good as recordings
\* that are still to come are listed, and others go.
LEMMA GoodStays ==
  ASSUME NEW q, NEW r, NEW now, NEW later, NEW gone, NEW now2, NEW later2,
         Good(q, r, now, later, gone), now2 \subseteq now \cup later, later2 \subseteq later
  PROVE  Good(q, r, now2, later2, gone)
<1>1. r.known \cap now2 \subseteq r.known \cap now BY DEF Good
<1>2. Complete(q, r, now2) BY <1>1 DEF Good, Complete, Matching
<1> QED BY <1>2 DEF Good, Fresh

LEMMA ListGoodStays ==
  ASSUME NEW l, NEW now, NEW later, NEW gone, NEW now2, NEW later2,
         ListGood(l, now, later, gone), now2 \subseteq now \cup later, later2 \subseteq later
  PROVE  ListGood(l, now2, later2, gone)
<1>1. Good(l.query, l.result, now2, later2, gone) BY GoodStays DEF ListGood
<1>2. \A S : S \cap later = {} => S \cap now2 \subseteq S \cap now OBVIOUS
<1>3. Loading(l, now2, later2, gone)
  BY <1>2 DEF ListGood, Loading, Fresh, Matching
<1>4. Answered(l, now2, later2, gone)
  <2>1. Basis(l).known \cap later = {} BY DEF ListGood, Loading, Good, Basis
  <2>2. Matching(l.query, Basis(l).known \cap now2) \subseteq Matching(l.query, Basis(l).known \cap now)
    BY <1>2, <2>1 DEF Matching
  <2> QED BY <2>2, SMTT(30) DEF ListGood, Answered, Seamless, Fresh
<1> QED BY <1>1, <1>3, <1>4 DEF ListGood

LEMMA CacheGoodStays ==
  ASSUME NEW kept, NEW now, NEW later, NEW gone, NEW now2, NEW later2,
         CacheGood(kept, now, later, gone), now2 \subseteq now \cup later, later2 \subseteq later
  PROVE  CacheGood(kept, now2, later2, gone)
BY GoodStays DEF CacheGood
LEMMA RememberGood ==
  ASSUME NEW q, NEW r, NEW now, NEW later, NEW gone,
         CacheGood(cache, now, later, gone), Good(q, r, now, later, gone)
  PROVE  CacheGood(Remember(q, r), now, later, gone)
<1> DEFINE before == {i \in DOMAIN cache : cache[i].query = q}
           at == CHOOSE i \in before : TRUE
           others == IF before = {} THEN cache ELSE RemoveAt(cache, at)
           e == [query |-> q, result |-> r]
           c == Append(others, e)
           Fine(x) == DOMAIN x = {"query", "result"} /\ Good(x.query, x.result, now, later, gone)
<1>1. PICK S : cache \in Seq(S) BY DEF CacheGood
<1> DEFINE T == {x \in S : Fine(x)} \cup {e}
<1>2. \A i \in DOMAIN cache : Fine(cache[i]) BY DEF CacheGood
<1>3. Fine(e) OBVIOUS
<1> HIDE DEF Fine, e
<1>4. cache \in Seq(T)
  <2>1. \A i \in 1..Len(cache) : cache[i] \in T BY <1>1, <1>2
  <2> QED BY <1>1, <2>1
<1> HIDE DEF T
<1>5. others \in Seq(T)
  <2>1. before # {} => at \in DOMAIN cache OBVIOUS
  <2>2. ASSUME NEW i \in 1..Len(cache) PROVE RemoveAt(cache, i) \in Seq(T)
    <3>1. i - 1 \in Int /\ i + 1 \in Int /\ Len(cache) \in Nat /\ DOMAIN cache = 1..Len(cache) BY <1>4
    <3>2. SubSeq(cache, 1, i - 1) \in Seq(T) BY <1>4, <3>1
    <3>3. SubSeq(cache, i + 1, Len(cache)) \in Seq(T) BY <1>4, <3>1
    <3> QED BY <3>2, <3>3 DEF RemoveAt
  <2> QED BY <1>4, <2>1, <2>2
<1>6. e \in T BY DEF T
<1> HIDE DEF others
<1>7. c \in Seq(T) /\ Len(c) > 0 /\ Tail(c) \in Seq(T) BY <1>5, <1>6
<1> HIDE DEF c
<1>8. Remember(q, r) \in Seq(T)
  <2>1. Remember(q, r) = IF Len(c) > MAX_CACHED_QUERIES THEN Tail(c) ELSE c
    BY DEF Remember, c, others, e
  <2> QED BY <1>7, <2>1
<1>9. \A x \in T : Fine(x) BY <1>3 DEF T
<1>10. \A i \in DOMAIN Remember(q, r) : Fine(Remember(q, r)[i]) BY <1>8, <1>9
<1> QED BY <1>8, <1>10 DEF CacheGood, Fine

\* A recording that is no longer listed is taken out of every result.
LEMMA ForgetGood ==
  ASSUME NEW s, NEW now, NEW later, NEW gone,
         CacheGood(cache, now, later, gone), s \notin now
  PROVE  CacheGood(Forget(s), now, later, gone \cup {s})
<1>1. PICK S : cache \in Seq(S) BY DEF CacheGood
<1> DEFINE f == Forget(s)
           T == {f[i] : i \in DOMAIN cache}
<1>2. f = [i \in DOMAIN cache |-> [cache[i] EXCEPT !.result.rows = @ \ {s}]] BY DEF Forget
<1> HIDE DEF f
<1>3. DOMAIN cache = 1..Len(cache) /\ Len(cache) \in Nat BY <1>1
<1>4. f \in Seq(T)
  <2>1. f = [i \in 1..Len(cache) |-> f[i]] BY <1>2, <1>3
  <2>2. \A i \in 1..Len(cache) : f[i] \in T BY <1>3
  <2> HIDE DEF T
  <2> QED BY <1>3, <2>1, <2>2
<1>5. ASSUME NEW i \in DOMAIN cache
      PROVE  DOMAIN f[i] = {"query", "result"} /\ Good(f[i].query, f[i].result, now, later, gone \cup {s})
  <2>1. DOMAIN cache[i] = {"query", "result"} /\ Good(cache[i].query, cache[i].result, now, later, gone)
    BY DEF CacheGood
  <2>2. /\ DOMAIN f[i] = {"query", "result"} /\ f[i].query = cache[i].query
        /\ f[i].result = [cache[i].result EXCEPT !.rows = @ \ {s}]
    BY <1>2, <2>1
  <2>3. Good(cache[i].query, [cache[i].result EXCEPT !.rows = @ \ {s}], now, later, gone \cup {s})
    <3> DEFINE r == cache[i].result
               r2 == [r EXCEPT !.rows = @ \ {s}]
    <3>1. r \in ResultType BY <2>1 DEF Good
    <3>2. /\ r2 \in ResultType /\ r2.rows = r.rows \ {s} /\ r2.known = r.known
          /\ r2.more = r.more /\ r2.cursor = r.cursor
      BY <3>1 DEF ResultType
    <3> HIDE DEF r, r2
    <3>3. Good(cache[i].query, r2, now, later, gone \cup {s})
      BY <2>1, <3>2 DEF r, Good, Complete, Fresh, Matching
    <3> QED BY <3>3 DEF r2, r
  <2> QED BY <2>1, <2>2, <2>3
<1>6. DOMAIN f = DOMAIN cache BY <1>2
<1> QED BY <1>4, <1>5, <1>6 DEF CacheGood, f

LEMMA SessionsInitInv == SessionsInit => SessionsInv
<1> SUFFICES ASSUME SessionsInit PROVE SessionsInv OBVIOUS
<1>1. ListedGood BY DEF SessionsInit, ListedGood
<1>2. RemovalGood BY DEF SessionsInit, RemovalGood, NoRemoval
<1>3. CacheGood(cache, listed.now, listed.later, deleted)
  <2>1. cache \in Seq({}) /\ DOMAIN cache = {} BY DEF SessionsInit
  <2> QED BY <2>1 DEF CacheGood
<1>4. cache = << >> /\ \E q \in Queries : list = Begin(q, << >>) BY DEF SessionsInit
<1>5. ListGood(list, listed.now, listed.later, deleted) BY <1>1, <1>3, <1>4, BeginGood
<1> QED BY <1>1, <1>2, <1>3, <1>5 DEF SessionsInv

\* A step of the page that leaves the server and the deletions alone.
PageOnly == UNCHANGED << listed, removal, deleted >>

LEMMA PageStep ==
  ASSUME SessionsInv, PageOnly,
         CacheGood(cache', listed.now, listed.later, deleted),
         ListGood(list', listed.now, listed.later, deleted)
  PROVE  SessionsInv'
BY DEF SessionsInv, PageOnly, ListedGood, RemovalGood

LEMMA SessionsInvNext == SessionsInv /\ (SessionsNext \/ UNCHANGED sessionVars) => SessionsInv'
<1> SUFFICES ASSUME SessionsInv, SessionsNext \/ UNCHANGED sessionVars PROVE SessionsInv' OBVIOUS
<1> DEFINE G(l) == ListGood(l, listed.now, listed.later, deleted)
           C(kept) == CacheGood(kept, listed.now, listed.later, deleted)
<1>0. ListedGood /\ RemovalGood /\ C(cache) /\ G(list) BY DEF SessionsInv
<1>b. \A q : G(Begin(q, cache)) BY <1>0, BeginGood
<1> HIDE DEF G, C
<1>a. ASSUME PageOnly, UNCHANGED cache, G(list') PROVE SessionsInv'
  BY <1>0, <1>a, PageStep DEF G, C
<1>1. ASSUME NEW q, SetQuery(q) PROVE SessionsInv'
  BY <1>a, <1>b, <1>1 DEF SetQuery, PageOnly
<1>2. CASE LoadMore
  <2> DEFINE l == [list EXCEPT !.request = Request("more", list.result.cursor)]
  <2>1. /\ DOMAIN l = ListFields /\ l.query = list.query /\ l.replay = list.replay /\ l.result = list.result
        /\ l.next = list.next /\ l.request = Request("more", list.result.cursor)
    BY <1>0 DEF G, ListGood, ListFields
  <2> HIDE DEF l
  <2>2. /\ DOMAIN l.request = {"of", "cursor", "got"} /\ l.request.of = "more"
        /\ l.request.cursor = list.result.cursor /\ l.request.got = << >>
    BY <2>1 DEF Request
  <2>3. list.replay = None BY <1>2 DEF LoadMore, OnList
  <2>4. list.result.cursor \in Nat BY <1>0 DEF G, ListGood, Good, ResultType
  <2>5. Loading(l, listed.now, listed.later, deleted) BY <1>0, <2>1, <2>2 DEF G, ListGood, Loading
  <2>6. Answered(l, listed.now, listed.later, deleted)
    <3>1. \A p : l.request.got # << p >> BY <2>2
    <3> QED BY <3>1 DEF Answered
  <2>7. l.request.got \in Answers BY <2>2 DEF Answers
  <2>8. Good(l.query, l.result, listed.now, listed.later, deleted) BY <1>0, <2>1 DEF G, ListGood
  <2>9. G(l) BY <2>1, <2>2, <2>3, <2>4, <2>5, <2>6, <2>7, <2>8 DEF G, ListGood
  <2> QED BY <1>a, <1>2, <2>9 DEF LoadMore, PageOnly, l
<1>3. CASE ServePage
  <2> DEFINE p == PageBelow(list.query, list.request.cursor)
             l == [list EXCEPT !.request.got = << p >>]
  <2>1. /\ DOMAIN l = ListFields /\ l.query = list.query /\ l.replay = list.replay /\ l.result = list.result
        /\ l.next = list.next /\ l.request = [list.request EXCEPT !.got = << p >>]
    BY <1>0 DEF G, ListGood, ListFields
  <2>2. /\ DOMAIN l.request = {"of", "cursor", "got"} /\ l.request.of = list.request.of
        /\ l.request.cursor = list.request.cursor /\ l.request.got = << p >>
    BY <1>0, <2>1 DEF G, ListGood
  <2>3. list.replay = None BY <1>0, <1>3 DEF G, ListGood, ServePage, NoRequest
  <2>4. list.request.cursor \in Nat /\ listed.now \subseteq Recordings BY <1>0 DEF G, ListGood, ListedGood
  <2>5. /\ p \in SUBSET listed.now
        /\ \A s \in Matching(list.query, listed.now) : s < list.request.cursor =>
             s \in p \/ (Cardinality(p) = SESSION_PAGE_SIZE /\ \A x \in p : s < x)
    BY <2>4, PageIsComplete
  <2>6. Basis(l) = Basis(list) BY <2>1, <2>2 DEF Basis
  <2> HIDE DEF l, p
  <2>7. Answered(l, listed.now, listed.later, deleted)
    <3>1. Fresh(p, listed.later, deleted) BY <1>0, <2>5 DEF Fresh, ListedGood, RemovalGood
    <3>2. \A s \in Matching(l.query, Basis(l).known \cap listed.now) : s \in Matching(list.query, listed.now)
      BY <2>1 DEF Matching
    <3>3. Seamless(l, p, listed.now, listed.later, deleted)
      BY <2>2, <2>5, <3>1, <3>2 DEF Seamless
    <3>4. ASSUME NEW r \in SUBSET Recordings, l.request.got = << r >> PROVE r = p
      <4>1. << r >>[1] = << p >>[1] BY <2>2, <3>4
      <4> QED BY <4>1
    <3> QED BY <3>3, <3>4, Zenon DEF Answered
  <2>8. p \in SUBSET Recordings BY <2>4, <2>5
  <2>9. G(l)
    <3>1. Loading(l, listed.now, listed.later, deleted) BY <1>0, <2>1, <2>2 DEF G, ListGood, Loading
    <3>2. l.request.got \in Answers BY <2>2, <2>8 DEF Answers
    <3>3. Good(l.query, l.result, listed.now, listed.later, deleted) BY <1>0, <2>1 DEF G, ListGood
    <3>4. list.request.of \in {"none", "load", "more"} BY <1>0 DEF G, ListGood
    <3> QED BY <2>1, <2>2, <2>3, <2>4, <2>7, <3>1, <3>2, <3>3, <3>4 DEF G, ListGood
  <2> QED BY <1>a, <1>3, <2>9 DEF ServePage, PageOnly, l, p
<1>4. ASSUME list.request.of # "none", list.request.got # << >>
      PROVE  Good(list.query, Extended(Basis(list), list.request.got[1]), listed.now, listed.later, deleted)
  <2>1. PICK p \in SUBSET Recordings : list.request.got = << p >> BY <1>0, <1>4 DEF G, ListGood, Answers
  <2>2. list.request.got[1] = p BY <2>1
  <2>3. Basis(list) \in ResultType /\ list.request.cursor \in Nat
    BY <1>0 DEF G, ListGood, Loading, Good, Basis
  <2>4. Basis(list).known \cap listed.later = {} /\ Fresh(Basis(list).rows, listed.later, deleted)
    BY <1>0 DEF G, ListGood, Loading, Good, Basis
  <2>5. \A s \in Matching(list.query, Basis(list).known \cap listed.now) :
           s \in Basis(list).rows \/ s < list.request.cursor
    BY <1>0, <1>4 DEF G, ListGood, Loading, Good, Complete, Basis
  <2>6. /\ Fresh(p, listed.later, deleted)
        /\ \A s \in Matching(list.query, Basis(list).known \cap listed.now) :
             s < list.request.cursor =>
               s \in p \/ (Cardinality(p) = SESSION_PAGE_SIZE /\ \A x \in p : s < x)
    BY <1>0, <2>1 DEF G, ListGood, Answered, Seamless
  <2> QED BY <2>2, <2>3, <2>4, <2>5, <2>6, ExtendedGood
<1>5. ASSUME NEW l, DOMAIN l = ListFields, l.query = list.query, l.replay = None,
             Good(list.query, l.result, listed.now, listed.later, deleted),
             l.next = NoResult \/ l.next = list.next, l.request = NoRequest
      PROVE  G(l)
  <2>1. DOMAIN l.request = {"of", "cursor", "got"} /\ l.request.of = "none" /\ l.request.cursor \in Nat
        /\ l.request.got = << >>
    BY <1>5 DEF NoRequest
  <2>2. /\ l.next \in ResultType /\ l.next.known \cap listed.later = {}
        /\ Fresh(l.next.rows, listed.later, deleted)
    <3>1. CASE l.next = NoResult BY <3>1 DEF NoResult, ResultType, Fresh
    <3>2. CASE l.next = list.next BY <1>0, <3>2 DEF G, ListGood, Loading
    <3> QED BY <1>5, <3>1, <3>2
  <2> QED BY <1>5, <2>1, <2>2 DEF G, ListGood, Loading, Answered, Answers
<1>r. ASSUME list.request # NoRequest PROVE list.replay = None BY <1>0, <1>r DEF G, ListGood
<1>6. CASE Revalidated
  <2> DEFINE next == Extended(list.next, list.request.got[1])
             l1 == [list EXCEPT !.next = next, !.request = Request("load", next.cursor)]
             l2 == [list EXCEPT !.next = NoResult, !.request = NoRequest, !.result = next,
                                !.shown = TRUE, !.refreshing = FALSE]
  <2>1. list.request.of = "load" /\ list.request.got # << >> /\ list.replay = None
    BY <1>r, <1>6 DEF Revalidated, NoRequest
  <2>2. Good(list.query, next, listed.now, listed.later, deleted) BY <1>4, <2>1 DEF Basis
  <2>3. ASSUME next.more, list' = l1, UNCHANGED cache PROVE SessionsInv'
    <3>1. /\ DOMAIN l1 = ListFields /\ l1.query = list.query /\ l1.replay = None /\ l1.result = list.result
          /\ l1.next = next /\ l1.request = Request("load", next.cursor)
      BY <1>0, <2>1 DEF G, ListGood, ListFields
    <3> HIDE DEF l1, next
    <3>2. /\ DOMAIN l1.request = {"of", "cursor", "got"} /\ l1.request.of = "load"
          /\ l1.request.cursor = next.cursor /\ l1.request.got = << >>
      BY <3>1 DEF Request
    <3>3. next \in ResultType /\ next.cursor \in Nat BY <2>2 DEF Good, ResultType
    <3>4. Loading(l1, listed.now, listed.later, deleted)
      BY <2>2, <3>1, <3>2, <3>3 DEF Loading, Good, Complete
    <3>5. G(l1)
      <4>1. Answered(l1, listed.now, listed.later, deleted)
        <5>1. \A p : l1.request.got # << p >> BY <3>2
        <5> QED BY <5>1 DEF Answered
      <4>2. l1.request.got \in Answers BY <3>2 DEF Answers
      <4>3. Good(l1.query, l1.result, listed.now, listed.later, deleted) BY <1>0, <3>1 DEF G, ListGood
      <4> QED BY <3>1, <3>2, <3>3, <3>4, <4>1, <4>2, <4>3 DEF G, ListGood
    <3> QED BY <1>a, <1>6, <2>3, <3>5 DEF Revalidated, PageOnly
  <2>4. ASSUME list' = l2, cache' = Remember(list.query, next) PROVE SessionsInv'
    <3>1. /\ DOMAIN l2 = ListFields /\ l2.query = list.query /\ l2.replay = None /\ l2.result = next
          /\ l2.next = NoResult /\ l2.request = NoRequest
      BY <1>0, <2>1 DEF G, ListGood, ListFields
    <3> HIDE DEF l2, next
    <3>2. G(l2) BY <1>5, <2>2, <3>1
    <3>3. C(cache') BY <1>0, <2>2, <2>4, RememberGood DEF C
    <3> QED BY <1>6, <2>4, <3>2, <3>3, PageStep DEF G, C, Revalidated, PageOnly
  <2> QED BY <1>6, <2>3, <2>4 DEF Revalidated
<1>7. CASE MoreArrived
  <2> DEFINE next == Extended(list.result, list.request.got[1])
             l == [list EXCEPT !.request = NoRequest, !.result = next]
  <2>1. list.request.of = "more" /\ list.request.got # << >> /\ list.replay = None
    BY <1>r, <1>7 DEF MoreArrived, NoRequest
  <2>2. Good(list.query, next, listed.now, listed.later, deleted) BY <1>4, <2>1 DEF Basis
  <2>3. /\ DOMAIN l = ListFields /\ l.query = list.query /\ l.replay = None /\ l.result = next
        /\ l.next = list.next /\ l.request = NoRequest
    BY <1>0, <2>1 DEF G, ListGood, ListFields
  <2>4. list' = l /\ cache' = Remember(list.query, next) BY <1>7 DEF MoreArrived
  <2> HIDE DEF l, next
  <2>5. G(l) BY <1>5, <2>2, <2>3
  <2>6. C(cache') BY <1>0, <2>2, <2>4, RememberGood DEF C
  <2> QED BY <1>7, <2>4, <2>5, <2>6, PageStep DEF G, C, MoreArrived, PageOnly
<1>8. CASE PageFailed
  <2> DEFINE l1 == [list EXCEPT !.request = NoRequest]
             l2 == [list EXCEPT !.next = NoResult, !.request = NoRequest, !.shown = TRUE, !.refreshing = FALSE]
  <2>1. list.replay = None BY <1>r, <1>8 DEF PageFailed, NoRequest
  <2>2. Good(list.query, list.result, listed.now, listed.later, deleted) BY <1>0 DEF G, ListGood
  <2>3. /\ DOMAIN l1 = ListFields /\ l1.query = list.query /\ l1.replay = None /\ l1.result = list.result
        /\ l1.next = list.next /\ l1.request = NoRequest
    BY <1>0, <2>1 DEF G, ListGood, ListFields
  <2>4. /\ DOMAIN l2 = ListFields /\ l2.query = list.query /\ l2.replay = None /\ l2.result = list.result
        /\ l2.next = NoResult /\ l2.request = NoRequest
    BY <1>0, <2>1 DEF G, ListGood, ListFields
  <2>5. list' = l1 \/ list' = l2 BY <1>8 DEF PageFailed
  <2> HIDE DEF l1, l2
  <2>6. G(l1) /\ G(l2) BY <1>5, <2>2, <2>3, <2>4
  <2> QED BY <1>a, <1>8, <2>5, <2>6 DEF PageFailed, PageOnly
<1>9. ASSUME NEW s \in list.result.rows, OpenReplay(s) PROVE SessionsInv'
  <2> DEFINE l == [list EXCEPT !.replay = s, !.request = NoRequest, !.next = NoResult]
  <2>1. /\ DOMAIN l = ListFields /\ l.query = list.query /\ l.replay = s /\ l.result = list.result
        /\ l.next = NoResult /\ l.request = NoRequest
    BY <1>0 DEF G, ListGood, ListFields
  <2>2. list' = l BY <1>9 DEF OpenReplay
  <2> HIDE DEF l
  <2>3. Good(list.query, list.result, listed.now, listed.later, deleted) BY <1>0 DEF G, ListGood
  <2>4. s \in Recordings \ listed.later BY <2>3 DEF Good, ResultType, Fresh
  <2>5. DOMAIN l.request = {"of", "cursor", "got"} /\ l.request.of = "none" /\ l.request.cursor \in Nat
        /\ l.request.got = << >>
    BY <2>1 DEF NoRequest
  <2>6. /\ l.next \in ResultType /\ l.next.known \cap listed.later = {}
        /\ Fresh(l.next.rows, listed.later, deleted)
    BY <2>1 DEF NoResult, ResultType, Fresh
  <2>7. G(l) BY <2>1, <2>3, <2>4, <2>5, <2>6 DEF G, ListGood, Loading, Answered, Answers
  <2> QED BY <1>a, <1>9, <2>2, <2>7 DEF OpenReplay, PageOnly
<1>10. CASE Back BY <1>a, <1>b, <1>10 DEF Back, PageOnly
<1>11. CASE RemoveSession
  <2>1. list.replay \in Recordings \ listed.later BY <1>0, <1>11 DEF G, ListGood, RemoveSession, OnList
  <2>2. /\ DOMAIN removal' = {"state", "of", "query"} /\ removal'.state = "asked"
        /\ removal'.of = list.replay /\ UNCHANGED << listed, cache, list, deleted >>
    BY <1>11 DEF RemoveSession
  <2> QED BY <1>0, <2>1, <2>2 DEF SessionsInv, RemovalGood, ListedGood, G, C
<1>12. CASE RemoveFailed
  BY <1>0, <1>12 DEF RemoveFailed, NoRemoval, SessionsInv, RemovalGood, ListedGood, G, C
<1>13. ASSUME NEW now2, NEW later2, listed' = [now |-> now2, later |-> later2],
              now2 \subseteq listed.now \cup listed.later, later2 \subseteq listed.later, now2 \cap later2 = {},
              UNCHANGED << cache, list, deleted >>, RemovalGood'
       PROVE  SessionsInv'
  <2>1. listed'.now = now2 /\ listed'.later = later2 /\ DOMAIN listed' = {"now", "later"} BY <1>13
  <2>2. ListGood(list, now2, later2, deleted) BY <1>0, <1>13, ListGoodStays DEF G
  <2>3. CacheGood(cache, now2, later2, deleted) BY <1>0, <1>13, CacheGoodStays DEF C
  <2>4. ListedGood' BY <1>0, <1>13, <2>1 DEF ListedGood
  <2> QED BY <1>13, <2>1, <2>2, <2>3, <2>4 DEF SessionsInv
<1>14. CASE ServerRemoves
  <2>1. listed' = [now |-> listed.now \ {removal.of}, later |-> listed.later]
    BY <1>0, <1>14 DEF ServerRemoves, ListedGood
  <2>2. /\ DOMAIN removal' = {"state", "of", "query"} /\ removal'.state = "done"
        /\ removal'.of = removal.of
    BY <1>0, <1>14 DEF ServerRemoves, RemovalGood
  <2>3. removal.of \in Recordings \ listed.later BY <1>0, <1>14 DEF ServerRemoves, RemovalGood
  <2>4. RemovalGood' BY <1>0, <1>14, <2>1, <2>2, <2>3 DEF ServerRemoves, RemovalGood
  <2>5. /\ listed.now \ {removal.of} \subseteq listed.now \cup listed.later
        /\ (listed.now \ {removal.of}) \cap listed.later = {}
    BY <1>0 DEF ListedGood
  <2>6. UNCHANGED << cache, list, deleted >> BY <1>14 DEF ServerRemoves
  <2> QED BY <1>13, <2>1, <2>4, <2>5, <2>6
<1>15. CASE ListedElsewhere
  <2>1. ASSUME NEW s \in listed.later,
               listed' = [now |-> listed.now \cup {s}, later |-> listed.later \ {s}]
        PROVE  SessionsInv'
    <3>1. UNCHANGED << removal, deleted, cache, list >> BY <1>15 DEF ListedElsewhere
    <3>2. RemovalGood' BY <1>0, <2>1, <3>1 DEF RemovalGood
    <3> QED BY <1>0, <1>13, <2>1, <3>1, <3>2 DEF ListedGood
  <2>2. ASSUME NEW s, listed' = [listed EXCEPT !.now = @ \ {s}] PROVE SessionsInv'
    <3>1. UNCHANGED << removal, deleted, cache, list >> BY <1>15 DEF ListedElsewhere
    <3>2. listed' = [now |-> listed.now \ {s}, later |-> listed.later] BY <1>0, <2>2 DEF ListedGood
    <3>3. RemovalGood' BY <1>0, <3>1, <3>2 DEF RemovalGood
    <3> QED BY <1>0, <1>13, <3>1, <3>2, <3>3 DEF ListedGood
  <2> QED BY <1>15, <2>1, <2>2 DEF ListedElsewhere
<1>16. CASE Removed
  <2> DEFINE s == removal.of
             gone == deleted \cup {s}
  <2>1. s \notin listed.now /\ s \in Recordings \ listed.later BY <1>0, <1>16 DEF Removed, RemovalGood
  <2>2. cache' = Forget(s) /\ UNCHANGED listed /\ removal' = NoRemoval /\ deleted' \subseteq gone
    BY <1>16 DEF Removed
  <2>3. CacheGood(cache', listed.now, listed.later, gone) BY <1>0, <2>1, <2>2, ForgetGood DEF C
  <2>4. ListGood(list', listed.now, listed.later, deleted')
    <3>1. CASE list' = list
      <4>1. CASE OnList
        <5>1. deleted' = deleted BY <1>16, <2>1, <4>1, SessionsListAssumption DEF Removed, OnList
        <5> QED BY <1>0, <3>1, <5>1 DEF G
      <4>2. CASE ~OnList
        <5>1. list' = Begin(removal.query, cache') BY <1>16, <4>2 DEF Removed
        <5>2. ListGood(list', listed.now, listed.later, gone) BY <1>0, <2>3, <5>1, BeginGood
        <5> QED BY <2>2, <5>2 DEF ListGood, Good, Loading, Answered, Seamless, Fresh
      <4> QED BY <4>1, <4>2
    <3>2. CASE list' = Begin(removal.query, cache')
      <4>1. ListGood(list', listed.now, listed.later, gone) BY <1>0, <2>3, <3>2, BeginGood
      <4> QED BY <2>2, <4>1 DEF ListGood, Good, Loading, Answered, Seamless, Fresh
    <3> QED BY <1>16, <3>1, <3>2 DEF Removed
  <2>5. CacheGood(cache', listed.now, listed.later, deleted')
    BY <2>2, <2>3 DEF CacheGood, Good, Fresh
  <2>6. RemovalGood' BY <1>0, <2>1, <2>2 DEF RemovalGood, NoRemoval
  <2> QED BY <1>0, <2>2, <2>4, <2>5, <2>6 DEF SessionsInv, ListedGood
<1>17. CASE UNCHANGED sessionVars
  BY <1>17 DEF sessionVars, SessionsInv, ListedGood, RemovalGood
<1> QED BY <1>1, <1>2, <1>3, <1>6, <1>7, <1>8, <1>9, <1>10, <1>11, <1>12, <1>14, <1>15, <1>16, <1>17
     DEF SessionsNext

LEMMA SessionsInvIsWhole == SessionsInv => ListIsWhole
<1> SUFFICES ASSUME SessionsInv PROVE ListIsWhole OBVIOUS
<1>1. Good(list.query, list.result, listed.now, listed.later, deleted) BY DEF SessionsInv, ListGood
<1> QED BY <1>1 DEF ListIsWhole, NoGap, DeletedStaysGone, Good, Complete, Fresh
-----------------------------------------------------------------------------
(* The stream of logs                                                      *)

\* A sequence of numbers of which each is less than those before.
Falling(s) == s \in Seq(Nat) /\ \A i, j \in DOMAIN s : i < j => s[i] > s[j]

LogType == [id : Nat, kind : Kinds]

\* A page of logs, the latest first, and rows that may hold deleted ones.
LogsFall(s) == s \in Seq(LogType) /\ \A i, j \in DOMAIN s : i < j => s[i].id > s[j].id

InOrder(s) ==
  /\ s \in Seq(LogType)
  /\ \A i, j \in DOMAIN s : i < j => s[i].id # s[j].id /\ (s[i].id > s[j].id \/ s[j].id \in purged)

\* The numbers given so far, and the logs of the filter whose number was never
\* that of a deleted one.
Used == DOMAIN stored \cup purged

Live == {n \in DOMAIN stored : n \notin purged /\ stored[n] \in logs.filter}

\* A log that the server has, unless its number was that of a deleted one.
Kept(x) == x.id \in Used /\ (x.id \in purged \/ stored[x.id] = x.kind)

\* Of the live logs below a number, those among others are all there.
Covers(S, below) == \A n \in Live : n < below => n \in S \/ \A m \in S : n < m

StoreGood ==
  /\ DOMAIN stored \subseteq 1..MaxLogs /\ purged \subseteq 1..MaxLogs
  /\ \A n \in DOMAIN stored : stored[n] \in Kinds
  /\ \A u \in Used, n \in Nat \ {0} : n < u => n \in Used

LogFields == {"filter", "valid", "live", "rows", "first", "more", "generation"}

\* The rows are in order, and of the filter once its load has answered; they miss
\* no live log above the last.
RowsGood ==
  /\ DOMAIN logs = LogFields /\ logs.first \in BOOLEAN /\ logs.generation \in Nat
  /\ InOrder(logs.rows)
  /\ \A x \in ToSet(logs.rows) : Kept(x) /\ (~logs.first => x.kind \in logs.filter)
  /\ ~logs.first /\ logs.rows # << >> => Covers(Ids(logs.rows), Last(logs.rows).id)
  /\ logs.more => ~logs.first

\* A page of logs of a filter, below a number.
PageGood(p, filter, below) ==
  /\ LogsFall(p)
  /\ \A x \in ToSet(p) : Kept(x) /\ x.kind \in filter /\ x.id < below

ReadFields == {"kind", "generation", "filter", "below", "got"}

ReadGood(r) ==
  /\ DOMAIN r = ReadFields
  /\ r.kind \in {"latest", "older"}
  /\ r.generation \in Nat /\ r.generation <= logs.generation /\ r.below \in Nat
  /\ r.got # << >> => r.got = << r.got[1] >> /\ PageGood(r.got[1], r.filter, r.below)

\* The latest page misses no live log between those it has and any of the rows.
Meets(p) == \A n \in Ids(logs.rows) : Covers(Ids(p), n + 1)

CurrentGood(r) ==
  /\ r.filter = logs.filter
  /\ r.kind = "latest" =>
       r.below = Top /\ (~logs.first /\ r.got # << >> => Meets(r.got[1]))
  /\ r.kind = "older" =>
       /\ ~logs.first /\ r.below \in Ids(logs.rows) /\ Covers(Ids(logs.rows), r.below)

\* One refresh and one older page of a load at a time.
OneOfEach == \A r, s \in reads : Current(r) /\ Current(s) /\ r.kind = s.kind => r = s

LogsInv ==
  /\ StoreGood
  /\ RowsGood
  /\ \A r \in reads : ReadGood(r) /\ (Current(r) => CurrentGood(r))
  /\ OneOfEach

-----------------------------------------------------------------------------
(* Sequences of logs                                                       *)

LEMMA LogSeq ==
  ASSUME NEW s \in Seq(LogType)
  PROVE  /\ Len(s) \in Nat /\ DOMAIN s = 1..Len(s) /\ \A i \in DOMAIN s : s[i].id \in Nat /\ s[i] \in ToSet(s)
         /\ \A x \in ToSet(s) : x.id \in Nat /\ x.id \in Ids(s)
         /\ Ids(s) \subseteq Nat
         /\ \A n \in Ids(s) : \E x \in ToSet(s) : x.id = n
<1>1. Len(s) \in Nat /\ DOMAIN s = 1..Len(s) /\ \A i \in DOMAIN s : s[i] \in LogType OBVIOUS
<1>2. \A x \in LogType : x.id \in Nat BY DEF LogType
<1> QED BY <1>1, <1>2 DEF ToSet, Ids

LEMMA LastLog ==
  ASSUME NEW s \in Seq(LogType), s # << >>
  PROVE  Last(s) \in ToSet(s) /\ Last(s).id \in Ids(s) /\ Last(s) = s[Len(s)] /\ Len(s) \in DOMAIN s
<1>1. Len(s) \in Nat /\ DOMAIN s = 1..Len(s) BY LogSeq
<1>2. Len(s) > 0 BY <1>1
<1>3. Len(s) \in DOMAIN s BY <1>1, <1>2
<1> QED BY <1>3, LogSeq DEF Last

LEMMA NoLogs == InOrder(<< >>) /\ ToSet(<< >>) = {} /\ Ids(<< >>) = {}
BY DEF InOrder, ToSet, Ids

\* A page is in order, and its last is the least.
LEMMA PageInOrder ==
  ASSUME NEW s, LogsFall(s)
  PROVE  /\ InOrder(s) /\ s \in Seq(LogType)
         /\ s # << >> => \A n \in Ids(s) : Last(s).id <= n
<1>1. s \in Seq(LogType) BY DEF LogsFall
<1>2. Len(s) \in Nat /\ DOMAIN s = 1..Len(s) /\ \A i \in DOMAIN s : s[i].id \in Nat BY <1>1, LogSeq
<1>3. ASSUME NEW i \in DOMAIN s, NEW j \in DOMAIN s, i < j PROVE s[i].id # s[j].id /\ s[i].id > s[j].id
  <2>1. s[i].id > s[j].id BY <1>3 DEF LogsFall
  <2> QED BY <1>2, <2>1
<1>4. ASSUME s # << >>, NEW x \in ToSet(s) PROVE Last(s).id <= x.id
  <2>1. PICK i \in DOMAIN s : s[i] = x BY DEF ToSet
  <2>2. Last(s) = s[Len(s)] /\ Len(s) \in DOMAIN s BY <1>1, <1>4, LastLog
  <2>3. i = Len(s) \/ i < Len(s) BY <1>2, SMTT(30)
  <2>4. i < Len(s) => s[i].id > s[Len(s)].id BY <1>3, <2>2
  <2> QED BY <1>2, <2>1, <2>2, <2>3, <2>4
<1> QED BY <1>1, <1>3, <1>4, LogSeq DEF InOrder

\* Logs go before others that have other numbers, and are older or deleted.
LEMMA JoinInOrder ==
  ASSUME NEW a, NEW b, InOrder(a), InOrder(b),
         \A x \in ToSet(a), y \in ToSet(b) : x.id # y.id /\ (x.id > y.id \/ y.id \in purged)
  PROVE  /\ InOrder(a \o b)
         /\ ToSet(a \o b) = ToSet(a) \cup ToSet(b)
         /\ Ids(a \o b) = Ids(a) \cup Ids(b)
         /\ b # << >> => a \o b # << >> /\ Last(a \o b) = Last(b)
         /\ b = << >> => a \o b = a
<1>0. a \in Seq(LogType) /\ b \in Seq(LogType) BY DEF InOrder
<1>1. /\ Len(a) \in Nat /\ DOMAIN a = 1..Len(a)
      /\ Len(b) \in Nat /\ DOMAIN b = 1..Len(b)
  BY <1>0, LogSeq
<1> DEFINE c == a \o b
<1>2. /\ c \in Seq(LogType) /\ Len(c) = Len(a) + Len(b) /\ DOMAIN c = 1..(Len(a) + Len(b))
      /\ \A i \in 1..Len(a) : c[i] = a[i]
      /\ \A i \in 1..(Len(a) + Len(b)) : i > Len(a) => c[i] = b[i - Len(a)]
  BY <1>0, <1>1
<1>e. b = << >> => c = a BY <1>0
<1> HIDE DEF c
<1>3. ASSUME NEW i \in DOMAIN c, NEW j \in DOMAIN c, i < j
      PROVE  c[i].id # c[j].id /\ (c[i].id > c[j].id \/ c[j].id \in purged)
  <2>1. i \in Nat /\ j \in Nat /\ i >= 1 /\ j <= Len(a) + Len(b) BY <1>1, <1>2
  <2>2. CASE j <= Len(a)
    <3>1. i \in DOMAIN a /\ j \in DOMAIN a BY <1>1, <1>3, <2>1, <2>2
    <3> QED BY <1>1, <1>2, <1>3, <3>1 DEF InOrder
  <2>3. CASE i > Len(a)
    <3>1. i - Len(a) \in DOMAIN b /\ j - Len(a) \in DOMAIN b /\ i - Len(a) < j - Len(a)
      BY <1>1, <1>3, <2>1, <2>3
    <3>2. /\ b[i - Len(a)].id # b[j - Len(a)].id
          /\ b[i - Len(a)].id > b[j - Len(a)].id \/ b[j - Len(a)].id \in purged
      BY <3>1 DEF InOrder
    <3>3. j > Len(a) BY <1>1, <1>3, <2>1, <2>3
    <3> QED BY <1>2, <2>3, <3>2, <3>3
  <2>4. CASE i <= Len(a) /\ j > Len(a)
    <3>1. i \in DOMAIN a /\ j - Len(a) \in DOMAIN b BY <1>1, <2>1, <2>4
    <3>2. a[i] \in ToSet(a) /\ b[j - Len(a)] \in ToSet(b) BY <3>1 DEF ToSet
    <3>3. c[i] = a[i] /\ c[j] = b[j - Len(a)] BY <1>1, <1>2, <2>4, <3>1
    <3> QED BY <3>2, <3>3
  <2> QED BY <1>1, <2>1, <2>2, <2>3, <2>4
<1>4. ToSet(c) = ToSet(a) \cup ToSet(b)
  <2>1. ASSUME NEW x \in ToSet(c) PROVE x \in ToSet(a) \cup ToSet(b)
    <3>1. PICK i \in DOMAIN c : c[i] = x BY DEF ToSet
    <3>2. i \in Nat /\ (i \in DOMAIN a \/ (i > Len(a) /\ i - Len(a) \in DOMAIN b)) BY <1>1, <1>2
    <3> QED BY <1>1, <1>2, <3>1, <3>2 DEF ToSet
  <2>2. ASSUME NEW x \in ToSet(a) PROVE x \in ToSet(c)
    <3>1. PICK i \in DOMAIN a : a[i] = x BY DEF ToSet
    <3>2. i \in DOMAIN c /\ c[i] = x BY <1>1, <1>2, <3>1
    <3> QED BY <3>2 DEF ToSet
  <2>3. ASSUME NEW x \in ToSet(b) PROVE x \in ToSet(c)
    <3>1. PICK i \in DOMAIN b : b[i] = x BY DEF ToSet
    <3>2. i + Len(a) \in DOMAIN c /\ i + Len(a) > Len(a) /\ (i + Len(a)) - Len(a) = i BY <1>1, <1>2, SMTT(30)
    <3>3. c[i + Len(a)] = x BY <1>2, <3>1, <3>2
    <3> QED BY <3>2, <3>3 DEF ToSet
  <2> QED BY <2>1, <2>2, <2>3
<1>5. Ids(c) = Ids(a) \cup Ids(b) BY <1>4 DEF Ids
<1>6. InOrder(c) BY <1>2, <1>3 DEF InOrder
<1>7. ASSUME b # << >> PROVE c # << >> /\ Last(c) = Last(b)
  <2>1. Len(b) > 0 BY <1>0, <1>1, <1>7
  <2>2. Len(c) \in 1..(Len(a) + Len(b)) /\ Len(c) > Len(a) /\ Len(c) - Len(a) = Len(b) BY <1>1, <1>2, <2>1
  <2>3. c # << >> BY <1>1, <1>2, <2>1
  <2> QED BY <1>2, <2>2, <2>3 DEF Last
<1> QED BY <1>4, <1>5, <1>6, <1>7, <1>e DEF c

\* Every rank is that of some element.
LEMMA RanksAreTaken ==
  ASSUME NEW S \in SUBSET Nat, IsFiniteSet(S), NEW k \in 1..Cardinality(S)
  PROVE  \E a \in S : Cardinality(Over(S, a)) = k - 1
<1>0. Cardinality(S) \in Nat BY FS_CardinalityType
<1> DEFINE Bad == {n \in 1..Cardinality(S) : \A a \in S : Cardinality(Over(S, a)) # n - 1}
<1>1. SUFFICES ASSUME Bad # {} PROVE FALSE BY <1>0
<1>2. Bad \in SUBSET Nat BY <1>0
<1>3. PICK n \in Bad : \A x \in Bad : n <= x BY <1>1, <1>2, SmallestNat
<1>4. n \in 1..Cardinality(S) /\ n \in Nat /\ \A a \in S : Cardinality(Over(S, a)) # n - 1 BY <1>0, <1>3
<1>5. S # {} BY <1>0, <1>4, FS_EmptySet
<1>6. CASE n = 1
  <2>1. PICK m \in S : \A x \in S : x <= m BY <1>5, Largest
  <2>2. Over(S, m) = {}
    <3>1. \A x \in S : ~(x > m) BY <2>1
    <3> QED BY <3>1 DEF Over
  <2> QED BY <1>4, <1>6, <2>2, FS_EmptySet
<1>7. CASE n > 1
  <2>1. n - 1 \in 1..Cardinality(S) /\ n - 1 \notin Bad BY <1>0, <1>3, <1>4, <1>7
  <2>2. PICK a \in S : Cardinality(Over(S, a)) = n - 2 BY <1>4, <2>1
  <2> DEFINE below == {x \in S : x < a}
             upper == Over(S, a) \cup {a}
  <2>3. IsFiniteSet(upper) /\ Cardinality(upper) = n - 1
    <3>1. a \notin Over(S, a) BY DEF Over
    <3>2. IsFiniteSet(Over(S, a)) BY OverFinite
    <3> QED BY <1>4, <2>2, <3>1, <3>2, FS_AddElement
  <2>4. below # {}
    <3>1. SUFFICES ASSUME below = {} PROVE FALSE OBVIOUS
    <3>2. S = upper
      <4>1. ASSUME NEW x \in S PROVE x \in upper
        <5>1. ~(x < a) BY <3>1
        <5>2. x = a \/ x > a BY <5>1
        <5> QED BY <5>2 DEF Over
      <4>2. upper \subseteq S BY DEF Over
      <4> QED BY <4>1, <4>2
    <3> HIDE DEF upper
    <3> QED BY <1>0, <1>4, <2>3, <3>2
  <2>5. below \in SUBSET Nat /\ below \in SUBSET S OBVIOUS
  <2>6. IsFiniteSet(below) BY <2>5, FS_Subset
  <2>7. PICK m \in below : \A x \in below : x <= m BY <2>4, <2>5, <2>6, Largest
  <2>8. Over(S, m) = upper
    <3>1. ASSUME NEW x \in S, x > m PROVE x \in upper
      <4>1. ~(x < a) BY <2>7, <3>1
      <4>2. x = a \/ x > a BY <4>1
      <4> QED BY <4>2 DEF Over
    <3>2. ASSUME NEW x \in upper PROVE x \in S /\ x > m
      <4>1. x \in S /\ (x = a \/ x > a) /\ m < a /\ m \in Nat BY <2>7 DEF Over
      <4> QED BY <4>1
    <3> QED BY <3>1, <3>2 DEF Over
  <2>9. Cardinality(Over(S, m)) = n - 1 BY <2>3, <2>8
  <2> QED BY <1>4, <2>7, <2>9
<1> QED BY <1>4, <1>6, <1>7

LEMMA DescendingFalls ==
  ASSUME NEW S \in SUBSET Nat, IsFiniteSet(S)
  PROVE  /\ Falling(Descending(S)) /\ Len(Descending(S)) = Cardinality(S)
         /\ ToSet(Descending(S)) = S
<1> DEFINE d == Descending(S)
           n == Cardinality(S)
<1>1. n \in Nat BY FS_CardinalityType
<1>2. \A k \in 1..n : d[k] = CHOOSE a \in S : Cardinality(Over(S, a)) = k - 1
  BY DEF Descending, Over
<1>3. ASSUME NEW k \in 1..n PROVE d[k] \in S /\ Cardinality(Over(S, d[k])) = k - 1
  BY <1>2, RanksAreTaken
<1>4. d \in [1..n -> S]
  <2>1. \A k \in 1..n : (CHOOSE a \in S : Cardinality({x \in S : x > a}) = k - 1) \in S
    BY RanksAreTaken DEF Over
  <2> QED BY <2>1 DEF Descending
<1> HIDE DEF d, n
<1>5. d \in Seq(Nat) /\ Len(d) = n /\ DOMAIN d = 1..n
  <2>1. d \in [1..n -> Nat] BY <1>4
  <2> QED BY <1>1, <2>1
<1>6. ASSUME NEW i \in 1..n, NEW j \in 1..n, i < j PROVE d[i] > d[j]
  <2>1. Cardinality(Over(S, d[i])) = i - 1 /\ Cardinality(Over(S, d[j])) = j - 1 BY <1>3
  <2>2. i - 1 < j - 1 BY <1>1, <1>6
  <2>3. d[i] \in S /\ d[j] \in S BY <1>3
  <2>4. Cardinality(Over(S, d[i])) < Cardinality(Over(S, d[j])) BY <2>1, <2>2
  <2> QED BY <2>3, <2>4, RankOrder
<1>7. ASSUME NEW x \in S PROVE \E k \in 1..n : d[k] = x
  <2> DEFINE k == Cardinality(Over(S, x)) + 1
  <2>1. Over(S, x) \in SUBSET (S \ {x}) BY DEF Over
  <2>2. IsFiniteSet(S \ {x}) /\ Cardinality(S \ {x}) = n - 1 BY FS_RemoveElement DEF n
  <2>3. Cardinality(Over(S, x)) <= n - 1 BY <2>1, <2>2, FS_Subset
  <2>4. Cardinality(Over(S, x)) \in Nat BY OverFinite
  <2>5. k \in 1..n /\ k - 1 = Cardinality(Over(S, x)) BY <1>1, <2>3, <2>4
  <2> HIDE DEF k
  <2>6. d[k] \in S /\ Cardinality(Over(S, d[k])) = Cardinality(Over(S, x)) BY <1>3, <2>5
  <2>7. d[k] = x
    <3>0. ~(Cardinality(Over(S, d[k])) < Cardinality(Over(S, x)))
          /\ ~(Cardinality(Over(S, x)) < Cardinality(Over(S, d[k])))
      BY <2>4, <2>6
    <3>1. ~(d[k] > x) BY <2>6, <3>0, RankOrder
    <3>2. ~(x > d[k]) BY <2>6, <3>0, RankOrder
    <3>3. d[k] \in Nat /\ x \in Nat BY <2>6
    <3> QED BY <3>1, <3>2, <3>3
  <2> QED BY <2>5, <2>7
<1>8. ToSet(d) = S BY <1>3, <1>5, <1>7 DEF ToSet
<1>9. Falling(d) BY <1>5, <1>6 DEF Falling
<1> QED BY <1>5, <1>8, <1>9 DEF d, n


\* What is left of the rows keeps its order, and the last row if it is left.
LEMMA WithoutKeeps ==
  ASSUME NEW rows \in Seq(LogType), NEW others
  PROVE  /\ Without(rows, others) \in Seq(LogType)
         /\ ToSet(Without(rows, others)) = {x \in ToSet(rows) : x.id \notin Ids(others)}
         /\ \A i, j \in DOMAIN Without(rows, others) : i < j =>
              \E k, l \in DOMAIN rows :
                k < l /\ Without(rows, others)[i] = rows[k] /\ Without(rows, others)[j] = rows[l]
         /\ rows # << >> /\ Last(rows).id \notin Ids(others) =>
              Without(rows, others) # << >> /\ Last(Without(rows, others)) = Last(rows)
<1> DEFINE kept == {i \in DOMAIN rows : rows[i].id \notin Ids(others)}
           d == Descending(kept)
           places == Reverse(d)
           w == Without(rows, others)
           n == Len(d)
<1>1. Len(rows) \in Nat /\ DOMAIN rows = 1..Len(rows) /\ \A i \in DOMAIN rows : rows[i] \in LogType OBVIOUS
<1>2. kept \in SUBSET Nat /\ kept \in SUBSET (1..Len(rows)) BY <1>1
<1>3. IsFiniteSet(kept)
  <2>1. IsFiniteSet(1..Len(rows)) BY <1>1, FS_Interval
  <2> HIDE DEF kept
  <2> QED BY <1>2, <2>1, FS_Subset
<1>4. Falling(d) /\ ToSet(d) = kept BY <1>2, <1>3, DescendingFalls
<1>5. w = [k \in DOMAIN places |-> rows[places[k]]] BY DEF Without
<1> HIDE DEF d
<1>6. n \in Nat /\ DOMAIN d = 1..n BY <1>4 DEF Falling
<1>7. DOMAIN places = 1..n /\ \A k \in 1..n : places[k] = d[(n - k) + 1] BY <1>6 DEF Reverse
<1> HIDE DEF places, w
<1>8. ASSUME NEW k \in 1..n PROVE (n - k) + 1 \in 1..n /\ places[k] \in kept
  <2>1. (n - k) + 1 \in 1..n BY <1>6
  <2>2. d[(n - k) + 1] \in kept BY <1>4, <1>6, <2>1 DEF ToSet
  <2> QED BY <1>7, <2>1, <2>2
<1> HIDE DEF n
<1>9. DOMAIN w = 1..n /\ \A k \in 1..n : w[k] = rows[places[k]] BY <1>5, <1>7
<1>10. w \in Seq(LogType)
  <2>1. w = [k \in 1..n |-> w[k]] BY <1>5, <1>7
  <2>2. \A k \in 1..n : w[k] \in LogType BY <1>1, <1>8, <1>9
  <2> QED BY <1>6, <2>1, <2>2
<1>11. ASSUME NEW i \in 1..n, NEW j \in 1..n, i < j
       PROVE  \E k, l \in DOMAIN rows : k < l /\ w[i] = rows[k] /\ w[j] = rows[l]
  <2>1. (n - j) + 1 < (n - i) + 1 BY <1>6, <1>11
  <2>2. d[(n - j) + 1] > d[(n - i) + 1] BY <1>4, <1>6, <1>8, <2>1 DEF Falling
  <2>3. places[i] < places[j] /\ places[i] \in DOMAIN rows /\ places[j] \in DOMAIN rows
    BY <1>2, <1>7, <1>8, <2>2
  <2> QED BY <1>9, <2>3
<1>12. ASSUME NEW i \in kept PROVE \E k \in 1..n : places[k] = i
  <2>1. PICK j \in 1..n : d[j] = i BY <1>4, <1>6 DEF ToSet
  <2>2. (n - j) + 1 \in 1..n /\ (n - ((n - j) + 1)) + 1 = j BY <1>6
  <2> QED BY <1>7, <2>1, <2>2
<1>13. ToSet(w) = {x \in ToSet(rows) : x.id \notin Ids(others)}
  <2>1. ASSUME NEW k \in 1..n PROVE w[k] \in {x \in ToSet(rows) : x.id \notin Ids(others)}
    <3>1. places[k] \in DOMAIN rows /\ rows[places[k]].id \notin Ids(others) BY <1>8
    <3> QED BY <1>9, <3>1 DEF ToSet
  <2>2. ASSUME NEW x \in ToSet(rows), x.id \notin Ids(others) PROVE \E k \in 1..n : w[k] = x
    <3>1. PICK i \in DOMAIN rows : rows[i] = x BY DEF ToSet
    <3>2. i \in kept BY <2>2, <3>1
    <3> QED BY <1>9, <1>12, <3>1, <3>2
  <2>3. \A x \in ToSet(w) : \E k \in 1..n : w[k] = x BY <1>9 DEF ToSet
  <2>4. \A k \in 1..n : w[k] \in ToSet(w) BY <1>9 DEF ToSet
  <2> QED BY <2>1, <2>2, <2>3, <2>4
<1>14. ASSUME rows # << >>, Last(rows).id \notin Ids(others) PROVE w # << >> /\ Last(w) = Last(rows)
  <2>1. Last(rows) = rows[Len(rows)] /\ Len(rows) \in DOMAIN rows BY <1>14, LastLog
  <2>2. Len(rows) \in kept BY <1>14, <2>1
  <2>3. PICK k \in 1..n : places[k] = Len(rows) BY <1>12, <2>2
  <2>4. k = n
    <3>1. SUFFICES ASSUME k < n PROVE FALSE BY <1>6, SMTT(30)
    <3>2. n \in 1..n BY <1>6
    <3>3. (n - n) + 1 < (n - k) + 1 BY <1>6, <3>1
    <3>4. d[(n - n) + 1] > d[(n - k) + 1] BY <1>4, <1>6, <1>8, <3>2, <3>3 DEF Falling
    <3>5. places[n] > Len(rows) /\ places[n] \in 1..Len(rows) BY <1>2, <1>7, <1>8, <2>3, <3>2, <3>4
    <3> QED BY <1>1, <3>5
  <2>5. Len(w) = n /\ w # << >> BY <1>6, <1>9, <1>10
  <2> QED BY <1>9, <2>1, <2>3, <2>4, <2>5 DEF Last
<1> QED BY <1>9, <1>10, <1>11, <1>13, <1>14 DEF w

LEMMA WithoutInOrder ==
  ASSUME NEW rows, NEW others
  PROVE  /\ InOrder(rows) => InOrder(Without(rows, others))
         /\ LogsFall(rows) => LogsFall(Without(rows, others))
<1> DEFINE w == Without(rows, others)
<1>1. ASSUME rows \in Seq(LogType)
      PROVE  /\ w \in Seq(LogType)
             /\ \A i, j \in DOMAIN w : i < j =>
                  \E k, l \in DOMAIN rows : k < l /\ w[i] = rows[k] /\ w[j] = rows[l]
  BY <1>1, WithoutKeeps
<1> HIDE DEF w
<1>2. ASSUME InOrder(rows) PROVE InOrder(w)
  <2>1. rows \in Seq(LogType) BY <1>2 DEF InOrder
  <2>2. ASSUME NEW i \in DOMAIN w, NEW j \in DOMAIN w, i < j
        PROVE  w[i].id # w[j].id /\ (w[i].id > w[j].id \/ w[j].id \in purged)
    <3>1. PICK k \in DOMAIN rows, l \in DOMAIN rows : k < l /\ w[i] = rows[k] /\ w[j] = rows[l] BY <1>1, <2>1, <2>2
    <3> QED BY <1>2, <3>1 DEF InOrder
  <2> QED BY <1>1, <2>1, <2>2 DEF InOrder
<1>3. ASSUME LogsFall(rows) PROVE LogsFall(w)
  <2>1. rows \in Seq(LogType) BY <1>3 DEF LogsFall
  <2>2. ASSUME NEW i \in DOMAIN w, NEW j \in DOMAIN w, i < j PROVE w[i].id > w[j].id
    <3>1. PICK k \in DOMAIN rows, l \in DOMAIN rows : k < l /\ w[i] = rows[k] /\ w[j] = rows[l] BY <1>1, <2>1, <2>2
    <3> QED BY <1>3, <3>1 DEF LogsFall
  <2> QED BY <1>1, <2>1, <2>2 DEF LogsFall
<1> QED BY <1>2, <1>3 DEF w

-----------------------------------------------------------------------------
(* The server                                                              *)

LEMMA UsedNumbers == StoreGood => Used \subseteq Nat \ {0}
<1> SUFFICES ASSUME StoreGood PROVE Used \subseteq Nat \ {0} OBVIOUS
<1>1. MaxLogs \in Nat BY LogsListAssumption
<1>2. \A n \in 1..MaxLogs : n \in Nat \ {0} BY <1>1
<1> QED BY <1>2 DEF StoreGood, Used

LEMMA LatestGood ==
  ASSUME StoreGood, NEW filter, NEW below \in Nat
  PROVE  /\ PageGood(LatestBelow(filter, below), filter, below)
         /\ \A n \in DOMAIN stored : (stored[n] \in filter /\ n < below) =>
              \/ n \in Ids(LatestBelow(filter, below))
              \/ \A m \in Ids(LatestBelow(filter, below)) : n < m
<1> DEFINE found == {l \in DOMAIN stored : stored[l] \in filter /\ l < below}
           top == Highest(found, LOG_PAGE_SIZE)
           ids == Descending(top)
           p == LatestBelow(filter, below)
<1>1. MaxLogs \in Nat /\ LOG_PAGE_SIZE \in Nat \ {0} BY LogsListAssumption
<1>2. found \in SUBSET (1..MaxLogs) /\ found \in SUBSET Nat
  <2>1. DOMAIN stored \subseteq 1..MaxLogs BY DEF StoreGood
  <2>2. 1..MaxLogs \subseteq Nat BY <1>1
  <2> QED BY <2>1, <2>2
<1>3. IsFiniteSet(found)
  <2>1. IsFiniteSet(1..MaxLogs) BY <1>1, FS_Interval
  <2> HIDE DEF found
  <2> QED BY <1>2, <2>1, FS_Subset
<1>4. p = [k \in DOMAIN ids |-> [id |-> ids[k], kind |-> stored[ids[k]]]] BY DEF LatestBelow, Highest, Over
<1>5. \A l \in found : l \in DOMAIN stored /\ stored[l] \in filter /\ l < below /\ stored[l] \in Kinds /\ l \in Used
  BY DEF StoreGood, Used
<1>6. ASSUME NEW l \in DOMAIN stored, stored[l] \in filter, l < below PROVE l \in found BY <1>6
<1> HIDE DEF found, p
<1>7. top \in SUBSET found /\ IsFiniteSet(top) /\ \A s \in found \ top : \A x \in top : s < x
  BY <1>1, <1>2, <1>3, HighestAreOnTop
<1> HIDE DEF top
<1>8. Falling(ids) /\ ToSet(ids) = top BY <1>2, <1>7, DescendingFalls
<1> HIDE DEF ids
<1>9. Len(ids) \in Nat /\ DOMAIN ids = 1..Len(ids) /\ \A k \in DOMAIN ids : ids[k] \in top
  BY <1>8 DEF Falling, ToSet
<1>10. /\ DOMAIN p = DOMAIN ids
       /\ \A k \in DOMAIN ids : p[k].id = ids[k] /\ p[k].kind = stored[ids[k]] /\ p[k] \in LogType
  <2>1. \A k \in DOMAIN ids : ids[k] \in Nat /\ stored[ids[k]] \in Kinds BY <1>2, <1>5, <1>7, <1>9
  <2> QED BY <1>4, <2>1 DEF LogType
<1>11. LogsFall(p)
  <2>1. p = [k \in 1..Len(ids) |-> p[k]] BY <1>4, <1>9
  <2>2. \A k \in 1..Len(ids) : p[k] \in LogType BY <1>9, <1>10
  <2>3. p \in Seq(LogType) BY <1>9, <2>1, <2>2
  <2>4. \A i, j \in DOMAIN p : i < j => p[i].id > p[j].id BY <1>8, <1>10 DEF Falling
  <2> QED BY <2>3, <2>4 DEF LogsFall
<1>12. ASSUME NEW x \in ToSet(p) PROVE Kept(x) /\ x.kind \in filter /\ x.id < below /\ x.id \in top
  <2>1. PICK k \in DOMAIN p : p[k] = x BY DEF ToSet
  <2>2. x.id \in top /\ x.kind = stored[x.id] BY <1>9, <1>10, <2>1
  <2> QED BY <1>5, <1>7, <2>2 DEF Kept
<1>13. Ids(p) = top
  <2>1. \A n \in top : \E k \in DOMAIN ids : ids[k] = n BY <1>8 DEF ToSet
  <2>2. \A n \in top : \E x \in ToSet(p) : x.id = n BY <1>10, <2>1 DEF ToSet
  <2> QED BY <1>12, <2>2 DEF Ids
<1>14. PageGood(p, filter, below) BY <1>11, <1>12 DEF PageGood
<1>15. ASSUME NEW n \in DOMAIN stored, stored[n] \in filter, n < below
       PROVE  n \in Ids(p) \/ \A m \in Ids(p) : n < m
  BY <1>6, <1>7, <1>13, <1>15
<1> QED BY <1>14, <1>15 DEF p

\* The next number is a deleted one's, or above all so far.
LEMMA NextNumber ==
  ASSUME StoreGood
  PROVE  /\ NextId \in Nat \ {0} /\ NextId \notin DOMAIN stored
         /\ NextId = 1 \/ NextId - 1 \in DOMAIN stored
         /\ NextId \in purged \/ \A u \in Used : u < NextId
<1>1. MaxLogs \in Nat /\ DOMAIN stored \subseteq 1..MaxLogs BY LogsListAssumption DEF StoreGood
<1>2. DOMAIN stored \in SUBSET Nat /\ \A l \in DOMAIN stored : l <= MaxLogs /\ l >= 1 BY <1>1
<1>3. IsFiniteSet(DOMAIN stored)
  <2>1. IsFiniteSet(1..MaxLogs) BY <1>1, FS_Interval
  <2> QED BY <1>1, <2>1, FS_Subset
<1>4. \E n \in 1..Top : (\A l \in DOMAIN stored : l < n) /\ (n = 1 \/ n - 1 \in DOMAIN stored)
  <2>1. CASE DOMAIN stored = {}
    <3>1. 1 \in 1..Top BY <1>1 DEF Top
    <3> QED BY <2>1, <3>1
  <2>2. CASE DOMAIN stored # {}
    <3>1. PICK m \in DOMAIN stored : \A x \in DOMAIN stored : x <= m BY <1>2, <1>3, <2>2, Largest
    <3>2. m + 1 \in 1..Top /\ (m + 1) - 1 = m BY <1>1, <1>2 DEF Top
    <3>3. \A l \in DOMAIN stored : l < m + 1 BY <1>2, <3>1
    <3> QED BY <3>2, <3>3
  <2> QED BY <2>1, <2>2
<1>5. /\ NextId \in 1..Top /\ \A l \in DOMAIN stored : l < NextId
      /\ NextId = 1 \/ NextId - 1 \in DOMAIN stored
  BY <1>4 DEF NextId
<1>6. NextId \in Nat \ {0} BY <1>1, <1>5 DEF Top
<1>7. NextId \notin DOMAIN stored BY <1>5, <1>6
<1>8. ASSUME NextId \notin purged, NEW u \in Used PROVE u < NextId
  <2>1. NextId \notin Used BY <1>7, <1>8 DEF Used
  <2>2. ~(NextId < u) BY <1>6, <2>1 DEF StoreGood
  <2>3. u \in Nat /\ u # NextId BY <1>8, <2>1, UsedNumbers
  <2> QED BY <1>6, <2>2, <2>3
<1> QED BY <1>5, <1>6, <1>7, <1>8

\* What a log that came or went changes for the page: nothing it relies on.
StoreMoves ==
  /\ StoreGood'
  /\ purged \subseteq purged' /\ Used \subseteq Used'
  /\ \A n \in Used : n \notin purged' => stored'[n] = stored[n] /\ n \in DOMAIN stored
  /\ \A n \in DOMAIN stored' : n \in purged' \/ n \in Used \/ \A u \in Used : u < n

LEMMA StoringMoves == ASSUME StoreGood, Store PROVE StoreMoves
<1>1. PICK kind \in Kinds :
        stored' = [l \in DOMAIN stored \cup {NextId} |-> IF l = NextId THEN kind ELSE stored[l]]
  BY DEF Store
<1>n. PICK next : next = NextId OBVIOUS
<1>2. /\ DOMAIN stored' = DOMAIN stored \cup {next} /\ stored'[next] = kind
      /\ \A l \in DOMAIN stored : l # next => stored'[l] = stored[l]
  BY <1>1, <1>n
<1>3. purged' = purged /\ next <= MaxLogs BY <1>n DEF Store
<1>4. /\ next \in Nat \ {0} /\ next \notin DOMAIN stored
      /\ next = 1 \/ next - 1 \in DOMAIN stored
      /\ next \in purged \/ \A u \in Used : u < next
  BY <1>n, NextNumber
<1>5. Used' = Used \cup {next} BY <1>2, <1>3 DEF Used
<1>6. StoreGood'
  <2>1. MaxLogs \in Nat BY LogsListAssumption
  <2>2. next \in 1..MaxLogs BY <1>3, <1>4, <2>1
  <2>3. \A n \in DOMAIN stored' : stored'[n] \in Kinds BY <1>2 DEF StoreGood
  <2>4. ASSUME NEW u \in Used', NEW n \in Nat \ {0}, n < u PROVE n \in Used'
    <3>1. CASE u \in Used BY <1>5, <2>4, <3>1 DEF StoreGood
    <3>2. CASE u = next
      <4>1. next - 1 \in Used /\ (n = next - 1 \/ n < next - 1) BY <1>4, <2>4, <3>2 DEF Used
      <4> QED BY <1>5, <2>4, <4>1 DEF StoreGood
    <3> QED BY <1>5, <3>1, <3>2
  <2> QED BY <1>2, <1>3, <2>2, <2>3, <2>4 DEF StoreGood
<1>7. \A n \in Used : n \notin purged' => stored'[n] = stored[n] /\ n \in DOMAIN stored
  BY <1>2, <1>3, <1>4 DEF Used
<1>8. \A n \in DOMAIN stored' : n \in purged' \/ n \in Used \/ \A u \in Used : u < n
  BY <1>2, <1>3, <1>4 DEF Used
<1> QED BY <1>3, <1>5, <1>6, <1>7, <1>8 DEF StoreMoves

LEMMA DeletingMoves == ASSUME StoreGood, Delete PROVE StoreMoves
<1>1. PICK ids \in SUBSET DOMAIN stored :
        stored' = Restrict(stored, DOMAIN stored \ ids) /\ purged' = purged \cup ids
  BY DEF Delete
<1>2. DOMAIN stored' = DOMAIN stored \ ids /\ \A n \in DOMAIN stored \ ids : stored'[n] = stored[n]
  BY <1>1 DEF Restrict
<1>3. Used' = Used BY <1>1, <1>2 DEF Used
<1>4. StoreGood' BY <1>1, <1>2, <1>3 DEF StoreGood
<1> QED BY <1>1, <1>2, <1>3, <1>4 DEF StoreMoves, Used


LEMMA MovesKeep == ASSUME LogsInv, StoreMoves, UNCHANGED << logs, reads >> PROVE LogsInv'
<1>1. ASSUME NEW x, Kept(x) PROVE Kept(x)'
  <2>1. x.id \in Used' /\ (x.id \notin purged' => stored'[x.id] = stored[x.id] /\ x.id \notin purged)
    BY <1>1 DEF Kept, StoreMoves
  <2> QED BY <1>1, <2>1 DEF Kept
<1>2. ASSUME NEW S, NEW below \in Nat, NEW u \in Used, below <= u + 1, Covers(S, below) PROVE Covers(S, below)'
  <2>1. Used \subseteq Nat /\ DOMAIN stored' \subseteq Nat
    <3>1. MaxLogs \in Nat BY LogsListAssumption
    <3>2. 1..MaxLogs \subseteq Nat BY <3>1
    <3> QED BY <3>2, UsedNumbers DEF LogsInv, StoreMoves, StoreGood
  <2>2. ASSUME NEW n \in Live', n < below PROVE n \in Live
    <3>1. n \in DOMAIN stored' /\ n \notin purged' /\ stored'[n] \in logs.filter BY <2>2 DEF Live
    <3>2. n \in Nat /\ u \in Nat BY <2>1, <3>1
    <3>3. ~(u < n) BY <1>2, <2>2, <3>2
    <3>4. n \in Used BY <3>1, <3>3 DEF StoreMoves
    <3>5. stored'[n] = stored[n] /\ n \in DOMAIN stored /\ n \notin purged BY <3>1, <3>4 DEF StoreMoves
    <3> QED BY <3>1, <3>5 DEF Live
  <2> QED BY <1>2, <2>2 DEF Covers
<1>3. \A s : InOrder(s) => InOrder(s)' BY DEF InOrder, StoreMoves
<1>4. RowsGood BY DEF LogsInv
<1>5. logs.rows \in Seq(LogType) BY <1>4 DEF RowsGood, InOrder
<1>6. \A n \in Ids(logs.rows) : n \in Used /\ n \in Nat /\ n <= n + 1 /\ n + 1 \in Nat /\ n + 1 <= n + 1
  <2>1. \A x \in ToSet(logs.rows) : x.id \in Used BY <1>4 DEF RowsGood, Kept
  <2> QED BY <1>5, <2>1, LogSeq
<1>7. RowsGood'
  <2>1. ASSUME logs.rows # << >>, ~logs.first PROVE Covers(Ids(logs.rows), Last(logs.rows).id)'
    <3>1. Last(logs.rows).id \in Ids(logs.rows) BY <1>5, <2>1, LastLog
    <3> QED BY <1>2, <1>4, <1>6, <2>1, <3>1 DEF RowsGood
  <2> QED BY <1>1, <1>3, <1>4, <2>1 DEF RowsGood
<1>8. ASSUME NEW r \in reads PROVE ReadGood(r)' /\ (Current(r)' => CurrentGood(r)')
  <2>1. ReadGood(r) /\ (Current(r) => CurrentGood(r)) BY DEF LogsInv
  <2>2. ReadGood(r)' BY <1>1, <2>1 DEF ReadGood, PageGood
  <2>3. ASSUME Current(r) PROVE CurrentGood(r)'
    <3>1. CurrentGood(r) BY <2>1, <2>3
    <3>2. ASSUME r.kind = "latest", ~logs.first, r.got # << >> PROVE Meets(r.got[1])'
      <4>1. Meets(r.got[1]) BY <3>1, <3>2 DEF CurrentGood
      <4>2. \A n \in Ids(logs.rows) : Covers(Ids(r.got[1]), n + 1)' BY <1>2, <1>6, <4>1 DEF Meets
      <4> QED BY <4>2 DEF Meets
    <3>3. ASSUME r.kind = "older" PROVE Covers(Ids(logs.rows), r.below)'
      BY <1>2, <1>6, <3>1, <3>3 DEF CurrentGood
    <3> QED BY <3>1, <3>2, <3>3 DEF CurrentGood, Top
  <2> QED BY <2>2, <2>3 DEF Current
<1>9. OneOfEach' BY DEF LogsInv, OneOfEach, Current
<1> QED BY <1>7, <1>8, <1>9 DEF LogsInv, StoreMoves

-----------------------------------------------------------------------------
(* The page                                                                *)

LEMMA LogsInitInv == LogsInit => LogsInv
<1> SUFFICES ASSUME LogsInit PROVE LogsInv OBVIOUS
<1>1. MaxLogs \in Nat /\ Top \in Nat BY LogsListAssumption DEF Top
<1>2. PICK n \in 0..MaxLogs : stored \in [1..n -> Kinds] BY DEF LogsInit
<1>3. PICK f \in Filters : logs = [filter |-> f, valid |-> TRUE, live |-> TRUE, rows |-> << >>,
                                   first |-> TRUE, more |-> FALSE, generation |-> 1]
  BY DEF LogsInit
<1>4. reads = {Read("latest", logs, Top)} /\ purged = {} BY DEF LogsInit
<1>5. RowsGood BY <1>3, NoLogs DEF RowsGood, LogFields
<1>6. \A r \in reads : ReadGood(r) /\ CurrentGood(r)
  BY <1>1, <1>3, <1>4 DEF Read, ReadGood, ReadFields, CurrentGood
<1>7. OneOfEach BY <1>4 DEF OneOfEach
<1>8. StoreGood
  <2>1. DOMAIN stored = 1..n /\ \A l \in 1..n : stored[l] \in Kinds BY <1>2
  <2>2. Used = 1..n BY <1>4, <2>1 DEF Used
  <2>3. 1..n \subseteq 1..MaxLogs /\ n \in Nat BY <1>1
  <2>4. \A u \in 1..n, l \in Nat \ {0} : l < u => l \in 1..n BY <2>3
  <2> QED BY <1>4, <2>1, <2>2, <2>3, <2>4 DEF StoreGood
<1> QED BY <1>5, <1>6, <1>7, <1>8 DEF LogsInv

\* What a read owes to the page is owed as long as the load is the same, and the
\* rows keep what it relies on.
LEMMA ReadStays ==
  ASSUME LogsInv, NEW r \in reads,
         UNCHANGED << stored, purged >>, DOMAIN logs' = LogFields,
         logs'.generation = logs.generation, logs'.filter = logs.filter
  PROVE  /\ ReadGood(r)' /\ (Current(r)' <=> Current(r))
         /\ logs'.rows = logs.rows /\ logs'.first = logs.first /\ Current(r) => CurrentGood(r)'
<1>1. ReadGood(r) /\ (Current(r) => CurrentGood(r)) BY DEF LogsInv
<1>2. ReadGood(r)' BY <1>1 DEF ReadGood, PageGood, Kept, Used
<1>3. Current(r)' <=> Current(r) BY DEF Current
<1>4. ASSUME logs'.rows = logs.rows, logs'.first = logs.first, Current(r) PROVE CurrentGood(r)'
  BY <1>1, <1>4 DEF CurrentGood, Meets, Covers, Live, Top
<1> QED BY <1>2, <1>3, <1>4

\* A new load: what is in flight is of no more use to the page.
LEMMA NewLoad ==
  ASSUME LogsInv, UNCHANGED << stored, purged >>, RowsGood', logs'.generation = logs.generation + 1,
         reads' = reads \/ reads' = reads \cup {Read("latest", logs, Top)'}
  PROVE  LogsInv'
<1>n. PICK n : n = Read("latest", logs, Top)' OBVIOUS
<1>0. Top \in Nat BY LogsListAssumption DEF Top
<1>1. logs.generation \in Nat /\ logs'.generation \in Nat BY DEF LogsInv, RowsGood
<1>2. ASSUME NEW r \in reads PROVE ReadGood(r)' /\ ~Current(r)'
  <2>1. ReadGood(r) BY DEF LogsInv
  <2>2. r.generation <= logs.generation /\ r.generation \in Nat BY <2>1 DEF ReadGood
  <2>3. r.generation # logs'.generation /\ r.generation <= logs'.generation BY <1>1, <2>2
  <2>4. ReadGood(r)' BY <2>1, <2>3 DEF ReadGood, PageGood, Kept, Used
  <2> QED BY <2>3, <2>4 DEF Current
<1>3. ReadGood(n)' /\ CurrentGood(n)'
  <2>1. /\ DOMAIN n = ReadFields /\ n.kind = "latest" /\ n.generation = logs'.generation
        /\ n.filter = logs'.filter /\ n.below = Top /\ n.got = << >>
    BY <1>n DEF Read, Top, ReadFields
  <2> QED BY <1>0, <1>1, <2>1 DEF ReadGood, CurrentGood, Top
<1>4. \A r \in reads' : r \in reads \/ r = n BY <1>n
<1>5. \A r \in reads' : ReadGood(r)' /\ (Current(r)' => CurrentGood(r)') BY <1>2, <1>3, <1>4
<1>6. OneOfEach' BY <1>2, <1>4 DEF OneOfEach
<1>7. StoreGood' BY DEF LogsInv, StoreGood, Used
<1> QED BY <1>5, <1>6, <1>7 DEF LogsInv

\* A request that the page makes for the load under way, one of its kind.
LEMMA NewRead ==
  ASSUME LogsInv, UNCHANGED << stored, purged, logs >>, NEW kind \in {"latest", "older"}, NEW below \in Nat,
         ~Reading(kind), reads' = reads \cup {Read(kind, logs, below)},
         CurrentGood(Read(kind, logs, below))
  PROVE  LogsInv'
<1>n. PICK n : n = Read(kind, logs, below) OBVIOUS
<1>1. logs.generation \in Nat /\ DOMAIN logs = LogFields BY DEF LogsInv, RowsGood
<1>2. n.kind = kind /\ n.got = << >> /\ Current(n) BY <1>n DEF Read, Current
<1>3. ReadGood(n) /\ CurrentGood(n) BY <1>n, <1>1 DEF Read, ReadGood, ReadFields
<1>4. \A r \in reads' : r \in reads \/ r = n BY <1>n
<1>5. ReadGood(n)' /\ CurrentGood(n)' /\ (Current(n)' <=> Current(n))
  BY <1>2, <1>3 DEF ReadGood, CurrentGood, Covers, Live, Current, Top
<1>6. \A r \in reads : ReadGood(r)' /\ (Current(r)' <=> Current(r)) /\ (Current(r) => CurrentGood(r)')
  BY <1>1, ReadStays
<1>7. \A r \in reads' : ReadGood(r)' /\ (Current(r)' => CurrentGood(r)') BY <1>4, <1>5, <1>6
<1>8. OneOfEach'
  <2>1. \A r \in reads : Current(r) => r.kind # kind BY DEF Reading
  <2> QED BY <1>2, <1>4, <1>5, <1>6, <2>1 DEF OneOfEach, LogsInv
<1>9. RowsGood' BY DEF LogsInv, RowsGood, InOrder, Kept, Used, Covers, Live
<1>10. StoreGood' BY DEF LogsInv, StoreGood, Used
<1> QED BY <1>7, <1>8, <1>9, <1>10 DEF LogsInv

LEMMA ServeKeeps == ASSUME LogsInv, NEW r \in reads, Serve(r) PROVE LogsInv'
<1>p. PICK p : p = LatestBelow(r.filter, r.below) OBVIOUS
<1>n. PICK n : n = [r EXCEPT !.got = << p >>] OBVIOUS
<1>1. ReadGood(r) /\ (Current(r) => CurrentGood(r)) /\ RowsGood /\ StoreGood BY DEF LogsInv
<1>2. /\ DOMAIN n = ReadFields /\ n.kind = r.kind /\ n.generation = r.generation /\ n.filter = r.filter
      /\ n.below = r.below /\ n.got = << p >> /\ n.got # << >> /\ n.got[1] = p
  BY <1>n, <1>1 DEF ReadGood, ReadFields
<1>3. /\ PageGood(p, r.filter, r.below)
      /\ \A l \in DOMAIN stored : (stored[l] \in r.filter /\ l < r.below) => l \in Ids(p) \/ \A m \in Ids(p) : l < m
  BY <1>p, <1>1, LatestGood DEF ReadGood
<1>4. reads' = (reads \ {r}) \cup {n} /\ UNCHANGED << stored, purged, logs >> BY <1>p, <1>n DEF Serve
<1>5. ReadGood(n) BY <1>1, <1>2, <1>3 DEF ReadGood
<1>6. Current(n) <=> Current(r) BY <1>2 DEF Current
<1>7. ASSUME Current(n) PROVE CurrentGood(n)
  <2>1. CurrentGood(r) BY <1>1, <1>6, <1>7
  <2>2. ASSUME r.kind = "latest" PROVE Meets(p)
    <3>1. r.below = Top /\ r.filter = logs.filter BY <2>1, <2>2 DEF CurrentGood
    <3>2. \A l \in DOMAIN stored : l < Top BY <1>1, LogsListAssumption DEF StoreGood, Top
    <3> QED BY <1>3, <3>1, <3>2 DEF Meets, Covers, Live
  <2> QED BY <1>2, <2>1, <2>2 DEF CurrentGood
<1>8. ReadGood(n)' /\ (Current(n)' <=> Current(n)) /\ (Current(n) => CurrentGood(n)')
  BY <1>4, <1>5, <1>7 DEF ReadGood, PageGood, Kept, Used, CurrentGood, Meets, Covers, Live, Current, Top
<1>9. \A s \in reads : ReadGood(s)' /\ (Current(s)' <=> Current(s)) /\ (Current(s) => CurrentGood(s)')
  BY <1>1, <1>4, ReadStays DEF RowsGood
<1>10. \A s \in reads' : s = n \/ (s \in reads /\ s # r) BY <1>4
<1>11. \A s \in reads' : ReadGood(s)' /\ (Current(s)' => CurrentGood(s)') BY <1>8, <1>9, <1>10
<1>12. OneOfEach'
  <2>1. OneOfEach BY DEF LogsInv
  <2> QED BY <1>2, <1>6, <1>8, <1>9, <1>10, <2>1 DEF OneOfEach
<1>13. RowsGood' BY <1>1, <1>4 DEF RowsGood, InOrder, Kept, Used, Covers, Live
<1>14. StoreGood' BY <1>1, <1>4 DEF StoreGood, Used
<1> QED BY <1>11, <1>12, <1>13, <1>14 DEF LogsInv

\* An answer: one read less, and the rows it leaves are good for the others.
LEMMA Arrival ==
  ASSUME LogsInv, NEW r \in reads, UNCHANGED << stored, purged >>, reads' = reads \ {r}, RowsGood',
         logs'.generation = logs.generation, logs'.filter = logs.filter,
         \A s \in reads \ {r} : Current(s) => CurrentGood(s)'
  PROVE  LogsInv'
<1>1. DOMAIN logs' = LogFields BY DEF RowsGood
<1>2. \A s \in reads : ReadGood(s)' /\ (Current(s)' <=> Current(s)) BY <1>1, ReadStays
<1>3. OneOfEach' BY <1>2 DEF OneOfEach, LogsInv
<1>4. StoreGood' BY DEF LogsInv, StoreGood, Used
<1> QED BY <1>2, <1>3, <1>4 DEF LogsInv

LEMMA CoversLess ==
  ASSUME StoreGood, NEW S, NEW b \in Nat, NEW c \in Nat, b <= c, Covers(S, c)
  PROVE  Covers(S, b)
<1>1. \A n \in Live : n \in Nat BY UsedNumbers DEF Live, Used
<1>2. \A n \in Live : n < b => n < c BY <1>1
<1> QED BY <1>2 DEF Covers

\* Logs, and behind them those of others that they do not have.
Joined(s, others) == s \o Without(others, s)

\* The latest page goes before the rows it does not bring.
LEMMA RefreshGood ==
  ASSUME StoreGood, RowsGood, ~logs.first, NEW p, LogsFall(p), Meets(p),
         NEW c, c = Joined(p, logs.rows)
  PROVE  /\ InOrder(c)
         /\ ToSet(c) \subseteq ToSet(p) \cup ToSet(logs.rows) /\ Ids(c) = Ids(p) \cup Ids(logs.rows)
         /\ c # << >> => Covers(Ids(c), Last(c).id)
<1>r. PICK rows : rows = logs.rows OBVIOUS
<1>0. /\ InOrder(rows) /\ \A x \in ToSet(rows) : Kept(x) /\ x.kind \in logs.filter
      /\ \A n \in Ids(rows) : Covers(Ids(p), n + 1)
      /\ rows # << >> => Covers(Ids(rows), Last(rows).id)
      /\ c = p \o Without(rows, p)
  BY <1>r DEF RowsGood, Meets, Joined
<1> USE <1>0
<1> DEFINE w == Without(rows, p)
<1>1. rows \in Seq(LogType) /\ p \in Seq(LogType) BY DEF InOrder, LogsFall
<1>2. /\ w \in Seq(LogType) /\ InOrder(w)
      /\ ToSet(w) = {x \in ToSet(rows) : x.id \notin Ids(p)}
      /\ rows # << >> /\ Last(rows).id \notin Ids(p) => w # << >> /\ Last(w) = Last(rows)
  BY <1>1, WithoutKeeps, WithoutInOrder
<1> HIDE DEF w
<1>3. ASSUME NEW x \in ToSet(p), NEW y \in ToSet(w) PROVE x.id # y.id /\ (x.id > y.id \/ y.id \in purged)
  <2>1. y \in ToSet(rows) /\ y.id \notin Ids(p) BY <1>2
  <2>2. x.id \in Ids(p) /\ x.id \in Nat /\ y.id \in Ids(rows) /\ y.id \in Nat BY <1>1, <2>1, LogSeq
  <2>3. ASSUME y.id \notin purged PROVE x.id > y.id
    <3>1. y.id \in Live BY <2>1, <2>3 DEF Live, Kept, Used
    <3>2. y.id < y.id + 1 BY <2>2
    <3>3. y.id < x.id BY <2>1, <2>2, <3>1, <3>2 DEF Covers
    <3> QED BY <2>2, <3>3
  <2> QED BY <2>1, <2>2, <2>3
<1>4. /\ InOrder(c) /\ ToSet(c) = ToSet(p) \cup ToSet(w) /\ Ids(c) = Ids(p) \cup Ids(w)
      /\ w # << >> => Last(c) = Last(w)
      /\ w = << >> => c = p
  <2>1. InOrder(p) BY PageInOrder
  <2> QED BY <1>2, <1>3, <2>1, JoinInOrder DEF w
<1>5. Ids(c) = Ids(p) \cup Ids(rows)
  <2>1. Ids(w) \subseteq Ids(rows) BY <1>2 DEF Ids
  <2>2. ASSUME NEW n \in Ids(rows), n \notin Ids(p) PROVE n \in Ids(w) BY <1>2, <2>2 DEF Ids
  <2> QED BY <1>4, <2>1, <2>2
<1>6. ASSUME c # << >> PROVE Covers(Ids(c), Last(c).id)
  <2>1. \A n \in Live : n \in Nat BY UsedNumbers DEF Live, Used
  <2>2. Ids(p) \subseteq Nat /\ Ids(rows) \subseteq Nat BY <1>1, LogSeq
  <2>3. CASE w = << >>
    <3>1. c = p /\ Ids(c) = Ids(p) BY <1>4, <2>3
    <3>2. \A n \in Ids(p) : Last(p).id <= n BY <1>6, <3>1, PageInOrder
    <3>3. Last(p).id \in Nat BY <1>1, <1>6, <2>2, <3>1, LastLog
    <3>4. ASSUME NEW n \in Live, n < Last(c).id, NEW m \in Ids(c) PROVE n < m
      BY <2>1, <2>2, <3>1, <3>2, <3>3, <3>4
    <3> QED BY <3>4 DEF Covers
  <2>4. CASE w # << >>
    <3>1. Last(c) = Last(w) /\ Last(w) \in ToSet(w) BY <1>2, <1>4, <2>4, LastLog
    <3>2. Last(c).id \in Ids(rows) /\ Last(c).id \in Nat /\ rows # << >> BY <1>1, <1>2, <3>1, LogSeq, NoLogs
    <3>3. Covers(Ids(p), Last(c).id)
      <4>1. PICK b \in Nat : b = Last(c).id BY <3>2
      <4>2. Covers(Ids(p), b + 1) /\ b + 1 \in Nat /\ b <= b + 1 BY <3>2, <4>1
      <4> QED BY <4>1, <4>2, CoversLess
    <3>4. Last(rows).id \in Ids(rows) /\ Last(rows).id \in Nat BY <1>1, <2>2, <3>2, LastLog
    <3>5. ASSUME NEW n \in Live, n < Last(c).id, n \notin Ids(p), n \notin Ids(rows)
          PROVE  \A m \in Ids(p) \cup Ids(rows) : n < m
      <4>1. \A m \in Ids(p) : n < m BY <3>3, <3>5 DEF Covers
      <4>2. n < Last(rows).id BY <1>2, <3>1, <3>2, <3>5, <4>1
      <4>3. \A m \in Ids(rows) : n < m BY <3>2, <3>5, <4>2 DEF Covers
      <4> QED BY <4>1, <4>3
    <3> QED BY <1>5, <3>5 DEF Covers
  <2> QED BY <2>3, <2>4
<1> QED BY <1>2, <1>4, <1>5, <1>6, <1>r

\* An older page goes behind the rows.
LEMMA OlderGood ==
  ASSUME StoreGood, RowsGood, ~logs.first, NEW p, NEW below \in Ids(logs.rows),
         PageGood(p, logs.filter, below), Covers(Ids(logs.rows), below),
         NEW c, c = Joined(logs.rows, p)
  PROVE  /\ InOrder(c) /\ ToSet(c) \subseteq ToSet(logs.rows) \cup ToSet(p) /\ Ids(logs.rows) \subseteq Ids(c)
         /\ \A n \in Ids(c) : n \in Ids(logs.rows) \/ n < below
         /\ Covers(Ids(c), Last(c).id)
<1>r. PICK rows : rows = logs.rows OBVIOUS
<1>0. /\ InOrder(rows) /\ LogsFall(p) /\ below \in Ids(rows) /\ Covers(Ids(rows), below)
      /\ \A x \in ToSet(p) : Kept(x) /\ x.kind \in logs.filter /\ x.id < below
      /\ Covers(Ids(rows), Last(rows).id)
      /\ c = rows \o Without(p, rows)
  BY <1>r, NoLogs DEF RowsGood, PageGood, Joined
<1> USE <1>0
<1> DEFINE w == Without(p, rows)
<1>1. rows \in Seq(LogType) /\ p \in Seq(LogType) BY DEF InOrder, LogsFall
<1>2. w \in Seq(LogType) /\ LogsFall(w) /\ ToSet(w) = {x \in ToSet(p) : x.id \notin Ids(rows)}
  BY <1>1, WithoutKeeps, WithoutInOrder
<1> HIDE DEF w
<1>3. ASSUME NEW x \in ToSet(rows), NEW y \in ToSet(w) PROVE x.id # y.id /\ (x.id > y.id \/ y.id \in purged)
  <2>1. y \in ToSet(p) /\ y.id \notin Ids(rows) BY <1>2
  <2>2. x.id \in Ids(rows) /\ x.id \in Nat /\ y.id \in Nat BY <1>1, <2>1, LogSeq
  <2>3. ASSUME y.id \notin purged PROVE x.id > y.id
    <3>1. y.id \in Live /\ y.id < below BY <2>1, <2>3 DEF Live, Kept, Used
    <3>2. y.id < x.id BY <2>1, <2>2, <3>1 DEF Covers
    <3> QED BY <2>2, <3>2
  <2> QED BY <2>1, <2>2, <2>3
<1>4. /\ InOrder(c) /\ ToSet(c) = ToSet(rows) \cup ToSet(w) /\ Ids(c) = Ids(rows) \cup Ids(w)
      /\ w # << >> => Last(c) = Last(w)
      /\ w = << >> => c = rows
  <2>1. InOrder(w) BY <1>2, PageInOrder
  <2> QED BY <1>3, <2>1, JoinInOrder DEF w
<1>5. \A n \in Ids(w) : n < below /\ n \in Nat
  <2>1. \A n \in Ids(w) : \E x \in ToSet(w) : x.id = n BY DEF Ids
  <2> QED BY <1>1, <1>2, <2>1, LogSeq
<1>6. below \in Nat /\ Ids(rows) \subseteq Nat BY <1>1, LogSeq
<1>7. \A n \in Live : n \in Nat BY UsedNumbers DEF Live, Used
<1>8. Covers(Ids(c), Last(c).id)
  <2>1. CASE w = << >>
    <3>1. Ids(c) = Ids(rows) /\ c = rows BY <1>4, <2>1
    <3> QED BY <3>1
  <2>2. CASE w # << >>
    <3>1. Last(c) = Last(w) /\ Last(w).id \in Ids(w) /\ \A n \in Ids(w) : Last(w).id <= n
      BY <1>2, <1>4, <2>2, LastLog, PageInOrder
    <3>2. Last(c).id < below /\ Last(c).id \in Nat BY <1>5, <3>1
    <3>3. ASSUME NEW n \in Live, n < Last(c).id, n \notin Ids(rows) PROVE \A m \in Ids(c) : n < m
      <4>1. n < below BY <1>6, <1>7, <3>2, <3>3
      <4>2. \A m \in Ids(rows) : n < m BY <3>3, <4>1 DEF Covers
      <4>3. \A m \in Ids(w) : n < m BY <1>5, <1>7, <3>1, <3>2, <3>3
      <4> QED BY <1>4, <4>2, <4>3
    <3> QED BY <1>4, <3>3 DEF Covers
  <2> QED BY <2>1, <2>2
<1> QED BY <1>2, <1>4, <1>5, <1>8, <1>r

LEMMA LoadedKeeps == ASSUME LogsInv, NEW r \in reads, Loaded(r) PROVE LogsInv'
<1>p. PICK p : p = r.got[1] OBVIOUS
<1>1. ReadGood(r) /\ (Current(r) => CurrentGood(r)) /\ RowsGood /\ StoreGood /\ r.got # << >>
  BY DEF LogsInv, Loaded
<1>2. PageGood(p, r.filter, r.below) BY <1>p, <1>1 DEF ReadGood
<1>3. reads' = reads \ {r} /\ UNCHANGED << stored, purged >> BY DEF Loaded
<1>4. DOMAIN logs = LogFields /\ InOrder(logs.rows) /\ logs.rows \in Seq(LogType) BY <1>1 DEF RowsGood, InOrder
<1>5. ASSUME NEW s \in reads \ {r}, Current(r), Current(s)
      PROVE  CurrentGood(s) /\ s.kind # r.kind /\ s.kind \in {"latest", "older"}
  BY <1>5 DEF LogsInv, OneOfEach, ReadGood
<1>6. CASE ~Current(r)
  <2>1. UNCHANGED logs BY <1>6 DEF Loaded
  <2>2. RowsGood' BY <1>1, <1>3, <2>1 DEF RowsGood, InOrder, Kept, Used, Covers, Live
  <2>3. \A s \in reads \ {r} : Current(s) => CurrentGood(s)' BY <1>3, <1>4, <2>1, ReadStays
  <2> QED BY <1>3, <2>1, <2>2, <2>3, Arrival
<1>7. CASE Current(r) /\ r.kind = "latest"
  <2>c. PICK c : c = Joined(p, logs.rows) OBVIOUS
  <2>1. logs' = Refreshed(p) BY <1>7, <1>p DEF Loaded
  <2>2. /\ DOMAIN logs' = LogFields /\ logs'.filter = logs.filter /\ logs'.generation = logs.generation
        /\ ~logs'.first /\ logs'.first \in BOOLEAN
        /\ logs'.rows = IF logs.first THEN p ELSE c
    BY <1>4, <2>1, <2>c DEF Refreshed, Joined, LogFields
  <2>3. r.filter = logs.filter /\ CurrentGood(r) BY <1>1, <1>7 DEF CurrentGood
  <2>4. LogsFall(p) /\ \A x \in ToSet(p) : Kept(x) /\ x.kind \in logs.filter BY <1>2, <2>3 DEF PageGood
  <2>5. CASE logs.first
    <3>1. logs'.rows = p BY <2>2, <2>5
    <3>2. InOrder(p) /\ p \in Seq(LogType) BY <2>4, PageInOrder
    <3>3. ASSUME p # << >> PROVE Covers(Ids(p), Last(p).id)
      <4>1. \A m \in Ids(p) : Last(p).id <= m /\ m \in Nat BY <2>4, <3>2, <3>3, LogSeq, PageInOrder
      <4>2. Last(p).id \in Nat BY <3>2, <3>3, <4>1, LastLog
      <4>3. \A n \in Live : n \in Nat BY <1>1, UsedNumbers DEF Live, Used
      <4> QED BY <4>1, <4>2, <4>3 DEF Covers
    <3>4. RowsGood' BY <1>1, <1>3, <2>2, <2>4, <3>1, <3>2, <3>3 DEF RowsGood, InOrder, Kept, Used, Covers, Live
    <3>5. \A s \in reads \ {r} : ~Current(s) BY <1>5, <1>7, <2>5 DEF CurrentGood
    <3> QED BY <1>3, <2>2, <3>4, <3>5, Arrival
  <2>6. CASE ~logs.first
    <3>1. logs'.rows = c BY <2>2, <2>6
    <3>2. Meets(p) BY <1>1, <1>7, <1>p, <2>3, <2>6 DEF CurrentGood
    <3>3. \A x \in ToSet(logs.rows) : Kept(x) /\ x.kind \in logs.filter BY <1>1, <2>6 DEF RowsGood
    <3>4. /\ InOrder(c) /\ ToSet(c) \subseteq ToSet(p) \cup ToSet(logs.rows) /\ Ids(c) = Ids(p) \cup Ids(logs.rows)
          /\ c # << >> => Covers(Ids(c), Last(c).id)
      BY <1>1, <2>4, <2>6, <2>c, <3>2, RefreshGood
    <3>5. RowsGood'
      <4>1. \A x \in ToSet(c) : Kept(x) /\ x.kind \in logs.filter BY <2>4, <3>3, <3>4
      <4> QED BY <1>1, <1>3, <2>2, <3>1, <3>4, <4>1 DEF RowsGood, InOrder, Kept, Used, Covers, Live
    <3>6. ASSUME NEW s \in reads \ {r}, Current(s) PROVE CurrentGood(s)'
      <4>1. CurrentGood(s) /\ s.kind = "older" BY <1>5, <1>7, <3>6
      <4>2. s.below \in Ids(logs.rows) /\ s.below \in Nat /\ Covers(Ids(logs.rows), s.below)
        BY <1>4, <4>1, LogSeq DEF CurrentGood
      <4>3. Covers(Ids(p), s.below) BY <1>1, <3>2, <4>2, CoversLess DEF Meets
      <4>4. Covers(Ids(c), s.below) /\ s.below \in Ids(c) BY <3>4, <4>2, <4>3 DEF Covers
      <4> QED BY <1>3, <2>2, <3>1, <4>1, <4>4 DEF CurrentGood, Covers, Live
    <3> QED BY <1>3, <2>2, <3>5, <3>6, Arrival
  <2> QED BY <2>5, <2>6
<1>8. CASE Current(r) /\ r.kind # "latest"
  <2>c. PICK c : c = Joined(logs.rows, p) OBVIOUS
  <2>1. logs' = Appended(p) BY <1>8, <1>p DEF Loaded
  <2>2. /\ DOMAIN logs' = LogFields /\ logs'.filter = logs.filter /\ logs'.generation = logs.generation
        /\ logs'.first = logs.first /\ logs'.rows = c
    BY <1>4, <2>1, <2>c DEF Appended, Joined, LogFields
  <2>3. r.kind = "older" /\ CurrentGood(r) BY <1>1, <1>8 DEF ReadGood
  <2>4. /\ ~logs.first /\ r.below \in Ids(logs.rows) /\ Covers(Ids(logs.rows), r.below)
        /\ r.filter = logs.filter
    BY <2>3 DEF CurrentGood
  <2>5. LogsFall(p) /\ \A x \in ToSet(p) : Kept(x) /\ x.kind \in logs.filter /\ x.id < r.below
    BY <1>2, <2>4 DEF PageGood
  <2>6. /\ \A x \in ToSet(logs.rows) : Kept(x) /\ x.kind \in logs.filter
        /\ Covers(Ids(logs.rows), Last(logs.rows).id)
    BY <1>1, <2>4, NoLogs DEF RowsGood
  <2>7. /\ InOrder(c) /\ ToSet(c) \subseteq ToSet(logs.rows) \cup ToSet(p) /\ Ids(logs.rows) \subseteq Ids(c)
        /\ \A n \in Ids(c) : n \in Ids(logs.rows) \/ n < r.below
        /\ Covers(Ids(c), Last(c).id) /\ c \in Seq(LogType)
    <3>1. PageGood(p, logs.filter, r.below) BY <1>2, <2>4
    <3>2. InOrder(c) => c \in Seq(LogType) BY DEF InOrder
    <3> QED BY <1>1, <2>4, <2>c, <3>1, <3>2, OlderGood
  <2>8. RowsGood'
    <3>1. \A x \in ToSet(c) : Kept(x) /\ x.kind \in logs.filter BY <2>5, <2>6, <2>7
    <3> QED BY <1>1, <1>3, <2>2, <2>4, <2>7, <3>1 DEF RowsGood, InOrder, Kept, Used, Covers, Live
  <2>9. ASSUME NEW s \in reads \ {r}, Current(s) PROVE CurrentGood(s)'
    <3>1. CurrentGood(s) /\ s.kind = "latest" BY <1>5, <1>8, <2>3, <2>9
    <3>2. ASSUME s.got # << >>, NEW n \in Ids(c) PROVE Covers(Ids(s.got[1]), n + 1)
      <4>1. \A m \in Ids(logs.rows) : Covers(Ids(s.got[1]), m + 1) BY <2>4, <3>1, <3>2 DEF CurrentGood, Meets
      <4>2. CASE n \in Ids(logs.rows) BY <4>1, <4>2
      <4>3. CASE n < r.below
        <5>1. Covers(Ids(s.got[1]), r.below + 1) BY <2>4, <4>1
        <5>2. n \in Nat /\ r.below \in Nat BY <1>4, <2>4, <2>7, LogSeq
        <5>3. n + 1 \in Nat /\ r.below + 1 \in Nat /\ n + 1 <= r.below + 1 BY <4>3, <5>2
        <5> QED BY <1>1, <5>1, <5>3, CoversLess
      <4> QED BY <2>7, <4>2, <4>3
    <3>3. s.got # << >> => Meets(s.got[1])' BY <1>3, <2>2, <3>2 DEF Meets, Covers, Live
    <3> QED BY <2>2, <3>1, <3>3 DEF CurrentGood, Top
  <2> QED BY <1>3, <2>2, <2>8, <2>9, Arrival
<1> QED BY <1>6, <1>7, <1>8

LEMMA LogsInvNext == LogsInv /\ (LogsNext \/ UNCHANGED logVars) => LogsInv'
<1> SUFFICES ASSUME LogsInv, LogsNext \/ UNCHANGED logVars PROVE LogsInv' OBVIOUS
<1>0. RowsGood /\ StoreGood /\ Top \in Nat BY LogsListAssumption DEF LogsInv, Top
<1>r. logs.rows \in Seq(LogType) BY <1>0 DEF RowsGood, InOrder
<1>1. ASSUME NEW f, NEW live, Restart(f, live) PROVE LogsInv'
  <2>1. /\ DOMAIN logs' = LogFields /\ logs'.rows = logs.rows /\ logs'.generation = logs.generation + 1
        /\ logs'.first /\ logs'.first \in BOOLEAN /\ ~logs'.more /\ UNCHANGED << stored, purged >>
    BY <1>0, <1>1 DEF Restart, RowsGood, LogFields
  <2>2. reads' = reads \cup {Read("latest", logs, Top)'} BY <1>1 DEF Restart, Read, Top
  <2>3. RowsGood' BY <1>0, <2>1 DEF RowsGood, InOrder, Kept, Used
  <2> QED BY <2>1, <2>2, <2>3, NewLoad
<1>2. CASE InvalidRange
  <2>1. /\ DOMAIN logs' = LogFields /\ logs'.rows = << >> /\ logs'.generation = logs.generation + 1
        /\ logs'.first = logs.first /\ ~logs'.more /\ UNCHANGED << stored, purged, reads >>
    BY <1>0, <1>2 DEF InvalidRange, RowsGood, LogFields
  <2>2. RowsGood' BY <1>0, <2>1, NoLogs DEF RowsGood, InOrder
  <2> QED BY <2>1, <2>2, NewLoad
<1>3. CASE Refresh
  <2>1. CurrentGood(Read("latest", logs, Top)) BY DEF CurrentGood, Read
  <2> QED BY <1>0, <1>3, <2>1, NewRead DEF Refresh, Fetching
<1>4. CASE LoadOlder
  <2>1. ~logs.first /\ logs.rows # << >> BY <1>0, <1>4 DEF LoadOlder, RowsGood
  <2>2. Last(logs.rows).id \in Ids(logs.rows) /\ Last(logs.rows).id \in Nat BY <1>r, <2>1, LastLog, LogSeq
  <2>3. Covers(Ids(logs.rows), Last(logs.rows).id) BY <1>0, <2>1 DEF RowsGood
  <2>4. CurrentGood(Read("older", logs, Last(logs.rows).id)) BY <2>1, <2>2, <2>3 DEF CurrentGood, Read
  <2> QED BY <1>4, <2>2, <2>4, NewRead DEF LoadOlder
<1>5. ASSUME NEW r \in reads, Serve(r) PROVE LogsInv' BY <1>5, ServeKeeps
<1>6. ASSUME NEW r \in reads, Loaded(r) PROVE LogsInv' BY <1>6, LoadedKeeps
<1>7. ASSUME NEW r \in reads, LoadFailed(r) PROVE LogsInv'
  <2>1. /\ DOMAIN logs' = LogFields /\ logs'.rows = logs.rows /\ logs'.generation = logs.generation
        /\ logs'.first = logs.first /\ (logs'.more => logs.more) /\ logs'.filter = logs.filter
        /\ UNCHANGED << stored, purged >> /\ reads' = reads \ {r}
    BY <1>0, <1>7 DEF LoadFailed, RowsGood, LogFields
  <2>2. RowsGood' BY <1>0, <2>1 DEF RowsGood, InOrder, Kept, Used, Covers, Live
  <2>3. \A s \in reads \ {r} : Current(s) => CurrentGood(s)' BY <2>1, ReadStays
  <2> QED BY <2>1, <2>2, <2>3, Arrival
<1>8. CASE Store
  <2>1. StoreMoves BY <1>0, <1>8, StoringMoves
  <2> QED BY <1>8, <2>1, MovesKeep DEF Store
<1>9. CASE Delete
  <2>1. StoreMoves BY <1>0, <1>9, DeletingMoves
  <2> QED BY <1>9, <2>1, MovesKeep DEF Delete
<1>10. CASE UNCHANGED logVars
  <2>1. UNCHANGED << stored, purged, logs, reads >> BY <1>10 DEF logVars
  <2>2. StoreMoves
    <3>1. StoreGood' /\ Used' = Used BY <1>0, <2>1 DEF StoreGood, Used
    <3> QED BY <2>1, <3>1 DEF StoreMoves, Used
  <2> QED BY <2>1, <2>2, MovesKeep
<1> QED BY <1>1, <1>2, <1>3, <1>4, <1>5, <1>6, <1>7, <1>8, <1>9, <1>10 DEF LogsNext

LEMMA LogsInvIsOneStream == LogsInv => OneStream
<1> SUFFICES ASSUME LogsInv PROVE OneStream OBVIOUS
<1>1. RowsGood /\ InOrder(logs.rows) BY DEF LogsInv, RowsGood
<1>2. ~logs.first => \A i \in DOMAIN logs.rows : logs.rows[i].kind \in logs.filter
  BY <1>1 DEF RowsGood, ToSet
<1> QED BY <1>1, <1>2 DEF OneStream, InOrder
-----------------------------------------------------------------------------
(* The dashboard                                                           *)

PagesInv == SessionsInv /\ LogsInv /\ ExportInv /\ Watched

LEMMA PagesInvAlways == Spec => []PagesInv
<1>1. Init => PagesInv
  BY SessionsInitInv, LogsInitInv, ExportInitInv, WatchedInit DEF Init, PagesInv
<1>2. PagesInv /\ [Next]_vars => PagesInv'
  <2> SUFFICES ASSUME PagesInv, [Next]_vars PROVE PagesInv' OBVIOUS
  <2>1. SessionsNext \/ UNCHANGED sessionVars BY DEF Next, vars
  <2>2. LogsNext \/ UNCHANGED logVars BY DEF Next, vars
  <2>3. ExportNext \/ UNCHANGED exportVars BY DEF Next, vars
  <2>4. SetupNext \/ UNCHANGED setupVars BY DEF Next, vars
  <2> QED BY <2>1, <2>2, <2>3, <2>4, SessionsInvNext, LogsInvNext, ExportInvNext, WatchedNext DEF PagesInv
<1> QED BY <1>1, <1>2, PTL DEF Spec

\* The list of recordings has no gap and no recording that was deleted, for every
\* set of recordings and filters, every size of the pages and of the cache
\* (useSessions.ts: the revalidation, loadMore and forgetCachedSession).
THEOREM RecordingsAreWhole == Spec => []ListIsWhole
BY PagesInvAlways, SessionsInvIsWhole, PTL DEF PagesInv

\* The stream of logs has no number twice, is of its filter, and in order but for
\* rows whose log was deleted, in whichever order logs come and go anywhere in it
\* and refreshes, older pages and changes of the filter are answered, for every
\* number of logs and deletions and every page size (useLogs.ts: the generation
\* of a load and the merge of its pages).
THEOREM LogsAreOneStream == Spec => []OneStream
BY PagesInvAlways, LogsInvIsOneStream, PTL DEF PagesInv

\* A canceled export leaves no job behind, whichever of its requests is out, and a
\* left page no window (useSessionExport.ts: cancelOperation and prepare;
\* Onboarding.tsx: verify, poll and the page's cleanup).
THEOREM NothingIsLeft == Spec => []NothingLeftRunning
<1>1. PagesInv => NothingLeftRunning BY DEF PagesInv, ExportInv, Watched, NothingLeftRunning
<1> QED BY <1>1, PagesInvAlways, PTL
=============================================================================
