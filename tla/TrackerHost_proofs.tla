-------------------------- MODULE TrackerHost_proofs --------------------------
(***************************************************************************)
(* Proofs about TrackerHost, for every page, number of providers and       *)
(* bound: one tracker owns the page, a campaign is not repeated before its *)
(* time, and the server takes the outcome of what it knows was shown,      *)
(* whatever is lost and sent again.                                        *)
(***************************************************************************)
EXTENDS TrackerHost, FiniteSetTheorems, TLAPS

\* A sequence, of whatever it is.
IsSeq(s) == \E S : s \in Seq(S)

LEMMA SeqUpdate ==
  ASSUME NEW s, IsSeq(s), NEW i \in DOMAIN s, NEW e
  PROVE  /\ IsSeq([s EXCEPT ![i] = e])
         /\ Len([s EXCEPT ![i] = e]) = Len(s)
         /\ DOMAIN [s EXCEPT ![i] = e] = DOMAIN s
         /\ \A j \in DOMAIN s : [s EXCEPT ![i] = e][j] = IF j = i THEN e ELSE s[j]
<1>1. PICK S : s \in Seq(S) BY DEF IsSeq
<1>2. s \in Seq(S \cup {e}) BY <1>1
<1>3. [s EXCEPT ![i] = e] \in Seq(S \cup {e}) BY <1>2
<1> QED BY <1>1, <1>3 DEF IsSeq

LEMMA SeqAppend ==
  ASSUME NEW s, IsSeq(s), NEW e
  PROVE  /\ IsSeq(Append(s, e))
         /\ Len(s) \in Nat
         /\ DOMAIN s = 1..Len(s)
         /\ Len(Append(s, e)) = Len(s) + 1
         /\ DOMAIN Append(s, e) = 1..(Len(s) + 1)
         /\ \A j \in DOMAIN Append(s, e) : Append(s, e)[j] = IF j = Len(s) + 1 THEN e ELSE s[j]
<1>1. PICK S : s \in Seq(S) BY DEF IsSeq
<1>2. s \in Seq(S \cup {e}) BY <1>1
<1>3. Append(s, e) \in Seq(S \cup {e}) BY <1>2
<1> QED BY <1>1, <1>2, <1>3 DEF IsSeq

-----------------------------------------------------------------------------
(* Who owns the page                                                       *)

HandleFields == {"phase", "attempt", "listening", "pending", "claim", "expands", "r"}

\* A handle whose tracker runs has no request for the configuration out.
HandleOk(h) ==
  /\ DOMAIN h = HandleFields
  /\ h.phase \in {"starting", "active", "stopped", "failed"}
  /\ h.phase = "active" => h.attempt = 0

\* A handle that has the page, or may still listen on it once its
\* configuration is there although it was stopped.
Busy(h) == h.listening \/ h.phase \in {"starting", "active"} \/ h.attempt # 0

\* Whoever is busy is the owner.
Owned ==
  /\ owner = None \/ owner \in DOMAIN hs
  /\ IsSeq(hs)
  /\ \A i \in DOMAIN hs : HandleOk(hs[i]) /\ (Busy(hs[i]) => owner = i)

\* Steps of a handle that make nobody busy who was not.
Keeps(h, g) == HandleOk(g) /\ (Busy(g) => Busy(h))

LEMMA OwnedInit == Init => Owned
<1>1. << >> \in Seq({}) OBVIOUS
<1> QED BY <1>1 DEF Init, Owned, IsSeq

LEMMA OneIsOwner == Owned => ExclusiveOwner
<1> SUFFICES ASSUME Owned PROVE ExclusiveOwner OBVIOUS
<1> DEFINE B == {i \in DOMAIN hs : hs[i].listening \/ hs[i].phase \in {"starting", "active"}}
<1>1. B \subseteq {owner} BY DEF Owned, Busy
<1>2. IsFiniteSet({owner}) /\ Cardinality({owner}) = 1 BY FS_Singleton
<1>3. Cardinality(B) <= 1 BY <1>1, <1>2, FS_Subset
<1> QED BY <1>3 DEF ExclusiveOwner

LEMMA StepOwned ==
  ASSUME Owned, NEW i \in DOMAIN hs, NEW g, Keeps(hs[i], g),
         hs' = [hs EXCEPT ![i] = g], UNCHANGED owner
  PROVE  Owned'
<1>1. /\ IsSeq(hs') /\ DOMAIN hs' = DOMAIN hs
      /\ \A j \in DOMAIN hs : hs'[j] = IF j = i THEN g ELSE hs[j]
  BY SeqUpdate DEF Owned
<1> QED BY <1>1 DEF Owned, Keeps

LEMMA InitCalledOwned ==
  ASSUME Owned, InitCalled
  PROVE  Owned' /\ InitReturns \in DOMAIN hs'
<1>1. CASE owner # None
  BY <1>1 DEF InitCalled, InitReturns, Owned
<1>2. CASE owner = None
  <2> DEFINE n == Len(hs) + 1
  <2>1. owner' = n /\ hs' = Append(hs, NewHandle) BY <1>2 DEF InitCalled, InitReturns
  <2>2. /\ IsSeq(hs') /\ DOMAIN hs = 1..Len(hs) /\ Len(hs) \in Nat /\ DOMAIN hs' = 1..n
        /\ \A j \in DOMAIN hs' : hs'[j] = IF j = n THEN NewHandle ELSE hs[j]
    BY <2>1, SeqAppend DEF Owned
  <2>3. HandleOk(NewHandle)
    BY DEF NewHandle, QueuedHandle, Fail, HandleOk, HandleFields
  <2>4. \A i \in DOMAIN hs : ~Busy(hs[i])
    <3>1. None \notin DOMAIN hs BY <2>2 DEF None
    <3> QED BY <1>2, <3>1 DEF Owned
  <2>5. n \in DOMAIN hs' BY <2>2
  <2>6. \A i \in DOMAIN hs' : HandleOk(hs'[i]) /\ (Busy(hs'[i]) => i = n)
    BY <2>2, <2>3, <2>4 DEF Owned
  <2> QED BY <1>2, <2>1, <2>2, <2>5, <2>6 DEF Owned, InitReturns
<1> QED BY <1>1, <1>2

LEMMA StopOwned ==
  ASSUME Owned, NEW i, StopHandle(i)
  PROVE  Owned'
<1>1. CASE i \notin DOMAIN hs
  <2>1. owner' = owner
    BY <1>1 DEF StopHandle, Released, Owned
  <2>2. hs' = hs
    <3>1. PICK S : hs \in Seq(S) BY DEF Owned, IsSeq
    <3> QED BY <1>1, <3>1 DEF StopHandle
  <2> QED BY <2>1, <2>2 DEF Owned
<1>2. CASE i \in DOMAIN hs /\ hs[i].phase = "active"
  <2> DEFINE g == Stop(hs[i])
  <2>1. HandleOk(g) /\ ~Busy(g)
    BY <1>2 DEF Stop, HandleOk, HandleFields, Busy, Owned
  <2>2. /\ IsSeq(hs') /\ DOMAIN hs' = DOMAIN hs
        /\ \A j \in DOMAIN hs : hs'[j] = IF j = i THEN g ELSE hs[j]
    BY <1>2, SeqUpdate DEF Owned, StopHandle
  <2>3. owner = i /\ owner' = None
    BY <1>2 DEF Owned, Busy, StopHandle, Released
  <2> HIDE DEF g
  <2>4. \A j \in DOMAIN hs' : HandleOk(hs'[j]) /\ ~Busy(hs'[j])
    BY <2>1, <2>2, <2>3 DEF Owned
  <2> QED BY <2>2, <2>3, <2>4 DEF Owned
<1>3. CASE i \in DOMAIN hs /\ hs[i].phase # "active"
  <2>1. Keeps(hs[i], Stop(hs[i]))
    BY <1>3 DEF Keeps, Stop, Fail, HandleOk, HandleFields, Busy, Owned
  <2>2. UNCHANGED owner BY <1>3 DEF StopHandle, Released
  <2> QED BY <1>3, <2>1, <2>2, StepOwned DEF StopHandle
<1> QED BY <1>1, <1>2, <1>3

LEMMA StartKeeps ==
  ASSUME NEW h, HandleOk(h), h.attempt # 0, NEW site
  PROVE  Keeps(h, Start([h EXCEPT !.attempt = 0], site))
<1> DEFINE b == [h EXCEPT !.attempt = 0]
           l == [b EXCEPT !.listening = TRUE, !.r = Runtime(site)]
<1>1. DOMAIN b = HandleFields /\ b.attempt = 0 /\ b.phase = h.phase BY DEF HandleOk, HandleFields
<1> HIDE DEF b
<1>2. DOMAIN l = HandleFields /\ l.attempt = 0 /\ l.phase = h.phase BY <1>1 DEF HandleFields
<1> HIDE DEF l
<1>3. HandleOk(Fail(b)) BY <1>1 DEF Fail, HandleOk, HandleFields
<1>4. HandleOk(l) BY <1>2 DEF HandleOk
<1>5. HandleOk(Activate(l)) BY <1>2 DEF Activate, HandleOk, HandleFields
<1>6. HandleOk(Start(b, site)) BY <1>3, <1>4, <1>5 DEF Start, l
<1>7. Busy(h) BY DEF Busy
<1> QED BY <1>6, <1>7 DEF Keeps, b

LEMMA RunningKeeps ==
  ASSUME NEW h, HandleOk(h), NEW r
  PROVE  Keeps(h, [h EXCEPT !.r = r])
BY DEF Keeps, HandleOk, HandleFields, Busy

LEMMA TrackerOwned ==
  ASSUME Owned, NEW i \in DOMAIN hs, Tracker(i)
  PROVE  Owned'
<1> DEFINE h == hs[i]
<1>0. HandleOk(h) BY DEF Owned
<1>1. ASSUME StopCalled(i) PROVE Owned'
  BY <1>1, StopOwned DEF StopCalled
<1>2. ASSUME Configured(i) PROVE Owned'
  BY <1>0, <1>2, StartKeeps, StepOwned DEF Configured, Step, ConfigArrived
<1>3. ASSUME AttemptFails(i) PROVE Owned'
  <2>1. Keeps(h, [h EXCEPT !.attempt = @ + 1])
    BY <1>0, <1>3 DEF Keeps, HandleOk, HandleFields, Busy, AttemptFails
  <2>2. Keeps(h, ConfigFailed(h))
    BY <1>0, <1>3, <2>1, StartKeeps DEF ConfigFailed, AttemptFails
  <2> QED BY <1>3, <2>2, StepOwned DEF AttemptFails, Step
<1>4. ASSUME Calls(i) PROVE Owned'
  <2>1. PICK call \in {"identify", "track"} : Step(i, Call(h, call)) BY <1>4 DEF Calls
  <2>2. Keeps(h, Call(h, call))
    <3>1. Keeps(h, h) BY <1>0 DEF Keeps
    <3>2. Keeps(h, [h EXCEPT !.pending = Append(@, call)])
      BY <1>0 DEF Keeps, HandleOk, HandleFields, Busy
    <3>3. Keeps(h, [h EXCEPT !.r = Perform(@, call)]) BY <1>0, RunningKeeps
    <3> QED BY <1>0, <3>1, <3>2, <3>3 DEF Call, HandleOk
  <2> QED BY <2>1, <2>2, StepOwned DEF Step
<1>5. ASSUME Click(i) PROVE Owned'
  BY <1>0, <1>5, RunningKeeps, StepOwned DEF Click, Step, TrackedClick
<1>6. ASSUME Navigate(i) PROVE Owned'
  BY <1>0, <1>6, RunningKeeps, StepOwned DEF Navigate, Step, RouteChanged
<1>7. ASSUME Claim(i) PROVE Owned'
  <2>1. Keeps(h, ClaimReplay(h))
    BY <1>0 DEF Keeps, HandleOk, HandleFields, Busy, ClaimReplay
  <2> QED BY <1>7, <2>1, StepOwned DEF Claim, Step
<1>8. ASSUME ClaimStep(i) PROVE Owned'
  <2> DEFINE g == [h EXCEPT !.claim = IF @ = "flushed" THEN "asked" ELSE "settled"]
  <2>1. Keeps(h, g) BY <1>0 DEF Keeps, HandleOk, HandleFields, Busy
  <2> QED BY <1>8, <2>1, StepOwned DEF ClaimStep, Step
<1>9. ASSUME ExpandCalled(i) PROVE Owned'
  <2>1. Keeps(h, ExpandCampaign(h))
    <3>1. Keeps(h, h) BY <1>0 DEF Keeps
    <3>2. Keeps(h, [h EXCEPT !.expands = @ + 1])
      BY <1>0 DEF Keeps, HandleOk, HandleFields, Busy
    <3>3. Keeps(h, [h EXCEPT !.r = Expand(@)]) BY <1>0, RunningKeeps
    <3> QED BY <1>0, <3>1, <3>2, <3>3 DEF ExpandCampaign, HandleOk
  <2> QED BY <1>9, <2>1, StepOwned DEF ExpandCalled, Step
<1>10. ASSUME WidgetImported(i) PROVE Owned'
  BY <1>0, <1>10, RunningKeeps, StepOwned DEF WidgetImported, Running, Step
<1>11. ASSUME ImportLost(i) PROVE Owned'
  BY <1>0, <1>11, RunningKeeps, StepOwned DEF ImportLost, Running, Step
<1> QED BY <1>1, <1>2, <1>3, <1>4, <1>5, <1>6, <1>7, <1>8, <1>9, <1>10, <1>11 DEF Tracker

\* A campaign is the business of the running tracker alone.
LEMMA CampaignRuns ==
  ASSUME Owned, NEW i \in DOMAIN hs, Campaign(i)
  PROVE  UNCHANGED owner /\ \E r : hs' = [hs EXCEPT ![i] = [hs[i] EXCEPT !.r = r]]
<1>1. ASSUME Eligibility(i) PROVE \E r : hs' = [hs EXCEPT ![i] = [hs[i] EXCEPT !.r = r]]
  BY <1>1 DEF Eligibility
<1>2. ASSUME NEW q, Handled(i, q) PROVE \E r : hs' = [hs EXCEPT ![i] = [hs[i] EXCEPT !.r = r]]
  BY <1>2 DEF Handled
<1> QED
  BY <1>1, <1>2 DEF Campaign, Eligibility, Handled, EligibilityLost, TokenArrives, CampaignImported,
       CampaignImportLost, RequestOver, RequestLost, RequestRetried, RetryTimer, OpenLauncher, CloseWidget, Answer, SkipCampaign, ThanksEnd,
       Finishing, Panel, Running, Step

LEMMA OwnedNext == Owned /\ [Next]_vars => Owned'
<1> SUFFICES ASSUME Owned, [Next]_vars PROVE Owned' OBVIOUS
<1>1. ASSUME ScriptTag PROVE Owned'
  BY <1>1, InitCalledOwned DEF ScriptTag
<1>2. ASSUME NEW p \in Providers, Render(p) PROVE Owned'
  BY <1>2, InitCalledOwned DEF Render
<1>3. ASSUME NEW p \in Providers, Cleanup(p) PROVE Owned'
  <2>1. CASE react[p].mounted BY <1>3, <2>1 DEF Cleanup, Owned
  <2>2. CASE ~react[p].mounted BY <1>3, <2>2, StopOwned DEF Cleanup
  <2> QED BY <2>1, <2>2
<1>4. ASSUME NEW i \in DOMAIN hs, Tracker(i) PROVE Owned'
  BY <1>4, TrackerOwned
<1>5. ASSUME NEW i \in DOMAIN hs, Campaign(i) PROVE Owned'
  BY <1>5, CampaignRuns, RunningKeeps, StepOwned DEF Owned
<1>6. ASSUME UNCHANGED << owner, hs >> PROVE Owned'
  BY <1>6 DEF Owned
<1> QED BY <1>1, <1>2, <1>3, <1>4, <1>5, <1>6
     DEF Next, Host, OtherReserves, OtherShows, Tick, Unmount, Remount, vars

\* One tracker at most starts, records or listens on a page, for every set of
\* providers and however often they come and go (main.ts, init).
THEOREM OwnerIsOne == Spec => []ExclusiveOwner
<1>1. Spec => []Owned BY OwnedInit, OwnedNext, PTL DEF Spec
<1> QED BY <1>1, OneIsOwner, PTL
-----------------------------------------------------------------------------
(* The deliveries                                                          *)

DeliveryFields == {"who", "session", "status", "at", "shown"}

\* A delivery is reserved until it is shown, and not before it was reserved.
DeliveryOk(d, time) ==
  /\ DOMAIN d = DeliveryFields
  /\ d.at \in Nat /\ d.at <= time
  /\ IF d.status = "reserved" THEN d.shown = Never
     ELSE d.shown \in Nat /\ d.at <= d.shown /\ d.shown <= time

\* A later delivery d of the visitor of c: the cooldown of c is over when d is
\* reserved, or c can no longer be shown.
Apart(c, d) ==
  IF c.status = "reserved" THEN d.at - c.at >= RESERVATION ELSE d.at - c.shown > COOLDOWN

Spaced ==
  /\ now \in Nat
  /\ IsSeq(dels)
  /\ \A t \in DOMAIN dels : DeliveryOk(dels[t], now)
  /\ \A s, t \in DOMAIN dels : s < t /\ dels[s].who = dels[t].who => Apart(dels[s], dels[t])

LEMMA NotShown ==
  ASSUME NEW d, NEW time, DeliveryOk(d, time), d.shown = Never
  PROVE  d.status = "reserved"
<1>1. Never \notin Nat BY DEF Never
<1> HIDE DEF Never
<1> QED BY <1>1 DEF DeliveryOk

LEMMA SpacedInit == Init => Spaced
<1>1. << >> \in Seq({}) OBVIOUS
<1> QED BY <1>1 DEF Init, Spaced, IsSeq

LEMMA SpacedIsNoRepeat == Spaced => NoRepeat
<1> SUFFICES ASSUME Spaced, NEW s \in DOMAIN dels, NEW t \in DOMAIN dels, s < t, dels[s].who = dels[t].who,
                    dels[s].shown # Never, dels[t].shown # Never
             PROVE  dels[t].shown - dels[s].shown > COOLDOWN
  BY DEF NoRepeat
<1>1. DeliveryOk(dels[s], now) /\ DeliveryOk(dels[t], now) /\ Apart(dels[s], dels[t])
  BY DEF Spaced
<1>2. /\ dels[s].shown \in Nat /\ dels[t].shown \in Nat /\ dels[t].at \in Nat
      /\ dels[t].at <= dels[t].shown /\ dels[t].at - dels[s].shown > COOLDOWN
  BY <1>1 DEF DeliveryOk, Apart
<1> QED BY <1>2, CampaignAssumption

LEMMA ReserveSpaced ==
  ASSUME Spaced, NEW who, NEW session, Reservable(dels, who, now),
         dels' = Reserve(dels, who, session, now), UNCHANGED now
  PROVE  /\ Spaced'
         /\ DOMAIN dels = 1..Len(dels) /\ Len(dels) \in Nat /\ DOMAIN dels' = 1..(Len(dels) + 1)
         /\ \A t \in DOMAIN dels : dels'[t] = dels[t]
         /\ dels'[Len(dels) + 1].status = "reserved" /\ dels'[Len(dels) + 1].session = session
<1> DEFINE n == Len(dels) + 1
           d == [who |-> who, session |-> session, status |-> "reserved", at |-> now, shown |-> Never]
<1>1. /\ IsSeq(dels') /\ DOMAIN dels = 1..Len(dels) /\ Len(dels) \in Nat /\ DOMAIN dels' = 1..n
      /\ \A t \in DOMAIN dels' : dels'[t] = IF t = n THEN d ELSE dels[t]
  BY SeqAppend DEF Spaced, Reserve
<1>2. DeliveryOk(d, now) BY DEF DeliveryOk, DeliveryFields, Spaced
<1>3. \A t \in DOMAIN dels : dels[t].who = who => Apart(dels[t], d)
  <2> SUFFICES ASSUME NEW t \in DOMAIN dels, dels[t].who = who PROVE Apart(dels[t], d)
    OBVIOUS
  <2>1. DeliveryOk(dels[t], now) /\ ~Live(dels[t], now)
        /\ (dels[t].shown = Never \/ now - dels[t].shown > COOLDOWN)
    BY DEF Reservable, Spaced
  <2>2. now \in Nat BY DEF Spaced
  <2> QED BY <2>1, <2>2, CampaignAssumption DEF Apart, DeliveryOk, Live, Never
<1>4. d.who = who /\ d.status = "reserved" /\ d.session = session OBVIOUS
<1> HIDE DEF d
<1>5. \A t \in DOMAIN dels' : DeliveryOk(dels'[t], now)
  BY <1>1, <1>2 DEF Spaced
<1>6. \A s, t \in DOMAIN dels' : s < t /\ dels'[s].who = dels'[t].who => Apart(dels'[s], dels'[t])
  <2> SUFFICES ASSUME NEW s \in DOMAIN dels', NEW t \in DOMAIN dels', s < t, dels'[s].who = dels'[t].who
               PROVE  Apart(dels'[s], dels'[t])
    OBVIOUS
  <2>1. s \in DOMAIN dels /\ dels'[s] = dels[s] BY <1>1
  <2>2. CASE t = n BY <1>1, <1>3, <1>4, <2>1, <2>2
  <2>3. CASE t # n BY <1>1, <2>1, <2>3 DEF Spaced
  <2> QED BY <2>2, <2>3
<1>7. Spaced' BY <1>1, <1>5, <1>6 DEF Spaced
<1> QED BY <1>1, <1>4, <1>7

LEMMA SeqBeyond ==
  ASSUME NEW s, IsSeq(s), NEW i, i \notin DOMAIN s, NEW e
  PROVE  [s EXCEPT ![i] = e] = s
<1>1. PICK S : s \in Seq(S) BY DEF IsSeq
<1> QED BY <1>1

\* What a request that is accepted leaves of its delivery.
LEMMA Marked ==
  ASSUME NEW d, NEW time \in Nat, DeliveryOk(d, time), NEW what, what # "reserved", Accepts(d, what, time)
  PROVE  LET e == Mark(d, what, time)
         IN /\ DeliveryOk(e, time) /\ e.who = d.who /\ e.session = d.session /\ e.at = d.at
            /\ e.status = what
            /\ what = "shown" => d.status = "reserved" /\ time - d.at < RESERVATION /\ e.shown = time
            /\ what # "shown" => d.status = "shown" /\ e.shown = d.shown
<1> DEFINE e == Mark(d, what, time)
<1>1. CASE what = "shown"
  <2>1. /\ d.status = "reserved" /\ time - d.at < RESERVATION
        /\ e = [d EXCEPT !.status = what, !.shown = time]
    BY <1>1 DEF Accepts, Live, Mark
  <2>2. /\ DOMAIN e = DeliveryFields /\ e.who = d.who /\ e.session = d.session /\ e.at = d.at
        /\ e.status = what /\ e.shown = time
    BY <2>1 DEF DeliveryOk, DeliveryFields
  <2> HIDE DEF e
  <2> QED BY <1>1, <2>1, <2>2 DEF DeliveryOk, e
<1>2. CASE what # "shown"
  <2>1. d.status = "shown" /\ e = [d EXCEPT !.status = what]
    BY <1>2 DEF Accepts, Mark
  <2>2. /\ DOMAIN e = DeliveryFields /\ e.who = d.who /\ e.session = d.session /\ e.at = d.at
        /\ e.status = what /\ e.shown = d.shown
    BY <2>1 DEF DeliveryOk, DeliveryFields
  <2> HIDE DEF e
  <2> QED BY <1>2, <2>1, <2>2 DEF DeliveryOk, e
<1> QED BY <1>1, <1>2

\* A delivery is marked, and those of its visitor stay apart: one that can still
\* be shown is the last.
LEMMA MarkSpaced ==
  ASSUME Spaced, NEW t \in DOMAIN dels, NEW what, what # "reserved", Accepts(dels[t], what, now),
         dels' = [dels EXCEPT ![t] = Mark(@, what, now)], UNCHANGED now
  PROVE  /\ Spaced' /\ DOMAIN dels' = DOMAIN dels
         /\ \A s \in DOMAIN dels : dels'[s].session = dels[s].session /\ (s # t => dels'[s] = dels[s])
         /\ dels'[t].status = what
<1> DEFINE e == Mark(dels[t], what, now)
<1>1. /\ IsSeq(dels') /\ DOMAIN dels' = DOMAIN dels
      /\ \A s \in DOMAIN dels : dels'[s] = IF s = t THEN e ELSE dels[s]
  BY SeqUpdate DEF Spaced
<1>2. /\ DeliveryOk(e, now) /\ e.who = dels[t].who /\ e.session = dels[t].session /\ e.at = dels[t].at
      /\ e.status = what
      /\ what = "shown" => dels[t].status = "reserved" /\ now - dels[t].at < RESERVATION /\ e.shown = now
      /\ what # "shown" => dels[t].status = "shown" /\ e.shown = dels[t].shown
  BY Marked DEF Spaced
<1> HIDE DEF e
<1>3. ASSUME NEW s \in DOMAIN dels, t < s, dels[s].who = dels[t].who
      PROVE  Apart(e, dels[s])
  <2>1. Apart(dels[t], dels[s]) /\ DeliveryOk(dels[s], now) /\ DeliveryOk(dels[t], now) /\ now \in Nat
    BY <1>3 DEF Spaced
  <2>2. CASE what = "shown"
    <3>1. dels[s].at - dels[t].at >= RESERVATION BY <1>2, <2>1, <2>2 DEF Apart
    <3> QED BY <1>2, <2>1, <2>2, <3>1, CampaignAssumption DEF DeliveryOk
  <2>3. CASE what # "shown" BY <1>2, <2>1, <2>3 DEF Apart
  <2> QED BY <2>2, <2>3
<1>4. ASSUME NEW s \in DOMAIN dels, s < t, dels[s].who = dels[t].who
      PROVE  Apart(dels[s], e)
  BY <1>2, <1>4 DEF Spaced, Apart
<1>5. t < t => FALSE
  <2>1. PICK S : dels \in Seq(S) BY DEF Spaced, IsSeq
  <2> QED BY <2>1
<1>6. \A s, u \in DOMAIN dels' : s < u /\ dels'[s].who = dels'[u].who => Apart(dels'[s], dels'[u])
  BY <1>1, <1>2, <1>3, <1>4, <1>5 DEF Spaced
<1>7. \A s \in DOMAIN dels' : DeliveryOk(dels'[s], now) BY <1>1, <1>2 DEF Spaced
<1>8. Spaced' BY <1>1, <1>6, <1>7 DEF Spaced
<1> QED BY <1>1, <1>2, <1>8
-----------------------------------------------------------------------------
(* What becomes of a token                                                 *)

Outcomes == {"answered", "skipped", "dismissed"}

\* The fields of a panel that a step here changes or reads.
PanelFields == {"sections", "section", "open", "body", "toast", "fading", "token", "submitted", "done",
                "closing", "finishing", "calls", "detail", "busy", "replies"}

\* A form that is on the panel has not been sent, and an outcome that was
\* reported without a close was the form's.
PanelOk(w) ==
  /\ PanelFields \subseteq DOMAIN w
  /\ w.token \in Nat /\ w.done \in BOOLEAN /\ w.submitted \in BOOLEAN
  /\ w.calls = << >>
  /\ w.done => w.submitted
  /\ w.section = "feedback" /\ w.body[1] = "form" => ~w.submitted

\* The delivery on the panel that has no outcome yet.
Undone(w) == IF w.done THEN None ELSE w.token

RuntimeFields == {"site", "who", "disposed", "mounted", "w", "orphans", "importing", "action", "stage", "token",
                  "acks", "waiting", "out", "wire", "again", "finishing"}

RuntimeOk(r) ==
  /\ DOMAIN r = RuntimeFields
  /\ PanelOk(r.w)
  /\ r.token \in Nat
  /\ r.stage \in {"reserved", "importing"} => r.token # None

\* The requests it has sent or will send.
Sent(r)   == r.out \cup r.wire \cup r.again
Copies(r) == Sent(r) \cup r.waiting

Holds(r, t) ==
  \/ t # None /\ t \in {r.token, Undone(r.w)}
  \/ t \in r.acks
  \/ \E q \in Copies(r) : q.token = t

\* A tracker holds tokens of deliveries made in its tab.
OwnTokens(r, d) == \A t : Holds(r, t) => t \in DOMAIN d /\ d[t].session = "this tab"

\* A token whose campaign is not open yet is nowhere else.
FreshToken(r, d) ==
  r.token # None => /\ r.token # Undone(r.w) /\ r.token \notin r.acks
                    /\ \A q \in Copies(r) : q.token # r.token
                    /\ d[r.token].status = "reserved"

\* A shown request is awaited as long as the tracker says so.
ShownUnderWay(r, d) ==
  \A t \in r.acks : Request(t, "shown") \in r.out /\ d[t].status \in {"reserved", "shown"}

\* A shown request is sent once, and no outcome comes before its end; what the
\* server has of a delivery is then the outcome that was sent, or none.
RequestsOk(r, d) ==
  \A q \in Sent(r) : /\ q.what \in {"shown"} \cup Outcomes
                     /\ q.what = "shown" => q = Request(q.token, "shown")
                     /\ q.what # "shown" => /\ q.token \notin r.acks
                                            /\ d[q.token].status \in {"reserved", "shown", q.what}

\* The tracker awaits its shown requests and repeats none; one that the server
\* has not handled leaves the delivery reserved.
ShownOk(r, d) ==
  /\ \A q \in r.out : q.what = "shown" => q.token \in r.acks
  /\ \A q \in r.wire : q.what = "shown" => d[q.token].status = "reserved"
  /\ \A q \in r.again : q.what # "shown"

\* Before that an outcome waits for the shown request.
OutcomesWait(r) ==
  \A q \in r.waiting : q.what \in Outcomes /\ q.token \in r.acks

OutcomeOnce(r) ==
  \A p, q \in Copies(r) :
    p.what # "shown" /\ q.what # "shown" /\ p.token = q.token => p.what = q.what

\* And before that the delivery is on the panel.
OutcomeOpen(r, d) ==
  Undone(r.w) # None => /\ \A q \in Copies(r) : q.token = Undone(r.w) => q.what = "shown"
                        /\ d[Undone(r.w)].status \in {"reserved", "shown"}

\* The tokens of one tracker, d being the deliveries.
Deals(r, d) ==
  /\ OwnTokens(r, d) /\ FreshToken(r, d) /\ ShownUnderWay(r, d) /\ RequestsOk(r, d) /\ ShownOk(r, d)
  /\ OutcomesWait(r) /\ OutcomeOnce(r) /\ OutcomeOpen(r, d)

\* A delivery that was not shown and will not be.
Lost(t) ==
  /\ t \in DOMAIN dels /\ dels[t].session = "this tab" /\ dels[t].shown = Never
  /\ \A i \in DOMAIN hs : hs[i].r.token # t /\ Request(t, "shown") \notin hs[i].r.wire

\* What was refused is there already, or came before a shown request that the
\* page had given up, or is of a delivery that is lost.
Excused(q) == q.has = q.what \/ (q.has = "reserved" /\ (q.late \/ Lost(q.token)))

Tokens ==
  /\ \A i \in DOMAIN hs : RuntimeOk(hs[i].r) /\ Deals(hs[i].r, dels)
  /\ \A i, j \in DOMAIN hs : \A t : i # j /\ Holds(hs[i].r, t) => ~Holds(hs[j].r, t)
  /\ \A q \in refused : Excused(q)

-----------------------------------------------------------------------------
(* The panel                                                               *)

\* A panel that has been left with the delivery it had, or with none.
PanelCalm(w, v) == PanelOk(v) /\ Undone(v) \in {None, Undone(w)}

\* A panel after a click: what it reported first is how its delivery ended.
PanelReports(w, v) ==
  LET u == [v EXCEPT !.calls = << >>, !.finishing = FALSE]
  IN /\ PanelOk(u)
     /\ \/ v.calls = << >> /\ Undone(u) \in {None, Undone(w)}
        \/ /\ v.calls # << >> /\ v.calls[1][1] = Undone(w) /\ v.calls[1][2] \in Outcomes
           /\ Undone(u) = None

LEMMA OpenAtCalm ==
  ASSUME NEW w, PanelOk(w), NEW target
  PROVE  PanelCalm(w, OpenAt(w, target))
<1> DEFINE h == HideToast(w)
           o == [h EXCEPT !.open = TRUE, !.section = IF target \in w.sections THEN target ELSE w.section]
           v == SwapView(o)
<1>1. /\ DOMAIN h = DOMAIN w
      /\ h.token = w.token /\ h.done = w.done /\ h.submitted = w.submitted /\ h.calls = w.calls
  BY DEF HideToast, PanelOk, PanelFields
<1> HIDE DEF h
<1>2. /\ DOMAIN o = DOMAIN w
      /\ o.token = w.token /\ o.done = w.done /\ o.submitted = w.submitted /\ o.calls = w.calls
  BY <1>1 DEF PanelOk, PanelFields
<1> HIDE DEF o
<1>3. /\ DOMAIN v = DOMAIN w /\ v.section = o.section /\ v.body = SectionView(o)
      /\ v.token = w.token /\ v.done = w.done /\ v.submitted = w.submitted /\ v.calls = w.calls
  BY <1>2 DEF SwapView, PanelOk, PanelFields
<1>4. o.section = "feedback" /\ SectionView(o)[1] = "form" => ~o.submitted
  BY DEF SectionView, FeedbackView, ThanksView
<1> HIDE DEF v
<1>5. PanelCalm(w, v)
  BY <1>2, <1>3, <1>4 DEF PanelCalm, PanelOk, Undone
<1> QED BY <1>5 DEF OpenAt, v, o, h

LEMMA WidgetOk ==
  ASSUME NEW sections
  PROVE  PanelOk(WidgetWith(sections)) /\ Undone(WidgetWith(sections)) = None
<1> DEFINE m == Mounted(sections)
           w == WidgetWith(sections)
<1>1. /\ PanelFields \subseteq DOMAIN m
      /\ m.token = None /\ m.done \in BOOLEAN /\ ~m.done /\ m.submitted \in BOOLEAN /\ ~m.submitted
      /\ m.calls = << >> /\ m.body = << "empty", None, {} >>
  BY DEF Mounted, PanelFields
<1>2. PanelFields \subseteq DOMAIN w /\ \A f \in PanelFields : w[f] = m[f]
  <2> HIDE DEF m
  <2> QED BY <1>1 DEF WidgetWith, m
<1> HIDE DEF w, m
<1>3. /\ w.token = None /\ w.done \in BOOLEAN /\ ~w.done /\ w.submitted \in BOOLEAN /\ ~w.submitted
      /\ w.calls = << >> /\ w.body[1] = "empty"
  BY <1>1, <1>2 DEF PanelFields
<1>4. PanelOk(w) /\ Undone(w) = None BY <1>2, <1>3 DEF PanelOk, Undone, None
<1> QED BY <1>4 DEF w

\* What the end of a delivery leaves of its panel.
LEMMA Delivered ==
  ASSUME NEW w, PanelFields \subseteq DOMAIN w, w.calls = << >>, NEW what
  PROVE  LET d == [w EXCEPT !.done = TRUE, !.calls = Append(@, << w.token, what >>)]
         IN /\ DOMAIN d = DOMAIN w /\ d.token = w.token /\ d.submitted = w.submitted /\ d.open = w.open
            /\ d.done \in BOOLEAN /\ d.done /\ d.calls # << >> /\ d.calls[1] = << w.token, what >>
BY DEF PanelFields

LEMMA CloseReports ==
  ASSUME NEW w, PanelOk(w)
  PROVE  PanelReports(w, ClosePanel(w, TRUE))
<1> DEFINE u == [w EXCEPT !.closing = FALSE]
           d == IF ~u.submitted THEN FinishActiveDelivery(u, "dismissed") ELSE u
           n == [d EXCEPT !.open = FALSE]
           c == NoView(n)
           e == [c EXCEPT !.token = None, !.submitted = FALSE, !.done = FALSE, !.finishing = TRUE]
           Clear(v) == [v EXCEPT !.calls = << >>, !.finishing = FALSE]
<1>1. /\ DOMAIN u = DOMAIN w /\ u.token = w.token /\ u.done = w.done /\ u.submitted = w.submitted
      /\ u.calls = << >> /\ u.section = w.section /\ u.body = w.body
  BY DEF PanelOk, PanelFields
<1> HIDE DEF u
<1>2. /\ DOMAIN d = DOMAIN w /\ d.token = w.token /\ d.submitted = w.submitted
      /\ \/ d.done = w.done /\ d.calls = << >>
         \/ /\ w.token # None /\ ~w.done /\ d.done \in BOOLEAN /\ d.done
            /\ d.calls # << >> /\ d.calls[1] = << w.token, "dismissed" >>
  <2>1. CASE u.submitted \/ u.token = None \/ u.done
    BY <1>1, <2>1 DEF FinishActiveDelivery, PanelOk, PanelFields
  <2>2. CASE ~(u.submitted \/ u.token = None \/ u.done)
    <3> DEFINE x == [u EXCEPT !.done = TRUE, !.calls = Append(@, << u.token, "dismissed" >>)]
    <3>1. d = x BY <2>2 DEF FinishActiveDelivery
    <3>2. PanelFields \subseteq DOMAIN u BY <1>1 DEF PanelOk
    <3>3. /\ DOMAIN x = DOMAIN u /\ x.token = u.token /\ x.submitted = u.submitted
          /\ x.done \in BOOLEAN /\ x.done /\ x.calls # << >> /\ x.calls[1] = << u.token, "dismissed" >>
      BY <1>1, <3>2, Delivered
    <3> HIDE DEF x, d
    <3> QED BY <1>1, <2>2, <3>1, <3>3
  <2> QED BY <2>1, <2>2
<1> HIDE DEF d
<1>3. /\ DOMAIN n = DOMAIN w /\ n.token = w.token /\ n.submitted = w.submitted
      /\ n.done = d.done /\ n.calls = d.calls
  BY <1>2 DEF PanelOk, PanelFields
<1> HIDE DEF n
<1>4. /\ DOMAIN c = DOMAIN w /\ c.token = w.token /\ c.submitted = w.submitted
      /\ c.done = d.done /\ c.calls = d.calls /\ c.body = << "empty", None, {} >>
  BY <1>3 DEF NoView, PanelOk, PanelFields
<1> HIDE DEF c
<1>5. /\ DOMAIN e = DOMAIN w /\ e.token = None /\ e.submitted \in BOOLEAN /\ ~e.submitted /\ e.done \in BOOLEAN /\ ~e.done
      /\ e.calls = d.calls /\ e.body = c.body
  BY <1>4 DEF PanelOk, PanelFields
<1> HIDE DEF e
<1>6. ASSUME NEW v, PanelFields \subseteq DOMAIN v
      PROVE  /\ DOMAIN Clear(v) = DOMAIN v /\ Clear(v).calls = << >>
             /\ Clear(v).token = v.token /\ Clear(v).done = v.done /\ Clear(v).submitted = v.submitted
             /\ Clear(v).body = v.body /\ Clear(v).section = v.section
  BY <1>6 DEF PanelFields
<1> HIDE DEF Clear
<1>7. PanelReports(w, u)
  <2>1. PanelOk(Clear(u)) /\ Undone(Clear(u)) = Undone(w)
    BY <1>1, <1>6 DEF PanelOk, Undone
  <2> QED BY <1>1, <2>1 DEF PanelReports, Clear
<1>8. CASE w.token = None
  <2>1. d.done = w.done /\ d.calls = << >> BY <1>2, <1>8
  <2>2. PanelOk(Clear(c)) /\ Undone(Clear(c)) = Undone(w)
    BY <1>4, <1>6, <2>1 DEF PanelOk, Undone
  <2>3. PanelReports(w, c) BY <1>4, <2>1, <2>2 DEF PanelReports, Clear
  <2> QED BY <1>7, <1>8, <2>3 DEF ClosePanel, c, n, d, u
<1>9. CASE w.token # None
  <2>1. PanelOk(Clear(e)) /\ Undone(Clear(e)) = None
    BY <1>4, <1>5, <1>6 DEF PanelOk, Undone, None
  <2>2. d.calls = << >> \/ (d.calls # << >> /\ d.calls[1][1] = Undone(w) /\ d.calls[1][2] \in Outcomes)
    BY <1>2 DEF Undone, Outcomes
  <2>3. PanelReports(w, e) BY <1>5, <2>1, <2>2 DEF PanelReports, Clear
  <2> QED BY <1>7, <1>9, <2>3 DEF ClosePanel, e, c, n, d, u
<1> QED BY <1>8, <1>9

LEMMA SubmitReports ==
  ASSUME NEW w, PanelOk(w), FormShown(w)
  PROVE  PanelReports(w, SubmitFeedback(w))
<1> DEFINE v == SubmitFeedback(w)
           u == [v EXCEPT !.calls = << >>, !.finishing = FALSE]
<1>1. ~w.done BY DEF FormShown, PanelOk
<1>2. /\ DOMAIN v = DOMAIN w /\ v.token = w.token /\ v.submitted \in BOOLEAN /\ v.submitted
      /\ v.done \in BOOLEAN /\ (v.done <=> w.token # None)
      /\ v.calls # << >> /\ v.calls[1] = << w.token, "answered" >> /\ v.body = ThanksView
  <2>1. w.calls = << >> /\ Append(w.calls, << w.token, "answered" >>) = << << w.token, "answered" >> >>
    BY DEF PanelOk
  <2> DEFINE b == w.done \/ w.token # None
             s == << << w.token, "answered" >> >>
             x == [w EXCEPT !.calls = s, !.done = b, !.submitted = TRUE, !.body = ThanksView, !.closing = TRUE]
  <2>2. (b <=> w.token # None) /\ b \in BOOLEAN BY <1>1
  <2>3. v = x BY <2>1 DEF SubmitFeedback
  <2>4. s # << >> /\ s[1] = << w.token, "answered" >> OBVIOUS
  <2> HIDE DEF b, s, v
  <2>5. /\ DOMAIN x = DOMAIN w /\ x.token = w.token /\ x.submitted = TRUE /\ x.done = b
        /\ x.calls = s /\ x.body = ThanksView
    BY DEF PanelOk, PanelFields
  <2> HIDE DEF x
  <2> QED BY <2>2, <2>3, <2>4, <2>5
<1> HIDE DEF v
<1>3. /\ DOMAIN u = DOMAIN w /\ u.token = w.token /\ u.submitted \in BOOLEAN /\ u.submitted
      /\ u.done \in BOOLEAN /\ (u.done <=> w.token # None)
      /\ u.calls = << >> /\ u.body = ThanksView
  BY <1>2 DEF PanelOk, PanelFields
<1> HIDE DEF u
<1>4. PanelOk(u) /\ Undone(u) = None
  BY <1>3 DEF PanelOk, Undone, ThanksView
<1>5. v.calls[1][1] = Undone(w) /\ v.calls[1][2] \in Outcomes
  BY <1>1, <1>2 DEF Undone, Outcomes
<1> QED BY <1>2, <1>4, <1>5 DEF PanelReports, u, v

LEMMA SkipReports ==
  ASSUME NEW w, PanelOk(w), FormShown(w), w.token # None
  PROVE  PanelReports(w, Skip(w))
<1> DEFINE f == FinishActiveDelivery(w, "skipped")
           u == [f EXCEPT !.closing = FALSE]
           c == NoView([u EXCEPT !.open = FALSE])
           e == [c EXCEPT !.token = None, !.submitted = FALSE, !.done = FALSE, !.finishing = TRUE]
           g == [e EXCEPT !.calls = << >>, !.finishing = FALSE]
<1>1. ~w.done /\ w.open BY DEF FormShown, PanelOk
<1>2. /\ DOMAIN f = DOMAIN w /\ f.token = w.token /\ f.open = w.open
      /\ f.calls # << >> /\ f.calls[1] = << w.token, "skipped" >>
  BY <1>1, Delivered DEF FinishActiveDelivery, PanelOk
<1> HIDE DEF f
<1>3. DOMAIN u = DOMAIN w /\ u.calls = f.calls BY <1>2 DEF PanelOk, PanelFields
<1> HIDE DEF u
<1>4. DOMAIN c = DOMAIN w /\ c.calls = f.calls /\ c.body = << "empty", None, {} >>
  BY <1>3 DEF NoView, PanelOk, PanelFields
<1> HIDE DEF c
<1>5. /\ DOMAIN e = DOMAIN w /\ e.calls = f.calls /\ e.body = c.body
      /\ e.token = None /\ e.submitted \in BOOLEAN /\ ~e.submitted /\ e.done \in BOOLEAN /\ ~e.done
  BY <1>4 DEF PanelOk, PanelFields
<1>6. e = Skip(w) BY <1>1, <1>2 DEF Skip, ClosePanel, e, c, u, f
<1> HIDE DEF e
<1>7. /\ DOMAIN g = DOMAIN w /\ g.calls = << >> /\ g.body = c.body
      /\ g.token = None /\ g.submitted \in BOOLEAN /\ ~g.submitted /\ g.done \in BOOLEAN /\ ~g.done
  BY <1>5 DEF PanelOk, PanelFields
<1>8. PanelOk(g) /\ Undone(g) = None
  <2> HIDE DEF g
  <2> QED BY <1>4, <1>7 DEF PanelOk, Undone, None
<1>9. PanelReports(w, e)
  <2>1. e.calls[1][1] = Undone(w) /\ e.calls[1][2] \in Outcomes BY <1>1, <1>2, <1>5 DEF Undone, Outcomes
  <2> QED BY <1>2, <1>5, <1>8, <2>1 DEF PanelReports
<1> QED BY <1>6, <1>9
-----------------------------------------------------------------------------
(* The running tracker                                                     *)

\* A tracker that has what it had of tokens, or less.
Calm(r, s) ==
  /\ RuntimeOk(s)
  /\ \/ /\ s.out = r.out /\ s.wire = r.wire /\ s.again = r.again
        /\ s.waiting = r.waiting /\ s.acks = r.acks
     \/ s.out = {} /\ s.wire = {} /\ s.again = {} /\ s.waiting = {} /\ s.acks = {}
  /\ s.token \in {None, r.token}
  /\ Undone(s.w) \in {None, Undone(r.w)}

LEMMA CalmSelf == ASSUME NEW r, RuntimeOk(r) PROVE Calm(r, r)
BY DEF Calm

LEMMA CalmTwice == ASSUME NEW q, NEW r, NEW s, Calm(q, r), Calm(r, s) PROVE Calm(q, s)
BY DEF Calm

\* Its panel alone has changed.
LEMMA PanelOnly ==
  ASSUME NEW r, RuntimeOk(r), NEW v, PanelCalm(r.w, v)
  PROVE  Calm(r, [r EXCEPT !.w = v])
BY DEF Calm, RuntimeOk, RuntimeFields, PanelCalm

LEMMA RuntimeCalm == ASSUME NEW r, RuntimeOk(r), NEW site PROVE Calm(r, Runtime(site))
<1> DEFINE s == Runtime(site)
<1>1. /\ DOMAIN s = RuntimeFields /\ s.w = NoWidget /\ s.token = None /\ s.stage = "idle"
      /\ s.out = {} /\ s.wire = {} /\ s.again = {} /\ s.waiting = {} /\ s.acks = {}
  BY DEF Runtime, RuntimeFields
<1> HIDE DEF s
<1> QED BY <1>1, WidgetOk DEF Calm, RuntimeOk, NoWidget, None, s

\* What the tracker does to its widget leaves the rest alone.
WidgetOnly(r, s) == Calm(r, s) /\ s.token = r.token /\ s.stage = r.stage /\ s.mounted \in BOOLEAN

LEMMA DestroyCalm ==
  ASSUME NEW r, RuntimeOk(r)
  PROVE  WidgetOnly(r, DestroyWidget(r))
<1>1. PanelOk(NoWidget) /\ Undone(NoWidget) = None BY WidgetOk DEF NoWidget
<1> QED BY <1>1 DEF WidgetOnly, Calm, RuntimeOk, RuntimeFields, DestroyWidget

LEMMA PlaceCalm ==
  ASSUME NEW r, RuntimeOk(r), NEW sections
  PROVE  WidgetOnly(r, Place(r, sections))
<1>1. /\ PanelOk(NoWidget) /\ Undone(NoWidget) = None
      /\ PanelOk(WidgetWith(sections)) /\ Undone(WidgetWith(sections)) = None
  BY WidgetOk DEF NoWidget
<1> DEFINE w == WidgetWith(sections)
<1>2. WidgetOnly(r, [r EXCEPT !.mounted = FALSE, !.w = NoWidget])
  BY <1>1 DEF WidgetOnly, Calm, RuntimeOk, RuntimeFields
<1>3. ASSUME NEW n PROVE WidgetOnly(r, [r EXCEPT !.mounted = TRUE, !.w = w, !.orphans = n])
  BY <1>1 DEF WidgetOnly, Calm, RuntimeOk, RuntimeFields
<1> QED BY <1>2, <1>3 DEF Place

LEMMA MountCalm ==
  ASSUME NEW r, RuntimeOk(r), NEW action
  PROVE  Calm(r, MountWidget(r, action))
<1> DEFINE a == [r EXCEPT !.action = TRUE]
           o == [r EXCEPT !.w = OpenAt(@, "feedback")]
<1>1. Calm(r, r) /\ Calm(r, a) /\ RuntimeOk(a)
  BY DEF Calm, RuntimeOk, RuntimeFields
<1>2. Calm(r, o) BY OpenAtCalm, PanelOnly DEF RuntimeOk
<1>3. ASSUME NEW u \in {r, a} PROVE Calm(r, [u EXCEPT !.importing = TRUE])
  <2>1. Calm(r, u) /\ RuntimeOk(u) BY <1>1
  <2> HIDE DEF a
  <2> QED BY <2>1 DEF Calm, RuntimeOk, RuntimeFields
<1> HIDE DEF a, o
<1> QED BY <1>1, <1>2, <1>3 DEF MountWidget, a, o

LEMMA ImportedCalm ==
  ASSUME NEW r, RuntimeOk(r)
  PROVE  Calm(r, Imported(r))
<1> DEFINE n == [r EXCEPT !.importing = FALSE, !.action = FALSE]
           u == Place(n, SectionsWith(r, FeedbackAvailable(r, r.action)))
<1>1. RuntimeOk(n) /\ Calm(r, n) /\ Calm(r, [r EXCEPT !.importing = FALSE])
  BY DEF Calm, RuntimeOk, RuntimeFields
<1> HIDE DEF n
<1>2. Calm(r, u) /\ RuntimeOk(u)
  <2>1. Calm(n, u) BY <1>1, PlaceCalm DEF WidgetOnly
  <2>2. RuntimeOk(u) BY <2>1 DEF Calm
  <2> QED BY <1>1, <2>1, <2>2, CalmTwice
<1>3. Calm(r, [u EXCEPT !.w = OpenAt(@, "feedback")])
  BY <1>2, OpenAtCalm, PanelOnly, CalmTwice DEF RuntimeOk
<1> HIDE DEF u
<1> QED BY <1>1, <1>2, <1>3 DEF Imported, u, n

LEMMA ImportFailsCalm == ASSUME NEW r, RuntimeOk(r) PROVE Calm(r, ImportFails(r))
<1> DEFINE d == DestroyWidget(r)
<1>1. Calm(r, d) BY DestroyCalm DEF WidgetOnly
<1> HIDE DEF d
<1> QED BY <1>1 DEF ImportFails, Calm, RuntimeOk, RuntimeFields, d

LEMMA ExpandCalm == ASSUME NEW r, RuntimeOk(r) PROVE Calm(r, Expand(r))
BY DEF Expand, Calm, RuntimeOk, RuntimeFields

LEMMA DeclinedCalm == ASSUME NEW r, RuntimeOk(r) PROVE Calm(r, Declined(r))
BY DEF Declined, Calm, RuntimeOk, RuntimeFields, None

LEMMA ShutdownCalm == ASSUME NEW r, RuntimeOk(r) PROVE Calm(r, Shutdown(r))
<1> DEFINE d == DestroyWidget(r)
<1>1. Calm(r, d) BY DestroyCalm DEF WidgetOnly
<1> HIDE DEF d
<1> QED BY <1>1 DEF Shutdown, Calm, RuntimeOk, RuntimeFields, d

LEMMA FinishedCalm == ASSUME NEW r, RuntimeOk(r) PROVE Calm(r, CampaignFinished(r))
<1> DEFINE u == [r EXCEPT !.finishing = FALSE]
<1>1. RuntimeOk(u) /\ Calm(r, u) BY DEF Calm, RuntimeOk, RuntimeFields
<1> HIDE DEF u
<1>2. Calm(u, DestroyWidget(u)) /\ RuntimeOk(DestroyWidget(u)) BY <1>1, DestroyCalm DEF WidgetOnly, Calm
<1>3. Calm(DestroyWidget(u), MountWidget(DestroyWidget(u), FALSE)) BY <1>2, MountCalm
<1> QED BY <1>1, <1>2, <1>3, CalmTwice DEF CampaignFinished, u

LEMMA PerformCalm == ASSUME NEW r, RuntimeOk(r), NEW call PROVE Calm(r, Perform(r, call))
<1>1. Calm(r, [r EXCEPT !.who = "user"]) BY DEF Calm, RuntimeOk, RuntimeFields
<1> QED BY <1>1, MountCalm DEF Perform

LEMMA DispatchCalm == ASSUME NEW r, RuntimeOk(r), NEW calls PROVE Calm(r, Dispatch(r, calls))
<1> DEFINE t == IF \E n \in DOMAIN calls : calls[n] = "track" THEN Perform(r, "track") ELSE r
<1>1. Calm(r, t) /\ RuntimeOk(t) BY CalmSelf, PerformCalm DEF Calm
<1> HIDE DEF t
<1>2. Calm(r, Perform(t, "identify")) BY <1>1, PerformCalm, CalmTwice
<1> QED BY <1>1, <1>2 DEF Dispatch, t

LEMMA ActivateCalm ==
  ASSUME NEW h, DOMAIN h = HandleFields, RuntimeOk(h.r)
  PROVE  Calm(h.r, Activate(h).r)
<1> DEFINE m == MountWidget(h.r, FALSE)
           p == Dispatch(m, h.pending)
           s == IF h.expands > 0 THEN Expand(p) ELSE p
<1>1. Calm(h.r, m) /\ RuntimeOk(m) BY MountCalm DEF Calm
<1>2. Calm(h.r, p) /\ RuntimeOk(p) BY <1>1, DispatchCalm, CalmTwice DEF Calm
<1> HIDE DEF p
<1>3. Calm(h.r, s) BY <1>2, ExpandCalm, CalmTwice
<1> HIDE DEF s
<1>4. Activate(h).r = s BY DEF Activate, HandleFields, s, p
<1> QED BY <1>3, <1>4
-----------------------------------------------------------------------------
(* Deliveries and requests of one tracker                                  *)

\* A tracker that holds, and may still show, no more than it did.
Within(r, s) ==
  \A t : /\ Holds(s, t) => Holds(r, t)
         /\ t # None /\ (t = s.token \/ Request(t, "shown") \in s.wire)
              => t = r.token \/ Request(t, "shown") \in r.wire

LEMMA CalmDeals ==
  ASSUME NEW r, NEW s, NEW d, Deals(r, d), Calm(r, s)
  PROVE  RuntimeOk(s) /\ Deals(s, d) /\ Within(r, s)
<1>1. RuntimeOk(s) BY DEF Calm
<1>2. Copies(s) = Copies(r) \/ Copies(s) = {} BY DEF Calm, Copies, Sent
<1>3. Within(r, s) BY <1>2 DEF Within, Holds, Calm
<1>4. Deals(s, d)
  <2>1. OwnTokens(s, d) BY <1>3 DEF Within, Deals, OwnTokens
  <2>2. CASE /\ s.out = r.out /\ s.wire = r.wire /\ s.again = r.again
             /\ s.waiting = r.waiting /\ s.acks = r.acks
    <3>1. Copies(s) = Copies(r) /\ Sent(s) = Sent(r) BY <2>2 DEF Copies, Sent
    <3> QED
      BY <2>1, <2>2, <3>1
         DEF Deals, Calm, FreshToken, ShownUnderWay, RequestsOk, ShownOk, OutcomesWait, OutcomeOnce, OutcomeOpen
  <2>3. CASE s.out = {} /\ s.wire = {} /\ s.again = {} /\ s.waiting = {} /\ s.acks = {}
    <3>1. Copies(s) = {} /\ Sent(s) = {} BY <2>3 DEF Copies, Sent
    <3> QED
      BY <2>1, <2>3, <3>1
         DEF Deals, Calm, FreshToken, ShownUnderWay, RequestsOk, ShownOk, OutcomesWait, OutcomeOnce, OutcomeOpen
  <2> QED BY <2>2, <2>3 DEF Calm
<1> QED BY <1>1, <1>3, <1>4

\* The campaign of a fresh token is opened: it is on the panel, and its shown
\* request is under way.
LEMMA OpenedDeals ==
  ASSUME NEW r, RuntimeOk(r), NEW d, Deals(r, d), r.token # None
  PROVE  LET s == Opened(r) IN RuntimeOk(s) /\ Deals(s, d) /\ Within(r, s)
<1> DEFINE w == [r.w EXCEPT !.token = r.token, !.submitted = FALSE, !.done = FALSE]
           v == OpenAt(w, "feedback")
           q == Request(r.token, "shown")
           s == Opened(r)
           t == r.token
<1>1. /\ PanelFields \subseteq DOMAIN w /\ w.token = t /\ w.submitted \in BOOLEAN /\ ~w.submitted
      /\ w.done \in BOOLEAN /\ ~w.done /\ w.calls = << >>
  BY DEF RuntimeOk, PanelOk, PanelFields
<1>2. PanelOk(w) /\ Undone(w) = t
  <2> HIDE DEF w
  <2> QED BY <1>1 DEF RuntimeOk, PanelOk, Undone
<1> HIDE DEF w
<1>3. PanelOk(v) /\ Undone(v) \in {None, t} BY <1>2, OpenAtCalm DEF PanelCalm
<1> HIDE DEF v
<1>4. /\ DOMAIN s = RuntimeFields /\ s.w = v /\ s.token = None /\ s.stage = "idle"
      /\ s.acks = r.acks \cup {t} /\ s.out = r.out \cup {q} /\ s.wire = r.wire \cup {q}
      /\ s.again = r.again /\ s.waiting = r.waiting
  BY DEF Opened, Send, RuntimeOk, RuntimeFields, v, w
<1> HIDE DEF s
<1>c. Copies(s) = Copies(r) \cup {q} /\ Sent(s) = Sent(r) \cup {q} BY <1>4 DEF Copies, Sent
<1>5. q.token = t /\ q.what = "shown" /\ q = Request(q.token, "shown")
      /\ \A x : Request(x, "shown") = q => x = t
  BY DEF Request
<1> HIDE DEF q
<1>6. RuntimeOk(s) BY <1>3, <1>4 DEF RuntimeOk, None
<1>7. Within(r, s) BY <1>3, <1>4, <1>5, <1>c DEF Within, Holds
<1>8. /\ d[t].status = "reserved" /\ t \notin r.acks
      /\ \A p \in Copies(r) : p.token # t
  BY DEF Deals, FreshToken
<1>9. OwnTokens(s, d) BY <1>7 DEF Within, Deals, OwnTokens
<1>10. FreshToken(s, d) BY <1>4 DEF FreshToken
<1>11. ShownUnderWay(s, d) BY <1>4, <1>8 DEF Deals, ShownUnderWay, q
<1>12. RequestsOk(s, d)
  <2>1. \A p \in Sent(r) : p.token # t BY <1>8 DEF Copies
  <2> QED BY <1>4, <1>5, <1>c, <2>1 DEF Deals, RequestsOk
<1>o. ShownOk(s, d) BY <1>4, <1>5, <1>8 DEF Deals, ShownOk
<1>13. OutcomesWait(s) BY <1>4 DEF Deals, OutcomesWait
<1>14. OutcomeOnce(s) BY <1>5, <1>c DEF Deals, OutcomeOnce
<1>15. OutcomeOpen(s, d) BY <1>3, <1>4, <1>5, <1>8, <1>c DEF OutcomeOpen
<1> QED BY <1>6, <1>7, <1>9, <1>10, <1>11, <1>12, <1>o, <1>13, <1>14, <1>15 DEF Deals, s

\* What the panel reported becomes a request, or waits for the one before.
LEMMA AfterDeals ==
  ASSUME NEW r, RuntimeOk(r), NEW d, Deals(r, d), NEW v, PanelReports(r.w, v)
  PROVE  LET s == After(r, v) IN RuntimeOk(s) /\ Deals(s, d) /\ Within(r, s)
<1> DEFINE x == [v EXCEPT !.calls = << >>, !.finishing = FALSE]
           u == [r EXCEPT !.w = x, !.finishing = @ \/ v.finishing]
           q == Request(v.calls[1][1], v.calls[1][2])
           s == After(r, v)
           t == Undone(r.w)
<1>1. PanelOk(x) BY DEF PanelReports
<1>2. \/ v.calls = << >> /\ Undone(x) \in {None, t}
      \/ v.calls # << >> /\ v.calls[1][1] = t /\ v.calls[1][2] \in Outcomes /\ Undone(x) = None
  BY DEF PanelReports
<1> HIDE DEF x
<1>3. /\ DOMAIN u = RuntimeFields /\ u.w = x /\ u.token = r.token /\ u.stage = r.stage
      /\ u.acks = r.acks /\ u.out = r.out /\ u.wire = r.wire /\ u.again = r.again
      /\ u.waiting = r.waiting /\ u.disposed = r.disposed
  BY DEF RuntimeOk, RuntimeFields
<1> HIDE DEF u
<1>4. Calm(r, u) BY <1>1, <1>2, <1>3 DEF Calm, RuntimeOk
<1>5. CASE v.calls = << >>
  BY <1>4, <1>5, CalmDeals DEF After, u, x
<1>6. CASE v.calls # << >>
  <2>1. q.token = t /\ q.what \in Outcomes /\ Undone(x) = None /\ \A y : q # Request(y, "shown")
    BY <1>2, <1>6 DEF Request, Outcomes
  <2>2. s = Outcome(u, q) BY <1>6 DEF After, u, x
  <2> HIDE DEF q, s
  <2>3. CASE q.token = None \/ (q.what = "answered" /\ u.disposed)
    BY <1>4, <2>2, <2>3, CalmDeals DEF Outcome, s
  <2>4. CASE ~(q.token = None \/ (q.what = "answered" /\ u.disposed))
    <3>1. t # None /\ q.what # "shown" BY <2>1, <2>4 DEF Outcomes
    <3>2. /\ DOMAIN s = RuntimeFields /\ s.w = x /\ s.token = r.token /\ s.stage = r.stage /\ s.acks = r.acks
          /\ s.again = r.again
          /\ \/ t \in r.acks /\ s.out = r.out /\ s.wire = r.wire /\ s.waiting = r.waiting \cup {q}
             \/ /\ t \notin r.acks /\ s.out = r.out \cup {q} /\ s.wire = r.wire \cup {q}
                /\ s.waiting = r.waiting
      BY <1>3, <2>1, <2>2, <2>4 DEF Outcome, Send, RuntimeFields
    <3>3. /\ Copies(s) = Copies(r) \cup {q}
          /\ Sent(s) = Sent(r) \/ (t \notin r.acks /\ Sent(s) = Sent(r) \cup {q})
      BY <3>2 DEF Copies, Sent
    <3>4. /\ \A p \in Copies(r) : p.token = t => p.what = "shown"
          /\ d[t].status \in {"reserved", "shown"}
      BY <3>1 DEF Deals, OutcomeOpen
    <3>5. RuntimeOk(s) BY <1>1, <3>2 DEF RuntimeOk
    <3>6. Within(r, s)
      <4>1. \A y : Holds(s, y) => Holds(r, y) BY <2>1, <3>1, <3>2, <3>3 DEF Holds
      <4> QED BY <2>1, <3>2, <4>1 DEF Within
    <3>7. OwnTokens(s, d) BY <3>6 DEF Within, Deals, OwnTokens
    <3>8. FreshToken(s, d) BY <2>1, <3>2, <3>3 DEF Deals, FreshToken
    <3>9. ShownUnderWay(s, d) BY <3>2 DEF Deals, ShownUnderWay
    <3>10. RequestsOk(s, d) BY <2>1, <3>1, <3>2, <3>3, <3>4 DEF Deals, RequestsOk
    <3>o. ShownOk(s, d) BY <3>1, <3>2 DEF Deals, ShownOk
    <3>11. OutcomesWait(s) BY <2>1, <3>2 DEF Deals, OutcomesWait
    <3>12. OutcomeOnce(s) BY <2>1, <3>3, <3>4 DEF Deals, OutcomeOnce
    <3>13. OutcomeOpen(s, d) BY <2>1, <3>2 DEF OutcomeOpen
    <3> QED BY <3>5, <3>6, <3>7, <3>8, <3>9, <3>10, <3>o, <3>11, <3>12, <3>13 DEF Deals, s
  <2> QED BY <2>3, <2>4
<1> QED BY <1>5, <1>6

\* The server has handled a request: d was its state, e is it afterwards.
LEMMA HandledDeals ==
  ASSUME NEW r, RuntimeOk(r), NEW d, Deals(r, d), None \notin DOMAIN d, NEW q \in r.wire,
         NEW e, DOMAIN e = DOMAIN d,
         \A t \in DOMAIN d : e[t].session = d[t].session,
         \A t \in DOMAIN d : t # q.token => e[t].status = d[t].status,
         \/ e[q.token].status = d[q.token].status
         \/ /\ e[q.token].status = q.what
            /\ d[q.token].status = IF q.what = "shown" THEN "reserved" ELSE "shown",
         NEW s, s = [r EXCEPT !.wire = @ \ {q}]
  PROVE  RuntimeOk(s) /\ Deals(s, e) /\ Within(r, s) /\ q.token # s.token
<1> DEFINE t == q.token
<1>1. /\ DOMAIN s = RuntimeFields /\ s.w = r.w /\ s.token = r.token /\ s.stage = r.stage
      /\ s.acks = r.acks /\ s.out = r.out /\ s.wire = r.wire \ {q} /\ s.again = r.again
      /\ s.waiting = r.waiting
  BY DEF RuntimeOk, RuntimeFields
<1>2. q \in Sent(r) /\ q \in Copies(r) /\ Sent(s) \subseteq Sent(r) /\ Copies(s) \subseteq Copies(r)
  BY <1>1 DEF Sent, Copies
<1>3. Holds(r, t) /\ t \in DOMAIN d /\ t # None BY <1>2 DEF Deals, Holds, OwnTokens
<1>4. t # r.token BY <1>2, <1>3 DEF Deals, FreshToken
<1>5. RuntimeOk(s) BY <1>1 DEF RuntimeOk
<1>6. Within(r, s) BY <1>1, <1>2 DEF Within, Holds
<1>7. OwnTokens(s, e) BY <1>6 DEF Within, Deals, OwnTokens
<1>8. FreshToken(s, e)
  <2>1. s.token # None => s.token \in DOMAIN d /\ s.token # t BY <1>1, <1>4 DEF Deals, Holds, OwnTokens
  <2> QED BY <1>1, <1>2, <2>1 DEF Deals, FreshToken
<1>w. /\ q.what \in {"shown"} \cup Outcomes
      /\ q.what = "shown" => q = Request(t, "shown")
      /\ q.what # "shown" => t \notin r.acks /\ d[t].status \in {"reserved", "shown", q.what}
  BY <1>2 DEF Deals, RequestsOk
<1>9. ShownUnderWay(s, e)
  <2> SUFFICES ASSUME NEW x \in s.acks
               PROVE  Request(x, "shown") \in s.out /\ e[x].status \in {"reserved", "shown"}
    BY DEF ShownUnderWay
  <2>1. Request(x, "shown") \in s.out /\ d[x].status \in {"reserved", "shown"} /\ x \in DOMAIN d
    BY <1>1 DEF Deals, ShownUnderWay, Holds, OwnTokens
  <2>2. x = t => q.what = "shown" BY <1>1, <1>w
  <2> QED BY <2>1, <2>2
<1>10. RequestsOk(s, e)
  <2> SUFFICES ASSUME NEW p \in Sent(s)
               PROVE  /\ p.what \in {"shown"} \cup Outcomes
                      /\ p.what = "shown" => p = Request(p.token, "shown")
                      /\ p.what # "shown" => /\ p.token \notin s.acks
                                             /\ e[p.token].status \in {"reserved", "shown", p.what}
    BY DEF RequestsOk
  <2>1. p \in Sent(r) /\ p \in Copies(r) BY <1>2 DEF Copies
  <2>2. p.token \in DOMAIN d BY <2>1 DEF Deals, Holds, OwnTokens
  <2>3. p.what # "shown" /\ q.what # "shown" /\ p.token = t => p.what = q.what
    BY <1>2, <2>1 DEF Deals, OutcomeOnce
  <2> QED BY <1>1, <2>1, <2>2, <2>3 DEF Deals, RequestsOk
<1>11. ShownOk(s, e)
  <2> SUFFICES ASSUME NEW p \in s.wire, p.what = "shown" PROVE e[p.token].status = "reserved"
    BY <1>1 DEF Deals, ShownOk
  <2>1. p \in r.wire /\ p # q /\ d[p.token].status = "reserved" BY <1>1 DEF Deals, ShownOk
  <2>2. p \in Sent(r) /\ p \in Copies(r) BY <2>1 DEF Sent, Copies
  <2>3. p = Request(p.token, "shown") BY <2>2 DEF Deals, RequestsOk
  <2>4. p.token = t => q.what # "shown" BY <1>w, <2>1, <2>3
  <2>5. p.token \in DOMAIN d BY <2>2 DEF Deals, Holds, OwnTokens
  <2> QED BY <2>1, <2>4, <2>5
<1>12. OutcomesWait(s) BY <1>1 DEF Deals, OutcomesWait
<1>13. OutcomeOnce(s) BY <1>2 DEF Deals, OutcomeOnce
<1>14. OutcomeOpen(s, e)
  <2>1. Undone(s.w) = Undone(r.w) BY <1>1
  <2>2. Undone(r.w) # None => Undone(r.w) \in DOMAIN d BY DEF Deals, Holds, OwnTokens
  <2>3. Undone(r.w) # None /\ Undone(r.w) # t => e[Undone(r.w)].status = d[Undone(r.w)].status BY <2>2
  <2>4. Undone(r.w) # None /\ Undone(r.w) = t => q.what = "shown" BY <1>2 DEF Deals, OutcomeOpen
  <2> QED BY <1>2, <2>1, <2>3, <2>4 DEF Deals, OutcomeOpen
<1> QED BY <1>1, <1>4, <1>5, <1>6, <1>7, <1>8, <1>9, <1>10, <1>11, <1>12, <1>13, <1>14 DEF Deals

\* Requests that the tracker has sent or keeps, whichever they are, are sent or
\* given up, and nothing else changes but that one may be tried again.
LEMMA OverDeals ==
  ASSUME NEW r, RuntimeOk(r), NEW d, Deals(r, d), NEW q \in r.out
  PROVE  LET s == Over(r, q)
         IN /\ RuntimeOk(s) /\ Deals(s, d) /\ Within(r, s)
            /\ q.what # "shown" => s.disposed = r.disposed /\ q.token \notin s.acks
<1> DEFINE t == q.token
           u == [r EXCEPT !.out = @ \ {q}]
           mine == {p \in r.waiting : p.token = t}
           sent == IF q.what = "shown" THEN {p \in mine : p.what = "answered" => ~r.disposed} ELSE {}
           s == Over(r, q)
<1>1. /\ DOMAIN u = RuntimeFields /\ u.w = r.w /\ u.token = r.token /\ u.stage = r.stage
      /\ u.acks = r.acks /\ u.out = r.out \ {q} /\ u.wire = r.wire /\ u.again = r.again
      /\ u.waiting = r.waiting /\ u.disposed = r.disposed
  BY DEF RuntimeOk, RuntimeFields
<1>2. s = IF q.what = "shown" THEN Acknowledged(u, t) ELSE u BY DEF Over
<1> HIDE DEF u
<1>3. /\ DOMAIN s = RuntimeFields /\ s.w = r.w /\ s.token = r.token /\ s.stage = r.stage
      /\ s.disposed = r.disposed /\ s.again = r.again
      /\ s.out = (r.out \ {q}) \cup sent /\ s.wire = r.wire \cup sent
      /\ q.what = "shown" => s.acks = r.acks \ {t} /\ s.waiting = r.waiting \ mine
      /\ q.what # "shown" => s.acks = r.acks /\ s.waiting = r.waiting
  <2>1. CASE q.what = "shown"
    <3>1. {p \in u.waiting : p.token = t} = mine BY <1>1
    <3>2. {p \in mine : p.what = "answered" => ~u.disposed} = sent BY <1>1, <2>1
    <3>3. s = Send([u EXCEPT !.acks = @ \ {t}, !.waiting = @ \ mine], sent)
      BY <1>2, <2>1, <3>1, <3>2 DEF Acknowledged
    <3> HIDE DEF sent, mine, s
    <3> QED BY <1>1, <2>1, <3>3 DEF Send, RuntimeFields
  <2>2. CASE q.what # "shown" BY <1>1, <1>2, <2>2
  <2> QED BY <2>1, <2>2
<1> HIDE DEF s
<1>4. /\ Copies(s) \subseteq Copies(r) /\ Sent(s) \subseteq Sent(r) \cup sent /\ sent \subseteq r.waiting
      /\ q \in Copies(r) /\ q \in Sent(r) /\ s.acks \subseteq r.acks /\ s.waiting \subseteq r.waiting
  BY <1>3 DEF Copies, Sent
<1>5. RuntimeOk(s) BY <1>3 DEF RuntimeOk
<1>6. \A p \in sent : p.token = t /\ p.what \in Outcomes /\ p.what # "shown" /\ p.token \in r.acks /\ q.what = "shown"
  BY DEF Deals, OutcomesWait, Outcomes
<1>7. Within(r, s)
  <2>1. \A x : Request(x, "shown") \in s.wire => Request(x, "shown") \in r.wire
    <3>1. \A x : Request(x, "shown").what = "shown" BY DEF Request
    <3> QED BY <1>3, <1>6, <3>1
  <2> QED BY <1>3, <1>4, <2>1 DEF Within, Holds
<1>8. OwnTokens(s, d) BY <1>7 DEF Within, Deals, OwnTokens
<1>9. FreshToken(s, d) BY <1>3, <1>4 DEF Deals, FreshToken
<1>q. q.what = "shown" => q = Request(t, "shown") BY <1>4 DEF Deals, RequestsOk
<1>10. ShownUnderWay(s, d)
  <2> SUFFICES ASSUME NEW x \in s.acks
               PROVE  Request(x, "shown") \in s.out /\ d[x].status \in {"reserved", "shown"}
    BY DEF ShownUnderWay
  <2>1. x \in r.acks /\ (q.what = "shown" => x # t) BY <1>3
  <2>2. Request(x, "shown") \in r.out /\ d[x].status \in {"reserved", "shown"}
    BY <2>1 DEF Deals, ShownUnderWay
  <2>3. Request(x, "shown") # q BY <2>1 DEF Request
  <2> QED BY <1>3, <2>2, <2>3
<1>11. \A p \in sent : d[p.token].status \in {"reserved", "shown"} BY <1>6 DEF Deals, ShownUnderWay
<1>12. RequestsOk(s, d)
  <2>1. \A p \in sent : p.token \notin s.acks BY <1>3, <1>6
  <2> QED BY <1>4, <1>6, <1>11, <2>1 DEF Deals, RequestsOk
<1>13. ShownOk(s, d)
  <2>1. ASSUME NEW p \in s.out, p.what = "shown" PROVE p.token \in s.acks
    <3>1. p \in r.out /\ p # q BY <1>3, <1>6, <2>1
    <3>2. p = Request(p.token, "shown") BY <2>1, <3>1 DEF Deals, RequestsOk, Sent
    <3>3. p.token \in r.acks BY <2>1, <3>1 DEF Deals, ShownOk
    <3> QED BY <1>3, <1>q, <3>1, <3>2, <3>3
  <2>2. \A p \in s.wire : p.what = "shown" => p \in r.wire BY <1>3, <1>6
  <2> QED BY <1>3, <2>1, <2>2 DEF Deals, ShownOk
<1>14. OutcomesWait(s) BY <1>3 DEF Deals, OutcomesWait
<1>15. OutcomeOnce(s) BY <1>4 DEF Deals, OutcomeOnce
<1>16. OutcomeOpen(s, d) BY <1>3, <1>4 DEF Deals, OutcomeOpen
<1>17. q.what # "shown" => t \notin s.acks BY <1>3, <1>4 DEF Deals, RequestsOk
<1> QED BY <1>3, <1>5, <1>7, <1>8, <1>9, <1>10, <1>12, <1>13, <1>14, <1>15, <1>16, <1>17 DEF Deals, s

\* An answer that failed waits for its retry.
LEMMA RetryDeals ==
  ASSUME NEW r, RuntimeOk(r), NEW d, Deals(r, d), NEW q \in r.out, q.what = "answered"
  PROVE  LET s == Retry(r, q) IN RuntimeOk(s) /\ Deals(s, d) /\ Within(r, s)
<1> DEFINE u == Over(r, q)
           p == [q EXCEPT !.try = @ + 1]
           s == Retry(r, q)
<1>0. q \in Copies(r) /\ q \in Sent(r) /\ q.what # "shown" BY DEF Copies, Sent
<1>1. RuntimeOk(u) /\ Deals(u, d) /\ Within(r, u) /\ q.token \notin u.acks BY <1>0, OverDeals
<1>2. u = [r EXCEPT !.out = @ \ {q}] BY <1>0 DEF Over
<1>3. u.wire = r.wire /\ u.out = r.out \ {q} /\ u.again = r.again /\ u.waiting = r.waiting /\ u.w = r.w /\ u.token = r.token
  BY <1>2 DEF RuntimeOk, RuntimeFields
<1> HIDE DEF u
<1>4. /\ DOMAIN s = RuntimeFields /\ s.w = u.w /\ s.token = u.token /\ s.stage = u.stage /\ s.acks = u.acks
      /\ s.out = u.out /\ s.wire = u.wire /\ s.waiting = u.waiting /\ s.again = u.again \cup {p}
  BY <1>1 DEF Retry, RuntimeOk, RuntimeFields, u
<1> HIDE DEF s
<1>5. p.token = q.token /\ p.what = "answered"
  <2>1. q.token = q.token /\ q.what = "answered" OBVIOUS
  <2> QED BY <2>1
<1> HIDE DEF p
<1>6. Sent(s) = Sent(u) \cup {p} /\ Copies(s) = Copies(u) \cup {p} /\ Copies(u) \subseteq Copies(r)
  BY <1>3, <1>4 DEF Sent, Copies
<1>7. RuntimeOk(s) BY <1>1, <1>4 DEF RuntimeOk
<1>8. Within(r, s)
  <2>1. \A t : Holds(s, t) => Holds(u, t) \/ t = q.token BY <1>4, <1>5, <1>6 DEF Holds
  <2>2. Holds(r, q.token) BY <1>0 DEF Holds
  <2> QED BY <1>1, <1>4, <2>1, <2>2 DEF Within
<1>9. OwnTokens(s, d) BY <1>8 DEF Within, Deals, OwnTokens
<1>10. FreshToken(s, d)
  <2>1. r.token # None => r.token # q.token BY <1>0 DEF Deals, FreshToken
  <2> QED BY <1>1, <1>3, <1>4, <1>5, <1>6, <2>1 DEF Deals, FreshToken
<1>11. ShownUnderWay(s, d) BY <1>1, <1>4 DEF Deals, ShownUnderWay
<1>12. d[q.token].status \in {"reserved", "shown", "answered"} BY <1>0 DEF Deals, RequestsOk
<1>13. RequestsOk(s, d)
  <2>1. p.what \in Outcomes /\ p.what # "shown" BY <1>5 DEF Outcomes
  <2> QED BY <1>1, <1>4, <1>5, <1>6, <1>12, <2>1 DEF Deals, RequestsOk
<1>14. ShownOk(s, d) BY <1>1, <1>4, <1>5 DEF Deals, ShownOk
<1>15. OutcomesWait(s) BY <1>1, <1>4 DEF Deals, OutcomesWait
<1>16. OutcomeOnce(s)
  <2>1. \A y \in Copies(u) : y.what # "shown" /\ y.token = q.token => y.what = "answered"
    BY <1>0, <1>6 DEF Deals, OutcomeOnce
  <2> QED BY <1>1, <1>5, <1>6, <2>1 DEF Deals, OutcomeOnce
<1>17. OutcomeOpen(s, d)
  <2>1. Undone(r.w) # None => Undone(r.w) # q.token BY <1>0 DEF Deals, OutcomeOpen
  <2> QED BY <1>1, <1>3, <1>4, <1>5, <1>6, <2>1 DEF Deals, OutcomeOpen
<1> QED BY <1>7, <1>8, <1>9, <1>10, <1>11, <1>13, <1>14, <1>15, <1>16, <1>17 DEF Deals, s

\* The retry is sent.
LEMMA ResendDeals ==
  ASSUME NEW r, RuntimeOk(r), NEW d, Deals(r, d), NEW q \in r.again
  PROVE  LET s == Resend(r, q) IN RuntimeOk(s) /\ Deals(s, d) /\ Within(r, s)
<1> DEFINE s == Resend(r, q)
<1>1. /\ DOMAIN s = RuntimeFields /\ s.w = r.w /\ s.token = r.token /\ s.stage = r.stage /\ s.acks = r.acks
      /\ s.out = r.out \cup {q} /\ s.wire = r.wire \cup {q} /\ s.again = r.again \ {q} /\ s.waiting = r.waiting
  BY DEF Resend, Send, RuntimeOk, RuntimeFields
<1> HIDE DEF s
<1>2. Sent(s) = Sent(r) /\ Copies(s) = Copies(r) BY <1>1 DEF Sent, Copies
<1>3. q.what # "shown" /\ \A x : q # Request(x, "shown") BY DEF Deals, ShownOk, Request
<1>4. RuntimeOk(s) BY <1>1 DEF RuntimeOk
<1>5. Within(r, s) BY <1>1, <1>2, <1>3 DEF Within, Holds
<1>6. ShownOk(s, d) BY <1>1, <1>3 DEF Deals, ShownOk
<1>7. OwnTokens(s, d) BY <1>5 DEF Within, Deals, OwnTokens
<1>8. FreshToken(s, d) /\ ShownUnderWay(s, d) /\ RequestsOk(s, d)
  BY <1>1, <1>2 DEF Deals, FreshToken, ShownUnderWay, RequestsOk
<1>9. OutcomesWait(s) /\ OutcomeOnce(s) /\ OutcomeOpen(s, d)
  BY <1>1, <1>2 DEF Deals, OutcomesWait, OutcomeOnce, OutcomeOpen
<1> QED BY <1>4, <1>5, <1>6, <1>7, <1>8, <1>9 DEF Deals, s

-----------------------------------------------------------------------------
(* Steps of one tracker                                                    *)

LEMMA TokensInit == Init => Tokens
BY DEF Init, Tokens

\* A tracker that has just been made holds nothing.
LEMMA NothingHeld ==
  ASSUME NEW d, NEW site
  PROVE  /\ RuntimeOk(Runtime(site)) /\ Deals(Runtime(site), d)
         /\ \A t : ~Holds(Runtime(site), t)
         /\ Runtime(site).token = None /\ Runtime(site).wire = {}
<1> DEFINE r == Runtime(site)
<1>1. /\ DOMAIN r = RuntimeFields /\ r.w = NoWidget /\ r.token = None /\ r.stage = "idle"
      /\ r.out = {} /\ r.wire = {} /\ r.again = {} /\ r.waiting = {} /\ r.acks = {}
  BY DEF Runtime, RuntimeFields
<1> HIDE DEF r
<1>c. Copies(r) = {} /\ Sent(r) = {} BY <1>1 DEF Copies, Sent
<1>2. PanelOk(r.w) /\ Undone(r.w) = None BY <1>1, WidgetOk DEF NoWidget
<1>3. RuntimeOk(r) BY <1>1, <1>2 DEF RuntimeOk, None
<1>4. \A t : ~Holds(r, t) BY <1>1, <1>2, <1>c DEF Holds
<1>5. Deals(r, d)
  BY <1>1, <1>2, <1>4, <1>c
     DEF Deals, OwnTokens, FreshToken, ShownUnderWay, RequestsOk, ShownOk, OutcomesWait, OutcomeOnce, OutcomeOpen
<1> QED BY <1>1, <1>3, <1>4, <1>5 DEF r

\* Deliveries that a tracker has nothing to do with do not concern it.
LEMMA DealsElsewhere ==
  ASSUME NEW r, NEW d, NEW e, Deals(r, d),
         \A t \in DOMAIN d : Holds(r, t) => /\ t \in DOMAIN e /\ e[t].session = d[t].session
                                            /\ e[t].status = d[t].status
  PROVE  Deals(r, e)
<1>1. OwnTokens(r, e) BY DEF Deals, OwnTokens
<1>2. FreshToken(r, e) BY DEF Deals, OwnTokens, FreshToken, Holds
<1>3. ShownUnderWay(r, e) BY DEF Deals, OwnTokens, ShownUnderWay, Holds
<1>4. RequestsOk(r, e) BY DEF Deals, OwnTokens, RequestsOk, Holds, Copies
<1>o. ShownOk(r, e) BY DEF Deals, OwnTokens, ShownOk, Holds, Copies, Sent
<1>5. OutcomeOpen(r, e)
  <2>1. Undone(r.w) # None => Holds(r, Undone(r.w)) BY DEF Holds
  <2> QED BY <2>1 DEF Deals, OwnTokens, OutcomeOpen
<1> QED BY <1>1, <1>2, <1>3, <1>4, <1>o, <1>5 DEF Deals

LEMMA NoneIsNoToken == Spaced => None \notin DOMAIN dels
<1>1. ASSUME NEW S, dels \in Seq(S) PROVE None \notin DOMAIN dels BY <1>1 DEF None
<1> QED BY <1>1 DEF Spaced, IsSeq

\* A handle whose tracker holds no more than it did.
LEMMA StepTokens ==
  ASSUME Owned, Spaced, Tokens, NEW i \in DOMAIN hs, NEW g, hs' = [hs EXCEPT ![i] = g],
         UNCHANGED << dels, refused >>,
         RuntimeOk(g.r), Deals(g.r, dels), Within(hs[i].r, g.r)
  PROVE  Tokens'
<1>1. /\ DOMAIN hs' = DOMAIN hs
      /\ \A j \in DOMAIN hs : hs'[j] = IF j = i THEN g ELSE hs[j]
  BY SeqUpdate DEF Owned
<1>2. \A j \in DOMAIN hs' : RuntimeOk(hs'[j].r) /\ Deals(hs'[j].r, dels') BY <1>1 DEF Tokens
<1>3. \A j \in DOMAIN hs : \A t : Holds(hs'[j].r, t) => Holds(hs[j].r, t) BY <1>1 DEF Within
<1>4. \A j, k \in DOMAIN hs' : \A t : j # k /\ Holds(hs'[j].r, t) => ~Holds(hs'[k].r, t)
  BY <1>1, <1>3 DEF Tokens
<1>5. ASSUME NEW t, Lost(t) PROVE Lost(t)'
  <2>1. t # None BY <1>5, NoneIsNoToken DEF Lost
  <2> QED BY <1>1, <1>5, <2>1 DEF Lost, Within
<1>6. \A q \in refused' : Excused(q)' BY <1>5 DEF Tokens, Excused
<1> QED BY <1>2, <1>4, <1>6 DEF Tokens

LEMMA CalmTokens ==
  ASSUME Owned, Spaced, Tokens, NEW i \in DOMAIN hs, NEW g, hs' = [hs EXCEPT ![i] = g],
         UNCHANGED << dels, refused >>, Calm(hs[i].r, g.r)
  PROVE  Tokens'
<1>1. RuntimeOk(g.r) /\ Deals(g.r, dels) /\ Within(hs[i].r, g.r)
  BY CalmDeals DEF Tokens
<1> QED BY <1>1, StepTokens

\* The handles' calls and the start-up
LEMMA RunningIs ==
  ASSUME NEW h, HandleOk(h), NEW r
  PROVE  [h EXCEPT !.r = r].r = r
BY DEF HandleOk, HandleFields

LEMMA StopCalm ==
  ASSUME NEW h, HandleOk(h), RuntimeOk(h.r)
  PROVE  Calm(h.r, Stop(h).r)
<1>1. CASE h.phase = "active"
  <2>1. Stop(h).r = Shutdown(h.r) BY <1>1 DEF Stop, HandleOk, HandleFields
  <2> QED BY <2>1, ShutdownCalm
<1>2. CASE h.phase # "active"
  <2>1. Stop(h).r = h.r BY <1>2 DEF Stop, Fail, HandleOk, HandleFields
  <2> QED BY <2>1, CalmSelf
<1> QED BY <1>1, <1>2

LEMMA StartCalm ==
  ASSUME NEW h, HandleOk(h), RuntimeOk(h.r), NEW site
  PROVE  Calm(h.r, Start([h EXCEPT !.attempt = 0], site).r)
<1> DEFINE b == [h EXCEPT !.attempt = 0]
           l == [b EXCEPT !.listening = TRUE, !.r = Runtime(site)]
<1>1. DOMAIN b = HandleFields /\ b.r = h.r BY DEF HandleOk, HandleFields
<1> HIDE DEF b
<1>2. DOMAIN l = HandleFields /\ l.r = Runtime(site) BY <1>1 DEF HandleFields
<1> HIDE DEF l
<1>3. Calm(h.r, l.r) /\ RuntimeOk(l.r) BY <1>2, RuntimeCalm DEF Calm
<1>4. Fail(b).r = h.r BY <1>1 DEF Fail, HandleFields
<1>5. Calm(h.r, Activate(l).r) BY <1>2, <1>3, ActivateCalm, CalmTwice
<1> QED BY <1>3, <1>4, <1>5, CalmSelf DEF Start, l, b

LEMMA CallCalm ==
  ASSUME NEW h, HandleOk(h), RuntimeOk(h.r), NEW call
  PROVE  Calm(h.r, Call(h, call).r)
<1>1. CASE h.phase = "starting"
  <2>1. Call(h, call).r = h.r BY <1>1 DEF Call, HandleOk, HandleFields
  <2> QED BY <2>1, CalmSelf
<1>2. CASE h.phase \in {"active", "stopped"}
  BY <1>2, PerformCalm, RunningIs DEF Call
<1>3. CASE h.phase = "failed" BY <1>3, CalmSelf DEF Call
<1> QED BY <1>1, <1>2, <1>3 DEF HandleOk

LEMMA ExpandCampaignCalm ==
  ASSUME NEW h, HandleOk(h), RuntimeOk(h.r)
  PROVE  Calm(h.r, ExpandCampaign(h).r)
<1>1. CASE h.phase = "starting"
  <2>1. ExpandCampaign(h).r = h.r BY <1>1 DEF ExpandCampaign, HandleOk, HandleFields
  <2> QED BY <2>1, CalmSelf
<1>2. CASE h.phase \in {"active", "stopped"}
  BY <1>2, ExpandCalm, RunningIs DEF ExpandCampaign
<1>3. CASE h.phase = "failed" BY <1>3, CalmSelf DEF ExpandCampaign
<1> QED BY <1>1, <1>2, <1>3 DEF HandleOk

LEMMA StopTokens ==
  ASSUME Owned, Spaced, Tokens, NEW i, StopHandle(i), UNCHANGED << dels, refused >>
  PROVE  Tokens'
<1>1. CASE i \notin DOMAIN hs
  <2>1. hs' = hs BY <1>1, SeqBeyond DEF StopHandle, Owned
  <2> QED BY <2>1 DEF Tokens, Excused, Lost
<1>2. CASE i \in DOMAIN hs
  <2>1. Calm(hs[i].r, Stop(hs[i]).r) BY <1>2, StopCalm DEF Owned, Tokens
  <2> QED BY <1>2, <2>1, CalmTokens DEF StopHandle
<1> QED BY <1>1, <1>2

LEMMA TrackerTokens ==
  ASSUME Owned, Spaced, Tokens, NEW i \in DOMAIN hs, Tracker(i)
  PROVE  Tokens'
<1> DEFINE h == hs[i]
<1>0. HandleOk(h) /\ RuntimeOk(h.r) BY DEF Owned, Tokens
<1> HIDE DEF h
<1>h. h = hs[i] BY DEF h
<1>1. ASSUME NEW g, Step(i, g), Calm(h.r, g.r) PROVE Tokens'
  BY <1>h, <1>1, CalmTokens DEF Step
<1>2. ASSUME StopCalled(i) PROVE Tokens'
  BY <1>2, StopTokens DEF StopCalled
<1>3. ASSUME Configured(i) PROVE Tokens'
  <2>1. Calm(h.r, ConfigArrived(h, page.site).r) BY <1>0, StartCalm DEF ConfigArrived
  <2> QED BY <1>h, <1>1, <1>3, <2>1 DEF Configured
<1>4. ASSUME AttemptFails(i) PROVE Tokens'
  <2>1. [h EXCEPT !.attempt = @ + 1].r = h.r BY <1>0 DEF HandleOk, HandleFields
  <2>2. Calm(h.r, ConfigFailed(h).r) BY <1>0, <2>1, StartCalm, CalmSelf DEF ConfigFailed
  <2> QED BY <1>h, <1>1, <1>4, <2>2 DEF AttemptFails
<1>5. ASSUME Calls(i) PROVE Tokens'
  <2>1. PICK call \in {"identify", "track"} : Step(i, Call(h, call)) BY <1>h, <1>5 DEF Calls
  <2>2. Calm(h.r, Call(h, call).r) BY <1>0, CallCalm
  <2> QED BY <1>1, <2>1, <2>2
<1>6. ASSUME Click(i) PROVE Tokens'
  <2>1. Calm(h.r, TrackedClick(h).r) BY <1>0, MountCalm, RunningIs DEF TrackedClick
  <2> QED BY <1>h, <1>1, <1>6, <2>1 DEF Click
<1>7. ASSUME Navigate(i) PROVE Tokens'
  <2>1. Calm(h.r, RouteChanged(h).r) BY <1>0, MountCalm, RunningIs DEF RouteChanged
  <2> QED BY <1>h, <1>1, <1>7, <2>1 DEF Navigate
<1>8. ASSUME Claim(i) PROVE Tokens'
  <2>1. ClaimReplay(h).r = h.r BY <1>0 DEF ClaimReplay, HandleOk, HandleFields
  <2>2. Calm(h.r, ClaimReplay(h).r) BY <1>0, <2>1, CalmSelf
  <2> QED BY <1>h, <1>1, <1>8, <2>2 DEF Claim
<1>9. ASSUME ClaimStep(i) PROVE Tokens'
  <2> DEFINE g == [h EXCEPT !.claim = IF @ = "flushed" THEN "asked" ELSE "settled"]
  <2>1. g.r = h.r BY <1>0 DEF HandleOk, HandleFields
  <2>2. Step(i, g) BY <1>h, <1>9 DEF ClaimStep
  <2>3. Calm(h.r, g.r) BY <1>0, <2>1, CalmSelf
  <2> QED BY <1>1, <2>2, <2>3
<1>10. ASSUME ExpandCalled(i) PROVE Tokens'
  <2>1. Calm(h.r, ExpandCampaign(h).r) BY <1>0, ExpandCampaignCalm
  <2> QED BY <1>h, <1>1, <1>10, <2>1 DEF ExpandCalled
<1>11. ASSUME WidgetImported(i) PROVE Tokens'
  <2>1. Calm(h.r, [h EXCEPT !.r = Imported(h.r)].r) BY <1>0, ImportedCalm, RunningIs
  <2> QED BY <1>h, <1>1, <1>11, <2>1 DEF WidgetImported, Running
<1>12. ASSUME ImportLost(i) PROVE Tokens'
  <2>1. Calm(h.r, [h EXCEPT !.r = ImportFails(h.r)].r) BY <1>0, ImportFailsCalm, RunningIs
  <2> QED BY <1>h, <1>1, <1>12, <2>1 DEF ImportLost, Running
<1> QED BY <1>2, <1>3, <1>4, <1>5, <1>6, <1>7, <1>8, <1>9, <1>10, <1>11, <1>12 DEF Tracker
-----------------------------------------------------------------------------
(* Steps of a campaign                                                     *)

\* The server's answer to tracker i is new; the others keep what they had.
LEMMA DeliveryTokens ==
  ASSUME Owned, Spaced, Tokens, NEW i \in DOMAIN hs, NEW s, hs' = [hs EXCEPT ![i] = [hs[i] EXCEPT !.r = s]],
         RuntimeOk(s), Deals(s, dels'), UNCHANGED refused, DOMAIN dels \subseteq DOMAIN dels',
         \A t : Holds(s, t) => Holds(hs[i].r, t) \/ t \notin DOMAIN dels,
         \A t \in DOMAIN dels : t = s.token \/ Request(t, "shown") \in s.wire
                              => t = hs[i].r.token \/ Request(t, "shown") \in hs[i].r.wire,
         \A t \in DOMAIN dels : dels[t].session = "this tab" =>
            dels'[t] = dels[t] \/ (dels'[t].session = "this tab" /\ Holds(hs[i].r, t)),
         \A t : Lost(t) => dels'[t] = dels[t]
  PROVE  Tokens'
<1> DEFINE g == [hs[i] EXCEPT !.r = s]
<1>1. HandleOk(hs[i]) BY DEF Owned
<1>2. g.r = s BY <1>1, RunningIs
<1> HIDE DEF g
<1>3. /\ DOMAIN hs' = DOMAIN hs
      /\ \A j \in DOMAIN hs : hs'[j] = IF j = i THEN g ELSE hs[j]
  BY SeqUpdate DEF Owned, g
<1>4. ASSUME NEW j \in DOMAIN hs PROVE RuntimeOk(hs'[j].r) /\ Deals(hs'[j].r, dels')
  <2>1. CASE j = i BY <1>2, <1>3, <2>1
  <2>2. CASE j # i
    <3>1. hs'[j] = hs[j] BY <1>3, <2>2
    <3>2. RuntimeOk(hs[j].r) /\ Deals(hs[j].r, dels) BY DEF Tokens
    <3>3. \A t \in DOMAIN dels : Holds(hs[j].r, t) => dels'[t] = dels[t]
      BY <2>2, <3>2 DEF Tokens, Deals, OwnTokens
    <3>4. \A t \in DOMAIN dels : Holds(hs[j].r, t) => /\ t \in DOMAIN dels' /\ dels'[t].session = dels[t].session
                                                      /\ dels'[t].status = dels[t].status
      BY <3>3
    <3>5. Deals(hs[j].r, dels') BY <3>2, <3>4, DealsElsewhere, ZenonT(60)
    <3> QED BY <3>1, <3>2, <3>5
  <2> QED BY <2>1, <2>2
<1>5. ASSUME NEW j \in DOMAIN hs, NEW k \in DOMAIN hs, NEW t, j # k, Holds(hs'[j].r, t)
      PROVE  ~Holds(hs'[k].r, t)
  <2>1. \A m \in DOMAIN hs : Holds(hs[m].r, t) => t \in DOMAIN dels BY DEF Tokens, Deals, OwnTokens
  <2> QED BY <1>2, <1>3, <1>5, <2>1 DEF Tokens
<1>6. ASSUME NEW t, Lost(t) PROVE Lost(t)'
  BY <1>2, <1>3, <1>6 DEF Lost
<1>7. \A j \in DOMAIN hs' : RuntimeOk(hs'[j].r) /\ Deals(hs'[j].r, dels') BY <1>3, <1>4
<1>8. \A j, k \in DOMAIN hs' : \A t : j # k /\ Holds(hs'[j].r, t) => ~Holds(hs'[k].r, t)
  <2> SUFFICES ASSUME NEW j \in DOMAIN hs', NEW k \in DOMAIN hs', NEW t, j # k, Holds(hs'[j].r, t)
               PROVE  ~Holds(hs'[k].r, t)
    BY ZenonT(60)
  <2>1. j \in DOMAIN hs /\ k \in DOMAIN hs BY <1>3
  <2> QED BY <1>5, <2>1
<1>9. \A q \in refused' : Excused(q)' BY <1>6 DEF Tokens, Excused
<1> QED BY <1>7, <1>8, <1>9 DEF Tokens

LEMMA ReservedDeals ==
  ASSUME NEW r, RuntimeOk(r), NEW d, Deals(r, d), NEW n \in Nat, n # None, n \notin DOMAIN d,
         NEW e, DOMAIN d \subseteq DOMAIN e, \A t \in DOMAIN d : e[t] = d[t],
         n \in DOMAIN e, e[n].status = "reserved", e[n].session = "this tab"
  PROVE  LET s == [r EXCEPT !.stage = "reserved", !.token = n]
         IN /\ RuntimeOk(s) /\ Deals(s, e) /\ s.token = n /\ s.wire = r.wire
            /\ \A t : Holds(s, t) => Holds(r, t) \/ t = n
<1> DEFINE s == [r EXCEPT !.stage = "reserved", !.token = n]
<1>1. /\ DOMAIN s = RuntimeFields /\ s.w = r.w /\ s.token = n /\ s.stage = "reserved"
      /\ s.acks = r.acks /\ s.out = r.out /\ s.wire = r.wire /\ s.again = r.again /\ s.waiting = r.waiting
  BY DEF RuntimeOk, RuntimeFields
<1> HIDE DEF s
<1>c. Copies(s) = Copies(r) /\ Sent(s) = Sent(r) BY <1>1 DEF Copies, Sent
<1>2. RuntimeOk(s) BY <1>1 DEF RuntimeOk
<1>3. \A t : Holds(s, t) => Holds(r, t) \/ t = n BY <1>1, <1>c DEF Holds
<1>4. Deals(r, e) BY DealsElsewhere DEF Deals, OwnTokens
<1>5. OwnTokens(s, e) BY <1>3, <1>4 DEF Deals, OwnTokens
<1>6. FreshToken(s, e)
  <2>1. ~Holds(r, n) BY DEF Deals, OwnTokens
  <2> QED BY <1>1, <1>c, <2>1 DEF FreshToken, Holds
<1>7. ShownUnderWay(s, e) BY <1>1, <1>4 DEF Deals, ShownUnderWay
<1>8. RequestsOk(s, e) BY <1>1, <1>4, <1>c DEF Deals, RequestsOk
<1>o. ShownOk(s, e) BY <1>1, <1>4 DEF Deals, ShownOk
<1>9. OutcomesWait(s) BY <1>1, <1>4 DEF Deals, OutcomesWait
<1>10. OutcomeOnce(s) BY <1>4, <1>c DEF Deals, OutcomeOnce
<1>11. OutcomeOpen(s, e) BY <1>1, <1>4, <1>c DEF Deals, OutcomeOpen
<1> QED BY <1>1, <1>2, <1>3, <1>5, <1>6, <1>7, <1>8, <1>o, <1>9, <1>10, <1>11 DEF Deals, s

LEMMA EligibilityTokens ==
  ASSUME Owned, Spaced, Tokens, NEW i \in DOMAIN hs, Eligibility(i)
  PROVE  Tokens'
<1> DEFINE r == hs[i].r
           n == Len(dels) + 1
           s == [r EXCEPT !.stage = "reserved", !.token = n]
<1>0. RuntimeOk(r) /\ Deals(r, dels) /\ HandleOk(hs[i]) BY DEF Tokens, Owned
<1>1. CASE Reservable(dels, r.who, now)
  <2>1. /\ DOMAIN dels = 1..Len(dels) /\ Len(dels) \in Nat /\ DOMAIN dels' = 1..n
        /\ \A t \in DOMAIN dels : dels'[t] = dels[t]
        /\ dels'[n].status = "reserved" /\ dels'[n].session = "this tab"
    BY <1>1, ReserveSpaced DEF Eligibility
  <2>2. /\ n \in Nat /\ n # None /\ n \notin DOMAIN dels /\ n \in DOMAIN dels'
        /\ DOMAIN dels \subseteq DOMAIN dels'
    <3>1. ASSUME NEW m \in Nat
          PROVE  /\ m + 1 \in Nat /\ m + 1 # 0 /\ m + 1 \notin 1..m /\ m + 1 \in 1..(m + 1)
                 /\ 1..m \subseteq 1..(m + 1)
      OBVIOUS
    <3> QED BY <2>1, <3>1 DEF None
  <2>3. hs' = [hs EXCEPT ![i] = [hs[i] EXCEPT !.r = s]] BY <1>1 DEF Eligibility
  <2>4. UNCHANGED refused BY DEF Eligibility
  <2>5. /\ RuntimeOk(s) /\ Deals(s, dels') /\ s.token = n /\ s.wire = r.wire
        /\ \A t : Holds(s, t) => Holds(r, t) \/ t = n
    <3>1. ASSUME NEW k, k = n PROVE
            LET z == [r EXCEPT !.stage = "reserved", !.token = k]
            IN /\ RuntimeOk(z) /\ Deals(z, dels') /\ z.token = k /\ z.wire = r.wire
               /\ \A t : Holds(z, t) => Holds(r, t) \/ t = k
      <4>1. /\ k \in Nat /\ k # None /\ k \notin DOMAIN dels /\ k \in DOMAIN dels'
            /\ dels'[k].status = "reserved" /\ dels'[k].session = "this tab"
        BY <2>1, <2>2, <3>1
      <4> HIDE DEF n, r
      <4> QED BY <1>0, <2>1, <2>2, <4>1, ReservedDeals, ZenonT(60)
    <3> QED BY <3>1
  <2>6. \A t : Lost(t) => dels'[t] = dels[t] BY <2>1 DEF Lost
  <2> HIDE DEF s, n
  <2> QED BY <2>1, <2>2, <2>3, <2>4, <2>5, <2>6, DeliveryTokens
<1>2. CASE ~Reservable(dels, r.who, now)
  <2>1. Calm(r, [hs[i] EXCEPT !.r = Declined(r)].r) BY <1>0, DeclinedCalm, RunningIs
  <2>2. hs' = [hs EXCEPT ![i] = [hs[i] EXCEPT !.r = Declined(r)]] /\ UNCHANGED << dels, refused >>
    BY <1>2 DEF Eligibility
  <2> QED BY <2>1, <2>2, CalmTokens
<1> QED BY <1>1, <1>2

\* Whether its request is accepted or not, the server knows a tracker's state.
LEMMA HandledTokens ==
  ASSUME Owned, Spaced, Tokens, NEW i \in DOMAIN hs, NEW q \in hs[i].r.wire, Handled(i, q)
  PROVE  Tokens'
<1> DEFINE r == hs[i].r
           t == q.token
           s == [r EXCEPT !.wire = @ \ {q}]
<1>0. RuntimeOk(r) /\ Deals(r, dels) /\ HandleOk(hs[i]) /\ None \notin DOMAIN dels
  BY NoneIsNoToken DEF Tokens, Owned
<1>1. /\ Holds(r, t) /\ t \in DOMAIN dels /\ dels[t].session = "this tab" /\ t # None
      /\ q.what \in {"shown"} \cup Outcomes /\ DeliveryOk(dels[t], now)
      /\ q.what = "shown" => q = Request(t, "shown")
      /\ q.what # "shown" => t \notin r.acks /\ dels[t].status \in {"reserved", "shown", q.what}
  BY <1>0 DEF Deals, Holds, OwnTokens, RequestsOk, Spaced, Copies, Sent
<1>2. q.what # "reserved" BY <1>1 DEF Outcomes
<1>3. hs' = [hs EXCEPT ![i] = [hs[i] EXCEPT !.r = s]]
  BY <1>0 DEF Handled, HandleOk, HandleFields
<1>4. s.wire = r.wire \ {q} BY <1>0 DEF RuntimeOk, RuntimeFields
<1>5. dels[t].shown = Never => dels[t].status = "reserved" BY <1>1, NotShown
<1>6. CASE Accepts(dels[t], q.what, now)
  <2>1. dels' = [dels EXCEPT ![t] = Mark(@, q.what, now)] /\ UNCHANGED << now, refused >>
    BY <1>6 DEF Handled
  <2>2. /\ DOMAIN dels' = DOMAIN dels
        /\ \A u \in DOMAIN dels : dels'[u].session = dels[u].session /\ (u # t => dels'[u] = dels[u])
        /\ dels'[t].status = q.what
    BY <1>1, <1>2, <1>6, <2>1, MarkSpaced, ZenonT(60)
  <2>0. /\ \A u \in DOMAIN dels : u # t => dels'[u].status = dels[u].status
        /\ \A u \in DOMAIN dels : dels'[u].session = dels[u].session
        /\ dels[t].status = IF q.what = "shown" THEN "reserved" ELSE "shown"
    BY <1>6, <2>2 DEF Accepts, Live
  <2>3. RuntimeOk(s) /\ Deals(s, dels') /\ Within(r, s)
    <3>1. q \in r.wire OBVIOUS
    <3> HIDE DEF r
    <3> QED BY <1>0, <2>0, <2>2, <3>1, HandledDeals
  <2> HIDE DEF s, r
  <2>4. ~Lost(t)
    <3> SUFFICES ASSUME Lost(t) PROVE FALSE OBVIOUS
    <3>1. dels[t].shown = Never /\ Request(t, "shown") \notin r.wire BY DEF Lost, r
    <3>2. q.what # "shown" BY <1>1, <3>1 DEF r
    <3> QED BY <1>5, <1>6, <3>1, <3>2 DEF Accepts
  <2>5. \A u : Lost(u) => dels'[u] = dels[u] BY <2>2, <2>4 DEF Lost
  <2>6. /\ \A u : Holds(s, u) => Holds(r, u) \/ u \notin DOMAIN dels
        /\ \A u \in DOMAIN dels : u = s.token \/ Request(u, "shown") \in s.wire
                                => u = r.token \/ Request(u, "shown") \in r.wire
        /\ \A u \in DOMAIN dels : dels[u].session = "this tab" =>
              dels'[u] = dels[u] \/ (dels'[u].session = "this tab" /\ Holds(r, u))
    BY <1>0, <1>1, <2>2, <2>3 DEF Within
  <2> QED BY <1>3, <2>1, <2>2, <2>3, <2>5, <2>6, DeliveryTokens DEF r
<1>7. CASE ~Accepts(dels[t], q.what, now)
  <2> DEFINE g == [hs[i] EXCEPT !.r = s]
  <2>1. refused' = refused \cup (IF q.what = "shown" THEN {} ELSE {Refusal(i, q)}) /\ UNCHANGED dels
    BY <1>7 DEF Handled
  <2>2. g.r = s BY <1>0, RunningIs
  <2>3. RuntimeOk(s) /\ Deals(s, dels) /\ Within(r, s) /\ t # s.token
    <3>1. q \in r.wire OBVIOUS
    <3> HIDE DEF r
    <3> QED BY <1>0, <3>1, HandledDeals
  <2> HIDE DEF s, r, g
  <2>5. /\ DOMAIN hs' = DOMAIN hs
        /\ \A j \in DOMAIN hs : hs'[j] = IF j = i THEN g ELSE hs[j]
    BY <1>3, SeqUpdate DEF Owned, g
  <2>6. ASSUME NEW u, Lost(u) PROVE Lost(u)'
    <3>1. u # None BY <1>0, <2>6 DEF Lost
    <3> QED BY <2>1, <2>2, <2>3, <2>5, <2>6, <3>1 DEF Lost, Within, r
  <2>7. ASSUME q.what # "shown", NEW f, f = Refusal(i, q) PROVE Excused(f)'
    <3>1. f.token = t /\ f.what = q.what /\ f.has = dels[t].status
          /\ (f.late <=> Request(t, "shown") \in r.wire \ r.out)
      BY <2>7 DEF Refusal, r
    <3>2. dels[t].status \in {"reserved", q.what} BY <1>1, <1>7, <2>7 DEF Accepts
    <3>3. CASE dels[t].status = "reserved" /\ ~f.late
      <4>1. dels[t].shown = Never BY <1>1, <3>3 DEF DeliveryOk
      <4>2. Request(t, "shown") \notin r.out
        <5>1. Request(t, "shown").what = "shown" /\ Request(t, "shown").token = t BY DEF Request
        <5> QED BY <1>0, <1>1, <2>7, <5>1 DEF Deals, ShownOk
      <4>3. Request(t, "shown") \notin r.wire BY <3>1, <3>3, <4>2
      <4>4. ASSUME NEW j \in DOMAIN hs, j # i
            PROVE  hs[j].r.token # t /\ Request(t, "shown") \notin hs[j].r.wire
        <5>1. ~Holds(hs[j].r, t) BY <1>1, <4>4 DEF Tokens, r
        <5>2. Request(t, "shown").token = t BY DEF Request
        <5> QED BY <1>1, <5>1, <5>2 DEF Holds, Copies, Sent
      <4>5. s.token # t /\ Request(t, "shown") \notin s.wire BY <1>4, <2>3, <4>3
      <4>6. Lost(t)' BY <1>1, <2>1, <2>2, <2>5, <4>1, <4>4, <4>5 DEF Lost
      <4> QED BY <3>1, <3>3, <4>6 DEF Excused
    <3> QED BY <3>1, <3>2, <3>3 DEF Excused
  <2>8. \A j \in DOMAIN hs' : RuntimeOk(hs'[j].r) /\ Deals(hs'[j].r, dels')
    BY <2>1, <2>2, <2>3, <2>5 DEF Tokens
  <2>9. \A j \in DOMAIN hs : \A u : Holds(hs'[j].r, u) => Holds(hs[j].r, u)
    BY <2>2, <2>3, <2>5 DEF Within, r
  <2>10. \A j, k \in DOMAIN hs' : \A u : j # k /\ Holds(hs'[j].r, u) => ~Holds(hs'[k].r, u)
    BY <2>5, <2>9 DEF Tokens
  <2>11. \A p \in refused' : Excused(p)'
    <3>1. \A p \in refused : Excused(p)' BY <2>6 DEF Tokens, Excused
    <3> SUFFICES ASSUME NEW p \in refused' PROVE Excused(p)' OBVIOUS
    <3> QED BY <2>1, <2>7, <3>1
  <2> QED BY <2>8, <2>10, <2>11 DEF Tokens
<1> QED BY <1>6, <1>7

\* The campaign opens, in a widget that is there or is placed for it.
LEMMA ProceedDeals ==
  ASSUME NEW r, RuntimeOk(r), NEW d, Deals(r, d), r.stage = "reserved"
  PROVE  LET s == Proceed(r) IN RuntimeOk(s) /\ Deals(s, d) /\ Within(r, s)
<1> DEFINE w == DestroyWidget(r)
           m == [w EXCEPT !.stage = "importing"]
<1>1. r.token # None BY DEF RuntimeOk
<1>2. Calm(r, Declined(r)) BY DeclinedCalm
<1>3. Calm(r, w) /\ w.token = r.token BY DestroyCalm DEF WidgetOnly
<1> HIDE DEF w
<1>4. Calm(r, m)
  BY <1>1, <1>3 DEF Calm, RuntimeOk, RuntimeFields
<1> HIDE DEF m
<1> QED BY <1>1, <1>2, <1>4, CalmDeals, OpenedDeals DEF Proceed, m, w

LEMMA ExpandedDeals ==
  ASSUME NEW r, RuntimeOk(r), NEW d, Deals(r, d), r.stage = "importing"
  PROVE  LET s == ExpandImported(r) IN RuntimeOk(s) /\ Deals(s, d) /\ Within(r, s)
<1> DEFINE p == Place(r, SectionsWith(r, TRUE))
<1>1. Calm(r, p) /\ p.token = r.token BY PlaceCalm DEF WidgetOnly
<1> HIDE DEF p
<1>2. RuntimeOk(p) /\ Deals(p, d) /\ Within(r, p) BY <1>1, CalmDeals
<1>3. p.token # None BY <1>1 DEF RuntimeOk
<1>4. RuntimeOk(Opened(p)) /\ Deals(Opened(p), d) /\ Within(p, Opened(p)) BY <1>2, <1>3, OpenedDeals
<1>5. Within(r, Opened(p)) BY <1>2, <1>4 DEF Within
<1> QED BY <1>4, <1>5 DEF ExpandImported, p

LEMMA CampaignTokens ==
  ASSUME Owned, Spaced, Tokens, NEW i \in DOMAIN hs, Campaign(i)
  PROVE  Tokens'
<1> DEFINE r == hs[i].r
<1>0. RuntimeOk(r) /\ Deals(r, dels) /\ HandleOk(hs[i]) BY DEF Tokens, Owned
<1>1. ASSUME NEW s, Running(i, s), RuntimeOk(s), Deals(s, dels), Within(r, s)
      PROVE  Tokens'
  <2> DEFINE g == [hs[i] EXCEPT !.r = s]
  <2>1. g.r = s BY <1>0, RunningIs
  <2>2. hs' = [hs EXCEPT ![i] = g] /\ UNCHANGED << dels, refused >> BY <1>1 DEF Running, Step
  <2> HIDE DEF g
  <2> QED BY <1>1, <2>1, <2>2, StepTokens
<1>2. ASSUME NEW s, Running(i, s), Calm(r, s) PROVE Tokens'
  <2>1. RuntimeOk(s) /\ Deals(s, dels) /\ Within(r, s) BY <1>0, <1>2, CalmDeals
  <2> QED BY <1>1, <1>2, <2>1
<1>3. ASSUME NEW v, Panel(i, v), PanelReports(r.w, v) PROVE Tokens'
  <2>1. RuntimeOk(After(r, v)) /\ Deals(After(r, v), dels) /\ Within(r, After(r, v))
    BY <1>0, <1>3, AfterDeals
  <2> QED BY <1>1, <1>3, <2>1 DEF Panel
<1> HIDE DEF r
<1>h. r = hs[i] .r BY DEF r
<1>w. PanelOk(r.w) BY <1>0 DEF RuntimeOk
<1>4. ASSUME Eligibility(i) PROVE Tokens' BY <1>4, EligibilityTokens
<1>5. ASSUME EligibilityLost(i) PROVE Tokens'
  BY <1>0, <1>2, <1>5, <1>h, DeclinedCalm DEF EligibilityLost
<1>6. ASSUME TokenArrives(i) PROVE Tokens'
  <2>1. r.stage = "reserved" /\ Running(i, Proceed(r)) BY <1>6, <1>h DEF TokenArrives
  <2>2. RuntimeOk(Proceed(r)) /\ Deals(Proceed(r), dels) /\ Within(r, Proceed(r))
    BY <1>0, <2>1, ProceedDeals
  <2> QED BY <1>1, <2>1, <2>2
<1>7. ASSUME CampaignImported(i) PROVE Tokens'
  <2>1. r.stage = "importing" /\ Running(i, ExpandImported(r)) BY <1>7, <1>h DEF CampaignImported
  <2>2. RuntimeOk(ExpandImported(r)) /\ Deals(ExpandImported(r), dels) /\ Within(r, ExpandImported(r))
    BY <1>0, <2>1, ExpandedDeals
  <2> QED BY <1>1, <2>1, <2>2
<1>8. ASSUME CampaignImportLost(i) PROVE Tokens'
  BY <1>0, <1>2, <1>8, <1>h, DeclinedCalm DEF CampaignImportLost
<1>9. ASSUME NEW q \in r.wire, Handled(i, q) PROVE Tokens'
  BY <1>9, <1>h, HandledTokens
<1>10. ASSUME NEW q \in r.out, RequestOver(i, q) \/ RequestLost(i, q) PROVE Tokens'
  <2>1. Running(i, Over(r, q)) BY <1>10, <1>h DEF RequestOver, RequestLost
  <2>2. RuntimeOk(Over(r, q)) /\ Deals(Over(r, q), dels) /\ Within(r, Over(r, q)) BY <1>0, OverDeals
  <2> QED BY <1>1, <2>1, <2>2
<1>r. ASSUME NEW q \in r.out, RequestRetried(i, q) PROVE Tokens'
  <2>1. Running(i, Retry(r, q)) /\ q.what = "answered" BY <1>r, <1>h DEF RequestRetried, Retryable
  <2>2. RuntimeOk(Retry(r, q)) /\ Deals(Retry(r, q), dels) /\ Within(r, Retry(r, q))
    BY <1>0, <2>1, RetryDeals
  <2> QED BY <1>1, <2>1, <2>2
<1>t. ASSUME NEW q \in r.again, RetryTimer(i, q) PROVE Tokens'
  <2>1. Running(i, Resend(r, q)) BY <1>t, <1>h DEF RetryTimer
  <2>2. RuntimeOk(Resend(r, q)) /\ Deals(Resend(r, q), dels) /\ Within(r, Resend(r, q))
    BY <1>0, ResendDeals
  <2> QED BY <1>1, <2>1, <2>2
<1>11. ASSUME OpenLauncher(i) PROVE Tokens'
  <2> DEFINE v == OpenAt(r.w, r.w.section)
  <2>1. Running(i, [r EXCEPT !.w = v]) BY <1>11, <1>h DEF OpenLauncher
  <2>2. PanelCalm(r.w, v) BY <1>w, OpenAtCalm
  <2> HIDE DEF v
  <2>3. Calm(r, [r EXCEPT !.w = v]) BY <1>0, <2>2, PanelOnly
  <2> QED BY <1>2, <2>1, <2>3
<1>12. ASSUME CloseWidget(i) \/ ThanksEnd(i) PROVE Tokens'
  BY <1>3, <1>12, <1>h, <1>w, CloseReports DEF CloseWidget, ThanksEnd
<1>13. ASSUME Answer(i) PROVE Tokens'
  BY <1>3, <1>13, <1>h, <1>w, SubmitReports DEF Answer
<1>14. ASSUME SkipCampaign(i) PROVE Tokens'
  BY <1>3, <1>14, <1>h, <1>w, SkipReports DEF SkipCampaign
<1>15. ASSUME Finishing(i) PROVE Tokens'
  BY <1>0, <1>2, <1>15, <1>h, FinishedCalm DEF Finishing
<1> QED BY <1>4, <1>5, <1>6, <1>7, <1>8, <1>9, <1>10, <1>r, <1>t, <1>11, <1>12, <1>13, <1>14, <1>15, <1>h
     DEF Campaign

-----------------------------------------------------------------------------
(* Steps of the page                                                       *)

LEMMA InitCalledTokens ==
  ASSUME Owned, Spaced, Tokens, InitCalled, UNCHANGED << dels, refused >>
  PROVE  Tokens'
<1>1. CASE owner # None
  BY <1>1 DEF InitCalled, Tokens, Excused, Lost
<1>2. CASE owner = None
  <2> DEFINE n == Len(hs) + 1
             r == NewHandle.r
  <2>1. hs' = Append(hs, NewHandle) BY <1>2 DEF InitCalled
  <2>2. /\ DOMAIN hs = 1..Len(hs) /\ Len(hs) \in Nat /\ DOMAIN hs' = 1..n
        /\ \A j \in DOMAIN hs' : hs'[j] = IF j = n THEN NewHandle ELSE hs[j]
    BY <2>1, SeqAppend DEF Owned
  <2>3. r = Runtime(DEFAULTS) BY DEF NewHandle, QueuedHandle, Fail
  <2>4. /\ RuntimeOk(r) /\ Deals(r, dels) /\ \A t : ~Holds(r, t)
        /\ r.token = None /\ r.wire = {}
    BY <2>3, NothingHeld
  <2> HIDE DEF r
  <2>5. \A j \in DOMAIN hs' : (j \in DOMAIN hs /\ hs'[j] = hs[j]) \/ hs'[j].r = r
    <3>1. ASSUME NEW m \in Nat, NEW j \in 1..(m + 1), j # m + 1 PROVE j \in 1..m
      BY <3>1
    <3> QED BY <2>2, <3>1 DEF r
  <2>6. \A j \in DOMAIN hs' : RuntimeOk(hs'[j].r) /\ Deals(hs'[j].r, dels')
    BY <2>4, <2>5 DEF Tokens
  <2>7. ASSUME NEW j \in DOMAIN hs', NEW k \in DOMAIN hs', NEW t, j # k, Holds(hs'[j].r, t)
        PROVE  ~Holds(hs'[k].r, t)
    BY <2>4, <2>5, <2>7 DEF Tokens
  <2>8. ASSUME NEW t, Lost(t) PROVE Lost(t)'
    <3>1. t # None BY <2>8, NoneIsNoToken DEF Lost
    <3> QED BY <2>4, <2>5, <2>8, <3>1 DEF Lost
  <2>9. \A q \in refused' : Excused(q)' BY <2>8 DEF Tokens, Excused
  <2>10. \A j, k \in DOMAIN hs' : \A t : j # k /\ Holds(hs'[j].r, t) => ~Holds(hs'[k].r, t)
    BY <2>7
  <2> QED BY <2>6, <2>9, <2>10 DEF Tokens
<1> QED BY <1>1, <1>2

\* What other tabs do changes no delivery made in this one.
LEMMA ElsewhereTokens ==
  ASSUME Tokens, UNCHANGED << hs, refused >>, DOMAIN dels \subseteq DOMAIN dels',
         \A t \in DOMAIN dels : dels[t].session = "this tab" => dels'[t] = dels[t]
  PROVE  Tokens'
<1>1. ASSUME NEW i \in DOMAIN hs PROVE Deals(hs[i].r, dels')
  <2>1. Deals(hs[i].r, dels) BY DEF Tokens
  <2>2. \A t \in DOMAIN dels : Holds(hs[i].r, t) => /\ t \in DOMAIN dels' /\ dels'[t].session = dels[t].session
                                                    /\ dels'[t].status = dels[t].status
    BY <2>1 DEF Deals, OwnTokens
  <2> QED BY <2>1, <2>2, DealsElsewhere
<1>2. ASSUME NEW t, Lost(t) PROVE Lost(t)'
  BY <1>2 DEF Lost
<1>3. \A q \in refused' : Excused(q)' BY <1>2 DEF Tokens, Excused
<1>4. \A i \in DOMAIN hs' : RuntimeOk(hs'[i].r) /\ Deals(hs'[i].r, dels') BY <1>1 DEF Tokens
<1>5. \A i, j \in DOMAIN hs' : \A t : i # j /\ Holds(hs'[i].r, t) => ~Holds(hs'[j].r, t) BY DEF Tokens
<1> QED BY <1>3, <1>4, <1>5 DEF Tokens

LEMMA TokensNext == Owned /\ Spaced /\ Tokens /\ [Next]_vars => Tokens'
<1> SUFFICES ASSUME Owned, Spaced, Tokens, [Next]_vars PROVE Tokens' OBVIOUS
<1>1. ASSUME ScriptTag PROVE Tokens'
  BY <1>1, InitCalledTokens DEF ScriptTag
<1>2. ASSUME NEW p \in Providers, Render(p) PROVE Tokens'
  BY <1>2, InitCalledTokens DEF Render
<1>3. ASSUME NEW p \in Providers, Cleanup(p) PROVE Tokens'
  <2>1. CASE react[p].mounted
    <3>1. UNCHANGED << hs, dels, refused >> BY <1>3, <2>1 DEF Cleanup
    <3> QED BY <3>1 DEF Tokens, Excused, Lost
  <2>2. CASE ~react[p].mounted BY <1>3, <2>2, StopTokens DEF Cleanup
  <2> QED BY <2>1, <2>2
<1>4. ASSUME OtherReserves PROVE Tokens'
  <2>1. /\ DOMAIN dels = 1..Len(dels) /\ Len(dels) \in Nat /\ DOMAIN dels' = 1..(Len(dels) + 1)
        /\ \A t \in DOMAIN dels : dels'[t] = dels[t]
    BY <1>4, ReserveSpaced DEF OtherReserves
  <2>2. DOMAIN dels \subseteq DOMAIN dels'
    <3>1. ASSUME NEW m \in Nat PROVE 1..m \subseteq 1..(m + 1) OBVIOUS
    <3> QED BY <2>1, <3>1
  <2> QED BY <1>4, <2>1, <2>2, ElsewhereTokens DEF OtherReserves
<1>5. ASSUME NEW t \in DOMAIN dels, OtherShows(t) PROVE Tokens'
  <2>1. /\ DOMAIN dels' = DOMAIN dels
        /\ \A s \in DOMAIN dels : s # t => dels'[s] = dels[s]
    BY <1>5, MarkSpaced DEF OtherShows
  <2> QED BY <1>5, <2>1, ElsewhereTokens DEF OtherShows
<1>6. ASSUME NEW i \in DOMAIN hs, Tracker(i) PROVE Tokens'
  BY <1>6, TrackerTokens
<1>7. ASSUME NEW i \in DOMAIN hs, Campaign(i) PROVE Tokens'
  BY <1>7, CampaignTokens
<1>8. ASSUME UNCHANGED << hs, dels, refused >> PROVE Tokens'
  BY <1>8 DEF Tokens, Excused, Lost
<1> QED BY <1>1, <1>2, <1>3, <1>4, <1>5, <1>6, <1>7, <1>8
     DEF Next, Host, Tick, Unmount, Remount, vars

LEMMA SpacedNext == Owned /\ Tokens /\ Spaced /\ [Next]_vars => Spaced'
<1> SUFFICES ASSUME Owned, Tokens, Spaced, [Next]_vars PROVE Spaced' OBVIOUS
<1>1. ASSUME UNCHANGED << dels, now >> PROVE Spaced' BY <1>1 DEF Spaced
<1>2. ASSUME NEW i \in DOMAIN hs, Eligibility(i) PROVE Spaced'
  <2>1. CASE Reservable(dels, hs[i].r.who, now) BY <1>2, <2>1, ReserveSpaced DEF Eligibility
  <2>2. CASE ~Reservable(dels, hs[i].r.who, now) BY <1>1, <1>2, <2>2 DEF Eligibility
  <2> QED BY <2>1, <2>2
<1>3. ASSUME NEW i \in DOMAIN hs, NEW q \in hs[i].r.wire, Handled(i, q) PROVE Spaced'
  <2>1. q.token \in DOMAIN dels /\ q.what # "reserved"
    <3>1. Deals(hs[i].r, dels) /\ q \in Sent(hs[i].r) /\ q \in Copies(hs[i].r) BY DEF Tokens, Sent, Copies
    <3> QED BY <3>1 DEF Deals, OwnTokens, Holds, RequestsOk, Outcomes
  <2>2. CASE Accepts(dels[q.token], q.what, now) BY <1>3, <2>1, <2>2, MarkSpaced DEF Handled
  <2>3. CASE ~Accepts(dels[q.token], q.what, now) BY <1>1, <1>3, <2>3 DEF Handled
  <2> QED BY <2>2, <2>3
<1>4. ASSUME OtherReserves PROVE Spaced' BY <1>4, ReserveSpaced DEF OtherReserves
<1>5. ASSUME NEW t \in DOMAIN dels, OtherShows(t) PROVE Spaced' BY <1>5, MarkSpaced DEF OtherShows
<1>6. ASSUME Tick PROVE Spaced'
  <2>1. now' = now + 1 /\ UNCHANGED dels /\ now \in Nat /\ now' \in Nat BY <1>6 DEF Tick, Spaced
  <2>2. \A d : DeliveryOk(d, now) => DeliveryOk(d, now') BY <2>1 DEF DeliveryOk
  <2> QED BY <2>1, <2>2 DEF Spaced
<1>7. ASSUME NEW i \in DOMAIN hs, Tracker(i) PROVE Spaced'
  BY <1>1, <1>7
     DEF Tracker, StopCalled, Configured, AttemptFails, Calls, Click, Navigate, Claim, ClaimStep,
         ExpandCalled, WidgetImported, ImportLost, Running, Step
<1>8. ASSUME NEW i \in DOMAIN hs, Campaign(i) PROVE Spaced'
  <2>1. ASSUME NEW s, Running(i, s) PROVE Spaced' BY <1>1, <2>1 DEF Running, Step
  <2>2. CASE Eligibility(i) \/ \E q \in hs[i].r.wire : Handled(i, q) BY <1>2, <1>3, <2>2
  <2>3. CASE \/ EligibilityLost(i) \/ TokenArrives(i) \/ CampaignImported(i) \/ CampaignImportLost(i)
             \/ \E q \in hs[i].r.out : RequestOver(i, q) \/ RequestLost(i, q) \/ RequestRetried(i, q)
             \/ \E q \in hs[i].r.again : RetryTimer(i, q)
    BY <2>1, <2>3
       DEF EligibilityLost, TokenArrives, CampaignImported, CampaignImportLost, RequestOver, RequestLost,
           RequestRetried, RetryTimer
  <2>4. CASE \/ OpenLauncher(i) \/ CloseWidget(i) \/ Answer(i) \/ SkipCampaign(i) \/ ThanksEnd(i)
             \/ Finishing(i)
    BY <2>1, <2>4 DEF OpenLauncher, CloseWidget, Answer, SkipCampaign, ThanksEnd, Finishing, Panel
  <2> QED BY <1>8, <2>2, <2>3, <2>4 DEF Campaign
<1> QED BY <1>1, <1>2, <1>3, <1>4, <1>5, <1>6, <1>7, <1>8
     DEF Next, Host, ScriptTag, Render, Unmount, Remount, Cleanup, vars

Whole == Owned /\ Spaced /\ Tokens

LEMMA WholeAlways == Spec => []Whole
<1>1. Init => Whole BY OwnedInit, SpacedInit, TokensInit DEF Whole
<1>2. Whole /\ [Next]_vars => Whole' BY OwnedNext, SpacedNext, TokensNext DEF Whole
<1> QED BY <1>1, <1>2, PTL DEF Spec

\* A visitor sees a campaign once per recurrence, for every number of tabs'
\* reservations and whichever requests are lost or late: the shown requests the
\* server accepts lie a cooldown apart (feedback_campaigns.go,
\* ReserveFeedbackCampaign and MarkFeedbackDelivery).
THEOREM CampaignNotRepeated == Spec => []NoRepeat
<1>1. Whole => NoRepeat BY SpacedIsNoRepeat DEF Whole
<1> QED BY <1>1, WholeAlways, PTL

\* An outcome is refused only if the server has it already, never learns of the
\* show, or handled it before a shown request the page had given up: for every
\* number of trackers, lost requests and retries (main.ts, campaignLifecycle,
\* sendFeedback and scheduleRetry; feedback.go, SaveFeedback).
THEOREM OutcomeIsTaken == Spec => []AnswerCounts
<1>1. Whole => AnswerCounts BY DEF Whole, Tokens, Excused, Lost, AnswerCounts
<1> QED BY <1>1, WholeAlways, PTL
=============================================================================
