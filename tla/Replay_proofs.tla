---------------------------- MODULE Replay_proofs ----------------------------
(***************************************************************************)
(* Proof that the player of a replay holds a whole stream.                 *)
(*                                                                         *)
(* The functions of the loader and of the player map a replay r to the     *)
(* next one.  What they have to keep is Base, about the loader, and Fed,   *)
(* that the player on screen holds the loader's window.  Fed is broken by  *)
(* a jump that has loaded another window, and restored by the commit that  *)
(* rebuilds the player: no page is fed in between.                         *)
(***************************************************************************)
EXTENDS Replay, SequenceTheorems, WellFoundedInduction, TLAPS

Names == DOMAIN NewReplay(<< >>, TRUE)

Run(s) == s \in Seq(Int) /\ Consecutive(s)

\* The recording, and what is loaded of it: a run of events up to the end of
\* the last page.  What is to be shown is that, but during a jump.
Content(r) ==
  /\ DOMAIN r = Names
  /\ r.chunks \in Seq({"plain", "key", "late"})
  /\ r.next \in Int
  /\ Run(r.events) /\ (r.events # << >> => Last(r.events) = 2 * r.next + 1)
  /\ Run(r.shown) /\ (r.repositioning \/ r.shown = r.events)
  /\ r.live => r.loaded /\ Run(r.held) /\ r.held # << >>
  /\ r.rebuild => r.loaded /\ r.shown # << >>

\* A window loaded anew begins with the chunk of a snapshot.
Reloading(r) ==
  LET c == r.task.target IN
    /\ c \in Keyframes(r) /\ r.next >= c - 1
    /\ r.next >= c => r.events # << >> /\ Head(r.events) = 2 * c
    /\ r.next < c => r.events = << >>

\* The loader's task and the refs that go with it.
Tasks(r) ==
  /\ r.task.kind \in {"boot", "idle", "over", "prefetch", "extend", "reload"}
  /\ r.repositioning <=> r.task.kind = "reload"
  /\ r.pumping <=> r.task.kind \notin {"boot", "idle"}
  /\ r.loaded <=> r.task.kind # "boot"
  /\ r.task.kind = "reload" => Reloading(r)

Base(r) == Content(r) /\ Tasks(r)

\* The player holds the window.
Fed(r) ==
  r.live /\ ~r.repositioning =>
    /\ r.held = r.events
    /\ r.start = r.windowStart
    /\ r.end = Last(r.events)

Inv(r) == Base(r) /\ (r.rebuild \/ Fed(r))

\* What a function that loads nothing and builds nothing keeps.
Kept(r, t) ==
  /\ Base(t)
  /\ Fed(r) => Fed(t)
  /\ t.rebuild = r.rebuild /\ t.loaded = r.loaded /\ t.live = r.live
  /\ t.shown = r.shown /\ t.windowStart = r.windowStart

\* All that Base and Fed speak of.
View(r) ==
  << r.chunks, r.indexed, r.events, r.next, r.repositioning, r.pumping, r.task, r.shown,
     r.loaded, r.rebuild, r.live, r.held, r.start, r.end, r.windowStart >>

\* The names a lookup in an updated record asks for.
LEMMA FieldNames ==
  /\ {"chunks", "indexed", "events", "next", "exhausted", "windowSeq", "windowStart"} \subseteq Names
  /\ {"pending", "queued", "repositioning", "pumping", "task", "shown", "loaded"} \subseteq Names
  /\ {"seeking", "buffering", "rebuild", "ready", "resized", "error", "busySeen"} \subseteq Names
  /\ {"seekingSeen", "urgent", "live", "held", "start", "end", "at", "playing"} \subseteq Names
  /\ {"wants", "awaiting", "waiting", "resume", "started", "clock", "asked"} \subseteq Names
  /\ {"landed", "dropped"} \subseteq Names
BY DEF Names, NewReplay

LEMMA SameView ==
  ASSUME NEW r, NEW t, Base(r), DOMAIN t = Names, View(t) = View(r)
  PROVE  Kept(r, t)
<1>1. /\ t.chunks = r.chunks /\ t.indexed = r.indexed /\ t.events = r.events /\ t.next = r.next
      /\ t.repositioning = r.repositioning /\ t.pumping = r.pumping /\ t.task = r.task
      /\ t.shown = r.shown /\ t.loaded = r.loaded /\ t.rebuild = r.rebuild /\ t.live = r.live
      /\ t.held = r.held /\ t.start = r.start /\ t.end = r.end /\ t.windowStart = r.windowStart
  BY DEF View
<1>2. Content(t) BY <1>1 DEF Base, Content
<1>3. Keyframes(t) = Keyframes(r) BY <1>1 DEF Keyframes, LastChunk
<1>4. Tasks(t) BY <1>1, <1>3 DEF Base, Tasks, Reloading
<1> QED BY <1>1, <1>2, <1>4 DEF Kept, Base, Fed

LEMMA KeptOnward ==
  ASSUME NEW r, NEW t, NEW u, Kept(r, t), Kept(t, u)
  PROVE  Kept(r, u)
BY DEF Kept

------------------------------------------------------------------------------
(* Runs of events                                                          *)

\* A page continues what is loaded.
LEMMA RunGrows ==
  ASSUME NEW s, Run(s), NEW n \in Int, s # << >> => Last(s) = 2 * n + 1
  PROVE  LET t == s \o Chunk(n + 1) IN
           /\ Run(t) /\ t # << >> /\ Last(t) = 2 * (n + 1) + 1
           /\ s # << >> => Head(t) = Head(s)
           /\ s = << >> => Head(t) = 2 * (n + 1)
<1> DEFINE p == Chunk(n + 1)
           t == s \o p
<1>1. p \in Seq(Int) /\ Len(p) = 2 /\ p[1] = 2 * (n + 1) /\ p[2] = 2 * (n + 1) + 1
  BY DEF Chunk
<1>2. s \in Seq(Int) /\ Len(s) \in Nat BY DEF Run
<1> HIDE DEF p
<1>11. /\ t \in Seq(Int) /\ Len(t) = Len(s) + Len(p)
       /\ \A i \in 1..Len(s) + Len(p) : t[i] = IF i <= Len(s) THEN s[i] ELSE p[i - Len(s)]
  BY <1>1, <1>2, ConcatProperties
<1> HIDE DEF t
<1>3. /\ t \in Seq(Int) /\ Len(t) = Len(s) + 2
      /\ \A i \in 1..Len(t) : t[i] = IF i <= Len(s) THEN s[i] ELSE p[i - Len(s)]
  BY <1>1, <1>11
<1>4. t[Len(s) + 1] = 2 * (n + 1) /\ t[Len(s) + 2] = 2 * (n + 1) + 1
  <2>1. /\ Len(s) + 1 \in 1..Len(t) /\ ~(Len(s) + 1 <= Len(s)) /\ (Len(s) + 1) - Len(s) = 1
        /\ Len(s) + 2 \in 1..Len(t) /\ ~(Len(s) + 2 <= Len(s)) /\ (Len(s) + 2) - Len(s) = 2
    BY <1>2, <1>3
  <2>2. t[Len(s) + 1] = p[1] /\ t[Len(s) + 2] = p[2] BY <1>3, <2>1
  <2> QED BY <1>1, <2>2
<1>5. s # << >> => Len(s) > 0 /\ s[Len(s)] = 2 * n + 1 BY <1>2 DEF Last
<1>6. Consecutive(t)
  <2> SUFFICES ASSUME NEW i \in 1..Len(t) - 1 PROVE t[i + 1] = t[i] + 1
    BY DEF Consecutive
  <2>1. CASE i < Len(s)
    <3>1. i \in 1..Len(s) - 1 BY <1>2, <2>1
    <3>2. s[i + 1] = s[i] + 1 BY <3>1 DEF Run, Consecutive
    <3>3. i \in 1..Len(t) /\ i + 1 \in 1..Len(t) /\ i <= Len(s) /\ i + 1 <= Len(s)
      BY <1>2, <1>3, <2>1
    <3> QED BY <1>3, <3>2, <3>3
  <2>2. CASE i = Len(s)
    <3>1. s # << >> BY <1>2, <2>2
    <3>2. i \in 1..Len(t) /\ i <= Len(s) BY <1>2, <1>3, <2>2
    <3>3. t[i] = 2 * n + 1 BY <1>3, <1>5, <2>2, <3>1, <3>2
    <3> QED BY <1>4, <2>2, <3>3
  <2>3. CASE i = Len(s) + 1 BY <1>2, <1>4, <2>3
  <2>4. i < Len(s) \/ i = Len(s) \/ i = Len(s) + 1 BY <1>2, <1>3
  <2> QED BY <2>1, <2>2, <2>3, <2>4
<1>7. Last(t) = 2 * (n + 1) + 1 BY <1>2, <1>3, <1>4 DEF Last
<1>8. t # << >> BY <1>2, <1>3
<1>9. ASSUME s # << >> PROVE Head(t) = Head(s)
  <2>1. Len(s) >= 1 /\ 1 \in 1..Len(t) BY <1>2, <1>3, <1>9
  <2>2. t[1] = s[1] BY <1>3, <2>1
  <2> QED BY <1>2, <1>3, <1>8, <1>9, <2>2
<1>10. ASSUME s = << >> PROVE Head(t) = 2 * (n + 1)
  <2>1. Len(s) = 0 BY <1>10
  <2>2. Len(s) + 1 = 1 BY <2>1
  <2>3. t[1] = 2 * (n + 1) BY <1>4, <2>2
  <2> QED BY <1>3, <1>8, <2>3
<1> QED BY <1>3, <1>6, <1>7, <1>8, <1>9, <1>10 DEF Run, p, t

\* What is left of a run from one of its events on.
LEMMA RunCut ==
  ASSUME NEW s, Run(s), NEW i \in DOMAIN s
  PROVE  LET t == SubSeq(s, i, Len(s)) IN Run(t) /\ t # << >> /\ Last(t) = Last(s)
<1> DEFINE t == SubSeq(s, i, Len(s))
           n == Len(s) - i + 1
<1>1. /\ s \in Seq(Int) /\ Len(s) \in Nat /\ i \in 1..Len(s)
      /\ n \in Nat /\ n >= 1 /\ i + n = Len(s) + 1
  BY DEF Run
<1>2. t \in Seq(Int) /\ Len(t) = n /\ \A k \in 1..n : t[k] = s[i + k - 1]
  <2>1. i \in Int /\ Len(s) \in Int /\ i <= Len(s) /\ n = Len(s) - i + 1 BY <1>1
  <2>2. \A k \in i..Len(s) : s[k] \in Int BY <1>1
  <2>3. /\ SubSeq(s, i, Len(s)) \in Seq(Int)
        /\ Len(SubSeq(s, i, Len(s))) = IF i <= Len(s) THEN Len(s) - i + 1 ELSE 0
        /\ \A k \in 1..Len(s) - i + 1 : SubSeq(s, i, Len(s))[k] = s[i + k - 1]
    BY <2>1, <2>2, SubSeqProperties
  <2> QED BY <2>1, <2>3
<1> HIDE DEF t, n
<1>3. Consecutive(t)
  <2> SUFFICES ASSUME NEW k \in 1..n - 1 PROVE t[k + 1] = t[k] + 1
    BY <1>2 DEF Consecutive
  <2>1. k \in 1..n /\ k + 1 \in 1..n BY <1>1
  <2>2. t[k] = s[i + k - 1] /\ t[k + 1] = s[i + (k + 1) - 1] BY <1>2, <2>1
  <2>3. i + k - 1 \in 1..Len(s) - 1 BY <1>1
  <2>4. s[(i + k - 1) + 1] = s[i + k - 1] + 1 BY <2>3 DEF Run, Consecutive
  <2>5. i + (k + 1) - 1 = (i + k - 1) + 1 BY <1>1
  <2> QED BY <2>2, <2>4, <2>5
<1>4. n \in 1..n /\ i + n - 1 = Len(s)
  <2>1. i \in Int /\ Len(s) \in Int /\ n \in Int BY <1>1
  <2>2. i + n - 1 = Len(s)
    <3>1. i + n = Len(s) + 1 BY <1>1
    <3>2. ASSUME NEW a \in Int, NEW b \in Int, NEW c \in Int, a + b = c + 1 PROVE a + b - 1 = c
      BY <3>2
    <3> QED BY <2>1, <3>1, <3>2
  <2>3. n \in 1..n BY <1>1
  <2> QED BY <2>2, <2>3
<1>5. Last(t) = Last(s) BY <1>2, <1>4 DEF Last
<1>6. t # << >> BY <1>1, <1>2
<1> QED BY <1>2, <1>3, <1>5, <1>6 DEF Run, t

LEMMA SmallestNat ==
  ASSUME NEW T \in SUBSET Nat, T # {}
  PROVE  \E m \in T : \A x \in T : m <= x
<1> DEFINE R == OpToRel(<, Nat)
<1>1. \A x, m \in Nat : x < m => << x, m >> \in R
  <2> TAKE x \in Nat, m \in Nat
  <2>1. << x, m >> \in Nat \X Nat /\ << x, m >>[1] = x /\ << x, m >>[2] = m OBVIOUS
  <2> QED BY <2>1 DEF OpToRel
<1>2. IsWellFoundedOn(R, Nat) BY NatLessThanWellFounded
<1> HIDE DEF R
<1>3. PICK m \in T : \A x \in T : ~ (<< x, m >> \in R) BY <1>2, WFMin
<1>4. ASSUME NEW x \in T PROVE m <= x
  <2>1. x \in Nat /\ m \in Nat /\ ~ (x < m) BY <1>1, <1>3
  <2> QED BY <2>1
<1> QED BY <1>4

\* The snapshot that is looked for is one of the index.
LEMMA KeyframeIsOne ==
  ASSUME NEW r, r.chunks \in Seq({"plain", "key", "late"}), NEW off, Keyframe(r, off) # None
  PROVE  Keyframe(r, off) \in Keyframes(r)
<1> DEFINE S == {c \in Keyframes(r) : 2 * c <= off}
<1>1. S # {} /\ Keyframe(r, off) = Max(S) BY DEF Keyframe
<1>2. Len(r.chunks) \in Nat /\ LastChunk(r) = Len(r.chunks) - 1 BY DEF LastChunk
<1>3. \A c \in S : c \in Nat /\ c <= LastChunk(r) BY <1>2 DEF Keyframes
<1> HIDE DEF S
<1> DEFINE T == {LastChunk(r) - c : c \in S}
<1>4. T # {} BY <1>1
<1>5. \A x \in T : x \in Nat BY <1>2, <1>3
<1>6. PICK m \in T : \A y \in T : m <= y BY <1>4, <1>5, SmallestNat
<1>7. PICK c \in S : m = LastChunk(r) - c BY <1>6
<1>8. \A d \in S : c >= d
  <2> TAKE d \in S
  <2>1. LastChunk(r) - d \in T OBVIOUS
  <2>2. LastChunk(r) - c <= LastChunk(r) - d BY <1>6, <1>7, <2>1
  <2>3. c \in Nat /\ d \in Nat /\ LastChunk(r) \in Int BY <1>2, <1>3
  <2> QED BY <2>2, <2>3
<1>9. Max(S) \in S BY <1>7, <1>8 DEF Max
<1> QED BY <1>1, <1>9 DEF S

------------------------------------------------------------------------------
(* The loader                                                              *)

\* What a function leaves alone that gives the loader another task.
Calm(r, t) ==
  /\ t.chunks = r.chunks /\ t.indexed = r.indexed /\ t.events = r.events /\ t.next = r.next
  /\ t.repositioning = r.repositioning /\ t.shown = r.shown /\ t.loaded = r.loaded
  /\ t.rebuild = r.rebuild /\ t.live = r.live /\ t.held = r.held
  /\ t.start = r.start /\ t.end = r.end /\ t.windowStart = r.windowStart

LEMMA Retasked ==
  ASSUME NEW r, NEW t, Content(r), r.loaded, ~r.repositioning, DOMAIN t = Names, Calm(r, t),
         t.task.kind \in {"idle", "over", "prefetch", "extend"},
         t.pumping <=> t.task.kind # "idle"
  PROVE  Kept(r, t)
<1>1. Content(t) BY DEF Content, Calm
<1>2. Tasks(t) BY DEF Calm, Tasks
<1> QED BY <1>1, <1>2 DEF Kept, Base, Fed, Calm

\* A jump: the window is extended, or given up for another one.
LEMMA JumpKeeps ==
  ASSUME NEW r, NEW s, Content(r), r.loaded, ~r.repositioning
  PROVE  Kept(r, Jump(r, s))
<1> DEFINE t == Jump(r, s)
           c == Keyframe(r, s.off)
<1> USE FieldNames
<1>0. DOMAIN r = Names BY DEF Content
<1>1. CASE c = None
  <2>1. DOMAIN t = Names /\ Calm(r, t) BY <1>0, <1>1 DEF Jump, Calm
  <2>2. t.task.kind = "over" /\ t.pumping = TRUE BY <1>0, <1>1 DEF Jump
  <2> QED BY <2>1, <2>2, Retasked
<1>2. CASE c # None /\ c = r.windowSeq
  <2>1. DOMAIN t = Names /\ Calm(r, t) BY <1>0, <1>2 DEF Jump, Calm
  <2>2. t.task.kind \in {"over", "extend"} /\ t.pumping = TRUE BY <1>0, <1>2 DEF Jump
  <2> QED BY <2>1, <2>2, Retasked
<1>3. CASE c # None /\ c # r.windowSeq
  <2>1. c \in Keyframes(r) BY <1>3, KeyframeIsOne DEF Content
  <2>2. c \in Int
    <3>1. Len(r.chunks) \in Nat BY DEF Content
    <3> QED BY <2>1, <3>1 DEF Keyframes, LastChunk
  <2>3. DOMAIN t = Names /\ t.task.kind = "reload" /\ t.task.target = c
    BY <1>0, <1>3 DEF Jump
  <2>4. /\ t.chunks = r.chunks /\ t.indexed = r.indexed /\ t.shown = r.shown /\ t.loaded = r.loaded
        /\ t.rebuild = r.rebuild /\ t.live = r.live /\ t.held = r.held
        /\ t.windowStart = r.windowStart
    BY <1>0, <1>3 DEF Jump
  <2>5. t.events = << >> /\ t.next = c - 1 /\ t.repositioning = TRUE /\ t.pumping = TRUE
    BY <1>0, <1>3 DEF Jump
  <2> HIDE DEF t, c
  <2>6. Run(t.events)
    <3>1. Len(<< >>) = 0 /\ 1..0 - 1 = {} BY SMT
    <3> QED BY <2>5, <3>1 DEF Run, Consecutive
  <2>7. Content(t) BY <2>2, <2>3, <2>4, <2>5, <2>6 DEF Content
  <2>8. Keyframes(t) = Keyframes(r) BY <2>4 DEF Keyframes, LastChunk
  <2>9. Reloading(t) BY <2>1, <2>2, <2>3, <2>5, <2>8 DEF Reloading
  <2>10. Tasks(t) BY <2>3, <2>4, <2>5, <2>9 DEF Tasks
  <2>11. Kept(r, t) BY <2>4, <2>5, <2>7, <2>10 DEF Kept, Base, Fed
  <2> QED BY <2>11 DEF t
<1> QED BY <1>1, <1>2, <1>3

LEMMA RunSeekKeeps ==
  ASSUME NEW r, NEW s, Base(r), r.loaded
  PROVE  Kept(r, RunSeek(r, s))
<1> USE FieldNames
<1>0. DOMAIN r = Names BY DEF Base, Content
<1>1. CASE r.pumping
  <2> DEFINE t == [r EXCEPT !.queued = s]
  <2>1. DOMAIN t = Names /\ View(t) = View(r) BY <1>0 DEF View
  <2>2. RunSeek(r, s) = t BY <1>1 DEF RunSeek
  <2> QED BY <2>1, <2>2, SameView
<1>2. CASE ~r.pumping
  <2>1. ~r.repositioning BY <1>2 DEF Base, Tasks
  <2> QED BY <1>2, <2>1, JumpKeeps DEF RunSeek, Base
<1> QED BY <1>1, <1>2

LEMMA DrainKeeps ==
  ASSUME NEW r, Base(r), r.loaded
  PROVE  Kept(r, DrainSeek(r))
<1> USE FieldNames
<1>0. DOMAIN r = Names BY DEF Base, Content
<1> DEFINE u == [r EXCEPT !.queued = NoSeek, !.pending = NoSeek]
<1>1. DOMAIN u = Names /\ View(u) = View(r) BY <1>0 DEF View
<1>2. Kept(r, u) BY <1>1, SameView
<1> HIDE DEF u
<1>3. Kept(u, RunSeek(u, r.queued)) BY <1>2, RunSeekKeeps DEF Kept
<1>4. CASE r.queued = NoSeek
  <2>1. Kept(r, r) BY <1>0, SameView
  <2> QED BY <1>4, <2>1 DEF DrainSeek
<1>5. CASE r.queued # NoSeek
  <2>1. Kept(r, RunSeek(u, r.queued)) BY <1>2, <1>3, KeptOnward
  <2> QED BY <1>5, <2>1 DEF DrainSeek, u
<1> QED BY <1>4, <1>5

\* The end of a task, and the seek that waited for it.
LEMMA OverKeeps ==
  ASSUME NEW r, Content(r), r.loaded, ~r.repositioning
  PROVE  Kept(r, JumpOver(r)) /\ Kept(r, PrefetchOver(r))
<1> USE FieldNames
<1>0. DOMAIN r = Names BY DEF Content
<1> DEFINE u == [r EXCEPT !.task = Idle, !.pumping = FALSE, !.seeking = FALSE]
           v == [r EXCEPT !.task = Idle, !.pumping = FALSE, !.buffering = FALSE]
<1>1. Kept(r, u)
  <2>1. DOMAIN u = Names /\ Calm(r, u) BY <1>0 DEF Calm
  <2>2. u.task.kind = "idle" /\ u.pumping = FALSE BY <1>0 DEF Idle
  <2> QED BY <2>1, <2>2, Retasked
<1>2. Kept(r, v)
  <2>1. DOMAIN v = Names /\ Calm(r, v) BY <1>0 DEF Calm
  <2>2. v.task.kind = "idle" /\ v.pumping = FALSE BY <1>0 DEF Idle
  <2> QED BY <2>1, <2>2, Retasked
<1> HIDE DEF u, v
<1>3. Kept(u, DrainSeek(u)) BY <1>1, DrainKeeps DEF Kept
<1>4. Kept(v, DrainSeek(v)) BY <1>2, DrainKeeps DEF Kept
<1>5. Kept(r, DrainSeek(u)) /\ Kept(r, DrainSeek(v)) BY <1>1, <1>2, <1>3, <1>4, KeptOnward
<1> QED BY <1>5 DEF JumpOver, PrefetchOver, u, v

\* The playhead: a rebase, a prefetch or nothing.
LEMMA PlaybackKeeps ==
  ASSUME NEW r, NEW off, Base(r), r.loaded
  PROVE  Kept(r, OnPlaybackTime(r, off))
<1> USE FieldNames
<1>0. DOMAIN r = Names BY DEF Base, Content
<1> DEFINE t == OnPlaybackTime(r, off)
           u == [r EXCEPT !.pumping = TRUE, !.buffering = @ \/ Buffered(r) - off <= 0,
                          !.task = [kind |-> "prefetch", off |-> off]]
<1>1. CASE Rebases(r, off)
  <2>1. t = RunSeek(r, [off |-> off, play |-> TRUE, id |-> r.asked]) BY <1>1 DEF OnPlaybackTime
  <2> QED BY <2>1, RunSeekKeeps
<1>2. CASE ~Rebases(r, off) /\ (r.pumping \/ r.exhausted \/ Buffered(r) - off > PREFETCH)
  <2>1. t = r BY <1>2 DEF OnPlaybackTime
  <2> QED BY <1>0, <2>1, SameView
<1>3. CASE ~Rebases(r, off) /\ ~(r.pumping \/ r.exhausted \/ Buffered(r) - off > PREFETCH)
  <2>1. t = u BY <1>3 DEF OnPlaybackTime
  <2>2. ~r.repositioning BY <1>3 DEF Base, Tasks
  <2>3. DOMAIN u = Names /\ Calm(r, u) BY <1>0 DEF Calm
  <2>4. u.task.kind = "prefetch" /\ u.pumping = TRUE BY <1>0
  <2>5. Kept(r, u) BY <2>2, <2>3, <2>4, Retasked DEF Base
  <2> QED BY <2>1, <2>5
<1> QED BY <1>1, <1>2, <1>3

------------------------------------------------------------------------------
(* Pages                                                                   *)

\* What holds when a page has arrived, before its loop goes on.
Paged(r) ==
  /\ Base(r) /\ Fed(r) /\ ~r.rebuild /\ r.events # << >>
  /\ r.task.kind \in {"boot", "prefetch", "extend", "reload"}
  /\ r.task.kind = "reload" => r.next >= r.task.target

LEMMA LoadPageKeeps ==
  ASSUME NEW r, Base(r), Fed(r), ~r.rebuild,
         r.task.kind \in {"boot", "prefetch", "extend", "reload"}
  PROVE  Paged(LoadPage(r))
<1> USE FieldNames
<1> DEFINE t == LoadPage(r)
           p == Chunk(r.next + 1)
           all == r.events \o p
<1>0. DOMAIN r = Names /\ r.next \in Int /\ Run(r.events) BY DEF Base, Content
<1>1. /\ Run(all) /\ all # << >> /\ Last(all) = 2 * (r.next + 1) + 1
      /\ r.events # << >> => Head(all) = Head(r.events)
      /\ r.events = << >> => Head(all) = 2 * (r.next + 1)
  BY <1>0, RunGrows DEF Base, Content
<1>2. Last(p) = 2 * (r.next + 1) + 1 BY <1>0 DEF Chunk, Last
<1>3. /\ DOMAIN t = Names /\ t.chunks = r.chunks /\ t.indexed = r.indexed /\ t.task = r.task
      /\ t.pumping = r.pumping /\ t.repositioning = r.repositioning /\ t.loaded = r.loaded
      /\ t.rebuild = r.rebuild /\ t.live = r.live /\ t.start = r.start
      /\ t.windowStart = r.windowStart
  BY <1>0 DEF LoadPage, AppendEvents
<1>4. t.events = all /\ t.shown = all /\ t.next = r.next + 1
  BY <1>0 DEF LoadPage, AppendEvents
<1>5. r.repositioning \/ ~r.live => t.held = r.held
  BY <1>0 DEF LoadPage, AppendEvents
<1>6. r.live /\ ~r.repositioning =>
        t.held = r.held \o p /\ t.end = IF Last(p) > r.end THEN Last(p) ELSE r.end
  BY <1>0 DEF LoadPage, AppendEvents
<1> HIDE DEF t, p, all
<1>7. r.live /\ ~r.repositioning => t.held = all /\ t.end = Last(all)
  <2> SUFFICES ASSUME r.live, ~r.repositioning PROVE t.held = all /\ t.end = Last(all)
    OBVIOUS
  <2>1. r.held = r.events /\ r.end = Last(r.events) /\ r.events # << >>
    BY DEF Fed, Base, Content
  <2>2. r.end = 2 * r.next + 1 BY <2>1 DEF Base, Content
  <2>3. Last(p) > r.end BY <1>0, <1>2, <2>2
  <2> QED BY <1>1, <1>2, <1>6, <2>1, <2>3 DEF all
<1>8. Content(t) BY <1>0, <1>1, <1>3, <1>4, <1>5, <1>7 DEF Base, Content
<1>9. Keyframes(t) = Keyframes(r) BY <1>3 DEF Keyframes, LastChunk
<1>10. ASSUME r.task.kind = "reload" PROVE Reloading(t) /\ t.next >= t.task.target
  <2> DEFINE c == r.task.target
  <2>1. Reloading(r) BY <1>10 DEF Base, Tasks
  <2>2. c \in Int
    <3>1. Len(r.chunks) \in Nat BY DEF Base, Content
    <3> QED BY <2>1, <3>1 DEF Reloading, Keyframes, LastChunk
  <2>3. c \in Keyframes(t) /\ t.next >= c BY <1>0, <1>3, <1>4, <1>9, <2>1, <2>2 DEF Reloading
  <2>4. Head(t.events) = 2 * c
    <3>1. CASE r.next >= c BY <1>1, <1>4, <2>1, <3>1 DEF Reloading
    <3>2. CASE ~(r.next >= c)
      <4>1. r.next + 1 = c /\ r.events = << >> BY <1>0, <2>1, <2>2, <3>2 DEF Reloading
      <4> QED BY <1>1, <1>4, <4>1
    <3> QED BY <3>1, <3>2
  <2>5. t.next >= c - 1 /\ ~(t.next < c) BY <1>0, <1>4, <2>2, <2>3
  <2> QED BY <1>1, <1>3, <1>4, <2>3, <2>4, <2>5 DEF Reloading
<1>11. Tasks(t) BY <1>3, <1>10 DEF Base, Tasks
<1>12. Fed(t) BY <1>3, <1>4, <1>5, <1>7 DEF Fed
<1>13. Paged(t) BY <1>1, <1>3, <1>4, <1>8, <1>10, <1>11, <1>12 DEF Paged, Base
<1> QED BY <1>13 DEF t

LEMMA BootOverKeeps ==
  ASSUME NEW r, Paged(r), r.task.kind = "boot"
  PROVE  Inv(BootOver(r))
<1> USE FieldNames
<1> DEFINE t == BootOver(r)
<1>0. DOMAIN r = Names BY DEF Paged, Base, Content
<1>1. /\ DOMAIN t = Names /\ t.chunks = r.chunks /\ t.indexed = r.indexed /\ t.events = r.events
      /\ t.next = r.next /\ t.repositioning = r.repositioning /\ t.pumping = r.pumping
      /\ t.shown = r.shown /\ t.rebuild = r.rebuild /\ t.live = r.live /\ t.held = r.held
      /\ t.start = r.start /\ t.end = r.end /\ t.windowStart = r.windowStart
  BY <1>0 DEF BootOver
<1>2. t.task.kind = "idle" /\ t.loaded = TRUE BY <1>0 DEF BootOver, Idle
<1> HIDE DEF t
<1>3. Content(t) BY <1>1, <1>2 DEF Paged, Base, Content
<1>4. Tasks(t) BY <1>1, <1>2 DEF Paged, Base, Tasks
<1>5. Inv(t) BY <1>1, <1>3, <1>4 DEF Inv, Base, Fed, Paged
<1> QED BY <1>5 DEF t

LEMMA ExtendOverKeeps ==
  ASSUME NEW r, Paged(r), r.task.kind \in {"prefetch", "extend"}
  PROVE  Inv(PrefetchOver(r)) /\ Inv(ExtendOver(r))
<1> USE FieldNames
<1> DEFINE u == [r EXCEPT !.ready = TRUE, !.pending = [r.task.seek EXCEPT !.off = Landing(r, r.task.off)]]
<1>0. DOMAIN r = Names /\ r.loaded /\ ~r.repositioning BY DEF Paged, Base, Content, Tasks
<1>1. DOMAIN u = Names /\ View(u) = View(r) BY <1>0 DEF View
<1>2. Kept(r, u) BY <1>1, SameView DEF Paged
<1>3. u.loaded /\ ~u.repositioning BY <1>0
<1> HIDE DEF u
<1>4. Kept(r, PrefetchOver(r)) BY <1>0, OverKeeps DEF Paged, Base
<1>5. Kept(u, JumpOver(u)) BY <1>2, <1>3, OverKeeps DEF Kept, Base
<1>6. Kept(r, JumpOver(u)) BY <1>2, <1>5, KeptOnward
<1>7. ExtendOver(r) = JumpOver(u) BY DEF ExtendOver, u
<1> QED BY <1>4, <1>6, <1>7 DEF Kept, Inv, Paged

\* The chunk the window begins with holds a snapshot.
LEMMA SnapshotComes ==
  ASSUME NEW r, Paged(r), r.task.kind = "reload"
  PROVE  \E i \in DOMAIN r.events :
           SnapshotAt(r, r.events[i]) /\ \A j \in 1..i - 1 : ~SnapshotAt(r, r.events[j])
<1> DEFINE c == r.task.target
           e == r.events
<1>1. c \in Keyframes(r) /\ e # << >> /\ Head(e) = 2 * c BY DEF Paged, Base, Tasks, Reloading
<1>2. c \in Nat /\ r.chunks[c + 1] \in {"key", "late"}
  <2>1. r.chunks \in Seq({"plain", "key", "late"}) BY DEF Paged, Base, Content
  <2>2. Len(r.chunks) \in Nat /\ c \in 0..Len(r.chunks) - 1 /\ r.chunks[c + 1] # "plain"
    BY <1>1, <2>1 DEF Keyframes, LastChunk
  <2>3. c \in Nat /\ c + 1 \in 1..Len(r.chunks) BY <2>2
  <2> QED BY <2>1, <2>2, <2>3
<1>3. e \in Seq(Int) /\ Len(e) \in Nat /\ Consecutive(e) BY DEF Paged, Base, Content, Run
<1>4. Last(e) = 2 * r.next + 1 /\ r.next >= c /\ r.next \in Int
  BY <1>1 DEF Paged, Base, Content
<1>5. e[1] = 2 * c /\ Len(e) >= 1 BY <1>1, <1>3
<1>6. Len(e) >= 2
  <2>1. Len(e) # 1
    <3>1. SUFFICES ASSUME Len(e) = 1 PROVE FALSE OBVIOUS
    <3>2. 2 * r.next + 1 = 2 * c BY <1>4, <1>5, <3>1 DEF Last
    <3> QED BY <1>2, <1>4, <3>2
  <2>2. \A n \in Nat : n >= 1 /\ n # 1 => n >= 2 OBVIOUS
  <2> QED BY <1>3, <1>5, <2>1, <2>2
<1>7. e[2] = 2 * c + 1
  <2>1. 1 \in 1..Len(e) - 1 BY <1>3, <1>6
  <2>2. e[1 + 1] = e[1] + 1 BY <1>3, <2>1 DEF Consecutive
  <2> QED BY <1>5, <2>2
<1>8. /\ (2 * c) \div 2 = c /\ (2 * c) % 2 = 0
      /\ (2 * c + 1) \div 2 = c /\ (2 * c + 1) % 2 = 1
  BY <1>2
<1> HIDE DEF c, e
<1>9. CASE r.chunks[c + 1] = "key"
  <2>1. 1 \in DOMAIN e /\ 1..1 - 1 = {} BY <1>3, <1>5
  <2>2. SnapshotAt(r, e[1]) BY <1>5, <1>8, <1>9 DEF SnapshotAt
  <2> QED BY <2>1, <2>2 DEF e
<1>10. CASE r.chunks[c + 1] = "late"
  <2>1. 2 \in DOMAIN e /\ 1..2 - 1 = {1} BY <1>3, <1>6
  <2>2. SnapshotAt(r, e[2]) BY <1>7, <1>8, <1>10 DEF SnapshotAt
  <2>3. ~SnapshotAt(r, e[1]) BY <1>5, <1>8, <1>10 DEF SnapshotAt
  <2> QED BY <2>1, <2>2, <2>3 DEF e
<1> QED BY <1>2, <1>9, <1>10

LEMMA ReloadOverKeeps ==
  ASSUME NEW r, Paged(r), r.task.kind = "reload"
  PROVE  Inv(ReloadOver(r))
<1> USE FieldNames
<1> DEFINE P(i) == SnapshotAt(r, r.events[i]) /\ \A j \in 1..i - 1 : ~SnapshotAt(r, r.events[j])
           first == CHOOSE i \in DOMAIN r.events : P(i)
           window == SubSeq(r.events, first, Len(r.events))
           u == [r EXCEPT !.repositioning = FALSE, !.events = window, !.shown = window,
                          !.windowSeq = r.task.target, !.windowStart = Head(window), !.rebuild = TRUE]
           v == [u EXCEPT !.pending = [r.task.seek EXCEPT !.off = Landing(u, r.task.off)]]
<1>0. DOMAIN r = Names /\ r.loaded BY DEF Paged, Base, Content, Tasks
<1>1. first \in DOMAIN r.events
  <2>1. \E i \in DOMAIN r.events : P(i) BY SnapshotComes
  <2> HIDE DEF P
  <2> QED BY <2>1
<1>2. Run(r.events) /\ r.next \in Int /\ r.events # << >> /\ Last(r.events) = 2 * r.next + 1
  BY DEF Paged, Base, Content
<1>3. ReloadOver(r) = JumpOver(v) BY DEF ReloadOver
<1> HIDE DEF first
<1>4. Run(window) /\ window # << >> /\ Last(window) = 2 * r.next + 1 BY <1>1, <1>2, RunCut
<1> HIDE DEF window
<1>5. /\ DOMAIN v = Names /\ v.chunks = r.chunks /\ v.next = r.next /\ v.loaded = r.loaded
      /\ v.live = r.live /\ v.held = r.held
  BY <1>0
<1>6. v.events = window /\ v.shown = window /\ v.repositioning = FALSE /\ v.rebuild = TRUE
  BY <1>0
<1> HIDE DEF u, v
<1>7. Content(v) BY <1>0, <1>4, <1>5, <1>6 DEF Paged, Base, Content
<1>8. Kept(v, JumpOver(v)) BY <1>0, <1>5, <1>6, <1>7, OverKeeps
<1> QED BY <1>3, <1>6, <1>8 DEF Kept, Inv

\* A page arrives, and the loop that asked for it goes on or ends.
LEMMA PageKeeps ==
  ASSUME NEW r, Inv(r), ~r.rebuild, r.task.kind \in {"boot", "prefetch", "extend", "reload"}
  PROVE  Inv(Continue(LoadPage(r)))
<1> DEFINE t == LoadPage(r)
<1>1. Paged(t) BY LoadPageKeeps DEF Inv
<1> HIDE DEF t
<1>2. Inv(t) BY <1>1 DEF Paged, Inv
<1>3. t.task.kind \in {"boot", "prefetch", "extend", "reload"} BY <1>1 DEF Paged
<1>4. Continue(t) \in {t, BootOver(t), PrefetchOver(t), ExtendOver(t), ReloadOver(t)}
  BY DEF Continue
<1>5. CASE t.task.kind = "boot"
  <2>1. Continue(t) \in {t, BootOver(t)} BY <1>5 DEF Continue
  <2> QED BY <1>1, <1>2, <1>5, <2>1, BootOverKeeps DEF t
<1>6. CASE t.task.kind \in {"prefetch", "extend"}
  <2>1. Continue(t) \in {t, PrefetchOver(t), ExtendOver(t)} BY <1>6 DEF Continue
  <2> QED BY <1>1, <1>2, <1>6, <2>1, ExtendOverKeeps DEF t
<1>7. CASE t.task.kind = "reload"
  <2>1. Continue(t) \in {t, ReloadOver(t)} BY <1>7 DEF Continue
  <2> QED BY <1>1, <1>2, <1>7, <2>1, ReloadOverKeeps DEF t
<1> QED BY <1>3, <1>5, <1>6, <1>7

------------------------------------------------------------------------------
(* The player                                                              *)

LEMMA ClockKeeps ==
  ASSUME NEW r, NEW time, Base(r), r.loaded
  PROVE  Kept(r, SetClock(r, time))
<1> USE FieldNames
<1> DEFINE u == [r EXCEPT !.clock = time]
<1>0. DOMAIN r = Names BY DEF Base, Content
<1>1. DOMAIN u = Names /\ View(u) = View(r) /\ u.loaded BY <1>0 DEF View
<1>2. Kept(r, u) BY <1>1, SameView
<1> HIDE DEF u
<1>3. Kept(u, OnPlaybackTime(u, time)) BY <1>1, <1>2, PlaybackKeeps DEF Kept
<1>4. Kept(r, OnPlaybackTime(u, time)) BY <1>2, <1>3, KeptOnward
<1> QED BY <1>4 DEF SetClock, u

\* A seek is served in the window, or becomes a jump.
LEMMA SeekKeeps ==
  ASSUME NEW r, NEW s, NEW fromLoader, Base(r)
  PROVE  Kept(r, SeekToOffset(r, s, fromLoader))
<1> USE FieldNames
<1> DEFINE target == SeekTarget(r, s.off, fromLoader)
           u == [r EXCEPT !.waiting = None, !.resume = FALSE]
           outside == (~fromLoader /\ r.seekingSeen) \/ target < r.start \/ target > r.end
           far == [u EXCEPT !.awaiting = TRUE, !.wants = FALSE, !.playing = FALSE, !.clock = target]
           near == [GoTo(u, target, s.play) EXCEPT !.awaiting = FALSE, !.wants = s.play,
                                                   !.started = TRUE, !.landed = @ \cup {s.id}]
           jump == [s EXCEPT !.off = target, !.play = FALSE]
<1>0. DOMAIN r = Names /\ (r.live => r.loaded) BY DEF Base, Content
<1>1. DOMAIN u = Names /\ View(u) = View(r) BY <1>0 DEF View
<1>2. DOMAIN far = Names /\ View(far) = View(r) /\ far.loaded = r.loaded BY <1>0 DEF View
<1>3. DOMAIN near = Names /\ View(near) = View(r) /\ near.loaded = r.loaded
  BY <1>0 DEF View, GoTo
<1>4. SeekToOffset(r, s, fromLoader) =
        IF ~r.live THEN r ELSE IF outside THEN RunSeek(far, jump) ELSE SetClock(near, target)
  BY DEF SeekToOffset
<1> HIDE DEF u, far, near, jump, target, outside
<1>5. Kept(r, far) /\ Kept(r, near) BY <1>2, <1>3, SameView
<1>6. Kept(r, r) BY <1>0, SameView
<1>7. ASSUME r.live PROVE Kept(r, RunSeek(far, jump)) /\ Kept(r, SetClock(near, target))
  <2>1. far.loaded /\ near.loaded BY <1>0, <1>2, <1>3, <1>7
  <2>2. Kept(far, RunSeek(far, jump)) BY <1>5, <2>1, RunSeekKeeps DEF Kept
  <2>3. Kept(near, SetClock(near, target)) BY <1>5, <2>1, ClockKeeps DEF Kept
  <2> QED BY <1>5, <2>2, <2>3, KeptOnward
<1> QED BY <1>4, <1>6, <1>7

------------------------------------------------------------------------------
(* A commit                                                                *)

LEMMA BufferingKeeps ==
  ASSUME NEW r, Base(r)
  PROVE  Kept(r, BufferingEffect(r))
<1> USE FieldNames
<1>0. DOMAIN r = Names BY DEF Base, Content
<1>1. DOMAIN BufferingEffect(r) = Names /\ View(BufferingEffect(r)) = View(r)
  BY <1>0 DEF BufferingEffect, View
<1> QED BY <1>1, SameView

\* The effect that builds the player: afterwards it holds the window, unless
\* a jump is loading another one.
LEMMA BuildKeeps ==
  ASSUME NEW r, Inv(r)
  PROVE  Base(BuildEffect(r)) /\ Fed(BuildEffect(r))
<1> USE FieldNames
<1> DEFINE resumeAt == IF r.live /\ ~r.rebuild THEN r.at - r.start ELSE 0
           u == [r EXCEPT !.live = TRUE, !.held = r.shown, !.start = r.windowStart,
                          !.end = Last(r.shown),
                          !.waiting = IF r.rebuild THEN None ELSE @, !.resume = ~r.rebuild /\ @,
                          !.started = @ \/ resumeAt > 0]
           v == GoTo(u, u.start + resumeAt, ~r.rebuild /\ r.playing /\ resumeAt > 0)
<1>0. DOMAIN r = Names BY DEF Inv, Base, Content
<1>1. CASE ~Builds(r)
  <2>1. BuildEffect(r) = r BY <1>1 DEF BuildEffect
  <2>2. ~r.rebuild BY <1>1 DEF Builds, Inv, Base, Content
  <2> QED BY <2>1, <2>2 DEF Inv
<1>2. CASE Builds(r)
  <2>1. r.loaded /\ r.shown # << >> BY <1>2 DEF Builds
  <2>2. /\ DOMAIN v = Names /\ v.chunks = r.chunks /\ v.indexed = r.indexed /\ v.next = r.next
        /\ v.events = r.events /\ v.shown = r.shown /\ v.repositioning = r.repositioning
        /\ v.pumping = r.pumping /\ v.task = r.task /\ v.loaded = r.loaded
        /\ v.rebuild = r.rebuild /\ v.windowStart = r.windowStart
    BY <1>0 DEF GoTo
  <2>3. v.live = TRUE /\ v.held = r.shown /\ v.start = r.windowStart /\ v.end = Last(r.shown)
    BY <1>0 DEF GoTo
  <2>4. BuildEffect(r) = IF r.awaiting THEN v ELSE SetClock(v, v.start + resumeAt)
    BY <1>2 DEF BuildEffect
  <2> HIDE DEF u, v
  <2>5. Content(v) BY <2>1, <2>2, <2>3 DEF Inv, Base, Content
  <2>6. Keyframes(v) = Keyframes(r) BY <2>2 DEF Keyframes, LastChunk
  <2>7. Tasks(v) BY <2>2, <2>6 DEF Inv, Base, Tasks, Reloading
  <2>8. Fed(v) BY <2>2, <2>3 DEF Fed, Inv, Base, Content
  <2>9. Kept(v, SetClock(v, v.start + resumeAt)) BY <2>1, <2>2, <2>5, <2>7, ClockKeeps DEF Base
  <2> QED BY <2>4, <2>5, <2>7, <2>8, <2>9 DEF Base, Kept
<1> QED BY <1>1, <1>2

LEMMA LandingKeeps ==
  ASSUME NEW r, Base(r)
  PROVE  Kept(r, RepositioningEffect(r)) /\ Kept(r, LandingEffect(r)) /\ Kept(r, WaitingEffect(r))
<1> USE FieldNames
<1>0. DOMAIN r = Names BY DEF Base, Content
<1>1. Kept(r, RepositioningEffect(r))
  <2>1. DOMAIN RepositioningEffect(r) = Names /\ View(RepositioningEffect(r)) = View(r)
    BY <1>0 DEF RepositioningEffect, View
  <2> QED BY <2>1, SameView
<1>2. Kept(r, LandingEffect(r))
  <2> DEFINE u == [r EXCEPT !.pending = NoSeek]
  <2>1. DOMAIN u = Names /\ View(u) = View(r) BY <1>0 DEF View
  <2>2. Kept(r, u) BY <2>1, SameView
  <2>3. LandingEffect(r) \in {r, SeekToOffset(u, r.pending, TRUE)} BY DEF LandingEffect
  <2> HIDE DEF u
  <2>4. Base(u) BY <2>2 DEF Kept
  <2>5. Kept(u, SeekToOffset(u, r.pending, TRUE)) BY <2>4, SeekKeeps
  <2>6. Kept(r, SeekToOffset(u, r.pending, TRUE)) BY <2>2, <2>5, KeptOnward
  <2>7. Kept(r, r) BY <1>0, SameView
  <2> QED BY <2>3, <2>6, <2>7
<1>3. Kept(r, WaitingEffect(r))
  <2>1. DOMAIN WaitingEffect(r) = Names /\ View(WaitingEffect(r)) = View(r)
    BY <1>0 DEF WaitingEffect, GoTo, View
  <2> QED BY <2>1, SameView
<1> QED BY <1>1, <1>2, <1>3

LEMMA EffectsKeep ==
  ASSUME NEW r, Inv(r)
  PROVE  Inv(Effects(r))
<1> USE FieldNames
<1> DEFINE x == BufferingEffect(r)
           y == BuildEffect(x)
           a == RepositioningEffect(y)
           b == LandingEffect(a)
           c == IF r.rebuild \/ r.ready THEN [b EXCEPT !.pending = NoSeek] ELSE b
           d == [Seen(c) EXCEPT !.busySeen = Busy(r), !.seekingSeen = r.seeking]
<1>1. Inv(x) BY BufferingKeeps DEF Inv, Kept
<1> HIDE DEF x
<1>2. Base(y) /\ Fed(y) BY <1>1, BuildKeeps
<1> HIDE DEF y
<1>3. Base(a) /\ Fed(a) BY <1>2, LandingKeeps DEF Kept
<1> HIDE DEF a
<1>4. Base(b) /\ Fed(b) BY <1>3, LandingKeeps DEF Kept
<1> HIDE DEF b
<1>5. Base(c) /\ Fed(c)
  <2>1. DOMAIN b = Names BY <1>4 DEF Base, Content
  <2>2. DOMAIN c = Names /\ View(c) = View(b) BY <2>1 DEF View
  <2> HIDE DEF c
  <2> QED BY <1>4, <2>2, SameView DEF Kept
<1> HIDE DEF c
<1>6. Base(d) /\ Fed(d)
  <2>0. DOMAIN c = Names BY <1>5 DEF Base, Content
  <2>1. /\ DOMAIN d = Names /\ d.chunks = c.chunks /\ d.indexed = c.indexed /\ d.next = c.next
        /\ d.events = c.events /\ d.shown = c.shown /\ d.repositioning = c.repositioning
        /\ d.pumping = c.pumping /\ d.task = c.task /\ d.loaded = c.loaded /\ d.live = c.live
        /\ d.held = c.held /\ d.start = c.start /\ d.end = c.end /\ d.windowStart = c.windowStart
        /\ d.rebuild = FALSE
    BY <2>0 DEF Seen
  <2> HIDE DEF d
  <2>2. Content(d) BY <1>5, <2>1 DEF Base, Content
  <2>3. Keyframes(d) = Keyframes(c) BY <2>1 DEF Keyframes, LastChunk
  <2>4. Tasks(d) BY <1>5, <2>1, <2>3 DEF Base, Tasks, Reloading
  <2> QED BY <1>5, <2>1, <2>2, <2>4 DEF Base, Fed
<1> HIDE DEF d
<1>7. Inv(WaitingEffect(d)) BY <1>6, LandingKeeps DEF Kept, Inv
<1> QED BY <1>7 DEF Effects, x, y, a, b, c, d

------------------------------------------------------------------------------
(* The replay                                                              *)

Whole == Inv(w)

LEMMA Initial == Init => Whole
<1> SUFFICES ASSUME NEW q \in Recordings, w = NewReplay(q.chunks, q.indexed), ReplayAssumption
             PROVE  Inv(w)
  BY ReplayAssumption DEF Init, Whole
<1>1. q.chunks \in Seq({"plain", "key", "late"}) BY DEF ReplayAssumption
<1>2. DOMAIN w = Names BY DEF Names, NewReplay
<1>3. /\ w.chunks = q.chunks /\ w.next = -1 /\ w.events = << >> /\ w.shown = << >>
      /\ w.live = FALSE /\ w.rebuild = FALSE /\ w.repositioning = FALSE /\ w.pumping = FALSE
      /\ w.task.kind = "boot" /\ w.loaded = FALSE
  BY DEF NewReplay, None
<1>4. Run(<< >>)
  <2>1. Len(<< >>) = 0 /\ 1..0 - 1 = {} BY SMT
  <2> QED BY <2>1 DEF Run, Consecutive
<1>5. Content(w) BY <1>1, <1>2, <1>3, <1>4 DEF Content
<1>6. Tasks(w) BY <1>3 DEF Tasks
<1> QED BY <1>3, <1>5, <1>6 DEF Inv, Base, Fed

\* What keeps Base and Fed keeps the invariant.
LEMMA KeptIsSafe ==
  ASSUME NEW r, NEW t, Inv(r), Kept(r, t)
  PROVE  Inv(t)
BY DEF Inv, Kept

LEMMA Step == Whole /\ [Next]_vars => Whole'
<1> SUFFICES ASSUME Inv(w), [Next]_vars PROVE Inv(w')
  BY DEF Whole
<1> USE FieldNames
<1>0. DOMAIN w = Names /\ Base(w) /\ (w.live => w.loaded) BY DEF Inv, Base, Content
<1>1. CASE PageArrives
  <2>1. ~w.rebuild /\ w.task.kind \in {"boot", "prefetch", "extend", "reload"}
    BY <1>0, <1>1 DEF PageArrives, Loading, Free, Base, Tasks
  <2> QED BY <1>1, <2>1, PageKeeps DEF PageArrives
<1>2. CASE PageFails
  <2>1. DOMAIN w' = Names /\ View(w') = View(w) BY <1>0, <1>2 DEF PageFails, View
  <2> QED BY <1>0, <2>1, SameView, KeptIsSafe
<1>3. CASE Over
  <2>1. w.loaded /\ ~w.repositioning BY <1>0, <1>3 DEF Over, Base, Tasks
  <2>2. Kept(w, JumpOver(w)) BY <1>0, <2>1, OverKeeps DEF Base
  <2> QED BY <1>3, <2>2, KeptIsSafe DEF Over
<1>4. CASE Commit
  BY <1>4, EffectsKeep DEF Commit
<1>5. CASE Play
  <2>1. PICK report \in BOOLEAN : w' = Advance(w, report) BY <1>5 DEF Play
  <2> DEFINE u == [w EXCEPT !.at = @ + 1]
  <2>2. DOMAIN u = Names /\ View(u) = View(w) /\ u.loaded BY <1>0, <1>5 DEF View, Play, OnScreen
  <2>3. Advance(w, report) \in {u, SetClock(u, u.at)} BY DEF Advance
  <2> HIDE DEF u
  <2>4. Kept(w, u) BY <1>0, <2>2, SameView
  <2>5. Kept(u, SetClock(u, u.at)) BY <2>2, <2>4, ClockKeeps DEF Kept
  <2>6. Kept(w, SetClock(u, u.at)) BY <2>4, <2>5, KeptOnward
  <2> QED BY <2>1, <2>3, <2>4, <2>6, KeptIsSafe
<1>6. CASE Finish
  <2> DEFINE u == [w EXCEPT !.playing = FALSE]
             v == [u EXCEPT !.waiting = w.end]
  <2>1. /\ DOMAIN u = Names /\ View(u) = View(w)
        /\ DOMAIN v = Names /\ View(v) = View(w) /\ v.loaded
    BY <1>0, <1>6 DEF View, Finish, OnScreen
  <2>2. w' \in {u, SetClock(v, w.end)} BY <1>6 DEF Finish, FinishHeld
  <2> HIDE DEF u, v
  <2>3. Kept(w, u) /\ Kept(w, v) BY <1>0, <2>1, SameView
  <2>4. Kept(v, SetClock(v, w.end)) BY <2>1, <2>3, ClockKeeps DEF Kept
  <2>5. Kept(w, SetClock(v, w.end)) BY <2>3, <2>4, KeptOnward
  <2> QED BY <2>2, <2>3, <2>5, KeptIsSafe
<1>7. ASSUME NEW t, Kept(w, t) PROVE Inv(Clicked(t))
  <2>1. Inv(t) /\ Base(t) /\ DOMAIN t = Names BY <1>7, KeptIsSafe DEF Kept, Base, Content
  <2>2. DOMAIN Clicked(t) = Names /\ View(Clicked(t)) = View(t) BY <2>1 DEF Clicked, View
  <2> QED BY <2>1, <2>2, SameView, KeptIsSafe
<1>8. CASE Seek
  <2> DEFINE u == [w EXCEPT !.asked = @ + 1]
             s(off) == [off |-> off, play |-> w.playing, id |-> w.asked + 1]
  <2>1. PICK off : w' = Clicked(SeekToOffset(u, s(off), FALSE)) BY <1>8 DEF Seek
  <2>2. DOMAIN u = Names /\ View(u) = View(w) BY <1>0 DEF View
  <2> HIDE DEF u
  <2>3. Kept(w, u) BY <1>0, <2>2, SameView
  <2>4. Base(u) BY <2>3 DEF Kept
  <2>5. Kept(u, SeekToOffset(u, s(off), FALSE)) BY <2>4, SeekKeeps
  <2>6. Kept(w, SeekToOffset(u, s(off), FALSE)) BY <2>3, <2>5, KeptOnward
  <2> QED BY <1>7, <2>1, <2>6
<1>9. CASE PlayFromStart
  <2> DEFINE u == [GoTo(w, w.start, TRUE) EXCEPT !.wants = TRUE, !.started = TRUE]
  <2>1. DOMAIN u = Names /\ View(u) = View(w) /\ u.loaded
    BY <1>0, <1>9 DEF View, GoTo, PlayFromStart, OnScreen
  <2>2. w' = Clicked(SetClock(u, w.start)) BY <1>9 DEF PlayFromStart, PlayWindow
  <2> HIDE DEF u
  <2>3. Kept(w, u) BY <1>0, <2>1, SameView
  <2>4. Kept(u, SetClock(u, w.start)) BY <2>1, <2>3, ClockKeeps DEF Kept
  <2>5. Kept(w, SetClock(u, w.start)) BY <2>3, <2>4, KeptOnward
  <2> QED BY <1>7, <2>2, <2>5
<1>10. CASE Toggle
  <2> DEFINE duration == IF w.indexed THEN Duration(w) ELSE w.end
             target == IF w.clock >= duration THEN w.start ELSE w.clock
             u == [w EXCEPT !.wants = FALSE, !.waiting = None, !.playing = FALSE]
             v == [GoTo(w, target, TRUE) EXCEPT !.wants = TRUE, !.started = TRUE]
  <2>1. /\ DOMAIN u = Names /\ View(u) = View(w) /\ u.loaded
        /\ DOMAIN v = Names /\ View(v) = View(w) /\ v.loaded
    BY <1>0, <1>10 DEF View, GoTo, Toggle, OnScreen
  <2>2. w' \in {Clicked(SetClock(u, w.at)), Clicked(SetClock(v, target))}
    BY <1>10 DEF Toggle, TogglePlay
  <2> HIDE DEF u, v, target
  <2>3. Kept(w, u) /\ Kept(w, v) BY <1>0, <2>1, SameView
  <2>4. Kept(u, SetClock(u, w.at)) /\ Kept(v, SetClock(v, target))
    BY <2>1, <2>3, ClockKeeps DEF Kept
  <2>5. Kept(w, SetClock(u, w.at)) /\ Kept(w, SetClock(v, target))
    BY <2>3, <2>4, KeptOnward
  <2> QED BY <1>7, <2>2, <2>5
<1>11. CASE Resize
  <2>1. DOMAIN w' = Names /\ View(w') = View(w) BY <1>0, <1>11 DEF Resize, View
  <2> QED BY <1>0, <2>1, SameView, KeptIsSafe
<1>12. CASE UNCHANGED vars
  BY <1>12 DEF vars
<1> QED BY <1>1, <1>2, <1>3, <1>4, <1>5, <1>6, <1>8, <1>9, <1>10, <1>11, <1>12 DEF Next

\* The player never holds a stream with a hole or a page of another window,
\* whatever the recording, the seeks, the resizes and the thresholds: between
\* the end of a jump and the commit that rebuilds the player no page is fed,
\* and a jump feeds none (useReplay.ts:80-84, 170-174).
THEOREM PlayerHoldsWindow == Spec => []PlayerWhole
<1>1. Whole => PlayerWhole BY DEF Whole, Inv, Base, Content, Run, Fed, PlayerWhole
<1> QED BY <1>1, Initial, Step, PTL DEF Spec
=============================================================================
