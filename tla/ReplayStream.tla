---------------------------- MODULE ReplayStream ----------------------------
(***************************************************************************)
(* The stream behind a replay (dashboard/src/pages/Replay/hooks/           *)
(* useReplay.ts): a window of the recording's events that is extended as   *)
(* the playhead approaches its end, rebased at a newer snapshot when it    *)
(* grows too long, and loaded anew for a seek outside of it.               *)
(*                                                                         *)
(* A replay is a record w: the recording, the loader's refs, the React     *)
(* state of the page and what of it is committed, and the player (module   *)
(* Replay).  Chunk c of a recording holds the events at times 2c and       *)
(* 2c + 1; w.chunks[c + 1] says whether the chunk holds a FullSnapshot:    *)
(* "plain" none, "key" its first event, "late" its second (the Meta event  *)
(* before a snapshot is part of it).  One page of the server is one chunk. *)
(* The loader's running task is [kind, off, ...]: what the loop waits for. *)
(***************************************************************************)
EXTENDS Integers, Sequences, SequencesExt, FiniteSetsExt

CONSTANTS AHEAD,    \* BUFFER_AHEAD_MS
          PREFETCH, \* PREFETCH_WITHIN_MS
          MAX_SPAN, \* MAX_WINDOW_SPAN_MS
          TAIL      \* how long the index says the recording is, past its last event

ASSUME StreamAssumption ==
  /\ {AHEAD, PREFETCH, MAX_SPAN, TAIL} \subseteq Nat
  /\ PREFETCH < AHEAD

None == -1

\* No seek waits, or is to land.
NoSeek == [off |-> None, play |-> FALSE, id |-> None]

Chunk(c)         == << 2 * c, 2 * c + 1 >>
LastChunk(w)     == Len(w.chunks) - 1
Keyframes(w)     == {c \in 0..LastChunk(w) : w.indexed /\ w.chunks[c + 1] # "plain"}
SnapshotAt(w, e) == \/ w.chunks[e \div 2 + 1] = "key" /\ e % 2 = 0
                    \/ w.chunks[e \div 2 + 1] = "late" /\ e % 2 = 1
Duration(w)      == IF w.indexed THEN 2 * LastChunk(w) + 1 + TAIL ELSE 0

\* What the loader holds, from the start of the recording.
Buffered(w) == IF w.events = << >> THEN 0 ELSE Last(w.events)

\* The newest indexed snapshot chunk that starts at or before off.
Keyframe(w, off) == LET before == {c \in Keyframes(w) : 2 * c <= off}
                    IN IF before = {} THEN None ELSE Max(before)

Clamp(off, from, to) == IF off < from THEN from ELSE IF off > to THEN to ELSE off

\* Where a finished jump puts the playhead.
Landing(w, off) ==
  Clamp(off, w.windowStart, IF Buffered(w) > w.windowStart THEN Buffered(w) ELSE w.windowStart)

\* The recording opens: nothing is loaded, the first page is on its way.
NewReplay(chunks, indexed) ==
  [ chunks |-> chunks, indexed |-> indexed,
    events |-> << >>, next |-> None, exhausted |-> FALSE, windowSeq |-> None, windowStart |-> 0,
    pending |-> NoSeek, queued |-> NoSeek, repositioning |-> FALSE, pumping |-> FALSE,
    task |-> [kind |-> "boot"],
    shown |-> << >>, loaded |-> FALSE, seeking |-> FALSE, buffering |-> FALSE,
    rebuild |-> FALSE, ready |-> FALSE, resized |-> FALSE, error |-> FALSE,
    busySeen |-> FALSE, seekingSeen |-> FALSE, urgent |-> FALSE,
    live |-> FALSE, held |-> << >>, start |-> 0, end |-> 0, at |-> 0, playing |-> FALSE,
    wants |-> FALSE, awaiting |-> FALSE, waiting |-> None, resume |-> FALSE, started |-> FALSE,
    clock |-> 0, asked |-> 0, landed |-> {}, dropped |-> {} ]

------------------------------------------------------------------------------
(* Seeks: s is [off, play, id], id the operator's seek it serves           *)

Idle == [kind |-> "idle"]

\* A jump starts: the window it needs is extended, or loaded from the
\* snapshot before the target.  One that needs no page is over at once.
Jump(w, s) ==
  LET target == Keyframe(w, s.off)
      u == [w EXCEPT !.pumping = TRUE, !.seeking = TRUE]
  IN CASE target = None -> [u EXCEPT !.task = [kind |-> "over"], !.dropped = @ \cup {s.id}]
       [] target # None /\ target = w.windowSeq ->
            IF w.exhausted \/ Buffered(w) >= s.off + AHEAD
            THEN [u EXCEPT !.task = [kind |-> "over"], !.ready = TRUE,
                           !.pending = [s EXCEPT !.off = Landing(w, s.off)]]
            ELSE [u EXCEPT !.task = [kind |-> "extend", off |-> s.off, seek |-> s]]
       [] OTHER ->
            [u EXCEPT !.repositioning = TRUE, !.events = << >>, !.exhausted = FALSE,
                      !.next = target - 1,
                      !.task = [kind |-> "reload", off |-> s.off, seek |-> s, target |-> target]]

\* runSeek(): one jump at a time, the latest seek waits.
RunSeek(w, s) == IF w.pumping THEN [w EXCEPT !.queued = s] ELSE Jump(w, s)

\* drainSeek(): the seek that waited makes the landing of the last one stale.
DrainSeek(w) ==
  IF w.queued = NoSeek THEN w
  ELSE RunSeek([w EXCEPT !.queued = NoSeek, !.pending = NoSeek], w.queued)

\* The loader frees up.
JumpOver(w)     == DrainSeek([w EXCEPT !.task = Idle, !.pumping = FALSE, !.seeking = FALSE])
PrefetchOver(w) == DrainSeek([w EXCEPT !.task = Idle, !.pumping = FALSE, !.buffering = FALSE])

\* Mutant of ExtendOver: the page is not told that the seek can land.
ExtendOverSilent(w) ==
  JumpOver([w EXCEPT !.pending = [w.task.seek EXCEPT !.off = Landing(w, w.task.off)]])

\* The window now covers the seek: it lands with the next commit.
ExtendOver(w) ==
  JumpOver([w EXCEPT !.ready = TRUE,
                     !.pending = [w.task.seek EXCEPT !.off = Landing(w, w.task.off)]])

\* The new window starts at its first snapshot; the player is to be rebuilt.
ReloadOver(w) ==
  LET window == SubSeq(w.events, CHOOSE i \in DOMAIN w.events :
                                   /\ SnapshotAt(w, w.events[i])
                                   /\ \A j \in 1..i - 1 : ~SnapshotAt(w, w.events[j]),
                       Len(w.events))
      u == [w EXCEPT !.repositioning = FALSE, !.events = window, !.shown = window,
                     !.windowSeq = w.task.target, !.windowStart = Head(window), !.rebuild = TRUE]
  IN JumpOver([u EXCEPT !.pending = [w.task.seek EXCEPT !.off = Landing(u, w.task.off)]])

\* The recording is open: the first snapshot loaded is the window's.
BootOver(w) ==
  LET loaded == {c \in Keyframes(w) : c <= w.next}
  IN [w EXCEPT !.task = Idle, !.loaded = TRUE,
               !.windowSeq = IF loaded = {} THEN None ELSE Min(loaded)]

------------------------------------------------------------------------------
(* Pages                                                                   *)

\* appendEvents(): the player on screen is fed.
AppendEvents(w, page) ==
  IF w.live THEN [w EXCEPT !.held = @ \o page, !.end = IF Last(page) > @ THEN Last(page) ELSE @]
  ELSE w

\* Mutant of LoadPage: pages of a jump are fed to the player on screen.
LoadPageAnyway(w) ==
  LET page == Chunk(w.next + 1)
      u == [w EXCEPT !.events = @ \o page, !.next = @ + 1, !.exhausted = w.next + 1 = LastChunk(w)]
  IN [AppendEvents(u, page) EXCEPT !.shown = u.events]

\* loadPage(): pages of a jump are kept from the player that is on screen.
LoadPage(w) ==
  LET page == Chunk(w.next + 1)
      u == [w EXCEPT !.events = @ \o page, !.next = @ + 1, !.exhausted = w.next + 1 = LastChunk(w)]
  IN [(IF w.repositioning THEN u ELSE AppendEvents(u, page)) EXCEPT !.shown = u.events]

Covers(w, off)  == Buffered(w) >= off + AHEAD
HasSnapshot(w)  == \E i \in DOMAIN w.events : SnapshotAt(w, w.events[i])

\* The loop that asked for the page goes on or ends.
Continue(w) ==
  LET off == IF w.task.kind = "boot" THEN 0 ELSE w.task.off
      enough == /\ HasSnapshot(w) \/ w.task.kind # "boot"
                /\ w.indexed \/ w.task.kind # "boot"
                /\ Covers(w, off)
  IN IF ~(w.exhausted \/ enough) THEN w
     ELSE CASE w.task.kind = "boot"     -> BootOver(w)
            [] w.task.kind = "prefetch" -> PrefetchOver(w)
            [] w.task.kind = "extend"   -> ExtendOver(w)
            [] OTHER                    -> ReloadOver(w)

\* The playhead has left the window's snapshot far behind, and a newer one.
Rebases(w, off) ==
  /\ ~w.pumping /\ w.queued = NoSeek
  /\ off >= w.windowStart /\ off <= Buffered(w)
  /\ off - w.windowStart >= MAX_SPAN
  /\ Keyframe(w, off) \notin {None, w.windowSeq}

\* onPlaybackTime(): the window is rebased, or extended in time.
OnPlaybackTime(w, off) ==
  LET ahead == Buffered(w) - off
  IN IF Rebases(w, off) THEN RunSeek(w, [off |-> off, play |-> TRUE, id |-> w.asked])
     ELSE IF w.pumping \/ w.exhausted \/ ahead > PREFETCH THEN w
     ELSE [w EXCEPT !.pumping = TRUE, !.buffering = @ \/ ahead <= 0,
                    !.task = [kind |-> "prefetch", off |-> off]]
=============================================================================
