------------------------------- MODULE Replay -------------------------------
(***************************************************************************)
(* A replay on the dashboard: the operator plays, pauses, seeks and        *)
(* resizes, the player runs, pages of the recording arrive or fail, and    *)
(* the page's state is committed to the player in between.                 *)
(*                                                                         *)
(* The player (dashboard/src/components/replay/ReplayPlayer/hooks/         *)
(* useReplayPlayer.ts) is an rrweb player that holds the events of one     *)
(* window, from w.start to w.end, with its playhead at w.at, rebuilt when  *)
(* the window is loaded anew or its box is resized.  React state reaches   *)
(* it with a commit, whose effects run in their order.                     *)
(***************************************************************************)
EXTENDS ReplayStream

CONSTANTS Recordings, \* the recordings: [chunks, indexed]
          MaxSeeks,   \* bound of the operator's seeks
          MaxResizes  \* bound of the resizes of the player's box

ASSUME ReplayAssumption ==
  /\ MaxSeeks \in Nat /\ MaxResizes \in Nat
  /\ \A r \in Recordings : /\ r.chunks \in Seq({"plain", "key", "late"}) /\ r.chunks # << >>
                           /\ \E i \in DOMAIN r.chunks : r.chunks[i] # "plain"
                           /\ r.indexed \in BOOLEAN

------------------------------------------------------------------------------
(* The player                                                              *)

Busy(w) == w.buffering \/ w.seeking

\* setCurrentTime(): the clock, and the loader's decision on it.
SetClock(w, t) == OnPlaybackTime([w EXCEPT !.clock = t], t)

\* rrweb's goto(): within the events it holds.
GoTo(w, t, play) == [w EXCEPT !.at = Clamp(t, w.start, Last(w.held)), !.playing = play]

\* The landing of a jump is final: it is kept inside the window.
SeekTarget(w, off, fromLoader) ==
  IF fromLoader THEN Clamp(off, w.start, IF w.end > w.start THEN w.end ELSE w.start) ELSE off

\* seekToOffset(): in the window at once, outside of it by the loader.
SeekToOffset(w, s, fromLoader) ==
  LET target == SeekTarget(w, s.off, fromLoader)
      u == [w EXCEPT !.waiting = None, !.resume = FALSE]
      outside == (~fromLoader /\ w.seekingSeen) \/ target < w.start \/ target > w.end
  IN IF ~w.live THEN w
     ELSE IF outside
     THEN RunSeek([u EXCEPT !.awaiting = TRUE, !.wants = FALSE, !.playing = FALSE,
                            !.clock = target],
                  [s EXCEPT !.off = target, !.play = FALSE])
     ELSE SetClock([GoTo(u, target, s.play) EXCEPT !.awaiting = FALSE, !.wants = s.play,
                                                   !.started = TRUE, !.landed = @ \cup {s.id}],
                   target)

------------------------------------------------------------------------------
(* The effects of a commit                                                 *)

\* A stall pauses the player and remembers to resume; a jump only pauses.
BufferingEffect(w) ==
  IF Busy(w) = w.busySeen THEN w
  ELSE IF Busy(w)
  THEN [w EXCEPT !.resume = @ \/ (~w.seeking /\ w.wants /\ w.live), !.playing = FALSE]
  ELSE [w EXCEPT !.resume = FALSE,
                 !.playing = @ \/ (w.resume /\ ~w.rebuild /\ w.live /\ w.wants)]

\* The player is built when there is none, the window is another one or the
\* box has changed; only the last keeps the position.  A window of one event
\* is a snapshot with its Meta event, which are two for the player.
Builds(w) == w.loaded /\ w.shown # << >> /\ (w.rebuild \/ w.resized \/ ~w.live)

BuildEffect(w) ==
  LET resumeAt == IF w.live /\ ~w.rebuild THEN w.at - w.start ELSE 0
      u == [w EXCEPT !.live = TRUE, !.held = w.shown, !.start = w.windowStart,
                     !.end = Last(w.shown),
                     !.waiting = IF w.rebuild THEN None ELSE @, !.resume = ~w.rebuild /\ @,
                     !.started = @ \/ resumeAt > 0]
      v == GoTo(u, u.start + resumeAt, ~w.rebuild /\ w.playing /\ resumeAt > 0)
  IN IF ~Builds(w) THEN w
     ELSE IF w.awaiting THEN v ELSE SetClock(v, v.start + resumeAt)

\* A jump that ends without a landing does not leave the clock frozen.
RepositioningEffect(w) ==
  IF w.seekingSeen /\ ~w.seeking THEN [w EXCEPT !.awaiting = FALSE] ELSE w

\* The parent's effect: a jump lands once the player is there.
LandingEffect(w) ==
  IF ~(w.rebuild \/ w.ready) \/ w.pending = NoSeek THEN w
  ELSE SeekToOffset([w EXCEPT !.pending = NoSeek], w.pending, TRUE)

\* The player stopped at the end of what it held, and there is more now.
Resumes(w) == /\ w.waiting # None /\ w.wants
              /\ w.shown # << >> /\ Last(w.shown) > w.waiting

\* Mutant of WaitingEffect: a player that stopped at the end stays there.
WaitingEffectNone(w) == w

WaitingEffect(w) ==
  IF Resumes(w) THEN GoTo([w EXCEPT !.waiting = None], w.waiting, TRUE) ELSE w

Seen(w) == [w EXCEPT !.rebuild = FALSE, !.ready = FALSE, !.resized = FALSE, !.urgent = FALSE]

\* The effects of one commit; what they set is for the next one.
Effects(w) ==
  LET a == RepositioningEffect(BuildEffect(BufferingEffect(w)))
      b == LandingEffect(a)
      c == IF w.rebuild \/ w.ready THEN [b EXCEPT !.pending = NoSeek] ELSE b
  IN WaitingEffect([Seen(c) EXCEPT !.busySeen = Busy(w), !.seekingSeen = w.seeking])

\* Is there anything for an effect to react to?
CommitDue(w) ==
  \/ w.rebuild \/ w.ready \/ Busy(w) # w.busySeen \/ w.seeking # w.seekingSeen
  \/ Builds(w) \/ Resumes(w)

------------------------------------------------------------------------------
(* Playback                                                                *)

\* A frame; positions are reported a few times a second, if at all.
Advance(w, report) ==
  LET u == [w EXCEPT !.at = @ + 1]
  IN IF report /\ ~w.awaiting THEN SetClock(u, u.at) ELSE u

\* rrweb's finish: the last event held has been played.
FinishHeld(w) ==
  LET u == [w EXCEPT !.playing = FALSE]
  IN IF w.indexed /\ w.end < Duration(w) /\ w.wants
     THEN SetClock([u EXCEPT !.waiting = w.end], w.end) ELSE u

\* playFromStart(): the cover of a player that was never started.
PlayWindow(w) ==
  SetClock([GoTo(w, w.start, TRUE) EXCEPT !.wants = TRUE, !.started = TRUE], w.start)

\* togglePlayback(): from the clock, or from the window's start at the end.
TogglePlay(w) ==
  LET duration == IF w.indexed THEN Duration(w) ELSE w.end
      target == IF w.clock >= duration THEN w.start ELSE w.clock
  IN IF w.playing
     THEN SetClock([w EXCEPT !.wants = FALSE, !.waiting = None, !.playing = FALSE], w.at)
     ELSE SetClock([GoTo(w, target, TRUE) EXCEPT !.wants = TRUE, !.started = TRUE], target)

\* A click's updates are committed before anything else happens.
Clicked(w) == [w EXCEPT !.urgent = CommitDue(w)]

------------------------------------------------------------------------------
(* The replay                                                              *)

VARIABLES w,      \* the replay
          resizes \* resizes to come

vars == << w, resizes >>

\* Nothing comes between a click and its commit, nor before the end of a
\* jump that asked for no page.
Free == ~w.urgent /\ w.task.kind # "over" /\ ~w.error

Loading == Free /\ w.task.kind # "idle"

OnScreen == w.loaded /\ w.live

Init == /\ \E r \in Recordings : w = NewReplay(r.chunks, r.indexed)
        /\ resizes = MaxResizes

\* A page of the recording arrives, and its stylesheets.  It was asked for
\* before the rebuild that is due, if any, which does not wait for it.
PageArrives ==
  /\ Loading /\ ~w.rebuild
  /\ w' = Continue(LoadPage(w))
  /\ UNCHANGED resizes

\* A page, or a stylesheet of it, cannot be loaded: only the error is shown.
PageFails ==
  /\ Loading /\ ~w.rebuild
  /\ w' = [w EXCEPT !.error = TRUE]
  /\ UNCHANGED resizes

\* A jump that asked for no page is over, in a microtask.
Over ==
  /\ ~w.urgent /\ w.task.kind = "over"
  /\ w' = JumpOver(w)
  /\ UNCHANGED resizes

\* React renders, and runs the effects.
Commit ==
  /\ w.urgent \/ Free
  /\ CommitDue(w)
  /\ w' = Effects(w)
  /\ UNCHANGED resizes

Play ==
  /\ Free /\ OnScreen /\ w.playing /\ w.at < Last(w.held)
  /\ \E report \in BOOLEAN : w' = Advance(w, report)
  /\ UNCHANGED resizes

Finish ==
  /\ Free /\ OnScreen /\ w.playing /\ w.at = Last(w.held)
  /\ w' = FinishHeld(w)
  /\ UNCHANGED resizes

\* The operator seeks: on the scrubber, or at an entry of the side panel.
Seek ==
  /\ Free /\ OnScreen /\ w.asked < MaxSeeks
  /\ \E off \in 0..(2 * LastChunk(w) + 1 + TAIL) :
       w' = Clicked(SeekToOffset([w EXCEPT !.asked = @ + 1],
                                 [off |-> off, play |-> w.playing, id |-> w.asked + 1], FALSE))
  /\ UNCHANGED resizes

PlayFromStart ==
  /\ Free /\ OnScreen /\ ~w.started /\ ~w.busySeen
  /\ w' = Clicked(PlayWindow(w))
  /\ UNCHANGED resizes

Toggle ==
  /\ Free /\ OnScreen /\ w.started /\ ~w.busySeen
  /\ w' = Clicked(TogglePlay(w))
  /\ UNCHANGED resizes

Resize ==
  /\ Free /\ OnScreen /\ resizes > 0
  /\ resizes' = resizes - 1
  /\ w' = [w EXCEPT !.resized = TRUE]

Next == \/ PageArrives \/ PageFails \/ Over \/ Commit \/ Play \/ Finish
        \/ Seek \/ PlayFromStart \/ Toggle \/ Resize

Spec == Init /\ [][Next]_vars

\* Requests are answered or fail, and React renders: weak fairness of each,
\* with the guard it is enabled under in the place of ENABLED.
FairSpec ==
  /\ Spec
  /\ <>[](Loading /\ ~w.rebuild) => []<><<PageArrives \/ PageFails>>_vars
  /\ <>[](~w.urgent /\ w.task.kind = "over") => []<><<Over>>_vars
  /\ <>[]((w.urgent \/ Free) /\ CommitDue(w) /\ Effects(w) # w) => []<><<Commit>>_vars

------------------------------------------------------------------------------
(* Properties                                                              *)

Consecutive(s) == \A i \in 1..Len(s) - 1 : s[i + 1] = s[i] + 1

\* The player never holds a stream with a hole or a page of another window:
\* rrweb would apply mutations to nodes it never created
\* (useReplay.ts:80-84, 170-174).  Outside of a jump it holds the window.
PlayerWhole ==
  w.live => /\ Consecutive(w.held)
            /\ w.repositioning \/ w.rebuild
               \/ << w.held, w.start, w.end >> = << w.events, w.windowStart, Last(w.events) >>

\* A seek is never lost (useReplay.ts:357): it lands, or another follows it,
\* or no snapshot precedes it, or the page fails.
SeekLands == \A k \in 1..MaxSeeks :
  (w.asked = k) ~> (k \in w.landed \cup w.dropped \/ w.asked > k \/ w.error)

\* A player that stopped because it caught up with the pages plays on once
\* there are more (useReplayPlayer.ts:224-227), unless the operator acts.
PlaybackContinues ==
  (w.waiting # None /\ ~w.playing /\ ~w.exhausted) ~> (w.playing \/ w.waiting = None \/ w.error)
=============================================================================
