------------------------ MODULE TrackerSession_proofs ------------------------
EXTENDS TrackerSession, TLAPS

(***************************************************************************)
(* Types.  A state is a record, DOMAIN InitTab its field names; every      *)
(* function of the script maps a typed state to a typed state.  The goal   *)
(* is split by kind of field, which is how the solver copes with it.       *)
(***************************************************************************)

\* The names a lookup in an updated record asks for.
LEMMA FieldNames ==
  LET D == DOMAIN InitTab IN
    /\ "page" \in D /\ "visible" \in D /\ "stopped" \in D /\ "wakeArmed" \in D
    /\ "hideArmed" \in D /\ "hideAge" \in D /\ "sid" \in D /\ "seq" \in D
    /\ "logSeq" \in D /\ "pageIdx" \in D /\ "activeMs" \in D /\ "idleAge" \in D
    /\ "tickAge" \in D /\ "buffer" \in D /\ "logBuffer" \in D /\ "recorders" \in D
    /\ "owned" \in D /\ "skipping" \in D /\ "resync" \in D /\ "stSid" \in D
    /\ "stAge" \in D /\ "stSeq" \in D /\ "stLogSeq" \in D /\ "stPage" \in D
    /\ "stActive" \in D /\ "minted" \in D /\ "used" \in D /\ "clash" \in D
    /\ "filed" \in D /\ "stale" \in D /\ "splits" \in D
BY DEF InitTab

\* The recorder that stopRecording refers to is one of those that run.
Owned(s) == s.owned => s.recorders > 0

\* Unloading keeps a state typed.
LEMMA UnloadTyped ==
  ASSUME NEW s, Typed(s)
  PROVE  Typed(Unload(s)) /\ Owned(Unload(s))
<1> DEFINE t == Unload(s)
<1> USE FieldNames DEF Typed
<1>1. DOMAIN t = DOMAIN InitTab /\ t.page \in {"none", "live", "disposed"}
  BY DEF Unload
<1>2. Flags(t)
  BY DEF Unload, Flags
<1>3. Numbers(t)
  BY DEF Unload, Numbers
<1>4. Buffers(t)
  BY DEF Unload, Buffers
<1>5. Ledger(t)
  BY DEF Unload, Ledger
<1>6. Owned(t)
  BY DEF Unload, Owned
<1> QED BY <1>1, <1>2, <1>3, <1>4, <1>5, <1>6
\* The newest k elements of a sequence are a sequence of its elements.
LEMMA NewestSeq ==
  ASSUME NEW S, NEW q \in Seq(S), NEW k \in Nat
  PROVE  /\ Newest(q, k) \in Seq(S)
         /\ \A i \in DOMAIN Newest(q, k) : \E j \in DOMAIN q : Newest(q, k)[i] = q[j]
<1>1. CASE Len(q) <= k
  BY <1>1 DEF Newest
<1>2. CASE Len(q) > k
  <2> DEFINE m == Len(q) - k + 1
  <2>1. m \in 1..(Len(q) + 1) /\ Len(q) \in m - 1..Len(q)
    BY <1>2
  <2>2. /\ SubSeq(q, m, Len(q)) \in Seq(S)
        /\ Len(SubSeq(q, m, Len(q))) = Len(q) - m + 1
        /\ \A i \in 1..(Len(q) - m + 1) : SubSeq(q, m, Len(q))[i] = q[m + i - 1]
    BY <1>2
  <2>3. \A i \in 1..(Len(q) - m + 1) : m + i - 1 \in DOMAIN q
    BY <1>2
  <2> QED BY <1>2, <2>2, <2>3 DEF Newest
<1> QED BY <1>1, <1>2

\* flush() keeps a state typed.
LEMMA FlushTyped ==
  ASSUME NEW s, Typed(s), Owned(s)
  PROVE  Typed(Flush(s)) /\ Owned(Flush(s))
<1> DEFINE t == Flush(s)
<1> USE FieldNames DEF Typed
<1>a. BatchKey("events", s.sid, s.seq) \in Key
  BY DEF BatchKey, Key, Kinds, Numbers
<1>b. FiledNow(s) \in SUBSET [of : Nat, as : Nat, splits : Nat]
  <2>1. s.buffer \in Seq(Nat) /\ s.sid \in Nat /\ s.splits \in Nat
    BY DEF Buffers, Numbers
  <2> QED BY <2>1 DEF FiledNow
<1>1. DOMAIN t = DOMAIN InitTab /\ t.page \in {"none", "live", "disposed"}
  BY DEF Flush, Ship
<1>2. Flags(t)
  BY DEF Flush, Ship, Flags
<1>3. Numbers(t)
  BY SMTT(30) DEF Flush, Ship, Numbers
<1>4. Buffers(t)
  BY DEF Flush, Ship, Buffers
<1>5. Ledger(t)
  BY <1>a, <1>b DEF Flush, Ship, Ledger
<1>6. Owned(t)
  BY DEF Flush, Ship, Owned
<1> QED BY <1>1, <1>2, <1>3, <1>4, <1>5, <1>6

\* flushLogs() keeps a state typed.
LEMMA FlushLogsTyped ==
  ASSUME NEW s, Typed(s), Owned(s)
  PROVE  Typed(FlushLogs(s)) /\ Owned(FlushLogs(s))
<1> DEFINE t == FlushLogs(s)
<1> USE FieldNames DEF Typed
<1>a. LogKeys(s) \in SUBSET Key
  <2>1. s.logBuffer \in Seq(Nat) /\ s.sid \in Nat
    BY DEF Buffers, Numbers
  <2>2. \A i \in DOMAIN s.logBuffer : s.logBuffer[i] \in Nat
    BY <2>1
  <2> QED BY <2>1, <2>2 DEF LogKeys, BatchKey, Key, Kinds
<1>1. DOMAIN t = DOMAIN InitTab /\ t.page \in {"none", "live", "disposed"}
  BY DEF FlushLogs
<1>2. Flags(t)
  BY DEF FlushLogs, Flags
<1>3. Numbers(t)
  BY DEF FlushLogs, Numbers
<1>4. Buffers(t)
  BY DEF FlushLogs, Buffers
<1>5. Ledger(t)
  BY <1>a DEF FlushLogs, Ledger
<1>6. Owned(t)
  BY DEF FlushLogs, Owned
<1> QED BY <1>1, <1>2, <1>3, <1>4, <1>5, <1>6

\* trackPage() keeps a state typed.
LEMMA TrackPageTyped ==
  ASSUME NEW s, Typed(s), Owned(s)
  PROVE  Typed(TrackPage(s)) /\ Owned(TrackPage(s))
<1> DEFINE t == TrackPage(s)
<1> USE FieldNames DEF Typed
<1>a. BatchKey("page", s.sid, s.pageIdx + 1) \in Key
  BY DEF BatchKey, Key, Kinds, Numbers
<1>1. DOMAIN t = DOMAIN InitTab /\ t.page \in {"none", "live", "disposed"}
  BY DEF TrackPage, Ship
<1>2. Flags(t)
  BY DEF TrackPage, Ship, Flags
<1>3. Numbers(t)
  BY DEF TrackPage, Ship, Numbers
<1>4. Buffers(t)
  BY DEF TrackPage, Ship, Buffers
<1>5. Ledger(t)
  BY <1>a DEF TrackPage, Ship, Ledger
<1>6. Owned(t)
  BY DEF TrackPage, Ship, Owned
<1> QED BY <1>1, <1>2, <1>3, <1>4, <1>5, <1>6


\* One buffered event keeps a state typed.
LEMMA PushTyped ==
  ASSUME NEW s, NEW n \in Nat, Typed(s), Owned(s)
  PROVE  Typed(Push(s, n)) /\ Owned(Push(s, n))
<1> DEFINE t == Push(s, n)
<1> USE FieldNames DEF Typed
<1>a. Newest(s.buffer \o [i \in 1..n |-> IF s.stopped THEN 0 ELSE s.sid], MaxBuffer)
        \in Seq(Nat)
  <2>1. s.buffer \in Seq(Nat) /\ s.sid \in Nat
    BY DEF Buffers, Numbers
  <2>2. (IF s.stopped THEN 0 ELSE s.sid) \in Nat
    BY <2>1
  <2>3. [i \in 1..n |-> IF s.stopped THEN 0 ELSE s.sid] \in Seq(Nat)
    BY <2>2
  <2>4. s.buffer \o [i \in 1..n |-> IF s.stopped THEN 0 ELSE s.sid] \in Seq(Nat)
    BY <2>1, <2>3
  <2> QED BY <2>4, NewestSeq, LifecycleAssumption
<1>1. DOMAIN t = DOMAIN InitTab /\ t.page \in {"none", "live", "disposed"}
  BY DEF Push
<1>2. Flags(t)
  BY DEF Push, Flags
<1>3. Numbers(t)
  BY DEF Push, Numbers
<1>4. Buffers(t)
  BY <1>a DEF Push, Buffers
<1>5. Ledger(t)
  BY DEF Push, Ledger
<1>6. Owned(t)
  BY DEF Push, Owned
<1> QED BY <1>1, <1>2, <1>3, <1>4, <1>5, <1>6

\* emit() of a page event keeps a state typed.
LEMMA EmitPageEventTyped ==
  ASSUME NEW s, NEW n \in Nat, NEW full \in BOOLEAN, Typed(s), Owned(s)
  PROVE  /\ Typed(EmitPageEvent(s, n, full)) /\ Owned(EmitPageEvent(s, n, full))
<1> DEFINE p == Push(s, n)
           t == EmitPageEvent(s, n, full)
<1> USE FieldNames DEF Typed
<1>p. Typed(p) /\ Owned(p)
  BY PushTyped
<1> HIDE DEF p
<1>1. DOMAIN t = DOMAIN InitTab /\ t.page \in {"none", "live", "disposed"}
  BY <1>p DEF EmitPageEvent, p
<1>2. Flags(t)
  BY <1>p DEF EmitPageEvent, p, Flags
<1>3. Numbers(t)
  BY <1>p DEF EmitPageEvent, p, Numbers
<1>4. Buffers(t)
  BY <1>p DEF EmitPageEvent, p, Buffers
<1>5. Ledger(t)
  BY <1>p DEF EmitPageEvent, p, Ledger
<1>6. Owned(t)
  BY <1>p DEF EmitPageEvent, p, Owned
<1> QED BY <1>1, <1>2, <1>3, <1>4, <1>5, <1>6

\* emit() of an interaction keeps a state typed.
LEMMA EmitInteractionTyped ==
  ASSUME NEW s, NEW n \in Nat, Typed(s), Owned(s)
  PROVE  /\ Typed(EmitInteraction(s, n)) /\ Owned(EmitInteraction(s, n))
<1> DEFINE p == Push(s, n)
           t == EmitInteraction(s, n)
<1> USE FieldNames DEF Typed
<1>p. Typed(p) /\ Owned(p)
  BY PushTyped
<1> HIDE DEF p
<1>1. DOMAIN t = DOMAIN InitTab /\ t.page \in {"none", "live", "disposed"}
  BY <1>p DEF EmitInteraction, p
<1>2. Flags(t)
  BY <1>p DEF EmitInteraction, p, Flags
<1>3. Numbers(t)
  BY <1>p DEF EmitInteraction, p, Numbers
<1>4. Buffers(t)
  BY <1>p DEF EmitInteraction, p, Buffers
<1>5. Ledger(t)
  BY <1>p DEF EmitInteraction, p, Ledger
<1>6. Owned(t)
  BY <1>p DEF EmitInteraction, p, Owned
<1> QED BY <1>1, <1>2, <1>3, <1>4, <1>5, <1>6

\* One more recorder, and it is the one stopRecording refers to.
LEMMA RecorderTyped ==
  ASSUME NEW s, Typed(s)
  PROVE  /\ Typed([s EXCEPT !.recorders = @ + 1, !.owned = TRUE])
         /\ Owned([s EXCEPT !.recorders = @ + 1, !.owned = TRUE])
<1> DEFINE t == [s EXCEPT !.recorders = @ + 1, !.owned = TRUE]
<1> USE FieldNames DEF Typed
<1>1. Typed(t) /\ Owned(t)
  <2>1. DOMAIN t = DOMAIN InitTab /\ t.page \in {"none", "live", "disposed"}
    OBVIOUS
  <2>2. Flags(t)
    BY DEF Flags
  <2>3. Numbers(t)
    BY DEF Numbers
  <2>4. Buffers(t)
    BY DEF Buffers
  <2>5. Ledger(t)
    BY DEF Ledger
  <2>6. Owned(t)
    BY DEF Owned, Numbers
  <2> HIDE DEF t
  <2> QED BY <2>1, <2>2, <2>3, <2>4, <2>5, <2>6
<1> QED BY <1>1

\* startRecording() keeps a state typed.
LEMMA StartRecordingTyped ==
  ASSUME NEW s, Typed(s), Owned(s)
  PROVE  Typed(StartRecording(s)) /\ Owned(StartRecording(s))
BY RecorderTyped, EmitPageEventTyped DEF StartRecording

\* stopRecording() keeps a state typed: only a running recorder is stopped.
LEMMA StopRecordingTyped ==
  ASSUME NEW s, Typed(s), Owned(s)
  PROVE  Typed(StopRecording(s)) /\ Owned(StopRecording(s))
<1> DEFINE t == StopRecording(s)
<1> USE FieldNames DEF Typed
<1>1. DOMAIN t = DOMAIN InitTab /\ t.page \in {"none", "live", "disposed"}
  BY DEF StopRecording
<1>2. Flags(t)
  BY DEF StopRecording, Flags
<1>3. Numbers(t)
  BY DEF StopRecording, Numbers, Owned, Flags
<1>4. Buffers(t)
  BY DEF StopRecording, Buffers
<1>5. Ledger(t)
  BY DEF StopRecording, Ledger
<1>6. Owned(t)
  BY DEF StopRecording, Owned
<1> QED BY <1>1, <1>2, <1>3, <1>4, <1>5, <1>6

\* Marking the visit stopped keeps a state typed.
LEMMA StoppedTyped ==
  ASSUME NEW s, Typed(s), Owned(s)
  PROVE  Typed([s EXCEPT !.stopped = TRUE]) /\ Owned([s EXCEPT !.stopped = TRUE])
<1> DEFINE t == [s EXCEPT !.stopped = TRUE]
<1> USE FieldNames DEF Typed
<1>1. Typed(t) /\ Owned(t)
  <2>1. DOMAIN t = DOMAIN InitTab /\ t.page \in {"none", "live", "disposed"}
    OBVIOUS
  <2>2. Flags(t)
    BY DEF Flags
  <2>3. Numbers(t)
    BY DEF Numbers
  <2>4. Buffers(t)
    BY DEF Buffers
  <2>5. Ledger(t)
    BY DEF Ledger
  <2>6. Owned(t)
    BY DEF Owned
  <2> HIDE DEF t
  <2> QED BY <2>1, <2>2, <2>3, <2>4, <2>5, <2>6
<1> QED BY <1>1

\* endSession() keeps a state typed.
LEMMA EndSessionTyped ==
  ASSUME NEW s, Typed(s), Owned(s)
  PROVE  Typed(EndSession(s)) /\ Owned(EndSession(s))
<1> DEFINE v == StopRecording(FlushLogs(Flush([s EXCEPT !.stopped = TRUE])))
           t == [v EXCEPT !.wakeArmed = TRUE]
<1>1. Typed(v) /\ Owned(v)
  BY StoppedTyped, FlushTyped, FlushLogsTyped, StopRecordingTyped
<1>2. Typed(t) /\ Owned(t)
  <2> USE FieldNames DEF Typed
  <2> HIDE DEF v
<2>1. Typed(t) /\ Owned(t)
    <3>1. DOMAIN t = DOMAIN InitTab /\ t.page \in {"none", "live", "disposed"}
      BY <1>1
    <3>2. Flags(t)
      BY <1>1 DEF Flags
    <3>3. Numbers(t)
      BY <1>1, SMTT(30) DEF Numbers
    <3>4. Buffers(t)
      BY <1>1 DEF Buffers
    <3>5. Ledger(t)
      BY <1>1 DEF Ledger
    <3>6. Owned(t)
      BY <1>1 DEF Owned
    <3> HIDE DEF t
    <3> QED BY <3>1, <3>2, <3>3, <3>4, <3>5, <3>6
  <2> QED BY <2>1
<1> QED BY <1>2 DEF EndSession

\* Shipping the tail of a split visit keeps a state typed.
LEMMA FinalizeTyped ==
  ASSUME NEW s, Typed(s), Owned(s)
  PROVE  Typed(Finalize(s)) /\ Owned(Finalize(s))
<1> DEFINE f == FlushLogs(Flush(s))
           t == [f EXCEPT !.splits = @ + 1]
<1>1. Typed(f) /\ Owned(f)
  BY FlushTyped, FlushLogsTyped
<1>2. Typed(t) /\ Owned(t)
  <2> USE FieldNames DEF Typed
  <2> HIDE DEF f
<2>1. Typed(t) /\ Owned(t)
    <3>1. DOMAIN t = DOMAIN InitTab /\ t.page \in {"none", "live", "disposed"}
      BY <1>1
    <3>2. Flags(t)
      BY <1>1 DEF Flags
    <3>3. Numbers(t)
      BY <1>1, SMTT(30) DEF Numbers
    <3>4. Buffers(t)
      BY <1>1 DEF Buffers
    <3>5. Ledger(t)
      BY <1>1 DEF Ledger
    <3>6. Owned(t)
      BY <1>1 DEF Owned
    <3> HIDE DEF t
    <3> QED BY <3>1, <3>2, <3>3, <3>4, <3>5, <3>6
  <2> QED BY <2>1
<1> QED BY <1>2 DEF Finalize

\* Starting over under a new id keeps a state typed.
LEMMA RenewTyped ==
  ASSUME NEW s, Typed(s), Owned(s)
  PROVE  Typed(Renew(s)) /\ Owned(Renew(s))
<1> DEFINE t == Renew(s)
<1> USE FieldNames DEF Typed
<1>1. DOMAIN t = DOMAIN InitTab /\ t.page \in {"none", "live", "disposed"}
  BY DEF Renew
<1>2. Flags(t)
  BY DEF Renew, Flags
<1>3. Numbers(t)
  BY DEF Renew, Numbers
<1>4. Buffers(t)
  BY DEF Renew, Buffers
<1>5. Ledger(t)
  BY DEF Renew, Ledger
<1>6. Owned(t)
  BY DEF Renew, Owned
<1> QED BY <1>1, <1>2, <1>3, <1>4, <1>5, <1>6

\* newSession() keeps a state typed.
LEMMA NewSessionTyped ==
  ASSUME NEW s, NEW finalize \in BOOLEAN, Typed(s), Owned(s)
  PROVE  Typed(NewSession(s, finalize)) /\ Owned(NewSession(s, finalize))
<1> DEFINE h == IF finalize /\ ~s.stopped THEN Finalize(s) ELSE s
<1>1. Typed(h) /\ Owned(h)
  BY FinalizeTyped
<1> HIDE DEF h
<1>2. NewSession(s, finalize) = TrackPage(StartRecording(Renew(h)))
  BY DEF NewSession, h
<1> QED BY <1>1, <1>2, RenewTyped, StartRecordingTyped, TrackPageTyped

\* Starting the script keeps a state typed.
LEMMA ResumeTyped ==
  ASSUME NEW s, NEW v \in BOOLEAN, Typed(s)
  PROVE  Typed(Resume(s, v)) /\ Owned(Resume(s, v))
<1> DEFINE e == Unload(s)
           t == Resume(s, v)
<1> USE FieldNames DEF Typed
<1>e. Typed(e) /\ Owned(e)
  BY UnloadTyped
<1> HIDE DEF e
<1>1. DOMAIN t = DOMAIN InitTab /\ t.page \in {"none", "live", "disposed"}
  BY <1>e DEF Resume, e
<1>2. Flags(t)
  BY <1>e DEF Resume, e, Flags
<1>3. Numbers(t)
  BY <1>e DEF Resume, e, Numbers
<1>4. Buffers(t)
  BY <1>e DEF Resume, e, Buffers
<1>5. Ledger(t)
  BY <1>e DEF Resume, e, Ledger
<1>6. Owned(t)
  BY <1>e DEF Resume, e, Owned
<1> QED BY <1>1, <1>2, <1>3, <1>4, <1>5, <1>6

\* What start() stores keeps a state typed.
LEMMA StoredTyped ==
  ASSUME NEW s, Typed(s), Owned(s)
  PROVE  /\ Typed([s EXCEPT !.stSid = s.sid, !.stAge = 0, !.stLogSeq = s.logSeq])
         /\ Owned([s EXCEPT !.stSid = s.sid, !.stAge = 0, !.stLogSeq = s.logSeq])
<1> DEFINE t == [s EXCEPT !.stSid = s.sid, !.stAge = 0, !.stLogSeq = s.logSeq]
<1> USE FieldNames DEF Typed
<1>1. Typed(t) /\ Owned(t)
  <2>1. DOMAIN t = DOMAIN InitTab /\ t.page \in {"none", "live", "disposed"}
    OBVIOUS
  <2>2. Flags(t)
    BY DEF Flags
  <2>3. Numbers(t)
    BY DEF Numbers
  <2>4. Buffers(t)
    BY DEF Buffers
  <2>5. Ledger(t)
    BY DEF Ledger
  <2>6. Owned(t)
    BY DEF Owned
  <2> HIDE DEF t
  <2> QED BY <2>1, <2>2, <2>3, <2>4, <2>5, <2>6
<1> QED BY <1>1

\* The bootstrap keeps a state typed.
LEMMA BootstrapTyped ==
  ASSUME NEW s, Typed(s), Owned(s)
  PROVE  Typed(Bootstrap(s)) /\ Owned(Bootstrap(s))
BY StoredTyped, StartRecordingTyped, TrackPageTyped DEF Bootstrap

\* The passage of time keeps a state typed.
LEMMA OlderTyped ==
  ASSUME NEW s, Typed(s), Owned(s)
  PROVE  Typed(Older(s)) /\ Owned(Older(s))
<1> DEFINE t == Older(s)
<1> USE FieldNames, LifecycleAssumption DEF Typed
<1>1. DOMAIN t = DOMAIN InitTab /\ t.page \in {"none", "live", "disposed"}
  BY DEF Older
<1>2. Flags(t)
  BY DEF Older, Flags
<1>3. Numbers(t)
  BY DEF Older, Aged, Numbers
<1>4. Buffers(t)
  BY DEF Older, Buffers
<1>5. Ledger(t)
  BY DEF Older, Ledger
<1>6. Owned(t)
  BY DEF Older, Owned
<1> QED BY <1>1, <1>2, <1>3, <1>4, <1>5, <1>6

\* A resync taken from the queue keeps a state typed.
LEMMA ResyncedTyped ==
  ASSUME NEW s, Typed(s), Owned(s)
  PROVE  Typed([s EXCEPT !.resync = FALSE]) /\ Owned([s EXCEPT !.resync = FALSE])
<1> DEFINE t == [s EXCEPT !.resync = FALSE]
<1> USE FieldNames DEF Typed
<1>1. Typed(t) /\ Owned(t)
  <2>1. DOMAIN t = DOMAIN InitTab /\ t.page \in {"none", "live", "disposed"}
    OBVIOUS
  <2>2. Flags(t)
    BY DEF Flags
  <2>3. Numbers(t)
    BY DEF Numbers
  <2>4. Buffers(t)
    BY DEF Buffers
  <2>5. Ledger(t)
    BY DEF Ledger
  <2>6. Owned(t)
    BY DEF Owned
  <2> HIDE DEF t
  <2> QED BY <2>1, <2>2, <2>3, <2>4, <2>5, <2>6
<1> QED BY <1>1

\* A disarmed hide timer keeps a state typed.
LEMMA DisarmedTyped ==
  ASSUME NEW s, Typed(s), Owned(s)
  PROVE  Typed([s EXCEPT !.hideArmed = FALSE, !.hideAge = 0]) /\ Owned([s EXCEPT !.hideArmed = FALSE, !.hideAge = 0])
<1> DEFINE t == [s EXCEPT !.hideArmed = FALSE, !.hideAge = 0]
<1> USE FieldNames DEF Typed
<1>1. Typed(t) /\ Owned(t)
  <2>1. DOMAIN t = DOMAIN InitTab /\ t.page \in {"none", "live", "disposed"}
    OBVIOUS
  <2>2. Flags(t)
    BY DEF Flags
  <2>3. Numbers(t)
    BY DEF Numbers
  <2>4. Buffers(t)
    BY DEF Buffers
  <2>5. Ledger(t)
    BY DEF Ledger
  <2>6. Owned(t)
    BY DEF Owned
  <2> HIDE DEF t
  <2> QED BY <2>1, <2>2, <2>3, <2>4, <2>5, <2>6
<1> QED BY <1>1

\* A visible tab keeps a state typed.
LEMMA VisibleTyped ==
  ASSUME NEW s, Typed(s), Owned(s)
  PROVE  Typed([s EXCEPT !.visible = TRUE]) /\ Owned([s EXCEPT !.visible = TRUE])
<1> DEFINE t == [s EXCEPT !.visible = TRUE]
<1> USE FieldNames DEF Typed
<1>1. Typed(t) /\ Owned(t)
  <2>1. DOMAIN t = DOMAIN InitTab /\ t.page \in {"none", "live", "disposed"}
    OBVIOUS
  <2>2. Flags(t)
    BY DEF Flags
  <2>3. Numbers(t)
    BY DEF Numbers
  <2>4. Buffers(t)
    BY DEF Buffers
  <2>5. Ledger(t)
    BY DEF Ledger
  <2>6. Owned(t)
    BY DEF Owned
  <2> HIDE DEF t
  <2> QED BY <2>1, <2>2, <2>3, <2>4, <2>5, <2>6
<1> QED BY <1>1

LEMMA ShownTyped ==
  ASSUME NEW s, Typed(s), Owned(s)
  PROVE  /\ Typed([[s EXCEPT !.visible = TRUE] EXCEPT !.hideArmed = FALSE, !.hideAge = 0])
         /\ Owned([[s EXCEPT !.visible = TRUE] EXCEPT !.hideArmed = FALSE, !.hideAge = 0])
<1> DEFINE v == [s EXCEPT !.visible = TRUE]
<1>1. Typed(v) /\ Owned(v)
  BY VisibleTyped
<1> HIDE DEF v
<1>2. /\ Typed([v EXCEPT !.hideArmed = FALSE, !.hideAge = 0])
      /\ Owned([v EXCEPT !.hideArmed = FALSE, !.hideAge = 0])
  BY <1>1, DisarmedTyped
<1> QED BY <1>2 DEF v

-----------------------------------------------------------------------------
\* The inductive type invariant: also of the pages kept alive.
TypeInv ==
  /\ Typed(tab) /\ Owned(tab)
  /\ \A m \in cached : Typed(m) /\ Owned(m)

LEMMA TypeInit == Init => TypeInv
<1> SUFFICES ASSUME Init PROVE TypeInv
  OBVIOUS
<1>1. tab = InitTab /\ cached = {}
  BY DEF Init
<1>2. Flags(InitTab)
  BY DEF Flags, InitTab
<1>3. Numbers(InitTab)
  BY DEF Numbers, InitTab
<1>4. Buffers(InitTab)
  BY DEF Buffers, InitTab
<1>5. Ledger(InitTab) /\ Owned(InitTab)
  BY DEF Ledger, Owned, InitTab
<1>6. InitTab.page \in {"none", "live", "disposed"}
  BY DEF InitTab
<1> QED BY <1>1, <1>2, <1>3, <1>4, <1>5, <1>6 DEF TypeInv, Typed

\* Every action keeps the tab typed.
LEMMA TypeNext == TypeInv /\ [Next]_vars => TypeInv'
<1> SUFFICES ASSUME TypeInv, [Next]_vars PROVE TypeInv'
  OBVIOUS
<1> DEFINE Fine(s) == Typed(s) /\ Owned(s)
<1>a. Fine(tab) /\ \A m \in cached : Fine(m)
  BY DEF TypeInv
<1>b. SUFFICES Fine(tab') /\ \A m \in cached' : Fine(m)
  BY DEF TypeInv
<1>c. ASSUME UNCHANGED cached, Fine(tab') PROVE Fine(tab') /\ \A m \in cached' : Fine(m)
  BY <1>a, <1>c
<1>1. CASE LoadPage
  <2>1. PICK v \in BOOLEAN : tab' = Bootstrap(Resume(tab, v))
    BY <1>1 DEF LoadPage
  <2>z. Fine(tab')
    BY <1>a, <2>1, ResumeTyped, BootstrapTyped
  <2> QED BY <1>c, <2>z, <1>1 DEF LoadPage
<1>2. CASE Interact
  <2> DEFINE s == IF tab.recorders > 0 THEN EmitInteraction(tab, tab.recorders) ELSE tab
  <2>1. tab.recorders \in Nat
    BY <1>a DEF Typed, Numbers
  <2>2. Fine(s)
    BY <1>a, <2>1, EmitInteractionTyped
  <2>3. tab' = IF s.wakeArmed THEN NewSession(s, FALSE) ELSE s
    BY <1>2 DEF Interact
  <2> HIDE DEF s
  <2>z. Fine(tab')
    BY <2>2, <2>3, NewSessionTyped
  <2> QED BY <1>c, <2>z, <1>2 DEF Interact
<1>3. CASE PageMutates
  <2>1. tab.recorders \in Nat
    BY <1>a DEF Typed, Numbers
  <2>z. Fine(tab')
    BY <1>3, <1>a, <2>1, EmitPageEventTyped DEF PageMutates
  <2> QED BY <1>c, <2>z, <1>3 DEF PageMutates
<1>4. CASE Resync
  <2> DEFINE s == [tab EXCEPT !.resync = FALSE]
  <2>1. Typed(s) /\ Owned(s)
    BY <1>a, ResyncedTyped
  <2>2. tab' = IF s.owned THEN EmitPageEvent(s, 1, TRUE) ELSE s
    BY <1>4 DEF Resync
  <2> HIDE DEF s
  <2>z. Fine(tab')
    BY <2>1, <2>2, EmitPageEventTyped
  <2> QED BY <1>c, <2>z, <1>4 DEF Resync
<1>5. CASE CaptureLog
  <2> DEFINE q == Newest(Append(tab.logBuffer, tab.logSeq + 1), MaxLogBuffer)
             s == [tab EXCEPT !.logSeq = @ + 1, !.stLogSeq = tab.logSeq + 1, !.logBuffer = q]
  <2>1. q \in Seq(Nat)
    <3>1. tab.logBuffer \in Seq(Nat) /\ tab.logSeq \in Nat
      BY <1>a DEF Typed, Buffers, Numbers
    <3>2. Append(tab.logBuffer, tab.logSeq + 1) \in Seq(Nat)
      BY <3>1
    <3> QED BY <3>2, NewestSeq, LifecycleAssumption
  <2>2. tab' = s
    BY <1>5 DEF CaptureLog
  <2>3. Typed(s) /\ Owned(s)
    <3> USE FieldNames DEF Typed
    <3> HIDE DEF q
    <3>1. Typed(s) /\ Owned(s)
      <4>1. DOMAIN s = DOMAIN InitTab /\ s.page \in {"none", "live", "disposed"}
        BY <1>a, <2>1
      <4>2. Flags(s)
        BY <1>a, <2>1 DEF Flags
      <4>3. Numbers(s)
        BY <1>a, <2>1, SMTT(30) DEF Numbers
      <4>4. Buffers(s)
        BY <1>a, <2>1 DEF Buffers
      <4>5. Ledger(s)
        BY <1>a, <2>1 DEF Ledger
      <4>6. Owned(s)
        BY <1>a, <2>1 DEF Owned
      <4> HIDE DEF s
      <4> QED BY <4>1, <4>2, <4>3, <4>4, <4>5, <4>6
    <3> QED BY <3>1
  <2>z. Fine(tab')
    BY <2>2, <2>3
  <2> QED BY <1>c, <2>z, <1>5 DEF CaptureLog
<1>6. CASE RouteChange
  <2>z. Fine(tab')
    BY <1>6, <1>a, TrackPageTyped DEF RouteChange
  <2> QED BY <1>c, <2>z, <1>6 DEF RouteChange
<1>7. CASE FlushTimer
  <2>z. Fine(tab')
    BY <1>7, <1>a, FlushTyped, FlushLogsTyped DEF FlushTimer
  <2> QED BY <1>c, <2>z, <1>7 DEF FlushTimer
<1>8. CASE Heartbeat
  <2> DEFINE active == Aged(tab.activeMs, tab.tickAge, CAP)
             idle == [tab EXCEPT !.tickAge = 0]
             ping == [tab EXCEPT !.activeMs = active, !.stActive = active,
                                 !.stAge = 0, !.tickAge = 0]
  <2>1. Typed(idle) /\ Owned(idle)
    <3> USE FieldNames DEF Typed
    <3>1. Typed(idle) /\ Owned(idle)
      <4>1. DOMAIN idle = DOMAIN InitTab /\ idle.page \in {"none", "live", "disposed"}
        BY <1>a
      <4>2. Flags(idle)
        BY <1>a DEF Flags
      <4>3. Numbers(idle)
        BY <1>a, SMTT(30) DEF Numbers
      <4>4. Buffers(idle)
        BY <1>a DEF Buffers
      <4>5. Ledger(idle)
        BY <1>a DEF Ledger
      <4>6. Owned(idle)
        BY <1>a DEF Owned
      <4> HIDE DEF idle
      <4> QED BY <4>1, <4>2, <4>3, <4>4, <4>5, <4>6
    <3> QED BY <3>1
  <2>2. active \in Nat
    BY <1>a, LifecycleAssumption DEF Aged, Typed, Numbers
  <2>3. Typed(ping) /\ Owned(ping)
    <3> USE FieldNames DEF Typed
    <3> HIDE DEF active
    <3>1. Typed(ping) /\ Owned(ping)
      <4>1. DOMAIN ping = DOMAIN InitTab /\ ping.page \in {"none", "live", "disposed"}
        BY <1>a, <2>2
      <4>2. Flags(ping)
        BY <1>a, <2>2 DEF Flags
      <4>3. Numbers(ping)
        BY <1>a, <2>2, SMTT(30) DEF Numbers
      <4>4. Buffers(ping)
        BY <1>a, <2>2 DEF Buffers
      <4>5. Ledger(ping)
        BY <1>a, <2>2 DEF Ledger
      <4>6. Owned(ping)
        BY <1>a, <2>2 DEF Owned
      <4> HIDE DEF ping
      <4> QED BY <4>1, <4>2, <4>3, <4>4, <4>5, <4>6
    <3> QED BY <3>1
  <2>4. tab' = idle \/ tab' = EndSession(tab) \/ tab' = NewSession(tab, TRUE) \/ tab' = ping
    BY <1>8 DEF Heartbeat
  <2>z. Fine(tab')
    BY <1>a, <2>1, <2>3, <2>4, EndSessionTyped, NewSessionTyped
  <2> QED BY <1>c, <2>z, <1>8 DEF Heartbeat
<1>9. CASE Hide
  <2> DEFINE f == FlushLogs(Flush(tab))
             s == [tab EXCEPT !.visible = FALSE]
             t == [f EXCEPT !.visible = FALSE, !.hideArmed = TRUE, !.hideAge = 0]
  <2>1. Fine(f)
    BY <1>a, FlushTyped, FlushLogsTyped
  <2>2. Typed(s) /\ Owned(s)
    <3> USE FieldNames DEF Typed
    <3>1. Typed(s) /\ Owned(s)
      <4>1. DOMAIN s = DOMAIN InitTab /\ s.page \in {"none", "live", "disposed"}
        BY <1>a
      <4>2. Flags(s)
        BY <1>a DEF Flags
      <4>3. Numbers(s)
        BY <1>a, SMTT(30) DEF Numbers
      <4>4. Buffers(s)
        BY <1>a DEF Buffers
      <4>5. Ledger(s)
        BY <1>a DEF Ledger
      <4>6. Owned(s)
        BY <1>a DEF Owned
      <4> HIDE DEF s
      <4> QED BY <4>1, <4>2, <4>3, <4>4, <4>5, <4>6
    <3> QED BY <3>1
  <2>3. Typed(t) /\ Owned(t)
    <3> USE FieldNames DEF Typed
    <3> HIDE DEF f
    <3>1. Typed(t) /\ Owned(t)
      <4>1. DOMAIN t = DOMAIN InitTab /\ t.page \in {"none", "live", "disposed"}
        BY <2>1
      <4>2. Flags(t)
        BY <2>1 DEF Flags
      <4>3. Numbers(t)
        BY <2>1, SMTT(30) DEF Numbers
      <4>4. Buffers(t)
        BY <2>1 DEF Buffers
      <4>5. Ledger(t)
        BY <2>1 DEF Ledger
      <4>6. Owned(t)
        BY <2>1 DEF Owned
      <4> HIDE DEF t
      <4> QED BY <4>1, <4>2, <4>3, <4>4, <4>5, <4>6
    <3> QED BY <3>1
  <2>4. tab' = s \/ tab' = t
    BY <1>9 DEF Hide
  <2>z. Fine(tab')
    BY <2>2, <2>3, <2>4
  <2> QED BY <1>c, <2>z, <1>9 DEF Hide
<1>10. CASE Show
  <2> DEFINE s == [tab EXCEPT !.visible = TRUE]
             t == [s EXCEPT !.hideArmed = FALSE, !.hideAge = 0]
  <2>1. Typed(s) /\ Owned(s)
    BY <1>a, VisibleTyped
  <2>2. Typed(t) /\ Owned(t)
    BY <1>a, ShownTyped
  <2>3. tab' = s \/ tab' = t \/ tab' = NewSession(t, FALSE)
    BY <1>10 DEF Show
  <2> HIDE DEF t
  <2>z. Fine(tab')
    BY <2>1, <2>2, <2>3, NewSessionTyped
  <2> QED BY <1>c, <2>z, <1>10 DEF Show
<1>11. CASE HideTimer
  <2> DEFINE s == [tab EXCEPT !.hideArmed = FALSE, !.hideAge = 0]
  <2>1. Typed(s) /\ Owned(s)
    BY <1>a, DisarmedTyped
  <2>2. tab' = EndSession(s)
    BY <1>11 DEF HideTimer
  <2> HIDE DEF s
  <2>z. Fine(tab')
    BY <2>1, <2>2, EndSessionTyped
  <2> QED BY <1>c, <2>z, <1>11 DEF HideTimer
<1>12. CASE Shutdown
  <2> DEFINE s == IF tab.stopped THEN StopRecording(FlushLogs(Flush(tab))) ELSE EndSession(tab)
             t == [s EXCEPT !.page = "disposed", !.stopped = TRUE, !.wakeArmed = FALSE,
                            !.hideArmed = FALSE, !.hideAge = 0]
  <2>1. Fine(s)
    BY <1>a, FlushTyped, FlushLogsTyped, StopRecordingTyped, EndSessionTyped
  <2>2. Typed(t) /\ Owned(t)
    <3> USE FieldNames DEF Typed
    <3> HIDE DEF s
    <3>1. Typed(t) /\ Owned(t)
      <4>1. DOMAIN t = DOMAIN InitTab /\ t.page \in {"none", "live", "disposed"}
        BY <2>1
      <4>2. Flags(t)
        BY <2>1 DEF Flags
      <4>3. Numbers(t)
        BY <2>1, SMTT(30) DEF Numbers
      <4>4. Buffers(t)
        BY <2>1 DEF Buffers
      <4>5. Ledger(t)
        BY <2>1 DEF Ledger
      <4>6. Owned(t)
        BY <2>1 DEF Owned
      <4> HIDE DEF t
      <4> QED BY <4>1, <4>2, <4>3, <4>4, <4>5, <4>6
    <3> QED BY <3>1
  <2>z. Fine(tab')
    BY <1>12, <2>2 DEF Shutdown
  <2> QED BY <1>c, <2>z, <1>12 DEF Shutdown
<1>13. CASE Navigate
  <2>z. Fine(tab')
    BY <1>13, <1>a, FlushTyped, FlushLogsTyped, UnloadTyped DEF Navigate
  <2> QED BY <1>c, <2>z, <1>13 DEF Navigate
<1>14. CASE Discard
  <2>z. Fine(tab')
    BY <1>14, <1>a, UnloadTyped DEF Discard
  <2> QED BY <1>c, <2>z, <1>14 DEF Discard
<1>15. CASE Freeze
  <2>1. Fine(FlushLogs(Flush(tab)))
    BY <1>a, FlushTyped, FlushLogsTyped
  <2>2. tab' = Unload(FlushLogs(Flush(tab))) /\ cached' = {FlushLogs(Flush(tab))}
    BY <1>15 DEF Freeze
  <2> QED BY <2>1, <2>2, UnloadTyped
<1>16. CASE Restore
  <2> DEFINE r(m) == [m EXCEPT
                 !.stSid = tab.stSid, !.stAge = tab.stAge, !.stSeq = tab.stSeq,
                 !.stLogSeq = tab.stLogSeq, !.stPage = tab.stPage,
                 !.stActive = tab.stActive, !.minted = tab.minted,
                 !.used = tab.used, !.clash = tab.clash, !.filed = tab.filed]
  <2>1. PICK m \in cached : tab' = r(m)
    BY <1>16 DEF Restore
  <2> DEFINE s == r(m)
  <2>2. Fine(m)
    BY <1>a
  <2>3. Numbers(tab) /\ Ledger(tab)
    BY <1>a DEF Typed
  <2>4. Typed(s) /\ Owned(s)
    <3> USE FieldNames DEF Typed
    <3>1. Typed(s) /\ Owned(s)
      <4>1. DOMAIN s = DOMAIN InitTab /\ s.page \in {"none", "live", "disposed"}
        BY <2>2, <2>3
      <4>2. Flags(s)
        BY <2>2, <2>3 DEF Flags
      <4>3. Numbers(s)
        BY <2>2, <2>3, SMTT(30) DEF Numbers
      <4>4. Buffers(s)
        BY <2>2, <2>3 DEF Buffers
      <4>5. Ledger(s)
        BY <2>2, <2>3 DEF Ledger
      <4>6. Owned(s)
        BY <2>2, <2>3 DEF Owned
      <4> HIDE DEF s
      <4> QED BY <4>1, <4>2, <4>3, <4>4, <4>5, <4>6
    <3> QED BY <3>1
  <2>5. cached' = {}
    BY <1>16 DEF Restore
  <2> QED BY <2>1, <2>4, <2>5
<1>17. CASE Tick
  <2>1. tab' = Older(tab) /\ cached' = {Older(m) : m \in cached}
    BY <1>17 DEF Tick
  <2> QED BY <1>a, <2>1, OlderTyped
<1>18. CASE UNCHANGED vars
  BY <1>a, <1>18 DEF vars
<1> QED
  BY <1>1, <1>2, <1>3, <1>4, <1>5, <1>6, <1>7, <1>8, <1>9, <1>10, <1>11, <1>12,
     <1>13, <1>14, <1>15, <1>16, <1>17, <1>18 DEF Next

\* In every state of every behaviour, whatever the bounds and timeouts and with
\* or without a back/forward cache, the state has its type; in particular
\* stopRecording never stops a recorder that does not run.
THEOREM TypeCorrect == Spec => []TypeOK
<1>1. TypeInv => TypeOK
  BY DEF TypeInv, TypeOK
<1> QED BY TypeInit, TypeNext, <1>1, PTL DEF Spec

-----------------------------------------------------------------------------
(***************************************************************************)
(* Keys.  No key is used twice because every counter is ahead of the keys  *)
(* used for its visit, the one in memory while a page lives and the stored *)
(* one always, and because a fresh id is larger than every id used so far. *)
(***************************************************************************)

Numbered(s) ==
  /\ \A k \in s.used : k.sid <= s.minted
  /\ s.sid <= s.minted /\ s.stSid <= s.minted

Stored(s) ==
  \A k \in s.used : k.sid = s.stSid =>
    /\ k.kind = "events" => k.n < s.stSeq
    /\ k.kind = "logs"   => k.n <= s.stLogSeq
    /\ k.kind = "page"   => k.n <= s.stPage

Ahead(s) ==
  \A k \in s.used : k.sid = s.sid =>
    /\ k.kind = "events" => k.n < s.seq
    /\ k.kind = "logs"   => k.n <= s.logSeq
    /\ k.kind = "page"   => k.n <= s.pageIdx

Pending(s) ==
  \A i \in DOMAIN s.logBuffer :
    /\ s.logBuffer[i] <= s.logSeq
    /\ BatchKey("logs", s.sid, s.logBuffer[i]) \notin s.used

Current(s) ==
  s.sid = s.stSid /\ s.logSeq = s.stLogSeq /\ Ahead(s) /\ Pending(s)

Free(s) ==
  /\ s.clash = {} /\ Numbered(s) /\ Stored(s)
  /\ Live(s) => Current(s)

\* A dead visit has nothing to ship, and only a dead visit waits to be woken.
Quiet(s) == Live(s) /\ s.stopped => s.logBuffer = << >>
Woken(s) == s.wakeArmed => Live(s) /\ s.stopped

\* s and t agree on everything that decides which keys are free, and on
\* whether the visit runs.
SameKeys(s, t) ==
  /\ t.used = s.used /\ t.clash = s.clash /\ t.minted = s.minted
  /\ t.page = s.page /\ t.sid = s.sid /\ t.seq = s.seq /\ t.logSeq = s.logSeq
  /\ t.pageIdx = s.pageIdx /\ t.logBuffer = s.logBuffer
  /\ t.stSid = s.stSid /\ t.stSeq = s.stSeq /\ t.stLogSeq = s.stLogSeq
  /\ t.stPage = s.stPage

SameMode(s, t) == t.page = s.page /\ t.stopped = s.stopped /\ t.wakeArmed = s.wakeArmed

LEMMA SameKeysFree ==
  ASSUME NEW s, NEW t, Free(s), SameKeys(s, t)
  PROVE  Free(t)
BY DEF Free, SameKeys, Numbered, Stored, Current, Ahead, Pending, Live

\* flush() ships under a free key and leaves the counters ahead.
LEMMA FlushFree ==
  ASSUME NEW s, Typed(s), Free(s), Live(s)
  PROVE  /\ Free(Flush(s)) /\ SameMode(s, Flush(s))
         /\ Flush(s).logBuffer = s.logBuffer
<1>1. CASE s.buffer = << >>
  BY <1>1 DEF Flush, SameMode
<1>2. CASE s.buffer # << >>
  <2> DEFINE k == BatchKey("events", s.sid, s.seq)
             t == Flush(s)
  <2>1. /\ s.seq \in Nat /\ s.sid \in Nat /\ s.used \in SUBSET Key
        /\ s.pageIdx \in Int /\ s.logSeq \in Nat
    BY DEF Typed, Numbers, Ledger
  <2>2. s.clash = {} /\ Numbered(s) /\ Stored(s) /\ s.sid = s.stSid
        /\ s.logSeq = s.stLogSeq /\ Ahead(s) /\ Pending(s)
    BY DEF Free, Current
  <2>3. k.kind = "events" /\ k.sid = s.sid /\ k.n = s.seq
    BY DEF BatchKey
  <2>4. k \notin s.used
    BY <2>1, <2>2, <2>3 DEF Ahead
  <2>5. /\ t.used = s.used \cup {k} /\ t.clash = s.clash \cup (s.used \cap {k})
        /\ t.minted = s.minted /\ t.sid = s.sid /\ t.seq = s.seq + 1
        /\ t.logSeq = s.logSeq /\ t.pageIdx = s.pageIdx
        /\ t.stSid = s.stSid /\ t.stSeq = s.seq + 1 /\ t.stLogSeq = s.stLogSeq
        /\ t.stPage = s.stPage
    BY <1>2, FieldNames DEF Flush, Ship, Typed
  <2>6. SameMode(s, t) /\ t.logBuffer = s.logBuffer
    BY <1>2, FieldNames DEF Flush, Ship, Typed, SameMode
  <2> HIDE DEF t, k
  <2>7. t.clash = {} /\ Numbered(t)
    BY <2>1, <2>2, <2>3, <2>4, <2>5 DEF Numbered
  <2>8. Stored(t)
    BY <2>1, <2>2, <2>3, <2>5 DEF Stored, Ahead, Key
  <2>9. Ahead(t)
    BY <2>1, <2>2, <2>3, <2>5 DEF Ahead, Key
  <2>10. Pending(t)
    BY <2>2, <2>3, <2>5, <2>6 DEF Pending, BatchKey
  <2> QED BY <2>2, <2>5, <2>6, <2>7, <2>8, <2>9, <2>10 DEF Free, Current, t
<1> QED BY <1>1, <1>2

\* flushLogs() ships under free keys and empties the buffer.
LEMMA FlushLogsFree ==
  ASSUME NEW s, Typed(s), Free(s), Live(s)
  PROVE  /\ Free(FlushLogs(s)) /\ SameMode(s, FlushLogs(s))
         /\ FlushLogs(s).logBuffer = << >>
<1> DEFINE K == LogKeys(s)
           t == FlushLogs(s)
<1>1. /\ s.seq \in Nat /\ s.sid \in Nat /\ s.used \in SUBSET Key
      /\ s.pageIdx \in Int /\ s.logSeq \in Nat
  BY DEF Typed, Numbers, Ledger
<1>2. s.clash = {} /\ Numbered(s) /\ Stored(s) /\ s.sid = s.stSid
      /\ s.logSeq = s.stLogSeq /\ Ahead(s) /\ Pending(s)
  BY DEF Free, Current
<1>3. \A k \in K : k \notin s.used /\ k.kind = "logs" /\ k.sid = s.sid /\ k.n <= s.logSeq
  BY <1>2 DEF LogKeys, BatchKey, Pending
<1>4. /\ t.used = s.used \cup K /\ t.clash = s.clash \cup (s.used \cap K)
      /\ t.minted = s.minted /\ t.sid = s.sid /\ t.seq = s.seq
      /\ t.logSeq = s.logSeq /\ t.pageIdx = s.pageIdx
      /\ t.stSid = s.stSid /\ t.stSeq = s.stSeq /\ t.stLogSeq = s.stLogSeq
      /\ t.stPage = s.stPage
  BY FieldNames DEF FlushLogs, Typed
<1>5. SameMode(s, t) /\ t.logBuffer = << >>
  BY FieldNames DEF FlushLogs, Typed, SameMode
<1> HIDE DEF t, K
<1>6. t.clash = {} /\ Numbered(t)
  BY <1>2, <1>3, <1>4 DEF Numbered
<1>7. Stored(t)
  BY <1>2, <1>3, <1>4 DEF Stored
<1>8. Ahead(t)
  BY <1>2, <1>3, <1>4 DEF Ahead
<1>9. Pending(t)
  BY <1>5 DEF Pending
<1> QED BY <1>2, <1>4, <1>5, <1>6, <1>7, <1>8, <1>9 DEF Free, Current, t

\* trackPage() ships under a free key and leaves the counters ahead.
LEMMA TrackPageFree ==
  ASSUME NEW s, Typed(s), Free(s), Live(s)
  PROVE  /\ Free(TrackPage(s)) /\ SameMode(s, TrackPage(s))
         /\ TrackPage(s).logBuffer = s.logBuffer
<1> DEFINE k == BatchKey("page", s.sid, s.pageIdx + 1)
           t == TrackPage(s)
<1>1. /\ s.seq \in Nat /\ s.sid \in Nat /\ s.used \in SUBSET Key
      /\ s.pageIdx \in Int /\ s.logSeq \in Nat
  BY DEF Typed, Numbers, Ledger
<1>2. s.clash = {} /\ Numbered(s) /\ Stored(s) /\ s.sid = s.stSid
      /\ s.logSeq = s.stLogSeq /\ Ahead(s) /\ Pending(s)
  BY DEF Free, Current
<1>3. k.kind = "page" /\ k.sid = s.sid /\ k.n = s.pageIdx + 1
  BY DEF BatchKey
<1>4. k \notin s.used
  BY <1>1, <1>2, <1>3 DEF Ahead
<1>5. /\ t.used = s.used \cup {k} /\ t.clash = s.clash \cup (s.used \cap {k})
      /\ t.minted = s.minted /\ t.sid = s.sid /\ t.seq = s.seq
      /\ t.logSeq = s.logSeq /\ t.pageIdx = s.pageIdx + 1
      /\ t.stSid = s.stSid /\ t.stSeq = s.stSeq /\ t.stLogSeq = s.stLogSeq
      /\ t.stPage = s.pageIdx + 1
  BY FieldNames DEF TrackPage, Ship, Typed
<1>6. SameMode(s, t) /\ t.logBuffer = s.logBuffer
  BY FieldNames DEF TrackPage, Ship, Typed, SameMode
<1> HIDE DEF t, k
<1>7. t.clash = {} /\ Numbered(t)
  BY <1>1, <1>2, <1>3, <1>4, <1>5 DEF Numbered
<1>8. Stored(t)
  BY <1>1, <1>2, <1>3, <1>5 DEF Stored, Ahead, Key
<1>9. Ahead(t)
  BY <1>1, <1>2, <1>3, <1>5 DEF Ahead, Key
<1>10. Pending(t)
  BY <1>2, <1>3, <1>5, <1>6 DEF Pending, BatchKey
<1> QED BY <1>2, <1>5, <1>6, <1>7, <1>8, <1>9, <1>10 DEF Free, Current, t

\* Recording ships nothing.
LEMMA PushSilent ==
  ASSUME NEW s, NEW n, Typed(s)
  PROVE  SameKeys(s, Push(s, n)) /\ SameMode(s, Push(s, n))
BY FieldNames DEF Push, Typed, SameKeys, SameMode

LEMMA EmitPageEventSilent ==
  ASSUME NEW s, NEW n \in Nat, NEW full \in BOOLEAN, Typed(s), Owned(s)
  PROVE  SameKeys(s, EmitPageEvent(s, n, full)) /\ SameMode(s, EmitPageEvent(s, n, full))
<1> DEFINE p == Push(s, n)
<1>1. SameKeys(s, p) /\ SameMode(s, p) /\ Typed(p)
  BY PushSilent, PushTyped
<1> HIDE DEF p
<1> QED BY <1>1, FieldNames DEF EmitPageEvent, p, Typed, SameKeys, SameMode

LEMMA EmitInteractionSilent ==
  ASSUME NEW s, NEW n \in Nat, Typed(s), Owned(s)
  PROVE  SameKeys(s, EmitInteraction(s, n)) /\ SameMode(s, EmitInteraction(s, n))
<1> DEFINE p == Push(s, n)
<1>1. SameKeys(s, p) /\ SameMode(s, p) /\ Typed(p)
  BY PushSilent, PushTyped
<1> HIDE DEF p
<1> QED BY <1>1, FieldNames DEF EmitInteraction, p, Typed, SameKeys, SameMode

LEMMA StartRecordingSilent ==
  ASSUME NEW s, Typed(s), Owned(s)
  PROVE  SameKeys(s, StartRecording(s)) /\ SameMode(s, StartRecording(s))
<1> DEFINE t == [s EXCEPT !.recorders = @ + 1, !.owned = TRUE]
<1>1. SameKeys(s, t) /\ SameMode(s, t)
  BY FieldNames DEF Typed, SameKeys, SameMode
<1>2. Typed(t) /\ Owned(t)
  BY RecorderTyped
<1>3. StartRecording(s) = s \/ StartRecording(s) = EmitPageEvent(t, 1, TRUE)
  BY DEF StartRecording
<1> HIDE DEF t
<1>4. SameKeys(t, EmitPageEvent(t, 1, TRUE)) /\ SameMode(t, EmitPageEvent(t, 1, TRUE))
  BY <1>2, EmitPageEventSilent
<1>5. SameKeys(s, s) /\ SameMode(s, s)
  BY DEF SameKeys, SameMode
<1> QED BY <1>1, <1>3, <1>4, <1>5 DEF SameKeys, SameMode

LEMMA StopRecordingSilent ==
  ASSUME NEW s, Typed(s)
  PROVE  SameKeys(s, StopRecording(s)) /\ SameMode(s, StopRecording(s))
BY FieldNames DEF StopRecording, Typed, SameKeys, SameMode

\* endSession() leaves nothing to ship.
LEMMA EndSessionFree ==
  ASSUME NEW s, Typed(s), Owned(s), Free(s), Quiet(s), Woken(s), Live(s)
  PROVE  /\ Free(EndSession(s)) /\ Quiet(EndSession(s)) /\ Woken(EndSession(s))
         /\ Live(EndSession(s))
<1>1. CASE ~Running(s)
  BY <1>1 DEF EndSession
<1>2. CASE Running(s)
  <2> DEFINE u == [s EXCEPT !.stopped = TRUE]
             f == Flush(u)
             g == FlushLogs(f)
             v == StopRecording(g)
             t == [v EXCEPT !.wakeArmed = TRUE]
  <2>1. Typed(u) /\ Owned(u)
    BY StoppedTyped
  <2>2. SameKeys(s, u) /\ u.page = s.page /\ u.stopped
    BY FieldNames DEF SameKeys, Typed
  <2>3. EndSession(s) = t
    BY <1>2 DEF EndSession
  <2> HIDE DEF u
  <2>4. Free(u) /\ Live(u)
    BY <2>2, SameKeysFree DEF Live
  <2>5. Free(f) /\ SameMode(u, f) /\ Typed(f) /\ Owned(f)
    BY <2>1, <2>4, FlushFree, FlushTyped
  <2> HIDE DEF f
  <2>6. Free(g) /\ SameMode(f, g) /\ g.logBuffer = << >> /\ Typed(g) /\ Owned(g)
    BY <2>4, <2>5, FlushLogsFree, FlushLogsTyped DEF SameMode, Live
  <2> HIDE DEF g
  <2>7. SameKeys(g, v) /\ SameMode(g, v) /\ Typed(v)
    BY <2>6, StopRecordingSilent, StopRecordingTyped
  <2> HIDE DEF v
  <2>8. SameKeys(v, t) /\ t.page = v.page /\ t.stopped = v.stopped
    BY <2>7, FieldNames DEF Typed, SameKeys
  <2> HIDE DEF t
  <2>9. Free(v)
    BY <2>6, <2>7, SameKeysFree
  <2>10. Free(t)
    BY <2>8, <2>9, SameKeysFree
  <2>11. t.stopped /\ t.page = s.page /\ t.logBuffer = << >>
    BY <2>2, <2>5, <2>6, <2>7, <2>8 DEF SameMode, SameKeys
  <2> QED BY <2>3, <2>10, <2>11 DEF Quiet, Woken, Live
<1> QED BY <1>1, <1>2

\* Under its new id a visit with an empty log buffer has every key free.
LEMMA RenewFree ==
  ASSUME NEW s, Typed(s), s.clash = {}, Numbered(s), s.logBuffer = << >>, Live(s)
  PROVE  /\ Free(Renew(s)) /\ Live(Renew(s)) /\ Renew(s).logBuffer = << >>
         /\ Renew(s).wakeArmed = FALSE
<1> DEFINE t == Renew(s)
<1>1. /\ t.used = s.used /\ t.clash = s.clash /\ t.minted = s.minted + 1
      /\ t.sid = s.minted + 1 /\ t.seq = 0 /\ t.logSeq = 0 /\ t.pageIdx = -1
      /\ t.stSid = s.minted + 1 /\ t.stLogSeq = 0 /\ t.stPage = -1
      /\ t.logBuffer = s.logBuffer /\ t.page = s.page /\ t.wakeArmed = FALSE
  BY FieldNames DEF Renew, Typed
<1>2. s.minted \in Nat /\ \A k \in s.used : k.sid \in Nat /\ k.sid <= s.minted
  BY DEF Typed, Numbers, Ledger, Numbered, Key
<1> HIDE DEF t
<1>3. Numbered(t)
  BY <1>1, <1>2 DEF Numbered
<1>4. Stored(t) /\ Ahead(t)
  BY <1>1, <1>2 DEF Stored, Ahead
<1>5. Pending(t)
  BY <1>1 DEF Pending
<1> QED BY <1>1, <1>3, <1>4, <1>5 DEF Free, Current, Live, t

\* newSession() of a dead visit, and of a running one it finalizes: no key of
\* the new id is used, and nothing of the old visit is left to ship.
LEMMA NewSessionFree ==
  ASSUME NEW s, NEW finalize \in BOOLEAN, Typed(s), Owned(s), Free(s), Quiet(s), Live(s),
         s.stopped \/ finalize
  PROVE  /\ Free(NewSession(s, finalize)) /\ Quiet(NewSession(s, finalize))
         /\ Woken(NewSession(s, finalize))
<1> DEFINE f == FlushLogs(Flush(s))
           h == IF finalize /\ ~s.stopped THEN Finalize(s) ELSE s
           u == Renew(h)
           r == StartRecording(u)
           t == TrackPage(r)
<1>1. Free(f) /\ f.page = s.page /\ f.logBuffer = << >> /\ Typed(f)
  BY FlushFree, FlushTyped, FlushLogsFree, FlushLogsTyped DEF SameMode, Live
<1>2. h.clash = {} /\ Numbered(h) /\ h.logBuffer = << >> /\ Live(h) /\ Typed(h) /\ Owned(h)
  <2>1. CASE finalize /\ ~s.stopped
    <3>1. /\ Finalize(s).clash = f.clash /\ Finalize(s).logBuffer = f.logBuffer
          /\ Finalize(s).page = f.page /\ Finalize(s).used = f.used
          /\ Finalize(s).minted = f.minted /\ Finalize(s).sid = f.sid
          /\ Finalize(s).stSid = f.stSid
      BY <1>1, FieldNames DEF Finalize, Typed
    <3> HIDE DEF f
    <3>2. Typed(Finalize(s)) /\ Owned(Finalize(s))
      BY FinalizeTyped
    <3> QED BY <2>1, <3>1, <3>2, <1>1 DEF Free, Numbered, Live
  <2>2. CASE ~(finalize /\ ~s.stopped)
    BY <2>2 DEF Free, Quiet, Live
  <2> QED BY <2>1, <2>2
<1>3. NewSession(s, finalize) = t
  BY DEF NewSession
<1> HIDE DEF h
<1>4. /\ Typed(u) /\ Owned(u) /\ Free(u) /\ Live(u) /\ u.logBuffer = << >>
      /\ u.wakeArmed = FALSE
  BY <1>2, RenewTyped, RenewFree
<1> HIDE DEF u
<1>5. Typed(r) /\ Owned(r) /\ SameKeys(u, r) /\ SameMode(u, r)
  BY <1>4, StartRecordingTyped, StartRecordingSilent
<1> HIDE DEF r
<1>6. Free(r) /\ Live(r) /\ r.logBuffer = << >> /\ r.wakeArmed = FALSE
  BY <1>4, <1>5, SameKeysFree DEF SameKeys, SameMode, Live
<1>7. Free(t) /\ SameMode(r, t) /\ t.logBuffer = << >>
  BY <1>5, <1>6, TrackPageFree
<1> QED BY <1>3, <1>6, <1>7 DEF Quiet, Woken, SameMode

\* start(): the id resumed continues its stored counters, a fresh id has every
\* key free.
LEMMA BootstrapFree ==
  ASSUME NEW s, NEW v \in BOOLEAN, Typed(s), Free(s)
  PROVE  LET t == Bootstrap(Resume(s, v)) IN Free(t) /\ Quiet(t) /\ Woken(t)
<1> DEFINE e == Unload(s)
           w == Resume(s, v)
           u == [w EXCEPT !.stSid = w.sid, !.stAge = 0, !.stLogSeq = w.logSeq]
           r == StartRecording(u)
           t == TrackPage(r)
<1>1. /\ Typed(e) /\ e.used = s.used /\ e.clash = s.clash /\ e.minted = s.minted
      /\ e.logBuffer = << >> /\ e.stSeq = s.stSeq /\ e.stPage = s.stPage
      /\ e.wakeArmed = FALSE
  BY UnloadTyped, FieldNames DEF Unload, Typed
<1>2. Typed(w) /\ Owned(w)
  BY ResumeTyped
<1> HIDE DEF e
<1>3. /\ w.used = s.used /\ w.clash = s.clash /\ w.logBuffer = << >> /\ w.page = "live"
      /\ w.stopped = FALSE /\ w.wakeArmed = FALSE
      /\ w.minted = IF Fresh(s) THEN s.minted + 1 ELSE s.minted
      /\ w.sid = IF Fresh(s) THEN s.minted + 1 ELSE s.stSid
      /\ w.seq = IF Fresh(s) THEN 0 ELSE s.stSeq
      /\ w.logSeq = IF Fresh(s) THEN 0 ELSE s.stLogSeq
      /\ w.pageIdx = IF Fresh(s) THEN -1 ELSE s.stPage
      /\ w.stSeq = s.stSeq /\ w.stPage = s.stPage
  BY <1>1, FieldNames DEF Resume, e, Typed
<1> HIDE DEF w
<1>4. Typed(u) /\ Owned(u)
  BY <1>2, StoredTyped
<1>5. /\ u.used = w.used /\ u.clash = w.clash /\ u.logBuffer = w.logBuffer
      /\ u.page = w.page /\ u.stopped = w.stopped /\ u.wakeArmed = w.wakeArmed
      /\ u.minted = w.minted /\ u.sid = w.sid /\ u.seq = w.seq /\ u.logSeq = w.logSeq
      /\ u.pageIdx = w.pageIdx /\ u.stSeq = w.stSeq /\ u.stPage = w.stPage
      /\ u.stSid = w.sid /\ u.stLogSeq = w.logSeq
  BY <1>2, FieldNames DEF Typed
<1>6. Bootstrap(w) = t
  BY DEF Bootstrap
<1> HIDE DEF u
<1>7. Free(u)
  <2>1. s.minted \in Nat /\ s.stSid \in Nat /\ \A k \in s.used : k.sid \in Nat
    BY DEF Typed, Numbers, Ledger, Key
  <2>2. s.clash = {} /\ Numbered(s) /\ Stored(s)
    BY DEF Free
  <2>3. u.clash = {} /\ Numbered(u)
    BY <1>3, <1>5, <2>1, <2>2 DEF Numbered
  <2>4. Ahead(u) /\ Stored(u)
    <3>1. CASE Fresh(s)
      <4>1. \A k \in u.used : k.sid # u.sid
        BY <1>3, <1>5, <2>1, <2>2, <3>1 DEF Numbered
      <4> QED BY <4>1, <1>5 DEF Ahead, Stored
    <3>2. CASE ~Fresh(s)
      BY <1>3, <1>5, <2>2, <3>2 DEF Ahead, Stored
    <3> QED BY <3>1, <3>2
  <2>5. Pending(u)
    BY <1>3, <1>5 DEF Pending
  <2> QED BY <1>5, <2>3, <2>4, <2>5 DEF Free, Current
<1>8. Typed(r) /\ Owned(r) /\ SameKeys(u, r) /\ SameMode(u, r)
  BY <1>4, StartRecordingTyped, StartRecordingSilent
<1> HIDE DEF r
<1>9. Free(r) /\ Live(r) /\ r.stopped = FALSE /\ r.wakeArmed = FALSE
  BY <1>3, <1>5, <1>7, <1>8, SameKeysFree DEF SameMode, Live
<1>10. Free(t) /\ SameMode(r, t)
  BY <1>8, <1>9, TrackPageFree
<1> QED BY <1>6, <1>9, <1>10 DEF Quiet, Woken, SameMode, w

\* A line added to the log buffer has a free key.
LEMMA CaptureFree ==
  ASSUME NEW s, Typed(s), Free(s), Running(s)
  PROVE  LET t == [s EXCEPT !.logSeq = @ + 1, !.stLogSeq = s.logSeq + 1,
                            !.logBuffer = Newest(Append(@, s.logSeq + 1), MaxLogBuffer)]
         IN  Free(t) /\ SameMode(s, t)
<1> DEFINE b == Append(s.logBuffer, s.logSeq + 1)
           q == Newest(b, MaxLogBuffer)
           t == [s EXCEPT !.logSeq = @ + 1, !.stLogSeq = s.logSeq + 1, !.logBuffer = q]
<1>1. /\ s.logBuffer \in Seq(Nat) /\ s.logSeq \in Nat /\ s.seq \in Nat /\ s.sid \in Nat
      /\ s.used \in SUBSET Key /\ s.pageIdx \in Int
  BY DEF Typed, Buffers, Numbers, Ledger
<1>2. s.clash = {} /\ Numbered(s) /\ Stored(s) /\ s.sid = s.stSid
      /\ s.logSeq = s.stLogSeq /\ Ahead(s) /\ Pending(s) /\ Live(s)
  BY DEF Free, Current, Running, Live
<1>3. b \in Seq(Nat) /\ \A j \in DOMAIN b : b[j] = s.logSeq + 1 \/
                             \E i \in DOMAIN s.logBuffer : b[j] = s.logBuffer[i]
  BY <1>1
<1> HIDE DEF b
<1>4. q \in Seq(Nat) /\ \A j \in DOMAIN q : \E i \in DOMAIN b : q[j] = b[i]
  <2>1. MaxLogBuffer \in Nat
    BY LifecycleAssumption
  <2>2. b \in Seq(Nat)
    BY <1>3
  <2>3. /\ Newest(b, MaxLogBuffer) \in Seq(Nat)
        /\ \A j \in DOMAIN Newest(b, MaxLogBuffer) :
             \E i \in DOMAIN b : Newest(b, MaxLogBuffer)[j] = b[i]
    BY <2>1, <2>2, NewestSeq
  <2> QED BY <2>3
<1> HIDE DEF q
<1>5. /\ t.used = s.used /\ t.clash = s.clash /\ t.minted = s.minted
      /\ t.sid = s.sid /\ t.seq = s.seq /\ t.logSeq = s.logSeq + 1 /\ t.pageIdx = s.pageIdx
      /\ t.stSid = s.stSid /\ t.stSeq = s.stSeq /\ t.stLogSeq = s.logSeq + 1
      /\ t.stPage = s.stPage /\ t.logBuffer = q
  BY FieldNames DEF Typed
<1>6. SameMode(s, t)
  BY FieldNames DEF Typed, SameMode
<1> HIDE DEF t
<1>7. t.clash = {} /\ Numbered(t)
  BY <1>2, <1>5 DEF Numbered
<1>8. Stored(t) /\ Ahead(t)
  BY <1>1, <1>2, <1>5 DEF Stored, Ahead, Key
<1>9. BatchKey("logs", s.sid, s.logSeq + 1) \notin s.used
  BY <1>1, <1>2 DEF Ahead, BatchKey
<1>10. \A j \in DOMAIN q : q[j] <= s.logSeq + 1 /\ BatchKey("logs", s.sid, q[j]) \notin s.used
  <2> SUFFICES ASSUME NEW j \in DOMAIN q
               PROVE  q[j] <= s.logSeq + 1 /\ BatchKey("logs", s.sid, q[j]) \notin s.used
    OBVIOUS
  <2>1. CASE q[j] = s.logSeq + 1
    BY <2>1, <1>1, <1>9
  <2>2. CASE \E i \in DOMAIN s.logBuffer : q[j] = s.logBuffer[i]
    <3>1. PICK i \in DOMAIN s.logBuffer : q[j] = s.logBuffer[i]
      BY <2>2
    <3>2. s.logBuffer[i] \in Nat
      BY <1>1
    <3> QED BY <3>1, <3>2, <1>1, <1>2 DEF Pending
  <2> QED BY <1>3, <1>4, <2>1, <2>2
<1>11. Pending(t)
  BY <1>5, <1>10 DEF Pending
<1> QED BY <1>2, <1>5, <1>6, <1>7, <1>8, <1>11 DEF Free, Current, t, q, b

\* What ships nothing keeps the key invariant.
LEMMA SilentFree ==
  ASSUME NEW s, NEW t, Free(s), Quiet(s), Woken(s), SameKeys(s, t), SameMode(s, t)
  PROVE  Free(t) /\ Quiet(t) /\ Woken(t)
BY SameKeysFree DEF SameKeys, SameMode, Quiet, Woken, Live

\* A page that is gone keeps the stored counters ahead.
LEMMA UnloadFree ==
  ASSUME NEW s, Typed(s), Free(s)
  PROVE  Free(Unload(s)) /\ Quiet(Unload(s)) /\ Woken(Unload(s))
<1> DEFINE t == Unload(s)
<1>1. /\ t.used = s.used /\ t.clash = s.clash /\ t.minted = s.minted /\ t.sid = s.sid
      /\ t.stSid = s.stSid /\ t.stSeq = s.stSeq /\ t.stLogSeq = s.stLogSeq
      /\ t.stPage = s.stPage /\ t.page = "none" /\ t.wakeArmed = FALSE
  BY FieldNames DEF Unload, Typed
<1> HIDE DEF t
<1> QED BY <1>1 DEF Free, Numbered, Stored, Live, Quiet, Woken, t

\* The invariant behind NoClash.  A frozen page would hold counters that fall
\* behind, so there must be none.
KeyInv == Free(tab) /\ Quiet(tab) /\ Woken(tab) /\ cached = {}

LEMMA KeyInit == Init => KeyInv
BY DEF Init, InitTab, KeyInv, Free, Quiet, Woken, Numbered, Stored, Live

LEMMA KeyNext ==
  ASSUME BackForwardCache = FALSE, TypeInv, KeyInv, [Next]_vars
  PROVE  KeyInv'
<1> DEFINE Fine(s) == Free(s) /\ Quiet(s) /\ Woken(s)
<1>a. Typed(tab) /\ Owned(tab) /\ Fine(tab) /\ cached = {}
  BY DEF TypeInv, KeyInv
<1>b. SUFFICES Fine(tab') /\ cached' = {}
  BY DEF KeyInv
<1>c. ASSUME UNCHANGED cached, Fine(tab') PROVE Fine(tab') /\ cached' = {}
  BY <1>a, <1>c
<1>1. CASE LoadPage
  <2>z. Fine(tab')
    BY <1>1, <1>a, BootstrapFree DEF LoadPage
  <2> QED BY <1>c, <2>z, <1>1 DEF LoadPage
<1>2. CASE Interact
  <2> DEFINE s == IF tab.recorders > 0 THEN EmitInteraction(tab, tab.recorders) ELSE tab
  <2>1. tab.recorders \in Nat
    BY <1>a DEF Typed, Numbers
  <2>2. Typed(s) /\ Owned(s) /\ Fine(s)
    BY <1>a, <2>1, EmitInteractionTyped, EmitInteractionSilent, SilentFree
  <2>3. tab' = IF s.wakeArmed THEN NewSession(s, FALSE) ELSE s
    BY <1>2 DEF Interact
  <2> HIDE DEF s
  <2>4. s.wakeArmed => Fine(NewSession(s, FALSE))
    BY <2>2, NewSessionFree DEF Woken
  <2>z. Fine(tab')
    BY <2>2, <2>3, <2>4
  <2> QED BY <1>c, <2>z, <1>2 DEF Interact
<1>3. CASE PageMutates
  <2>1. tab.recorders \in Nat
    BY <1>a DEF Typed, Numbers
  <2>z. Fine(tab')
    BY <1>3, <1>a, <2>1, EmitPageEventSilent, SilentFree DEF PageMutates
  <2> QED BY <1>c, <2>z, <1>3 DEF PageMutates
<1>4. CASE Resync
  <2> DEFINE s == [tab EXCEPT !.resync = FALSE]
  <2>1. Typed(s) /\ Owned(s)
    BY <1>a, ResyncedTyped
  <2>2. SameKeys(tab, s) /\ SameMode(tab, s)
    BY <1>a, FieldNames DEF Typed, SameKeys, SameMode
  <2>3. tab' = IF s.owned THEN EmitPageEvent(s, 1, TRUE) ELSE s
    BY <1>4 DEF Resync
  <2> HIDE DEF s
  <2>4. Fine(s)
    BY <1>a, <2>2, SilentFree
  <2>5. Fine(EmitPageEvent(s, 1, TRUE))
    BY <2>1, <2>4, EmitPageEventSilent, SilentFree
  <2>z. Fine(tab')
    BY <2>3, <2>4, <2>5
  <2> QED BY <1>c, <2>z, <1>4 DEF Resync
<1>5. CASE CaptureLog
  <2>1. Running(tab)
    BY <1>5 DEF CaptureLog
  <2>2. Free(tab') /\ SameMode(tab, tab')
    BY <1>5, <1>a, <2>1, CaptureFree DEF CaptureLog
  <2>z. Fine(tab')
    BY <1>a, <2>1, <2>2 DEF SameMode, Quiet, Woken, Running, Live
  <2> QED BY <1>c, <2>z, <1>5 DEF CaptureLog
<1>6. CASE RouteChange
  <2>1. Live(tab)
    BY <1>6 DEF RouteChange
  <2>2. Free(tab') /\ SameMode(tab, tab') /\ tab'.logBuffer = tab.logBuffer
    BY <1>6, <1>a, <2>1, TrackPageFree DEF RouteChange
  <2>z. Fine(tab')
    BY <1>a, <2>2 DEF SameMode, Quiet, Woken, Live
  <2> QED BY <1>c, <2>z, <1>6 DEF RouteChange
<1>7. CASE FlushTimer
  <2> DEFINE e == Flush(tab)
             f == FlushLogs(e)
  <2>1. Live(tab)
    BY <1>7 DEF FlushTimer
  <2>2. Free(e) /\ SameMode(tab, e) /\ Typed(e) /\ Owned(e)
    BY <1>a, <2>1, FlushFree, FlushTyped
  <2>3. Live(e)
    BY <2>1, <2>2 DEF SameMode, Live
  <2>4. Free(f) /\ SameMode(e, f) /\ f.logBuffer = << >> /\ Typed(f) /\ Owned(f)
    BY <2>2, <2>3, FlushLogsFree, FlushLogsTyped
  <2>5. Fine(f) /\ SameMode(tab, f)
    BY <1>a, <2>2, <2>4 DEF SameMode, Quiet, Woken, Live
  <2>z. Fine(tab')
    BY <1>7, <2>5 DEF FlushTimer
  <2> QED BY <1>c, <2>z, <1>7 DEF FlushTimer
<1>8. CASE Heartbeat
  <2> DEFINE active == Aged(tab.activeMs, tab.tickAge, CAP)
             idle == [tab EXCEPT !.tickAge = 0]
             ping == [tab EXCEPT !.activeMs = active, !.stActive = active,
                                 !.stAge = 0, !.tickAge = 0]
  <2>1. Live(tab)
    BY <1>8 DEF Heartbeat
  <2>2. SameKeys(tab, idle) /\ SameMode(tab, idle)
    BY <1>a, FieldNames DEF Typed, SameKeys, SameMode
  <2>3. SameKeys(tab, ping) /\ SameMode(tab, ping)
    BY <1>a, FieldNames DEF Typed, SameKeys, SameMode
  <2>4. tab' = idle \/ tab' = EndSession(tab) \/ tab' = NewSession(tab, TRUE) \/ tab' = ping
    BY <1>8 DEF Heartbeat
  <2> HIDE DEF idle, ping
  <2>5. Fine(idle) /\ Fine(ping)
    BY <1>a, <2>2, <2>3, SilentFree
  <2>6. Fine(EndSession(tab)) /\ Fine(NewSession(tab, TRUE))
    BY <1>a, <2>1, EndSessionFree, NewSessionFree
  <2>z. Fine(tab')
    BY <2>4, <2>5, <2>6
  <2> QED BY <1>c, <2>z, <1>8 DEF Heartbeat
<1>9. CASE Hide
  <2>1. CASE ~Live(tab)
    <3>1. tab' = [tab EXCEPT !.visible = FALSE]
      BY <1>9, <2>1 DEF Hide
    <3>2. SameKeys(tab, tab') /\ SameMode(tab, tab')
      BY <1>a, <3>1, FieldNames DEF Typed, SameKeys, SameMode
    <3>z. Fine(tab')
      BY <1>a, <3>2, SilentFree
    <3> QED BY <1>c, <3>z, <1>9 DEF Hide
  <2>2. CASE Live(tab)
    <3> DEFINE e == Flush(tab)
               f == FlushLogs(e)
    <3>1. Free(e) /\ SameMode(tab, e) /\ Typed(e) /\ Live(e)
      BY <1>a, <2>2, FlushFree, FlushTyped DEF SameMode, Live
    <3>2. Free(f) /\ SameMode(e, f) /\ f.logBuffer = << >> /\ Typed(f)
      BY <3>1, FlushLogsFree, FlushLogsTyped, FlushTyped, <1>a
    <3>3. Fine(f)
      BY <1>a, <3>1, <3>2 DEF SameMode, Quiet, Woken, Live
    <3>4. tab' = [f EXCEPT !.visible = FALSE, !.hideArmed = TRUE, !.hideAge = 0]
      BY <1>9, <2>2 DEF Hide
    <3> HIDE DEF f
    <3>5. SameKeys(f, tab') /\ SameMode(f, tab')
      BY <3>2, <3>4, FieldNames DEF Typed, SameKeys, SameMode
    <3>z. Fine(tab')
      BY <3>3, <3>5, SilentFree
    <3> QED BY <1>c, <3>z, <1>9 DEF Hide
  <2> QED BY <2>1, <2>2
<1>10. CASE Show
  <2> DEFINE s == [tab EXCEPT !.visible = TRUE]
             t == [s EXCEPT !.hideArmed = FALSE, !.hideAge = 0]
  <2>1. SameKeys(tab, s) /\ SameMode(tab, s) /\ SameKeys(tab, t) /\ SameMode(tab, t)
    BY <1>a, FieldNames DEF Typed, SameKeys, SameMode
  <2>2. Typed(t) /\ Owned(t)
    BY <1>a, ShownTyped
  <2>3. tab' = s \/ tab' = t \/ (Live(s) /\ t.stopped /\ tab' = NewSession(t, FALSE))
    BY <1>10 DEF Show
  <2>4. Live(s) => Live(t)
    BY <2>1 DEF SameMode, Live
  <2> HIDE DEF s, t
  <2>5. Fine(s) /\ Fine(t)
    BY <1>a, <2>1, SilentFree
  <2>z. Fine(tab')
    BY <2>2, <2>3, <2>4, <2>5, NewSessionFree
  <2> QED BY <1>c, <2>z, <1>10 DEF Show
<1>11. CASE HideTimer
  <2> DEFINE s == [tab EXCEPT !.hideArmed = FALSE, !.hideAge = 0]
  <2>1. SameKeys(tab, s) /\ SameMode(tab, s)
    BY <1>a, FieldNames DEF Typed, SameKeys, SameMode
  <2>2. Typed(s) /\ Owned(s)
    BY <1>a, DisarmedTyped
  <2>3. tab' = EndSession(s) /\ Live(tab)
    BY <1>11 DEF HideTimer
  <2> HIDE DEF s
  <2>4. Fine(s) /\ Live(s)
    BY <1>a, <2>1, <2>3, SilentFree DEF SameMode, Live
  <2>z. Fine(tab')
    BY <2>2, <2>3, <2>4, EndSessionFree
  <2> QED BY <1>c, <2>z, <1>11 DEF HideTimer
<1>12. CASE Shutdown
  <2> DEFINE e == Flush(tab)
             f == FlushLogs(e)
  <2>1. Live(tab)
    BY <1>12 DEF Shutdown
  <2>2. Free(e) /\ SameMode(tab, e) /\ Typed(e) /\ Owned(e)
    BY <1>a, <2>1, FlushFree, FlushTyped
  <2>3. Live(e)
    BY <2>1, <2>2 DEF SameMode, Live
  <2>4. Free(f) /\ SameMode(e, f) /\ f.logBuffer = << >> /\ Typed(f) /\ Owned(f)
    BY <2>2, <2>3, FlushLogsFree, FlushLogsTyped
  <2>5. Fine(f) /\ SameMode(tab, f)
    BY <1>a, <2>2, <2>4 DEF SameMode, Quiet, Woken, Live
  <2> DEFINE g == StopRecording(f)
             s == IF tab.stopped THEN g ELSE EndSession(tab)
             t == [s EXCEPT !.page = "disposed", !.stopped = TRUE, !.wakeArmed = FALSE,
                            !.hideArmed = FALSE, !.hideAge = 0]
  <2> HIDE DEF f
  <2>6. Typed(g) /\ Fine(g)
    BY <2>4, <2>5, StopRecordingTyped, StopRecordingSilent, SilentFree
  <2>7. tab' = t
    BY <1>12 DEF Shutdown, f
  <2> HIDE DEF g
  <2>8. Typed(s) /\ Free(s)
    BY <1>a, <2>1, <2>6, EndSessionTyped, EndSessionFree
  <2> HIDE DEF s
  <2>9. /\ t.used = s.used /\ t.clash = s.clash /\ t.minted = s.minted /\ t.sid = s.sid
        /\ t.stSid = s.stSid /\ t.stSeq = s.stSeq /\ t.stLogSeq = s.stLogSeq
        /\ t.stPage = s.stPage /\ t.page = "disposed" /\ t.wakeArmed = FALSE
    BY <2>8, FieldNames DEF Typed
  <2> HIDE DEF t
  <2>z. Fine(tab')
    BY <2>7, <2>8, <2>9 DEF Free, Numbered, Stored, Live, Quiet, Woken
  <2> QED BY <1>c, <2>z, <1>12 DEF Shutdown
<1>13. CASE Navigate
  <2>1. CASE ~Live(tab)
    BY <1>13, <1>a, <1>c, <2>1, UnloadFree DEF Navigate
  <2>2. CASE Live(tab)
    <3> DEFINE e == Flush(tab)
               f == FlushLogs(e)
    <3>1. Free(e) /\ Typed(e) /\ Owned(e) /\ Live(e)
      BY <1>a, <2>2, FlushFree, FlushTyped DEF SameMode, Live
    <3>2. Free(f) /\ Typed(f)
      BY <3>1, FlushLogsFree, FlushLogsTyped
    <3>3. tab' = Unload(f)
      BY <1>13, <2>2 DEF Navigate
    <3>z. Fine(tab')
      BY <3>2, <3>3, UnloadFree
    <3> QED BY <1>c, <3>z, <1>13 DEF Navigate
  <2> QED BY <2>1, <2>2
<1>14. CASE Discard
  <2>z. Fine(tab')
    BY <1>14, <1>a, UnloadFree DEF Discard
  <2> QED BY <1>c, <2>z, <1>14 DEF Discard
<1>15. CASE Freeze
  BY <1>15 DEF Freeze
<1>16. CASE Restore
  BY <1>16, <1>a DEF Restore
<1>17. CASE Tick
  <2>1. tab' = Older(tab) /\ cached' = {Older(m) : m \in cached}
    BY <1>17 DEF Tick
  <2>2. SameKeys(tab, Older(tab)) /\ SameMode(tab, Older(tab))
    BY <1>a, FieldNames DEF Older, Typed, SameKeys, SameMode
  <2> QED BY <1>a, <2>1, <2>2, SilentFree
<1>18. CASE UNCHANGED vars
  BY <1>a, <1>18 DEF vars
<1> QED
  BY <1>1, <1>2, <1>3, <1>4, <1>5, <1>6, <1>7, <1>8, <1>9, <1>10, <1>11, <1>12,
     <1>13, <1>14, <1>15, <1>16, <1>17, <1>18 DEF Next

\* Where left pages are not kept alive, no two batches ever leave the tab under
\* one (kind, session, number) key, for every value of the bounds, timeouts and
\* buffer sizes, with or without recording and console capture.
THEOREM KeysNeverClash ==
  ASSUME BackForwardCache = FALSE
  PROVE  Spec => []NoClash
<1> DEFINE IInv == TypeInv /\ KeyInv
<1>1. Init => IInv
  BY TypeInit, KeyInit
<1>2. IInv /\ [Next]_vars => IInv'
  BY TypeNext, KeyNext
<1>3. IInv => NoClash
  BY DEF KeyInv, Free, NoClash
<1> QED BY <1>1, <1>2, <1>3, PTL DEF Spec
-----------------------------------------------------------------------------
(***************************************************************************)
(* Recording.  Up to a 2h split a page has one recorder while its visit    *)
(* runs and none otherwise, so what is buffered was recorded in the visit  *)
(* that runs, nothing is left of a visit that is over, and flush() files   *)
(* every event under its own visit.                                        *)
(***************************************************************************)

FiledOwn(s) == \A f \in s.filed : f.splits = 0 => f.of = f.as

Resynced(s) == s.owned /\ s.stale /\ ~s.skipping => s.resync

Steady(s) ==
  /\ s.splits = 0 =>
       /\ s.recorders = IF Running(s) /\ RecordingEnabled THEN 1 ELSE 0
       /\ s.owned <=> s.recorders = 1
       /\ \A i \in DOMAIN s.buffer : s.buffer[i] = s.sid
       /\ ~Running(s) => s.buffer = << >>
  /\ Woken(s) /\ Resynced(s) /\ FiledOwn(s)

\* A visit that runs and is not yet recorded.
Ready(s) ==
  /\ Running(s) /\ ~s.wakeArmed /\ Resynced(s) /\ FiledOwn(s)
  /\ s.splits = 0 => s.recorders = 0 /\ ~s.owned /\ s.buffer = << >>

\* s and t agree on everything that recording depends on, but for the buffer
\* and what was shipped of it.
SameRecorder(s, t) ==
  /\ t.page = s.page /\ t.stopped = s.stopped /\ t.wakeArmed = s.wakeArmed
  /\ t.sid = s.sid /\ t.recorders = s.recorders /\ t.owned = s.owned
  /\ t.skipping = s.skipping /\ t.resync = s.resync /\ t.stale = s.stale
  /\ t.splits = s.splits

SameRecording(s, t) == SameRecorder(s, t) /\ t.buffer = s.buffer /\ t.filed = s.filed

LEMMA SameSteady ==
  ASSUME NEW s, NEW t, SameRecording(s, t)
  PROVE  (Steady(s) => Steady(t)) /\ (Ready(s) => Ready(t))
BY DEF Steady, Ready, SameRecording, SameRecorder, Running, Live, Woken, Resynced, FiledOwn

\* What flush() does to the recording: the buffer is filed.
LEMMA FlushFiles ==
  ASSUME NEW s, Typed(s)
  PROVE  /\ SameRecorder(s, Flush(s)) /\ Flush(s).buffer = << >>
         /\ Flush(s).filed = s.filed \cup FiledNow(s)
<1>1. CASE s.buffer = << >>
  <2>1. FiledNow(s) = {} BY <1>1 DEF FiledNow
  <2> QED BY <1>1, <2>1 DEF Flush, SameRecorder
<1>2. CASE s.buffer # << >>
  BY <1>2, FieldNames DEF Flush, Ship, Typed, SameRecorder
<1> QED BY <1>1, <1>2

LEMMA FlushLogsSame ==
  ASSUME NEW s, Typed(s) PROVE SameRecording(s, FlushLogs(s))
BY FieldNames DEF FlushLogs, Typed, SameRecording, SameRecorder

LEMMA TrackPageSame ==
  ASSUME NEW s, Typed(s) PROVE SameRecording(s, TrackPage(s))
BY FieldNames DEF TrackPage, Ship, Typed, SameRecording, SameRecorder

\* The tail of a steady visit is filed under it.
LEMMA FiledNowOwn ==
  ASSUME NEW s, Steady(s)
  PROVE  \A f \in FiledNow(s) : f.splits = 0 => f.of = f.as
BY DEF FiledNow, Steady

LEMMA FlushSteady ==
  ASSUME NEW s, Typed(s), Owned(s), Steady(s)
  PROVE  /\ Steady(FlushLogs(Flush(s))) /\ SameRecorder(s, FlushLogs(Flush(s)))
         /\ FlushLogs(Flush(s)).buffer = << >>
<1> DEFINE f == Flush(s)
           t == FlushLogs(f)
<1>1. SameRecorder(s, f) /\ f.buffer = << >> /\ f.filed = s.filed \cup FiledNow(s)
  BY FlushFiles
<1>2. Typed(f) BY FlushTyped
<1> HIDE DEF f
<1>3. SameRecording(f, t) BY <1>2, FlushLogsSame
<1> HIDE DEF t
<1>4. FiledOwn(f) BY <1>1, FiledNowOwn DEF FiledOwn, Steady
<1>5. Steady(f)
  BY <1>1, <1>4 DEF Steady, SameRecorder, Running, Live, Woken, Resynced
<1>6. Steady(t) /\ SameRecorder(s, t) /\ t.buffer = << >>
  BY <1>1, <1>3, <1>5, SameSteady DEF SameRecording, SameRecorder
<1> QED BY <1>6 DEF f, t

\* What emit() buffers was recorded in the visit that runs.
LEMMA PushKeeps ==
  ASSUME NEW s, NEW n \in Nat, Typed(s), ~s.stopped,
         \A i \in DOMAIN s.buffer : s.buffer[i] = s.sid
  PROVE  \A i \in DOMAIN Push(s, n).buffer : Push(s, n).buffer[i] = s.sid
<1> DEFINE new == [i \in 1..n |-> s.sid]
           q == s.buffer \o new
<1>1. s.buffer \in Seq(Nat) /\ s.sid \in Nat BY DEF Typed, Buffers, Numbers
<1>2. new \in Seq(Nat) /\ q \in Seq(Nat) BY <1>1
<1>3. \A i \in DOMAIN q : q[i] = s.sid BY <1>1, <1>2
<1>4. Push(s, n).buffer = Newest(q, MaxBuffer)
  BY FieldNames DEF Push, Typed
<1> HIDE DEF q
<1>5. \A i \in DOMAIN Newest(q, MaxBuffer) : \E j \in DOMAIN q : Newest(q, MaxBuffer)[i] = q[j]
  <2>1. MaxBuffer \in Nat BY LifecycleAssumption
  <2> QED BY <1>2, <2>1, NewestSeq
<1> QED BY <1>3, <1>4, <1>5

LEMMA PushSame ==
  ASSUME NEW s, NEW n, Typed(s)
  PROVE  SameRecorder(s, Push(s, n)) /\ Push(s, n).filed = s.filed
BY FieldNames DEF Push, Typed, SameRecorder

\* An event of the page keeps the recording steady.
LEMMA EmitPageEventSteady ==
  ASSUME NEW s, NEW n \in Nat, NEW full \in BOOLEAN, Typed(s), Owned(s), Steady(s),
         s.splits = 0 => Running(s)
  PROVE  Steady(EmitPageEvent(s, n, full))
<1> DEFINE p == Push(s, n)
           t == EmitPageEvent(s, n, full)
<1>1. CASE s.idleAge > GRACE
  <2>1. /\ SameRecorder([s EXCEPT !.skipping = t.skipping, !.stale = t.stale], t)
        /\ t.buffer = s.buffer /\ t.filed = s.filed /\ t.skipping
        /\ t.page = s.page /\ t.stopped = s.stopped /\ t.wakeArmed = s.wakeArmed
        /\ t.sid = s.sid /\ t.recorders = s.recorders /\ t.owned = s.owned
        /\ t.splits = s.splits
    BY <1>1, FieldNames DEF EmitPageEvent, Typed, SameRecorder
  <2> HIDE DEF t
  <2>2. Steady(t) BY <2>1 DEF Steady, Running, Live, Woken, Resynced, FiledOwn
  <2> QED BY <2>2 DEF t
<1>2. CASE ~(s.idleAge > GRACE)
  <2>1. SameRecorder(s, p) /\ p.filed = s.filed /\ Typed(p) BY PushSame, PushTyped
  <2>2. s.splits = 0 => \A i \in DOMAIN p.buffer : p.buffer[i] = s.sid
    BY PushKeeps DEF Steady, Running
  <2> HIDE DEF p
  <2>3. t = [p EXCEPT !.stale = @ /\ ~full] BY <1>2 DEF EmitPageEvent, p
  <2>4. /\ t.page = s.page /\ t.stopped = s.stopped /\ t.wakeArmed = s.wakeArmed
        /\ t.sid = s.sid /\ t.recorders = s.recorders /\ t.owned = s.owned
        /\ t.splits = s.splits /\ t.resync = s.resync /\ t.skipping = s.skipping
        /\ t.buffer = p.buffer /\ t.filed = s.filed /\ (t.stale => s.stale)
    BY <2>1, <2>3, FieldNames DEF Typed, SameRecorder
  <2> HIDE DEF t
  <2>5. Steady(t) BY <2>2, <2>4 DEF Steady, Running, Live, Woken, Resynced, FiledOwn
  <2> QED BY <2>5 DEF t
<1> QED BY <1>1, <1>2

\* So does an interaction, which ends a stretch of discarded mutations.
LEMMA EmitInteractionSteady ==
  ASSUME NEW s, NEW n \in Nat, Typed(s), Owned(s), Steady(s), s.splits = 0 => Running(s)
  PROVE  Steady(EmitInteraction(s, n))
<1> DEFINE p == Push(s, n)
           t == EmitInteraction(s, n)
<1>1. SameRecorder(s, p) /\ p.filed = s.filed /\ Typed(p) BY PushSame, PushTyped
<1>2. s.splits = 0 => \A i \in DOMAIN p.buffer : p.buffer[i] = s.sid
  BY PushKeeps DEF Steady, Running
<1> HIDE DEF p
<1>3. t = [p EXCEPT !.idleAge = 0, !.skipping = FALSE, !.resync = @ \/ s.skipping]
  BY DEF EmitInteraction, p
<1>4. /\ t.page = s.page /\ t.stopped = s.stopped /\ t.wakeArmed = s.wakeArmed
      /\ t.sid = s.sid /\ t.recorders = s.recorders /\ t.owned = s.owned
      /\ t.splits = s.splits /\ (s.resync \/ s.skipping => t.resync) /\ t.stale = s.stale
      /\ t.buffer = p.buffer /\ t.filed = s.filed
  BY <1>1, <1>3, FieldNames, ZenonT(60) DEF Typed, SameRecorder
<1> HIDE DEF t
<1>5. Steady(t) BY <1>2, <1>4 DEF Steady, Running, Live, Woken, Resynced, FiledOwn
<1> QED BY <1>5 DEF t

\* A recorder starts with a full snapshot, or discards it and is skipping.
LEMMA StartRecordingSteady ==
  ASSUME NEW s, Typed(s), Owned(s), Ready(s)
  PROVE  Steady(StartRecording(s))
<1>1. CASE ~RecordingEnabled
  BY <1>1 DEF StartRecording, Ready, Steady, Woken
<1>2. CASE RecordingEnabled
  <2> DEFINE r == [s EXCEPT !.recorders = @ + 1, !.owned = TRUE]
             p == Push(r, 1)
             t == StartRecording(s)
  <2>1. Typed(r) /\ Owned(r) BY RecorderTyped
  <2>2. /\ r.page = s.page /\ r.stopped = s.stopped /\ r.wakeArmed = s.wakeArmed
        /\ r.sid = s.sid /\ r.recorders = s.recorders + 1 /\ r.owned
        /\ r.splits = s.splits /\ r.buffer = s.buffer /\ r.filed = s.filed
    BY FieldNames DEF Typed
  <2> HIDE DEF r
  <2>3. SameRecorder(r, p) /\ p.filed = r.filed /\ Typed(p) BY <2>1, PushSame, PushTyped
  <2>4. s.splits = 0 => \A i \in DOMAIN p.buffer : p.buffer[i] = s.sid
    BY <2>1, <2>2, PushKeeps DEF Ready, Running
  <2> HIDE DEF p
  <2>5. t = EmitPageEvent(r, 1, TRUE) BY <1>2 DEF StartRecording, r
  <2>6. \/ t = [r EXCEPT !.skipping = TRUE, !.stale = TRUE]
        \/ t = [p EXCEPT !.stale = @ /\ ~TRUE]
    BY <2>5 DEF EmitPageEvent, p
  <2>7. /\ t.page = s.page /\ t.stopped = s.stopped /\ t.wakeArmed = s.wakeArmed
        /\ t.sid = s.sid /\ t.recorders = s.recorders + 1 /\ t.owned
        /\ t.splits = s.splits /\ t.buffer \in {s.buffer, p.buffer} /\ t.filed = s.filed
        /\ t.skipping \/ ~t.stale
    BY <2>1, <2>2, <2>3, <2>6, FieldNames, ZenonT(60) DEF Typed, SameRecorder
  <2> HIDE DEF t
  <2>8. Steady(t)
    BY <1>2, <2>4, <2>7 DEF Ready, Steady, Running, Live, Woken, Resynced, FiledOwn
  <2> QED BY <2>8 DEF t
<1> QED BY <1>1, <1>2

\* endSession() leaves neither a recorder nor a buffered event.
LEMMA EndSessionSteady ==
  ASSUME NEW s, Typed(s), Owned(s), Steady(s)
  PROVE  Steady(EndSession(s))
<1>1. CASE ~Running(s) BY <1>1 DEF EndSession
<1>2. CASE Running(s)
  <2> DEFINE u == [s EXCEPT !.stopped = TRUE]
             f == Flush(u)
             l == FlushLogs(f)
             v == StopRecording(l)
             t == [v EXCEPT !.wakeArmed = TRUE]
  <2>1. Typed(u) /\ Owned(u) BY StoppedTyped
  <2>2. /\ u.page = s.page /\ u.stopped /\ u.sid = s.sid /\ u.recorders = s.recorders
        /\ u.owned = s.owned /\ u.splits = s.splits /\ u.buffer = s.buffer
        /\ u.filed = s.filed
    BY FieldNames DEF Typed
  <2> HIDE DEF u
  <2>3. FiledNow(u) = FiledNow(s) BY <2>2 DEF FiledNow
  <2>4. SameRecorder(u, f) /\ f.buffer = << >> /\ f.filed = s.filed \cup FiledNow(s)
    BY <2>1, <2>2, <2>3, FlushFiles
  <2>5. Typed(f) /\ Owned(f) BY <2>1, FlushTyped
  <2> HIDE DEF f
  <2>6. SameRecording(f, l) /\ Typed(l) /\ Owned(l) BY <2>5, FlushLogsSame, FlushLogsTyped
  <2> HIDE DEF l
  <2>7. /\ v.page = s.page /\ v.stopped /\ ~v.owned /\ v.splits = s.splits
        /\ v.recorders = IF s.owned THEN s.recorders - 1 ELSE s.recorders
        /\ v.buffer = << >> /\ v.filed = s.filed \cup FiledNow(s)
    BY <2>2, <2>4, <2>6, FieldNames DEF StopRecording, Typed, SameRecording, SameRecorder
  <2>8. Typed(v) BY <2>6, StopRecordingTyped
  <2> HIDE DEF v
  <2>9. /\ t.page = s.page /\ t.stopped /\ ~t.owned /\ t.splits = s.splits
        /\ t.recorders = v.recorders /\ t.buffer = << >> /\ t.filed = v.filed
    BY <2>7, <2>8, FieldNames DEF Typed
  <2>10. t = EndSession(s) BY <1>2 DEF EndSession, t, v, l, f, u
  <2> HIDE DEF t
  <2>11. FiledOwn(t) BY <2>7, <2>9, FiledNowOwn DEF FiledOwn, Steady
  <2>12. s.recorders \in Nat BY DEF Typed, Numbers
  <2>13. t.splits = 0 => t.recorders = 0
    BY <2>7, <2>9, <2>12 DEF Steady
  <2>14. Steady(t)
    BY <1>2, <2>9, <2>11, <2>13 DEF Steady, Running, Live, Woken, Resynced
  <2> QED BY <2>10, <2>14
<1> QED BY <1>1, <1>2
\* Renewing a visit that is over or was split leaves one that is not recorded.
LEMMA RenewReady ==
  ASSUME NEW s, Typed(s), Steady(s), Live(s), s.splits = 0 => s.stopped
  PROVE  Ready(Renew(s))
<1> DEFINE t == Renew(s)
<1>1. /\ t.page = s.page /\ t.stopped = FALSE /\ t.wakeArmed = FALSE
      /\ t.recorders = s.recorders /\ t.owned = s.owned
      /\ t.skipping = s.skipping /\ t.resync = s.resync /\ t.stale = s.stale
      /\ t.splits = s.splits /\ t.buffer = s.buffer /\ t.filed = s.filed
  BY FieldNames DEF Renew, Typed
<1> HIDE DEF t
<1>2. Ready(t)
  BY <1>1 DEF Ready, Steady, Running, Live, Resynced, FiledOwn
<1> QED BY <1>2 DEF t

LEMMA NewSessionSteady ==
  ASSUME NEW s, NEW finalize \in BOOLEAN, Typed(s), Owned(s), Steady(s), Live(s),
         s.stopped \/ finalize
  PROVE  Steady(NewSession(s, finalize))
<1> DEFINE f == FlushLogs(Flush(s))
           h == IF finalize /\ ~s.stopped THEN Finalize(s) ELSE s
           w == Renew(h)
           r == StartRecording(w)
<1>1. Typed(h) /\ Owned(h) BY FinalizeTyped
<1>2. Steady(h) /\ Live(h) /\ (h.splits = 0 => h.stopped)
  <2>1. CASE finalize /\ ~s.stopped
    <3>1. Steady(f) /\ SameRecorder(s, f) /\ Typed(f)
      BY FlushSteady, FlushTyped, FlushLogsTyped
    <3> HIDE DEF f
    <3>2. h = [f EXCEPT !.splits = @ + 1] BY <2>1 DEF Finalize, f
    <3>3. f.splits \in Nat BY <3>1 DEF Typed, Numbers
    <3>4. /\ h.page = f.page /\ h.stopped = f.stopped /\ h.wakeArmed = f.wakeArmed
          /\ h.owned = f.owned /\ h.skipping = f.skipping /\ h.resync = f.resync
          /\ h.stale = f.stale /\ h.splits = f.splits + 1 /\ h.filed = f.filed
      BY <3>1, <3>2, FieldNames DEF Typed
    <3> HIDE DEF h
    <3> QED BY <3>1, <3>3, <3>4 DEF Steady, SameRecorder, Live, Woken, Resynced, FiledOwn
  <2>2. CASE ~(finalize /\ ~s.stopped)
    BY <2>2
  <2> QED BY <2>1, <2>2
<1> HIDE DEF h
<1>3. Typed(w) /\ Owned(w) /\ Ready(w) BY <1>1, <1>2, RenewTyped, RenewReady
<1> HIDE DEF w
<1>4. Steady(r) /\ Typed(r) BY <1>3, StartRecordingSteady, StartRecordingTyped
<1> HIDE DEF r
<1>5. Steady(TrackPage(r)) BY <1>4, TrackPageSame, SameSteady
<1> QED BY <1>5 DEF NewSession, r, w, h

\* A page that starts is recorded afresh, whatever the one before it left.
LEMMA BootstrapSteady ==
  ASSUME NEW s, NEW v \in BOOLEAN, Typed(s), Steady(s)
  PROVE  Steady(Bootstrap(Resume(s, v)))
<1> DEFINE e == Unload(s)
           u == Resume(s, v)
           b == [u EXCEPT !.stSid = u.sid, !.stAge = 0, !.stLogSeq = u.logSeq]
           r == StartRecording(b)
<1>1. Typed(e) /\ Typed(u) /\ Owned(u) BY UnloadTyped, ResumeTyped
<1>2. /\ e.buffer = << >> /\ e.recorders = 0 /\ e.owned = FALSE /\ e.wakeArmed = FALSE
      /\ e.filed = s.filed
  BY FieldNames DEF Unload, Typed
<1> HIDE DEF e
<1>3. /\ u.page = "live" /\ u.stopped = FALSE /\ u.wakeArmed = FALSE
      /\ u.buffer = << >> /\ u.recorders = 0 /\ u.owned = FALSE /\ u.filed = s.filed
  BY <1>1, <1>2, FieldNames DEF Resume, e, Typed
<1> HIDE DEF u
<1>4. Ready(u) BY <1>3 DEF Ready, Steady, Running, Live, Resynced, FiledOwn
<1>5. SameRecording(u, b) BY <1>1, FieldNames DEF Typed, SameRecording, SameRecorder
<1>6. Ready(b) /\ Typed(b) /\ Owned(b) BY <1>1, <1>4, <1>5, SameSteady, StoredTyped
<1> HIDE DEF b
<1>7. Steady(r) /\ Typed(r) BY <1>6, StartRecordingSteady, StartRecordingTyped
<1> HIDE DEF r
<1>8. Steady(TrackPage(r)) BY <1>7, TrackPageSame, SameSteady
<1> QED BY <1>8 DEF Bootstrap, r, b, u

\* A document that goes away takes its recorder and its buffer along.
LEMMA UnloadSteady ==
  ASSUME NEW s, Typed(s), FiledOwn(s)
  PROVE  Steady(Unload(s))
<1> DEFINE t == Unload(s)
<1>1. /\ t.page = "none" /\ t.buffer = << >> /\ t.recorders = 0 /\ t.owned = FALSE
      /\ t.wakeArmed = FALSE /\ t.filed = s.filed
  BY FieldNames DEF Unload, Typed
<1> HIDE DEF t
<1>2. Steady(t) BY <1>1 DEF Steady, Running, Live, Woken, Resynced, FiledOwn
<1> QED BY <1>2 DEF t

LEMMA OlderSame ==
  ASSUME NEW s, Typed(s) PROVE SameRecording(s, Older(s))
BY FieldNames DEF Older, Typed, SameRecording, SameRecorder

\* The invariant behind the recording properties, of frozen pages too.
RecordInv == Steady(tab) /\ \A m \in cached : Steady(m)

LEMMA RecordInit == Init => RecordInv
BY DEF Init, InitTab, RecordInv, Steady, Running, Live, Woken, Resynced, FiledOwn

LEMMA RecordNext == TypeInv /\ RecordInv /\ [Next]_vars => RecordInv'
<1> SUFFICES ASSUME TypeInv, RecordInv, [Next]_vars PROVE RecordInv'
  OBVIOUS
<1>a. Typed(tab) /\ Owned(tab) /\ Steady(tab)
  BY DEF TypeInv, RecordInv
<1>m. \A m \in cached : Typed(m) /\ Owned(m) /\ Steady(m)
  BY DEF TypeInv, RecordInv
<1>n. tab.recorders \in Nat BY <1>a DEF Typed, Numbers
<1>c. ASSUME UNCHANGED cached, Steady(tab') PROVE RecordInv'
  BY <1>c, <1>m DEF RecordInv
<1>f. Steady(FlushLogs(Flush(tab))) /\ Typed(FlushLogs(Flush(tab)))
      /\ Owned(FlushLogs(Flush(tab)))
  BY <1>a, FlushSteady, FlushTyped, FlushLogsTyped
<1>1. CASE LoadPage
  <2>1. PICK v \in BOOLEAN : tab' = Bootstrap(Resume(tab, v))
    BY <1>1 DEF LoadPage
  <2>2. Steady(tab') BY <1>a, <2>1, BootstrapSteady
  <2> QED BY <1>c, <1>1, <2>2 DEF LoadPage
<1>2. CASE Interact
  <2> DEFINE s == IF tab.recorders > 0 THEN EmitInteraction(tab, tab.recorders) ELSE tab
  <2>1. Typed(s) /\ Owned(s) BY <1>a, <1>n, EmitInteractionTyped
  <2>2. tab.recorders > 0 /\ tab.splits = 0 => Running(tab)
    BY <1>a DEF Steady
  <2>3. Steady(s) BY <1>a, <1>n, <2>2, EmitInteractionSteady
  <2>4. tab' = IF s.wakeArmed THEN NewSession(s, FALSE) ELSE s
    BY <1>2 DEF Interact
  <2> HIDE DEF s
  <2>5. s.wakeArmed => Live(s) /\ s.stopped BY <2>3 DEF Steady, Woken
  <2>6. Steady(tab') BY <2>1, <2>3, <2>4, <2>5, NewSessionSteady
  <2> QED BY <1>c, <1>2, <2>6 DEF Interact
<1>3. CASE PageMutates
  <2>1. tab.recorders > 0 /\ tab.splits = 0 => Running(tab)
    BY <1>a DEF Steady
  <2>2. Steady(tab')
    BY <1>3, <1>a, <1>n, <2>1, EmitPageEventSteady DEF PageMutates
  <2> QED BY <1>c, <1>3, <2>2 DEF PageMutates
<1>4. CASE Resync
  <2> DEFINE s == [tab EXCEPT !.resync = FALSE]
             p == Push(s, 1)
  <2>1. Typed(s) /\ Owned(s) BY <1>a, ResyncedTyped
  <2>2. /\ s.page = tab.page /\ s.stopped = tab.stopped /\ s.wakeArmed = tab.wakeArmed
        /\ s.sid = tab.sid /\ s.recorders = tab.recorders /\ s.owned = tab.owned
        /\ s.splits = tab.splits /\ s.buffer = tab.buffer /\ s.filed = tab.filed
    BY <1>a, FieldNames DEF Typed
  <2>3. tab' = IF s.owned THEN EmitPageEvent(s, 1, TRUE) ELSE s
    BY <1>4 DEF Resync
  <2> HIDE DEF s
  <2>4. CASE ~s.owned
    <3>1. Steady(s)
      BY <1>a, <2>2, <2>4 DEF Steady, Running, Live, Woken, Resynced, FiledOwn
    <3> QED BY <1>c, <1>4, <2>3, <2>4, <3>1 DEF Resync
  <2>5. CASE s.owned
    <3>1. SameRecorder(s, p) /\ p.filed = s.filed /\ Typed(p) BY <2>1, PushSame, PushTyped
    <3>2. s.splits = 0 => Running(s)
      BY <1>a, <2>2, <2>5 DEF Steady, Running, Live
    <3>3. s.splits = 0 => \A i \in DOMAIN p.buffer : p.buffer[i] = s.sid
      BY <1>a, <2>1, <2>2, <3>2, PushKeeps DEF Steady, Running
    <3> HIDE DEF p
    <3>4. \/ tab' = [s EXCEPT !.skipping = TRUE, !.stale = TRUE]
          \/ tab' = [p EXCEPT !.stale = @ /\ ~TRUE]
      BY <2>3, <2>5 DEF EmitPageEvent, p
    <3>5. /\ tab'.page = s.page /\ tab'.stopped = s.stopped /\ tab'.wakeArmed = s.wakeArmed
          /\ tab'.sid = s.sid /\ tab'.recorders = s.recorders /\ tab'.owned = s.owned
          /\ tab'.splits = s.splits /\ tab'.buffer \in {s.buffer, p.buffer}
          /\ tab'.filed = s.filed /\ (tab'.skipping \/ ~tab'.stale)
      BY <2>1, <3>1, <3>4, FieldNames, ZenonT(60) DEF Typed, SameRecorder
    <3>6. Steady(tab')
      BY <1>a, <2>2, <3>2, <3>3, <3>5 DEF Steady, Running, Live, Woken, Resynced, FiledOwn
    <3> QED BY <1>c, <1>4, <3>6 DEF Resync
  <2> QED BY <2>4, <2>5
<1>5. CASE CaptureLog
  <2>1. SameRecording(tab, tab')
    BY <1>5, <1>a, FieldNames DEF CaptureLog, Typed, SameRecording, SameRecorder
  <2> QED BY <1>a, <1>c, <1>5, <2>1, SameSteady DEF CaptureLog
<1>6. CASE RouteChange
  BY <1>a, <1>c, <1>6, TrackPageSame, SameSteady DEF RouteChange
<1>7. CASE FlushTimer
  BY <1>c, <1>f, <1>7 DEF FlushTimer
<1>8. CASE Heartbeat
  <2>1. \/ SameRecording(tab, tab')
        \/ tab' = EndSession(tab)
        \/ ~tab.stopped /\ tab' = NewSession(tab, TRUE)
    BY <1>8, <1>a, FieldNames DEF Heartbeat, Typed, SameRecording, SameRecorder
  <2>2. Live(tab) /\ UNCHANGED cached BY <1>8 DEF Heartbeat
  <2> QED BY <1>a, <1>c, <2>1, <2>2, SameSteady, EndSessionSteady, NewSessionSteady
<1>9. CASE Hide
  <2> DEFINE f == FlushLogs(Flush(tab))
  <2>1. Steady(f) /\ Typed(f) BY <1>f
  <2>2. \/ tab' = [tab EXCEPT !.visible = FALSE]
        \/ tab' = [f EXCEPT !.visible = FALSE, !.hideArmed = TRUE, !.hideAge = 0]
    BY <1>9 DEF Hide
  <2> HIDE DEF f
  <2>3. SameRecording(tab, tab') \/ SameRecording(f, tab')
    BY <1>a, <2>1, <2>2, FieldNames DEF Typed, SameRecording, SameRecorder
  <2> QED BY <1>a, <1>c, <1>9, <2>1, <2>3, SameSteady DEF Hide
<1>10. CASE Show
  <2> DEFINE s == [tab EXCEPT !.visible = TRUE]
             t == [s EXCEPT !.hideArmed = FALSE, !.hideAge = 0]
  <2>1. Typed(t) /\ Owned(t) BY <1>a, ShownTyped
  <2>2. SameRecording(tab, s) /\ SameRecording(tab, t)
    BY <1>a, FieldNames DEF Typed, SameRecording, SameRecorder
  <2>3. tab' = s \/ tab' = t \/ (Live(s) /\ t.stopped /\ tab' = NewSession(t, FALSE))
    BY <1>10 DEF Show
  <2> HIDE DEF s, t
  <2>4. Steady(s) /\ Steady(t) BY <1>a, <2>2, SameSteady
  <2>5. Live(s) => Live(t) BY <2>2 DEF SameRecording, SameRecorder, Live
  <2> QED BY <1>c, <1>10, <2>1, <2>3, <2>4, <2>5, NewSessionSteady DEF Show
<1>11. CASE HideTimer
  <2> DEFINE s == [tab EXCEPT !.hideArmed = FALSE, !.hideAge = 0]
  <2>1. Typed(s) /\ Owned(s) BY <1>a, DisarmedTyped
  <2>2. SameRecording(tab, s)
    BY <1>a, FieldNames DEF Typed, SameRecording, SameRecorder
  <2>3. tab' = EndSession(s) BY <1>11 DEF HideTimer
  <2> HIDE DEF s
  <2>4. Steady(tab') BY <1>a, <2>1, <2>2, <2>3, SameSteady, EndSessionSteady
  <2> QED BY <1>c, <1>11, <2>4 DEF HideTimer
<1>12. CASE Shutdown
  <2> DEFINE f == FlushLogs(Flush(tab))
             e == EndSession(tab)
             s == IF tab.stopped THEN StopRecording(f) ELSE e
  <2>1. /\ Typed(f) /\ Owned(f) /\ Steady(f) /\ SameRecorder(tab, f) /\ f.buffer = << >>
        /\ Typed(e) /\ Owned(e) /\ Steady(e)
    BY <1>a, <1>f, FlushSteady, EndSessionTyped, EndSessionSteady
  <2>2. ~tab.stopped => e.stopped
    <3>1. ~tab.stopped => Running(tab) BY <1>12 DEF Shutdown, Running, Live
    <3> DEFINE u == [tab EXCEPT !.stopped = TRUE]
               v == StopRecording(FlushLogs(Flush(u)))
    <3>2. Typed(u) /\ u.stopped BY <1>a, StoppedTyped, FieldNames DEF Typed
    <3>3. Owned(u) BY <1>a, StoppedTyped
    <3> HIDE DEF u
    <3>4. Typed(Flush(u)) /\ Owned(Flush(u)) /\ Flush(u).stopped
      BY <3>2, <3>3, FlushTyped, FlushFiles DEF SameRecorder
    <3>5. /\ Typed(FlushLogs(Flush(u))) /\ Owned(FlushLogs(Flush(u)))
          /\ FlushLogs(Flush(u)).stopped
      BY <3>4, FlushLogsTyped, FlushLogsSame DEF SameRecording, SameRecorder
    <3>6. Typed(v) /\ v.stopped
      BY <3>5, StopRecordingTyped, FieldNames DEF StopRecording, Typed
    <3> HIDE DEF v
    <3>7. ~tab.stopped => e = [v EXCEPT !.wakeArmed = TRUE]
      BY <3>1 DEF EndSession, v, u
    <3> HIDE DEF e
    <3> QED BY <3>6, <3>7, FieldNames DEF Typed
  <2> HIDE DEF e, f
  <2>3. /\ Typed(s) /\ FiledOwn(s) /\ (~s.owned \/ Resynced(s))
        /\ s.splits = 0 => s.recorders = 0 /\ ~s.owned /\ s.buffer = << >>
    <3>1. CASE tab.stopped
      <4>1. Typed(s) BY <2>1, <3>1, StopRecordingTyped
      <4>2. /\ s.owned = FALSE /\ s.filed = f.filed /\ s.splits = f.splits
            /\ s.buffer = f.buffer
            /\ s.recorders = IF f.owned THEN f.recorders - 1 ELSE f.recorders
        BY <2>1, <3>1, FieldNames DEF StopRecording, Typed
      <4>3. f.recorders \in Nat BY <2>1 DEF Typed, Numbers
      <4>4. ~Running(f) BY <2>1, <3>1 DEF SameRecorder, Running
      <4>5. f.splits = 0 => f.recorders = 0 /\ ~f.owned
        BY <2>1, <4>3, <4>4 DEF Steady
      <4> QED BY <2>1, <4>1, <4>2, <4>5 DEF Steady, FiledOwn
    <3>2. CASE ~tab.stopped
      <4>1. s = e /\ ~Running(e) BY <2>2, <3>2 DEF Running
      <4> QED BY <2>1, <4>1 DEF Steady
    <3> QED BY <3>1, <3>2
  <2> DEFINE t == [s EXCEPT !.page = "disposed", !.stopped = TRUE, !.wakeArmed = FALSE,
                            !.hideArmed = FALSE, !.hideAge = 0]
  <2>4. tab' = t /\ UNCHANGED cached BY <1>12 DEF Shutdown, e, f
  <2> HIDE DEF s
  <2>5. /\ t.page = "disposed" /\ t.wakeArmed = FALSE /\ t.recorders = s.recorders
        /\ t.owned = s.owned /\ t.skipping = s.skipping /\ t.resync = s.resync
        /\ t.stale = s.stale /\ t.splits = s.splits /\ t.buffer = s.buffer
        /\ t.filed = s.filed
    BY <2>3, FieldNames DEF Typed
  <2> HIDE DEF t
  <2>6. Steady(t) BY <2>3, <2>5 DEF Steady, Running, Live, Woken, Resynced, FiledOwn
  <2> QED BY <1>c, <2>4, <2>6
<1>13. CASE Navigate
  <2>1. tab' = Unload(tab) \/ tab' = Unload(FlushLogs(Flush(tab)))
    BY <1>13 DEF Navigate
  <2>2. Steady(tab') BY <1>a, <1>f, <2>1, UnloadSteady DEF Steady
  <2> QED BY <1>c, <1>13, <2>2 DEF Navigate
<1>14. CASE Discard
  <2>1. Steady(tab') BY <1>14, <1>a, UnloadSteady DEF Discard, Steady
  <2> QED BY <1>c, <1>14, <2>1 DEF Discard
<1>15. CASE Freeze
  <2>1. tab' = Unload(FlushLogs(Flush(tab))) /\ cached' = {FlushLogs(Flush(tab))}
    BY <1>15 DEF Freeze
  <2>2. Steady(tab') BY <1>f, <2>1, UnloadSteady DEF Steady
  <2> QED BY <1>f, <2>1, <2>2 DEF RecordInv
<1>16. CASE Restore
  <2> DEFINE r(m) == [m EXCEPT
                 !.stSid = tab.stSid, !.stAge = tab.stAge, !.stSeq = tab.stSeq,
                 !.stLogSeq = tab.stLogSeq, !.stPage = tab.stPage,
                 !.stActive = tab.stActive, !.minted = tab.minted,
                 !.used = tab.used, !.clash = tab.clash, !.filed = tab.filed]
  <2>1. PICK m \in cached : tab' = r(m)
    BY <1>16 DEF Restore
  <2>2. Typed(m) /\ Steady(m) BY <1>m
  <2>3. SameRecorder(m, tab') /\ tab'.buffer = m.buffer /\ tab'.filed = tab.filed
    BY <2>1, <2>2, FieldNames DEF Typed, SameRecorder
  <2>4. Steady(tab')
    BY <1>a, <2>2, <2>3 DEF Steady, SameRecorder, Running, Live, Woken, Resynced, FiledOwn
  <2>5. cached' = {} BY <1>16 DEF Restore
  <2> QED BY <2>4, <2>5 DEF RecordInv
<1>17. CASE Tick
  <2>1. tab' = Older(tab) /\ cached' = {Older(m) : m \in cached}
    BY <1>17 DEF Tick
  <2> QED BY <1>a, <1>m, <2>1, OlderSame, SameSteady DEF RecordInv
<1>18. CASE UNCHANGED vars
  BY <1>18 DEF vars, RecordInv
<1> QED
  BY <1>1, <1>2, <1>3, <1>4, <1>5, <1>6, <1>7, <1>8, <1>9, <1>10, <1>11, <1>12,
     <1>13, <1>14, <1>15, <1>16, <1>17, <1>18 DEF Next

LEMMA RecordAlways == Spec => []RecordInv
<1>1. Init => TypeInv /\ RecordInv BY TypeInit, RecordInit
<1>2. TypeInv /\ RecordInv /\ [Next]_vars => (TypeInv /\ RecordInv)'
  BY TypeNext, RecordNext
<1> QED BY <1>1, <1>2, PTL DEF Spec

\* On a page that has not been through a 2h split flush() ships every event
\* under the visit it was recorded in, with or without a back/forward cache.
THEOREM EventsFiledRight == Spec => []FiledRight
<1>1. RecordInv => FiledRight BY DEF RecordInv, Steady, FiledOwn, FiledRight
<1> QED BY <1>1, RecordAlways, PTL

\* startRecording() and stopRecording keep to one recorder until newSession()
\* splits a visit that runs, and endSession() leaves none.
THEOREM RecorderIsOne == Spec => []OneRecorderUntilSplit
<1>1. RecordInv => OneRecorderUntilSplit BY DEF RecordInv, Steady, OneRecorderUntilSplit
<1> QED BY <1>1, RecordAlways, PTL

\* emit() never leaves a recorder running over mutations it has discarded
\* without a full snapshot queued.
THEOREM SkippedIsResynced == Spec => []ResyncAfterSkip
<1>1. RecordInv => ResyncAfterSkip BY DEF RecordInv, Steady, Resynced, ResyncAfterSkip
<1> QED BY <1>1, RecordAlways, PTL
=============================================================================
