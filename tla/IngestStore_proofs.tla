-------------------------- MODULE IngestStore_proofs --------------------------
(***************************************************************************)
(* Proofs about IngestStore, for every number of sessions, batches and     *)
(* retries: its type invariant, that an acknowledged batch is stored, that *)
(* the endpoint implements UploadLog, that closed pages stay closed, that  *)
(* events are counted exactly, and that a batch is announced once.         *)
(***************************************************************************)
EXTENDS IngestStore, FiniteSetTheorems, TLAPS

PCs == {"arrive", "check", "recheck", "ensure", "owner", "write", "close", "touch", "reply"}

\* Batches that have been sent belong to a tab, and only they travel.
Sent == /\ \A b \in 1..count : sent[b].sid \in Sessions
        /\ \A r \in wire : r.b \in 1..count

TypeInv == TypeOK /\ Sent

-----------------------------------------------------------------------------
\* Helpers: what the request operators leave on the wire.

\* A request that moves on or is replaced keeps the wire typed and sent.
LEMMA UpdateTyped ==
  ASSUME TypeInv, NEW r \in wire, NEW s \in Requests, s.b = r.b, Update(r, s)
  PROVE  wire' \in SUBSET Requests /\ \A q \in wire' : q.b \in 1..count
BY DEF TypeInv, TypeOK, Sent, Update

LEMMA GotoTyped ==
  ASSUME TypeInv, NEW r \in wire, NEW pc \in PCs, Goto(r, pc)
  PROVE  wire' \in SUBSET Requests /\ \A q \in wire' : q.b \in 1..count
<1>1. [r EXCEPT !.pc = pc] \in Requests /\ [r EXCEPT !.pc = pc].b = r.b
  BY DEF TypeInv, TypeOK, Requests, PCs
<1> QED BY <1>1, UpdateTyped DEF Goto

LEMMA AnswerTyped ==
  ASSUME TypeInv, NEW r \in wire, NEW status \in Nat, Answer(r, status)
  PROVE  wire' \in SUBSET Requests /\ \A q \in wire' : q.b \in 1..count
<1> DEFINE s == [r EXCEPT !.pc = "reply", !.at = 0, !.fresh = FALSE, !.status = status]
<1>1. s \in Requests /\ s.b = r.b
  BY DEF TypeInv, TypeOK, Requests
<1>2. CASE Awaited(r)
  <2>1. Update(r, s) BY <1>2 DEF Answer
  <2> HIDE DEF s
  <2> QED BY <1>1, <2>1, UpdateTyped
<1>3. CASE ~Awaited(r)
  BY <1>3 DEF Answer, TypeInv, TypeOK, Sent
<1> QED BY <1>2, <1>3

\* A response is no request that has written its row.
LEMMA AnswerForgets ==
  ASSUME TypeInv, NEW r \in wire, NEW status \in Nat, Answer(r, status)
  PROVE  \A q \in wire' : q \in wire \/ q.pc = "reply"
<1> DEFINE s == [r EXCEPT !.pc = "reply", !.at = 0, !.fresh = FALSE, !.status = status]
<1>1. s.pc = "reply"
  BY DEF TypeInv, TypeOK, Requests
<1>2. wire' = (wire \ {r}) \cup {s} \/ wire' = wire \ {r}
  BY DEF Answer, Update
<1> HIDE DEF s
<1> QED BY <1>1, <1>2

LEMMA GotoMoves ==
  ASSUME TypeInv, NEW r \in wire, NEW pc \in PCs, Goto(r, pc)
  PROVE  \A q \in wire' : q \in wire \/ (q.b = r.b /\ q.pc = pc)
BY DEF Goto, Update, TypeInv, TypeOK, Requests

LEMMA ScheduleRetryTyped ==
  ASSUME TypeInv, NEW b \in Ids, ScheduleRetry(b)
  PROVE  client' \in [Ids -> [att : Nat, st : {"sent", "timer", "done"}]]
BY DEF ScheduleRetry, TypeInv, TypeOK, Done

LEMMA SeenTyped ==
  ASSUME TypeInv, NEW r \in wire, NEW time \in Nat
  PROVE  Seen(r, time) \in [Sessions -> [exists : BOOLEAN, count : Nat, seen : Nat, user : Nat]]
BY SMTT(30) DEF Seen, TypeInv, TypeOK, Sent, Sid

LEMMA SentIsId == ASSUME TypeInv, NEW b \in 1..count PROVE b \in Ids
BY IngestAssumption DEF TypeInv, TypeOK, Ids

LEMMA SomeIds ==
  ASSUME NEW S, S \subseteq Ids
  PROVE  Cardinality(S) \in Nat
<1>1. IsFiniteSet(Ids) BY FS_Interval, IngestAssumption DEF Ids
<1> QED BY <1>1, FS_Subset, FS_CardinalityType

-----------------------------------------------------------------------------
\* Type correctness.
LEMMA InitType == Init => TypeInv
BY IngestAssumption DEF Init, TypeInv, TypeOK, Sent, Batch, NoBatch, NoSession, Done, Ids, Kinds

LEMMA StepType == TypeInv /\ [Next]_vars => TypeInv'
<1> SUFFICES ASSUME TypeInv, [Next]_vars PROVE TypeInv'
  OBVIOUS
<1>a. TypeOK /\ Sent BY DEF TypeInv
<1> USE DEF tracker, tables, ghosts
<1>1. CASE Send
  <2>1. PICK s \in Sessions, kind \in SentKinds, named \in BOOLEAN, beacon \in BOOLEAN :
          SendBatch(s, kind, named, beacon)
    BY <1>1 DEF Send
  <2> DEFINE batch == [kind |-> kind, sid |-> s, n |-> SentBefore(s, kind), named |-> named]
  <2>2. SentBefore(s, kind) \in Nat
    <3>1. {c \in 1..count : sent[c].sid = s /\ sent[c].kind = kind} \subseteq Ids
      BY SentIsId
    <3> QED BY <3>1, SomeIds DEF SentBefore
  <2>3. count + 1 \in Ids /\ count \in Nat
    BY <1>1, <1>a, IngestAssumption DEF Send, TypeOK, Ids
  <2>4. count' = count + 1 /\ count' \in 0..MaxBatches
    BY <1>1, <2>3, IngestAssumption DEF Ids, Send
  <2>5. batch \in Batch /\ batch.sid = s
    BY <2>2, IngestAssumption DEF Batch
  <2>6. /\ sent' = [sent EXCEPT ![count + 1] = batch]
        /\ wire' = wire \cup {Request(count + 1, 0)}
    BY <2>1 DEF SendBatch
  <2> HIDE DEF batch
  <2>7. sent' \in [Ids -> Batch]
    BY <2>3, <2>5, <2>6, <1>a DEF TypeOK
  <2>8. client' \in [Ids -> [att : Nat, st : {"sent", "timer", "done"}]]
    BY <2>1, <2>3, <1>a DEF TypeOK, Done, SendBatch
  <2>9. Request(count + 1, 0) \in Requests /\ Request(count + 1, 0).b = count + 1
    BY <2>3 DEF Request, Requests
  <2>10. wire' \in SUBSET Requests
    BY <2>6, <2>9, <1>a DEF TypeOK
  <2>11. Sent'
    <3>1. \A b \in 1..count' : b = count + 1 \/ b \in 1..count
      BY <2>4, <2>3
    <3>2. \A b \in 1..count' : sent'[b].sid \in Sessions
      BY <3>1, <2>3, <2>5, <2>6, <1>a, SentIsId DEF Sent, TypeOK
    <3>3. \A r \in wire' : r.b \in 1..count'
      BY <2>4, <2>6, <2>3, <2>9, <1>a DEF Sent
    <3> QED BY <3>2, <3>3 DEF Sent
  <2> QED BY <1>1, <2>4, <2>7, <2>8, <2>10, <2>11, <1>a DEF Send, TypeInv, TypeOK
<1>2. CASE RetryTimer
  <2>1. PICK b \in 1..count :
          /\ client' = [client EXCEPT ![b] = [att |-> client[b].att + 1, st |-> "sent"]]
          /\ wire' = wire \cup {Request(b, client[b].att + 1)}
    BY <1>2 DEF RetryTimer
  <2>2. b \in Ids /\ client[b].att \in Nat
    BY <1>a, SentIsId DEF TypeOK
  <2>3. Request(b, client[b].att + 1) \in Requests /\ Request(b, client[b].att + 1).b = b
    BY <2>2 DEF Request, Requests
  <2> QED BY <1>2, <2>1, <2>2, <2>3, <1>a DEF RetryTimer, TypeInv, TypeOK, Sent
<1>3. CASE Fault
  <2>1. PICK b \in 1..count : ScheduleRetry(b) /\ wire' = {r \in wire : ~(r.b = b /\ r.pc = "reply")}
    BY <1>3 DEF Fault
  <2>2. client' \in [Ids -> [att : Nat, st : {"sent", "timer", "done"}]]
    BY <2>1, SentIsId, ScheduleRetryTyped
  <2> QED BY <1>3, <2>1, <2>2, <1>a DEF Fault, TypeInv, TypeOK, Sent
<1>4. CASE Receive
  <2>1. PICK r \in wire :
          /\ wire' = wire \ {r}
          /\ IF Retryable(r.status) THEN ScheduleRetry(r.b)
                                    ELSE client' = [client EXCEPT ![r.b] = Done]
    BY <1>4 DEF Receive
  <2>2. r.b \in Ids
    BY <1>a DEF TypeOK, Requests
  <2>3. client' \in [Ids -> [att : Nat, st : {"sent", "timer", "done"}]]
    <3>1. CASE Retryable(r.status) BY <3>1, <2>1, <2>2, ScheduleRetryTyped
    <3>2. CASE ~Retryable(r.status) BY <3>2, <2>1, <1>a DEF TypeOK, Done
    <3> QED BY <3>1, <3>2
  <2> QED BY <1>4, <2>1, <2>3, <1>a DEF Receive, TypeInv, TypeOK, Sent
<1>5. CASE EndVisit
  BY <1>5, <1>a DEF EndVisit, TypeInv, TypeOK, Sent
<1>6. CASE Leave
  BY <1>6, <1>a DEF Leave, TypeInv, TypeOK, Sent, Done
<1>7. CASE Lose
  BY <1>7, <1>a DEF Lose, TypeInv, TypeOK, Sent
<1>8. CASE Arrive
  <2>1. PICK r \in wire : \/ \E status \in Nat : Answer(r, status)
                          \/ \E pc \in PCs : Goto(r, pc)
    BY <1>8 DEF Arrive, PCs
  <2>2. wire' \in SUBSET Requests /\ \A q \in wire' : q.b \in 1..count
    BY <2>1, AnswerTyped, GotoTyped
  <2> QED BY <1>8, <2>2, <1>a DEF Arrive, TypeInv, TypeOK, Sent
<1>9. CASE Check
  <2>1. PICK r \in wire : \E pc \in PCs : Goto(r, pc)
    BY <1>9 DEF Check, PCs
  <2>2. wire' \in SUBSET Requests /\ \A q \in wire' : q.b \in 1..count
    BY <2>1, GotoTyped
  <2> QED BY <1>9, <2>2, <1>a DEF Check, TypeInv, TypeOK, Sent
<1>10. CASE Recheck
  <2>1. PICK r \in wire : Goto(r, "ensure") \/ Answer(r, 204)
    BY <1>10 DEF Recheck
  <2>2. wire' \in SUBSET Requests /\ \A q \in wire' : q.b \in 1..count
    BY <2>1, AnswerTyped, GotoTyped DEF PCs
  <2> QED BY <1>10, <2>2, <1>a DEF Recheck, TypeInv, TypeOK, Sent
<1>11. CASE Ensure
  <2>1. PICK r \in wire :
          /\ Update(r, [r EXCEPT !.pc = "owner", !.at = now])
          /\ sessions' = [sessions EXCEPT ![Sid(r)] =
                      IF @.exists THEN @ ELSE [NoSession EXCEPT !.exists = TRUE, !.seen = now]]
    BY <1>11 DEF Ensure
  <2>2. [r EXCEPT !.pc = "owner", !.at = now] \in Requests
        /\ [r EXCEPT !.pc = "owner", !.at = now].b = r.b
    BY <1>a DEF TypeOK, Requests
  <2>3. wire' \in SUBSET Requests /\ \A q \in wire' : q.b \in 1..count
    BY <2>1, <2>2, UpdateTyped
  <2>4. sessions' \in [Sessions -> [exists : BOOLEAN, count : Nat, seen : Nat, user : Nat]]
    BY <2>1, <1>a DEF TypeOK, NoSession
  <2> QED BY <1>11, <2>3, <2>4, <1>a DEF Ensure, TypeInv, TypeOK, Sent
<1>12. CASE Owner
  <2>1. PICK r \in wire : Goto(r, "write") \/ Answer(r, 400)
    BY <1>12 DEF Owner
  <2>2. wire' \in SUBSET Requests /\ \A q \in wire' : q.b \in 1..count
    BY <2>1, AnswerTyped, GotoTyped DEF PCs
  <2> QED BY <1>12, <2>2, <1>a DEF Owner, TypeInv, TypeOK, Sent
<1>13. CASE WriteRow
  <2>1. PICK r \in wire :
          \/ Answer(r, 500) /\ UNCHANGED << rows, left >>
          \/ /\ rows' = [rows EXCEPT ![r.b] = 1] /\ UNCHANGED left
             /\ Update(r, [r EXCEPT !.pc = IF Kind(r) = "page" /\ sent[r.b].n > 0
                                        THEN "close" ELSE "touch",
                                 !.fresh = Kind(r) = "custom" /\ rows[r.b] = 0])
    BY <1>13 DEF WriteRow
  <2> DEFINE s == [r EXCEPT !.pc = IF Kind(r) = "page" /\ sent[r.b].n > 0
                                        THEN "close" ELSE "touch",
                            !.fresh = Kind(r) = "custom" /\ rows[r.b] = 0]
  <2>2. s \in Requests /\ s.b = r.b
    <3>1. (Kind(r) = "custom" /\ rows[r.b] = 0) \in BOOLEAN OBVIOUS
    <3> QED BY <3>1, <1>a DEF TypeOK, Requests
  <2>3. Update(r, s) \/ Answer(r, 500) BY <2>1
  <2> HIDE DEF s
  <2>4. wire' \in SUBSET Requests /\ \A q \in wire' : q.b \in 1..count
    BY <2>2, <2>3, UpdateTyped, AnswerTyped
  <2>5. rows' \in [Ids -> Nat] /\ left' \in [Ids -> Nat]
    BY <2>1, <1>a DEF TypeOK
  <2> QED BY <1>13, <2>4, <2>5, <1>a DEF WriteRow, TypeInv, TypeOK, Sent
<1>14. CASE WriteLogs
  <2>1. PICK r \in wire :
          \/ Answer(r, 500) /\ UNCHANGED << sessions, rows, ghosts >>
          \/ /\ rows' = [rows EXCEPT ![r.b] = 1] /\ sessions' = Seen(r, r.at)
             /\ Accept(r, rows[r.b] = 0)
    BY <1>14 DEF WriteLogs
  <2>2. wire' \in SUBSET Requests /\ \A q \in wire' : q.b \in 1..count
    BY <2>1, AnswerTyped DEF Accept
  <2>3. r.b \in Ids /\ r.at \in Nat
    BY <1>a DEF TypeOK, Requests
  <2>4. sessions' \in [Sessions -> [exists : BOOLEAN, count : Nat, seen : Nat, user : Nat]]
    BY <2>1, <2>3, <1>a, SeenTyped DEF TypeOK
  <2>5. rows' \in [Ids -> Nat]
    BY <2>1, <2>3, <1>a DEF TypeOK
  <2>6. notified' \in [Ids -> Nat]
    <3>1. notified' \in {notified, [notified EXCEPT ![r.b] = @ + 1], [notified EXCEPT ![r.b] = @]}
      BY <2>1 DEF Accept
    <3> QED BY <3>1, <2>3, <1>a DEF TypeOK
  <2>7. acked' \in SUBSET Ids /\ erased' \in SUBSET Ids /\ torn' \in SUBSET Sessions
    BY <2>1, <2>3, <1>a DEF TypeOK, Accept
  <2> QED BY <2>6, <2>7, <1>14, <2>2, <2>4, <2>5, <1>a DEF WriteLogs, TypeInv, TypeOK, Sent
<1>15. CASE WriteFeedback
  <2>1. PICK r \in wire : rows' = [rows EXCEPT ![r.b] = @ + 1] /\ Accept(r, FALSE)
    BY <1>15 DEF WriteFeedback
  <2>2. wire' \in SUBSET Requests /\ \A q \in wire' : q.b \in 1..count
    BY <2>1, AnswerTyped DEF Accept
  <2>3. r.b \in Ids
    BY <1>a DEF TypeOK, Requests
  <2>4. rows' \in [Ids -> Nat] /\ acked' \in SUBSET Ids /\ notified' \in [Ids -> Nat]
        /\ erased' \in SUBSET Ids /\ torn' \in SUBSET Sessions
    BY <2>1, <2>3, <1>a DEF TypeOK, Accept
  <2> QED BY <1>15, <2>2, <2>4, <1>a DEF WriteFeedback, TypeInv, TypeOK, Sent
<1>16. CASE WriteSession
  <2>1. PICK r \in wire :
          /\ sessions' = IF sessions[Sid(r)].exists /\ sent[r.b].named
                         THEN [Seen(r, r.at) EXCEPT ![Sid(r)].user = r.b]
                         ELSE Seen(r, r.at)
          /\ Answer(r, 200)
    BY <1>16 DEF WriteSession
  <2>2. wire' \in SUBSET Requests /\ \A q \in wire' : q.b \in 1..count
    BY <2>1, AnswerTyped
  <2>3. r.b \in Nat /\ r.at \in Nat
    BY <1>a DEF TypeOK, Requests, Ids
  <2>4. Seen(r, r.at) \in [Sessions -> [exists : BOOLEAN, count : Nat, seen : Nat, user : Nat]]
    BY <2>3, SeenTyped
  <2>5. sessions' \in [Sessions -> [exists : BOOLEAN, count : Nat, seen : Nat, user : Nat]]
    BY <2>1, <2>3, <2>4
  <2> QED BY <1>16, <2>2, <2>5, <1>a DEF WriteSession, TypeInv, TypeOK, Sent
<1>17. CASE ClosePrevious
  <2>1. PICK r \in wire :
          /\ left' = [c \in Ids |-> IF Before(c, r.b) /\ rows[c] > 0 /\ left[c] = 0
                                    THEN r.b ELSE left[c]]
          /\ Goto(r, "touch")
    BY <1>17 DEF ClosePrevious
  <2>2. wire' \in SUBSET Requests /\ \A q \in wire' : q.b \in 1..count
    BY <2>1, GotoTyped DEF PCs
  <2>3. r.b \in Nat
    BY <1>a DEF TypeOK, Requests, Ids
  <2>4. left' \in [Ids -> Nat]
    BY <2>1, <2>3, <1>a DEF TypeOK
  <2> QED BY <1>17, <2>2, <2>4, <1>a DEF ClosePrevious, TypeInv, TypeOK, Sent
<1>18. CASE TouchEvents
  <2>1. PICK r \in wire :
          /\ sessions' = IF sessions[Sid(r)].exists
                         THEN [Seen(r, r.at) EXCEPT ![Sid(r)].count = Cardinality(EventRows(Sid(r)))]
                         ELSE sessions
          /\ Answer(r, 200)
          /\ acked' = acked \cup {r.b} /\ torn' = torn \ {Sid(r)}
    BY <1>18 DEF TouchEvents
  <2>2. wire' \in SUBSET Requests /\ \A q \in wire' : q.b \in 1..count
    BY <2>1, AnswerTyped
  <2>3. r.b \in Ids /\ r.at \in Nat
    BY <1>a DEF TypeOK, Requests
  <2>4. Seen(r, r.at) \in [Sessions -> [exists : BOOLEAN, count : Nat, seen : Nat, user : Nat]]
    BY <2>3, SeenTyped
  <2>5. Cardinality(EventRows(Sid(r))) \in Nat
    BY SomeIds DEF EventRows
  <2>6. sessions' \in [Sessions -> [exists : BOOLEAN, count : Nat, seen : Nat, user : Nat]]
    BY <2>1, <2>4, <2>5, <1>a DEF TypeOK
  <2> QED BY <1>18, <2>1, <2>2, <2>3, <2>6, <1>a DEF TouchEvents, TypeInv, TypeOK, Sent
<1>19. CASE Touch
  <2>1. PICK r \in wire :
          /\ sessions' = Seen(r, IF Kind(r) = "custom" THEN now ELSE r.at)
          /\ Accept(r, r.fresh)
    BY <1>19 DEF Touch
  <2>2. wire' \in SUBSET Requests /\ \A q \in wire' : q.b \in 1..count
    BY <2>1, AnswerTyped DEF Accept
  <2>3. r.b \in Ids /\ (IF Kind(r) = "custom" THEN now ELSE r.at) \in Nat
    BY <1>a DEF TypeOK, Requests
  <2>4. sessions' \in [Sessions -> [exists : BOOLEAN, count : Nat, seen : Nat, user : Nat]]
    BY <2>1, <2>3, SeenTyped
  <2>5. acked' \in SUBSET Ids /\ notified' \in [Ids -> Nat]
        /\ erased' \in SUBSET Ids /\ torn' \in SUBSET Sessions
    BY <2>1, <2>3, <1>a DEF TypeOK, Accept
  <2> QED BY <1>19, <2>2, <2>4, <2>5, <1>a DEF Touch, TypeInv, TypeOK, Sent
<1>20. CASE StatementFails
  <2>1. PICK r \in wire : /\ Answer(r, 500) \/ Goto(r, "touch")
                          /\ torn' \in {torn, torn \cup {Sid(r)}}
    BY <1>20 DEF StatementFails
  <2>2. wire' \in SUBSET Requests /\ \A q \in wire' : q.b \in 1..count
    BY <2>1, AnswerTyped, GotoTyped DEF PCs
  <2>3. torn' \in SUBSET Sessions
    BY <2>1, <1>a DEF TypeOK, Sent, Sid
  <2> QED BY <1>20, <2>2, <2>3, <1>a DEF StatementFails, TypeInv, TypeOK, Sent
<1>21. CASE Crash
  BY <1>21, <1>a DEF Crash, TypeInv, TypeOK, Sent, Sid
<1>22. ASSUME NEW S \in SUBSET Sessions, EraseSessions(S)
       PROVE  /\ sessions' \in [Sessions -> [exists : BOOLEAN, count : Nat, seen : Nat, user : Nat]]
              /\ rows' \in [Ids -> Nat] /\ left' \in [Ids -> Nat]
              /\ erased' \in SUBSET Ids /\ torn' \in SUBSET Sessions
  BY <1>22, <1>a DEF EraseSessions, TypeOK, NoSession
<1>23. CASE DeleteSession
  <2>1. PICK s \in Sessions : EraseSessions({s})
    BY <1>23 DEF DeleteSession
  <2> QED BY <1>23, <2>1, <1>22, <1>a DEF DeleteSession, TypeInv, TypeOK, Sent
<1>24. CASE SweepSessions
  <2>1. PICK S \in SUBSET Sessions : EraseSessions(S)
    BY <1>24 DEF SweepSessions
  <2> QED BY <1>24, <2>1, <1>22, <1>a DEF SweepSessions, TypeInv, TypeOK, Sent
<1>25. CASE SweepRows
  BY <1>25, <1>a DEF SweepRows, TypeInv, TypeOK, Sent
<1>26. CASE ToggleRecording
  BY <1>26, <1>a DEF ToggleRecording, TypeInv, TypeOK, Sent
<1>27. CASE Tick
  BY <1>27, <1>a DEF Tick, TypeInv, TypeOK, Sent
<1>28. CASE UNCHANGED vars
  BY <1>28, <1>a DEF vars, TypeInv, TypeOK, Sent
<1> QED
  BY <1>1, <1>2, <1>3, <1>4, <1>5, <1>6, <1>7, <1>8, <1>9, <1>10, <1>11, <1>12, <1>13,
     <1>14, <1>15, <1>16, <1>17, <1>18, <1>19, <1>20, <1>21, <1>23, <1>24, <1>25, <1>26,
     <1>27, <1>28 DEF Next

\* Every reachable state is typed.
THEOREM TypeCorrect == Spec => []TypeOK
<1>1. Spec => []TypeInv
  BY InitType, StepType, PTL DEF Spec
<1> QED BY <1>1, PTL DEF TypeInv

-----------------------------------------------------------------------------
\* Acknowledged batches are stored.

\* The rows of b are there, or were deleted after they were written.
Kept(b) == rows[b] > 0 \/ b \in erased

\* The strengthening: a request past its insert has a row to acknowledge.
Written == \A r \in wire : r.pc \in {"close", "touch"} => Kept(r.b)

RowsSent == \A b \in Ids : rows[b] > 0 => b \in 1..count

Safe == TypeInv /\ Written /\ AckedIsStored /\ RowsSent

LEMMA InitSafe == Init => Safe
BY InitType DEF Init, Safe, Written, AckedIsStored, RowsSent, Kept, Ids

\* A step that touches neither the rows nor the acknowledgements, and puts no
\* request on the wire past an insert, keeps the invariant.
LEMMA Aside ==
  ASSUME Safe, [Next]_vars, UNCHANGED << rows, acked, erased >>,
         \A q \in wire' : q \in wire \/ q.pc \notin {"close", "touch"}
                          \/ \E r \in wire : r.b = q.b /\ r.pc \in {"close", "touch"},
         count' >= count
  PROVE  Safe'
<1>1. TypeInv' BY StepType DEF Safe
<1>2. TypeOK /\ TypeOK' BY <1>1 DEF Safe, TypeInv
<1>3. Written' BY DEF Safe, Written, Kept
<1>4. AckedIsStored' BY DEF Safe, AckedIsStored
<1>5. RowsSent'
  BY <1>2, IngestAssumption DEF Safe, RowsSent, TypeOK, Ids
<1> QED BY <1>1, <1>3, <1>4, <1>5 DEF Safe

\* The shape of the steps that write rows: Add of one batch, Erase of some.
Adds(b)   == rows' \in {[rows EXCEPT ![b] = 1], [rows EXCEPT ![b] = @ + 1]} /\ erased' = erased
Erases(S) == /\ S \subseteq {b \in Ids : rows[b] > 0}
             /\ rows' = [b \in Ids |-> IF b \in S THEN 0 ELSE rows[b]]
             /\ erased' = erased \cup S

LEMMA AddsKeeps ==
  ASSUME TypeInv, NEW b \in Ids, Adds(b)
  PROVE  rows'[b] > 0 /\ \A c \in Ids : c # b => rows'[c] = rows[c]
BY DEF Adds, TypeInv, TypeOK

LEMMA Adding ==
  ASSUME Safe, [Next]_vars, NEW r \in wire, Adds(r.b), acked' \in {acked, acked \cup {r.b}},
         \A q \in wire' : q \in wire \/ q.b = r.b \/ q.pc = "reply",
         count' = count
  PROVE  Safe'
<1>1. TypeInv' BY StepType DEF Safe
<1>2. TypeInv /\ TypeOK /\ Sent BY DEF Safe, TypeInv
<1>3. r.b \in Ids /\ r.b \in 1..count BY <1>2 DEF TypeOK, Requests, Sent
<1>4. rows'[r.b] > 0 /\ erased' = erased /\ \A c \in Ids : c # r.b => rows'[c] = rows[c]
  BY <1>2, <1>3, AddsKeeps DEF Adds
<1>5. Written'
  <2>1. \A q \in wire : q.b \in Ids BY <1>2 DEF TypeOK, Requests
  <2> QED BY <1>4, <2>1 DEF Safe, Written, Kept
<1>6. AckedIsStored' BY <1>2, <1>4 DEF Safe, AckedIsStored, TypeOK
<1>7. RowsSent' BY <1>3, <1>4 DEF Safe, RowsSent
<1> QED BY <1>1, <1>5, <1>6, <1>7 DEF Safe

LEMMA Erasing ==
  ASSUME Safe, [Next]_vars, NEW S, Erases(S), UNCHANGED << wire, acked, count >>
  PROVE  Safe'
<1>1. TypeInv' BY StepType DEF Safe
<1>2. TypeOK BY DEF Safe, TypeInv
<1>3. \A b \in Ids : Kept(b) => Kept(b)'
  BY <1>2 DEF Erases, Kept, TypeOK
<1>4. Written'
  <2>1. \A q \in wire : q.b \in Ids BY <1>2 DEF TypeOK, Requests
  <2> QED BY <1>3, <2>1 DEF Safe, Written
<1>5. AckedIsStored' BY <1>2, <1>3 DEF Safe, AckedIsStored, Kept, TypeOK
<1>6. RowsSent' BY <1>2 DEF Safe, RowsSent, Erases, TypeOK
<1> QED BY <1>1, <1>4, <1>5, <1>6 DEF Safe

\* An acknowledgement of a batch that is kept.
LEMMA Acking ==
  ASSUME Safe, [Next]_vars, NEW r \in wire, r.pc = "touch", acked' = acked \cup {r.b},
         UNCHANGED << rows, erased, count >>,
         \A q \in wire' : q \in wire \/ q.pc = "reply"
  PROVE  Safe'
<1>1. TypeInv' BY StepType DEF Safe
<1>2. Kept(r.b) BY DEF Safe, Written
<1>3. Written' BY DEF Safe, Written, Kept
<1>4. AckedIsStored' BY <1>2 DEF Safe, AckedIsStored, Kept
<1>5. RowsSent' BY DEF Safe, RowsSent
<1> QED BY <1>1, <1>3, <1>4, <1>5 DEF Safe

\* Every step but a stutter does one of five things to the upload log.
Asides == /\ UNCHANGED << rows, acked, erased >>
          /\ count' >= count
          /\ \A q \in wire' : q \in wire \/ q.pc \notin {"close", "touch"}
                              \/ \E r \in wire : r.b = q.b /\ r.pc \in {"close", "touch"}
          /\ count' # count => count' = count + 1

Effect ==
  \/ Asides
  \/ /\ count' = count
     /\ \E r \in wire : /\ Adds(r.b) /\ acked' \in {acked, acked \cup {r.b}}
                        /\ \A q \in wire' : q \in wire \/ q.b = r.b \/ q.pc = "reply"
  \/ /\ UNCHANGED << wire, acked, count >>
     /\ \E S \in SUBSET Ids : Erases(S)
  \/ /\ UNCHANGED << rows, erased, count >>
     /\ \E r \in wire : /\ r.pc = "touch" /\ acked' = acked \cup {r.b}
                        /\ \A q \in wire' : q \in wire \/ q.pc = "reply"

LEMMA StepEffect == TypeInv /\ [Next]_vars => Effect
<1> SUFFICES ASSUME TypeInv, [Next]_vars PROVE Effect
  OBVIOUS
<1>a. TypeOK /\ Sent BY DEF TypeInv
<1>c. count \in Nat BY <1>a DEF TypeOK
<1> USE DEF tracker, tables, ghosts
<1>1. CASE Send
  <2>1. PICK s \in Sessions, kind \in SentKinds, named \in BOOLEAN, beacon \in BOOLEAN :
          SendBatch(s, kind, named, beacon)
    BY <1>1 DEF Send
  <2>2. wire' = wire \cup {Request(count + 1, 0)} /\ Request(count + 1, 0).pc = "arrive"
    BY <2>1 DEF SendBatch, Request
  <2>3. Asides BY <1>1, <1>c, <2>2 DEF Send, Asides
  <2> QED BY <2>3 DEF Effect
<1>2. CASE RetryTimer
  <2>1. PICK b \in 1..count : wire' = wire \cup {Request(b, client[b].att + 1)}
    BY <1>2 DEF RetryTimer
  <2>2. Request(b, client[b].att + 1).pc = "arrive" BY DEF Request
  <2>3. Asides BY <1>2, <1>c, <2>1, <2>2 DEF RetryTimer, Asides
  <2> QED BY <2>3 DEF Effect
<1>3. CASE Fault \/ Receive \/ EndVisit \/ Leave \/ Lose \/ Crash
  <2>1. wire' \subseteq wire /\ UNCHANGED << rows, acked, erased, count >>
    BY <1>3 DEF Fault, Receive, EndVisit, Leave, Lose, Crash
  <2> QED BY <2>1, <1>c DEF Effect, Asides
<1>4. CASE ToggleRecording \/ Tick \/ UNCHANGED vars
  <2>1. wire' = wire /\ UNCHANGED << rows, acked, erased, count >>
    BY <1>4 DEF ToggleRecording, Tick, vars
  <2> QED BY <2>1, <1>c DEF Effect, Asides
<1>5. ASSUME NEW r \in wire, UNCHANGED << rows, acked, erased, count >>,
             \/ \E status \in Nat : Answer(r, status)
             \/ \E pc \in PCs \ {"close", "touch"} : Goto(r, pc)
             \/ r.pc = "close" /\ Goto(r, "touch")
      PROVE  Effect
  <2>1. \A q \in wire' : \/ q \in wire \/ q.pc \notin {"close", "touch"}
                         \/ q.b = r.b /\ r.pc = "close"
    BY <1>5, AnswerForgets, GotoMoves DEF PCs
  <2> QED BY <1>5, <1>c, <2>1 DEF Effect, Asides
<1>6. CASE Arrive
  <2>1. PICK r \in wire : \/ \E status \in Nat : Answer(r, status)
                          \/ \E pc \in PCs \ {"close", "touch"} : Goto(r, pc)
    BY <1>6 DEF Arrive, PCs
  <2> QED BY <1>5, <1>6, <2>1 DEF Arrive
<1>7. CASE Check \/ Recheck \/ Owner
  <2>1. PICK r \in wire : \/ \E status \in Nat : Answer(r, status)
                          \/ \E pc \in PCs \ {"close", "touch"} : Goto(r, pc)
    <3>1. CASE Check BY <3>1 DEF Check, PCs
    <3>2. CASE Recheck BY <3>2 DEF Recheck, PCs
    <3>3. CASE Owner BY <3>3 DEF Owner, PCs
    <3> QED BY <1>7, <3>1, <3>2, <3>3
  <2> QED BY <1>5, <1>7, <2>1 DEF Check, Recheck, Owner
<1>8. CASE Ensure
  <2>1. PICK r \in wire : Update(r, [r EXCEPT !.pc = "owner", !.at = now])
    BY <1>8 DEF Ensure
  <2> DEFINE s == [r EXCEPT !.pc = "owner", !.at = now]
  <2>2. s.pc = "owner"
    BY <1>a DEF TypeOK, Requests
  <2>3. wire' = (wire \ {r}) \cup {s} BY <2>1 DEF Update
  <2> HIDE DEF s
  <2>4. UNCHANGED << rows, acked, erased, count >> BY <1>8 DEF Ensure
  <2>5. Asides BY <1>c, <2>2, <2>3, <2>4 DEF Asides
  <2> QED BY <2>5 DEF Effect
<1>9. CASE ClosePrevious
  <2>1. PICK r \in wire : r.pc = "close" /\ Goto(r, "touch")
    BY <1>9 DEF ClosePrevious
  <2> QED BY <1>5, <1>9, <2>1 DEF ClosePrevious
<1>10. CASE StatementFails
  <2>1. PICK r \in wire : Answer(r, 500) \/ (r.pc = "close" /\ Goto(r, "touch"))
    BY <1>10 DEF StatementFails
  <2> QED BY <1>5, <1>10, <2>1 DEF StatementFails
<1>11. CASE WriteSession
  <2>1. PICK r \in wire : Answer(r, 200)
    BY <1>11 DEF WriteSession
  <2> QED BY <1>5, <1>11, <2>1 DEF WriteSession
<1>12. CASE WriteRow
  <2>1. PICK r \in wire :
          \/ Answer(r, 500) /\ UNCHANGED << rows, left >>
          \/ /\ rows' = [rows EXCEPT ![r.b] = 1] /\ UNCHANGED left
             /\ Update(r, [r EXCEPT !.pc = IF Kind(r) = "page" /\ sent[r.b].n > 0
                                        THEN "close" ELSE "touch",
                                 !.fresh = Kind(r) = "custom" /\ rows[r.b] = 0])
    BY <1>12 DEF WriteRow
  <2>2. CASE Answer(r, 500) /\ UNCHANGED << rows, left >>
    BY <1>5, <1>12, <2>2 DEF WriteRow
  <2>3. CASE ~(Answer(r, 500) /\ UNCHANGED << rows, left >>)
    <3> DEFINE s == [r EXCEPT !.pc = IF Kind(r) = "page" /\ sent[r.b].n > 0
                                        THEN "close" ELSE "touch",
                              !.fresh = Kind(r) = "custom" /\ rows[r.b] = 0]
    <3>1. s.b = r.b BY <1>a DEF TypeOK, Requests
    <3>2. Update(r, s) /\ rows' = [rows EXCEPT ![r.b] = 1] BY <2>1, <2>3
    <3> HIDE DEF s
    <3>3. Adds(r.b) /\ acked' = acked /\ count' = count BY <1>12, <3>2 DEF WriteRow, Adds
    <3>4. \A q \in wire' : q \in wire \/ q.b = r.b BY <3>1, <3>2 DEF Update
    <3> QED BY <3>3, <3>4 DEF Effect
  <2> QED BY <2>2, <2>3
<1>13. CASE WriteLogs
  <2>1. PICK r \in wire :
          \/ Answer(r, 500) /\ UNCHANGED << sessions, rows, ghosts >>
          \/ rows' = [rows EXCEPT ![r.b] = 1] /\ Accept(r, rows[r.b] = 0)
    BY <1>13 DEF WriteLogs
  <2>2. CASE Answer(r, 500) /\ UNCHANGED << sessions, rows, ghosts >>
    BY <1>5, <1>13, <2>2 DEF WriteLogs
  <2>3. CASE ~(Answer(r, 500) /\ UNCHANGED << sessions, rows, ghosts >>)
    <3>1. rows' = [rows EXCEPT ![r.b] = 1] /\ Accept(r, rows[r.b] = 0) BY <2>1, <2>3
    <3>2. Adds(r.b) /\ acked' = acked \cup {r.b} /\ Answer(r, 200)
      BY <3>1 DEF Adds, Accept
    <3> QED BY <1>13, <3>2, AnswerForgets DEF WriteLogs, Effect
  <2> QED BY <2>2, <2>3
<1>14. CASE WriteFeedback
  <2>1. PICK r \in wire : rows' = [rows EXCEPT ![r.b] = @ + 1] /\ Accept(r, FALSE)
    BY <1>14 DEF WriteFeedback
  <2>2. Adds(r.b) /\ acked' = acked \cup {r.b} /\ Answer(r, 200)
    BY <2>1 DEF Adds, Accept
  <2> QED BY <1>14, <2>2, AnswerForgets DEF WriteFeedback, Effect
<1>15. CASE TouchEvents \/ Touch
  <2>1. PICK r \in wire : r.pc = "touch" /\ Answer(r, 200) /\ acked' = acked \cup {r.b}
    BY <1>15 DEF TouchEvents, Touch, Accept
  <2>2. UNCHANGED << rows, erased, count >>
    BY <1>15 DEF TouchEvents, Touch, Accept
  <2> QED BY <2>1, <2>2, AnswerForgets DEF Effect
<1>16. CASE DeleteSession \/ SweepSessions
  <2>1. PICK S \in SUBSET Sessions : EraseSessions(S)
    BY <1>16 DEF DeleteSession, SweepSessions
  <2> DEFINE lost == {b \in Ids : sent[b].sid \in S /\ sent[b].kind # "feedback" /\ rows[b] > 0}
  <2>2. lost \in SUBSET Ids OBVIOUS
  <2>3. Erases(lost) BY <2>1 DEF EraseSessions, Erases
  <2>4. UNCHANGED << wire, acked, count >> BY <1>16 DEF DeleteSession, SweepSessions
  <2> HIDE DEF lost
  <2> QED BY <2>2, <2>3, <2>4 DEF Effect
<1>17. CASE SweepRows
  <2>1. PICK S \in SUBSET {b \in Ids : sent[b].kind \in {"logs", "feedback"} /\ rows[b] > 0} :
          /\ rows' = [b \in Ids |-> IF b \in S THEN 0 ELSE rows[b]]
          /\ erased' = erased \cup S
    BY <1>17 DEF SweepRows
  <2>2. S \in SUBSET Ids /\ Erases(S) BY <2>1 DEF Erases
  <2> QED BY <1>17, <2>2 DEF SweepRows, Effect
<1> QED
  BY <1>1, <1>2, <1>3, <1>4, <1>6, <1>7, <1>8, <1>9, <1>10, <1>11, <1>12, <1>13, <1>14,
     <1>15, <1>16, <1>17 DEF Next

LEMMA StepSafe == Safe /\ [Next]_vars => Safe'
<1> SUFFICES ASSUME Safe, [Next]_vars PROVE Safe'
  OBVIOUS
<1>1. Effect BY StepEffect DEF Safe
<1>2. CASE Asides BY <1>2, Aside DEF Asides
<1>3. CASE ~Asides BY <1>1, <1>3, Adding, Erasing, Acking DEF Effect
<1> QED BY <1>2, <1>3

\* What the tracker was told is stored has its row, unless it was deleted.
THEOREM AcknowledgedIsStored == Spec => []AckedIsStored
<1>1. Spec => []Safe
  BY InitSafe, StepSafe, PTL DEF Spec
<1> QED BY <1>1, PTL DEF Safe

\* The endpoint implements the upload log.
THEOREM ImplementsUploadLog == Spec => UploadSpec
<1>1. Spec => []Safe
  BY InitSafe, StepSafe, PTL DEF Spec
<1>2. Init => Upload!Init
  BY IngestAssumption DEF Init, Upload!Init, Ids
<1>3. Safe /\ [Next]_vars => [Upload!Next]_(Upload!vars)
  <2> SUFFICES ASSUME Safe, [Next]_vars PROVE Upload!Next \/ UNCHANGED Upload!vars
    OBVIOUS
  <2>1. Effect /\ TypeOK /\ TypeInv BY StepEffect DEF Safe, TypeInv
  <2>2. CASE Asides
    <3>1. {b \in Ids : rows'[b] > 0} = {b \in Ids : rows[b] > 0} BY <2>2 DEF Asides
    <3>2. CASE count' = count
      BY <2>2, <3>1, <3>2 DEF Asides, Upload!vars
    <3>3. CASE count' # count
      <4>1. count' = count + 1 BY <2>2, <3>3 DEF Asides
      <4>2. count \in Nat /\ count + 1 \in Ids
        <5>1. TypeOK' BY StepType DEF Safe, TypeInv
        <5> QED BY <5>1, <2>1, <4>1, IngestAssumption DEF TypeOK, Ids
      <4>3. 1..count' = 1..count \cup {count + 1} BY <4>1, <4>2
      <4>4. Upload!Offer(count + 1)
        BY <2>2, <3>1, <4>3 DEF Asides, Upload!Offer
      <4> QED BY <4>2, <4>4 DEF Upload!Next
    <3> QED BY <3>2, <3>3
  <2>3. ASSUME count' = count, NEW r \in wire, Adds(r.b), acked' \in {acked, acked \cup {r.b}}
        PROVE  Upload!Next
    <3>1. r.b \in Ids /\ r.b \in 1..count
      BY <2>1 DEF TypeInv, TypeOK, Requests, Sent
    <3>2. {b \in Ids : rows'[b] > 0} = {b \in Ids : rows[b] > 0} \cup {r.b}
      BY <2>1, <2>3, <3>1, AddsKeeps
    <3>3. Upload!Store(r.b) \/ Upload!StoreAndAcknowledge(r.b)
      BY <2>3, <3>1, <3>2 DEF Upload!Store, Upload!StoreAndAcknowledge, Adds
    <3> QED BY <3>1, <3>3 DEF Upload!Next
  <2>4. ASSUME UNCHANGED << wire, acked, count >>, NEW S \in SUBSET Ids, Erases(S)
        PROVE  Upload!Next
    <3>1. {b \in Ids : rows'[b] > 0} = {b \in Ids : rows[b] > 0} \ S
      BY <2>4 DEF Erases
    <3>2. Upload!Erase(S)
      BY <2>4, <3>1 DEF Erases, Upload!Erase
    <3> QED BY <3>2 DEF Upload!Next
  <2>5. ASSUME UNCHANGED << rows, erased, count >>, NEW r \in wire, r.pc = "touch",
               acked' = acked \cup {r.b}
        PROVE  Upload!Next
    <3>1. r.b \in Ids /\ Kept(r.b)
      BY <2>1, <2>5 DEF Safe, Written, TypeOK, Requests
    <3>2. Upload!Acknowledge(r.b)
      BY <2>5, <3>1 DEF Kept, Upload!Acknowledge
    <3> QED BY <3>1, <3>2 DEF Upload!Next
  <2> QED BY <2>1, <2>2, <2>3, <2>4, <2>5 DEF Effect
<1> QED BY <1>1, <1>2, <1>3, PTL DEF Spec, UploadSpec, Upload!Spec
-----------------------------------------------------------------------------
\* A closed page stays closed.

\* No step moves or clears the end of a page that is still there.
THEOREM PagesStayClosed == Spec => ClosedStaysClosed
<1>1. TypeInv /\ [Next]_vars =>
        [\A b \in Ids : left[b] > 0 /\ rows'[b] > 0 => left'[b] = left[b]]_vars
  <2> SUFFICES ASSUME TypeInv, [Next]_vars, NEW b \in Ids, left[b] > 0, rows'[b] > 0
               PROVE  left'[b] = left[b]
    OBVIOUS
  <2> USE DEF tracker, tables, ghosts
  <2>1. CASE ClosePrevious
    BY <2>1 DEF ClosePrevious
  <2>2. CASE DeleteSession \/ SweepSessions
    <3>1. PICK S \in SUBSET Sessions : EraseSessions(S)
      BY <2>2 DEF DeleteSession, SweepSessions
    <3> QED BY <3>1 DEF EraseSessions
  <2>3. CASE SweepRows
    BY <2>3 DEF SweepRows
  <2>4. CASE ~(ClosePrevious \/ DeleteSession \/ SweepSessions \/ SweepRows)
    <3>1. UNCHANGED left
      BY <2>4 DEF Next, vars, Send, RetryTimer, Fault, Receive, EndVisit, Leave, Lose, Arrive,
         Check, Recheck, Ensure, Owner, WriteRow, WriteLogs, WriteFeedback, WriteSession,
         TouchEvents, Touch, StatementFails, Crash, ToggleRecording, Tick
    <3> QED BY <3>1
  <2> QED BY <2>1, <2>2, <2>3, <2>4
<1>2. Spec => []TypeInv
  BY InitType, StepType, PTL DEF Spec
<1> QED BY <1>1, <1>2, PTL DEF Spec, ClosedStaysClosed

-----------------------------------------------------------------------------
\* The count of events is exact.

\* The foreign keys: every row but feedback belongs to a session.
Referenced ==
  \A b \in Ids : rows[b] > 0 /\ sent[b].kind # "feedback" => sessions[sent[b].sid].exists

\* A request of s is between the two statements of SaveEvents().
Counting(s) == \E r \in wire : r.pc = "touch" /\ Kind(r) = "events" /\ Sid(r) = s

Counted(s) == \/ s \in torn \/ ~sessions[s].exists \/ Counting(s)
              \/ sessions[s].count = Cardinality(EventRows(s))

Exact == Safe /\ Referenced /\ \A s \in Sessions : Counted(s)

\* A step that is of no concern to the count of s.
Keeps(s) == /\ EventRows(s)' = EventRows(s)
            /\ sessions'[s].exists = sessions[s].exists
            /\ sessions'[s].count = sessions[s].count
            /\ torn \subseteq torn'
            /\ Counting(s) => Counting(s)'

LEMMA InitExact == Init => Exact
<1> SUFFICES ASSUME Init PROVE Exact
  OBVIOUS
<1>1. Safe BY InitSafe
<1>2. Referenced BY DEF Init, Referenced
<1>3. \A s \in Sessions : Counted(s) BY DEF Init, Counted, NoSession
<1> QED BY <1>1, <1>2, <1>3 DEF Exact
\* A step that leaves the tables of rows alone and the requests past their
\* insert on the wire.
LEMMA Elsewhere ==
  ASSUME UNCHANGED << sent, rows, torn >>, NEW s \in Sessions,
         sessions'[s].exists = sessions[s].exists, sessions'[s].count = sessions[s].count,
         \A q \in wire : q.pc = "touch" /\ Kind(q) = "events" /\ Sid(q) = s => q \in wire'
  PROVE  Keeps(s)
BY DEF Keeps, EventRows, Counting, Kind, Sid

\* Answering or moving a request leaves the others on the wire.
LEMMA OthersStay ==
  ASSUME NEW r, NEW q \in wire, q # r,
         \/ \E status \in Nat : Answer(r, status)
         \/ \E pc \in PCs : Goto(r, pc)
         \/ \E p \in Requests : Update(r, p)
  PROVE  q \in wire'
BY DEF Answer, Goto, Update

\* What the update of last_seen leaves of a session.
LEMMA SeenKeeps ==
  ASSUME TypeInv, NEW r \in wire, NEW time \in Nat, NEW s \in Sessions
  PROVE  /\ Seen(r, time)[s].exists = sessions[s].exists
         /\ Seen(r, time)[s].count = sessions[s].count
BY DEF Seen, TypeInv, TypeOK

LEMMA StepReferenced == Safe /\ Referenced /\ [Next]_vars => Referenced'
<1> SUFFICES ASSUME Safe, Referenced, [Next]_vars PROVE Referenced'
  OBVIOUS
<1>a. TypeInv /\ TypeOK /\ Sent /\ RowsSent BY DEF Safe, TypeInv
<1> USE DEF tracker, tables, ghosts
\* Nothing new is stored, and sessions stay.
<1>1. ASSUME \A b \in Ids : rows'[b] > 0 => rows[b] > 0 /\ sent'[b] = sent[b],
             \A s \in Sessions : sessions[s].exists => sessions'[s].exists
      PROVE  Referenced'
  BY <1>1, <1>a DEF Referenced, RowsSent, Sent
\* A row is stored of a session that is there.
<1>2. ASSUME NEW r \in wire, Adds(r.b), sent' = sent,
             sent[r.b].kind = "feedback" \/ sessions[Sid(r)].exists,
             \A s \in Sessions : sessions[s].exists => sessions'[s].exists
      PROVE  Referenced'
  <2>1. r.b \in Ids BY <1>a DEF TypeOK, Requests
  <2>2. \A c \in Ids : c # r.b => rows'[c] = rows[c] BY <1>a, <1>2, <2>1, AddsKeeps
  <2> QED BY <1>2, <1>a, <2>1, <2>2 DEF Referenced, RowsSent, Sent, Sid
<1>3. CASE Send
  <2>1. PICK s \in Sessions, kind \in SentKinds, named \in BOOLEAN, beacon \in BOOLEAN :
          SendBatch(s, kind, named, beacon)
    BY <1>3 DEF Send
  <2>2. \A b \in 1..count : sent'[b] = sent[b] BY <1>a, <2>1 DEF SendBatch, TypeOK
  <2> QED BY <1>1, <1>3, <1>a, <2>2 DEF Send, RowsSent
<1>4. CASE Ensure
  BY <1>1, <1>4, <1>a DEF Ensure, TypeOK, NoSession
<1>5. CASE WriteRow
  BY <1>1, <1>2, <1>5 DEF WriteRow, Adds
<1>6. CASE WriteLogs
  <2>1. PICK r \in wire :
          \/ UNCHANGED << sessions, rows >>
          \/ sessions[Sid(r)].exists /\ rows' = [rows EXCEPT ![r.b] = 1]
             /\ sessions' = Seen(r, r.at) /\ erased' = erased
    BY <1>6 DEF WriteLogs, Accept
  <2>2. r.at \in Nat BY <1>a DEF TypeOK, Requests
  <2>3. sent' = sent BY <1>6 DEF WriteLogs
  <2>4. CASE UNCHANGED << sessions, rows >> BY <1>1, <2>3, <2>4
  <2>5. CASE ~UNCHANGED << sessions, rows >>
    BY <1>2, <1>a, <2>1, <2>2, <2>3, <2>5, SeenKeeps DEF Adds
  <2> QED BY <2>4, <2>5
<1>7. CASE WriteFeedback
  BY <1>2, <1>7 DEF WriteFeedback, Adds, Accept, Kind
<1>8. CASE WriteSession \/ TouchEvents \/ Touch
  <2>1. UNCHANGED << sent, rows >> BY <1>8 DEF WriteSession, TouchEvents, Touch
  <2>2. \A s \in Sessions : sessions[s].exists => sessions'[s].exists
    <3>1. CASE WriteSession
      BY <1>a, <3>1 DEF WriteSession, Seen, TypeOK
    <3>2. CASE TouchEvents
      BY <1>a, <3>2 DEF TouchEvents, Seen, TypeOK
    <3>3. CASE Touch
      BY <1>a, <3>3 DEF Touch, Seen, TypeOK
    <3> QED BY <1>8, <3>1, <3>2, <3>3
  <2> QED BY <1>1, <2>1, <2>2
<1>9. CASE DeleteSession \/ SweepSessions
  <2>1. PICK S \in SUBSET Sessions : EraseSessions(S)
    BY <1>9 DEF DeleteSession, SweepSessions
  <2>2. sent' = sent BY <1>9 DEF DeleteSession, SweepSessions
  <2> QED BY <1>a, <2>1, <2>2 DEF EraseSessions, Referenced, RowsSent, Sent
<1>10. CASE SweepRows
  BY <1>1, <1>10 DEF SweepRows
<1>11. CASE ~(\/ Send \/ Ensure \/ WriteRow \/ WriteLogs \/ WriteFeedback \/ WriteSession
              \/ TouchEvents \/ Touch \/ DeleteSession \/ SweepSessions \/ SweepRows)
  <2>1. UNCHANGED << sent, rows, sessions >>
    BY <1>11 DEF Next, vars, RetryTimer, Fault, Receive, EndVisit, Leave, Lose, Arrive,
       Check, Recheck, Owner, ClosePrevious, StatementFails, Crash, ToggleRecording, Tick
  <2> QED BY <1>1, <2>1
<1> QED BY <1>3, <1>4, <1>5, <1>6, <1>7, <1>8, <1>9, <1>10, <1>11
LEMMA StepCounted ==
  ASSUME Exact, [Next]_vars, NEW s \in Sessions
  PROVE  Keeps(s) \/ Counted(s)'
<1>a. TypeInv /\ TypeOK /\ Sent /\ RowsSent BY DEF Exact, Safe, TypeInv
<1>b. \A r \in wire : r.b \in Ids /\ r.b \in 1..count /\ Sid(r) \in Sessions /\ r.at \in Nat
  BY <1>a DEF TypeOK, Requests, Sent, Sid
<1> USE DEF tracker, tables, ghosts
<1>1. CASE Send
  <2>1. PICK t \in Sessions, kind \in SentKinds, named \in BOOLEAN, beacon \in BOOLEAN :
          SendBatch(t, kind, named, beacon)
    BY <1>1 DEF Send
  <2>2. (\A b \in 1..count : sent'[b] = sent[b]) /\ wire \subseteq wire'
    BY <1>a, <2>1 DEF SendBatch, TypeOK
  <2>3. UNCHANGED << rows, sessions, torn >> BY <1>1 DEF Send
  <2>4. EventRows(s)' = EventRows(s) BY <1>a, <2>2, <2>3 DEF EventRows, RowsSent
  <2>5. Counting(s) => Counting(s)' BY <1>b, <2>2 DEF Counting, Kind, Sid
  <2> QED BY <2>3, <2>4, <2>5 DEF Keeps
<1>2. ASSUME UNCHANGED << sent, rows, sessions, torn >>,
             \A q \in wire : q.pc = "touch" => q \in wire'
      PROVE  Keeps(s)
  BY <1>2, Elsewhere
<1>3. CASE RetryTimer \/ Fault \/ Receive \/ EndVisit \/ Leave \/ Lose \/ ToggleRecording
           \/ Tick \/ UNCHANGED vars
  BY <1>2, <1>3 DEF RetryTimer, Fault, Receive, EndVisit, Leave, Lose, ToggleRecording, Tick, vars
<1>4. ASSUME NEW r \in wire, r.pc # "touch", UNCHANGED << sent, rows, torn >>,
             \/ \E status \in Nat : Answer(r, status)
             \/ \E pc \in PCs : Goto(r, pc),
             sessions'[s].exists = sessions[s].exists, sessions'[s].count = sessions[s].count
      PROVE  Keeps(s)
  BY <1>4, OthersStay, Elsewhere
<1>5. CASE Arrive \/ Check \/ Recheck \/ Owner \/ ClosePrevious
  <2>1. PICK r \in wire : /\ r.pc # "touch"
                          /\ \/ \E status \in Nat : Answer(r, status)
                             \/ \E pc \in PCs : Goto(r, pc)
    <3>1. CASE Arrive BY <3>1 DEF Arrive, PCs
    <3>2. CASE Check BY <3>2 DEF Check, PCs
    <3>3. CASE Recheck BY <3>3 DEF Recheck, PCs
    <3>4. CASE Owner BY <3>4 DEF Owner, PCs
    <3>5. CASE ClosePrevious BY <3>5 DEF ClosePrevious, PCs
    <3> QED BY <1>5, <3>1, <3>2, <3>3, <3>4, <3>5
  <2>2. UNCHANGED << sent, rows, sessions, torn >>
    BY <1>5 DEF Arrive, Check, Recheck, Owner, ClosePrevious
  <2> QED BY <1>4, <2>1, <2>2
<1>6. CASE Ensure
  <2>1. PICK r \in wire : /\ r.pc = "ensure"
                          /\ Update(r, [r EXCEPT !.pc = "owner", !.at = now])
                          /\ sessions' = [sessions EXCEPT ![Sid(r)] =
                               IF @.exists THEN @
                               ELSE [NoSession EXCEPT !.exists = TRUE, !.seen = now]]
    BY <1>6 DEF Ensure
  <2>2. UNCHANGED << sent, rows, torn >> BY <1>6 DEF Ensure
  <2>3. CASE Sid(r) # s \/ sessions[s].exists
    <3>1. sessions'[s] = sessions[s] BY <1>a, <2>1, <2>3 DEF TypeOK
    <3>2. \A q \in wire : q.pc = "touch" => q \in wire' BY <2>1 DEF Update
    <3> QED BY <2>2, <3>1, <3>2, Elsewhere
  <2>4. CASE Sid(r) = s /\ ~sessions[s].exists
    <3>1. EventRows(s) = {} BY <2>4 DEF EventRows, Exact, Referenced
    <3>2. EventRows(s)' = EventRows(s) BY <2>2 DEF EventRows
    <3>3. sessions'[s].count = 0 BY <1>a, <2>1, <2>4 DEF TypeOK, NoSession
    <3>4. sessions'[s].count = Cardinality(EventRows(s)')
      BY <3>1, <3>2, <3>3, FS_EmptySet
    <3> QED BY <3>4 DEF Counted
  <2> QED BY <2>3, <2>4
<1>7. CASE WriteRow
  <2>1. PICK r \in wire :
          /\ r.pc = "write"
          /\ \/ Answer(r, 500) /\ UNCHANGED << rows, left >>
             \/ /\ rows' = [rows EXCEPT ![r.b] = 1] /\ UNCHANGED left
                /\ Update(r, [r EXCEPT !.pc = IF Kind(r) = "page" /\ sent[r.b].n > 0
                                        THEN "close" ELSE "touch",
                                 !.fresh = Kind(r) = "custom" /\ rows[r.b] = 0])
    BY <1>7 DEF WriteRow
  <2>2. UNCHANGED << sent, sessions, torn >> BY <1>7 DEF WriteRow
  <2>3. CASE Answer(r, 500) /\ UNCHANGED << rows, left >>
    BY <1>4, <2>1, <2>2, <2>3
  <2>4. CASE ~(Answer(r, 500) /\ UNCHANGED << rows, left >>)
    <3> DEFINE p == [r EXCEPT !.pc = IF Kind(r) = "page" /\ sent[r.b].n > 0
                                        THEN "close" ELSE "touch",
                              !.fresh = Kind(r) = "custom" /\ rows[r.b] = 0]
    <3>1. p.b = r.b /\ (Kind(r) # "page" => p.pc = "touch") BY <1>a DEF TypeOK, Requests
    <3>2. Update(r, p) /\ rows' = [rows EXCEPT ![r.b] = 1] BY <2>1, <2>4
    <3> HIDE DEF p
    <3>3. CASE Kind(r) = "events" /\ Sid(r) = s
      <4>1. \E q \in wire' : q.pc = "touch" /\ q.b = r.b
        BY <3>1, <3>2, <3>3 DEF Update
      <4>2. Counting(s)' BY <2>2, <3>3, <4>1 DEF Counting, Kind, Sid
      <4> QED BY <4>2 DEF Counted
    <3>4. CASE ~(Kind(r) = "events" /\ Sid(r) = s)
      <4>1. EventRows(s)' = EventRows(s)
        BY <1>a, <2>2, <3>2, <3>4 DEF EventRows, Kind, Sid, TypeOK
      <4>2. \A q \in wire : q.pc = "touch" => q \in wire' BY <2>1, <3>2 DEF Update
      <4>3. Counting(s) => Counting(s)' BY <2>2, <4>2 DEF Counting, Kind, Sid
      <4> QED BY <2>2, <4>1, <4>3 DEF Keeps
    <3> QED BY <3>3, <3>4
  <2> QED BY <2>3, <2>4
\* A row that is no event is stored and the request answered.
<1>8. ASSUME NEW r \in wire, r.pc = "write", Kind(r) # "events", Adds(r.b), Answer(r, 200),
             UNCHANGED << sent, torn >>,
             sessions'[s].exists = sessions[s].exists, sessions'[s].count = sessions[s].count
      PROVE  Keeps(s)
  <2>1. \A c \in Ids : c # r.b => rows'[c] = rows[c] BY <1>a, <1>b, <1>8, AddsKeeps
  <2>2. EventRows(s)' = EventRows(s) BY <1>b, <1>8, <2>1 DEF EventRows, Kind
  <2>3. \A q \in wire : q.pc = "touch" => q \in wire' BY <1>8, OthersStay
  <2>4. Counting(s) => Counting(s)' BY <1>8, <2>3 DEF Counting, Kind, Sid
  <2> QED BY <1>8, <2>2, <2>4 DEF Keeps
<1>9. CASE WriteLogs
  <2>1. PICK r \in wire :
          /\ r.pc = "write" /\ Kind(r) = "logs"
          /\ \/ Answer(r, 500) /\ UNCHANGED << sessions, rows, ghosts >>
             \/ rows' = [rows EXCEPT ![r.b] = 1] /\ sessions' = Seen(r, r.at)
                /\ Answer(r, 200) /\ UNCHANGED << erased, torn >>
    BY <1>9 DEF WriteLogs, Accept
  <2>2. sent' = sent BY <1>9 DEF WriteLogs
  <2>3. CASE Answer(r, 500) /\ UNCHANGED << sessions, rows, ghosts >>
    BY <1>4, <2>1, <2>2, <2>3
  <2>4. CASE ~(Answer(r, 500) /\ UNCHANGED << sessions, rows, ghosts >>)
    <3>1. Adds(r.b) BY <2>1, <2>4 DEF Adds
    <3> QED BY <1>a, <1>b, <1>8, <2>1, <2>2, <2>4, <3>1, SeenKeeps
  <2> QED BY <2>3, <2>4
<1>10. CASE WriteFeedback
  <2>1. PICK r \in wire : /\ r.pc = "write" /\ Kind(r) = "feedback" /\ Answer(r, 200)
                          /\ Adds(r.b) /\ UNCHANGED << sent, torn, sessions >>
    BY <1>10 DEF WriteFeedback, Accept, Adds
  <2> QED BY <1>8, <2>1
<1>11. CASE WriteSession
  <2>1. PICK r \in wire : /\ r.pc = "write" /\ Answer(r, 200)
                          /\ sessions' = IF sessions[Sid(r)].exists /\ sent[r.b].named
                               THEN [Seen(r, r.at) EXCEPT ![Sid(r)].user = r.b]
                               ELSE Seen(r, r.at)
    BY <1>11 DEF WriteSession
  <2>2. UNCHANGED << sent, rows, torn >> BY <1>11 DEF WriteSession
  <2>3. sessions'[s].exists = sessions[s].exists /\ sessions'[s].count = sessions[s].count
    <3>1. Seen(r, r.at) \in [Sessions -> [exists : BOOLEAN, count : Nat, seen : Nat, user : Nat]]
      BY <1>a, <1>b, SeenTyped
    <3>2. /\ Seen(r, r.at)[s].exists = sessions[s].exists
          /\ Seen(r, r.at)[s].count = sessions[s].count
      BY <1>a, <1>b, SeenKeeps
    <3> QED BY <2>1, <3>1, <3>2
  <2> QED BY <1>4, <2>1, <2>2, <2>3
<1>12. CASE TouchEvents
  <2>1. PICK r \in wire : /\ r.pc = "touch" /\ Answer(r, 200) /\ torn' = torn \ {Sid(r)}
                          /\ sessions' = IF sessions[Sid(r)].exists
                               THEN [Seen(r, r.at) EXCEPT
                                       ![Sid(r)].count = Cardinality(EventRows(Sid(r)))]
                               ELSE sessions
    BY <1>12 DEF TouchEvents
  <2>2. UNCHANGED << sent, rows >> BY <1>12 DEF TouchEvents
  <2>3. Seen(r, r.at) \in [Sessions -> [exists : BOOLEAN, count : Nat, seen : Nat, user : Nat]]
    BY <1>a, <1>b, SeenTyped
  <2>4. EventRows(s)' = EventRows(s) BY <2>2 DEF EventRows
  <2>5. CASE Sid(r) = s
    <3>1. ~sessions'[s].exists \/ sessions'[s].count = Cardinality(EventRows(s))
      BY <2>1, <2>3, <2>5
    <3> QED BY <2>4, <3>1 DEF Counted
  <2>6. CASE Sid(r) # s
    <3>1. sessions'[s] = sessions[s]
      BY <1>a, <2>1, <2>6 DEF Seen, TypeOK
    <3>2. Counting(s) => Counting(s)'
      BY <2>1, <2>2, <2>6, OthersStay, SMTT(30) DEF Counting, Kind, Sid
    <3>3. s \in torn => s \in torn' BY <2>1, <2>6
    <3> QED BY <2>4, <3>1, <3>2, <3>3 DEF Exact, Counted
  <2> QED BY <2>5, <2>6
<1>13. CASE Touch
  <2>1. PICK r \in wire : /\ r.pc = "touch" /\ Kind(r) # "events" /\ Answer(r, 200)
                          /\ \E time \in Nat : sessions' = Seen(r, time)
    BY <1>a, <1>b, <1>13 DEF Touch, Accept, TypeOK
  <2>2. UNCHANGED << sent, rows, torn >> BY <1>13 DEF Touch, Accept
  <2>3. \A q \in wire : Kind(q) = "events" => q \in wire' BY <2>1, OthersStay
  <2> QED BY <1>a, <2>1, <2>2, <2>3, SeenKeeps, Elsewhere
<1>14. CASE StatementFails
  <2>1. PICK r \in wire :
          \/ /\ Answer(r, 500)
             /\ torn' = IF r.pc = "touch" /\ Kind(r) = "events" THEN torn \cup {Sid(r)} ELSE torn
          \/ r.pc = "close" /\ Goto(r, "touch") /\ UNCHANGED torn
    BY <1>14 DEF StatementFails
  <2>2. UNCHANGED << sent, rows, sessions >> BY <1>14 DEF StatementFails
  <2>3. CASE r.pc = "touch" /\ Kind(r) = "events" /\ Sid(r) = s
    BY <2>1, <2>3 DEF Counted
  <2>4. CASE ~(r.pc = "touch" /\ Kind(r) = "events" /\ Sid(r) = s)
    <3>1. \A q \in wire : q.pc = "touch" /\ Kind(q) = "events" /\ Sid(q) = s => q \in wire'
      BY <2>1, <2>4, OthersStay DEF PCs
    <3>2. Counting(s) => Counting(s)' BY <2>2, <3>1 DEF Counting, Kind, Sid
    <3>3. EventRows(s)' = EventRows(s) BY <2>2 DEF EventRows
    <3> QED BY <2>1, <2>2, <3>2, <3>3 DEF Keeps
  <2> QED BY <2>3, <2>4
<1>15. CASE Crash
  <2>1. UNCHANGED << sent, rows, sessions >> /\ torn \subseteq torn'
    BY <1>15 DEF Crash
  <2>2. CASE Counting(s)
    BY <1>15, <2>2 DEF Crash, Counting, Counted
  <2>3. CASE ~Counting(s)
    BY <2>1, <2>3 DEF Keeps, EventRows
  <2> QED BY <2>2, <2>3
<1>16. CASE DeleteSession \/ SweepSessions
  <2>1. PICK S \in SUBSET Sessions : EraseSessions(S)
    BY <1>16 DEF DeleteSession, SweepSessions
  <2>2. UNCHANGED << sent, wire >> BY <1>16 DEF DeleteSession, SweepSessions
  <2>3. CASE s \in S BY <2>1, <2>3 DEF EraseSessions, NoSession, Counted
  <2>4. CASE s \notin S
    <3>1. EventRows(s)' = EventRows(s) BY <2>1, <2>2, <2>4 DEF EraseSessions, EventRows
    <3>2. sessions'[s] = sessions[s] /\ (s \in torn => s \in torn')
      BY <2>1, <2>4 DEF EraseSessions
    <3>3. Counting(s)' = Counting(s) BY <2>2 DEF Counting, Kind, Sid
    <3> QED BY <3>1, <3>2, <3>3 DEF Exact, Counted
  <2> QED BY <2>3, <2>4
<1>17. CASE SweepRows
  <2>1. EventRows(s)' = EventRows(s) BY <1>17 DEF SweepRows, EventRows
  <2> QED BY <1>17, <2>1 DEF SweepRows, Keeps, Counting, Kind, Sid
<1> QED
  BY <1>1, <1>3, <1>5, <1>6, <1>7, <1>9, <1>10, <1>11, <1>12, <1>13, <1>14, <1>15, <1>16,
     <1>17 DEF Next

LEMMA StepExact == Exact /\ [Next]_vars => Exact'
<1> SUFFICES ASSUME Exact, [Next]_vars PROVE Exact'
  OBVIOUS
<1>1. Safe' /\ Referenced' BY StepSafe, StepReferenced DEF Exact
<1>2. ASSUME NEW s \in Sessions PROVE Counted(s)'
  <2>1. Counted(s) /\ (Keeps(s) \/ Counted(s)') BY StepCounted DEF Exact
  <2> QED BY <2>1 DEF Keeps, Counted
<1> QED BY <1>1, <1>2 DEF Exact

\* event_count equals the events stored, but for the two statements of
\* SaveEvents() and what a failure or a crash cuts short between them.
THEOREM CountIsExact == Spec => []CountExact
<1>1. Spec => []Exact
  BY InitExact, StepExact, PTL DEF Spec
<1>2. Exact => CountExact
  BY DEF Exact, Counted, Counting, CountExact
<1> QED BY <1>1, <1>2, PTL
-----------------------------------------------------------------------------
\* One alert for a batch.

\* A request that will send the alert of its batch when it is through.
Fresh(r) == r.pc = "touch" /\ r.fresh

\* A batch that was not deleted is alerted on at most once: there is at most
\* one request that will, and none once the alert is out.
Once(b) ==
  \/ b \in erased
  \/ /\ notified[b] <= 1
     /\ notified[b] = 1 => rows[b] > 0 /\ \A r \in wire : r.b = b => ~Fresh(r)
     /\ \A r, q \in wire : Fresh(r) /\ Fresh(q) /\ r.b = b /\ q.b = b => r = q

\* Custom events have no page to close.
ClosesQuietly == \A r \in wire : r.pc = "close" => ~r.fresh

Alerts == Safe /\ ClosesQuietly /\ \A b \in Ids : Once(b)

LEMMA InitAlerts == Init => Alerts
<1> SUFFICES ASSUME Init PROVE Alerts
  OBVIOUS
<1>1. Safe BY InitSafe
<1> QED BY <1>1 DEF Init, Alerts, ClosesQuietly, Once

\* A step that neither alerts nor makes a request that will.
LEMMA Quietly ==
  ASSUME Alerts, NEW b \in Ids, notified'[b] = notified[b],
         rows[b] > 0 => rows'[b] > 0 \/ b \in erased', erased \subseteq erased',
         \A q \in wire' : Fresh(q) /\ q.b = b => q \in wire
  PROVE  Once(b)'
BY DEF Alerts, Once, Fresh

\* A response is no request that will alert.
LEMMA AnswerIsQuiet ==
  ASSUME TypeInv, NEW r \in wire, NEW status \in Nat, Answer(r, status)
  PROVE  /\ \A q \in wire' : Fresh(q) => q \in wire
         /\ \A q \in wire' : q.pc = "close" => q \in wire
         /\ Fresh(r) => \A q \in wire' : Fresh(q) => q # r
<1> DEFINE p == [r EXCEPT !.pc = "reply", !.at = 0, !.fresh = FALSE, !.status = status]
<1>1. p.pc = "reply" BY DEF TypeInv, TypeOK, Requests
<1>2. wire' = (wire \ {r}) \cup {p} \/ wire' = wire \ {r} BY DEF Answer, Update
<1> HIDE DEF p
<1> QED BY <1>1, <1>2 DEF Fresh

LEMMA GotoIsQuiet ==
  ASSUME TypeInv, ClosesQuietly, NEW r \in wire, NEW pc \in PCs \ {"close"}, Goto(r, pc),
         pc = "touch" => r.pc = "close"
  PROVE  \A q \in wire' : (Fresh(q) \/ q.pc = "close") => q \in wire
<1> DEFINE p == [r EXCEPT !.pc = pc]
<1>1. p.pc = pc /\ p.fresh = r.fresh BY DEF TypeInv, TypeOK, Requests
<1>2. wire' = (wire \ {r}) \cup {p} BY DEF Goto, Update
<1> HIDE DEF p
<1> QED BY <1>1, <1>2 DEF Fresh, ClosesQuietly

LEMMA StepAlerts == Alerts /\ [Next]_vars => Alerts'
<1> SUFFICES ASSUME Alerts, [Next]_vars PROVE Alerts'
  OBVIOUS
<1>a. TypeInv /\ TypeOK /\ Sent /\ Written BY DEF Alerts, Safe, TypeInv
<1>b. \A r \in wire : r.b \in Ids BY <1>a DEF TypeOK, Requests
<1>c. Safe' BY StepSafe DEF Alerts
<1>q. ClosesQuietly BY DEF Alerts
<1>k. \A b \in Ids : rows[b] \in Nat /\ notified[b] \in Nat BY <1>a DEF TypeOK
<1> USE DEF tracker, tables, ghosts
\* No request that closes a page or alerts appears.
<1>1. ASSUME notified' = notified, erased \subseteq erased',
             \A b \in Ids : rows[b] > 0 => rows'[b] > 0 \/ b \in erased',
             \A q \in wire' : Fresh(q) \/ q.pc = "close" => q \in wire
      PROVE  Alerts'
  <2>1. ClosesQuietly' BY <1>1, <1>q DEF ClosesQuietly
  <2>2. \A b \in Ids : Once(b)' BY <1>1, Quietly
  <2> QED BY <1>c, <2>1, <2>2 DEF Alerts
<1>2. ASSUME NEW r \in wire, UNCHANGED << rows, notified, erased >>,
             \/ \E status \in Nat : Answer(r, status)
             \/ \E pc \in PCs \ {"close", "touch"} : Goto(r, pc)
             \/ r.pc = "close" /\ Goto(r, "touch")
      PROVE  Alerts'
  <2>1. \A q \in wire' : Fresh(q) \/ q.pc = "close" => q \in wire
    BY <1>a, <1>q, <1>2, AnswerIsQuiet, GotoIsQuiet DEF PCs
  <2> QED BY <1>1, <1>2, <2>1
\* A batch that is kept, or deleted, is stored and answered without an alert.
<1>3. ASSUME NEW r \in wire, Answer(r, 200), UNCHANGED << notified, erased >>,
             rows' = rows \/ Adds(r.b)
      PROVE  Alerts'
  <2>1. \A b \in Ids : rows[b] > 0 => rows'[b] > 0
    <3>1. CASE rows' = rows BY <3>1
    <3>2. CASE Adds(r.b) BY <1>a, <1>b, <3>2, AddsKeeps
    <3> QED BY <1>3, <3>1, <3>2
  <2>2. \A q \in wire' : Fresh(q) \/ q.pc = "close" => q \in wire
    BY <1>a, <1>3, AnswerIsQuiet
  <2> QED BY <1>1, <1>3, <2>1, <2>2
<1>4. CASE Send
  <2>1. PICK s \in Sessions, kind \in SentKinds, named \in BOOLEAN, beacon \in BOOLEAN :
          SendBatch(s, kind, named, beacon)
    BY <1>4 DEF Send
  <2>2. wire' = wire \cup {Request(count + 1, 0)} /\ Request(count + 1, 0).pc = "arrive"
    BY <2>1 DEF SendBatch, Request
  <2> QED BY <1>1, <1>4, <2>2 DEF Send, Fresh
<1>5. CASE RetryTimer
  <2>1. PICK b \in 1..count : wire' = wire \cup {Request(b, client[b].att + 1)}
    BY <1>5 DEF RetryTimer
  <2>2. Request(b, client[b].att + 1).pc = "arrive" BY DEF Request
  <2> QED BY <1>1, <1>5, <2>1, <2>2 DEF RetryTimer, Fresh
<1>6. CASE \/ Fault \/ Receive \/ EndVisit \/ Leave \/ Lose \/ Crash \/ ToggleRecording \/ Tick
           \/ UNCHANGED vars
  <2>1. wire' \subseteq wire /\ UNCHANGED << rows, erased, notified >>
    BY <1>6 DEF Fault, Receive, EndVisit, Leave, Lose, Crash, ToggleRecording, Tick, vars
  <2> QED BY <1>1, <2>1
<1>7. CASE Arrive
  <2>1. PICK r \in wire : \/ \E status \in Nat : Answer(r, status)
                          \/ \E pc \in PCs \ {"close", "touch"} : Goto(r, pc)
    BY <1>7 DEF Arrive, PCs
  <2> QED BY <1>2, <1>7, <2>1 DEF Arrive
<1>8. CASE Check \/ Recheck \/ Owner
  <2>1. PICK r \in wire : \/ \E status \in Nat : Answer(r, status)
                          \/ \E pc \in PCs \ {"close", "touch"} : Goto(r, pc)
    <3>1. CASE Check BY <3>1 DEF Check, PCs
    <3>2. CASE Recheck BY <3>2 DEF Recheck, PCs
    <3>3. CASE Owner BY <3>3 DEF Owner, PCs
    <3> QED BY <1>8, <3>1, <3>2, <3>3
  <2> QED BY <1>2, <1>8, <2>1 DEF Check, Recheck, Owner
<1>9. CASE Ensure
  <2>1. PICK r \in wire : Update(r, [r EXCEPT !.pc = "owner", !.at = now])
    BY <1>9 DEF Ensure
  <2> DEFINE p == [r EXCEPT !.pc = "owner", !.at = now]
  <2>2. p.pc = "owner" BY <1>a DEF TypeOK, Requests
  <2>3. wire' = (wire \ {r}) \cup {p} BY <2>1 DEF Update
  <2> HIDE DEF p
  <2>4. \A q \in wire' : Fresh(q) \/ q.pc = "close" => q \in wire BY <2>2, <2>3 DEF Fresh
  <2>5. UNCHANGED << rows, erased, notified >> BY <1>9 DEF Ensure
  <2> QED BY <1>1, <2>4, <2>5
<1>10. CASE ClosePrevious
  <2>1. PICK r \in wire : r.pc = "close" /\ Goto(r, "touch")
    BY <1>10 DEF ClosePrevious
  <2> QED BY <1>2, <1>10, <2>1 DEF ClosePrevious
<1>11. CASE StatementFails
  <2>1. PICK r \in wire : Answer(r, 500) \/ (r.pc = "close" /\ Goto(r, "touch"))
    BY <1>11 DEF StatementFails
  <2> QED BY <1>2, <1>11, <2>1 DEF StatementFails
<1>12. CASE WriteFeedback
  <2>1. PICK r \in wire : rows' = [rows EXCEPT ![r.b] = @ + 1] /\ Accept(r, FALSE)
    BY <1>12 DEF WriteFeedback
  <2>2. notified' = notified BY <1>a, <1>b, <2>1 DEF Accept, TypeOK
  <2> QED BY <1>3, <2>1, <2>2 DEF Adds, Accept
<1>13. CASE WriteSession \/ TouchEvents
  <2>1. PICK r \in wire : Answer(r, 200)
    BY <1>13 DEF WriteSession, TouchEvents
  <2> QED BY <1>3, <1>13, <2>1 DEF WriteSession, TouchEvents
<1>14. CASE DeleteSession \/ SweepSessions
  <2>1. PICK S \in SUBSET Sessions : EraseSessions(S)
    BY <1>14 DEF DeleteSession, SweepSessions
  <2>2. UNCHANGED << wire, notified >> BY <1>14 DEF DeleteSession, SweepSessions
  <2>3. \A b \in Ids : rows[b] > 0 => rows'[b] > 0 \/ b \in erased'
    BY <2>1 DEF EraseSessions
  <2>4. erased \subseteq erased' BY <2>1 DEF EraseSessions
  <2> QED BY <1>1, <2>2, <2>3, <2>4
<1>15. CASE SweepRows
  BY <1>1, <1>15 DEF SweepRows
\* Only the request that wrote the row is fresh.
<1>16. CASE WriteRow
  <2>1. PICK r \in wire :
          \/ Answer(r, 500) /\ UNCHANGED << rows, left >>
          \/ /\ rows' = [rows EXCEPT ![r.b] = 1] /\ UNCHANGED left
             /\ Update(r, [r EXCEPT !.pc = IF Kind(r) = "page" /\ sent[r.b].n > 0
                                        THEN "close" ELSE "touch",
                                 !.fresh = Kind(r) = "custom" /\ rows[r.b] = 0])
    BY <1>16 DEF WriteRow
  <2>2. UNCHANGED << erased, notified >> BY <1>16 DEF WriteRow
  <2>3. CASE Answer(r, 500) /\ UNCHANGED << rows, left >>
    BY <1>2, <2>2, <2>3
  <2>4. CASE ~(Answer(r, 500) /\ UNCHANGED << rows, left >>)
    <3>1. PICK p : /\ wire' = (wire \ {r}) \cup {p} /\ p.b = r.b
                   /\ p.fresh => Kind(r) = "custom" /\ rows[r.b] = 0
                   /\ p.pc = "close" => Kind(r) = "page"
      <4> DEFINE p == [r EXCEPT !.pc = IF Kind(r) = "page" /\ sent[r.b].n > 0
                                        THEN "close" ELSE "touch",
                                !.fresh = Kind(r) = "custom" /\ rows[r.b] = 0]
      <4>1. /\ p.b = r.b /\ (p.pc = "close" => Kind(r) = "page")
            /\ p.fresh = (Kind(r) = "custom" /\ rows[r.b] = 0)
        BY <1>a DEF TypeOK, Requests
      <4>2. wire' = (wire \ {r}) \cup {p} BY <2>1, <2>4 DEF Update
      <4> HIDE DEF p
      <4> QED BY <4>1, <4>2
    <3>2. rows' = [rows EXCEPT ![r.b] = 1] BY <2>1, <2>4
    <3>3. rows'[r.b] = 1 /\ \A c \in Ids : c # r.b => rows'[c] = rows[c]
      BY <1>a, <1>b, <3>2 DEF TypeOK
    <3>4. ClosesQuietly' BY <1>q, <3>1 DEF ClosesQuietly
    <3>5. ASSUME NEW b \in Ids PROVE Once(b)'
      <4>1. CASE b # r.b \/ ~p.fresh \/ b \in erased
        <5>1. b \in erased \/ \A q \in wire' : Fresh(q) /\ q.b = b => q \in wire
          BY <3>1, <4>1 DEF Fresh
        <5>2. rows[b] > 0 => rows'[b] > 0 BY <3>3
        <5> QED BY <2>2, <5>1, <5>2, Quietly DEF Once
      <4>2. CASE b = r.b /\ p.fresh /\ b \notin erased
        <5>1. ~Kept(b) BY <1>a, <3>1, <4>2 DEF Kept, TypeOK
        <5>2. \A q \in wire : q.b = b => ~Fresh(q)
          BY <1>a, <5>1 DEF Written, Fresh
        <5>3. notified[b] = 0
          BY <1>k, <4>2, <5>1 DEF Alerts, Once, Kept
        <5>4. \A q \in wire' : q.b = b /\ Fresh(q) => q = p
          BY <3>1, <5>2
        <5> QED BY <2>2, <5>3, <5>4 DEF Once, Fresh
      <4> QED BY <4>1, <4>2
    <3> QED BY <1>c, <3>4, <3>5 DEF Alerts
  <2> QED BY <2>3, <2>4
<1>17. CASE WriteLogs
  <2>1. PICK r \in wire :
          \/ Answer(r, 500) /\ UNCHANGED << sessions, rows, ghosts >>
          \/ rows' = [rows EXCEPT ![r.b] = 1] /\ Accept(r, rows[r.b] = 0)
    BY <1>17 DEF WriteLogs
  <2>2. CASE Answer(r, 500) /\ UNCHANGED << sessions, rows, ghosts >>
    BY <1>2, <2>2
  <2>3. CASE ~(Answer(r, 500) /\ UNCHANGED << sessions, rows, ghosts >>)
    <3>1. rows' = [rows EXCEPT ![r.b] = 1] /\ Accept(r, rows[r.b] = 0) BY <2>1, <2>3
    <3>2. /\ Answer(r, 200) /\ erased' = erased
          /\ notified' = [notified EXCEPT ![r.b] = IF rows[r.b] = 0 THEN @ + 1 ELSE @]
      BY <3>1 DEF Accept
    <3>3. rows'[r.b] = 1 /\ \A c \in Ids : c # r.b => rows'[c] = rows[c]
      BY <1>a, <1>b, <3>1 DEF TypeOK
    <3>4. /\ \A q \in wire' : Fresh(q) => q \in wire
          /\ \A q \in wire' : q.pc = "close" => q \in wire
      BY <1>a, <3>2, AnswerIsQuiet
    <3>5. ClosesQuietly' BY <1>q, <3>4 DEF ClosesQuietly
    <3>6. ASSUME NEW b \in Ids PROVE Once(b)'
      <4>1. CASE b # r.b \/ rows[b] # 0
        <5>1. notified'[b] = notified[b] BY <1>a, <1>b, <3>2, <4>1 DEF TypeOK
        <5> QED BY <3>2, <3>3, <3>4, <5>1, Quietly
      <4>2. CASE b \in erased BY <3>2, <4>2 DEF Once
      <4>3. CASE b = r.b /\ rows[b] = 0 /\ b \notin erased
        <5>1. ~Kept(b) BY <4>3 DEF Kept
        <5>2. \A q \in wire' : q.b = b => ~Fresh(q)
          BY <1>a, <3>4, <5>1 DEF Written, Fresh
        <5>3. notified[b] = 0
          BY <1>k, <4>3, <5>1 DEF Alerts, Once, Kept
        <5>4. notified'[b] = 1 BY <1>a, <3>2, <4>3, <5>3 DEF TypeOK
        <5> QED BY <3>3, <4>3, <5>2, <5>4 DEF Once
      <4> QED BY <4>1, <4>2, <4>3
    <3> QED BY <1>c, <3>5, <3>6 DEF Alerts
  <2> QED BY <2>2, <2>3
\* The fresh request sends the alert and is gone.
<1>18. CASE Touch
  <2>1. PICK r \in wire : r.pc = "touch" /\ Accept(r, r.fresh)
    BY <1>18 DEF Touch
  <2>2. /\ Answer(r, 200) /\ UNCHANGED << erased, rows >>
        /\ notified' = [notified EXCEPT ![r.b] = IF r.fresh THEN @ + 1 ELSE @]
    BY <1>18, <2>1 DEF Touch, Accept
  <2>3. /\ \A q \in wire' : Fresh(q) => q \in wire
        /\ \A q \in wire' : q.pc = "close" => q \in wire
        /\ Fresh(r) => \A q \in wire' : Fresh(q) => q # r
    BY <1>a, <2>2, AnswerIsQuiet
  <2>4. ClosesQuietly' BY <1>q, <2>3 DEF ClosesQuietly
  <2>5. ASSUME NEW b \in Ids PROVE Once(b)'
    <3>1. CASE b # r.b \/ ~r.fresh
      <4>1. notified'[b] = notified[b] BY <1>a, <1>b, <2>2, <3>1 DEF TypeOK
      <4> QED BY <2>2, <2>3, <4>1, Quietly
    <3>2. CASE b \in erased BY <2>2, <3>2 DEF Once
    <3>3. CASE b = r.b /\ r.fresh /\ b \notin erased
      <4>1. Once(b) /\ Fresh(r) BY <2>1, <3>3 DEF Alerts, Fresh
      <4>2. notified[b] = 0 BY <1>k, <3>3, <4>1 DEF Once
      <4>5. rows[b] > 0 BY <1>a, <2>1, <3>3 DEF Written, Kept
      <4>3. notified'[b] = 1 BY <1>a, <2>2, <3>3, <4>2 DEF TypeOK
      <4>4. \A q \in wire' : q.b = b => ~Fresh(q)
        BY <2>3, <3>3, <4>1 DEF Once
      <4> QED BY <2>2, <4>3, <4>4, <4>5 DEF Once
    <3> QED BY <3>1, <3>2, <3>3
  <2> QED BY <1>c, <2>4, <2>5 DEF Alerts
<1> QED
  BY <1>4, <1>5, <1>6, <1>7, <1>8, <1>9, <1>10, <1>11, <1>12, <1>13, <1>14, <1>15, <1>16,
     <1>17, <1>18 DEF Next

\* A retried request does not alert again on what is stored already.
THEOREM AlertedOnce == Spec => []NotifiedOnce
<1>1. Spec => []Alerts
  BY InitAlerts, StepAlerts, PTL DEF Spec
<1>2. Alerts => NotifiedOnce
  <2> SUFFICES ASSUME Alerts, NEW b \in Ids, notified[b] > 1 PROVE b \in erased
    BY DEF NotifiedOnce
  <2>1. notified[b] \in Nat BY DEF Alerts, Safe, TypeInv, TypeOK
  <2> QED BY <2>1 DEF Alerts, Once
<1> QED BY <1>1, <1>2, PTL
=============================================================================
