-------------------------- MODULE ExportJobs_proofs --------------------------
(***************************************************************************)
(* What ExportJobs guarantees for every number of job slots, timeout and   *)
(* chunk.  The invariant adds to the properties what ties a task's file to *)
(* where its goroutine is, and a job in the map to the state of its task.  *)
(***************************************************************************)
EXTENDS ExportJobs, FiniteSetTheorems, TLAPS

\* Tasks that have not been started are untouched.
Unstarted ==
  \A t \in Tasks : t > started =>
    /\ pc[t] = "idle" /\ disk[t] = "none" /\ t \notin jobs
    /\ age[t] = 0 /\ state[t] = "preparing"

\* What is on the disk follows from where the task is; a task that is done
\* has a file only as a ready job.
FileOf ==
  \A t \in Tasks :
    /\ pc[t] \in {"idle", "create", "over"} => disk[t] = "none"
    /\ pc[t] \in {"full", "serve"} => disk[t] = "complete"
    /\ pc[t] = "done" /\ disk[t] # "none" => t \in jobs /\ state[t] = "ready"

\* The map holds jobs only, each with a state that fits its task.
JobsKnown ==
  \A t \in jobs :
    /\ kind[t] = "job" /\ pc[t] # "idle"
    /\ state[t] = "ready" => pc[t] = "done" /\ disk[t] = "complete"

Emptied == closed => jobs = {}

Shape == Unstarted /\ FileOf /\ JobsKnown /\ Emptied

Inv == TypeOK /\ Shape /\ OnePreparation /\ ExpiryArmed

-----------------------------------------------------------------------------
\* Init.
LEMMA InitInv == Init => Inv
<1> SUFFICES ASSUME Init PROVE Inv OBVIOUS
<1> USE ExportAssumption
<1>1. TypeOK
  <2>1. started \in 0..MaxTasks BY DEF Init
  <2>2. /\ kind \in [Tasks -> {"job", "direct"}]
        /\ pc \in [Tasks -> {"idle", "create", "write", "full", "serve", "over", "done"}]
        /\ disk \in [Tasks -> {"none", "partial", "complete"}]
        /\ state \in [Tasks -> {"preparing", "failed", "ready"}]
    BY DEF Init
  <2>3. /\ canceled \in [Tasks -> BOOLEAN] /\ chunks \in [Tasks -> 0..CHUNKS]
        /\ age \in [Tasks -> Nat] /\ expiry \in [Tasks -> Nat]
    BY DEF Init
  <2> QED BY <2>1, <2>2, <2>3 DEF Init, TypeOK
<1>2. Shape BY DEF Init, Shape, Unstarted, FileOf, JobsKnown, Emptied, Tasks
<1>3. OnePreparation BY DEF Init, OnePreparation, Working, Tasks
<1>4. ExpiryArmed BY DEF Init, ExpiryArmed
<1> QED BY <1>1, <1>2, <1>3, <1>4 DEF Inv

\* What starting a task does to the tasks' goroutines: only one, a new one,
\* works afterwards.
LEMMA StartEffect ==
  ASSUME Inv, ~busy, NEW k \in {"job", "direct"}, Start(k)
  PROVE  /\ started' \in Tasks /\ started' = started + 1
         /\ kind' \in [Tasks -> {"job", "direct"}]
         /\ pc' \in [Tasks -> {"idle", "create", "write", "full", "serve", "over", "done"}]
         /\ pc'[started'] = "create" /\ kind'[started'] = k
         /\ \A t \in Tasks : t # started' => pc'[t] = pc[t] /\ kind'[t] = kind[t]
         /\ pc[started'] = "idle" /\ started' \notin jobs
         /\ OnePreparation'
<1> USE ExportAssumption DEF Inv
<1>1. started' \in Tasks /\ started' = started + 1 BY DEF Start, TypeOK, Tasks
<1>2. /\ kind' \in [Tasks -> {"job", "direct"}]
      /\ pc' \in [Tasks -> {"idle", "create", "write", "full", "serve", "over", "done"}]
      /\ pc'[started'] = "create" /\ kind'[started'] = k
      /\ \A t \in Tasks : t # started' => pc'[t] = pc[t] /\ kind'[t] = kind[t]
  BY <1>1 DEF Start, Set, TypeOK
<1>3. pc[started'] = "idle" /\ started' \notin jobs
  BY <1>1 DEF Shape, Unstarted, TypeOK
<1>4. \A t \in Tasks : ~Working(t) BY DEF OnePreparation
<1>5. busy' = TRUE BY DEF Start
<1>6. \A t \in Tasks : Working(t)' <=> t = started'
  BY <1>1, <1>2, <1>4 DEF Working
<1>7. OnePreparation' BY <1>1, <1>5, <1>6 DEF OnePreparation
<1> QED BY <1>1, <1>2, <1>3, <1>7

LEMMA PrepareInv == ASSUME Inv, Prepare PROVE Inv'
<1> USE ExportAssumption
<1>1. Start("job") /\ ~busy /\ ~closed BY DEF Prepare
<1> DEFINE n == started + 1
<1>2. /\ started' = n /\ n \in Tasks
      /\ kind' \in [Tasks -> {"job", "direct"}]
      /\ pc' \in [Tasks -> {"idle", "create", "write", "full", "serve", "over", "done"}]
      /\ pc'[n] = "create" /\ kind'[n] = "job"
      /\ \A t \in Tasks : t # n => pc'[t] = pc[t] /\ kind'[t] = kind[t]
      /\ pc[n] = "idle" /\ n \notin jobs
      /\ OnePreparation'
  BY <1>1, StartEffect
<1>3. /\ jobs' = jobs \cup {n} /\ armed' = armed \cup {n}
      /\ expiry' = [expiry EXCEPT ![n] = TIMEOUT + TTL]
      /\ UNCHANGED << canceled, disk, chunks, state, age, fired, closed >>
      /\ busy' = TRUE
  BY <1>2 DEF Prepare, Set, Start
<1> HIDE DEF n
<1>4. TypeOK' BY <1>2, <1>3, SMTT(30) DEF Inv, TypeOK, Tasks
<1>5. disk[n] = "none" /\ state[n] = "preparing" /\ age[n] = 0
  BY <1>2 DEF Inv, Shape, Unstarted, TypeOK, Tasks, n
<1>6. Unstarted'
  <2> SUFFICES ASSUME NEW t \in Tasks, t > started'
               PROVE  /\ pc'[t] = "idle" /\ disk'[t] = "none" /\ t \notin jobs'
                      /\ age'[t] = 0 /\ state'[t] = "preparing"
    BY DEF Unstarted
  <2>1. t > started /\ t # n BY <1>2 DEF n, Inv, TypeOK, Tasks
  <2> QED BY <2>1, <1>2, <1>3 DEF Inv, Shape, Unstarted
<1>7. FileOf' BY <1>2, <1>3, <1>5 DEF Inv, Shape, FileOf
<1>8. JobsKnown' BY <1>2, <1>3, <1>5 DEF Inv, Shape, JobsKnown, TypeOK
<1>9. Emptied' BY <1>1, <1>3 DEF Emptied
<1>10. ExpiryArmed'
  <2> SUFFICES ASSUME NEW t \in jobs'
               PROVE \/ t \in fired'
                     \/ /\ t \in armed'
                        /\ age'[t] + expiry'[t] = IF Working(t)' THEN TIMEOUT + TTL ELSE TTL
    BY DEF ExpiryArmed
  <2>1. CASE t = n BY <2>1, <1>2, <1>3, <1>5 DEF Working, Inv, TypeOK
  <2>2. CASE t # n
    <3>1. t \in jobs /\ t \in Tasks BY <2>2, <1>3 DEF Inv, TypeOK
    <3>2. Working(t)' <=> Working(t) BY <2>2, <3>1, <1>2 DEF Working
    <3>3. expiry'[t] = expiry[t] BY <2>2, <3>1, <1>3 DEF Inv, TypeOK
    <3> QED BY <3>1, <3>2, <3>3, <1>3 DEF Inv, ExpiryArmed
  <2> QED BY <2>1, <2>2
<1> QED BY <1>2, <1>4, <1>6, <1>7, <1>8, <1>9, <1>10 DEF Inv, Shape

LEMMA DirectInv == ASSUME Inv, Direct PROVE Inv'
<1> USE ExportAssumption
<1>1. Start("direct") /\ ~busy BY DEF Direct
<1> DEFINE n == started + 1
<1>2. /\ started' = n /\ n \in Tasks
      /\ kind' \in [Tasks -> {"job", "direct"}]
      /\ pc' \in [Tasks -> {"idle", "create", "write", "full", "serve", "over", "done"}]
      /\ pc'[n] = "create" /\ kind'[n] = "direct"
      /\ \A t \in Tasks : t # n => pc'[t] = pc[t] /\ kind'[t] = kind[t]
      /\ pc[n] = "idle" /\ n \notin jobs
      /\ OnePreparation'
  BY <1>1, StartEffect
<1>3. UNCHANGED << canceled, disk, chunks, jobs, state, age, expiry, armed, fired, closed >>
      /\ busy' = TRUE
  BY DEF Direct, Start, timers
<1> HIDE DEF n
<1>4. TypeOK'
  <2>1. started' \in 0..MaxTasks BY <1>2 DEF Tasks
  <2> QED BY <1>2, <1>3, <2>1 DEF Inv, TypeOK
<1>5. Unstarted'
  <2> SUFFICES ASSUME NEW t \in Tasks, t > started'
               PROVE  /\ pc'[t] = "idle" /\ disk'[t] = "none" /\ t \notin jobs'
                      /\ age'[t] = 0 /\ state'[t] = "preparing"
    BY DEF Unstarted
  <2>1. t > started /\ t # n BY <1>2 DEF n, Inv, TypeOK, Tasks
  <2> QED BY <2>1, <1>2, <1>3 DEF Inv, Shape, Unstarted
<1>6. FileOf' BY <1>2, <1>3 DEF Inv, Shape, FileOf
<1>7. JobsKnown' BY <1>2, <1>3 DEF Inv, Shape, JobsKnown, TypeOK
<1>8. Emptied' BY <1>3 DEF Inv, Shape, Emptied
<1>9. \A t \in jobs : t # n /\ t \in Tasks /\ (Working(t)' <=> Working(t))
  BY <1>2 DEF Working, Inv, TypeOK
<1>10. ExpiryArmed' BY <1>3, <1>9 DEF Inv, ExpiryArmed
<1> QED BY <1>2, <1>4, <1>5, <1>6, <1>7, <1>8, <1>10 DEF Inv, Shape

-----------------------------------------------------------------------------
\* A step of a task that goes on working, away from the lock: the jobs, their
\* states and timers are as they were.
LEMMA WorkingOn ==
  ASSUME Inv, NEW t \in Tasks, Working(t),
         NEW p \in {"write", "full", "serve", "over"},
         NEW d \in {"none", "partial", "complete"},
         pc' = [pc EXCEPT ![t] = p], disk' = [disk EXCEPT ![t] = d],
         p = "over" => d = "none", p \in {"full", "serve"} => d = "complete",
         canceled' \in [Tasks -> BOOLEAN], chunks' \in [Tasks -> 0..CHUNKS],
         UNCHANGED << started, kind, jobs, state, age, expiry, armed, fired, busy, closed >>
  PROVE  Inv'
<1>1. TypeOK' BY DEF Inv, TypeOK
<1>2. \A u \in Tasks : u # t => pc'[u] = pc[u] /\ disk'[u] = disk[u]
  BY DEF Inv, TypeOK
<1>3. pc'[t] = p /\ disk'[t] = d BY DEF Inv, TypeOK
<1>4. pc[t] # "idle" /\ pc[t] # "done" BY DEF Working
<1>5. \A u \in Tasks : Working(u)' <=> Working(u) BY <1>2, <1>3, <1>4 DEF Working
<1>6. Unstarted' BY <1>2, <1>4 DEF Inv, Shape, Unstarted
<1>7. FileOf' BY <1>2, <1>3 DEF Inv, Shape, FileOf
<1>8. JobsKnown'
  <2> SUFFICES ASSUME NEW u \in jobs
               PROVE  /\ kind[u] = "job" /\ pc'[u] # "idle"
                      /\ state[u] = "ready" => pc'[u] = "done" /\ disk'[u] = "complete"
    BY DEF JobsKnown
  <2>1. u \in Tasks BY DEF Inv, TypeOK
  <2>2. /\ kind[u] = "job" /\ pc[u] # "idle"
        /\ state[u] = "ready" => pc[u] = "done" /\ disk[u] = "complete"
    BY DEF Inv, Shape, JobsKnown
  <2> QED BY <2>1, <2>2, <1>2, <1>3, <1>4
<1>9. Emptied' BY DEF Inv, Shape, Emptied
<1>10. OnePreparation' BY <1>5 DEF Inv, OnePreparation
<1>11. \A u \in jobs : u \in Tasks BY DEF Inv, TypeOK
<1>12. ExpiryArmed' BY <1>5, <1>11 DEF Inv, ExpiryArmed
<1> QED BY <1>1, <1>6, <1>7, <1>8, <1>9, <1>10, <1>12 DEF Inv, Shape

LEMMA WritingInv ==
  ASSUME Inv, NEW t \in Tasks,
         CreateFile(t) \/ WriteEnd(t) \/ WriteFails(t) \/ Serve(t) \/ RemoveServed(t)
  PROVE  Inv'
<1> USE DEF timers, Set
<1>1. canceled \in [Tasks -> BOOLEAN] /\ chunks \in [Tasks -> 0..CHUNKS] BY DEF Inv, TypeOK
<1>2. CASE CreateFile(t)
  <2>1. Working(t) BY <1>2 DEF CreateFile, Working
  <2> QED BY <1>1, <1>2, <2>1, WorkingOn DEF CreateFile
<1>3. CASE WriteEnd(t)
  <2>1. Working(t) BY <1>3 DEF WriteEnd, Working
  <2> QED BY <1>1, <1>3, <2>1, WorkingOn DEF WriteEnd
<1>4. CASE WriteFails(t)
  <2>1. Working(t) BY <1>4 DEF WriteFails, Working
  <2> QED BY <1>1, <1>4, <2>1, WorkingOn DEF WriteFails
<1>5. CASE Serve(t)
  <2>1. Working(t) BY <1>5 DEF Serve, Working
  <2>2. disk[t] = "complete" BY <1>5 DEF Serve, Inv, Shape, FileOf
  <2>3. disk = [disk EXCEPT ![t] = "complete"] BY <2>2 DEF Inv, TypeOK
  <2> QED BY <1>1, <1>5, <2>1, <2>3, WorkingOn DEF Serve
<1>6. CASE RemoveServed(t)
  <2>1. Working(t) BY <1>6 DEF RemoveServed, Working
  <2> QED BY <1>1, <1>6, <2>1, WorkingOn DEF RemoveServed
<1> QED BY <1>2, <1>3, <1>4, <1>5, <1>6

\* Chunk counts and cancellation bear on nothing else.
LEMMA AsideInv ==
  ASSUME Inv, NEW t \in Tasks, WriteChunk(t) \/ Disconnect(t) PROVE Inv'
<1> USE DEF timers, Set
<1>1. /\ UNCHANGED << started, kind, pc, disk, jobs, state, age, expiry, armed, fired,
                      busy, closed >>
      /\ canceled' \in [Tasks -> BOOLEAN] /\ chunks' \in [Tasks -> 0..CHUNKS]
  <2>1. CASE WriteChunk(t)
    <3>1. chunks \in [Tasks -> 0..CHUNKS] BY DEF Inv, TypeOK
    <3>2. chunks[t] + 1 \in 0..CHUNKS BY <2>1, <3>1, ExportAssumption DEF WriteChunk
    <3> QED BY <2>1, <3>1, <3>2 DEF WriteChunk, Inv, TypeOK
  <2>2. CASE Disconnect(t) BY <2>2 DEF Disconnect, Inv, TypeOK
  <2> QED BY <2>1, <2>2
<1>2. TypeOK' BY <1>1 DEF Inv, TypeOK
<1>3. Shape' BY <1>1 DEF Inv, Shape, Unstarted, FileOf, JobsKnown, Emptied
<1>4. OnePreparation' BY <1>1 DEF Inv, OnePreparation, Working
<1>5. ExpiryArmed' BY <1>1 DEF Inv, ExpiryArmed, Working
<1> QED BY <1>2, <1>3, <1>4, <1>5 DEF Inv

-----------------------------------------------------------------------------
\* The end of a task: nobody works any more, and exportBusy is given back.
LEMMA LastWorker ==
  ASSUME Inv, NEW t \in Tasks, Working(t), pc' = [pc EXCEPT ![t] = "done"], busy' = FALSE
  PROVE  /\ OnePreparation'
         /\ pc'[t] = "done" /\ ~Working(t)'
         /\ \A u \in Tasks : u # t => pc'[u] = pc[u] /\ ~Working(u) /\ ~Working(u)'
<1>1. pc'[t] = "done" /\ \A u \in Tasks : u # t => pc'[u] = pc[u]
  BY DEF Inv, TypeOK
<1>2. \A u \in Tasks : u # t => ~Working(u) BY DEF Inv, OnePreparation
<1>3. \A u \in Tasks : ~Working(u)' BY <1>1, <1>2 DEF Working
<1> QED BY <1>1, <1>2, <1>3 DEF OnePreparation

LEMMA RetireInv ==
  ASSUME Inv, NEW t \in Tasks, Working(t), t \notin jobs, Retire(t),
         UNCHANGED << started, kind, canceled, chunks, jobs, fired, closed >>
  PROVE  Inv'
<1>1. /\ pc' = [pc EXCEPT ![t] = "done"] /\ disk' = [disk EXCEPT ![t] = "none"]
      /\ busy' = FALSE /\ UNCHANGED << state, age, expiry, armed >>
  BY DEF Retire, Set
<1>2. /\ OnePreparation' /\ pc'[t] = "done"
      /\ \A u \in Tasks : u # t => pc'[u] = pc[u] /\ ~Working(u) /\ ~Working(u)'
  BY <1>1, LastWorker
<1>3. TypeOK' BY <1>1 DEF Inv, TypeOK
<1>4. disk'[t] = "none" /\ \A u \in Tasks : u # t => disk'[u] = disk[u]
  BY <1>1 DEF Inv, TypeOK
<1>5. Unstarted' BY <1>1, <1>2, <1>4 DEF Inv, Shape, Unstarted, Working
<1>6. FileOf' BY <1>1, <1>2, <1>4 DEF Inv, Shape, FileOf
<1>7. \A u \in jobs : u \in Tasks /\ u # t BY DEF Inv, TypeOK
<1>8. JobsKnown' BY <1>1, <1>2, <1>4, <1>7 DEF Inv, Shape, JobsKnown
<1>9. Emptied' BY DEF Inv, Shape, Emptied
<1>10. ExpiryArmed' BY <1>1, <1>2, <1>7 DEF Inv, ExpiryArmed
<1> QED BY <1>2, <1>3, <1>5, <1>6, <1>8, <1>9, <1>10 DEF Inv, Shape

LEMMA SettleInv ==
  ASSUME Inv, NEW t \in Tasks, Working(t), t \in jobs,
         NEW ok \in BOOLEAN, ok => pc[t] = "full", Settle(t, ok),
         UNCHANGED << started, kind, canceled, chunks, jobs, fired, closed >>
  PROVE  Inv'
<1> USE ExportAssumption
<1>1. /\ pc' = [pc EXCEPT ![t] = "done"] /\ busy' = FALSE
      /\ state' = [state EXCEPT ![t] = IF ok THEN "ready" ELSE "failed"]
      /\ disk' = [disk EXCEPT ![t] = IF ok THEN disk[t] ELSE "none"]
      /\ age' = [age EXCEPT ![t] = 0] /\ expiry' = [expiry EXCEPT ![t] = TTL]
      /\ armed' = armed \cup {t}
  BY DEF Settle, Set
<1>2. /\ OnePreparation' /\ pc'[t] = "done" /\ ~Working(t)'
      /\ \A u \in Tasks : u # t => pc'[u] = pc[u] /\ ~Working(u) /\ ~Working(u)'
  BY <1>1, LastWorker
<1>3. TypeOK' BY <1>1 DEF Inv, TypeOK
<1>4. \A u \in Tasks : u # t => /\ disk'[u] = disk[u] /\ state'[u] = state[u]
                                /\ age'[u] = age[u] /\ expiry'[u] = expiry[u]
  BY <1>1 DEF Inv, TypeOK
<1>5. /\ state'[t] = (IF ok THEN "ready" ELSE "failed") /\ age'[t] = 0 /\ expiry'[t] = TTL
      /\ disk'[t] = (IF ok THEN "complete" ELSE "none")
  BY <1>1 DEF Inv, TypeOK, Shape, FileOf
<1>6. Unstarted' BY <1>2, <1>4 DEF Inv, Shape, Unstarted, Working
<1>7. FileOf' BY <1>2, <1>4, <1>5 DEF Inv, Shape, FileOf
<1>8. \A u \in jobs : u \in Tasks BY DEF Inv, TypeOK
<1>9. JobsKnown' BY <1>2, <1>4, <1>5, <1>8 DEF Inv, Shape, JobsKnown
<1>10. Emptied' BY DEF Inv, Shape, Emptied
<1>11. ExpiryArmed' BY <1>1, <1>2, <1>4, <1>5, <1>8 DEF Inv, ExpiryArmed
<1> QED BY <1>2, <1>3, <1>6, <1>7, <1>9, <1>10, <1>11 DEF Inv, Shape

LEMMA FinishInv == ASSUME Inv, NEW t \in Tasks, Finish(t) PROVE Inv'
<1>1. Working(t) BY DEF Finish, Working
<1>2. UNCHANGED << started, kind, canceled, chunks, jobs, fired, closed >> BY DEF Finish
<1>3. CASE t \notin jobs /\ Retire(t) BY <1>1, <1>2, <1>3, RetireInv
<1>4. CASE t \in jobs /\ pc[t] = "full" /\ Settle(t, TRUE) BY <1>1, <1>2, <1>4, SettleInv
<1>5. CASE t \in jobs /\ Settle(t, FALSE) BY <1>1, <1>2, <1>5, SettleInv
<1> QED BY <1>3, <1>4, <1>5 DEF Finish

LEMMA ReleaseInv == ASSUME Inv, NEW t \in Tasks, Release(t) PROVE Inv'
<1>1. Working(t) /\ kind[t] = "direct" /\ pc[t] = "over" BY DEF Release, Working
<1>2. /\ pc' = [pc EXCEPT ![t] = "done"] /\ busy' = FALSE
      /\ UNCHANGED << started, kind, canceled, disk, chunks, jobs, state, age, expiry,
                      armed, fired, closed >>
  BY DEF Release, Set, timers
<1>3. disk[t] = "none" BY <1>1 DEF Inv, Shape, FileOf
<1>4. t \notin jobs BY <1>1 DEF Inv, Shape, JobsKnown
<1>5. disk = [disk EXCEPT ![t] = "none"] BY <1>3 DEF Inv, TypeOK
<1>6. Retire(t) BY <1>2, <1>5 DEF Retire, Set
<1> QED BY <1>1, <1>2, <1>4, <1>6, RetireInv

-----------------------------------------------------------------------------
\* removeSessionExportLocked() takes files from ready jobs only.
LEMMA RemoveInv ==
  ASSUME Inv, NEW S \in SUBSET jobs, Remove(S),
         NEW F \in SUBSET Tasks, fired' = F, fired \ S \subseteq F,
         closed' \in BOOLEAN, closed' => closed \/ S = jobs,
         UNCHANGED << started, kind, pc, chunks, state, age, expiry >>
  PROVE  Inv'
<1>1. /\ jobs' = jobs \ S /\ armed' = armed \ S /\ busy' = busy
      /\ canceled' = [t \in Tasks |-> canceled[t] \/ t \in S]
      /\ disk' = [t \in Tasks |-> IF t \in S /\ state[t] = "ready" THEN "none" ELSE disk[t]]
  BY DEF Remove
<1>2. TypeOK'
  <2>1. canceled' \in [Tasks -> BOOLEAN] BY <1>1 DEF Inv, TypeOK
  <2>2. disk' \in [Tasks -> {"none", "partial", "complete"}] BY <1>1 DEF Inv, TypeOK
  <2> QED BY <1>1, <2>1, <2>2 DEF Inv, TypeOK
<1>3. \A t \in Tasks : disk'[t] = IF t \in S /\ state[t] = "ready" THEN "none" ELSE disk[t]
  BY <1>1
<1>4. \A t \in S : state[t] = "ready" => pc[t] = "done"
  BY DEF Inv, Shape, JobsKnown
<1>5. Unstarted' BY <1>1, <1>3 DEF Inv, Shape, Unstarted
<1>6. FileOf' BY <1>1, <1>3, <1>4 DEF Inv, Shape, FileOf
<1>7. JobsKnown' BY <1>1, <1>3 DEF Inv, Shape, JobsKnown, TypeOK
<1>8. Emptied' BY <1>1 DEF Inv, Shape, Emptied
<1>9. OnePreparation' BY <1>1 DEF Inv, OnePreparation, Working
<1>10. ExpiryArmed' BY <1>1 DEF Inv, ExpiryArmed, Working
<1> QED BY <1>2, <1>5, <1>6, <1>7, <1>8, <1>9, <1>10 DEF Inv, Shape

LEMMA RemovalInv == ASSUME Inv, Cancel \/ Expire \/ Close PROVE Inv'
<1>1. fired \in SUBSET Tasks /\ closed \in BOOLEAN BY DEF Inv, TypeOK
<1>2. CASE Cancel
  <2>1. PICK t \in jobs : Remove({t}) BY <1>2 DEF Cancel
  <2>2. UNCHANGED << started, kind, pc, chunks, state, age, expiry, fired, closed >>
    BY <1>2 DEF Cancel
  <2> QED BY <1>1, <2>1, <2>2, RemoveInv
<1>3. CASE Expire
  <2>1. PICK t \in fired : Remove({t} \cap jobs) /\ fired' = fired \ {t}
    BY <1>3 DEF Expire
  <2>2. UNCHANGED << started, kind, pc, chunks, state, age, expiry, closed >>
    BY <1>3 DEF Expire
  <2>3. CASE t \in jobs
    <3>1. {t} \cap jobs = {t} BY <2>3
    <3> QED BY <1>1, <2>1, <2>2, <2>3, <3>1, RemoveInv
  <2>4. CASE t \notin jobs
    <3>0. Remove({}) BY <2>1, <2>4
    <3>1. jobs' = jobs /\ armed' = armed /\ busy' = busy BY <3>0 DEF Remove
    <3>2. disk' = disk /\ canceled' = canceled
      <4>1. /\ disk' = [u \in Tasks |-> IF u \in {} /\ state[u] = "ready" THEN "none" ELSE disk[u]]
            /\ canceled' = [u \in Tasks |-> canceled[u] \/ u \in {}]
        BY <3>0 DEF Remove
      <4>2. disk' = disk BY <4>1 DEF Inv, TypeOK
      <4>3. canceled' = canceled BY <4>1 DEF Inv, TypeOK
      <4> QED BY <4>2, <4>3
    <3>3. TypeOK' BY <2>1, <2>2, <3>1, <3>2 DEF Inv, TypeOK
    <3>4. Shape' BY <2>2, <3>1, <3>2 DEF Inv, Shape, Unstarted, FileOf, JobsKnown, Emptied
    <3>5. OnePreparation' BY <2>2, <3>1 DEF Inv, OnePreparation, Working
    <3>6. ExpiryArmed' BY <2>1, <2>2, <2>4, <3>1 DEF Inv, ExpiryArmed, Working
    <3> QED BY <3>3, <3>4, <3>5, <3>6 DEF Inv
  <2> QED BY <2>3, <2>4
<1>4. CASE Close
  <2>1. Remove(jobs) /\ closed' = TRUE BY <1>4 DEF Close
  <2>2. UNCHANGED << started, kind, pc, chunks, state, age, expiry, fired >>
    BY <1>4 DEF Close
  <2> QED BY <1>1, <2>1, <2>2, RemoveInv
<1> QED BY <1>2, <1>3, <1>4

LEMMA TimerFiresInv == ASSUME Inv, TimerFires PROVE Inv'
<1>1. PICK t \in armed : armed' = armed \ {t} /\ fired' = fired \cup {t}
  BY DEF TimerFires
<1>2. UNCHANGED << started, kind, pc, canceled, disk, chunks, jobs, state, age, expiry,
                   busy, closed >>
  BY DEF TimerFires
<1>3. TypeOK' BY <1>1, <1>2 DEF Inv, TypeOK
<1>4. Shape' BY <1>2 DEF Inv, Shape, Unstarted, FileOf, JobsKnown, Emptied
<1>5. OnePreparation' BY <1>2 DEF Inv, OnePreparation, Working
<1>6. ExpiryArmed' BY <1>1, <1>2 DEF Inv, ExpiryArmed, Working
<1> QED BY <1>3, <1>4, <1>5, <1>6 DEF Inv

\* The clock: an armed timer loses what the age of its job gains.
LEMMA TickInv == ASSUME Inv, Tick PROVE Inv'
<1> USE ExportAssumption
<1>1. /\ age' = [t \in Tasks |-> IF Aging(t) THEN age[t] + 1 ELSE age[t]]
      /\ expiry' = [t \in Tasks |-> Left(t)]
      /\ \A t \in jobs : Working(t) => age[t] < TIMEOUT + OVERRUN
      /\ UNCHANGED << started, kind, pc, canceled, disk, chunks, jobs, state, armed, fired,
                      busy, closed >>
  BY DEF Tick
<1>2. TypeOK'
  <2>1. age' \in [Tasks -> Nat] BY <1>1 DEF Inv, TypeOK
  <2>2. expiry' \in [Tasks -> Nat] BY <1>1 DEF Inv, TypeOK, Left
  <2> QED BY <1>1, <2>1, <2>2 DEF Inv, TypeOK
<1>3. Shape'
  <2>1. Unstarted' BY <1>1 DEF Inv, Shape, Unstarted, Aging
  <2> QED BY <1>1, <2>1 DEF Inv, Shape, FileOf, JobsKnown, Emptied
<1>4. OnePreparation' BY <1>1 DEF Inv, OnePreparation, Working
<1>5. ExpiryArmed'
  <2> SUFFICES ASSUME NEW t \in jobs, t \notin fired
               PROVE  /\ t \in armed
                      /\ age'[t] + expiry'[t] = IF Working(t) THEN TIMEOUT + TTL ELSE TTL
    BY <1>1 DEF ExpiryArmed, Working
  <2>1. t \in armed /\ age[t] + expiry[t] = IF Working(t) THEN TIMEOUT + TTL ELSE TTL
    BY DEF Inv, ExpiryArmed
  <2>2. t \in Tasks /\ age[t] \in Nat /\ expiry[t] \in Nat BY DEF Inv, TypeOK
  <2>3. /\ age'[t] = IF Working(t) \/ age[t] < TTL THEN age[t] + 1 ELSE age[t]
        /\ expiry'[t] = IF expiry[t] > 0 THEN expiry[t] - 1 ELSE expiry[t]
    BY <1>1, <2>1, <2>2 DEF Aging, Left
  <2>4. CASE Working(t)
    <3>1. age[t] < TIMEOUT + OVERRUN BY <1>1, <2>4
    <3>2. expiry[t] > 0 BY <2>1, <2>2, <2>4, <3>1
    <3> QED BY <2>1, <2>2, <2>3, <2>4, <3>2
  <2>5. CASE ~Working(t) BY <2>1, <2>2, <2>3, <2>5
  <2> QED BY <2>4, <2>5
<1> QED BY <1>2, <1>3, <1>4, <1>5 DEF Inv

LEMMA StepInv == Inv /\ [Next]_vars => Inv'
<1> SUFFICES ASSUME Inv, [Next]_vars PROVE Inv' OBVIOUS
<1>1. CASE Prepare BY <1>1, PrepareInv
<1>2. CASE Direct BY <1>2, DirectInv
<1>3. CASE Cancel \/ Close \/ Expire BY <1>3, RemovalInv
<1>4. CASE TimerFires BY <1>4, TimerFiresInv
<1>5. CASE Tick BY <1>5, TickInv
<1>6. CASE \E t \in Tasks : Disconnect(t) \/ Work(t)
  <2>1. PICK t \in Tasks : Disconnect(t) \/ Work(t) BY <1>6
  <2> QED BY <2>1, AsideInv, WritingInv, FinishInv, ReleaseInv DEF Work
<1>7. CASE UNCHANGED vars
  <2>1. TypeOK' BY <1>7 DEF vars, Inv, TypeOK
  <2>2. Shape' BY <1>7 DEF vars, Inv, Shape, Unstarted, FileOf, JobsKnown, Emptied
  <2>3. OnePreparation' BY <1>7 DEF vars, Inv, OnePreparation, Working
  <2>4. ExpiryArmed' BY <1>7 DEF vars, Inv, ExpiryArmed, Working
  <2> QED BY <2>1, <2>2, <2>3, <2>4 DEF Inv
<1> QED BY <1>1, <1>2, <1>3, <1>4, <1>5, <1>6, <1>7 DEF Next

LEMMA Invariance == Spec => []Inv
BY InitInv, StepInv, PTL DEF Spec

-----------------------------------------------------------------------------
\* Every reachable state is typed.
THEOREM TypeCorrect == Spec => []TypeOK
<1>1. Inv => TypeOK BY DEF Inv
<1> QED BY <1>1, Invariance, PTL

\* exportBusy is a lock: at most one task works on a file, and the flag is
\* set exactly while one does, whatever is canceled, expired or closed.
THEOREM OneAtATime == Spec => []OnePreparation
<1>1. Inv => OnePreparation BY DEF Inv
<1> QED BY <1>1, Invariance, PTL

\* No temp file outlives the task that writes it or the job that offers it.
THEOREM FilesOwned == Spec => []NoOrphanFile
<1>1. Inv => NoOrphanFile
  BY DEF Inv, TypeOK, Shape, FileOf, NoOrphanFile, Files, Working
<1> QED BY <1>1, Invariance, PTL

\* What is offered for download is a complete file.
THEOREM ReadyComplete == Spec => []ReadyIsComplete
<1>1. Inv => ReadyIsComplete BY DEF Inv, Shape, JobsKnown, ReadyIsComplete
<1> QED BY <1>1, Invariance, PTL

\* No job can be forgotten in the map: each has an exact timer, or its
\* removal is on its way.
THEOREM AlwaysExpiring == Spec => []ExpiryArmed
<1>1. Inv => ExpiryArmed BY DEF Inv
<1> QED BY <1>1, Invariance, PTL

\* Once closeSessionExports() has returned nothing of a job is left.
THEOREM ClosedForGood == Spec => []NothingAfterClose
<1>1. Inv => NothingAfterClose
  BY DEF Inv, TypeOK, Shape, FileOf, Emptied, NothingAfterClose, Files, Working
<1> QED BY <1>1, Invariance, PTL

-----------------------------------------------------------------------------
\* The map never holds more than MaxJobs jobs.
SlotsBounded == IsFiniteSet(jobs) /\ Cardinality(jobs) <= MaxJobs

LEMMA SlotsStep == Inv /\ SlotsBounded /\ [Next]_vars => SlotsBounded'
<1> SUFFICES ASSUME Inv, SlotsBounded, [Next]_vars PROVE SlotsBounded' OBVIOUS
<1> USE ExportAssumption
<1>1. CASE Prepare
  <2>1. jobs' = jobs \cup {started'} /\ Cardinality(jobs) < MaxJobs BY <1>1 DEF Prepare
  <2>2. /\ IsFiniteSet(jobs')
        /\ Cardinality(jobs') = IF started' \in jobs THEN Cardinality(jobs)
                                                     ELSE Cardinality(jobs) + 1
    BY <2>1, FS_AddElement DEF SlotsBounded
  <2>3. Cardinality(jobs) \in Nat BY FS_CardinalityType DEF SlotsBounded
  <2> QED BY <2>1, <2>2, <2>3 DEF SlotsBounded
<1>2. CASE ~Prepare
  <2>1. jobs' \subseteq jobs
    BY <1>2 DEF Next, Direct, Cancel, Close, TimerFires, Expire, Tick, Disconnect, Work,
                CreateFile, WriteChunk, WriteEnd, WriteFails, Finish, Serve, RemoveServed,
                Release, Remove, vars
  <2>2. /\ IsFiniteSet(jobs') /\ Cardinality(jobs') <= Cardinality(jobs)
    BY <2>1, FS_Subset DEF SlotsBounded
  <2>3. Cardinality(jobs) \in Nat /\ Cardinality(jobs') \in Nat
    BY <2>2, FS_CardinalityType DEF SlotsBounded
  <2> QED BY <2>2, <2>3 DEF SlotsBounded
<1> QED BY <1>1, <1>2

LEMMA SlotsInit == Init => SlotsBounded
BY ExportAssumption, FS_EmptySet DEF Init, SlotsBounded

\* The files are those of the ready jobs and the one of the running task.
LEMMA FewFiles == Inv /\ SlotsBounded => FilesBounded
<1> SUFFICES ASSUME Inv, SlotsBounded PROVE FilesBounded OBVIOUS
<1> USE ExportAssumption
<1>1. Files \subseteq jobs \cup {t \in Tasks : Working(t)}
  BY DEF Inv, TypeOK, Shape, FileOf, Files, Working
<1>2. Cardinality(jobs) \in Nat BY FS_CardinalityType DEF SlotsBounded
<1>3. CASE \E t \in Tasks : Working(t)
  <2>1. PICK w \in Tasks : Working(w) BY <1>3
  <2>2. Files \subseteq jobs \cup {w} BY <1>1, <2>1 DEF Inv, OnePreparation
  <2>3. /\ IsFiniteSet(jobs \cup {w})
        /\ Cardinality(jobs \cup {w}) = IF w \in jobs THEN Cardinality(jobs)
                                                      ELSE Cardinality(jobs) + 1
    BY FS_AddElement DEF SlotsBounded
  <2>4. IsFiniteSet(Files) /\ Cardinality(Files) <= Cardinality(jobs \cup {w})
    BY <2>2, <2>3, FS_Subset
  <2>5. Cardinality(Files) \in Nat BY <2>4, FS_CardinalityType
  <2> QED BY <1>2, <2>3, <2>4, <2>5 DEF SlotsBounded, FilesBounded
<1>4. CASE ~ \E t \in Tasks : Working(t)
  <2>1. Files \subseteq jobs BY <1>1, <1>4
  <2>2. IsFiniteSet(Files) /\ Cardinality(Files) <= Cardinality(jobs)
    BY <2>1, FS_Subset DEF SlotsBounded
  <2>3. Cardinality(Files) \in Nat BY <2>2, FS_CardinalityType
  <2> QED BY <1>2, <2>2, <2>3 DEF SlotsBounded, FilesBounded
<1> QED BY <1>3, <1>4

\* There are never more than MaxJobs + 1 temp files.
THEOREM FilesStayBounded == Spec => []FilesBounded
BY Invariance, SlotsInit, SlotsStep, FewFiles, PTL DEF Spec
=============================================================================
