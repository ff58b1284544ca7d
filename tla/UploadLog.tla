------------------------------ MODULE UploadLog ------------------------------
(***************************************************************************)
(* What the ingest endpoint promises the tracker, whatever happens between *)
(* them: only batches that were sent are stored, a batch is acknowledged   *)
(* only when it is stored or was stored and has been erased since, and     *)
(* acknowledgements and erasures are never taken back.                     *)
(***************************************************************************)
CONSTANT Batches

VARIABLES offered,   \* batches the tracker has sent
          stored,    \* batches with a row in the database
          acked,     \* batches answered with 200
          erased     \* batches that have been deleted at least once

vars == << offered, stored, acked, erased >>

Init == offered = {} /\ stored = {} /\ acked = {} /\ erased = {}

Offer(b) ==
  /\ offered' = offered \cup {b}
  /\ UNCHANGED << stored, acked, erased >>

Store(b) ==
  /\ b \in offered
  /\ stored' = stored \cup {b}
  /\ UNCHANGED << offered, acked, erased >>

Acknowledge(b) ==
  /\ b \in stored \cup erased
  /\ acked' = acked \cup {b}
  /\ UNCHANGED << offered, stored, erased >>

\* One statement that is a whole transaction stores and acknowledges at once.
StoreAndAcknowledge(b) ==
  /\ b \in offered
  /\ stored' = stored \cup {b} /\ acked' = acked \cup {b}
  /\ UNCHANGED << offered, erased >>

Erase(S) ==
  /\ S \subseteq stored
  /\ stored' = stored \ S /\ erased' = erased \cup S
  /\ UNCHANGED << offered, acked >>

Next ==
  \/ \E b \in Batches : Offer(b) \/ Store(b) \/ Acknowledge(b) \/ StoreAndAcknowledge(b)
  \/ \E S \in SUBSET Batches : Erase(S)

Spec == Init /\ [][Next]_vars
=============================================================================
