------------------------------ MODULE MCReplay ------------------------------
EXTENDS Replay

\* The first snapshot in the second chunk and one late in its chunk; snapshots
\* far apart, one of them the last event; no index.
Recorded == { [chunks |-> << "plain", "key", "plain", "late", "plain" >>, indexed |-> TRUE],
           [chunks |-> << "key", "plain", "key", "plain", "late" >>, indexed |-> TRUE],
           [chunks |-> << "key", "plain" >>, indexed |-> FALSE] }
=============================================================================
