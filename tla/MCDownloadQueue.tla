--------------------------- MODULE MCDownloadQueue ---------------------------
(* Instances of DownloadQueue for TLC. *)
EXTENDS DownloadQueue, TLC

CONSTANTS t1, t2, t3, f1, f2, w1, w2

\* t1 is the more urgent download.
MCUrgency == [id \in TaskIds |-> IF id = t1 THEN 1 ELSE 0]

WorkerSymmetry == Permutations(Workers)

WorkerAndFileSymmetry == Permutations(Workers) \cup Permutations(Files)
=============================================================================
