--------------------------- MODULE MCChunkTransfer ---------------------------
(* Instances of ChunkTransfer. *)
EXTENDS ChunkTransfer, TLC

AttemptSymmetry == Permutations(Attempts)
=============================================================================
