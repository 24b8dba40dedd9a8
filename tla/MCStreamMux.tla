----------------------------- MODULE MCStreamMux -----------------------------
(* Instances of StreamMux: identifiers 0 and 1 share a shard, 2 and 3 another. *)
EXTENDS StreamMux

CONSTANTS r1, d1

\* Requests can be concluded after their answer: two frames; a transfer waits sooner.
MCBuffer == [s \in Streams |-> IF s \in Transfers THEN 1 ELSE 2]

MCShard == [i \in Ids |-> (i \div 2) % 2]
=============================================================================
