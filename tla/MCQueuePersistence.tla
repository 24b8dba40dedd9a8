-------------------------- MODULE MCQueuePersistence --------------------------
(* Instances of QueuePersistence for TLC: task a belongs to alice, b to bob. *)
EXTENDS QueuePersistence, TLC

CONSTANTS alice, bob, a1, b1, s1, s2

MCOwner == [id \in TaskIds |-> IF id = a1 THEN alice ELSE bob]

ThreadSymmetry == Permutations(Threads)
=============================================================================
