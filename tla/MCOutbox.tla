------------------------------ MODULE MCOutbox ------------------------------
(* Instances of Outbox for TLC. *)
EXTENDS Outbox, TLC

CONSTANTS k1, k2, w1, w2, w3

\* Both processes run with the default settings.worker.
SharedWorkerId == [w \in Workers |-> 1]

\* Each process has a worker id of its own.
OwnWorkerId == [w \in Workers |-> IF w = w1 THEN 1 ELSE 2]

Attempts2 == [k \in Keys |-> 2]

\* The first record may be retried once, the others not at all.
Attempts21 == [k \in Keys |-> IF k = k1 THEN 2 ELSE 1]

WorkerSymmetry == Permutations(Workers)
=============================================================================
