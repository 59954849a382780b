------------------------- MODULE MCCheckpointStore -------------------------
(***************************************************************************)
(* A small instance of CheckpointStore: checkpoints of one stream.         *)
(***************************************************************************)
EXTENDS CheckpointStore, TLC

CONSTANTS p1, p2

Checkpoint(generation, previous, payload, records, sequence) ==
    [generation |-> generation, previous |-> previous, payload |-> payload,
     records |-> records, head |-> records, trust |-> 1,
     replay |-> [epoch |-> 1, token |-> 1, sequence |-> sequence]]

\* Two first checkpoints.  Three that name a1 as the one before: a2; b2, with a1's
\* payload and a replay window begun again under a higher token; and w2, which begins
\* it again under the same token and so never follows.  a3 comes after a2.
MCContent ==
    [a1 |-> Checkpoint(1, Zero, "s1", 1, 1),
     b1 |-> Checkpoint(1, Zero, "s2", 1, 2),
     a2 |-> Checkpoint(2, "a1", "s2", 2, 2),
     b2 |-> [Checkpoint(2, "a1", "s1", 1, 0) EXCEPT !.replay.token = 2],
     w2 |-> Checkpoint(2, "a1", "s1", 1, 0),
     a3 |-> Checkpoint(3, "a2", "s3", 2, 2)]

Symmetry == Permutations(Procs)
=============================================================================
