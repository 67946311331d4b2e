------------------------- MODULE MCSpawnInvocation -------------------------
(* Instances of SpawnInvocation for TLC. *)
EXTENDS SpawnInvocation, TLC

CONSTANTS i1, i2, n1, w1, w2

OneInvocation == {i1}
TwoInvocations == {i1, i2}
OneNode == {n1}
TwoWorkers == {w1, w2}
NamedTarget == [i \in Inv |-> n1]
WorkerSymmetry == Permutations(Workers)
=============================================================================
