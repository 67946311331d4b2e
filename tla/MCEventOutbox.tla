--------------------------- MODULE MCEventOutbox ----------------------------
(* Instances of EventOutbox for TLC. *)
EXTENDS EventOutbox, TLC

CONSTANTS s1, s2, w1, w2

OneSub == {s1}
TwoSubs == {s1, s2}
OneWorker == {w1}
TwoWorkers == {w1, w2}
OneDelay == [k \in {1} |-> 1]
OutboxSymmetry == Permutations(Workers) \cup Permutations(Subs)
=============================================================================
