------------------------- MODULE MCActionInvocation -------------------------
(* Instances of ActionInvocation for TLC. *)
EXTENDS ActionInvocation, TLC

CONSTANTS n1, n2, a1, a2, w1, w2, g1, g2

OneNode == {n1}
TwoNodes == {n1, n2}
TwoAgents == {a1, a2}
SameNode == [a \in Agents |-> n1]
TwoWorkers == {w1, w2}
\* A task action queues in these instances; the others do or do not.
SomeModes == {m \in [queue : BOOLEAN, task : BOOLEAN] : m.task => m.queue}
TwoGens == {g1, g2}
Symmetry == Permutations(Workers) \cup Permutations(Gens) \cup Permutations(Agents)
=============================================================================
