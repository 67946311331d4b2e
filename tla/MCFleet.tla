------------------------------- MODULE MCFleet -------------------------------
(* Instances of Fleet for TLC. *)
EXTENDS Fleet, TLC

CONSTANTS p1, p2, a1, i1, w1, w2

TwoProviders == {p1, p2}
OneProvider == {p1}
OneAgent == {a1}
OneInvocation == {i1}
TwoWorkers == {w1, w2}
OnFirst == [a \in Agents |-> p1]
Symmetry == Permutations(Workers)
=============================================================================
