----------------------------- MODULE MCDelivery -----------------------------
(* A small instance of Delivery for TLC: one mailbox, two sweepers. *)
EXTENDS Delivery, TLC

CONSTANTS a1, n1, w1, w2

OneAgent == {a1}
OneNode == {n1}
HomeOne == [a \in Agents |-> n1]
TwoSweepers == {w1, w2}

SweeperSymmetry == Permutations(TwoSweepers)
=============================================================================
