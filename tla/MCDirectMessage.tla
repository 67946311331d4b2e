-------------------------- MODULE MCDirectMessage --------------------------
(* Instances of DirectMessage for TLC. *)
EXTENDS DirectMessage, TLC

CONSTANTS r1, r2, s1, p1, p2

TwoRequests == {r1, r2}
OneSweeper == {s1}
TwoPayloads == {p1, p2}
Posts == [kind |-> "post", kv |-> TRUE, bodies |-> TwoPayloads, peers |-> 0]
Direct == [kind |-> "dm", kv |-> TRUE, bodies |-> TwoPayloads, peers |-> 0]
Federated == [kind |-> "dm", kv |-> FALSE, bodies |-> {p1}, peers |-> 1]
AllSites == {Posts, Direct, Federated}

RequestSymmetry == Permutations(TwoRequests)
=============================================================================
