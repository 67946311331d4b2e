----------------------------- MODULE MCHttpPush -----------------------------
(* Instances of HttpPush for TLC. *)
EXTENDS HttpPush, TLC

CONSTANTS d1, d2, d3

ThreeDispatchers == {d1, d2, d3}
DispatcherSymmetry == Permutations(ThreeDispatchers)

=============================================================================
