------------------------- MODULE MCDeliveryWaiters --------------------------
(* Instances of DeliveryWaiters for TLC. *)
EXTENDS DeliveryWaiters

CONSTANTS p1, p2, r1

TwoPollers == {p1, p2}
OneRow == {r1}

=============================================================================
