----------------------------- MODULE MCDispatch -----------------------------
(* Instances of Dispatch for TLC. *)
EXTENDS Dispatch

OneRedriver == {"sweep1"}
BothClients == {"sdk", "broker"}
OnlySdk == {"sdk"}
Conns == [c \in Clients |-> 2]

=============================================================================
