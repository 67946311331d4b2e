------------------------------- MODULE Mailbox -------------------------------
(***************************************************************************)
(* What the delivery queue promises, without the tables, batches and       *)
(* sweeps that implement it: every accepted delivery is outstanding until  *)
(* it is read or dropped, both for good; a recipient's deliveries are      *)
(* numbered in the order they were accepted, and the cumulative cursor     *)
(* never passes a delivery that is still outstanding.                      *)
(***************************************************************************)
EXTENDS Integers

CONSTANTS Agents, MsgIds

VARIABLES
  box,     \* where each delivery is
  seq,     \* its number in the recipient's stream, 0 before it is accepted
  cursor   \* the recipient's cumulative cursor

boxVars == <<box, seq, cursor>>

Items == MsgIds \X Agents

Places == {"absent", "open", "parked", "read", "dropped", "gone"}

\* open: to be delivered; parked: the recipient reported a failure and may
\* reopen it; gone: removed by retention.
Moves == {<<"open", "parked">>, <<"open", "read">>, <<"open", "dropped">>,
          <<"open", "gone">>, <<"parked", "open">>, <<"parked", "read">>,
          <<"parked", "gone">>, <<"read", "gone">>, <<"dropped", "gone">>}

Outstanding == {"open", "parked"}

BoxInit ==
  /\ box = [i \in Items |-> "absent"]
  /\ seq = [i \in Items |-> 0]
  /\ cursor = [a \in Agents |-> 0]

\* A message is accepted for a set of recipients, in each case with a number
\* above every number that recipient's stream has used or acknowledged.
Accept(m) ==
  /\ \A i \in Items : box'[i] # box[i] =>
       /\ i[1] = m
       /\ box[i] = "absent" /\ box'[i] = "open"
       /\ seq'[i] > cursor[i[2]]
       /\ \A k \in Items : k[2] = i[2] => seq[k] < seq'[i]
  /\ \A i \in Items : box'[i] = box[i] => seq'[i] = seq[i]
  /\ cursor' = cursor

\* Deliveries move, each along one of the permitted moves.
Move ==
  /\ \A i \in Items : box'[i] = box[i] \/ <<box[i], box'[i]>> \in Moves
  /\ seq' = seq
  /\ cursor' = cursor

\* A cumulative acknowledgement: nothing at or below the new cursor is left
\* outstanding.
Acknowledge(a) ==
  /\ \A i \in Items : box'[i] # box[i] =>
       i[2] = a /\ box[i] \in Outstanding /\ box'[i] = "read"
  /\ seq' = seq
  /\ cursor' = [cursor EXCEPT ![a] = cursor'[a]]
  /\ cursor'[a] \in Nat /\ cursor'[a] >= cursor[a]
  /\ \A i \in Items : i[2] = a /\ box'[i] \in Outstanding => seq[i] > cursor'[a]

BoxNext ==
  \/ \E m \in MsgIds : Accept(m)
  \/ Move
  \/ \E a \in Agents : Acknowledge(a)

BoxSpec == BoxInit /\ [][BoxNext]_boxVars
=============================================================================
