------------------------------ MODULE Delivery ------------------------------
(***************************************************************************)
(* The durable delivery queue of the engine: the `deliveries` table, the   *)
(* two sequence counters of `agents` and the read state they drive         *)
(* (engine/delivery.ts, engine/deliveryWrites.ts, engine/receipt.ts,       *)
(* engine/workspaceDeliveryPolicy.ts and the writes other parts of the     *)
(* engine make to a delivery row).                                         *)
(*                                                                         *)
(* One action is one atomic write of the database.  An operation whose     *)
(* writes are separated by an await (the cumulative ack, the two           *)
(* dead-letter sweeps) is one action per write, and what it carries over   *)
(* the await is in `acks` and `sweeps`.  A read that can only select an    *)
(* early return has no action: the write that follows it re-evaluates the  *)
(* same condition in its WHERE clause.                                     *)
(***************************************************************************)
EXTENDS Integers, FiniteSets

CONSTANTS
  Agents,     \* recipients of one workspace
  MaxMsg,     \* bound: how many messages are posted
  Nodes,      \* nodes, whose sockets carry delivery.ack and that host agents
  WsNodes,    \* those of kind ws; an http_push or poll node is never unreachable
  Home,       \* deliveries.location_node_id of each recipient's rows
  Unrouted,   \* its value NULL, of a recipient that no node hosts
  Sweepers,   \* concurrent invocations of the dead-letter sweeps
  DepthCap,   \* mailbox depth cap of one recipient
  Cap,        \* workspace cap on active deliveries
  Reserve,    \* the part of Cap that broadcasts may not use
  Batch,      \* DELIVERY_EXPIRY_BATCH_SIZE: rows per chunk of an ack or a sweep
  OverAck     \* how far up_to_seq may lie beyond the allocated sequence

ASSUME MsgAssumption == MaxMsg \in Nat
ASSUME AgentAssumption == IsFiniteSet(Agents)
ASSUME NodeAssumption == /\ WsNodes \subseteq Nodes
                         /\ Unrouted \notin Nodes
                         /\ Home \in [Agents -> Nodes \cup {Unrouted}]
ASSUME BoundAssumption == /\ DepthCap \in Nat \ {0}
                          /\ Cap \in Nat \ {0}
                          /\ Reserve \in 0..(Cap - 1)
                          /\ Batch \in Nat \ {0}
                          /\ OverAck \in Nat

VARIABLES
  status,      \* deliveries.status of every (message, recipient)
  seq,         \* deliveries.seq; kept after the row is pruned
  expired,     \* rows whose expires_at has passed
  deliverySeq, \* agents.delivery_seq, the allocation high-water mark
  ackSeq,      \* agents.delivery_ack_seq, the cumulative ack cursor
  receipts,    \* read_receipts
  lastRead,    \* last_read_id of the recipient in the conversation, 0 is NULL
  posted,      \* messages that were committed
  deleted,     \* those that retention has deleted
  released,    \* agents whose name was released
  stale,       \* ws nodes that are offline for longer than the grace
  acks,        \* delivery.ack frames being executed, one per node's control lock
  sweeps,      \* dead-letter batches that were read and not yet written
  notices      \* delivery.failed notices made for the sender of each row

mailboxVars == <<status, seq, deliverySeq, ackSeq>>
readVars == <<receipts, lastRead>>
envVars == <<expired, posted, deleted, released, stale>>
jobVars == <<acks, sweeps, notices>>
vars == <<status, seq, deliverySeq, ackSeq, receipts, lastRead,
          expired, posted, deleted, released, stale, acks, sweeps, notices>>

\* Message ids are snowflakes, ordered by creation.
MsgIds == 1..MaxMsg
Rows == MsgIds \X Agents
Msg(r) == r[1]
Recipient(r) == r[2]

Active == {"queued", "delivered"}
Ackable == {"queued", "delivered", "failed"}
Settled == {"acked", "dead_lettered"}
Statuses == Ackable \cup Settled \cup {"none", "pruned"}

AckJobs == [node : Nodes, agent : Agents, upTo : Nat, todo : SUBSET Rows]
SweepJobs == [by : Sweepers, due : SUBSET Rows, kind : {"ttl", "unreachable"}]

-----------------------------------------------------------------------------
(* Depth and admission *)

\* Active rows that are not past expires_at: the only ones a cap counts.
Live(S) == {r \in S : status[r] \in Active /\ r \notin expired}

WorkspaceDepth == Cardinality(Live(Rows))
AgentDepth(a) == Cardinality(Live(MsgIds \X {a}))
BelowDepthCap(a) == AgentDepth(a) < DepthCap

WorkspaceGrowthLimit(audience) ==
  IF audience = "broadcast" THEN Cap - Reserve ELSE Cap

\* Mutant: the next number above the rows that still exist, without the
\* high-water mark of migration 0029.
BugSeqFromRows(a) ==
  Cardinality({m \in MsgIds : status[<<m, a>>] \notin {"none", "pruned"}}) + 1

NextDeliverySeq(a) ==
  (IF deliverySeq[a] < ackSeq[a] THEN ackSeq[a] ELSE deliverySeq[a]) + 1

\* The INSERT ... SELECT of a message and its delivery rows, one atomic
\* write: seq is allocated and the high-water trigger fires in the statement.
InsertDeliveries(m, C) ==
  /\ posted' = posted \cup {m}
  /\ status' = [r \in Rows |-> IF r \in {m} \X C THEN "queued" ELSE status[r]]
  /\ seq' = [r \in Rows |->
               IF r \in {m} \X C THEN NextDeliverySeq(Recipient(r)) ELSE seq[r]]
  /\ deliverySeq' = [a \in Agents |->
                       IF a \in C THEN NextDeliverySeq(a) ELSE deliverySeq[a]]
  /\ UNCHANGED <<ackSeq, expired, deleted, released, stale>>
  /\ UNCHANGED readVars
  /\ UNCHANGED jobVars

\* The workspace guard refuses the whole write, never a part of the fanout.
Admitted(C, audience) ==
  C = {} \/ WorkspaceDepth + Cardinality(C) <= WorkspaceGrowthLimit(audience)

\* A channel message: R is the membership that is neither the sender, muted
\* nor long offline; a member at its depth cap is left out of the fanout.
PostChannel(m, R) ==
  /\ m \notin posted
  /\ R \cap released = {}
  /\ LET C == {a \in R : BelowDepthCap(a)}
     IN  /\ Admitted(C, "broadcast")
         /\ InsertDeliveries(m, C)

\* An inbound webhook post: any member at its depth cap aborts the write.
PostStrict(m, R) ==
  /\ m \notin posted
  /\ R \cap released = {}
  /\ \A a \in R : BelowDepthCap(a)
  /\ Admitted(R, "broadcast")
  /\ InsertDeliveries(m, R)

\* A group DM: as a channel message, but it may use the reserve.
PostGroupDm(m, R) ==
  /\ m \notin posted
  /\ R \cap released = {}
  /\ LET C == {a \in R : BelowDepthCap(a)}
     IN  /\ Admitted(C, "targeted")
         /\ InsertDeliveries(m, C)

\* A direct message: the recipient id was resolved before the write, so it
\* may have been released in between.
PostDirect(m, a) ==
  /\ m \notin posted
  /\ LET C == {b \in {a} : BelowDepthCap(b)}
     IN  /\ Admitted(C, "targeted")
         /\ InsertDeliveries(m, C)

-----------------------------------------------------------------------------
(* Transitions of one row.  The caller was authenticated before the write, so *)
(* the recipient may have been released in between.                          *)

Later(i, j) == IF i < j THEN j ELSE i

\* Mutant: the read cursor is set, not advanced.
BugAckRowsSetsCursor(a, R) ==
  LET U == {r \in R : status[r] \in Ackable}
  IN  /\ status' = [r \in Rows |-> IF r \in U THEN "acked" ELSE status[r]]
      /\ receipts' = receipts \cup U
      /\ lastRead' = IF U = {} THEN lastRead
                     ELSE [lastRead EXCEPT ![a] = Msg(CHOOSE r \in U : TRUE)]

\* The batch of ackRows: read receipts and read cursors are written for the
\* rows that are still ackable, then those rows become acked.
AckRows(a, R) ==
  LET U == {r \in R : status[r] \in Ackable}
  IN  /\ status' = [r \in Rows |-> IF r \in U THEN "acked" ELSE status[r]]
      /\ receipts' = receipts \cup U
      /\ \E n \in {lastRead[a]} \cup {Msg(r) : r \in U} :
           /\ lastRead[a] <= n /\ \A r \in U : Msg(r) <= n
           /\ lastRead' = [lastRead EXCEPT ![a] = n]

\* Mutant: a single ack advances the cumulative cursor to its own seq.
BugAckDeliveryMovesCursor(r) ==
  /\ status[r] \in Ackable
  /\ AckRows(Recipient(r), {r})
  /\ ackSeq' = [ackSeq EXCEPT ![Recipient(r)] = Later(@, seq[r])]
  /\ UNCHANGED <<seq, deliverySeq>>
  /\ UNCHANGED envVars
  /\ UNCHANGED jobVars

\* A single ack may be out of order, so the cumulative cursor stays.
AckDelivery(r) ==
  /\ status[r] \in Ackable
  /\ AckRows(Recipient(r), {r})
  /\ UNCHANGED <<seq, deliverySeq, ackSeq>>
  /\ UNCHANGED envVars
  /\ UNCHANGED jobVars

FailDelivery(r) ==
  /\ status[r] \in Active
  /\ status' = [status EXCEPT ![r] = "failed"]
  /\ UNCHANGED <<seq, deliverySeq, ackSeq>>
  /\ UNCHANGED readVars
  /\ UNCHANGED envVars
  /\ UNCHANGED jobVars

\* Back to queued.  Only failed -> queued grows the active depth, and only it
\* is refused at the workspace cap; an expired row is not counted at all.
DeferDelivery(r) ==
  /\ status[r] \in Ackable
  /\ status[r] = "failed" /\ r \notin expired
       => WorkspaceDepth < WorkspaceGrowthLimit("targeted")
  /\ status' = [status EXCEPT ![r] = "queued"]
  /\ UNCHANGED <<seq, deliverySeq, ackSeq>>
  /\ UNCHANGED readVars
  /\ UNCHANGED envVars
  /\ UNCHANGED jobVars

MarkDelivered(r) ==
  /\ status[r] = "queued"
  /\ status' = [status EXCEPT ![r] = "delivered"]
  /\ UNCHANGED <<seq, deliverySeq, ackSeq>>
  /\ UNCHANGED readVars
  /\ UNCHANGED envVars
  /\ UNCHANGED jobVars

\* POST /messages/:id/read: the receipt is written whatever the delivery's
\* status (or if there is none); only an active delivery becomes acked.
MarkRead(m, a) ==
  /\ m \in posted \ deleted
  /\ receipts' = receipts \cup {<<m, a>>}
  /\ status' = [status EXCEPT ![<<m, a>>] = IF @ \in Active THEN "acked" ELSE @]
  /\ lastRead' = [lastRead EXCEPT ![a] = Later(@, m)]
  /\ UNCHANGED <<seq, deliverySeq, ackSeq>>
  /\ UNCHANGED envVars
  /\ UNCHANGED jobVars

-----------------------------------------------------------------------------
(* ackDeliveriesUpToSeq: delivery.ack {agent, up_to_seq} from a node *)

\* The read: every unsettled row of the agent at or below up_to_seq.  The
\* node's control lock admits one frame at a time; the agent may be moved to
\* another node while the frame is executed.
AckUpToRead(n, a, u) ==
  /\ \A j \in acks : j.node # n
  /\ u > ackSeq[a]
  /\ acks' = acks \cup
       {[node |-> n, agent |-> a, upTo |-> u,
         todo |-> {r \in MsgIds \X {a} : status[r] \in Ackable /\ seq[r] <= u}]}
  /\ UNCHANGED mailboxVars
  /\ UNCHANGED readVars
  /\ UNCHANGED envVars
  /\ UNCHANGED <<sweeps, notices>>

\* pending.slice: the next Batch rows in ascending seq.
Chunk(S) == {r \in S : Cardinality({q \in S : seq[q] < seq[r]}) < Batch}

\* Mutant: every chunk moves the cursor to up_to_seq.
BugCursorWithEveryChunk(j) ==
  LET chunk == Chunk(j.todo)
  IN  /\ AckRows(j.agent, chunk)
      /\ ackSeq' = [ackSeq EXCEPT ![j.agent] = Later(@, j.upTo)]
      /\ acks' = (acks \ {j}) \cup
           IF chunk = j.todo THEN {} ELSE {[j EXCEPT !.todo = @ \ chunk]}
      /\ UNCHANGED <<seq, deliverySeq>>
      /\ UNCHANGED envVars
      /\ UNCHANGED <<sweeps, notices>>

\* One chunk is one atomic batch; the cursor moves only with the last one.
AckUpToWrite(j) ==
  LET chunk == Chunk(j.todo)
      last == chunk = j.todo
  IN  /\ AckRows(j.agent, chunk)
      /\ ackSeq' = IF last THEN [ackSeq EXCEPT ![j.agent] = Later(@, j.upTo)]
                           ELSE ackSeq
      /\ acks' = (acks \ {j}) \cup
           IF last THEN {} ELSE {[j EXCEPT !.todo = @ \ chunk]}
      /\ UNCHANGED <<seq, deliverySeq>>
      /\ UNCHANGED envVars
      /\ UNCHANGED <<sweeps, notices>>

\* The process dies, or a chunk's batch is rejected, before the next chunk.
AckUpToAbort(j) ==
  /\ acks' = acks \ {j}
  /\ UNCHANGED mailboxVars
  /\ UNCHANGED readVars
  /\ UNCHANGED envVars
  /\ UNCHANGED <<sweeps, notices>>

-----------------------------------------------------------------------------
(* Dead-lettering: TTL expiry, unreachable nodes, agent release *)

Unreachable(r) == Home[Recipient(r)] \in stale

DueRows(kind) ==
  {r \in Rows : /\ status[r] \in Active
                /\ IF kind = "ttl" THEN r \in expired ELSE Unreachable(r)}

\* The read of one batch: at most Batch of the due rows, the oldest first
\* (which ones those are is a matter of timestamps and left open).
SweepRead(w, kind, D) ==
  /\ \A s \in sweeps : s.by # w
  /\ D # {} /\ D \subseteq DueRows(kind)
  /\ Cardinality(D) <= Batch
  /\ Cardinality(D) < Batch => D = DueRows(kind)
  /\ sweeps' = sweeps \cup {[by |-> w, due |-> D, kind |-> kind]}
  /\ UNCHANGED mailboxVars
  /\ UNCHANGED readVars
  /\ UNCHANGED envVars
  /\ UNCHANGED <<acks, notices>>

\* Mutant: the UPDATE does not look at the node again.
BugSweepTrustsRead(s) == {r \in s.due : status[r] \in Active}

\* The rows the guarded UPDATE of a batch still matches.
SweepHits(s) ==
  {r \in s.due : /\ status[r] \in Active
                 /\ s.kind = "unreachable" => Unreachable(r)}

\* Mutant: notices are made from the rows that were read.
BugNoticeEveryDueRow(s) ==
  /\ status' = [r \in Rows |-> IF r \in SweepHits(s) THEN "dead_lettered" ELSE status[r]]
  /\ notices' = [r \in Rows |-> IF r \in s.due THEN notices[r] + 1 ELSE notices[r]]
  /\ sweeps' = sweeps \ {s}
  /\ UNCHANGED <<seq, deliverySeq, ackSeq>>
  /\ UNCHANGED readVars
  /\ UNCHANGED envVars
  /\ UNCHANGED acks

\* The write, and the notice made for every row it changed.
SweepWrite(s) ==
  /\ status' = [r \in Rows |-> IF r \in SweepHits(s) THEN "dead_lettered" ELSE status[r]]
  /\ notices' = [r \in Rows |-> IF r \in SweepHits(s) THEN notices[r] + 1 ELSE notices[r]]
  /\ sweeps' = sweeps \ {s}
  /\ UNCHANGED <<seq, deliverySeq, ackSeq>>
  /\ UNCHANGED readVars
  /\ UNCHANGED envVars
  /\ UNCHANGED acks

\* Releasing an agent drops its memberships and dead-letters its active rows
\* in one atomic write.
ReleaseAgent(a) ==
  /\ a \notin released
  /\ released' = released \cup {a}
  /\ status' = [r \in Rows |->
                  IF Recipient(r) = a /\ status[r] \in Active
                  THEN "dead_lettered" ELSE status[r]]
  /\ UNCHANGED <<seq, deliverySeq, ackSeq, expired, posted, deleted, stale>>
  /\ UNCHANGED readVars
  /\ UNCHANGED jobVars

-----------------------------------------------------------------------------
(* Retention, and the passing of time *)

\* Retention deletes a settled or failed row, or one that is active but long
\* expired.
PruneDelivery(r) ==
  /\ status[r] \in Settled \cup {"failed"} \/ (status[r] \in Active /\ r \in expired)
  /\ status' = [status EXCEPT ![r] = "pruned"]
  /\ UNCHANGED <<seq, deliverySeq, ackSeq>>
  /\ UNCHANGED readVars
  /\ UNCHANGED envVars
  /\ UNCHANGED jobVars

\* Mutant: the delete is not limited to messages that exist.
BugPruneAnyMessage(m) ==
  /\ m \notin deleted
  /\ deleted' = deleted \cup {m}
  /\ status' = [r \in Rows |->
                  IF Msg(r) = m /\ status[r] # "none" THEN "pruned" ELSE status[r]]
  /\ receipts' = {r \in receipts : Msg(r) # m}
  /\ UNCHANGED <<seq, deliverySeq, ackSeq, lastRead>>
  /\ UNCHANGED <<expired, posted, released, stale>>
  /\ UNCHANGED jobVars

\* The message itself, once its own TTL has passed; its delivery rows and its
\* read receipts go with it (ON DELETE CASCADE).
PruneMessage(m) ==
  /\ m \in posted \ deleted
  /\ deleted' = deleted \cup {m}
  /\ status' = [r \in Rows |->
                  IF Msg(r) = m /\ status[r] # "none" THEN "pruned" ELSE status[r]]
  /\ receipts' = {r \in receipts : Msg(r) # m}
  /\ UNCHANGED <<seq, deliverySeq, ackSeq, lastRead>>
  /\ UNCHANGED <<expired, posted, released, stale>>
  /\ UNCHANGED jobVars

\* expires_at of a row passes.
Expire(r) ==
  /\ status[r] \in Ackable
  /\ r \notin expired
  /\ expired' = expired \cup {r}
  /\ UNCHANGED mailboxVars
  /\ UNCHANGED readVars
  /\ UNCHANGED <<posted, deleted, released, stale>>
  /\ UNCHANGED jobVars

\* A ws node stays offline past the grace, or comes back.
NodeLost(n) ==
  /\ n \notin stale
  /\ stale' = stale \cup {n}
  /\ UNCHANGED mailboxVars
  /\ UNCHANGED readVars
  /\ UNCHANGED <<expired, posted, deleted, released>>
  /\ UNCHANGED jobVars

NodeBack(n) ==
  /\ n \in stale
  /\ stale' = stale \ {n}
  /\ UNCHANGED mailboxVars
  /\ UNCHANGED readVars
  /\ UNCHANGED <<expired, posted, deleted, released>>
  /\ UNCHANGED jobVars

-----------------------------------------------------------------------------
Init ==
  /\ status = [r \in Rows |-> "none"]
  /\ seq = [r \in Rows |-> 0]
  /\ deliverySeq = [a \in Agents |-> 0]
  /\ ackSeq = [a \in Agents |-> 0]
  /\ receipts = {}
  /\ lastRead = [a \in Agents |-> 0]
  /\ expired = {}
  /\ posted = {}
  /\ deleted = {}
  /\ released = {}
  /\ stale = {}
  /\ acks = {}
  /\ sweeps = {}
  /\ notices = [r \in Rows |-> 0]

Post ==
  \E m \in MsgIds :
    \/ \E R \in SUBSET Agents : PostChannel(m, R)
    \/ \E R \in SUBSET Agents : PostStrict(m, R)
    \/ \E R \in SUBSET Agents : PostGroupDm(m, R)
    \/ \E a \in Agents : PostDirect(m, a)

RowStep ==
  \E r \in Rows :
    \/ AckDelivery(r)
    \/ FailDelivery(r)
    \/ DeferDelivery(r)
    \/ MarkDelivered(r)
    \/ PruneDelivery(r)
    \/ Expire(r)

CumulativeAck ==
  \/ \E n \in Nodes, a \in Agents :
       \E u \in 1..(deliverySeq[a] + OverAck) : AckUpToRead(n, a, u)
  \/ \E j \in acks : AckUpToWrite(j) \/ AckUpToAbort(j)

Sweep ==
  \/ \E w \in Sweepers, kind \in {"ttl", "unreachable"} :
       \E D \in SUBSET DueRows(kind) : SweepRead(w, kind, D)
  \/ \E s \in sweeps : SweepWrite(s)

Next ==
  \/ Post
  \/ RowStep
  \/ \E m \in MsgIds, a \in Agents : MarkRead(m, a)
  \/ CumulativeAck
  \/ Sweep
  \/ \E a \in Agents : ReleaseAgent(a)
  \/ \E m \in MsgIds : PruneMessage(m)
  \/ \E n \in WsNodes : NodeLost(n) \/ NodeBack(n)

Spec == Init /\ [][Next]_vars

-----------------------------------------------------------------------------
(* Properties *)

\* Every row, counter, ack and sweep in flight is well formed, and only
\* messages that were posted are deleted by retention.
TypeOK ==
  /\ status \in [Rows -> Statuses]
  /\ seq \in [Rows -> Nat]
  /\ expired \in SUBSET Rows
  /\ deliverySeq \in [Agents -> Nat]
  /\ ackSeq \in [Agents -> Nat]
  /\ receipts \in SUBSET Rows
  /\ lastRead \in [Agents -> Nat]
  /\ posted \in SUBSET MsgIds
  /\ deleted \in SUBSET posted
  /\ released \in SUBSET Agents
  /\ stale \in SUBSET WsNodes
  /\ acks \in SUBSET AckJobs
  /\ sweeps \in SUBSET SweepJobs
  /\ notices \in [Rows -> Nat]

\* No sequence number is given twice to the same recipient, not even one whose
\* row retention has deleted (deliveries_agent_seq_unique, and the high-water
\* mark that outlives the rows).
SeqUnique ==
  \A r, q \in Rows :
    /\ status[r] # "none" => seq[r] \in 1..deliverySeq[Recipient(r)]
    /\ (r # q /\ Recipient(r) = Recipient(q)
          /\ status[r] # "none" /\ status[q] # "none") => seq[r] # seq[q]

\* No row that can still be delivered or deferred lies at or below the
\* cumulative cursor, where deliverPendingToNode (seq > delivery_ack_seq)
\* would never find it again.
ReplayVisible ==
  \A r \in Rows : status[r] \in Ackable => seq[r] > ackSeq[Recipient(r)]

\* Concurrent posts and deferrals never take the workspace over its cap.
WorkspaceBounded == WorkspaceDepth <= Cap

\* Whichever of the three acks settled it, an acked row has its read receipt,
\* and the recipient's read cursor is not behind it.
AckedIsRead ==
  \A r \in Rows : status[r] = "acked" =>
    r \in receipts /\ lastRead[Recipient(r)] >= Msg(r)

\* The sender is told of a dead-lettered row once, and of no other row,
\* however sweeps and acks overlap.
NoticedOnce ==
  \A r \in Rows : /\ notices[r] <= 1
                  /\ notices[r] = 1 => status[r] \in {"dead_lettered", "pruned"}

\* A row is dead-lettered before its TTL only while the node it was routed to
\* is unreachable, or because its recipient is being released: a node that is
\* back between the sweep's read and its write keeps its mail.
DropOnlyIfUnreachable ==
  [][\A r \in Rows :
       (status[r] # "dead_lettered" /\ status'[r] = "dead_lettered" /\ r \notin expired)
         => Unreachable(r) \/ Recipient(r) \in released' \ released]_vars

-----------------------------------------------------------------------------
(* The queue implements the abstract mailbox. *)

BoxOf(s) ==
  CASE s = "none" -> "absent"
    [] s \in Active -> "open"
    [] s = "failed" -> "parked"
    [] s = "acked" -> "read"
    [] s = "dead_lettered" -> "dropped"
    [] s = "pruned" -> "gone"

M == INSTANCE Mailbox WITH
       box <- [r \in Rows |-> BoxOf(status[r])], cursor <- ackSeq

\* Every write of the queue is a step the abstract mailbox allows.
ImplementsMailbox == M!BoxSpec

=============================================================================
