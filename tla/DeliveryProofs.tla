--------------------------- MODULE DeliveryProofs ---------------------------
(* Theorems about the delivery queue, for every value of its constants. *)
EXTENDS Delivery, FiniteSetTheorems, TLAPS

-----------------------------------------------------------------------------
(* Type correctness *)

\* The batch of ackRows keeps statuses, receipts and read cursors well formed.
LEMMA AckRowsType ==
  ASSUME TypeOK, NEW a \in Agents, NEW R \in SUBSET Rows, AckRows(a, R)
  PROVE  /\ status' \in [Rows -> Statuses]
         /\ receipts' \in SUBSET Rows
         /\ lastRead' \in [Agents -> Nat]
<1> DEFINE U == {r \in R : status[r] \in Ackable}
<1>1. status' \in [Rows -> Statuses] /\ receipts' \in SUBSET Rows
  BY DEF TypeOK, AckRows, Statuses, Settled, Ackable
<1>2. PICK n \in {lastRead[a]} \cup {Msg(r) : r \in U} :
        lastRead' = [lastRead EXCEPT ![a] = n]
  BY DEF AckRows
<1>3. n \in Nat
  BY DEF TypeOK, Msg, Rows, MsgIds
<1> QED
  BY <1>1, <1>2, <1>3 DEF TypeOK

\* A message and its rows are inserted well formed.
LEMMA InsertType ==
  ASSUME TypeOK, NEW m \in MsgIds, NEW C \in SUBSET Agents, InsertDeliveries(m, C)
  PROVE  TypeOK'
<1>1. \A a \in Agents : NextDeliverySeq(a) \in Nat
  BY DEF TypeOK, NextDeliverySeq
<1>2. \A r \in Rows : Recipient(r) \in Agents
  BY DEF Rows, Recipient
<1>3. status' \in [Rows -> Statuses]
  BY DEF TypeOK, InsertDeliveries, Statuses, Ackable
<1>4. seq' \in [Rows -> Nat]
  BY <1>1, <1>2 DEF TypeOK, InsertDeliveries
<1>5. deliverySeq' \in [Agents -> Nat]
  BY <1>1 DEF TypeOK, InsertDeliveries
<1>6. posted' \in SUBSET MsgIds /\ deleted' \in SUBSET posted'
  BY DEF TypeOK, InsertDeliveries
<1> QED
  BY <1>3, <1>4, <1>5, <1>6 DEF TypeOK, InsertDeliveries, readVars, jobVars

\* Every write of the queue preserves the types.
LEMMA TypeStep == TypeOK /\ [Next]_vars => TypeOK'
<1> SUFFICES ASSUME TypeOK, [Next]_vars PROVE TypeOK'
  OBVIOUS
<1> USE DEF mailboxVars, readVars, envVars, jobVars
<1>1. ASSUME NEW m \in MsgIds, NEW R \in SUBSET Agents,
             PostChannel(m, R) \/ PostStrict(m, R) \/ PostGroupDm(m, R)
      PROVE  TypeOK'
  <2>1. \E C \in SUBSET Agents : InsertDeliveries(m, C)
    BY <1>1 DEF PostChannel, PostStrict, PostGroupDm
  <2> QED  BY <2>1, InsertType
<1>2. ASSUME NEW m \in MsgIds, NEW a \in Agents, PostDirect(m, a)
      PROVE  TypeOK'
  <2>1. \E C \in SUBSET Agents : InsertDeliveries(m, C)
    BY <1>2 DEF PostDirect
  <2> QED  BY <2>1, InsertType
<1>3. ASSUME NEW r \in Rows, AckDelivery(r)
      PROVE  TypeOK'
  <2>1. Recipient(r) \in Agents
    BY DEF Rows, Recipient
  <2> QED  BY <1>3, <2>1, AckRowsType DEF AckDelivery, TypeOK
<1>4. ASSUME NEW r \in Rows,
             FailDelivery(r) \/ DeferDelivery(r) \/ MarkDelivered(r) \/ PruneDelivery(r)
      PROVE  TypeOK'
  BY <1>4 DEF FailDelivery, DeferDelivery, MarkDelivered, PruneDelivery,
              TypeOK, Statuses, Ackable
<1>5. ASSUME NEW r \in Rows, Expire(r)
      PROVE  TypeOK'
  BY <1>5 DEF Expire, TypeOK
<1>6. ASSUME NEW m \in MsgIds, NEW a \in Agents, MarkRead(m, a)
      PROVE  TypeOK'
  BY <1>6 DEF MarkRead, TypeOK, Rows, MsgIds, Statuses, Settled, Later
<1>7. ASSUME NEW n \in Nodes, NEW a \in Agents,
             NEW u \in 1..(deliverySeq[a] + OverAck), AckUpToRead(n, a, u)
      PROVE  TypeOK'
  <2>1. u \in Nat
    BY BoundAssumption DEF TypeOK
  <2>2. {r \in MsgIds \X {a} : status[r] \in Ackable /\ seq[r] <= u} \in SUBSET Rows
    BY DEF Rows
  <2>3. acks' \in SUBSET AckJobs
    BY <1>7, <2>1, <2>2 DEF AckUpToRead, TypeOK, AckJobs
  <2> QED  BY <1>7, <2>3 DEF AckUpToRead, TypeOK
<1>8. ASSUME NEW j \in acks, AckUpToWrite(j)
      PROVE  TypeOK'
  <2>1. j \in AckJobs
    BY DEF TypeOK
  <2>2. j.agent \in Agents /\ Chunk(j.todo) \in SUBSET Rows /\ j.upTo \in Nat
    BY <2>1 DEF AckJobs, Chunk
  <2>3. ackSeq' \in [Agents -> Nat]
    BY <1>8, <2>2 DEF AckUpToWrite, TypeOK, Later
  <2>4. acks' \in SUBSET AckJobs
    BY <1>8, <2>1 DEF AckUpToWrite, TypeOK, AckJobs
  <2> QED  BY <1>8, <2>2, <2>3, <2>4, AckRowsType DEF AckUpToWrite, TypeOK
<1>9. ASSUME NEW j \in acks, AckUpToAbort(j)
      PROVE  TypeOK'
  BY <1>9 DEF AckUpToAbort, TypeOK
<1>10. ASSUME NEW w \in Sweepers, NEW kind \in {"ttl", "unreachable"},
              NEW D \in SUBSET DueRows(kind), SweepRead(w, kind, D)
       PROVE  TypeOK'
  <2>1. D \in SUBSET Rows
    BY DEF DueRows
  <2>2. sweeps' \in SUBSET SweepJobs
    BY <1>10, <2>1 DEF SweepRead, TypeOK, SweepJobs
  <2> QED  BY <1>10, <2>2 DEF SweepRead, TypeOK
<1>11. ASSUME NEW s \in sweeps, SweepWrite(s)
       PROVE  TypeOK'
  BY <1>11 DEF SweepWrite, TypeOK, Statuses, Settled
<1>12. ASSUME NEW a \in Agents, ReleaseAgent(a)
       PROVE  TypeOK'
  BY <1>12 DEF ReleaseAgent, TypeOK, Statuses, Settled
<1>13. ASSUME NEW m \in MsgIds, PruneMessage(m)
       PROVE  TypeOK'
  BY <1>13 DEF PruneMessage, TypeOK, Statuses
<1>14. ASSUME NEW n \in WsNodes, NodeLost(n) \/ NodeBack(n)
       PROVE  TypeOK'
  BY <1>14 DEF NodeLost, NodeBack, TypeOK
<1>15. CASE UNCHANGED vars
  BY <1>15 DEF vars, TypeOK
<1> QED
  BY <1>1, <1>2, <1>3, <1>4, <1>5, <1>6, <1>7, <1>8, <1>9, <1>10, <1>11,
     <1>12, <1>13, <1>14, <1>15
     DEF Next, Post, RowStep, CumulativeAck, Sweep

\* Every state the queue reaches is well typed; in particular each ack and
\* sweep in flight names rows, recipients and sequence numbers that exist.
THEOREM TypeCorrect == Spec => []TypeOK
<1>1. Init => TypeOK
  BY BoundAssumption DEF Init, TypeOK, Statuses
<1> QED
  BY <1>1, TypeStep, PTL DEF Spec

-----------------------------------------------------------------------------
(* The shape of a step: an insert, one of the two halves of a cumulative ack, *)
(* or a step that only moves rows.                                            *)

RowMove(r) ==
  \/ status'[r] = status[r]
  \/ status[r] \in Ackable /\ status'[r] \in Statuses \ {"none"}
       /\ (status[r] = "failed" => status'[r] # "dead_lettered")
  \/ status[r] \in Settled /\ status'[r] = "pruned"

QuietStep ==
  /\ UNCHANGED <<seq, deliverySeq, ackSeq, posted>>
  /\ acks' \subseteq acks
  /\ \A r \in Rows : RowMove(r)

InsertStep == \E m \in MsgIds \ posted, C \in SUBSET Agents : InsertDeliveries(m, C)

AckReadStep ==
  \E n \in Nodes, a \in Agents :
    \E u \in 1..(deliverySeq[a] + OverAck) : AckUpToRead(n, a, u)

AckWriteStep == \E j \in acks : AckUpToWrite(j)

\* ackRows moves rows only from an ackable status to acked.
LEMMA AckRowsMove ==
  ASSUME TypeOK, NEW a \in Agents, NEW R \in SUBSET Rows, AckRows(a, R)
  PROVE  \A r \in Rows : RowMove(r)
  BY DEF TypeOK, AckRows, RowMove, Statuses, Settled, Ackable

\* Every step is a post, the read or the write of a cumulative ack, or one
\* that moves rows and leaves numbers, cursor and acks in flight alone.
LEMMA StepShape ==
  ASSUME TypeOK, [Next]_vars
  PROVE  InsertStep \/ AckReadStep \/ AckWriteStep \/ QuietStep
<1> USE DEF mailboxVars, readVars, envVars, jobVars
<1>1. ASSUME Post PROVE InsertStep
  BY <1>1 DEF Post, PostChannel, PostStrict, PostGroupDm, PostDirect, InsertStep
<1>2. ASSUME NEW r \in Rows, AckDelivery(r) PROVE QuietStep
  <2>1. Recipient(r) \in Agents
    BY DEF Rows, Recipient
  <2> QED  BY <1>2, <2>1, AckRowsMove DEF AckDelivery, QuietStep
<1>3. ASSUME NEW r \in Rows,
             FailDelivery(r) \/ DeferDelivery(r) \/ MarkDelivered(r) \/ PruneDelivery(r)
      PROVE  QuietStep
  BY <1>3 DEF FailDelivery, DeferDelivery, MarkDelivered, PruneDelivery, QuietStep,
              RowMove, TypeOK, Statuses, Active, Ackable, Settled
<1>4. ASSUME NEW r \in Rows, Expire(r) PROVE QuietStep
  BY <1>4 DEF Expire, QuietStep, RowMove
<1>5. ASSUME NEW m \in MsgIds, NEW a \in Agents, MarkRead(m, a) PROVE QuietStep
  BY <1>5 DEF MarkRead, QuietStep, RowMove, TypeOK, Rows, Statuses, Active, Ackable, Settled
<1>6. ASSUME NEW j \in acks, AckUpToAbort(j) PROVE QuietStep
  BY <1>6 DEF AckUpToAbort, QuietStep, RowMove
<1>7. ASSUME Sweep PROVE QuietStep
  <2>1. ASSUME NEW w \in Sweepers, NEW kind \in {"ttl", "unreachable"},
               NEW D \in SUBSET DueRows(kind), SweepRead(w, kind, D)
        PROVE  QuietStep
    BY <2>1 DEF SweepRead, QuietStep, RowMove
  <2>2. ASSUME NEW s \in sweeps, SweepWrite(s) PROVE QuietStep
    BY <2>2 DEF SweepWrite, SweepHits, QuietStep, RowMove, TypeOK, Statuses, Active,
                Ackable, Settled
  <2> QED  BY <1>7, <2>1, <2>2 DEF Sweep
<1>8. ASSUME NEW a \in Agents, ReleaseAgent(a) PROVE QuietStep
  BY <1>8 DEF ReleaseAgent, QuietStep, RowMove, TypeOK, Statuses, Active, Ackable, Settled
<1>9. ASSUME NEW m \in MsgIds, PruneMessage(m) PROVE QuietStep
  BY <1>9 DEF PruneMessage, QuietStep, RowMove, TypeOK, Statuses, Ackable, Settled
<1>10. ASSUME NEW n \in WsNodes, NodeLost(n) \/ NodeBack(n) PROVE QuietStep
  BY <1>10 DEF NodeLost, NodeBack, QuietStep, RowMove
<1>11. CASE UNCHANGED vars
  BY <1>11 DEF vars, QuietStep, RowMove
<1> QED
  BY <1>1, <1>2, <1>3, <1>4, <1>5, <1>6, <1>7, <1>8, <1>9, <1>10, <1>11
     DEF Next, RowStep, CumulativeAck, AckReadStep, AckWriteStep

-----------------------------------------------------------------------------
(* Sequence numbers *)

\* The strengthening of SeqUnique: a row has a number only once it exists, and
\* it exists only once its message is committed.
SeqInv ==
  /\ TypeOK
  /\ SeqUnique
  /\ \A r \in Rows : status[r] = "none" => seq[r] = 0
  /\ \A r \in Rows : status[r] # "none" => Msg(r) \in posted

\* A post numbers its rows above every number given before.
LEMMA SeqInsert ==
  ASSUME SeqInv, TypeOK', NEW m \in MsgIds \ posted, NEW C \in SUBSET Agents,
         InsertDeliveries(m, C)
  PROVE  SeqInv'
<1> DEFINE New == {m} \X C
<1>1. \A r \in New : r \in Rows /\ status[r] = "none" /\ Recipient(r) \in C /\ Msg(r) = m
  BY DEF SeqInv, Rows, Msg, Recipient
<1>2. \A a \in Agents : NextDeliverySeq(a) \in Nat /\ NextDeliverySeq(a) > deliverySeq[a]
  BY DEF SeqInv, TypeOK, NextDeliverySeq
<1>3. \A r \in Rows : Recipient(r) \in Agents
  BY DEF Rows, Recipient
<1>4. \A r \in Rows :
        IF r \in New
          THEN status'[r] = "queued" /\ seq'[r] = NextDeliverySeq(Recipient(r))
          ELSE status'[r] = status[r] /\ seq'[r] = seq[r]
  BY DEF InsertDeliveries
<1>5. \A r \in New : deliverySeq'[Recipient(r)] = NextDeliverySeq(Recipient(r))
  BY <1>1, <1>3 DEF InsertDeliveries
<1>6. \A a \in Agents : deliverySeq'[a] \in Nat /\ deliverySeq[a] \in Nat /\ deliverySeq'[a] >= deliverySeq[a]
  BY <1>2 DEF InsertDeliveries, SeqInv, TypeOK
<1>7. \A r, q \in New : Recipient(r) = Recipient(q) => r = q
  BY DEF Recipient
<1>8. \A r \in Rows : seq[r] \in Nat
  BY DEF SeqInv, TypeOK
<1>9. \A r \in Rows : status'[r] # "none" => seq'[r] \in 1..deliverySeq'[Recipient(r)]
  BY <1>2, <1>3, <1>4, <1>5, <1>6, <1>8 DEF SeqInv, SeqUnique
<1>10. ASSUME NEW r \in Rows, NEW q \in Rows, r # q, Recipient(r) = Recipient(q),
              status'[r] # "none", status'[q] # "none"
       PROVE  seq'[r] # seq'[q]
  <2> DEFINE a == Recipient(r)
  <2>1. a \in Agents /\ deliverySeq[a] \in Nat /\ NextDeliverySeq(a) > deliverySeq[a]
    BY <1>2, <1>3, <1>6
  <2>2. \A p \in {r, q} : p \notin New => seq'[p] \in 1..deliverySeq[a]
    BY <1>4, <1>10 DEF SeqInv, SeqUnique
  <2>3. \A p \in {r, q} : p \in New => seq'[p] = NextDeliverySeq(a)
    BY <1>4, <1>10
  <2>4. CASE r \notin New /\ q \notin New
    BY <1>4, <1>10, <2>4 DEF SeqInv, SeqUnique
  <2>5. CASE r \in New /\ q \in New
    BY <1>7, <1>10, <2>5
  <2>6. CASE (r \in New) # (q \in New)
    BY <1>2, <2>1, <2>2, <2>3, <2>6
  <2> QED  BY <2>4, <2>5, <2>6
<1>11. SeqUnique'
  BY <1>9, <1>10 DEF SeqUnique
<1>12. \A r \in Rows : status'[r] = "none" => seq'[r] = 0
  BY <1>4 DEF SeqInv
<1>13. \A r \in Rows : status'[r] # "none" => Msg(r) \in posted'
  BY <1>1, <1>4 DEF SeqInv, InsertDeliveries
<1> QED
  BY <1>11, <1>12, <1>13 DEF SeqInv

\* Every step preserves the numbering.
LEMMA SeqStep == SeqInv /\ [Next]_vars => SeqInv'
<1> SUFFICES ASSUME SeqInv, [Next]_vars PROVE SeqInv'
  OBVIOUS
<1>1. TypeOK /\ TypeOK'
  BY TypeStep DEF SeqInv
<1>2. CASE InsertStep
  BY <1>1, <1>2, SeqInsert DEF InsertStep
<1>3. CASE AckReadStep
  BY <1>1, <1>3 DEF AckReadStep, AckUpToRead, SeqInv, SeqUnique, mailboxVars, envVars
<1>4. ASSUME UNCHANGED <<seq, deliverySeq, posted>>, \A r \in Rows : RowMove(r)
      PROVE  SeqInv'
  <2>1. \A r \in Rows : status'[r] = "none" <=> status[r] = "none"
    BY <1>4 DEF RowMove, Ackable, Settled
  <2> QED  BY <1>1, <1>4, <2>1 DEF SeqInv, SeqUnique
<1>5. CASE AckWriteStep
  <2>1. PICK j \in acks : AckUpToWrite(j)
    BY <1>5 DEF AckWriteStep
  <2>2. j.agent \in Agents /\ Chunk(j.todo) \in SUBSET Rows
    BY <1>1 DEF TypeOK, AckJobs, Chunk
  <2> QED  BY <1>1, <1>4, <2>1, <2>2, AckRowsMove DEF AckUpToWrite, envVars
<1>6. CASE QuietStep
  BY <1>4, <1>6 DEF QuietStep
<1> QED
  BY <1>1, <1>2, <1>3, <1>5, <1>6, StepShape

\* No recipient is ever given the same sequence number twice, however posts,
\* acks and retention interleave.
THEOREM SequencesUnique == Spec => []SeqUnique
<1>1. Init => SeqInv
  BY BoundAssumption DEF Init, SeqInv, SeqUnique, TypeOK, Statuses
<1>2. SeqInv => SeqUnique
  BY DEF SeqInv
<1> QED
  BY <1>1, <1>2, SeqStep, PTL DEF Spec

-----------------------------------------------------------------------------
(* The cumulative cursor.  A node acknowledges what it received, so up_to_seq *)
(* is at most the sequence the recipient's stream has reached: OverAck = 0.   *)

\* An ack in flight holds every row it still has to settle before its cursor
\* write: a row that is deferred, failed or delivered meanwhile was in its
\* read already, and a row that is inserted meanwhile is numbered above upTo.
JobComplete(j) ==
  /\ j.upTo <= deliverySeq[j.agent]
  /\ \A r \in j.todo : Recipient(r) = j.agent
  /\ \A r \in Rows : (Recipient(r) = j.agent /\ status[r] \in Ackable /\ seq[r] <= j.upTo)
                       => r \in j.todo

CursorInv ==
  /\ SeqInv
  /\ \A a \in Agents : ackSeq[a] <= deliverySeq[a]
  /\ \A j \in acks : JobComplete(j)
  /\ ReplayVisible

\* A new row lies above the cursor, and above every ack in flight.
LEMMA CursorInsert ==
  ASSUME CursorInv, SeqInv', NEW m \in MsgIds \ posted, NEW C \in SUBSET Agents,
         InsertDeliveries(m, C)
  PROVE  CursorInv'
<1> DEFINE New == {m} \X C
<1>1. \A a \in Agents : /\ deliverySeq[a] \in Nat /\ ackSeq[a] \in Nat
                        /\ ackSeq[a] <= deliverySeq[a]
                        /\ NextDeliverySeq(a) = deliverySeq[a] + 1
                        /\ deliverySeq'[a] \in Nat /\ deliverySeq'[a] >= deliverySeq[a]
  BY DEF CursorInv, SeqInv, TypeOK, NextDeliverySeq, InsertDeliveries
<1>2. \A r \in Rows : Recipient(r) \in Agents
  BY DEF Rows, Recipient
<1>3. \A r \in Rows :
        IF r \in New
          THEN status'[r] = "queued" /\ seq'[r] = deliverySeq[Recipient(r)] + 1
          ELSE status'[r] = status[r] /\ seq'[r] = seq[r]
  BY <1>1, <1>2 DEF InsertDeliveries
<1>4. acks' = acks /\ ackSeq' = ackSeq
  BY DEF InsertDeliveries, jobVars
<1>5. \A a \in Agents : ackSeq'[a] <= deliverySeq'[a]
  BY <1>1, <1>4
<1>6. ASSUME NEW j \in acks PROVE JobComplete(j)'
  <2>1. j.agent \in Agents /\ j.upTo \in Nat /\ JobComplete(j)
    BY DEF CursorInv, SeqInv, TypeOK, AckJobs
  <2>2. j.upTo <= deliverySeq'[j.agent]
    BY <1>1, <2>1 DEF JobComplete
  <2>3. ASSUME NEW r \in Rows, Recipient(r) = j.agent, status'[r] \in Ackable, seq'[r] <= j.upTo
        PROVE  r \in j.todo
    <3>1. r \notin New
      BY <1>1, <1>3, <2>1, <2>3 DEF JobComplete
    <3> QED  BY <1>3, <2>1, <2>3, <3>1 DEF JobComplete
  <2> QED  BY <2>1, <2>2, <2>3 DEF JobComplete
<1>7. ReplayVisible'
  <2> SUFFICES ASSUME NEW r \in Rows, status'[r] \in Ackable
               PROVE  seq'[r] > ackSeq'[Recipient(r)]
    BY DEF ReplayVisible
  <2>1. CASE r \in New
    BY <1>1, <1>2, <1>3, <1>4, <2>1
  <2>2. CASE r \notin New
    BY <1>3, <1>4, <2>2 DEF CursorInv, ReplayVisible
  <2> QED  BY <2>1, <2>2
<1> QED
  BY <1>4, <1>5, <1>6, <1>7 DEF CursorInv

\* The read of a cumulative ack collects every row its cursor write will pass.
LEMMA CursorAckRead ==
  ASSUME OverAck = 0, CursorInv, SeqInv', AckReadStep
  PROVE  CursorInv'
<1>0. PICK n \in Nodes, a \in Agents : \E u \in 1..deliverySeq[a] : AckUpToRead(n, a, u)
  BY DEF AckReadStep, CursorInv, SeqInv, TypeOK
<1>1. PICK u \in 1..deliverySeq[a] : AckUpToRead(n, a, u)
  BY <1>0
<1> DEFINE new == [node |-> n, agent |-> a, upTo |-> u,
                   todo |-> {r \in MsgIds \X {a} : status[r] \in Ackable /\ seq[r] <= u}]
<1>2. acks' = acks \cup {new} /\ UNCHANGED <<status, seq, deliverySeq, ackSeq>>
  BY <1>1 DEF AckUpToRead, mailboxVars
<1>3. JobComplete(new)
  <2>1. \A r \in Rows : Recipient(r) = a <=> r \in MsgIds \X {a}
    BY DEF Rows, Recipient
  <2>2. new.agent = a /\ new.upTo = u
          /\ new.todo = {r \in Rows : Recipient(r) = a /\ status[r] \in Ackable /\ seq[r] <= u}
    BY <2>1 DEF Rows
  <2>3. u <= deliverySeq[a]
    BY DEF CursorInv, SeqInv, TypeOK
  <2> HIDE DEF new
  <2> QED  BY <2>2, <2>3 DEF JobComplete
<1> HIDE DEF new
<1> QED
  BY <1>2, <1>3 DEF CursorInv, JobComplete, ReplayVisible

\* Neither write of an ack, nor a quiet step, lets a row into Ackable.
LEMMA MoveKeepsJobs ==
  ASSUME TypeOK, \A r \in Rows : RowMove(r), UNCHANGED <<seq, deliverySeq>>,
         NEW j, JobComplete(j)
  PROVE  JobComplete(j)'
<1>1. \A r \in Rows : status'[r] \in Ackable => status[r] \in Ackable
  BY DEF RowMove, Ackable
<1> QED
  BY <1>1 DEF JobComplete

\* A chunk settles the rows it takes from the ack; the last one leaves none
\* behind when it moves the cursor.
LEMMA CursorAckWrite ==
  ASSUME CursorInv, SeqInv', NEW j \in acks, AckUpToWrite(j)
  PROVE  CursorInv'
<1> DEFINE chunk == Chunk(j.todo)
           a == j.agent
<1>1. a \in Agents /\ chunk \in SUBSET Rows /\ j.upTo \in Nat /\ JobComplete(j)
  BY DEF CursorInv, SeqInv, TypeOK, AckJobs, Chunk
<1>2. \A r \in Rows : RowMove(r)
  BY <1>1, AckRowsMove DEF AckUpToWrite, CursorInv, SeqInv
<1>3. \A r \in Rows : status'[r] \in Ackable => status[r] \in Ackable /\ r \notin chunk
  <2>1. status' = [r \in Rows |-> IF r \in chunk /\ status[r] \in Ackable
                                  THEN "acked" ELSE status[r]]
    BY DEF AckUpToWrite, AckRows
  <2> QED  BY <2>1 DEF Ackable
<1>4. UNCHANGED <<seq, deliverySeq>>
  BY DEF AckUpToWrite
<1>5. \A b \in Agents : deliverySeq[b] \in Nat /\ ackSeq[b] \in Nat
  BY DEF CursorInv, SeqInv, TypeOK
<1>6. \A b \in Agents : ackSeq'[b] <= deliverySeq'[b]
  BY <1>1, <1>4, <1>5 DEF AckUpToWrite, JobComplete, CursorInv, SeqInv, TypeOK, Later
<1>7. ASSUME NEW k \in acks' PROVE JobComplete(k)'
  <2>1. CASE k \in acks
    BY <1>2, <1>4, <2>1, MoveKeepsJobs DEF CursorInv, SeqInv
  <2>2. CASE k = [j EXCEPT !.todo = @ \ chunk]
    <3>1. j \in AckJobs
      BY DEF CursorInv, SeqInv, TypeOK
    <3>2. k.agent = a /\ k.upTo = j.upTo /\ k.todo = j.todo \ chunk
      BY <2>2, <3>1 DEF AckJobs
    <3> QED  BY <1>1, <1>3, <1>4, <3>2 DEF JobComplete
  <2> QED  BY <2>1, <2>2 DEF AckUpToWrite
<1>8. ReplayVisible'
  <2> SUFFICES ASSUME NEW r \in Rows, status'[r] \in Ackable
               PROVE  seq[r] > ackSeq'[Recipient(r)]
    BY <1>4 DEF ReplayVisible
  <2>1. status[r] \in Ackable /\ r \notin chunk /\ seq[r] > ackSeq[Recipient(r)]
    BY <1>3 DEF CursorInv, ReplayVisible
  <2>2. seq[r] \in Nat /\ Recipient(r) \in Agents
    BY DEF CursorInv, SeqInv, TypeOK, Rows, Recipient
  <2>3. CASE ackSeq' = ackSeq
    BY <2>1, <2>3
  <2>4. CASE chunk = j.todo /\ ackSeq' = [ackSeq EXCEPT ![a] = Later(@, j.upTo)]
    <3>1. CASE Recipient(r) = a
      <4>1. seq[r] > j.upTo
        BY <1>1, <2>1, <2>2, <2>4, <3>1 DEF JobComplete
      <4> QED  BY <1>1, <1>5, <2>1, <2>2, <2>4, <3>1, <4>1 DEF CursorInv, SeqInv, TypeOK, Later
    <3>2. CASE Recipient(r) # a
      BY <2>1, <2>2, <2>4, <3>2 DEF CursorInv, SeqInv, TypeOK
    <3> QED  BY <3>1, <3>2
  <2> QED  BY <2>3, <2>4 DEF AckUpToWrite
<1> QED
  BY <1>6, <1>7, <1>8 DEF CursorInv

\* Every step preserves the cursor invariant.
LEMMA CursorStep ==
  ASSUME OverAck = 0, CursorInv, [Next]_vars
  PROVE  CursorInv'
<1>1. SeqInv /\ SeqInv' /\ TypeOK
  BY SeqStep DEF CursorInv, SeqInv
<1>2. CASE InsertStep
  BY <1>1, <1>2, CursorInsert DEF InsertStep
<1>3. CASE AckReadStep
  BY <1>1, <1>3, CursorAckRead
<1>4. CASE AckWriteStep
  BY <1>1, <1>4, CursorAckWrite DEF AckWriteStep
<1>5. CASE QuietStep
  <2>1. \A r \in Rows : status'[r] \in Ackable => status[r] \in Ackable
    BY <1>5 DEF QuietStep, RowMove, Ackable
  <2>2. \A j \in acks' : JobComplete(j)'
    BY <1>1, <1>5, MoveKeepsJobs DEF QuietStep, CursorInv
  <2> QED  BY <1>1, <1>5, <2>1, <2>2 DEF QuietStep, CursorInv, ReplayVisible
<1> QED
  BY <1>1, <1>2, <1>3, <1>4, <1>5, StepShape

\* It holds of the empty queue.
LEMMA CursorInit == Init => CursorInv
  BY BoundAssumption
     DEF Init, CursorInv, SeqInv, SeqUnique, ReplayVisible, TypeOK, Statuses, Ackable

\* If nodes acknowledge only what was allocated, no delivery that can still be
\* delivered is ever hidden from replay by the cumulative cursor: not by an ack
\* out of order, two nodes acknowledging for one agent, an ack that dies
\* between two chunks, or a post while an ack is in flight.
THEOREM CursorHidesNothing ==
  ASSUME OverAck = 0
  PROVE  Spec => []ReplayVisible
<1>1. CursorInv /\ [Next]_vars => CursorInv'
  BY CursorStep
<1>2. CursorInv => ReplayVisible
  BY DEF CursorInv
<1> QED
  BY <1>1, <1>2, CursorInit, PTL DEF Spec

-----------------------------------------------------------------------------
(* The queue implements the abstract mailbox *)

\* The abstract place of each status.
LEMMA BoxTable ==
  /\ BoxOf("none") = "absent"   /\ BoxOf("queued") = "open"
  /\ BoxOf("delivered") = "open" /\ BoxOf("failed") = "parked"
  /\ BoxOf("acked") = "read"    /\ BoxOf("dead_lettered") = "dropped"
  /\ BoxOf("pruned") = "gone"
  BY DEF BoxOf, Active

Box == [r \in Rows |-> BoxOf(status[r])]

\* Every move of a row is a move the abstract mailbox permits.
LEMMA MoveInBox ==
  ASSUME TypeOK, TypeOK', NEW r \in Rows, RowMove(r)
  PROVE  BoxOf(status'[r]) = BoxOf(status[r])
           \/ <<BoxOf(status[r]), BoxOf(status'[r])>> \in M!Moves
<1>1. status[r] \in Statuses /\ status'[r] \in Statuses
  BY DEF TypeOK
<1> QED
  BY <1>1, BoxTable DEF RowMove, Statuses, Ackable, Settled, M!Moves

\* A post is an Accept of the mailbox.
LEMMA InsertRefines ==
  ASSUME CursorInv, NEW m \in MsgIds \ posted, NEW C \in SUBSET Agents,
         InsertDeliveries(m, C)
  PROVE  M!Accept(m)
<1> DEFINE New == {m} \X C
<1>1. \A a \in Agents : /\ deliverySeq[a] \in Nat /\ ackSeq[a] \in Nat
                        /\ ackSeq[a] <= deliverySeq[a]
                        /\ NextDeliverySeq(a) = deliverySeq[a] + 1
  BY DEF CursorInv, SeqInv, TypeOK, NextDeliverySeq
<1>2. \A r \in Rows : Recipient(r) \in Agents /\ Recipient(r) = r[2] /\ Msg(r) = r[1]
  BY DEF Rows, Recipient, Msg
<1>3. \A r \in Rows :
        IF r \in New
          THEN /\ status[r] = "none" /\ status'[r] = "queued" /\ r[1] = m
               /\ seq'[r] = deliverySeq[r[2]] + 1
          ELSE status'[r] = status[r] /\ seq'[r] = seq[r]
  BY <1>1, <1>2 DEF InsertDeliveries, CursorInv, SeqInv
<1>4. \A r \in Rows : seq[r] \in Nat /\ seq[r] <= deliverySeq[r[2]]
  <2> SUFFICES ASSUME NEW r \in Rows PROVE seq[r] \in Nat /\ seq[r] <= deliverySeq[r[2]]
    OBVIOUS
  <2>1. seq[r] \in Nat /\ (seq[r] = 0 \/ seq[r] \in 1..deliverySeq[r[2]])
    BY <1>2 DEF CursorInv, SeqInv, SeqUnique, TypeOK
  <2> QED  BY <1>1, <1>2, <2>1
<1>5. ASSUME NEW r \in Rows, BoxOf(status'[r]) # BoxOf(status[r])
      PROVE  /\ r[1] = m
             /\ BoxOf(status[r]) = "absent" /\ BoxOf(status'[r]) = "open"
             /\ seq'[r] > ackSeq[r[2]]
             /\ \A k \in Rows : k[2] = r[2] => seq[k] < seq'[r]
  BY <1>1, <1>2, <1>3, <1>4, <1>5, BoxTable
<1>6. \A r \in Rows : BoxOf(status'[r]) = BoxOf(status[r]) => seq'[r] = seq[r]
  BY <1>3, BoxTable
<1>7. ackSeq' = ackSeq
  BY DEF InsertDeliveries
<1> QED
  BY <1>5, <1>6, <1>7 DEF M!Accept, M!Items, Rows

\* A step that only moves rows is a Move of the mailbox.
LEMMA MoveRefines ==
  ASSUME TypeOK, TypeOK', \A r \in Rows : RowMove(r), UNCHANGED <<seq, ackSeq>>
  PROVE  M!Move
  BY MoveInBox DEF M!Move, M!Items, Rows

\* A chunk of a cumulative ack is a Move, and the last one an Acknowledge.
LEMMA AckWriteRefines ==
  ASSUME CursorInv, CursorInv', NEW j \in acks, AckUpToWrite(j)
  PROVE  M!Move \/ M!Acknowledge(j.agent)
<1> DEFINE chunk == Chunk(j.todo)
           a == j.agent
<1>1. j \in AckJobs /\ a \in Agents /\ chunk \in SUBSET Rows /\ j.upTo \in Nat
  BY DEF CursorInv, SeqInv, TypeOK, AckJobs, Chunk
<1>2. \A r \in Rows : RowMove(r)
  BY <1>1, AckRowsMove DEF AckUpToWrite, CursorInv, SeqInv
<1>3. TypeOK /\ TypeOK' /\ seq' = seq
  BY DEF AckUpToWrite, CursorInv, SeqInv
<1>4. CASE ackSeq' = ackSeq
  BY <1>2, <1>3, <1>4, MoveRefines
<1>5. CASE ackSeq' = [ackSeq EXCEPT ![a] = Later(@, j.upTo)]
  <2>1. ackSeq'[a] \in Nat /\ ackSeq'[a] >= ackSeq[a]
          /\ ackSeq' = [ackSeq EXCEPT ![a] = ackSeq'[a]]
    <3>1. ackSeq \in [Agents -> Nat]
      BY <1>3 DEF TypeOK
    <3>2. ackSeq'[a] = Later(ackSeq[a], j.upTo)
      BY <1>1, <1>5, <3>1
    <3>3. ackSeq' = [ackSeq EXCEPT ![a] = ackSeq'[a]]
      BY <1>5, <3>2
    <3>4. ackSeq'[a] \in Nat /\ ackSeq'[a] >= ackSeq[a]
      BY <1>1, <3>1, <3>2 DEF Later
    <3> QED  BY <3>3, <3>4
  <2>2. \A r \in chunk : r[2] = a
    BY DEF CursorInv, JobComplete, Chunk, Recipient
  <2>3. ASSUME NEW r \in Rows, BoxOf(status'[r]) # BoxOf(status[r])
        PROVE  r[2] = a /\ BoxOf(status[r]) \in M!Outstanding /\ BoxOf(status'[r]) = "read"
    <3>1. r \in chunk /\ status[r] \in Ackable /\ status'[r] = "acked"
      BY <2>3 DEF AckUpToWrite, AckRows
    <3> QED  BY <2>2, <3>1, BoxTable DEF Ackable, M!Outstanding
  <2>4. ASSUME NEW r \in Rows, r[2] = a, BoxOf(status'[r]) \in M!Outstanding
        PROVE  seq[r] > ackSeq'[a]
    <3>1. status'[r] \in Ackable
      BY <1>3, <2>4, BoxTable DEF TypeOK, Statuses, Settled, Ackable, M!Outstanding
    <3> QED  BY <1>3, <2>4, <3>1 DEF CursorInv, ReplayVisible, Recipient
  <2> QED
    BY <1>3, <2>1, <2>3, <2>4 DEF M!Acknowledge, M!Items, Rows
<1> QED
  BY <1>4, <1>5 DEF AckUpToWrite

\* If nodes acknowledge only what was allocated, every step of the queue is a
\* step of the abstract mailbox: a delivery that was accepted is outstanding
\* until it is read, dropped or removed, each for good, and the cursor moves
\* only past deliveries that are settled.
THEOREM QueueImplementsMailbox ==
  ASSUME OverAck = 0
  PROVE  Spec => ImplementsMailbox
<1>1. Init => M!BoxInit
  BY BoxTable DEF Init, M!BoxInit, M!Items, Rows
<1>2. CursorInv /\ [Next]_vars => CursorInv'
  BY CursorStep
<1>3. CursorInv /\ [Next]_vars => [M!BoxNext]_(M!boxVars)
  <2> SUFFICES ASSUME CursorInv, [Next]_vars
               PROVE  M!BoxNext \/ UNCHANGED M!boxVars
    OBVIOUS
  <2>1. CursorInv' /\ TypeOK /\ TypeOK'
    BY <1>2, TypeStep DEF CursorInv, SeqInv
  <2>2. CASE InsertStep
    BY <2>2, InsertRefines DEF InsertStep, M!BoxNext
  <2>3. CASE AckReadStep
    BY <2>3 DEF AckReadStep, AckUpToRead, mailboxVars, M!boxVars
  <2>4. CASE AckWriteStep
    <3>1. \A j \in acks : j.agent \in Agents
      BY <2>1 DEF TypeOK, AckJobs
    <3> QED  BY <2>1, <2>4, <3>1, AckWriteRefines DEF AckWriteStep, M!BoxNext
  <2>5. CASE QuietStep
    BY <2>1, <2>5, MoveRefines DEF QuietStep, M!BoxNext
  <2> QED
    BY <2>1, <2>2, <2>3, <2>4, <2>5, StepShape
<1> QED
  BY <1>1, <1>2, <1>3, CursorInit, PTL DEF Spec, ImplementsMailbox, M!BoxSpec

-----------------------------------------------------------------------------
(* Read state *)

\* ackRows writes the receipt and the read cursor of every row it settles.
LEMMA AckRowsRead ==
  ASSUME TypeOK, AckedIsRead, NEW a \in Agents, NEW R \in SUBSET Rows,
         \A r \in R : Recipient(r) = a, AckRows(a, R)
  PROVE  AckedIsRead'
<1> DEFINE U == {r \in R : status[r] \in Ackable}
<1>1. PICK n \in {lastRead[a]} \cup {Msg(r) : r \in U} :
        /\ lastRead[a] <= n /\ \A r \in U : Msg(r) <= n
        /\ lastRead' = [lastRead EXCEPT ![a] = n]
  BY DEF AckRows
<1>2. n \in Nat /\ \A r \in Rows : Msg(r) \in Nat /\ Recipient(r) \in Agents
  BY DEF TypeOK, Msg, Recipient, Rows, MsgIds
<1> SUFFICES ASSUME NEW r \in Rows, status'[r] = "acked"
             PROVE  r \in receipts' /\ lastRead'[Recipient(r)] >= Msg(r)
  BY DEF AckedIsRead
<1>3. receipts' = receipts \cup U /\ (r \in U \/ status[r] = "acked")
  BY DEF AckRows
<1>4. CASE r \in U
  BY <1>1, <1>2, <1>3, <1>4 DEF TypeOK
<1>5. CASE status[r] = "acked"
  <2>1. r \in receipts /\ lastRead[Recipient(r)] >= Msg(r)
    BY <1>5 DEF AckedIsRead
  <2>2. lastRead'[Recipient(r)] >= lastRead[Recipient(r)]
    BY <1>1, <1>2 DEF TypeOK
  <2>3. lastRead[Recipient(r)] \in Nat /\ lastRead'[Recipient(r)] \in Nat
    BY <1>1, <1>2 DEF TypeOK
  <2> QED  BY <1>2, <1>3, <2>1, <2>2, <2>3
<1> QED
  BY <1>3, <1>4, <1>5

\* The acks in flight settle only rows of the agent they name.
JobsOwn == \A j \in acks : \A r \in j.todo : Recipient(r) = j.agent

\* An ack in flight only ever names rows of its own agent.
LEMMA JobsOwnStep ==
  ASSUME TypeOK, JobsOwn, [Next]_vars
  PROVE  JobsOwn'
<1>1. CASE InsertStep
  BY <1>1 DEF InsertStep, InsertDeliveries, JobsOwn, jobVars
<1>2. CASE AckReadStep
  <2>1. \A a \in Agents : \A r \in MsgIds \X {a} : Recipient(r) = a
    BY DEF Recipient
  <2> QED  BY <1>2, <2>1 DEF AckReadStep, AckUpToRead, JobsOwn
<1>3. CASE AckWriteStep
  <2>1. PICK j \in acks : AckUpToWrite(j)
    BY <1>3 DEF AckWriteStep
  <2>2. j \in AckJobs
    BY DEF TypeOK
  <2>3. ASSUME NEW k \in acks', k \notin acks
        PROVE  k.agent = j.agent /\ k.todo \subseteq j.todo
    BY <2>1, <2>2, <2>3 DEF AckUpToWrite, AckJobs
  <2> QED  BY <2>3 DEF JobsOwn
<1>4. CASE QuietStep
  BY <1>4 DEF QuietStep, JobsOwn
<1> QED
  BY <1>1, <1>2, <1>3, <1>4, StepShape

ReadInv == TypeOK /\ JobsOwn /\ AckedIsRead

\* Every step keeps acked rows read.
LEMMA ReadStep == ReadInv /\ [Next]_vars => ReadInv'
<1> SUFFICES ASSUME ReadInv, [Next]_vars PROVE AckedIsRead'
  BY TypeStep, JobsOwnStep DEF ReadInv
<1> USE DEF mailboxVars, readVars, envVars, jobVars
<1>1. TypeOK /\ JobsOwn /\ AckedIsRead
  BY DEF ReadInv
<1>2. ASSUME UNCHANGED readVars, \A r \in Rows : status'[r] = "acked" => status[r] = "acked"
      PROVE  AckedIsRead'
  BY <1>1, <1>2 DEF AckedIsRead
<1>3. CASE Post
  BY <1>2, <1>3 DEF Post, PostChannel, PostStrict, PostGroupDm, PostDirect, InsertDeliveries
<1>4. ASSUME NEW r \in Rows, AckDelivery(r) PROVE AckedIsRead'
  <2>1. Recipient(r) \in Agents /\ {r} \in SUBSET Rows /\ AckRows(Recipient(r), {r})
    BY <1>4 DEF AckDelivery, Rows, Recipient
  <2> QED  BY <1>1, <2>1, AckRowsRead
<1>5. ASSUME NEW r \in Rows,
             \/ FailDelivery(r) \/ DeferDelivery(r) \/ MarkDelivered(r)
             \/ PruneDelivery(r) \/ Expire(r)
      PROVE  AckedIsRead'
  BY <1>1, <1>2, <1>5 DEF FailDelivery, DeferDelivery, MarkDelivered, PruneDelivery, Expire, TypeOK
<1>6. ASSUME NEW m \in MsgIds, NEW a \in Agents, MarkRead(m, a) PROVE AckedIsRead'
  <2> SUFFICES ASSUME NEW r \in Rows, status'[r] = "acked"
               PROVE  r \in receipts' /\ lastRead'[Recipient(r)] >= Msg(r)
    BY DEF AckedIsRead
  <2>1. m \in Nat /\ lastRead \in [Agents -> Nat] /\ Recipient(r) \in Agents /\ Msg(r) \in Nat
    BY <1>1 DEF TypeOK, MsgIds, Rows, Recipient, Msg
  <2>2. lastRead' = [lastRead EXCEPT ![a] = Later(@, m)] /\ receipts' = receipts \cup {<<m, a>>}
    BY <1>6 DEF MarkRead
  <2>3. CASE r = <<m, a>>
    BY <2>1, <2>2, <2>3 DEF Recipient, Msg, Later
  <2>4. CASE r # <<m, a>>
    <3>1. r \in receipts /\ lastRead[Recipient(r)] >= Msg(r)
      BY <1>1, <1>6, <2>4 DEF MarkRead, AckedIsRead, TypeOK
    <3> QED  BY <2>1, <2>2, <3>1 DEF Later
  <2> QED  BY <2>3, <2>4
<1>7. ASSUME NEW j \in acks, AckUpToWrite(j) PROVE AckedIsRead'
  <2>1. j.agent \in Agents /\ Chunk(j.todo) \in SUBSET Rows
    BY <1>1 DEF TypeOK, AckJobs, Chunk
  <2>2. \A r \in Chunk(j.todo) : Recipient(r) = j.agent
    BY <1>1 DEF JobsOwn, Chunk
  <2> QED  BY <1>1, <1>7, <2>1, <2>2, AckRowsRead DEF AckUpToWrite
<1>8. ASSUME AckReadStep \/ \E j \in acks : AckUpToAbort(j) PROVE AckedIsRead'
  BY <1>2, <1>8 DEF AckReadStep, AckUpToRead, AckUpToAbort
<1>9. CASE Sweep
  BY <1>1, <1>2, <1>9 DEF Sweep, SweepRead, SweepWrite, TypeOK
<1>10. ASSUME NEW a \in Agents, ReleaseAgent(a) PROVE AckedIsRead'
  BY <1>1, <1>2, <1>10 DEF ReleaseAgent, TypeOK
<1>11. ASSUME NEW m \in MsgIds, PruneMessage(m) PROVE AckedIsRead'
  BY <1>1, <1>11 DEF PruneMessage, AckedIsRead, TypeOK
<1>12. ASSUME NEW n \in WsNodes, NodeLost(n) \/ NodeBack(n) PROVE AckedIsRead'
  BY <1>2, <1>12 DEF NodeLost, NodeBack
<1>13. CASE UNCHANGED vars
  BY <1>2, <1>13 DEF vars
<1> QED
  BY <1>3, <1>4, <1>5, <1>6, <1>7, <1>8, <1>9, <1>10, <1>11, <1>12, <1>13
     DEF Next, RowStep, CumulativeAck, AckReadStep

\* A read receipt and a read cursor accompany every acked delivery, whether a
\* single ack, a cumulative ack or POST /messages/:id/read settled it.
THEOREM AckedDeliveriesAreRead == Spec => []AckedIsRead
<1>1. Init => ReadInv
  BY BoundAssumption DEF Init, ReadInv, JobsOwn, TypeOK, Statuses, AckedIsRead
<1>2. ReadInv => AckedIsRead
  BY DEF ReadInv
<1> QED
  BY <1>1, <1>2, ReadStep, PTL DEF Spec

-----------------------------------------------------------------------------
(* Dead-lettering *)

\* A TTL batch holds expired rows only, and a row that was noticed is settled.
SweepInv ==
  /\ SeqInv
  /\ NoticedOnce
  /\ \A s \in sweeps : s.kind = "ttl" => s.due \subseteq expired

\* Every step keeps the count of notices in line with the status.
LEMMA SweepStep == SweepInv /\ [Next]_vars => SweepInv'
<1> SUFFICES ASSUME SweepInv, [Next]_vars
             PROVE  NoticedOnce' /\ \A s \in sweeps' : s.kind = "ttl" => s.due \subseteq expired'
  BY SeqStep DEF SweepInv
<1> USE DEF mailboxVars, readVars, envVars, jobVars
<1>1. TypeOK /\ SeqInv /\ NoticedOnce /\ \A s \in sweeps : s.kind = "ttl" => s.due \subseteq expired
  BY DEF SweepInv, SeqInv
<1>2. CASE \E s \in sweeps : SweepWrite(s)
  <2>1. PICK s \in sweeps : SweepWrite(s)
    BY <1>2
  <2>2. \A r \in Rows : notices[r] \in Nat
    BY <1>1 DEF TypeOK
  <2>3. ASSUME NEW r \in SweepHits(s), r \in Rows
        PROVE  status'[r] = "dead_lettered" /\ notices'[r] = 1
    <3>1. notices[r] = 0
      BY <1>1, <2>2, <2>3 DEF SweepHits, Active, NoticedOnce
    <3> QED  BY <2>1, <2>3, <3>1 DEF SweepWrite
  <2>4. ASSUME NEW r \in Rows, r \notin SweepHits(s)
        PROVE  status'[r] = status[r] /\ notices'[r] = notices[r]
    BY <2>1, <2>4 DEF SweepWrite
  <2>5. NoticedOnce'
    BY <1>1, <2>3, <2>4 DEF NoticedOnce
  <2> QED  BY <1>1, <2>1, <2>5 DEF SweepWrite
<1>3. CASE \E w \in Sweepers, kind \in {"ttl", "unreachable"} :
             \E D \in SUBSET DueRows(kind) : SweepRead(w, kind, D)
  BY <1>1, <1>3 DEF SweepRead, DueRows, NoticedOnce
<1>4. ASSUME UNCHANGED <<sweeps, notices>>, expired \subseteq expired',
             \A r \in Rows : notices[r] = 1 => status'[r] \in {"dead_lettered", "pruned"}
      PROVE  NoticedOnce' /\ \A s \in sweeps' : s.kind = "ttl" => s.due \subseteq expired'
  BY <1>1, <1>4 DEF NoticedOnce
<1>5. CASE InsertStep
  <2>1. \A r \in Rows : status'[r] = status[r] \/ status[r] = "none"
    BY <1>1, <1>5 DEF InsertStep, InsertDeliveries, SeqInv, Msg
  <2>2. UNCHANGED <<sweeps, notices, expired>>
    BY <1>5 DEF InsertStep, InsertDeliveries
  <2> QED  BY <1>1, <1>4, <2>1, <2>2 DEF NoticedOnce
<1>6. ASSUME QuietStep \/ AckReadStep \/ AckWriteStep,
             UNCHANGED <<sweeps, notices>>, expired \subseteq expired'
      PROVE  NoticedOnce' /\ \A s \in sweeps' : s.kind = "ttl" => s.due \subseteq expired'
  <2>1. \A r \in Rows : RowMove(r)
    <3>1. CASE QuietStep  BY <3>1 DEF QuietStep
    <3>2. CASE AckReadStep  BY <3>2 DEF AckReadStep, AckUpToRead, RowMove
    <3>3. CASE AckWriteStep
      <4>1. PICK j \in acks : AckUpToWrite(j)
        BY <3>3 DEF AckWriteStep
      <4>2. j.agent \in Agents /\ Chunk(j.todo) \in SUBSET Rows
        BY <1>1 DEF TypeOK, AckJobs, Chunk
      <4> QED  BY <1>1, <4>1, <4>2, AckRowsMove DEF AckUpToWrite
    <3> QED  BY <1>6, <3>1, <3>2, <3>3
  <2>2. \A r \in Rows : notices[r] = 1 => status'[r] \in {"dead_lettered", "pruned"}
    BY <1>1, <2>1 DEF NoticedOnce, RowMove, Ackable, Settled
  <2> QED  BY <1>4, <1>6, <2>2
<1>7. \/ InsertStep \/ Sweep
      \/ UNCHANGED <<sweeps, notices>> /\ expired \subseteq expired'
  <2>1. ASSUME RowStep PROVE UNCHANGED <<sweeps, notices>> /\ expired \subseteq expired'
    BY <2>1 DEF RowStep, AckDelivery, FailDelivery, DeferDelivery, MarkDelivered,
                PruneDelivery, Expire
  <2>2. ASSUME CumulativeAck PROVE UNCHANGED <<sweeps, notices>> /\ expired \subseteq expired'
    BY <2>2 DEF CumulativeAck, AckUpToRead, AckUpToWrite, AckUpToAbort
  <2>3. ASSUME Post PROVE InsertStep
    BY <2>3 DEF Post, PostChannel, PostStrict, PostGroupDm, PostDirect, InsertStep
  <2> QED
    BY <2>1, <2>2, <2>3 DEF Next, MarkRead, ReleaseAgent, PruneMessage, NodeLost, NodeBack, vars
<1> QED
  BY <1>1, <1>2, <1>3, <1>5, <1>6, <1>7, StepShape DEF Sweep

\* It holds of the empty queue.
LEMMA SweepInit == Init => SweepInv
  BY BoundAssumption DEF Init, SweepInv, SeqInv, SeqUnique, NoticedOnce, TypeOK, Statuses

\* However sweeps, acks and retention overlap, a sender is told at most once
\* that a delivery was dropped, and only of one that was.
THEOREM SendersNoticedOnce == Spec => []NoticedOnce
<1>1. SweepInv => NoticedOnce
  BY DEF SweepInv
<1> QED
  BY <1>1, SweepInit, SweepStep, PTL DEF Spec

\* Mail is dropped before its TTL only while its node is unreachable, or with
\* the release of its recipient: a node that comes back between the sweep's
\* read and its write keeps its mail.
THEOREM ReachableMailIsKept == Spec => DropOnlyIfUnreachable
<1> DEFINE Drop(r) == status[r] # "dead_lettered" /\ status'[r] = "dead_lettered" /\ r \notin expired
           Excused(r) == Unreachable(r) \/ Recipient(r) \in released' \ released
<1>1. SweepInv /\ [Next]_vars => [\A r \in Rows : Drop(r) => Excused(r)]_vars
  <2> SUFFICES ASSUME SweepInv, Next, NEW r \in Rows, Drop(r)
               PROVE  Excused(r)
    OBVIOUS
  <2>1. TypeOK /\ \A s \in sweeps : s.kind = "ttl" => s.due \subseteq expired
    BY DEF SweepInv, SeqInv
  <2>2. ASSUME Sweep PROVE Unreachable(r)
    <3>1. PICK s \in sweeps : SweepWrite(s)
      BY <2>2 DEF Sweep, SweepRead, mailboxVars
    <3>2. r \in SweepHits(s)
      BY <3>1 DEF SweepWrite
    <3>3. s.kind \in {"ttl", "unreachable"}
      BY <2>1 DEF TypeOK, SweepJobs
    <3> QED  BY <2>1, <3>2, <3>3 DEF SweepHits
  <2>3. ASSUME NEW a \in Agents, ReleaseAgent(a) PROVE Recipient(r) \in released' \ released
    BY <2>3 DEF ReleaseAgent
  <2>4. ASSUME Post PROVE FALSE
    BY <2>4 DEF Post, PostChannel, PostStrict, PostGroupDm, PostDirect, InsertDeliveries
  <2>5. ASSUME RowStep PROVE FALSE
    BY <2>1, <2>5 DEF RowStep, AckDelivery, AckRows, FailDelivery, DeferDelivery, MarkDelivered,
                PruneDelivery, Expire, mailboxVars, TypeOK
  <2>6. ASSUME CumulativeAck PROVE FALSE
    BY <2>6 DEF CumulativeAck, AckUpToRead, AckUpToWrite, AckUpToAbort, AckRows, mailboxVars
  <2>7. ASSUME NEW m \in MsgIds, NEW a \in Agents, MarkRead(m, a) PROVE FALSE
    BY <2>1, <2>7 DEF MarkRead, TypeOK
  <2>8. ASSUME NEW m \in MsgIds, PruneMessage(m) PROVE FALSE
    BY <2>8 DEF PruneMessage
  <2>9. ASSUME NEW n \in WsNodes, NodeLost(n) \/ NodeBack(n) PROVE FALSE
    BY <2>9 DEF NodeLost, NodeBack, mailboxVars
  <2> QED
    BY <2>2, <2>3, <2>4, <2>5, <2>6, <2>7, <2>8, <2>9 DEF Next
<1> QED
  BY <1>1, SweepInit, SweepStep, PTL DEF Spec, DropOnlyIfUnreachable

-----------------------------------------------------------------------------
(* The workspace cap *)

\* There are finitely many rows.
LEMMA RowsFinite == IsFiniteSet(Rows)
<1>1. IsFiniteSet(MsgIds)
  BY MsgAssumption, FS_Interval DEF MsgIds
<1> QED
  BY <1>1, AgentAssumption, FS_Product DEF Rows

\* The live rows, as a set: WorkspaceDepth counts them.
LiveRows == {r \in Rows : status[r] \in Active /\ r \notin expired}

\* The depth of the workspace is the number of its live rows.
LEMMA DepthIs == WorkspaceDepth = Cardinality(LiveRows) /\ IsFiniteSet(LiveRows)
<1>1. LiveRows \in SUBSET Rows
  BY DEF LiveRows
<1> QED
  BY <1>1, RowsFinite, FS_Subset DEF WorkspaceDepth, Live, LiveRows

\* A step that makes no row live keeps the workspace within its cap.
LEMMA NoGrowth ==
  ASSUME WorkspaceBounded, LiveRows' \subseteq LiveRows
  PROVE  WorkspaceBounded'
<1>1. IsFiniteSet(LiveRows) /\ Cardinality(LiveRows) <= Cap
  BY DepthIs DEF WorkspaceBounded
<1>2. Cardinality(LiveRows') <= Cardinality(LiveRows) /\ IsFiniteSet(LiveRows')
  BY <1>1, FS_Subset
<1>3. Cardinality(LiveRows') \in Nat /\ Cardinality(LiveRows) \in Nat
  BY <1>1, <1>2, FS_CardinalityType
<1>4. WorkspaceDepth' = Cardinality(LiveRows')
  BY DEF WorkspaceDepth, Live, LiveRows
<1> QED
  BY <1>1, <1>2, <1>3, <1>4, BoundAssumption DEF WorkspaceBounded

\* A fanout the guard admits keeps the workspace within its cap.
LEMMA CapInsert ==
  ASSUME WorkspaceBounded, NEW m \in MsgIds, NEW C \in SUBSET Agents,
         WorkspaceDepth + Cardinality(C) <= Cap, InsertDeliveries(m, C)
  PROVE  WorkspaceBounded'
<1> DEFINE New == {m} \X C
<1>1. IsFiniteSet(LiveRows) /\ Cardinality(LiveRows) + Cardinality(C) <= Cap
  BY DepthIs
<1>2. IsFiniteSet(New) /\ Cardinality(New) = Cardinality(C) /\ Cardinality(C) \in Nat
  <2>1. IsFiniteSet(C) /\ IsFiniteSet({m}) /\ Cardinality({m}) = 1
    BY AgentAssumption, FS_Subset, FS_Singleton
  <2>2. Cardinality(C) \in Nat
    BY <2>1, FS_CardinalityType
  <2>3. IsFiniteSet(New) /\ Cardinality(New) = Cardinality({m}) * Cardinality(C)
    BY <2>1, FS_Product
  <2> QED  BY <2>1, <2>2, <2>3
<1>3. LiveRows' \subseteq LiveRows \cup New
  BY DEF LiveRows, InsertDeliveries
<1>4. /\ IsFiniteSet(LiveRows \cup New)
      /\ Cardinality(LiveRows \cup New)
           = Cardinality(LiveRows) + Cardinality(New) - Cardinality(LiveRows \cap New)
  BY <1>1, <1>2, FS_Union
<1>5. IsFiniteSet(LiveRows') /\ Cardinality(LiveRows') <= Cardinality(LiveRows \cup New)
  BY <1>3, <1>4, FS_Subset
<1>6. /\ Cardinality(LiveRows) \in Nat /\ Cardinality(LiveRows \cap New) \in Nat
      /\ Cardinality(LiveRows') \in Nat
  <2>1. IsFiniteSet(LiveRows \cap New)
    BY <1>1, FS_Subset
  <2> QED  BY <1>1, <1>5, <2>1, FS_CardinalityType
<1>7. WorkspaceDepth' = Cardinality(LiveRows')
  BY DEF WorkspaceDepth, Live, LiveRows
<1> HIDE DEF New
<1> QED
  BY <1>1, <1>2, <1>4, <1>5, <1>6, <1>7, BoundAssumption DEF WorkspaceBounded

\* So does a deferral.
LEMMA CapDefer ==
  ASSUME TypeOK, WorkspaceBounded, NEW r \in Rows, DeferDelivery(r)
  PROVE  WorkspaceBounded'
<1>1. LiveRows' \subseteq LiveRows \cup {r} /\ (r \notin LiveRows' => LiveRows' \subseteq LiveRows)
  BY DEF LiveRows, DeferDelivery, envVars, TypeOK, Active
<1>2. CASE r \in LiveRows \/ r \notin LiveRows'
  BY <1>1, <1>2, NoGrowth
<1>3. CASE r \notin LiveRows /\ r \in LiveRows'
  <2>1. status[r] = "failed" /\ r \notin expired
    BY <1>3 DEF LiveRows, DeferDelivery, envVars, Ackable, Active
  <2>2. Cardinality(LiveRows) < Cap /\ IsFiniteSet(LiveRows)
    BY <2>1, DepthIs DEF DeferDelivery, WorkspaceGrowthLimit
  <2>3. IsFiniteSet(LiveRows \cup {r}) /\ Cardinality(LiveRows \cup {r}) = Cardinality(LiveRows) + 1
    BY <1>3, <2>2, FS_AddElement
  <2>4. IsFiniteSet(LiveRows') /\ Cardinality(LiveRows') <= Cardinality(LiveRows \cup {r})
    BY <1>1, <2>3, FS_Subset
  <2>5. Cardinality(LiveRows') \in Nat /\ Cardinality(LiveRows) \in Nat
    BY <2>2, <2>4, FS_CardinalityType
  <2>6. WorkspaceDepth' = Cardinality(LiveRows')
    BY DEF WorkspaceDepth, Live, LiveRows
  <2> QED
    BY <2>2, <2>3, <2>4, <2>5, <2>6, BoundAssumption DEF WorkspaceBounded
<1> QED
  BY <1>2, <1>3

\* Every admission and every deferral is checked in the statement that grows
\* the workspace, so no interleaving of them takes it over its cap, whatever
\* the cap, the reserve and the mailbox depth cap are.
THEOREM WorkspaceStaysBounded == Spec => []WorkspaceBounded
<1>1. Init => TypeOK /\ WorkspaceBounded
  <2> SUFFICES ASSUME Init PROVE TypeOK /\ WorkspaceBounded
    OBVIOUS
  <2>1. TypeOK
    BY BoundAssumption DEF Init, TypeOK, Statuses
  <2>2. LiveRows = {}
    BY DEF Init, LiveRows, Active
  <2> QED  BY <2>1, <2>2, DepthIs, FS_EmptySet, BoundAssumption DEF WorkspaceBounded
<1>2. TypeOK /\ WorkspaceBounded /\ [Next]_vars => TypeOK' /\ WorkspaceBounded'
  <2> SUFFICES ASSUME TypeOK, WorkspaceBounded, [Next]_vars PROVE WorkspaceBounded'
    BY TypeStep
  <2> USE DEF mailboxVars, readVars, envVars, jobVars
  <2>1. ASSUME Post PROVE WorkspaceBounded'
    <3>1. PICK m \in MsgIds, C \in SUBSET Agents :
            /\ InsertDeliveries(m, C)
            /\ Admitted(C, "broadcast") \/ Admitted(C, "targeted")
      BY <2>1 DEF Post, PostChannel, PostStrict, PostGroupDm, PostDirect
    <3>2. CASE C = {}
      <4>1. LiveRows' \subseteq LiveRows
        BY <3>1, <3>2 DEF InsertDeliveries, LiveRows
      <4> QED  BY <4>1, NoGrowth
    <3>3. CASE C # {}
      <4>1. WorkspaceDepth \in Nat /\ Cardinality(C) \in Nat
        BY DepthIs, FS_CardinalityType, FS_Subset, AgentAssumption
      <4>2. WorkspaceDepth + Cardinality(C) <= Cap
        BY <3>1, <3>3, <4>1, BoundAssumption DEF Admitted, WorkspaceGrowthLimit
      <4> QED  BY <3>1, <4>2, CapInsert
    <3> QED  BY <3>2, <3>3
  <2>2. ASSUME NEW r \in Rows, DeferDelivery(r) PROVE WorkspaceBounded'
    BY <2>2, CapDefer
  <2>3. ASSUME NEW r \in Rows,
               \/ AckDelivery(r) \/ FailDelivery(r) \/ MarkDelivered(r)
               \/ PruneDelivery(r) \/ Expire(r)
        PROVE  LiveRows' \subseteq LiveRows
    BY <2>3 DEF LiveRows, AckDelivery, AckRows, FailDelivery, MarkDelivered, PruneDelivery,
                Expire, TypeOK, Active
  <2>4. ASSUME NEW m \in MsgIds, NEW a \in Agents, MarkRead(m, a)
        PROVE  LiveRows' \subseteq LiveRows
    BY <2>4 DEF LiveRows, MarkRead, TypeOK, Active
  <2>5. ASSUME CumulativeAck PROVE LiveRows' \subseteq LiveRows
    BY <2>5 DEF LiveRows, CumulativeAck, AckUpToRead, AckUpToWrite, AckUpToAbort, AckRows, Active
  <2>6. ASSUME Sweep PROVE LiveRows' \subseteq LiveRows
    BY <2>6 DEF LiveRows, Sweep, SweepRead, SweepWrite, Active
  <2>7. ASSUME NEW a \in Agents, ReleaseAgent(a) PROVE LiveRows' \subseteq LiveRows
    BY <2>7 DEF LiveRows, ReleaseAgent, Active
  <2>8. ASSUME NEW m \in MsgIds, PruneMessage(m) PROVE LiveRows' \subseteq LiveRows
    BY <2>8 DEF LiveRows, PruneMessage, Active
  <2>9. ASSUME \/ \E n \in WsNodes : NodeLost(n) \/ NodeBack(n)
               \/ UNCHANGED vars
        PROVE  LiveRows' \subseteq LiveRows
    BY <2>9 DEF LiveRows, NodeLost, NodeBack, vars
  <2> QED
    BY <2>1, <2>2, <2>3, <2>4, <2>5, <2>6, <2>7, <2>8, <2>9, NoGrowth DEF Next, RowStep
<1> QED
  BY <1>1, <1>2, PTL DEF Spec
=============================================================================
